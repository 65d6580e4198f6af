--------------------------- MODULE EventLog_proofs ---------------------------
(* The durable log: what retention keeps of any file, and the safety        *)
(* invariants of the writer, for every limit and any number of crashes.     *)
EXTENDS EventLog, Ordering_proofs, SequenceTheorems, TLAPS

\* The entries were stamped in the order they stand in.
Ordered(s) == \A i, j \in DOMAIN s : i < j => s[i].id < s[j].id /\ s[i].at <= s[j].at

\* Every entry of t is one of s, and t keeps their order.
Part(t, s) ==
    /\ t \in Seq(Entry) /\ Ordered(t) /\ Len(t) <= Len(s)
    /\ \A k \in DOMAIN t : \E i \in DOMAIN s : t[k] = s[i]

-----------------------------------------------------------------------------
(* Selecting and sorting.                                                   *)

\* The members of t are those of s at the positions in S, in their order.
Picked(t, s, S) ==
    \E f \in [DOMAIN t -> S] :
        /\ \A k \in DOMAIN t : t[k] = s[f[k]]
        /\ \A i \in S : \E k \in DOMAIN t : f[k] = i
        /\ \A j, k \in DOMAIN t : j < k => f[j] < f[k]

LEMMA OnlyMember == ASSUME NEW X, NEW q \in Seq(X), Len(q) = 1 PROVE q[1] \in X
  OBVIOUS

LEMMA SelectedShape ==
    ASSUME NEW X, NEW s \in Seq(X), NEW S \in SUBSET (DOMAIN s), NEW t, t = Selected(s, S)
    PROVE  t \in Seq(X) /\ Len(t) <= Len(s) /\ Picked(t, s, S)
<1> DEFINE f == Ascending(S)
           n == Cardinality(S)
<1>1. DOMAIN s = 1 .. Len(s) /\ Len(s) \in Nat
  OBVIOUS
<1>2. /\ n \in Nat /\ n <= Len(s)
      /\ f \in [1 .. n -> S]
      /\ \A x \in S : \E i \in 1 .. n : f[i] = x
      /\ \A i, j \in 1 .. n : i < j => f[i] < f[j]
  BY <1>1, AscendingIsSorted
<1>3. t = [k \in DOMAIN f |-> s[f[k]]]
  BY DEF Selected
<1> HIDE DEF f, n
<1>4. t = [k \in 1 .. n |-> s[f[k]]]
  BY <1>2, <1>3
<1>5. \A k \in 1 .. n : s[f[k]] \in X
  BY <1>1, <1>2
<1>6. t \in Seq(X) /\ Len(t) = n /\ DOMAIN t = 1 .. n
  BY <1>2, <1>4, <1>5
<1>7. \A k \in DOMAIN t : t[k] = s[f[k]]
  BY <1>4, <1>6
<1>8. /\ f \in [DOMAIN t -> S]
      /\ \A i \in S : \E k \in DOMAIN t : f[k] = i
      /\ \A j, k \in DOMAIN t : j < k => f[j] < f[k]
  BY <1>2, <1>6, Zenon
<1>9. Len(t) <= Len(s)
  BY <1>2, <1>6
<1>10. QED
  BY <1>6, <1>7, <1>8, <1>9, Zenon DEF Picked

Holds(t, s, S) ==
    /\ \A k \in DOMAIN t : \E i \in S : t[k] = s[i]
    /\ \A i \in S : \E k \in DOMAIN t : t[k] = s[i]

LEMMA SelectedKeepsOrder ==
    ASSUME NEW s \in Seq(Entry), Ordered(s), NEW S \in SUBSET (DOMAIN s), NEW t, t = Selected(s, S)
    PROVE  Part(t, s) /\ Holds(t, s, S)
<1>1. t \in Seq(Entry) /\ Len(t) <= Len(s) /\ Picked(t, s, S)
  BY SelectedShape, Zenon
<1>2. PICK f \in [DOMAIN t -> S] :
        /\ \A k \in DOMAIN t : t[k] = s[f[k]]
        /\ \A i \in S : \E k \in DOMAIN t : f[k] = i
        /\ \A j, k \in DOMAIN t : j < k => f[j] < f[k]
  BY <1>1, Zenon DEF Picked
<1>3. \A k \in DOMAIN t : f[k] \in S /\ f[k] \in DOMAIN s
  BY <1>2
<1>4. Ordered(t)
  BY <1>2, <1>3 DEF Ordered
<1>5. \A k \in DOMAIN t : \E i \in S : t[k] = s[i]
  BY <1>2, <1>3
<1>6. \A i \in S : \E k \in DOMAIN t : t[k] = s[i]
  BY <1>2
<1>7. QED
  BY <1>1, <1>4, <1>5, <1>6, Zenon DEF Part, Holds

\* Sorting by timestamp leaves entries that are in order where they are.
LEMMA ByTimeKeepsOrder ==
    ASSUME NEW s \in Seq(Entry), Ordered(s), NEW t, t = ByTime(s)
    PROVE  Part(t, s) /\ \A i \in DOMAIN s : \E k \in DOMAIN t : t[k] = s[i]
<1> DEFINE n == Len(s)
           D == DOMAIN s
           R == Sooner(s)
           f == Arranged(D, R)
<1>1. D = 1 .. n /\ n \in Nat /\ IsFiniteSet(D) /\ Cardinality(D) = n
  <2>1. D = 1 .. n /\ n \in Nat
    OBVIOUS
  <2> HIDE DEF D, n
  <2>2. QED
    BY <2>1, IntervalLength
<1>2. \A i \in D : s[i].id \in Nat /\ s[i].at \in Nat
  <2>1. \A i \in D : s[i] \in Entry
    OBVIOUS
  <2> HIDE DEF D
  <2>2. QED
    BY <2>1 DEF Entry
<1>3. \A i, j \in D : <<i, j>> \in R <=> s[i].at < s[j].at \/ (s[i].at = s[j].at /\ i < j)
  BY DEF Sooner
<1>4. t = [k \in DOMAIN f |-> s[f[k]]]
  BY DEF ByTime
<1> HIDE DEF R, D, f, n
<1>5. \A i, j \in D : <<i, j>> \in R <=> i < j
  <2> SUFFICES ASSUME NEW i \in D, NEW j \in D
               PROVE  <<i, j>> \in R <=> i < j
    OBVIOUS
  <2>1. i \in Nat /\ j \in Nat
    BY <1>1
  <2>2. i < j => s[i].at <= s[j].at
    BY DEF D, Ordered
  <2>3. j < i => s[j].at <= s[i].at
    BY DEF D, Ordered
  <2>4. QED
    BY <1>2, <1>3, <2>1, <2>2, <2>3
<1>6. Orders(R, D)
  BY <1>1, <1>5 DEF Orders
<1>7. Arrangement(f, D, R)
  BY <1>1, <1>6, ArrangedIsSorted DEF f
<1>8. /\ f \in [1 .. n -> D]
      /\ \A i \in D : \E k \in 1 .. n : f[k] = i
      /\ \A j, k \in 1 .. n : j < k => f[j] < f[k]
  BY <1>1, <1>5, <1>7 DEF Arrangement
<1>9. t = [k \in 1 .. n |-> s[f[k]]]
  BY <1>4, <1>8
<1>10. t \in Seq(Entry) /\ Len(t) = n /\ DOMAIN t = 1 .. n
  BY <1>1, <1>8, <1>9, SMTT(30) DEF D
<1>11. \A k \in 1 .. n : t[k] = s[f[k]] /\ f[k] \in D
  BY <1>8, <1>9
<1>12. Ordered(t)
  BY <1>8, <1>10, <1>11 DEF Ordered, D
<1>13. \A k \in DOMAIN t : \E i \in DOMAIN s : t[k] = s[i]
  BY <1>10, <1>11 DEF D
<1>14. \A i \in DOMAIN s : \E k \in DOMAIN t : t[k] = s[i]
  BY <1>8, <1>10, <1>11 DEF D
<1>15. Len(t) <= Len(s)
  BY <1>1, <1>10 DEF n
<1>16. QED
  BY <1>10, <1>12, <1>13, <1>14, <1>15, Zenon DEF Part

\* The size limit drops the oldest entries only.
LEMMA NewestKeepsOrder ==
    ASSUME NEW s \in Seq(Entry), Ordered(s), NEW n \in Nat \ {0}, NEW t, t = Newest(s, n)
    PROVE  /\ Part(t, s) /\ Len(t) <= n
           /\ \A i \in DOMAIN s :
                \/ \E k \in DOMAIN t : t[k] = s[i]
                \/ Len(t) = n /\ \A k \in DOMAIN t : t[k].id > s[i].id
<1>0. DOMAIN s = 1 .. Len(s) /\ Len(s) \in Nat
  OBVIOUS
<1>1. CASE Len(s) <= n
  <2>1. t = s
    BY <1>1 DEF Newest
  <2>2. \A i \in DOMAIN s : \E k \in DOMAIN s : s[k] = s[i]
    OBVIOUS
  <2>3. Part(s, s)
    BY <1>0, <2>2 DEF Part
  <2>4. QED
    BY <1>1, <2>1, <2>2, <2>3, Zenon
<1>2. CASE Len(s) > n
  <2> DEFINE m == Len(s) - n
  <2>0. m \in Nat /\ m + n = Len(s)
    BY <1>0, <1>2
  <2>1. t = SubSeq(s, m + 1, Len(s))
    BY <1>0, <1>2 DEF Newest
  <2>2. t \in Seq(Entry) /\ Len(t) = n /\ DOMAIN t = 1 .. n
    BY <1>0, <2>0, <2>1
  <2>3. \A k \in 1 .. n : t[k] = s[m + k] /\ m + k \in DOMAIN s
    BY <1>0, <2>0, <2>1
  <2> HIDE DEF m
  <2>4. Ordered(t)
    BY <2>0, <2>2, <2>3 DEF Ordered
  <2>5. \A k \in DOMAIN t : \E i \in DOMAIN s : t[k] = s[i]
    BY <2>2, <2>3
  <2>6. ASSUME NEW i \in DOMAIN s
        PROVE  \/ \E k \in DOMAIN t : t[k] = s[i]
               \/ Len(t) = n /\ \A k \in DOMAIN t : t[k].id > s[i].id
    <3>1. CASE i > m
      <4>1. i - m \in 1 .. n /\ m + (i - m) = i
        BY <1>0, <2>0, <3>1
      <4>2. t[i - m] = s[i]
        BY <2>3, <4>1
      <4>3. QED
        BY <2>2, <4>1, <4>2
    <3>2. CASE i <= m
      <4>1. ASSUME NEW k \in 1 .. n
            PROVE  t[k].id > s[i].id
        <5>1. i < m + k /\ m + k \in DOMAIN s /\ t[k] = s[m + k]
          BY <1>0, <2>0, <2>3, <3>2
        <5>2. s[i] \in Entry /\ s[m + k] \in Entry
          BY <5>1
        <5>3. s[i].id < s[m + k].id
          BY <5>1, Zenon DEF Ordered
        <5>4. s[i].id \in Nat /\ s[m + k].id \in Nat
          BY <5>2 DEF Entry
        <5>5. QED
          BY <5>1, <5>3, <5>4
      <4>2. QED
        BY <2>2, <4>1
    <3>3. QED
      BY <1>0, <2>0, <3>1, <3>2
  <2>7. Part(t, s)
    BY <1>0, <1>2, <2>2, <2>4, <2>5 DEF Part
  <2>8. QED
    BY <2>2, <2>6, <2>7
<1>3. QED
  BY <1>0, <1>1, <1>2

-----------------------------------------------------------------------------
(* What a reader sees, and what retention keeps of it.                       *)

\* The lines that parse are in the order their entries were stamped in.
FileInOrder(file_lines) ==
    \A i, j \in DOMAIN file_lines :
        i < j /\ Len(file_lines[i]) = 1 /\ Len(file_lines[j]) = 1 =>
            /\ file_lines[i][1].id < file_lines[j][1].id
            /\ file_lines[i][1].at <= file_lines[j][1].at

Shown(file_lines, e) == \E i \in DOMAIN file_lines : Len(file_lines[i]) = 1 /\ file_lines[i][1] = e

LEMMA ReadableShape ==
    ASSUME lines \in Seq(Seq(Entry)), FileInOrder(lines), NEW s, s = Readable
    PROVE  /\ s \in Seq(Entry) /\ Ordered(s) /\ Len(s) <= Len(lines)
           /\ \A k \in DOMAIN s : Shown(lines, s[k])
           /\ \A e : Shown(lines, e) => \E k \in DOMAIN s : s[k] = e
<1> DEFINE S == {i \in DOMAIN lines : Len(lines[i]) = 1}
           t == Selected(lines, S)
<1>1. s = [k \in DOMAIN t |-> t[k][1]]
  BY DEF Readable
<1>2. t \in Seq(Seq(Entry)) /\ Len(t) <= Len(lines) /\ Picked(t, lines, S)
  <2>1. S \in SUBSET (DOMAIN lines) /\ t = Selected(lines, S)
    OBVIOUS
  <2> HIDE DEF S, t
  <2>2. QED
    BY <2>1, SelectedShape, Zenon
<1> HIDE DEF t
<1>3. PICK f \in [DOMAIN t -> S] :
           /\ \A k \in DOMAIN t : t[k] = lines[f[k]]
           /\ \A i \in S : \E k \in DOMAIN t : f[k] = i
           /\ \A j, k \in DOMAIN t : j < k => f[j] < f[k]
  BY <1>2, Zenon DEF Picked
<1>4. \A k \in DOMAIN t : f[k] \in DOMAIN lines /\ Len(lines[f[k]]) = 1 /\ t[k] = lines[f[k]]
  BY <1>3
<1>5. \A k \in DOMAIN t : t[k][1] \in Entry /\ t[k][1] = lines[f[k]][1]
  <2>1. ASSUME NEW k \in DOMAIN t PROVE t[k][1] \in Entry
    <3>1. t \in Seq(Seq(Entry)) /\ Len(t[k]) = 1
      BY <1>2, <1>4, <2>1, Zenon
    <3>2. t[k] \in Seq(Entry)
      BY <2>1, <3>1
    <3>3. QED
      BY <3>1, <3>2, OnlyMember, Zenon
  <2>2. QED
    BY <1>4, <2>1
<1>6. DOMAIN t = 1 .. Len(t) /\ Len(t) \in Nat
  BY <1>2
<1>7. s \in Seq(Entry) /\ DOMAIN s = DOMAIN t /\ Len(s) = Len(t)
  BY <1>1, <1>5, <1>6
<1>8. \A k \in DOMAIN s : s[k] = lines[f[k]][1] /\ f[k] \in DOMAIN lines /\ Len(lines[f[k]]) = 1
  BY <1>1, <1>4, <1>5, <1>7
<1>9. Ordered(s)
  BY <1>3, <1>7, <1>8 DEF Ordered, FileInOrder
<1>10. \A k \in DOMAIN s : Shown(lines, s[k])
  BY <1>8, Zenon DEF Shown
<1>11. ASSUME NEW e, Shown(lines, e)
       PROVE  \E k \in DOMAIN s : s[k] = e
  <2>1. PICK i \in S : lines[i][1] = e
    BY <1>11 DEF Shown
  <2>2. PICK k \in DOMAIN t : f[k] = i
    BY <1>3
  <2>3. QED
    BY <1>7, <1>8, <2>1, <2>2
<1>12. QED
  BY <1>2, <1>7, <1>9, <1>10, <1>11, Zenon

\* What rotate_retention keeps: at most MaxEntries recent entries, in order; a
\* recent entry that it drops is older than all it keeps.
LEMMA RetainedShape ==
    ASSUME lines \in Seq(Seq(Entry)), FileInOrder(lines), clock \in Nat, NEW r, r = Retained
    PROVE  /\ r \in Seq(Entry) /\ Ordered(r) /\ Len(r) <= MaxEntries
           /\ \A k \in DOMAIN r : Shown(lines, r[k]) /\ IsRecent(r[k])
           /\ \A e : Shown(lines, e) /\ IsRecent(e) =>
                \/ \E k \in DOMAIN r : r[k] = e
                \/ Len(r) = MaxEntries /\ \A k \in DOMAIN r : r[k].id > e.id
<1> DEFINE s == Readable
           S == {i \in DOMAIN s : IsRecent(s[i])}
           t == Selected(s, S)
           u == ByTime(t)
<1>1. /\ s \in Seq(Entry) /\ Ordered(s)
      /\ \A k \in DOMAIN s : Shown(lines, s[k])
      /\ \A e : Shown(lines, e) => \E k \in DOMAIN s : s[k] = e
  BY ReadableShape
<1>2. r = Newest(u, MaxEntries)
  BY DEF Retained, Recent
<1> HIDE DEF s
<1>3. Part(t, s) /\ Holds(t, s, S)
  <2>1. S \in SUBSET (DOMAIN s) /\ t = Selected(s, S)
    OBVIOUS
  <2> HIDE DEF S, t
  <2>2. QED
    BY <1>1, <2>1, SelectedKeepsOrder, Zenon
<1>4. \A k \in DOMAIN t : Shown(lines, t[k]) /\ IsRecent(t[k])
  <2>1. \A i \in S : i \in DOMAIN s /\ IsRecent(s[i])
    OBVIOUS
  <2>2. QED
    BY <1>1, <1>3, <2>1, Zenon DEF Holds
<1>5. \A e : Shown(lines, e) /\ IsRecent(e) => \E k \in DOMAIN t : t[k] = e
  <2>1. ASSUME NEW e, Shown(lines, e), IsRecent(e)
        PROVE  \E k \in DOMAIN t : t[k] = e
    <3>1. PICK i \in DOMAIN s : s[i] = e
      BY <1>1, <2>1, Zenon
    <3>2. i \in S
      BY <2>1, <3>1, Zenon
    <3>3. QED
      BY <1>3, <3>1, <3>2, Zenon DEF Holds
  <2>2. QED
    BY <2>1
<1> HIDE DEF t, S
<1>6. t \in Seq(Entry) /\ Ordered(t)
  BY <1>3, Zenon DEF Part
<1>7. Part(u, t) /\ \A i \in DOMAIN t : \E k \in DOMAIN u : u[k] = t[i]
  BY <1>6, ByTimeKeepsOrder, Zenon
<1> HIDE DEF u
<1>8. u \in Seq(Entry) /\ Ordered(u) /\ \A k \in DOMAIN u : \E i \in DOMAIN t : u[k] = t[i]
  BY <1>7, Zenon DEF Part
<1>9. /\ Part(r, u) /\ Len(r) <= MaxEntries
      /\ \A i \in DOMAIN u :
           \/ \E k \in DOMAIN r : r[k] = u[i]
           \/ Len(r) = MaxEntries /\ \A k \in DOMAIN r : r[k].id > u[i].id
  BY <1>2, <1>8, NewestKeepsOrder, LimitsAssumption, Zenon
<1>10. r \in Seq(Entry) /\ Ordered(r) /\ \A k \in DOMAIN r : \E i \in DOMAIN u : r[k] = u[i]
  BY <1>9, Zenon DEF Part
<1>11. \A k \in DOMAIN r : Shown(lines, r[k]) /\ IsRecent(r[k])
  BY <1>4, <1>8, <1>10, ZenonT(40)
<1>12. ASSUME NEW e, Shown(lines, e), IsRecent(e)
       PROVE  \/ \E k \in DOMAIN r : r[k] = e
              \/ Len(r) = MaxEntries /\ \A k \in DOMAIN r : r[k].id > e.id
  <2>1. PICK i \in DOMAIN t : t[i] = e
    BY <1>5, <1>12, Zenon
  <2>2. PICK j \in DOMAIN u : u[j] = e
    BY <1>7, <2>1, Zenon
  <2>3. QED
    BY <1>9, <2>2, Zenon
<1>13. QED
  BY <1>9, <1>10, <1>11, <1>12, Zenon
-----------------------------------------------------------------------------
(* What the writes do to a file whose entries are all older than e.          *)

NoneAfter(file_lines, e) ==
    \A i \in DOMAIN file_lines : \A k \in DOMAIN file_lines[i] :
        file_lines[i][k].id <= e.id /\ file_lines[i][k].at <= e.at

AllBefore(file_lines, e) ==
    \A i \in DOMAIN file_lines : \A k \in DOMAIN file_lines[i] :
        file_lines[i][k].id < e.id /\ file_lines[i][k].at <= e.at

LEMMA LineMembers ==
    ASSUME NEW ls \in Seq(Seq(Entry)), NEW i \in DOMAIN ls
    PROVE  /\ ls[i] \in Seq(Entry)
           /\ \A k \in DOMAIN ls[i] : ls[i][k] \in Entry /\ ls[i][k].id \in Nat /\ ls[i][k].at \in Nat
           /\ Len(ls[i]) = 1 => 1 \in DOMAIN ls[i]
<1>1. ls[i] \in Seq(Entry)
  OBVIOUS
<1>2. \A q \in Seq(Entry) : \A k \in DOMAIN q : q[k] \in Entry
  OBVIOUS
<1>3. \A e \in Entry : e.id \in Nat /\ e.at \in Nat
  BY DEF Entry
<1>4. \A q \in Seq(Entry) : Len(q) = 1 => 1 \in DOMAIN q
  OBVIOUS
<1>5. QED
  BY <1>1, <1>2, <1>3, <1>4, Zenon

\* The whole file after a line of its own for e.
LEMMA AppendedLine ==
    ASSUME NEW ls \in Seq(Seq(Entry)), FileInOrder(ls), NEW e \in Entry, AllBefore(ls, e),
           NEW ms, ms = Append(ls, <<e>>)
    PROVE  /\ ms \in Seq(Seq(Entry)) /\ FileInOrder(ms) /\ NoneAfter(ms, e) /\ Shown(ms, e)
           /\ \A x : Shown(ls, x) => Shown(ms, x)
<1> DEFINE n == Len(ls)
<1>1. n \in Nat /\ DOMAIN ls = 1 .. n
  OBVIOUS
<1>2. <<e>> \in Seq(Entry) /\ Len(<<e>>) = 1 /\ DOMAIN <<e>> = 1 .. 1 /\ <<e>>[1] = e
  OBVIOUS
<1>3. ms \in Seq(Seq(Entry)) /\ Len(ms) = n + 1 /\ DOMAIN ms = 1 .. (n + 1)
  BY <1>2
<1>4. (\A i \in 1 .. n : ms[i] = ls[i]) /\ ms[n + 1] = <<e>>
  BY <1>2
<1>5. e.id \in Nat /\ e.at \in Nat
  BY DEF Entry
<1> HIDE DEF n
<1>6. FileInOrder(ms)
  <2>1. ASSUME NEW i \in DOMAIN ms, NEW j \in DOMAIN ms, i < j, Len(ms[i]) = 1, Len(ms[j]) = 1
        PROVE  ms[i][1].id < ms[j][1].id /\ ms[i][1].at <= ms[j][1].at
    <3>1. i \in 1 .. n /\ ms[i] = ls[i] /\ i \in DOMAIN ls
      BY <1>1, <1>3, <1>4, <2>1
    <3>2. CASE j \in 1 .. n
      <4>1. j \in DOMAIN ls /\ ms[j] = ls[j]
        BY <1>1, <1>4, <3>2
      <4>2. QED
        BY <2>1, <3>1, <4>1, Zenon DEF FileInOrder
    <3>3. CASE j = n + 1
      <4>1. 1 \in DOMAIN ls[i]
        BY <2>1, <3>1, LineMembers
      <4>2. ms[j][1] = e
        BY <1>2, <1>4, <3>3, Zenon
      <4>3. QED
        BY <3>1, <4>1, <4>2, Zenon DEF AllBefore
    <3>4. QED
      BY <1>1, <1>3, <3>2, <3>3
  <2>2. QED
    BY <2>1 DEF FileInOrder
<1>7. NoneAfter(ms, e)
  <2>1. ASSUME NEW i \in DOMAIN ms, NEW k \in DOMAIN ms[i]
        PROVE  ms[i][k].id <= e.id /\ ms[i][k].at <= e.at
    <3>1. CASE i \in 1 .. n
      <4>1. i \in DOMAIN ls /\ ms[i] = ls[i]
        BY <1>1, <1>4, <3>1
      <4>2. ls[i][k].id < e.id /\ ls[i][k].at <= e.at /\ ls[i][k].id \in Nat
        BY <2>1, <4>1, LineMembers, Zenon DEF AllBefore
      <4>3. QED
        BY <1>5, <4>1, <4>2
    <3>2. CASE i = n + 1
      <4>1. k = 1 /\ ms[i][k] = e
        BY <1>2, <1>4, <2>1, <3>2
      <4>2. QED
        BY <1>5, <4>1
    <3>3. QED
      BY <1>1, <1>3, <3>1, <3>2
  <2>2. QED
    BY <2>1 DEF NoneAfter
<1>8. Shown(ms, e)
  <2>1. n + 1 \in DOMAIN ms
    BY <1>1, <1>3
  <2>2. QED
    BY <1>2, <1>4, <2>1, Zenon DEF Shown
<1>9. \A x : Shown(ls, x) => Shown(ms, x)
  <2>1. \A i \in 1 .. n : i \in DOMAIN ms
    BY <1>1, <1>3
  <2>2. QED
    BY <1>1, <1>4, <2>1, Zenon DEF Shown
<1>10. QED
  BY <1>3, <1>6, <1>7, <1>8, <1>9, Zenon

\* The whole file after e is glued to the last line.
LEMMA GluedLine ==
    ASSUME NEW ls \in Seq(Seq(Entry)), FileInOrder(ls), NEW e \in Entry, AllBefore(ls, e),
           NEW ms, ms = [ls EXCEPT ![Len(ls)] = Append(@, e)]
    PROVE  ms \in Seq(Seq(Entry)) /\ FileInOrder(ms) /\ NoneAfter(ms, e)
<1> DEFINE n == Len(ls)
<1>1. n \in Nat /\ DOMAIN ls = 1 .. n /\ DOMAIN ms = 1 .. n
  OBVIOUS
<1>2. \A i \in 1 .. n : ms[i] = IF i = n THEN Append(ls[i], e) ELSE ls[i]
  OBVIOUS
<1>3. \A i \in 1 .. n : ls[i] \in Seq(Entry)
  OBVIOUS
<1>4. \A q \in Seq(Entry) :
        /\ Append(q, e) \in Seq(Entry)
        /\ Len(Append(q, e)) = 1 => Append(q, e)[1] = e
        /\ \A k \in DOMAIN Append(q, e) : Append(q, e)[k] = e \/ (k \in DOMAIN q /\ Append(q, e)[k] = q[k])
  OBVIOUS
<1>5. e.id \in Nat /\ e.at \in Nat
  BY DEF Entry
<1>6. ms \in Seq(Seq(Entry))
  <2>1. CASE n = 0
    <3>1. ms = ls
      BY <2>1
    <3>2. QED
      BY <3>1
  <2>2. CASE n # 0
    <3>1. n \in 1 .. Len(ls)
      BY <1>1, <2>2
    <3>2. ms = [ls EXCEPT ![n] = Append(ls[n], e)]
      OBVIOUS
    <3>3. Append(ls[n], e) \in Seq(Entry)
      BY <1>3, <1>4, <3>1, Zenon
    <3> HIDE DEF n
    <3>4. [ls EXCEPT ![n] = Append(ls[n], e)] \in Seq(Seq(Entry))
      BY <3>1, <3>3, ExceptSeq
    <3>5. QED
      BY <3>2, <3>4
  <2>3. QED
    BY <2>1, <2>2
<1> HIDE DEF n
<1>7. FileInOrder(ms)
  <2>1. ASSUME NEW i \in DOMAIN ms, NEW j \in DOMAIN ms, i < j, Len(ms[i]) = 1, Len(ms[j]) = 1
        PROVE  ms[i][1].id < ms[j][1].id /\ ms[i][1].at <= ms[j][1].at
    <3>1. i \in 1 .. n /\ i # n /\ j \in 1 .. n
      BY <1>1, <2>1
    <3>2. ms[i] = ls[i] /\ i \in DOMAIN ls /\ j \in DOMAIN ls
      BY <1>1, <1>2, <3>1
    <3>3. CASE j # n
      <4>1. ms[j] = ls[j]
        BY <1>2, <3>1, <3>3
      <4>2. QED
        BY <2>1, <3>2, <4>1, Zenon DEF FileInOrder
    <3>4. CASE j = n
      <4>1. 1 \in DOMAIN ls[i]
        BY <2>1, <3>2, LineMembers
      <4>2. ms[j][1] = e
        <5>1. ms[j] = Append(ls[j], e) /\ ls[j] \in Seq(Entry)
          BY <1>2, <1>3, <3>1, <3>4
        <5>2. QED
          BY <1>4, <2>1, <5>1, Zenon
      <4>3. QED
        BY <3>2, <4>1, <4>2, Zenon DEF AllBefore
    <3>5. QED
      BY <3>3, <3>4
  <2>2. QED
    BY <2>1 DEF FileInOrder
<1>8. NoneAfter(ms, e)
  <2>1. ASSUME NEW i \in DOMAIN ms, NEW k \in DOMAIN ms[i]
        PROVE  ms[i][k].id <= e.id /\ ms[i][k].at <= e.at
    <3>1. i \in 1 .. n /\ i \in DOMAIN ls
      BY <1>1
    <3>2. ms[i][k] = e \/ (k \in DOMAIN ls[i] /\ ms[i][k] = ls[i][k])
      <4>1. CASE i = n
        <5>1. ms[i] = Append(ls[i], e) /\ ls[i] \in Seq(Entry)
          BY <1>2, <1>3, <3>1, <4>1
        <5>2. k \in DOMAIN Append(ls[i], e)
          BY <2>1, <5>1
        <5>3. Append(ls[i], e)[k] = e \/ (k \in DOMAIN ls[i] /\ Append(ls[i], e)[k] = ls[i][k])
          BY <1>4, <5>1, <5>2, Zenon
        <5>4. QED
          BY <5>1, <5>3
      <4>2. CASE i # n
        BY <1>2, <2>1, <3>1, <4>2, Zenon
      <4>3. QED
        BY <4>1, <4>2
    <3>3. CASE ms[i][k] = e
      BY <1>5, <3>3
    <3>4. CASE k \in DOMAIN ls[i] /\ ms[i][k] = ls[i][k]
      <4>1. ls[i][k].id < e.id /\ ls[i][k].at <= e.at /\ ls[i][k].id \in Nat
        BY <3>1, <3>4, LineMembers, Zenon DEF AllBefore
      <4>2. QED
        BY <1>5, <3>4, <4>1
    <3>5. QED
      BY <3>2, <3>3, <3>4
  <2>2. QED
    BY <2>1 DEF NoneAfter
<1>9. QED
  BY <1>6, <1>7, <1>8, Zenon

\* The file rotation writes.
LEMMA RewrittenFile ==
    ASSUME NEW s \in Seq(Entry), Ordered(s), NEW ls, ls = [i \in DOMAIN s |-> <<s[i]>>]
    PROVE  /\ ls \in Seq(Seq(Entry)) /\ FileInOrder(ls) /\ Len(ls) = Len(s)
           /\ DOMAIN ls = DOMAIN s
           /\ \A i \in DOMAIN s : DOMAIN ls[i] = 1 .. 1 /\ Len(ls[i]) = 1 /\ ls[i][1] = s[i]
<1>1. DOMAIN s = 1 .. Len(s) /\ Len(s) \in Nat /\ DOMAIN ls = DOMAIN s
  OBVIOUS
<1>2. \A e \in Entry : <<e>> \in Seq(Entry) /\ DOMAIN <<e>> = 1 .. 1 /\ Len(<<e>>) = 1 /\ <<e>>[1] = e
  OBVIOUS
<1>3. \A i \in DOMAIN s : s[i] \in Entry /\ ls[i] = <<s[i]>>
  OBVIOUS
<1>4. \A i \in DOMAIN s : ls[i] \in Seq(Entry) /\ DOMAIN ls[i] = 1 .. 1 /\ Len(ls[i]) = 1 /\ ls[i][1] = s[i]
  BY <1>2, <1>3, Zenon
<1>5. ls \in Seq(Seq(Entry)) /\ Len(ls) = Len(s)
  BY <1>1, <1>2, <1>3
<1>6. FileInOrder(ls)
  BY <1>1, <1>4 DEF FileInOrder, Ordered
<1>7. QED
  BY <1>1, <1>4, <1>5, <1>6, Zenon

\* It shows the entries it was written from.
LEMMA RewrittenIsReadable ==
    ASSUME NEW s \in Seq(Entry), Ordered(s), lines = [i \in DOMAIN s |-> <<s[i]>>]
    PROVE  Readable = s
<1> DEFINE n == Len(s)
           f == Ascending(1 .. n)
<1>1. n \in Nat /\ DOMAIN s = 1 .. n
  OBVIOUS
<1>2. lines = [i \in 1 .. n |-> <<s[i]>>]
  BY <1>1
<1>3. \A i \in 1 .. n : lines[i][1] = s[i]
  BY <1>2
<1>4. {i \in DOMAIN lines : Len(lines[i]) = 1} = 1 .. n
  BY <1>2
<1>5. Readable = [k \in DOMAIN Selected(lines, 1 .. n) |-> Selected(lines, 1 .. n)[k][1]]
  BY <1>4 DEF Readable
<1>6. Selected(lines, 1 .. n) = [k \in DOMAIN f |-> lines[f[k]]]
  BY DEF Selected
<1> HIDE DEF f, n
<1>7. f \in [1 .. n -> 1 .. n] /\ \A i \in 1 .. n : f[i] = i
  BY <1>1, AllAscending DEF f
<1>8. DOMAIN Selected(lines, 1 .. n) = 1 .. n /\ \A k \in 1 .. n : Selected(lines, 1 .. n)[k] = lines[k]
  BY <1>6, <1>7
<1>9. Readable = [k \in 1 .. n |-> s[k]]
  BY <1>3, <1>5, <1>8
<1>10. QED
  BY <1>1, <1>9
-----------------------------------------------------------------------------
(* The inductive invariant.                                                  *)

\* The entries that can be read are in order, and no line holds one from the future.
FileInv ==
    /\ FileInOrder(lines)
    /\ \A i \in DOMAIN lines : \A k \in DOMAIN lines[i] :
         lines[i][k].id <= appends /\ lines[i][k].at <= clock

\* The entry about to be written is later than all in the file.
EntryInv ==
    /\ entry.id <= appends /\ entry.at <= clock
    /\ pc = "line" => AllBefore(lines, entry)

\* What may be written back.
Bounded(s) ==
    /\ Ordered(s) /\ Len(s) <= MaxEntries
    /\ \A k \in DOMAIN s :
         /\ s[k].id <= appends /\ s[k].at <= clock
         /\ s[k].at >= entry.at - MaxAge

\* s has the entry appended, and of the entries there were before, those it must.
Keeps(s) ==
    /\ IsRecent(entry) => s # <<>> /\ s[Len(s)] = entry
    /\ \A i \in DOMAIN before :
         \/ \E k \in DOMAIN s : s[k] = before[i]
         \/ ~IsRecent(before[i])
         \/ Len(s) = MaxEntries /\ \A k \in DOMAIN s : s[k].id > before[i].id

KeptInv == pc \in {"truncate", "write"} => Bounded(kept)

\* The append that began on a terminated file, step by step: it adds a line, loses
\* none of the readable ones, and writes back what it kept of them.
CleanInv ==
    clean =>
        /\ pc = "line" => terminated /\ \A i \in DOMAIN before : Shown(lines, before[i])
        /\ pc \in {"newline", "read"} =>
             /\ Shown(lines, entry) /\ NoneAfter(lines, entry)
             /\ \A i \in DOMAIN before : Shown(lines, before[i])
        /\ pc \in {"truncate", "write"} => Keeps(kept)
        /\ pc = "idle" =>
             /\ Bounded(kept) /\ Keeps(kept)
             /\ lines = [i \in DOMAIN kept |-> <<kept[i]>>]

LogInv == TypeOK /\ FileInv /\ EntryInv /\ KeptInv /\ CleanInv

LEMMA Numbers ==
    ASSUME LogInv
    PROVE  /\ clock \in Nat /\ appends \in Nat /\ entry \in Entry
           /\ entry.id \in Nat /\ entry.at \in Nat
           /\ MaxAge \in Nat /\ MaxTime \in Nat /\ MaxAppends \in Nat /\ MaxCrashes \in Nat
           /\ MaxEntries \in Nat \ {0}
<1>1. clock \in 0 .. MaxTime /\ appends \in 0 .. MaxAppends /\ entry \in Entry
  BY Zenon DEF LogInv, TypeOK
<1>2. entry.id \in Nat /\ entry.at \in Nat
  BY <1>1 DEF Entry
<1>3. MaxAge \in Nat /\ MaxTime \in Nat /\ MaxAppends \in Nat /\ MaxCrashes \in Nat /\ MaxEntries \in Nat \ {0}
  BY LimitsAssumption
<1>4. QED
  BY <1>1, <1>2, <1>3

LEMMA InvInit == Init => LogInv
<1> SUFFICES ASSUME Init PROVE LogInv
  OBVIOUS
<1>0. /\ MaxAge \in Nat /\ MaxTime \in Nat /\ MaxAppends \in Nat /\ MaxCrashes \in Nat
  BY LimitsAssumption
<1>1. TypeOK
  <2>1. entry \in Entry
    BY DEF Init, NoEntry, Entry
  <2>2. lines \in Seq(Seq(Entry)) /\ kept \in Seq(Entry) /\ logged \in Seq(Entry) /\ before \in Seq(Entry)
    BY DEF Init
  <2>3. clock \in 0 .. MaxTime /\ appends \in 0 .. MaxAppends /\ crashes \in 0 .. MaxCrashes
    BY <1>0 DEF Init
  <2>4. QED
    BY <2>1, <2>2, <2>3 DEF Init, TypeOK
<1>2. FileInv
  BY DEF Init, FileInv, FileInOrder
<1>3. EntryInv
  BY DEF Init, EntryInv, NoEntry
<1>4. KeptInv /\ CleanInv
  BY DEF Init, KeptInv, CleanInv
<1>5. QED
  BY <1>1, <1>2, <1>3, <1>4 DEF LogInv

LEMMA BeginStep == ASSUME LogInv, Begin PROVE LogInv'
<1>0. /\ clock \in Nat /\ appends \in Nat /\ MaxAppends \in Nat
      /\ lines \in Seq(Seq(Entry)) /\ FileInOrder(lines) /\ appends < MaxAppends
  BY Numbers, Zenon DEF LogInv, TypeOK, FileInv, Begin
<1>1. appends' = appends + 1 /\ entry' = [id |-> appends + 1, at |-> clock] /\ lines' = lines /\ clock' = clock
  BY DEF Begin, file
<1>2. before' \in Seq(Entry) /\ \A i \in DOMAIN before' : Shown(lines, before'[i])
  <2>1. before' = Readable
    BY DEF Begin
  <2>2. QED
    BY <1>0, <2>1, ReadableShape, Zenon
<1>3. entry'.id = appends + 1 /\ entry'.at = clock /\ entry' \in Entry
  BY <1>0, <1>1 DEF Entry
<1>4. TypeOK'
  <2>1. appends' \in 0 .. MaxAppends
    BY <1>0, <1>1
  <2>2. clean' \in BOOLEAN
    BY DEF Begin, LogInv, TypeOK
  <2>3. pc' = "line" /\ terminated' = terminated /\ kept' = kept /\ crashes' = crashes /\ logged' = logged
    BY DEF Begin, file
  <2>4. QED
    BY <1>1, <1>2, <1>3, <2>1, <2>2, <2>3, Zenon DEF LogInv, TypeOK
<1>5. \A i \in DOMAIN lines : \A k \in DOMAIN lines[i] :
         /\ lines[i][k].id <= appends /\ lines[i][k].at <= clock
         /\ lines[i][k].id \in Nat
  BY <1>0, LineMembers, Zenon DEF LogInv, FileInv
<1>6. \A i \in DOMAIN lines : \A k \in DOMAIN lines[i] :
         lines[i][k].id < appends + 1 /\ lines[i][k].id <= appends + 1 /\ lines[i][k].at <= clock
  BY <1>0, <1>5
<1>7. FileInv'
  BY <1>0, <1>1, <1>6, Zenon DEF FileInv
<1>8. EntryInv'
  <2>1. entry'.id <= appends' /\ entry'.at <= clock'
    BY <1>0, <1>1, <1>3
  <2>2. AllBefore(lines', entry')
    BY <1>1, <1>3, <1>6, Zenon DEF AllBefore
  <2>3. QED
    BY <2>1, <2>2, Zenon DEF EntryInv
<1>9. pc' = "line" /\ terminated' = terminated /\ clean' = terminated
  BY DEF Begin, file
<1>10. KeptInv'
  BY <1>9 DEF KeptInv
<1>11. CleanInv'
  BY <1>1, <1>2, <1>9 DEF CleanInv
<1>12. QED
  BY <1>4, <1>7, <1>8, <1>10, <1>11 DEF LogInv

LEMMA WriteLineStep == ASSUME LogInv, WriteLine PROVE LogInv'
<1>0. /\ lines \in Seq(Seq(Entry)) /\ FileInOrder(lines) /\ entry \in Entry /\ AllBefore(lines, entry)
      /\ clock \in Nat /\ appends \in Nat /\ entry.id \in Nat /\ entry.at \in Nat
      /\ entry.id <= appends /\ entry.at <= clock /\ pc = "line"
  BY Numbers, Zenon DEF LogInv, TypeOK, FileInv, EntryInv, WriteLine
<1>1. /\ clock' = clock /\ entry' = entry /\ appends' = appends /\ pc' = "newline" /\ terminated' = FALSE
      /\ kept' = kept /\ crashes' = crashes /\ logged' = logged /\ before' = before /\ clean' = clean
  BY DEF WriteLine
<1>2. lines' = IF terminated THEN Append(lines, <<entry>>)
               ELSE [lines EXCEPT ![Len(lines)] = Append(@, entry)]
  BY DEF WriteLine
<1>3. lines' \in Seq(Seq(Entry)) /\ FileInOrder(lines') /\ NoneAfter(lines', entry)
  <2>1. CASE terminated
    <3>1. lines' = Append(lines, <<entry>>)
      BY <1>2, <2>1
    <3>2. QED
      BY <1>0, <3>1, AppendedLine, Zenon
  <2>2. CASE ~terminated
    <3>1. lines' = [lines EXCEPT ![Len(lines)] = Append(@, entry)]
      BY <1>2, <2>2
    <3>2. QED
      BY <1>0, <3>1, GluedLine
  <2>3. QED
    BY <2>1, <2>2
<1>4. TypeOK'
  BY <1>1, <1>3, Zenon DEF LogInv, TypeOK
<1>5. FileInv'
  <2>1. \A i \in DOMAIN lines' : \A k \in DOMAIN lines'[i] :
          lines'[i][k].id \in Nat /\ lines'[i][k].at \in Nat
    BY <1>3, LineMembers, Zenon
  <2>2. \A i \in DOMAIN lines' : \A k \in DOMAIN lines'[i] :
          lines'[i][k].id <= entry.id /\ lines'[i][k].at <= entry.at
    BY <1>3, Zenon DEF NoneAfter
  <2>3. \A i \in DOMAIN lines' : \A k \in DOMAIN lines'[i] :
          lines'[i][k].id <= appends /\ lines'[i][k].at <= clock
    BY <1>0, <2>1, <2>2
  <2>4. QED
    BY <1>1, <1>3, <2>3, Zenon DEF FileInv
<1>6. EntryInv'
  BY <1>0, <1>1 DEF EntryInv
<1>7. KeptInv'
  BY <1>1 DEF KeptInv
<1>8. CleanInv'
  <2> SUFFICES ASSUME clean
               PROVE  /\ Shown(lines', entry) /\ NoneAfter(lines', entry)
                      /\ \A i \in DOMAIN before : Shown(lines', before[i])
    BY <1>1 DEF CleanInv
  <2>1. terminated /\ \A i \in DOMAIN before : Shown(lines, before[i])
    BY <1>0 DEF LogInv, CleanInv
  <2>2. lines' = Append(lines, <<entry>>)
    BY <1>2, <2>1
  <2>3. QED
    BY <1>0, <2>1, <2>2, AppendedLine, Zenon
<1>9. QED
  BY <1>4, <1>5, <1>6, <1>7, <1>8 DEF LogInv

LEMMA WriteNewlineStep == ASSUME LogInv, WriteNewline PROVE LogInv'
<1>1. /\ lines' = lines /\ clock' = clock /\ entry' = entry /\ appends' = appends
      /\ pc = "newline" /\ pc' = "read" /\ terminated' = TRUE
      /\ kept' = kept /\ crashes' = crashes /\ logged' = logged /\ before' = before /\ clean' = clean
  BY DEF WriteNewline
<1>2. TypeOK'
  BY <1>1, Zenon DEF LogInv, TypeOK
<1>3. FileInv'
  BY <1>1, Zenon DEF LogInv, FileInv
<1>4. EntryInv' /\ KeptInv'
  BY <1>1 DEF LogInv, EntryInv, KeptInv
<1>5. CleanInv'
  BY <1>1 DEF LogInv, CleanInv
<1>6. QED
  BY <1>2, <1>3, <1>4, <1>5 DEF LogInv

LEMMA ReadStep == ASSUME LogInv, ReadForRotation PROVE LogInv'
<1>0. /\ lines \in Seq(Seq(Entry)) /\ FileInOrder(lines) /\ clock \in Nat /\ appends \in Nat
      /\ entry \in Entry /\ entry.id \in Nat /\ entry.at \in Nat /\ entry.at <= clock
      /\ MaxAge \in Nat /\ MaxEntries \in Nat \ {0}
  BY Numbers, Zenon DEF LogInv, TypeOK, FileInv, EntryInv
<1>1. /\ lines' = lines /\ clock' = clock /\ entry' = entry /\ appends' = appends
      /\ pc = "read" /\ pc' = "truncate" /\ terminated' = terminated /\ kept' = Retained
      /\ crashes' = crashes /\ logged' = logged /\ before' = before /\ clean' = clean
  BY DEF ReadForRotation, file
<1> DEFINE r == Retained
<1>2. /\ r \in Seq(Entry) /\ Ordered(r) /\ Len(r) <= MaxEntries
      /\ \A k \in DOMAIN r : Shown(lines, r[k]) /\ IsRecent(r[k])
      /\ \A e : Shown(lines, e) /\ IsRecent(e) =>
           \/ \E k \in DOMAIN r : r[k] = e
           \/ Len(r) = MaxEntries /\ \A k \in DOMAIN r : r[k].id > e.id
  BY <1>0, RetainedShape
<1> HIDE DEF r
<1>3. DOMAIN r = 1 .. Len(r) /\ Len(r) \in Nat /\ \A k \in DOMAIN r : r[k].id \in Nat /\ r[k].at \in Nat
  <2>1. DOMAIN r = 1 .. Len(r) /\ Len(r) \in Nat /\ \A k \in DOMAIN r : r[k] \in Entry
    BY <1>2
  <2>2. QED
    BY <2>1 DEF Entry
<1>4. TypeOK'
  <2>1. kept' \in Seq(Entry)
    BY <1>1, <1>2 DEF r
  <2>2. QED
    BY <1>1, <2>1, Zenon DEF LogInv, TypeOK
<1>5. FileInv'
  BY <1>1, Zenon DEF LogInv, FileInv
<1>6. EntryInv'
  BY <1>1 DEF LogInv, EntryInv
<1>7. Bounded(r)
  <2>1. \A e : Shown(lines, e) => e.id <= appends /\ e.at <= clock
    BY <1>0, LineMembers, Zenon DEF Shown, LogInv, FileInv
  <2>2. \A k \in DOMAIN r : r[k].at >= entry.at - MaxAge
    BY <1>0, <1>2, <1>3 DEF IsRecent
  <2>3. QED
    BY <1>2, <2>1, <2>2, Zenon DEF Bounded
<1>8. KeptInv'
  BY <1>1, <1>7 DEF KeptInv, Bounded, r
<1>9. CleanInv'
  <2>1. ASSUME clean PROVE Keeps(r)
    <3>1. /\ Shown(lines, entry) /\ NoneAfter(lines, entry)
          /\ \A i \in DOMAIN before : Shown(lines, before[i])
      BY <1>1, <2>1 DEF LogInv, CleanInv
    <3>2. \A e : Shown(lines, e) => e.id <= entry.id
      BY <1>0, <3>1, LineMembers, Zenon DEF Shown, NoneAfter
    <3>3. ASSUME IsRecent(entry)
          PROVE  r # <<>> /\ r[Len(r)] = entry
      <4>1. PICK k \in DOMAIN r : r[k] = entry
        <5>1. CASE Len(r) = MaxEntries /\ \A k \in DOMAIN r : r[k].id > entry.id
          <6>1. 1 \in DOMAIN r
            BY <1>0, <1>3, <5>1
          <6>2. r[1].id <= entry.id /\ r[1].id > entry.id /\ r[1].id \in Nat
            BY <1>2, <1>3, <3>2, <5>1, <6>1, Zenon
          <6>3. QED
            BY <1>0, <6>2
        <5>2. QED
          BY <1>2, <3>1, <3>3, <5>1, Zenon
      <4>2. Len(r) \in DOMAIN r
        BY <1>3, <4>1
      <4>3. CASE k < Len(r)
        <5>1. entry.id < r[Len(r)].id /\ r[Len(r)].id <= entry.id /\ r[Len(r)].id \in Nat
          BY <1>2, <1>3, <3>2, <4>1, <4>2, <4>3, Zenon DEF Ordered
        <5>2. QED
          BY <1>0, <5>1
      <4>4. CASE k = Len(r)
        BY <4>1, <4>2, <4>4
      <4>5. QED
        BY <1>3, <4>3, <4>4
    <3>4. QED
      BY <1>2, <3>1, <3>3, Zenon DEF Keeps
  <2>2. QED
    BY <1>1, <2>1 DEF CleanInv, Keeps, IsRecent, r
<1>10. QED
  BY <1>4, <1>5, <1>6, <1>8, <1>9 DEF LogInv
LEMMA TruncateStep == ASSUME LogInv, Truncate PROVE LogInv'
<1>1. /\ lines' = <<>> /\ clock' = clock /\ entry' = entry /\ appends' = appends
      /\ pc = "truncate" /\ pc' = "write" /\ terminated' = TRUE /\ kept' = kept
      /\ crashes' = crashes /\ logged' = logged /\ before' = before /\ clean' = clean
  BY DEF Truncate
<1>2. lines' \in Seq(Seq(Entry)) /\ DOMAIN lines' = {}
  BY <1>1
<1>3. TypeOK'
  BY <1>1, <1>2, Zenon DEF LogInv, TypeOK
<1>4. FileInv'
  BY <1>2 DEF FileInv, FileInOrder
<1>5. EntryInv'
  BY <1>1 DEF LogInv, EntryInv
<1>6. KeptInv'
  BY <1>1 DEF LogInv, KeptInv, Bounded
<1>7. CleanInv'
  BY <1>1 DEF LogInv, CleanInv, Keeps, IsRecent
<1>8. QED
  BY <1>3, <1>4, <1>5, <1>6, <1>7 DEF LogInv

LEMMA WriteKeptStep == ASSUME LogInv, WriteKept PROVE LogInv'
<1>1. /\ clock' = clock /\ entry' = entry /\ appends' = appends
      /\ pc = "write" /\ pc' = "idle" /\ kept' = kept
      /\ crashes' = crashes /\ before' = before /\ clean' = clean
  BY DEF WriteKept
<1>2. lines' = [i \in DOMAIN kept |-> <<kept[i]>>]
  BY DEF WriteKept
<1>3. kept \in Seq(Entry) /\ Bounded(kept) /\ Ordered(kept)
  BY <1>1 DEF LogInv, TypeOK, KeptInv, Bounded
<1>4. /\ lines' \in Seq(Seq(Entry)) /\ FileInOrder(lines') /\ DOMAIN lines' = DOMAIN kept
      /\ \A i \in DOMAIN kept : DOMAIN lines'[i] = 1 .. 1 /\ lines'[i][1] = kept[i]
  BY <1>2, <1>3, RewrittenFile
<1>5. TypeOK'
  <2>1. terminated' \in BOOLEAN
    BY DEF WriteKept
  <2>2. logged' \in Seq(Entry)
    <3>1. logged \in Seq(Entry) /\ entry \in Entry /\ logged' = Append(logged, entry)
      BY Zenon DEF LogInv, TypeOK, WriteKept
    <3>2. QED
      BY <3>1
  <2>3. QED
    BY <1>1, <1>4, <2>1, <2>2, Zenon DEF LogInv, TypeOK
<1>6. FileInv'
  <2>1. \A i \in DOMAIN kept : kept[i].id <= appends /\ kept[i].at <= clock
    BY <1>3, Zenon DEF Bounded
  <2>2. \A k \in 1 .. 1 : k = 1
    OBVIOUS
  <2>3. \A i \in DOMAIN lines' : \A k \in DOMAIN lines'[i] :
          lines'[i][k].id <= appends /\ lines'[i][k].at <= clock
    BY <1>4, <2>1, <2>2, Zenon
  <2>4. QED
    BY <1>1, <1>4, <2>3, Zenon DEF FileInv
<1>7. EntryInv' /\ KeptInv'
  BY <1>1 DEF LogInv, EntryInv, KeptInv
<1>8. CleanInv'
  <2>1. Bounded(kept)'
    BY <1>1, <1>3 DEF Bounded
  <2>2. clean => Keeps(kept)'
    BY <1>1 DEF LogInv, CleanInv, Keeps, IsRecent
  <2>3. lines' = [i \in DOMAIN kept' |-> <<kept'[i]>>]
    BY <1>1, <1>2
  <2>4. QED
    BY <1>1, <2>1, <2>2, <2>3 DEF CleanInv
<1>9. QED
  BY <1>5, <1>6, <1>7, <1>8 DEF LogInv

LEMMA CrashStep == ASSUME LogInv, Crash PROVE LogInv'
<1>1. /\ lines' = lines /\ terminated' = terminated /\ clock' = clock /\ entry' = entry
      /\ appends' = appends /\ kept' = kept /\ logged' = logged /\ before' = before
      /\ pc' = "idle" /\ clean' = FALSE
  BY DEF Crash, file
<1>2. TypeOK'
  <2>1. crashes' \in 0 .. MaxCrashes
    <3>1. crashes \in 0 .. MaxCrashes /\ crashes < MaxCrashes /\ crashes' = crashes + 1 /\ MaxCrashes \in Nat
      BY Numbers, Zenon DEF LogInv, TypeOK, Crash
    <3>2. QED
      BY <3>1
  <2>2. QED
    BY <1>1, <2>1, Zenon DEF LogInv, TypeOK
<1>3. FileInv'
  BY <1>1, Zenon DEF LogInv, FileInv
<1>4. EntryInv' /\ KeptInv' /\ CleanInv'
  BY <1>1 DEF LogInv, EntryInv, KeptInv, CleanInv
<1>5. QED
  BY <1>2, <1>3, <1>4 DEF LogInv

LEMMA TickStep == ASSUME LogInv, Tick PROVE LogInv'
<1>0. /\ clock \in Nat /\ MaxTime \in Nat /\ MaxAge \in Nat /\ clock < MaxTime /\ clock' = clock + 1
      /\ entry \in Entry /\ entry.at \in Nat /\ entry.at <= clock
      /\ kept \in Seq(Entry) /\ before \in Seq(Entry) /\ lines \in Seq(Seq(Entry))
  BY Numbers, Zenon DEF LogInv, TypeOK, EntryInv, Tick
<1>1. /\ lines' = lines /\ terminated' = terminated /\ pc' = pc /\ entry' = entry /\ crashes' = crashes
      /\ appends' = appends /\ kept' = kept /\ logged' = logged /\ before' = before /\ clean' = clean
  BY DEF Tick, file
<1>2. TypeOK'
  <2>1. clock' \in 0 .. MaxTime
    BY <1>0
  <2>2. QED
    BY <1>1, <2>1, Zenon DEF LogInv, TypeOK
<1>3. \A n \in Nat : n <= clock => n <= clock'
  BY <1>0
<1>4. FileInv'
  <2>1. \A i \in DOMAIN lines : \A k \in DOMAIN lines[i] :
          lines[i][k].id <= appends /\ lines[i][k].at <= clock'
    BY <1>0, <1>3, LineMembers, Zenon DEF LogInv, FileInv
  <2>2. QED
    BY <1>1, <2>1, Zenon DEF LogInv, FileInv
<1>5. EntryInv'
  BY <1>0, <1>1, <1>3, Zenon DEF LogInv, EntryInv
<1>6. Bounded(kept) => Bounded(kept)'
  <2>1. \A k \in DOMAIN kept : kept[k].at \in Nat
    <3>1. \A k \in DOMAIN kept : kept[k] \in Entry
      BY <1>0
    <3>2. QED
      BY <3>1 DEF Entry
  <2>2. QED
    BY <1>1, <1>3, <2>1, Zenon DEF Bounded
<1>7. KeptInv'
  BY <1>1, <1>6, Zenon DEF LogInv, KeptInv
\* What is not recent stays so.
<1>8. \A e \in Entry : IsRecent(e)' => IsRecent(e)
  BY <1>0 DEF IsRecent, Entry
<1>9. Keeps(kept) => Keeps(kept)'
  <2>1. \A i \in DOMAIN before : before[i] \in Entry
    BY <1>0
  <2>2. \A e \in Entry : e.at >= clock' - MaxAge => e.at >= clock - MaxAge
    BY <1>0 DEF Entry
  <2>3. ASSUME Keeps(kept)
        PROVE  /\ entry.at >= clock' - MaxAge => kept # <<>> /\ kept[Len(kept)] = entry
               /\ \A i \in DOMAIN before :
                    \/ \E k \in DOMAIN kept : kept[k] = before[i]
                    \/ ~(before[i].at >= clock' - MaxAge)
                    \/ Len(kept) = MaxEntries /\ \A k \in DOMAIN kept : kept[k].id > before[i].id
    BY <1>0, <2>1, <2>2, <2>3, Zenon DEF Keeps, IsRecent
  <2>4. QED
    BY <1>1, <2>3, Zenon DEF Keeps, IsRecent
<1>10. CleanInv'
  BY <1>1, <1>6, <1>9, Zenon DEF LogInv, CleanInv
<1>11. QED
  BY <1>2, <1>4, <1>5, <1>7, <1>10 DEF LogInv

LEMMA StutterStep == ASSUME LogInv, UNCHANGED vars PROVE LogInv'
<1>1. /\ lines' = lines /\ terminated' = terminated /\ clock' = clock /\ pc' = pc /\ entry' = entry
      /\ crashes' = crashes /\ appends' = appends /\ kept' = kept /\ logged' = logged
      /\ before' = before /\ clean' = clean
  BY DEF vars, file
<1>2. TypeOK'
  BY <1>1, Zenon DEF LogInv, TypeOK
<1>3. FileInv' /\ EntryInv'
  BY <1>1, Zenon DEF LogInv, FileInv, EntryInv
<1>4. KeptInv'
  BY <1>1, Zenon DEF LogInv, KeptInv, Bounded
<1>5. CleanInv'
  BY <1>1, Zenon DEF LogInv, CleanInv, Keeps, Bounded, IsRecent
<1>6. QED
  BY <1>2, <1>3, <1>4, <1>5 DEF LogInv

LEMMA Inductive == Spec => []LogInv
<1>1. Init => LogInv
  BY InvInit
<1>2. LogInv /\ [Next]_vars => LogInv'
  BY BeginStep, WriteLineStep, WriteNewlineStep, ReadStep, TruncateStep, WriteKeptStep,
     CrashStep, TickStep, StutterStep DEF Next
<1>3. QED
  BY <1>1, <1>2, PTL DEF Spec

-----------------------------------------------------------------------------
(* The appends that returned.  Ids grow, so an append that is under way or   *)
(* was cut off is none of those; what one that returned wrote back is there  *)
(* until the next begins.                                                    *)

Rewritten == Bounded(kept) /\ lines = [i \in DOMAIN kept |-> <<kept[i]>>]

DoneInv ==
    /\ \A i \in DOMAIN logged : logged[i].id <= appends
    /\ pc # "idle" => \A i \in DOMAIN logged : logged[i].id < entry.id
    /\ Completed => Rewritten

LEMMA LoggedIds ==
    ASSUME LogInv
    PROVE  /\ logged \in Seq(Entry) /\ \A i \in DOMAIN logged : logged[i].id \in Nat
           /\ logged # <<>> => Last(logged) = logged[Len(logged)] /\ Len(logged) \in DOMAIN logged
<1>1. logged \in Seq(Entry)
  BY Zenon DEF LogInv, TypeOK
<1>2. \A i \in DOMAIN logged : logged[i] \in Entry
  BY <1>1
<1>3. QED
  BY <1>1, <1>2 DEF Entry, Last

LEMMA BoundedStays ==
    ASSUME LogInv, Tick \/ UNCHANGED vars, Bounded(kept)
    PROVE  Bounded(kept)'
<1>1. kept' = kept /\ entry' = entry /\ appends' = appends
  BY DEF Tick, vars, file
<1>2. /\ clock \in Nat /\ clock' \in {clock, clock + 1} /\ kept \in Seq(Entry)
  BY Numbers, Zenon DEF LogInv, TypeOK, Tick, vars
<1>3. \A k \in DOMAIN kept : kept[k].at \in Nat
  <2>1. \A k \in DOMAIN kept : kept[k] \in Entry
    BY <1>2
  <2>2. QED
    BY <2>1 DEF Entry
<1>4. \A n \in Nat : n <= clock => n <= clock'
  BY <1>2
<1>5. QED
  BY <1>1, <1>3, <1>4, Zenon DEF Bounded

LEMMA DoneStep == ASSUME LogInv, LogInv', DoneInv, [Next]_vars PROVE DoneInv'
<1>1. CASE Begin
  <2>1. /\ appends \in Nat /\ appends' = appends + 1 /\ entry'.id = appends'
        /\ pc' = "line" /\ logged' = logged
    BY <1>1, Numbers DEF Begin
  <2>2. \A i \in DOMAIN logged : logged[i].id \in Nat /\ logged[i].id <= appends
    BY LoggedIds DEF DoneInv
  <2>3. \A i \in DOMAIN logged : logged[i].id <= appends' /\ logged[i].id < entry'.id
    BY <2>1, <2>2
  <2>4. QED
    BY <2>1, <2>3 DEF DoneInv, Completed
<1>2. CASE WriteKept
  <2>1. /\ appends' = appends /\ logged' = Append(logged, entry) /\ kept' = kept /\ pc' = "idle"
        /\ entry' = entry /\ lines' = [i \in DOMAIN kept |-> <<kept[i]>>]
        /\ pc = "write"
    BY <1>2 DEF WriteKept
  <2>2. entry.id <= appends /\ Bounded(kept)
    BY <2>1 DEF LogInv, EntryInv, KeptInv
  <2>3. \A i \in DOMAIN logged' : logged'[i].id <= appends'
    <3>1. \A i \in DOMAIN logged' : logged'[i] = entry \/ (i \in DOMAIN logged /\ logged'[i] = logged[i])
      BY <2>1, LoggedIds
    <3>2. QED
      BY <2>1, <2>2, <3>1, Zenon DEF DoneInv
  <2>4. Rewritten'
    <3>1. Bounded(kept)'
      <4>1. clock' = clock
        BY <1>2 DEF WriteKept
      <4>2. QED
        BY <2>1, <2>2, <4>1, Zenon DEF Bounded
    <3>2. lines' = [i \in DOMAIN kept' |-> <<kept'[i]>>]
      BY <2>1
    <3>3. QED
      BY <3>1, <3>2 DEF Rewritten
  <2>5. QED
    BY <2>1, <2>3, <2>4 DEF DoneInv
<1>3. CASE Crash
  <2>1. logged' = logged /\ appends' = appends /\ entry' = entry /\ pc' = "idle" /\ pc # "idle"
    BY <1>3 DEF Crash
  <2>2. logged # <<>> => Last(logged).id < entry.id /\ Last(logged).id \in Nat
    BY <2>1, LoggedIds DEF DoneInv
  <2>3. ~Completed'
    BY <2>1, <2>2, Numbers DEF Completed
  <2>4. QED
    BY <2>1, <2>3 DEF DoneInv
<1>4. CASE WriteLine \/ WriteNewline \/ ReadForRotation \/ Truncate
  <2>1. /\ logged' = logged /\ appends' = appends /\ entry' = entry
        /\ pc # "idle" /\ pc' # "idle"
    BY <1>4 DEF WriteLine, WriteNewline, ReadForRotation, Truncate
  <2>2. QED
    BY <2>1 DEF DoneInv, Completed
<1>5. CASE Tick \/ UNCHANGED vars
  <2>1. /\ lines' = lines /\ pc' = pc /\ entry' = entry /\ appends' = appends /\ kept' = kept
        /\ logged' = logged
    BY <1>5 DEF Tick, vars, file
  <2>2. Bounded(kept) => Bounded(kept)'
    BY <1>5, <2>1, BoundedStays
  <2>3. QED
    BY <2>1, <2>2, Zenon DEF DoneInv, Completed, Rewritten
<1>6. QED
  BY <1>1, <1>2, <1>3, <1>4, <1>5 DEF Next

LEMMA DoneInductive == Spec => []DoneInv
<1>1. Init => DoneInv
  BY DEF Init, DoneInv, Completed
<1>2. LogInv /\ LogInv' /\ DoneInv /\ [Next]_vars => DoneInv'
  BY DoneStep
<1>3. QED
  BY <1>1, <1>2, Inductive, PTL DEF Spec

-----------------------------------------------------------------------------
(* The theorems.                                                             *)

\* Every variable keeps its type.
THEOREM TypeCorrect == Spec => []TypeOK
<1>1. LogInv => TypeOK
  BY DEF LogInv
<1>2. QED
  BY <1>1, Inductive, PTL

\* Whatever crashes come between the system calls, a reader sees every entry at most
\* once and in the order the entries were stamped in (event_log.rs: append, rotate_retention).
THEOREM ReadsInOrder == Spec => []ReadableInOrder
<1>1. LogInv => ReadableInOrder
  <2> SUFFICES ASSUME LogInv PROVE ReadableInOrder
    OBVIOUS
  <2>1. lines \in Seq(Seq(Entry)) /\ FileInOrder(lines)
    BY Zenon DEF LogInv, TypeOK, FileInv
  <2>2. Ordered(Readable)
    BY <2>1, ReadableShape, Zenon
  <2>3. QED
    BY <2>2, Zenon DEF Ordered, ReadableInOrder
<1>2. QED
  BY <1>1, Inductive, PTL

\* An append that was not cut off leaves the file within its size limit and free of what
\* was too old when the entry was stamped (event_log.rs: rotate_retention).
THEOREM RotationLimits == Spec => []WithinLimits
<1>1. LogInv /\ DoneInv => WithinLimits
  <2> SUFFICES ASSUME LogInv, DoneInv, Completed
               PROVE  /\ Len(lines) <= MaxEntries
                      /\ \A i \in DOMAIN lines : \A k \in DOMAIN lines[i] :
                           lines[i][k].at >= entry.at - MaxAge
    BY DEF WithinLimits
  <2>1. /\ kept \in Seq(Entry) /\ Bounded(kept) /\ Ordered(kept)
        /\ lines = [i \in DOMAIN kept |-> <<kept[i]>>]
    BY DEF LogInv, TypeOK, DoneInv, Rewritten, Bounded
  <2>2. /\ Len(lines) = Len(kept) /\ DOMAIN lines = DOMAIN kept
        /\ \A i \in DOMAIN kept : DOMAIN lines[i] = 1 .. 1 /\ lines[i][1] = kept[i]
    BY <2>1, RewrittenFile
  <2>3. \A k \in 1 .. 1 : k = 1
    OBVIOUS
  <2>4. Len(lines) <= MaxEntries
    BY <2>1, <2>2 DEF Bounded
  <2>5. \A i \in DOMAIN lines : \A k \in DOMAIN lines[i] : lines[i][k].at >= entry.at - MaxAge
    <3>1. \A i \in DOMAIN kept : kept[i].at >= entry.at - MaxAge
      BY <2>1, Zenon DEF Bounded
    <3>2. ASSUME NEW i \in DOMAIN lines, NEW k \in DOMAIN lines[i]
          PROVE  lines[i][k] = kept[i] /\ i \in DOMAIN kept
      <4>1. i \in DOMAIN kept /\ DOMAIN lines[i] = 1 .. 1
        BY <2>2, <3>2
      <4>2. k = 1
        BY <3>2, <4>1
      <4>3. QED
        BY <2>2, <4>1, <4>2, Zenon
    <3>3. QED
      BY <3>1, <3>2, Zenon
  <2>6. QED
    BY <2>4, <2>5
<1>2. QED
  BY <1>1, Inductive, DoneInductive, PTL

\* An append on a terminated file loses no entry but to the two limits, and its own
\* entry becomes the last (event_log.rs: append, rotate_retention).
THEOREM CleanAppends == Spec => []CleanAppendRetains
<1>1. LogInv => CleanAppendRetains
  <2> SUFFICES ASSUME LogInv, pc = "idle", clean
               PROVE  LET now == Readable IN
                      /\ IsRecent(entry) => now # <<>> /\ Last(now) = entry
                      /\ \A i \in DOMAIN before :
                           \/ before[i] \in ToSet(now)
                           \/ ~IsRecent(before[i])
                           \/ Len(now) = MaxEntries /\ \A k \in DOMAIN now : now[k].id > before[i].id
    BY DEF CleanAppendRetains
  <2>1. /\ kept \in Seq(Entry) /\ Ordered(kept) /\ Keeps(kept)
        /\ lines = [i \in DOMAIN kept |-> <<kept[i]>>]
    BY DEF LogInv, TypeOK, CleanInv, Bounded
  <2>2. Readable = kept
    BY <2>1, RewrittenIsReadable, Zenon
  <2>3. Last(kept) = kept[Len(kept)] /\ ToSet(kept) = {kept[k] : k \in DOMAIN kept}
    BY DEF Last, ToSet
  <2>4. QED
    BY <2>1, <2>2, <2>3, Zenon DEF Keeps
<1>2. QED
  BY <1>1, Inductive, PTL
=============================================================================
