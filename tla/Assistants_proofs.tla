------------------------- MODULE Assistants_proofs -------------------------
(***************************************************************************)
(* Theorems about the two experimental agents, for every set of paths,     *)
(* files and overlapping calls, every limit and every bound.               *)
(***************************************************************************)
EXTENDS MCAssistants, SequenceTheorems, TLAPS

-----------------------------------------------------------------------------
(* The list of recent files.                                                *)

\* What retain leaves: the entries but the one that is pushed again, in order.
LEMMA WithoutShape ==
    ASSUME NEW files \in Seq(Path), NEW path \in Path
    PROVE  /\ Without(files, path) \in Seq(Path)
           /\ \/ path \notin ToSet(files) /\ Without(files, path) = files
              \/ \E k \in 1 .. Len(files) :
                   /\ files[k] = path
                   /\ Len(Without(files, path)) = Len(files) - 1
                   /\ \A i \in 1 .. Len(files) - 1 :
                        Without(files, path)[i] = files[IF i < k THEN i ELSE i + 1]
<1>1. CASE path \notin ToSet(files)
  BY <1>1 DEF Without
<1>2. CASE path \in ToSet(files)
  <2> DEFINE k == CHOOSE i \in DOMAIN files : files[i] = path
             a == SubSeq(files, 1, k - 1)
             b == SubSeq(files, k + 1, Len(files))
  <2>1. k \in 1 .. Len(files) /\ files[k] = path
    BY <1>2 DEF ToSet
  <2> HIDE DEF k
  <2>2. /\ a \in Seq(Path) /\ Len(a) = k - 1
        /\ \A i \in 1 .. k - 1 : a[i] = files[i]
    BY <2>1, SubSeqProperties
  <2>3. /\ b \in Seq(Path) /\ Len(b) = Len(files) - k
        /\ \A i \in 1 .. Len(files) - k : b[i] = files[k + i]
    BY <2>1, SubSeqProperties
  <2>4. Without(files, path) = a \o b
    BY <1>2 DEF Without, RemoveAt, k
  <2> HIDE DEF a, b
  <2>5. /\ a \o b \in Seq(Path) /\ Len(a \o b) = Len(files) - 1
        /\ \A i \in 1 .. Len(files) - 1 : (a \o b)[i] = files[IF i < k THEN i ELSE i + 1]
    BY <2>1, <2>2, <2>3, ConcatProperties, SMTT(30)
  <2>6. QED
    BY <2>1, <2>4, <2>5
<1>3. QED
  BY <1>1, <1>2

\* The same in terms of members and of their order, for a list without repetitions.
LEMMA WithoutKeepsOrder ==
    ASSUME NEW files \in Seq(Path), NEW path \in Path, NEW w, w = Without(files, path),
           \A i, j \in 1 .. Len(files) : files[i] = files[j] => i = j
    PROVE  /\ w \in Seq(Path) /\ Len(w) \in Nat
           /\ \A i \in 1 .. Len(w) : w[i] # path /\ \E a \in 1 .. Len(files) : w[i] = files[a]
           /\ \A i, j \in 1 .. Len(w) : i < j =>
                \E a, b \in 1 .. Len(files) : a < b /\ w[i] = files[a] /\ w[j] = files[b]
           /\ \A a \in 1 .. Len(files) : files[a] = path \/ \E i \in 1 .. Len(w) : w[i] = files[a]
           /\ Len(w) = Len(files) \/ Len(w) = Len(files) - 1
           /\ (\A a \in 1 .. Len(files) : files[a] # path) => Len(w) = Len(files)
<1>1. w \in Seq(Path) /\ Len(w) \in Nat /\ Len(files) \in Nat /\ DOMAIN files = 1 .. Len(files)
  BY WithoutShape
<1>2. CASE path \notin ToSet(files)
  <2>1. w = files /\ \A a \in 1 .. Len(files) : files[a] # path
    <3>1. w = files
      BY <1>2 DEF Without
    <3>2. \A a \in 1 .. Len(files) : files[a] # path
      BY <1>1, <1>2 DEF ToSet
    <3>3. QED
      BY <3>1, <3>2
  <2>2. \A i \in 1 .. Len(w) : w[i] # path /\ \E a \in 1 .. Len(files) : w[i] = files[a]
    BY <2>1
  <2>3. \A i, j \in 1 .. Len(w) : i < j =>
          \E a, b \in 1 .. Len(files) : a < b /\ w[i] = files[a] /\ w[j] = files[b]
    BY <2>1
  <2>4. \A a \in 1 .. Len(files) : files[a] = path \/ \E i \in 1 .. Len(w) : w[i] = files[a]
    BY <2>1
  <2>5. Len(w) = Len(files)
    BY <2>1
  <2>6. QED
    BY <1>1, <2>2, <2>3, <2>4, <2>5
<1>3. CASE path \in ToSet(files)
  <2>1. PICK k \in 1 .. Len(files) :
          /\ files[k] = path
          /\ Len(w) = Len(files) - 1
          /\ \A i \in 1 .. Len(files) - 1 : w[i] = files[IF i < k THEN i ELSE i + 1]
    BY <1>3, WithoutShape
  <2> DEFINE e(i) == IF i < k THEN i ELSE i + 1
  <2>2. \A i \in 1 .. Len(w) : e(i) \in 1 .. Len(files) /\ e(i) # k /\ w[i] = files[e(i)]
    BY <1>1, <2>1
  <2>3. \A i, j \in 1 .. Len(w) : i < j => e(i) < e(j)
    BY <1>1
  <2>4. \A i \in 1 .. Len(w) : w[i] # path
    BY <2>1, <2>2
  <2>5. ASSUME NEW a \in 1 .. Len(files), files[a] # path
        PROVE  \E i \in 1 .. Len(w) : w[i] = files[a]
    <3>1. CASE a < k
      <4>1. a \in 1 .. Len(w) /\ e(a) = a
        BY <1>1, <2>1, <3>1
      <4>2. QED
        BY <2>2, <4>1
    <3>2. CASE a > k
      <4>1. a - 1 \in 1 .. Len(w) /\ e(a - 1) = a
        BY <1>1, <2>1, <3>2
      <4>2. QED
        BY <2>2, <4>1
    <3>3. QED
      BY <1>1, <2>1, <2>5, <3>1, <3>2
  <2> HIDE DEF e
  <2>6. \E a \in 1 .. Len(files) : files[a] = path
    BY <2>1
  <2>7. \A i \in 1 .. Len(w) : w[i] # path /\ \E a \in 1 .. Len(files) : w[i] = files[a]
    BY <2>2, <2>4
  <2>8. \A i, j \in 1 .. Len(w) : i < j =>
          \E a, b \in 1 .. Len(files) : a < b /\ w[i] = files[a] /\ w[j] = files[b]
    BY <2>2, <2>3
  <2>9. \A a \in 1 .. Len(files) : files[a] = path \/ \E i \in 1 .. Len(w) : w[i] = files[a]
    BY <2>5
  <2>10. QED
    BY <1>1, <2>1, <2>6, <2>7, <2>8, <2>9
<1>4. QED
  BY <1>2, <1>3

\* UsedAfter and RecentAreLatest, of any list of uses u and of recent files r.
LaterIn(u, p, q) ==
    \E i \in DOMAIN u : u[i] = p /\ \A j \in DOMAIN u : u[j] = q => j < i
Latest(r, u) ==
    /\ Len(r) <= RecentMax
    /\ \A i \in DOMAIN r : r[i] \in ToSet(u)
    /\ \A i, j \in DOMAIN r : i < j => LaterIn(u, r[j], r[i])
    /\ \A p \in ToSet(u) \ ToSet(r) :
         Len(r) = RecentMax /\ \A i \in DOMAIN r : LaterIn(u, r[i], p)

\* What was used before stays before, and the file used now comes after all others.
LEMMA UsedAfterGrows ==
    ASSUME NEW u \in Seq(Path), NEW path \in Path, NEW v, v = Append(u, path)
    PROVE  /\ \A p, q \in Path : q # path /\ LaterIn(u, p, q) => LaterIn(v, p, q)
           /\ \A q \in Path : q # path => LaterIn(v, path, q)
           /\ ToSet(v) = ToSet(u) \union {path}
<1>1. /\ v \in Seq(Path) /\ Len(v) = Len(u) + 1 /\ Len(u) \in Nat
      /\ DOMAIN u = 1 .. Len(u) /\ DOMAIN v = 1 .. Len(u) + 1
      /\ \A i \in 1 .. Len(u) : v[i] = u[i]
      /\ v[Len(u) + 1] = path
  BY AppendProperties
<1>2. ASSUME NEW p \in Path, NEW q \in Path, q # path, LaterIn(u, p, q)
      PROVE  LaterIn(v, p, q)
  BY <1>1, <1>2 DEF LaterIn
<1>3. ASSUME NEW q \in Path, q # path
      PROVE  LaterIn(v, path, q)
  <2>1. Len(u) + 1 \in DOMAIN v /\ v[Len(u) + 1] = path
    BY <1>1
  <2>2. \A j \in DOMAIN v : v[j] = q => j < Len(u) + 1
    BY <1>1, <1>3
  <2>3. QED
    BY <2>1, <2>2 DEF LaterIn
<1>4. ToSet(v) = ToSet(u) \union {path}
  BY <1>1 DEF ToSet
<1>5. QED
  BY <1>2, <1>3, <1>4

LEMMA NotUsedAfterItself == ASSUME NEW u \in Seq(Path), NEW p PROVE ~LaterIn(u, p, p)
<1>1. DOMAIN u \subseteq Nat
  OBVIOUS
<1>2. QED
  BY <1>1 DEF LaterIn

\* A file that is used moves to the back of the list, and at the limit pushes out
\* the one whose last use is longest ago.
LEMMA PushKeepsOrder ==
    ASSUME NEW files \in Seq(Path), NEW u \in Seq(Path), NEW path \in Path, Latest(files, u),
           NEW r, r = PushRecent(files, path), NEW v, v = Append(u, path)
    PROVE  Latest(r, v) /\ r \in Seq(Path)
<1> DEFINE w == Without(files, path)
           pushed == Append(w, path)
<1>0. /\ files \in Seq(Path) /\ u \in Seq(Path) /\ RecentMax \in Nat \ {0}
      /\ Len(files) \in Nat /\ DOMAIN files = 1 .. Len(files)
  BY FsmAssumption
<1>1. /\ \A p, q \in Path : q # path /\ LaterIn(u, p, q) => LaterIn(v, p, q)
      /\ \A q \in Path : q # path => LaterIn(v, path, q)
      /\ ToSet(v) = ToSet(u) \union {path}
  BY <1>0, UsedAfterGrows
<1>00. RecentMax \in Nat /\ Len(files) \in Nat
  BY <1>0
<1>01. Len(files) <= RecentMax
  BY Zenon DEF Latest
<1>02. \A i \in 1 .. Len(files) : files[i] \in ToSet(u)
  BY <1>0, Zenon DEF Latest
<1>03. \A i, j \in 1 .. Len(files) : i < j => LaterIn(u, files[j], files[i])
  BY <1>0, Zenon DEF Latest
<1>04. \A p : p \in ToSet(u) /\ p \notin ToSet(files) =>
         Len(files) = RecentMax /\ \A i \in 1 .. Len(files) : LaterIn(u, files[i], p)
  BY <1>0, Zenon DEF Latest
<1>05. \A p : ~LaterIn(u, p, p)
  BY <1>0, NotUsedAfterItself, Zenon
<1>2. \A i, j \in 1 .. Len(files) : files[i] = files[j] => i = j
  BY <1>0, <1>03, <1>05
<1>3. /\ w \in Seq(Path) /\ Len(w) \in Nat
      /\ \A i \in 1 .. Len(w) : w[i] # path /\ \E a \in 1 .. Len(files) : w[i] = files[a]
      /\ \A i, j \in 1 .. Len(w) : i < j =>
           \E a, b \in 1 .. Len(files) : a < b /\ w[i] = files[a] /\ w[j] = files[b]
      /\ \A a \in 1 .. Len(files) : files[a] = path \/ \E i \in 1 .. Len(w) : w[i] = files[a]
      /\ Len(w) = Len(files) \/ Len(w) = Len(files) - 1
      /\ (\A a \in 1 .. Len(files) : files[a] # path) => Len(w) = Len(files)
  BY <1>0, <1>2, WithoutKeepsOrder, ZenonT(40)
<1>30. Len(w) \in Nat /\ (Len(w) = Len(files) \/ Len(w) = Len(files) - 1)
  BY <1>3, Zenon
<1>4. \A i \in 1 .. Len(w) : w[i] \in Path /\ w[i] \in ToSet(u)
  <2>1. \A i \in 1 .. Len(w) : w[i] \in Path
    BY <1>3
  <2>2. ASSUME NEW i \in 1 .. Len(w)
        PROVE  w[i] \in ToSet(u)
    <3>1. \E a \in 1 .. Len(files) : w[i] = files[a]
      BY <1>3
    <3>2. QED
      BY <1>02, <3>1
  <2>3. QED
    BY <2>1, <2>2
<1>5. \A i, j \in 1 .. Len(w) : i < j => LaterIn(u, w[j], w[i])
  BY <1>03, <1>3
<1> HIDE DEF w
<1>6. /\ pushed \in Seq(Path) /\ Len(pushed) = Len(w) + 1
      /\ \A i \in 1 .. Len(w) : pushed[i] = w[i]
      /\ pushed[Len(w) + 1] = path
  BY <1>3, AppendProperties DEF pushed
<1>7. r = IF Len(pushed) > RecentMax THEN Tail(pushed) ELSE pushed
  BY DEF PushRecent, w
<1> HIDE DEF pushed
<1>8. \A i, j \in 1 .. Len(pushed) : i < j => LaterIn(v, pushed[j], pushed[i])
  <2>1. ASSUME NEW i \in 1 .. Len(pushed), NEW j \in 1 .. Len(pushed), i < j
        PROVE  LaterIn(v, pushed[j], pushed[i])
    <3>1. i \in 1 .. Len(w) /\ pushed[i] = w[i] /\ w[i] # path /\ w[i] \in Path
      BY <1>3, <1>4, <1>6, <2>1
    <3>2. CASE j = Len(w) + 1
      BY <1>1, <1>6, <3>1, <3>2
    <3>3. CASE j \in 1 .. Len(w)
      <4>1. LaterIn(u, w[j], w[i]) /\ w[j] \in Path /\ pushed[j] = w[j]
        BY <1>4, <1>5, <1>6, <2>1, <3>1, <3>3
      <4>2. QED
        BY <1>1, <3>1, <4>1
    <3>4. QED
      BY <1>3, <1>6, <3>2, <3>3
  <2>2. QED
    BY <2>1
<1>9. \A i \in 1 .. Len(pushed) : pushed[i] \in ToSet(v)
  <2>1. ASSUME NEW i \in 1 .. Len(pushed)
        PROVE  pushed[i] \in ToSet(v)
    <3>1. CASE i = Len(w) + 1
      BY <1>1, <1>6, <3>1
    <3>2. CASE i \in 1 .. Len(w)
      BY <1>1, <1>4, <1>6, <3>2
    <3>3. QED
      BY <1>3, <1>6, <3>1, <3>2
  <2>2. QED
    BY <2>1
\* The files used but not offered, when nothing is pushed out.
<1>10. ASSUME NEW p \in ToSet(v), \A i \in 1 .. Len(pushed) : pushed[i] # p
       PROVE  /\ Len(files) = RecentMax
              /\ \A i \in 1 .. Len(pushed) : LaterIn(v, pushed[i], p)
  <2>1. p # path /\ \A i \in 1 .. Len(w) : w[i] # p
    BY <1>3, <1>6, <1>10
  <2>2. p \in ToSet(u) /\ p \in Path
    BY <1>0, <1>1, <2>1 DEF ToSet
  <2>3. \A a \in 1 .. Len(files) : files[a] # p
    BY <1>3, <2>1, ZenonT(40)
  <2>4. Len(files) = RecentMax /\ \A i \in 1 .. Len(files) : LaterIn(u, files[i], p)
    <3>1. p \notin ToSet(files)
      BY <1>0, <2>3 DEF ToSet
    <3>2. QED
      BY <1>04, <2>2, <3>1
  <2>5. \A i \in 1 .. Len(w) : LaterIn(v, w[i], p)
    <3>1. ASSUME NEW i \in 1 .. Len(w)
          PROVE  LaterIn(v, w[i], p)
      <4>1. \E a \in 1 .. Len(files) : w[i] = files[a]
        BY <1>3
      <4>2. LaterIn(u, w[i], p)
        BY <2>4, <4>1
      <4>3. QED
        BY <1>1, <1>4, <2>1, <2>2, <4>2
    <3>2. QED
      BY <3>1
  <2>6. \A i \in 1 .. Len(pushed) : LaterIn(v, pushed[i], p)
    <3>1. ASSUME NEW i \in 1 .. Len(pushed)
          PROVE  LaterIn(v, pushed[i], p)
      <4>1. CASE i = Len(w) + 1
        BY <1>1, <1>6, <2>1, <2>2, <4>1
      <4>2. CASE i \in 1 .. Len(w)
        BY <1>6, <2>5, <4>2
      <4>3. QED
        BY <1>30, <1>6, <4>1, <4>2
    <3>2. QED
      BY <3>1
  <2>7. QED
    BY <2>4, <2>6
<1>11. CASE Len(pushed) <= RecentMax
  <2>1. r = pushed /\ DOMAIN pushed = 1 .. Len(pushed)
    BY <1>0, <1>2, <1>6, <1>7, <1>11
  <2>2. \A p \in ToSet(v) : p \notin ToSet(pushed) =>
          Len(pushed) = RecentMax /\ \A i \in 1 .. Len(pushed) : LaterIn(v, pushed[i], p)
    <3>1. ASSUME NEW p \in ToSet(v), p \notin ToSet(pushed)
          PROVE  Len(pushed) = RecentMax /\ \A i \in 1 .. Len(pushed) : LaterIn(v, pushed[i], p)
      <4>1. \A i \in 1 .. Len(pushed) : pushed[i] # p
        BY <2>1, <3>1 DEF ToSet
      <4>2. Len(files) = RecentMax /\ \A i \in 1 .. Len(pushed) : LaterIn(v, pushed[i], p)
        BY <1>10, <4>1
      <4>3. QED
        <5>1. Len(pushed) = RecentMax
          BY <1>0, <1>3, <1>6, <1>11, <4>2
        <5>2. QED
          BY <4>2, <5>1
    <3>2. QED
      BY <3>1
  <2>3. QED
    BY <1>6, <1>8, <1>9, <1>11, <2>1, <2>2 DEF Latest
<1>12. CASE Len(pushed) > RecentMax
  <2> DEFINE t == Tail(pushed)
  <2>1. /\ r = t /\ t \in Seq(Path) /\ Len(t) = Len(pushed) - 1
        /\ \A i \in 1 .. Len(t) : t[i] = pushed[i + 1]
        /\ DOMAIN t = 1 .. Len(t)
    BY <1>0, <1>2, <1>6, <1>7, <1>12, HeadTailProperties
  <2>2. Len(t) = RecentMax
    <3>1. Len(pushed) = Len(w) + 1 /\ Len(t) = Len(w)
      BY <1>30, <1>6, <2>1
    <3> HIDE DEF t
    <3>2. QED
      BY <1>00, <1>01, <1>30, <1>12, <3>1
  <2> HIDE DEF t
  <2>3. \A i, j \in 1 .. Len(t) : i < j => LaterIn(v, t[j], t[i])
    BY <1>0, <1>2, <1>6, <1>8, <2>1
  <2>4. \A i \in 1 .. Len(t) : t[i] \in ToSet(v)
    BY <1>0, <1>2, <1>6, <1>9, <2>1
  <2>5. ASSUME NEW p \in ToSet(v), p \notin ToSet(t)
        PROVE  \A i \in 1 .. Len(t) : LaterIn(v, t[i], p)
    <3>1. CASE p = pushed[1]
      BY <1>0, <1>2, <1>6, <1>8, <2>1, <3>1
    <3>2. CASE p # pushed[1]
      <4>1. ASSUME NEW i \in 1 .. Len(pushed)
            PROVE  pushed[i] # p
        <5>1. CASE i = 1
          BY <3>2, <5>1
        <5>2. CASE i > 1
          <6>1. i - 1 \in 1 .. Len(t) /\ t[i - 1] = pushed[i]
            BY <1>2, <1>6, <2>1, <5>2
          <6>2. QED
            BY <2>1, <2>5, <6>1 DEF ToSet
        <5>3. QED
          BY <1>2, <1>6, <5>1, <5>2
      <4>2. \A i \in 1 .. Len(pushed) : LaterIn(v, pushed[i], p)
        BY <1>10, <4>1
      <4>3. QED
        BY <1>2, <1>6, <2>1, <4>2
    <3>3. QED
      BY <3>1, <3>2
  <2>6. Len(t) <= RecentMax
    BY <1>0, <2>2
  <2>7. Latest(t, v)
    BY <2>1, <2>2, <2>3, <2>4, <2>5, <2>6, Zenon DEF Latest
  <2>8. QED
    BY <2>1, <2>7
<1>13. QED
  BY <1>0, <1>2, <1>6, <1>11, <1>12

-----------------------------------------------------------------------------
(* The state machine.                                                       *)

\* The limit is looked at when a tool is selected, so that a step is left for it.
FsmInv == FsmTypeOK /\ (state = "Execution" => step < MaxSteps)

LEMMA FsmInitInv == FsmInit => FsmInv /\ RecentAreLatest
<1> SUFFICES ASSUME FsmInit PROVE FsmInv /\ RecentAreLatest
  OBVIOUS
<1>1. FsmInv
  BY FsmAssumption DEF FsmInit, FsmInv, FsmTypeOK, Running, Ended, Query, ToolOutput
<1>2. RecentAreLatest
  BY FsmAssumption DEF FsmInit, RecentAreLatest, ToSet
<1>3. QED
  BY <1>1, <1>2

\* What a tool leaves is within the workspace.
LEMMA AfterInside ==
    ASSUME FsmTypeOK, state = "Execution", Possible(pending)
    PROVE  After(pending) \subseteq Inside
<1>1. pending \in ToolCall /\ present \subseteq Inside
  BY DEF FsmTypeOK
<1>2. QED
  BY <1>1 DEF After, Possible, Guarded, ToolCall, PathTools, Path

LEMMA FsmStepInv == FsmInv /\ RecentAreLatest /\ [FsmNext]_fsmVars => (FsmInv /\ RecentAreLatest)'
<1> SUFFICES ASSUME FsmInv, RecentAreLatest, [FsmNext]_fsmVars
             PROVE  FsmInv' /\ RecentAreLatest'
  OBVIOUS
<1> USE FsmAssumption, PathAssumption
<1>0. FsmTypeOK
  BY DEF FsmInv
<1>1. CASE Ask
  <2>1. FsmInv'
    BY <1>1 DEF Ask, FsmInv, FsmTypeOK, Running, Ended, Query, ToolOutput
  <2>2. RecentAreLatest'
    BY <1>1 DEF Ask, RecentAreLatest, ToSet
  <2>3. QED
    BY <2>1, <2>2
<1>2. CASE Execute
  <2>1. pending \in ToolCall /\ step \in Nat /\ step < MaxSteps /\ step' = step + 1
    BY <1>2 DEF Execute, FsmInv, FsmTypeOK
  <2>2. ASSUME pending.tool \in {"fs_read_file", "read_document"}
        PROVE  RecentAreLatest' /\ recent' \in Seq(Path) /\ used' \in Seq(Path)
    <3>1. pending.path \in Path
      BY <2>1, <2>2 DEF ToolCall, PathTools
    <3>2. recent' = PushRecent(recent, pending.path) /\ used' = Append(used, pending.path)
      BY <1>2, <2>2 DEF Execute
    <3>3. Latest(recent, used)
      BY Zenon DEF RecentAreLatest, UsedAfter, Latest, LaterIn
    <3>4. Latest(recent', used') /\ recent' \in Seq(Path)
      BY <1>0, <3>1, <3>2, <3>3, PushKeepsOrder DEF FsmTypeOK
    <3>5. used' \in Seq(Path)
      BY <1>0, <3>1, <3>2 DEF FsmTypeOK
    <3>6. RecentAreLatest'
      BY <3>4, Zenon DEF RecentAreLatest, UsedAfter, Latest, LaterIn
    <3>7. QED
      BY <3>4, <3>5, <3>6
  <2>3. ASSUME pending.tool \notin {"fs_read_file", "read_document"}
        PROVE  RecentAreLatest' /\ recent' \in Seq(Path) /\ used' \in Seq(Path)
    <3>1. UNCHANGED <<recent, used>>
      BY <1>2, <2>3 DEF Execute
    <3>2. QED
      BY <1>0, <3>1 DEF FsmTypeOK, RecentAreLatest, UsedAfter
  <2>4. RecentAreLatest' /\ recent' \in Seq(Path) /\ used' \in Seq(Path)
    BY <2>2, <2>3
  <2>5. present' \subseteq Inside
    BY <1>0, <1>2, AfterInside DEF Execute, FsmTypeOK
  <2>6. lastDoc' \in Path \union {NoPath}
    <3>1. pending.tool = "read_document" => pending.path \in Path
      BY <2>1 DEF ToolCall, PathTools
    <3>2. QED
      BY <1>0, <1>2, <3>1 DEF Execute, FsmTypeOK
  <2>7. state' = "Validation" /\ pending' = NoTool
    BY <1>2 DEF Execute
  <2>8. /\ queries' \in 0 .. MaxQueries /\ query' \in Query /\ output' \in ToolOutput
        /\ summary' \in Path \union {NoPath}
    BY <1>0, <1>2 DEF Execute, FsmTypeOK
  <2>9. step' \in 0 .. MaxSteps
    BY <2>1
  <2>10. FsmTypeOK'
    BY <2>4, <2>5, <2>6, <2>7, <2>8, <2>9 DEF FsmTypeOK, Running
  <2>11. QED
    BY <2>4, <2>7, <2>10 DEF FsmInv
<1>3. ASSUME UNCHANGED <<recent, used>>
      PROVE  RecentAreLatest'
  BY <1>3 DEF RecentAreLatest, UsedAfter
<1>4. CASE SelectAction
  <2>1. CASE \E t \in ToolCall : pending' = t /\ state' = "Execution"
    <3>1. NoTool \notin ToolCall
      BY DEF NoTool, ToolCall, PathTools
    <3>2. FsmInv'
      BY <1>0, <1>4, <2>1, <3>1 DEF SelectAction, FsmInv, FsmTypeOK, Running
    <3>3. QED
      BY <1>3, <1>4, <3>2 DEF SelectAction
  <2>2. CASE state' \in {"Finalize", "EmptyResponse", "HallucinationDetected"} /\ UNCHANGED pending
    <3>1. FsmInv'
      BY <1>0, <1>4, <2>2 DEF SelectAction, FsmInv, FsmTypeOK, Running, Ended
    <3>2. QED
      BY <1>3, <1>4, <3>1 DEF SelectAction
  <2>3. QED
    BY <1>4, <2>1, <2>2 DEF SelectAction
<1>5. CASE Start \/ RetrieveContext \/ GiveUp \/ Validate
  <2>1. FsmInv'
    BY <1>0, <1>5 DEF Start, RetrieveContext, GiveUp, Validate, context, FsmInv, FsmTypeOK, Running, Ended
  <2>2. QED
    BY <1>3, <1>5, <2>1 DEF Start, RetrieveContext, GiveUp, Validate, context
<1>6. CASE Finalize
  <2>1. summary' \in Path \union {NoPath}
    BY <1>0, <1>6 DEF Finalize, SummaryBeside, FsmTypeOK
  <2>2. FsmInv'
    BY <1>0, <1>6, <2>1 DEF Finalize, context, FsmInv, FsmTypeOK, Running, Ended
  <2>3. QED
    BY <1>3, <1>6, <2>2 DEF Finalize, context
<1>9. CASE ReadPanics
  <2>1. pending \in ToolCall /\ pending.path \in Path
    BY <1>0, <1>9 DEF ReadPanics, FsmTypeOK, ToolCall, PathTools
  <2>2. FsmInv'
    BY <1>0, <1>9, <2>1 DEF ReadPanics, FsmInv, FsmTypeOK, Running, Ended
  <2>3. QED
    BY <1>3, <1>9, <2>2 DEF ReadPanics
<1>7. CASE UNCHANGED fsmVars
  <2>1. FsmInv'
    BY <1>0, <1>7 DEF fsmVars, context, FsmInv, FsmTypeOK
  <2>2. QED
    BY <1>3, <1>7, <2>1 DEF fsmVars, context
<1>8. QED
  BY <1>1, <1>2, <1>4, <1>5, <1>6, <1>7, <1>9 DEF FsmNext, Step

-----------------------------------------------------------------------------
(* The fact store.                                                          *)

Entry == Fact \union {Marker}
Kinds == {"sources", "configs", "read", "grep", "answered"}

\* The only marker a list of facts holds is its first entry.
WellKept(s) ==
    /\ s \in Seq(Entry)
    /\ Len(s) <= MaxFacts
    /\ \A i \in 2 .. Len(s) : s[i] \in Fact

\* What FactsAreKept says of one call.
Kept(s, r) ==
    /\ Len(s) <= MaxFacts
    /\ Held(s) >= CompactKeep \/ Held(s) = Held(r)
    /\ \A n \in 1 .. Held(s) : n <= Held(r) /\ Newest(s, n) = Newest(r, n) /\ Newest(s, n) # Marker

LEMMA Limits == MaxFacts \in Nat /\ CompactKeep \in Nat /\ 0 < CompactKeep /\ CompactKeep < MaxFacts
  BY LimitsAssumption

LEMMA MarkerIsNoFact == Marker \notin Fact
  BY DEF Marker, Fact

LEMMA HeldLength ==
    ASSUME NEW s \in Seq(Entry)
    PROVE  /\ Held(s) \in Nat /\ Len(s) \in Nat
           /\ Held(s) = Len(s) \/ (Held(s) = Len(s) - 1 /\ s[1] = Marker)
           /\ (Len(s) > 0 /\ s[1] # Marker) => Held(s) = Len(s)
<1>1. Len(s) \in Nat /\ (s # <<>> => Len(s) > 0)
  OBVIOUS
<1>2. CASE s # <<>> /\ s[1] = Marker
  <2>1. Held(s) = Len(s) - 1
    BY <1>2 DEF Held
  <2>2. QED
    BY <1>1, <1>2, <2>1
<1>3. CASE ~(s # <<>> /\ s[1] = Marker)
  <2>1. Held(s) = Len(s)
    BY <1>3 DEF Held
  <2>2. Held(s) \in Nat
    BY <1>1, <2>1
  <2>3. QED
    BY <1>1, <2>1, <2>2, Zenon
<1>4. QED
  BY <1>2, <1>3, Zenon

\* p is s with the fact x pushed: x is the newest, and those before it are one older.
Pushed(p, s, x) ==
    /\ p \in Seq(Entry) /\ Len(p) = Len(s) + 1 /\ Held(p) = Held(s) + 1
    /\ Newest(p, 1) = x
    /\ \A n \in 1 .. Held(s) : Newest(p, n + 1) = Newest(s, n)

LEMMA HeldAppend ==
    ASSUME NEW s \in Seq(Entry), NEW x \in Fact, NEW p, p = Append(s, x)
    PROVE  Pushed(p, s, x)
<1>1. /\ p \in Seq(Entry) /\ Len(p) = Len(s) + 1 /\ Len(s) \in Nat
      /\ \A i \in 1 .. Len(s) : p[i] = s[i]
      /\ p[Len(s) + 1] = x
  BY AppendProperties DEF Entry
<1>2. Held(p) = Held(s) + 1
  <2>1. CASE s = <<>>
    BY <1>1, <2>1, MarkerIsNoFact DEF Held
  <2>2. CASE s # <<>>
    BY <1>1, <2>2 DEF Held
  <2>3. QED
    BY <2>1, <2>2
<1>3. Newest(p, 1) = x
  BY <1>1 DEF Newest
<1>4. \A n \in 1 .. Held(s) : Newest(p, n + 1) = Newest(s, n)
  BY <1>1, HeldLength DEF Newest
<1>5. QED
  BY <1>1, <1>2, <1>3, <1>4, Zenon DEF Pushed

\* None of the facts held is the marker.
LEMMA HeldFacts ==
    ASSUME NEW s \in Seq(Entry), \A i \in 2 .. Len(s) : s[i] \in Fact
    PROVE  \A n \in 1 .. Held(s) : Newest(s, n) # Marker
<1>1. CASE Held(s) = Len(s)
  <2>1. Len(s) > 0 => s[1] # Marker
    BY <1>1 DEF Held
  <2>2. \A i \in 1 .. Len(s) : s[i] # Marker
    BY <2>1, MarkerIsNoFact
  <2>3. QED
    BY <1>1, <2>2, HeldLength DEF Newest
<1>2. CASE Held(s) = Len(s) - 1
  BY <1>2, HeldLength, MarkerIsNoFact DEF Newest
<1>3. QED
  BY <1>1, <1>2, HeldLength

\* What a compaction leaves: the marker, then the newest CompactKeep facts.
LEMMA CompactedShape ==
    ASSUME NEW s \in Seq(Entry), Len(s) = MaxFacts + 1, \A i \in 2 .. Len(s) : s[i] \in Fact
    PROVE  /\ Compacted(s) \in Seq(Entry)
           /\ Len(Compacted(s)) = CompactKeep + 1
           /\ Compacted(s)[1] = Marker
           /\ \A i \in 2 .. CompactKeep + 1 : Compacted(s)[i] = s[Len(s) - CompactKeep - 1 + i]
<1> USE Limits
<1> DEFINE k == LastN(s, CompactKeep)
           m == <<Marker>>
<1>1. /\ k \in Seq(Entry) /\ Len(k) = CompactKeep
      /\ \A i \in 1 .. CompactKeep : k[i] = s[Len(s) - CompactKeep + i]
  <2> DEFINE f == Len(s) - CompactKeep + 1
             l == Len(s)
  <2>1. f \in Nat /\ l \in Nat /\ f >= 1 /\ f <= l /\ l - f + 1 = CompactKeep
    OBVIOUS
  <2>2. k = SubSeq(s, f, l)
    BY DEF LastN
  <2> HIDE DEF f, l, k
  <2>3. k \in Seq(Entry) /\ Len(k) = CompactKeep /\ \A i \in 1 .. CompactKeep : k[i] = s[f + i - 1]
    BY <2>1, <2>2, SubSeqProperties DEF l
  <2>4. \A i \in 1 .. CompactKeep : f + i - 1 = Len(s) - CompactKeep + i
    BY <2>1 DEF f
  <2>5. QED
    BY <2>3, <2>4
<1>2. m \in Seq(Entry) /\ Len(m) = 1 /\ m[1] = Marker
  BY DEF Entry
<1>3. Compacted(s) = m \o k
  BY DEF Compacted
<1> HIDE DEF k, m
<1>4. /\ m \o k \in Seq(Entry) /\ Len(m \o k) = CompactKeep + 1
      /\ (m \o k)[1] = Marker
      /\ \A i \in 2 .. CompactKeep + 1 : (m \o k)[i] = k[i - 1]
  <2>1. m \o k \in Seq(Entry) /\ Len(m \o k) = Len(m) + Len(k)
    BY <1>1, <1>2, ConcatProperties, Zenon
  <2>2. (m \o k)[1] = m[1]
    BY <1>1, <1>2, <2>1, ConcatProperties
  <2>3. \A i \in 2 .. CompactKeep + 1 : (m \o k)[i] = k[i - 1]
    BY <1>1, <1>2, <2>1, ConcatProperties
  <2>4. Len(m \o k) = CompactKeep + 1
    BY <1>1, <1>2, <2>1
  <2>5. QED
    BY <1>2, <2>1, <2>2, <2>3, <2>4, Zenon
<1>5. \A i \in 2 .. CompactKeep + 1 : k[i - 1] = s[Len(s) - CompactKeep - 1 + i]
  <2>1. ASSUME NEW i \in 2 .. CompactKeep + 1
        PROVE  k[i - 1] = s[Len(s) - CompactKeep - 1 + i]
    <3>1. i - 1 \in 1 .. CompactKeep /\ Len(s) - CompactKeep + (i - 1) = Len(s) - CompactKeep - 1 + i
      OBVIOUS
    <3>2. QED
      BY <1>1, <3>1
  <2>2. QED
    BY <2>1
<1>6. QED
  BY <1>3, <1>4, <1>5

\* append_fact loses nothing but what a compaction drops.
LEMMA AppendKeeps ==
    ASSUME NEW s, WellKept(s), NEW r \in Seq(Entry), Kept(s, r), NEW x \in Fact,
           NEW p, p = Append(s, x), NEW q, q = Append(r, x), NEW t, t = Compacted(p)
    PROVE  WellKept(t) /\ Kept(t, q)
<1> USE Limits
<1>1. s \in Seq(Entry) /\ Len(s) \in Nat /\ Len(s) <= MaxFacts /\ MaxFacts \in Nat
  BY DEF WellKept
<1>4. \A i \in 2 .. Len(p) : p[i] \in Fact
  BY <1>1, AppendProperties DEF WellKept
<1>2. /\ p \in Seq(Entry) /\ Len(p) = Len(s) + 1 /\ Held(p) = Held(s) + 1 /\ Newest(p, 1) = x
      /\ \A n \in 1 .. Held(s) : Newest(p, n + 1) = Newest(s, n)
  <2>1. Pushed(p, s, x)
    BY <1>1, HeldAppend, Zenon
  <2>2. QED
    BY <2>1, Zenon DEF Pushed
<1>3. /\ q \in Seq(Entry) /\ Len(q) = Len(r) + 1 /\ Held(q) = Held(r) + 1 /\ Newest(q, 1) = x
      /\ \A n \in 1 .. Held(r) : Newest(q, n + 1) = Newest(r, n)
  <2>1. Pushed(q, r, x)
    BY HeldAppend, Zenon
  <2>2. QED
    BY <2>1, Zenon DEF Pushed
<1>6. Held(s) \in Nat /\ Held(r) \in Nat
  BY <1>1, HeldLength
\* What was pushed on both sides agrees on both sides.
<1>7. \A n \in 1 .. Held(p) : n <= Held(q) /\ Newest(p, n) = Newest(q, n)
  <2>1. ASSUME NEW n \in 1 .. Held(p)
        PROVE  n <= Held(q) /\ Newest(p, n) = Newest(q, n)
    <3>1. CASE n = 1
      BY <1>2, <1>3, <1>6, <3>1
    <3>2. CASE n > 1
      <4>1. n - 1 \in 1 .. Held(s) /\ (n - 1) + 1 = n
        BY <1>2, <1>6, <3>2
      <4>2. n - 1 <= Held(r) /\ Newest(s, n - 1) = Newest(r, n - 1)
        BY <4>1 DEF Kept
      <4>3. n - 1 \in 1 .. Held(r)
        BY <1>6, <4>1, <4>2
      <4>4. Newest(p, n) = Newest(s, n - 1) /\ Newest(q, n) = Newest(r, n - 1)
        BY <1>2, <1>3, <4>1, <4>3
      <4>5. QED
        BY <1>3, <1>6, <4>1, <4>2, <4>4
    <3>3. QED
      BY <1>2, <1>6, <3>1, <3>2
  <2>2. QED
    BY <2>1
<1>8. CASE Len(p) <= MaxFacts
  <2>1. t = p
    BY <1>1, <1>2, <1>8 DEF Compacted
  <2>2. WellKept(p)
    BY <1>2, <1>4, <1>8 DEF WellKept
  <2>3. \A n \in 1 .. Held(p) : Newest(p, n) # Marker
    BY <1>2, <1>4, HeldFacts
  <2>4. Held(p) >= CompactKeep \/ Held(p) = Held(q)
    <3>1. Held(s) >= CompactKeep \/ Held(s) = Held(r)
      BY DEF Kept
    <3>2. QED
      BY <1>2, <1>3, <1>6, <3>1
  <2>5. Kept(p, q)
    BY <1>7, <1>8, <2>3, <2>4 DEF Kept
  <2>6. QED
    BY <2>1, <2>2, <2>5
<1>9. CASE Len(p) > MaxFacts
  <2>1. Len(p) = MaxFacts + 1
    BY <1>1, <1>2, <1>9
  <2>2. /\ t \in Seq(Entry) /\ Len(t) = CompactKeep + 1 /\ t[1] = Marker
        /\ \A i \in 2 .. CompactKeep + 1 : t[i] = p[Len(p) - CompactKeep - 1 + i]
    <3>1. p \in Seq(Entry)
      BY <1>2
    <3>2. QED
      BY <1>4, <2>1, <3>1, CompactedShape
  <2>3. Held(t) = CompactKeep
    BY <2>2 DEF Held
  <2>4. Held(p) >= CompactKeep
    <3>1. Held(p) = Len(p) \/ Held(p) = Len(p) - 1
      BY <1>2, HeldLength
    <3>2. QED
      BY <2>1, <3>1
  <2>5. WellKept(t)
    <3>1. ASSUME NEW i \in 2 .. Len(t)
          PROVE  t[i] \in Fact
      <4>1. i \in 2 .. CompactKeep + 1
        BY <2>2
      <4>2. Len(p) - CompactKeep - 1 + i \in 2 .. Len(p)
        BY <2>1, <4>1
      <4>3. QED
        BY <1>4, <2>2, <4>1, <4>2
    <3>2. Len(t) <= MaxFacts
      BY <2>2
    <3>3. QED
      BY <2>2, <3>1, <3>2 DEF WellKept
  <2>6. \A n \in 1 .. Held(t) : Newest(t, n) = Newest(p, n) /\ n \in 1 .. Held(p)
    <3>1. ASSUME NEW n \in 1 .. CompactKeep
          PROVE  t[CompactKeep + 2 - n] = p[Len(p) + 1 - n]
      <4>1. /\ CompactKeep + 2 - n \in 2 .. CompactKeep + 1
            /\ Len(p) - CompactKeep - 1 + (CompactKeep + 2 - n) = Len(p) + 1 - n
        BY <2>1
      <4>2. QED
        BY <2>2, <4>1
    <3>2. \A n \in 1 .. CompactKeep : n \in 1 .. Held(p)
      BY <1>2, <1>6, <2>4
    <3>3. \A n \in 1 .. CompactKeep : Len(t) + 1 - n = CompactKeep + 2 - n
      BY <2>2
    <3>4. QED
      BY <2>3, <3>1, <3>2, <3>3 DEF Newest
  <2>7. \A n \in 1 .. Held(t) : Newest(t, n) # Marker
    BY <2>5, HeldFacts DEF WellKept
  <2>8. \A n \in 1 .. Held(t) : n <= Held(q) /\ Newest(t, n) = Newest(q, n)
    BY <1>7, <2>6
  <2>9. Kept(t, q)
    BY <2>2, <2>3, <2>7, <2>8 DEF Kept
  <2>10. QED
    BY <2>5, <2>9
<1>10. QED
  BY <1>1, <1>2, <1>8, <1>9

-----------------------------------------------------------------------------
(* The pipeline.                                                            *)

\* What the calls hold, and the file that all of them load and write back.
StoreInv ==
    /\ WellKept(memoryMd)
    /\ facts \in [Caller -> Seq(Entry)]
    /\ recorded \in [Caller -> Seq(Entry)]
    /\ \A c \in Caller : WellKept(facts[c]) /\ Kept(facts[c], recorded[c])

CallInv ==
    /\ agent \in [Caller -> [phase : {"rest", "sources", "configs", "targets", "read", "execute", "done"},
                             names : SUBSET File,
                             targets : SUBSET File,
                             context : SUBSET (File \union {Hits})]]
    /\ calls \in 0 .. MaxCalls

LEMMA StoreImplies == StoreInv /\ CallInv => SubagentTypeOK /\ FactsAreKept
<1> SUFFICES ASSUME StoreInv, CallInv PROVE SubagentTypeOK /\ FactsAreKept
  OBVIOUS
<1>1. SubagentTypeOK
  BY DEF StoreInv, CallInv, SubagentTypeOK, WellKept, Entry
<1>2. FactsAreKept
  BY Zenon DEF StoreInv, FactsAreKept, Kept
<1>3. QED
  BY <1>1, <1>2

\* A call begins with what the file holds: nothing is lost yet.
LEMMA KeptItself == ASSUME NEW s, WellKept(s) PROVE s \in Seq(Entry) /\ Kept(s, s)
<1>1. s \in Seq(Entry) /\ Len(s) <= MaxFacts /\ \A i \in 2 .. Len(s) : s[i] \in Fact
  BY DEF WellKept
<1>2. Held(s) \in Nat /\ \A n \in 1 .. Held(s) : n <= Held(s) /\ Newest(s, n) # Marker
  BY <1>1, HeldLength, HeldFacts
<1>3. QED
  BY <1>1, <1>2 DEF Kept

LEMMA EmptyIsKept == WellKept(<<>>) /\ Kept(<<>>, <<>>)
<1>1. WellKept(<<>>)
  BY Limits DEF WellKept
<1>2. QED
  BY <1>1, KeptItself

\* What a cut-off write leaves of a list is one the loader takes.
LEMMA TornIsKept ==
    ASSUME NEW s, WellKept(s), NEW t \in Torn(s)
    PROVE  WellKept(t)
<1>1. s \in Seq(Entry) /\ Len(s) \in Nat /\ Len(s) <= MaxFacts /\ \A i \in 2 .. Len(s) : s[i] \in Fact
  BY DEF WellKept
<1>2. ASSUME NEW n \in 0 .. Len(s)
      PROVE  /\ SubSeq(s, 1, n) \in Seq(Entry) /\ Len(SubSeq(s, 1, n)) = n
             /\ \A i \in 1 .. n : SubSeq(s, 1, n)[i] = s[i]
  BY <1>1, SubSeqProperties
<1>3. CASE t \in {SubSeq(s, 1, n) : n \in 0 .. Len(s)}
  <2>1. PICK n \in 0 .. Len(s) : t = SubSeq(s, 1, n)
    BY <1>3
  <2>2. t \in Seq(Entry) /\ Len(t) = n /\ \A i \in 1 .. n : t[i] = s[i]
    BY <1>2, <2>1
  <2>3. QED
    BY <1>1, <2>2, Limits DEF WellKept
<1>4. CASE t \in {[SubSeq(s, 1, n) EXCEPT ![n].names = {}] : n \in 1 .. Len(s)}
  <2>1. PICK n \in 1 .. Len(s) : t = [SubSeq(s, 1, n) EXCEPT ![n].names = {}]
    BY <1>4
  <2> DEFINE u == SubSeq(s, 1, n)
  <2>2. u \in Seq(Entry) /\ Len(u) = n /\ \A i \in 1 .. n : u[i] = s[i]
    BY <1>2
  <2>3. t = [u EXCEPT ![n].names = {}]
    BY <2>1
  <2> HIDE DEF u
  <2>4. \A e \in Fact : [e EXCEPT !.names = {}] \in Fact
    BY DEF Fact
  <2>5. \A e \in Entry : [e EXCEPT !.names = {}] \in Entry
    <3>1. [Marker EXCEPT !.names = {}] = Marker
      BY DEF Marker
    <3>2. QED
      BY <2>4, <3>1 DEF Entry
  <2>6. /\ t \in Seq(Entry) /\ Len(t) = n
        /\ t[n] = [u[n] EXCEPT !.names = {}]
        /\ \A i \in 1 .. n : i # n => t[i] = u[i]
    <3>1. u[n] \in Entry /\ DOMAIN u = 1 .. n /\ n \in 1 .. n
      BY <2>2
    <3>2. t = [u EXCEPT ![n] = [u[n] EXCEPT !.names = {}]]
      BY <2>3
    <3>3. [u[n] EXCEPT !.names = {}] \in Entry
      BY <2>5, <3>1
    <3> DEFINE e == [u[n] EXCEPT !.names = {}]
    <3> HIDE DEF e
    <3>4. e \in Entry /\ t = [u EXCEPT ![n] = e]
      BY <3>2, <3>3 DEF e
    <3>5. t \in Seq(Entry) /\ Len(t) = n /\ t[n] = e /\ \A i \in 1 .. n : i # n => t[i] = u[i]
      BY <2>2, <3>1, <3>4
    <3>6. QED
      BY <3>5 DEF e
  <2>7. n \in Nat /\ n <= MaxFacts
    BY <1>1, Limits
  <2>8. ASSUME NEW i \in 2 .. n PROVE t[i] \in Fact
    <3>1. i \in 1 .. n /\ i \in 2 .. Len(s)
      BY <1>1
    <3>2. u[i] \in Fact
      BY <1>1, <2>2, <3>1
    <3>3. CASE i = n
      BY <2>4, <2>6, <3>2, <3>3
    <3>4. CASE i # n
      BY <2>6, <3>1, <3>2, <3>4
    <3>5. QED
      BY <3>3, <3>4
  <2>9. QED
    BY <2>6, <2>7, <2>8 DEF WellKept
<1>5. QED
  BY <1>3, <1>4 DEF Torn

LEMMA StoreInit == SubagentInit => StoreInv /\ CallInv
<1> SUFFICES ASSUME SubagentInit PROVE StoreInv /\ CallInv
  OBVIOUS
<1>1. StoreInv
  BY EmptyIsKept DEF SubagentInit, StoreInv
<1>2. CallInv
  BY LimitsAssumption DEF SubagentInit, CallInv, Resting
<1>3. QED
  BY <1>1, <1>2

LEMMA AppendFactKeeps ==
    ASSUME StoreInv, NEW c \in Caller, NEW kind \in Kinds, NEW names \in SUBSET File,
           AppendFact(c, kind, names)
    PROVE  StoreInv'
<1> DEFINE x == [kind |-> kind, names |-> names]
           t == Compacted(Append(facts[c], x))
           q == Append(recorded[c], x)
<1>1. x \in Fact
  BY DEF Fact, Kinds
<1>2. /\ facts \in [Caller -> Seq(Entry)] /\ recorded \in [Caller -> Seq(Entry)]
      /\ WellKept(facts[c]) /\ Kept(facts[c], recorded[c]) /\ recorded[c] \in Seq(Entry)
  BY DEF StoreInv
<1>3. /\ facts' = [facts EXCEPT ![c] = t]
      /\ recorded' = [recorded EXCEPT ![c] = q]
      /\ memoryMd' \in {facts'[c], memoryMd} \union Torn(facts'[c])
  BY DEF AppendFact
<1>4. q \in Seq(Entry)
  BY <1>1, <1>2 DEF Entry
<1> HIDE DEF x
<1>5. WellKept(t) /\ Kept(t, q)
  BY <1>1, <1>2, AppendKeeps
<1> HIDE DEF t, q
<1>6. t \in Seq(Entry)
  BY <1>5 DEF WellKept
<1>7. facts' \in [Caller -> Seq(Entry)] /\ recorded' \in [Caller -> Seq(Entry)]
  BY <1>2, <1>3, <1>4, <1>6
<1>8. \A d \in Caller : WellKept(facts'[d]) /\ Kept(facts'[d], recorded'[d])
  BY <1>2, <1>3, <1>5 DEF StoreInv
<1>9. WellKept(memoryMd')
  <2>1. WellKept(facts'[c]) /\ WellKept(memoryMd)
    BY <1>8 DEF StoreInv
  <2>2. CASE memoryMd' \in Torn(facts'[c])
    BY <2>1, <2>2, TornIsKept
  <2>3. CASE memoryMd' \in {facts'[c], memoryMd}
    BY <2>1, <2>3
  <2>4. QED
    BY <1>3, <2>2, <2>3
<1>10. QED
  BY <1>7, <1>8, <1>9 DEF StoreInv

LEMMA StoreStep == StoreInv /\ CallInv /\ [SubagentNext]_subagentVars => (StoreInv /\ CallInv)'
<1> SUFFICES ASSUME StoreInv, CallInv, [SubagentNext]_subagentVars
             PROVE  StoreInv' /\ CallInv'
  OBVIOUS
<1>0. ASSUME Quiet PROVE StoreInv'
  BY <1>0 DEF Quiet, StoreInv
<1>1. ASSUME NEW c \in Caller, Orchestrate(c)
      PROVE  StoreInv' /\ CallInv'
  <2>1. CallInv'
    <3>1. PICK names \in SUBSET File :
            agent' = [agent EXCEPT ![c] = [phase |-> "sources", names |-> names,
                                           targets |-> {}, context |-> {}]]
      BY <1>1 DEF Orchestrate
    <3>2. calls' \in 0 .. MaxCalls
      BY <1>1, LimitsAssumption DEF Orchestrate, CallInv
    <3>3. QED
      BY <3>1, <3>2 DEF CallInv
  <2>2. PICK loaded \in Loaded(c) :
          /\ facts' = [facts EXCEPT ![c] = loaded]
          /\ recorded' = [recorded EXCEPT ![c] = loaded]
    BY <1>1 DEF Orchestrate
  <2>3. memoryMd' = memoryMd
    BY <1>1 DEF Orchestrate
  <2>4. loaded \in Seq(Entry) /\ Kept(loaded, loaded) /\ WellKept(loaded)
    <3>1. WellKept(memoryMd)
      BY DEF StoreInv
    <3>2. loaded = memoryMd \/ loaded \in Torn(memoryMd)
      BY <2>2 DEF Loaded
    <3>3. WellKept(loaded)
      BY <3>1, <3>2, TornIsKept
    <3>4. QED
      BY <3>3, KeptItself DEF WellKept
  <2>6. StoreInv'
    BY <2>2, <2>3, <2>4 DEF StoreInv
  <2>5. QED
    BY <2>1, <2>6
<1>2. ASSUME NEW c \in Caller, NEW kind \in {"sources", "configs"}, NEW next \in {"configs", "targets"},
             Explore(c, kind, next)
      PROVE  StoreInv' /\ CallInv'
  <2>1. CallInv'
    BY <1>2 DEF Explore, CallInv
  <2>2. StoreInv'
    BY <1>2, <1>0, AppendFactKeeps DEF Explore, Kinds
  <2>3. QED
    BY <2>1, <2>2
<1>3. ASSUME NEW c \in Caller, IdentifyTargets(c)
      PROVE  StoreInv' /\ CallInv'
  <2>1. Recalled(c) \subseteq File
    <3>1. facts[c] \in Seq(Entry)
      BY DEF StoreInv
    <3>2. \A i \in DOMAIN facts[c] : facts[c][i].names \in SUBSET File
      BY <3>1 DEF Entry, Fact, Marker
    <3>3. QED
      BY <3>2 DEF Recalled
  <2>2. agent[c].names \in SUBSET File
    BY DEF CallInv
  <2>3. PICK targets \in IF agent[c].names # {} THEN {agent[c].names} ELSE SUBSET Recalled(c) :
          agent' = [agent EXCEPT ![c].phase = "read", ![c].targets = targets]
    BY <1>3 DEF IdentifyTargets
  <2>4. targets \in SUBSET File
    BY <2>1, <2>2, <2>3
  <2>5. CallInv'
    <3>1. calls' = calls
      BY <1>3 DEF IdentifyTargets
    <3>2. QED
      BY <2>3, <2>4, <3>1, ZenonT(40) DEF CallInv
  <2>6. QED
    BY <1>3, <1>0, <2>5 DEF IdentifyTargets
<1>4. ASSUME NEW c \in Caller, ReadTarget(c)
      PROVE  StoreInv' /\ CallInv'
  <2>1. PICK f \in agent[c].targets :
          \/ /\ agent' = [agent EXCEPT ![c].targets = @ \ {f}]
             /\ Quiet
          \/ /\ \E shown \in {{f}, {}} :
                  agent' = [agent EXCEPT ![c].targets = @ \ {f}, ![c].context = @ \union shown]
             /\ AppendFact(c, "read", {f})
    BY <1>4 DEF ReadTarget
  <2>2. f \in File
    BY <2>1 DEF CallInv
  <2>3. CallInv'
    BY <1>4, <2>1, <2>2 DEF ReadTarget, CallInv
  <2>4. StoreInv'
    BY <1>0, <2>1, <2>2, AppendFactKeeps DEF Kinds
  <2>5. QED
    BY <2>3, <2>4
<1>5. ASSUME NEW c \in Caller, Grep(c)
      PROVE  StoreInv' /\ CallInv'
  <2>1. agent[c].names \in SUBSET File
    BY DEF CallInv
  <2>2. CallInv'
    BY <1>5 DEF Grep, CallInv
  <2>3. StoreInv'
    BY <1>5, <1>0, <2>1, AppendFactKeeps DEF Grep, Kinds
  <2>4. QED
    BY <2>2, <2>3
<1>6. ASSUME NEW c \in Caller, Planned(c)
      PROVE  StoreInv' /\ CallInv'
  BY <1>6, <1>0 DEF Planned, CallInv
<1>7. ASSUME NEW c \in Caller, ExecuteAgent(c)
      PROVE  StoreInv' /\ CallInv'
  <2>1. agent[c].names \in SUBSET File
    BY DEF CallInv
  <2>2. CallInv'
    BY <1>7 DEF ExecuteAgent, CallInv
  <2>3. StoreInv'
    BY <1>7, <2>1, AppendFactKeeps DEF ExecuteAgent, Kinds
  <2>4. QED
    BY <2>2, <2>3
<1>8. ASSUME NEW c \in Caller, Return(c)
      PROVE  StoreInv' /\ CallInv'
  <2>1. CallInv'
    BY <1>8 DEF Return, CallInv, Resting
  <2>2. StoreInv'
    BY <1>8, EmptyIsKept DEF Return, StoreInv
  <2>3. QED
    BY <2>1, <2>2
<1>9. CASE Die
  <2>1. CallInv'
    BY <1>9 DEF Die, CallInv, Resting
  <2>2. StoreInv'
    BY <1>9, EmptyIsKept DEF Die, StoreInv
  <2>3. QED
    BY <2>1, <2>2
<1>10. CASE UNCHANGED subagentVars
  BY <1>10 DEF subagentVars, StoreInv, CallInv
<1>11. QED
  BY <1>1, <1>2, <1>3, <1>4, <1>5, <1>6, <1>7, <1>8, <1>9, <1>10 DEF SubagentNext

-----------------------------------------------------------------------------
(* The theorems.                                                            *)

AssistantsInv == FsmInv /\ RecentAreLatest /\ StoreInv /\ CallInv

LEMMA AssistantsInductive == Spec => []AssistantsInv
<1>1. Init => AssistantsInv
  BY FsmInitInv, StoreInit DEF Init, AssistantsInv
<1>2. AssistantsInv /\ [Next]_vars => AssistantsInv'
  <2>1. Next => [FsmNext]_fsmVars /\ [SubagentNext]_subagentVars
    BY DEF Next
  <2>2. UNCHANGED vars => [FsmNext]_fsmVars /\ [SubagentNext]_subagentVars
    BY DEF vars
  <2>3. QED
    BY <2>1, <2>2, FsmStepInv, StoreStep DEF AssistantsInv
<1>3. QED
  BY <1>1, <1>2, PTL DEF Spec

\* Every variable of both agents keeps its type: no path outside the two sets is
\* noted, no more steps are counted than the limit, the store holds facts only.
THEOREM TypeCorrect == Spec => []TypeOK
<1>1. AssistantsInv => TypeOK
  BY StoreImplies DEF AssistantsInv, FsmInv, TypeOK
<1>2. QED
  BY <1>1, AssistantsInductive, PTL

\* The files offered for "this file" are the ones used last, each once, in the
\* order of their last use, for every limit and every sequence of tool calls.
THEOREM RecentFiles == Spec => []RecentAreLatest
<1>1. AssistantsInv => RecentAreLatest
  BY DEF AssistantsInv
<1>2. QED
  BY <1>1, AssistantsInductive, PTL

\* A call drops none of the facts it loaded or recorded but by a compaction, which
\* keeps the newest, whatever becomes of the file meanwhile.
THEOREM FactsKept == Spec => []FactsAreKept
<1>1. AssistantsInv => FactsAreKept
  BY StoreImplies DEF AssistantsInv
<1>2. QED
  BY <1>1, AssistantsInductive, PTL
=============================================================================
