------------------------------ MODULE Ordering ------------------------------
(* Sorting, as what a sort promises: every member once, in the order asked for. *)
EXTENDS Integers, FiniteSets

\* Each member of S is related by R to those that come after it.
Arranged(S, R) ==
    CHOOSE f \in [1 .. Cardinality(S) -> S] :
        /\ \A x \in S : \E i \in DOMAIN f : f[i] = x
        /\ \A i, j \in DOMAIN f : i < j => <<f[i], f[j]>> \in R

\* A set of positions, in their order.
Ascending(S) == Arranged(S, {r \in S \X S : r[1] < r[2]})

\* The members of the sequence s at the positions in S.
Selected(s, S) == LET order == Ascending(S) IN [k \in DOMAIN order |-> s[order[k]]]
=============================================================================
