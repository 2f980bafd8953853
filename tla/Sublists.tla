---- MODULE Sublists ----
(***************************************************************************)
(* The elements of a list that satisfy a predicate, in the order of the    *)
(* list: what a loop that skips elements visits, and what removeIf leaves. *)
(***************************************************************************)
EXTENDS Integers, FiniteSets, SequencesExt

\* The finite set S of integers in increasing order.
Ascending(S) ==
  CHOOSE f \in [1..Cardinality(S) -> S] :
    \A i, j \in 1..Cardinality(S) : i < j => f[i] < f[j]

\* The part of the sequence s whose elements are in S, in the order of s.
Sublist(s, S) ==
  LET keep == {i \in DOMAIN s : s[i] \in S}
      f == Ascending(keep)
  IN  [k \in 1..Cardinality(keep) |-> s[f[k]]]
====
