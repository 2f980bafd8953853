---- MODULE MCHeapVisit ----
(***************************************************************************)
(* Three threads, so that three visits overlap, and one visit more than    *)
(* threads, so that one begins among the marks of an earlier one; an       *)
(* object of a class and one of its subclass, so that visits of the two    *)
(* share one object and not the other.                                     *)
(***************************************************************************)
EXTENDS HeapVisit, TLC

CONSTANTS t1, t2, t3, o1, o2, Base, Derived

MCThreads == {t1, t2, t3}
MCObjects == {o1, o2}
MCClasses == {Base, Derived}
MCInstances == (Base :> MCObjects) @@ (Derived :> {o2})

MCSymmetry == Permutations(MCThreads)
====
