---- MODULE MCHookRegistry ----
(***************************************************************************)
(* Small instances of HookRegistry: two threads, one caller, one member    *)
(* the framework hooks and one it refuses.  The requests differ in         *)
(* priority, and two of them share a callback across the hook types, as    *)
(* module code that hooks BEFORE and AFTER with one lambda does.           *)
(***************************************************************************)
EXTENDS HookRegistry

CONSTANTS t1, t2, c1, m1, m2, cbA, cbB

MCRequests ==
  {[type |-> "BEFORE", priority |-> 0,  callback |-> cbA],
   [type |-> "AFTER",  priority |-> 0,  callback |-> cbA],
   [type |-> "BEFORE", priority |-> 50, callback |-> cbB]}

MCSymmetry == Permutations({t1, t2})
====
