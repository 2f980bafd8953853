---- MODULE MCDispatch ----
(***************************************************************************)
(* Every call of a member with up to three hooks.  Priorities 0 and 20     *)
(* become one under LSPosed; the two ends of the range are exchanged.      *)
(***************************************************************************)
EXTENDS Dispatch

Hook(type, priority, does) == [type |-> type, priority |-> priority, does |-> does]

BeforeDeeds == {{}, {"assign"}, {"set"}, {"throw"}, {"set", "throw"}}
AfterDeeds == {{}, {"set"}, {"throw"}, {"set", "throw"}}

MCHooks ==
  {Hook("BEFORE", p, d) : p \in {-100, 0, 20}, d \in BeforeDeeds}
    \cup {Hook("AFTER", p, d) : p \in {IntMin, 0, IntMax}, d \in AfterDeeds}
====
