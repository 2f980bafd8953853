---- MODULE Priorities ----
(***************************************************************************)
(* Priorities of hooks (hook/InvokeCallback.kt) and what LSPosed.hook()    *)
(* makes of them for its framework, which orders the hooks of a member by  *)
(* descending priority, the first being the outermost.                     *)
(***************************************************************************)
EXTENDS Integers

CONSTANT PriorityDefault \* XposedInterface.PRIORITY_DEFAULT of the framework

Types == {"BEFORE", "AFTER"}
IntMax == 2147483647
IntMin == -IntMax - 1
InIntRange(p) == p \in Int /\ IntMin <= p /\ p <= IntMax

ASSUME PriorityAssumption ==
  PriorityDefault \in Int /\ 0 < PriorityDefault /\ PriorityDefault < IntMax

\* Priorities near 0 become the framework's default.
Collapsed(p) == IF -PriorityDefault <= p /\ p <= PriorityDefault THEN PriorityDefault ELSE p

\* -p, with the two ends of the range exchanged since -IntMin does not exist
Negated(p) ==
  IF p = IntMin THEN IntMax
  ELSE IF p = IntMax THEN IntMin
  ELSE -p

\* Faulty variant: AFTER hooks are ordered as BEFORE hooks are.
NotNegated(type, priority) == Collapsed(priority)

\* hook(): an AFTER hook is negated, so that it runs inside the hooks of lower
\* priority.
Normalized(type, priority) ==
  IF type = "AFTER" THEN Negated(Collapsed(priority)) ELSE Collapsed(priority)
====
