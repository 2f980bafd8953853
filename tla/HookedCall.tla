---- MODULE HookedCall ----
(***************************************************************************)
(* What both backends are given when the host calls a hooked member: the   *)
(* hooks of the member, and what the callbacks and the original will do.   *)
(*                                                                         *)
(* Data is abstracted to its author: a result, an exception or an argument *)
(* is the number of the hook whose callback made it, Original for what the *)
(* original made and the caller's argument, Nobody for none.               *)
(***************************************************************************)
EXTENDS Naturals, SequencesExt, Priorities

CONSTANTS
  Hooks,    \* the [type, priority, does] hook() may have been asked for: a
            \*   callback may assign an argument, set info.result (cancel()
            \*   sets it to null), and throw, in this order
  MaxHooks  \* bound: hooks of the member

Deeds == {"assign", "set", "throw"}

ASSUME HooksAssumption ==
  \A h \in Hooks :
    h.type \in Types /\ InIntRange(h.priority) /\ h.does \subseteq Deeds
ASSUME BoundsAssumption == MaxHooks \in Nat

Original == 0
Nobody == MaxHooks + 1
Authors == 0..Nobody

VARIABLE
  call  \* [hooks, throws, clinit]: the hooks in the order of their hook()
        \*   calls, whether the original throws, and whether the member is a
        \*   class initializer, hooked by hookClassInitializer

\* hookClassInitializer takes no priority, and its calls have no arguments.
ForClinit(h) == h.priority = 0 /\ "assign" \notin h.does

InitCall ==
  /\ call \in [hooks : BoundedSeq(Hooks, MaxHooks), throws : BOOLEAN, clinit : BOOLEAN]
  /\ call.clinit => \A h \in Range(call.hooks) : ForClinit(h)

Indices == DOMAIN call.hooks
TypeOf(i) == call.hooks[i].type
Does(i, deed) == deed \in call.hooks[i].does
OfType(type) == {i \in Indices : TypeOf(i) = type}

\* A callback that sets a result or throws decides how the call goes on.
Writes(i) == Does(i, "set") \/ Does(i, "throw")

Result(a) == [kind |-> "result", by |-> a]
Exception(a) == [kind |-> "exception", by |-> a]
Pending == [kind |-> "pending", by |-> Nobody]
Outcome == [kind : {"result", "exception", "pending"}, by : Authors]
OriginalOutcome == IF call.throws THEN Exception(Original) ELSE Result(Original)
====
