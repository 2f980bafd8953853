---- MODULE CallContract ----
(***************************************************************************)
(* What a module that hooks a member may rely on in every call of it, on   *)
(* either framework: when its callbacks are called and in which order,     *)
(* whether the original is called and with which argument, and where the   *)
(* outcome can have come from.  What the backends do differently is left   *)
(* open here.                                                              *)
(***************************************************************************)
EXTENDS HookedCall

VARIABLES
  done,     \* hooks whose callback was called
  argument, \* who assigned the argument so far; Nobody once the call has turned
  given,    \* the argument the original was given, Nobody if it was not called
  answer    \* what the caller gets, Pending until it has it

contractVars == <<call, done, argument, given, answer>>

Init ==
  /\ done = {}
  /\ argument = Original
  /\ given = Nobody
  /\ answer = Pending

Inward == argument # Nobody
Done(type) == done \cap OfType(type)

\* Hooks whose priorities hook() makes one come in any order, and so do those of
\* a class initializer.
InTurn(i, j) ==
  LET p == call.hooks[i].priority
      q == call.hooks[j].priority
  IN  p >= q \/ Normalized(TypeOf(i), p) = Normalized(TypeOf(j), q)
MayCall(i) ==
  /\ i \notin done
  /\ call.clinit \/ \A j \in Done(TypeOf(i)) : InTurn(j, i)

\* The call turns at a BEFORE callback that throws or sets a result, which nobody
\* looks at in a class initializer.
Decides(i) == Does(i, "throw") \/ (Does(i, "set") /\ ~call.clinit)

\* A BEFORE callback, not after one that threw.  One that decides may be the last.
CallBefore(i) ==
  /\ Inward
  /\ TypeOf(i) = "BEFORE"
  /\ MayCall(i)
  /\ call.clinit \/ \A j \in done : ~Does(j, "throw")
  /\ done' = done \cup {i}
  /\ \/ argument' = IF Does(i, "assign") THEN i ELSE argument
     \/ Decides(i) /\ argument' = Nobody
  /\ UNCHANGED given

\* The original, once every BEFORE callback was called and none has written
RunOriginal ==
  /\ Inward
  /\ OfType("BEFORE") \subseteq done
  /\ call.clinit \/ \A i \in done : ~Writes(i)
  /\ given' = argument
  /\ argument' = Nobody
  /\ UNCHANGED done

\* A BEFORE callback has written: the original is not called.
TurnBack ==
  /\ Inward
  /\ ~call.clinit
  /\ \E i \in done : Writes(i)
  /\ argument' = Nobody
  /\ UNCHANGED <<done, given>>

CallAfter(i) ==
  /\ ~Inward
  /\ TypeOf(i) = "AFTER"
  /\ MayCall(i)
  /\ done' = done \cup {i}
  /\ UNCHANGED <<argument, given>>

\* What callbacks of a type have written
Written(type) ==
  {Result(i) : i \in {j \in Done(type) : Does(j, "set") /\ ~call.clinit}}
    \cup {Exception(i) : i \in {j \in Done(type) : Does(j, "throw")}}
Throws(outcomes) == \E o \in outcomes : o.kind = "exception"

\* What the call came to before the AFTER callbacks
Turned == IF given # Nobody THEN {OriginalOutcome} ELSE Written("BEFORE")

\* The outcome is an AFTER callback's if one writes, except that an exception may
\* stay where they only set results.
Answers ==
  Written("AFTER")
    \cup {o \in Turned :
            \/ Written("AFTER") = {}
            \/ o.kind = "exception" /\ ~Throws(Written("AFTER"))
            \/ call.clinit}

\* If the original was called, no AFTER callback is left out but those that one
\* cuts off by throwing.
AllCalled ==
  given # Nobody =>
    \/ OfType("AFTER") \subseteq done
    \/ ~call.clinit /\ \E i \in Done("AFTER") : Does(i, "throw")

Next ==
  /\ answer = Pending
  /\ UNCHANGED call
  /\ \/ \E i \in Indices : CallBefore(i) \/ CallAfter(i)
     \/ RunOriginal
     \/ TurnBack
     \/ UNCHANGED <<done, argument, given>>
  /\ \/ answer' = Pending
     \/ (~Inward /\ AllCalled)' /\ answer' \in Answers'

Spec == Init /\ [][Next]_contractVars
====
