---- MODULE LegacyCall ----
(***************************************************************************)
(* One call of a hooked member under the legacy backend (impl/Xposed.kt    *)
(* 66-99 and 155-189).  The framework runs beforeHookedMethod, the         *)
(* original unless a result or a throwable was set, and afterHookedMethod; *)
(* xcallback runs the handles of the right type over one InvokeInfo each   *)
(* time.  The handle lists are those of HookRegistry when it has come to   *)
(* rest.                                                                   *)
(*                                                                         *)
(* A class initializer has a framework callback per hook instead; the      *)
(* framework logs what those throw and goes on.                            *)
(***************************************************************************)
EXTENDS HookedCall

VARIABLES
  at,       \* where the call is
  todo,     \* handles the loop of this phase has still to call
  info,     \* InvokeInfo of this phase
  param,    \* MethodHookParam: result, throwable and returnEarly
  args,     \* who assigned the argument in param.args, one array for all
  seen,     \* ghost: the argument the original saw, Nobody if it was skipped
  ran       \* ghost: the hooks whose callback was called, in order

vars == <<call, at, todo, info, param, args, seen, ran>>

NoInfo == [result |-> Nobody, hasChanged |-> FALSE]

TypeOK ==
  /\ at \in {"beforeHooked", "before", "original", "afterHooked", "after", "returned"}
  /\ todo \in Seq(Indices) /\ ran \in Seq(Indices)
  /\ info \in [result : Authors, hasChanged : BOOLEAN]
  /\ param \in [result : Authors, throwable : Authors, returnEarly : BOOLEAN]
  /\ param.throwable # Nobody => param.result = Nobody
  /\ args \in Authors \ {Nobody} /\ seen \in Authors
  /\ at = "returned" => param.throwable # Nobody \/ param.result # Nobody

InitLegacy ==
  /\ at = "beforeHooked"
  /\ todo = <<>>
  /\ info = NoInfo
  /\ param = [result |-> Nobody, throwable |-> Nobody, returnEarly |-> FALSE]
  /\ args = Original
  /\ seen = Nobody
  /\ ran = <<>>

\* MethodHookParam.setResult and setThrowable: each clears the other.
WithResult(a) == [result |-> a, throwable |-> Nobody, returnEarly |-> TRUE]
WithThrowable(a) == [result |-> Nobody, throwable |-> a, returnEarly |-> TRUE]

\* The order of HookedMember.handles: descending priority, then oldest first.
Precedes(i, j) ==
  LET p == call.hooks[i].priority
      q == call.hooks[j].priority
  IN  p > q \/ (p = q /\ i < j)

\* The order in which callbacks of the type are called; the framework keeps
\* those of class initializers, all of one priority, in an order of its own.
Orders(type) ==
  {s \in SetToSeqs(OfType(type)) :
     call.clinit \/ \A i, j \in DOMAIN s : i < j => Precedes(s[i], s[j])}

\* runCallback: the handles, and an InvokeInfo over the param
StartPhase(from, to, type) ==
  /\ at = from
  /\ todo' \in Orders(type)
  /\ info' = [result |-> param.result, hasChanged |-> FALSE]
  /\ at' = to
  /\ UNCHANGED <<call, param, args, seen, ran>>

\* Faulty variant: a callback that throws does not end the loop.
RunCallbackGoingOn(phase) ==
  LET h == Head(todo)
  IN  /\ at = phase
      /\ todo # <<>>
      /\ ~call.clinit
      /\ args' = IF Does(h, "assign") THEN h ELSE args
      /\ info' = IF Does(h, "set") THEN [result |-> h, hasChanged |-> TRUE] ELSE info
      /\ param' = IF Does(h, "throw") THEN WithThrowable(h) ELSE param
      /\ todo' = Tail(todo)
      /\ ran' = Append(ran, h)
      /\ UNCHANGED <<call, at, seen>>

\* handle.callback(info); one that throws ends the loop and is handed on.
RunCallback(phase) ==
  LET h == Head(todo)
  IN  /\ at = phase
      /\ todo # <<>>
      /\ ~call.clinit
      /\ args' = IF Does(h, "assign") THEN h ELSE args
      /\ info' = IF Does(h, "set") THEN [result |-> h, hasChanged |-> TRUE] ELSE info
      /\ IF Does(h, "throw")
         THEN param' = WithThrowable(h) /\ todo' = <<>>
         ELSE todo' = Tail(todo) /\ UNCHANGED param
      /\ ran' = Append(ran, h)
      /\ UNCHANGED <<call, at, seen>>

\* hookClassInitializer: callback(info), an info nobody looks at afterwards
RunClinitCallback(phase) ==
  /\ at = phase
  /\ todo # <<>>
  /\ call.clinit
  /\ todo' = Tail(todo)
  /\ ran' = Append(ran, Head(todo))
  /\ UNCHANGED <<call, at, info, param, args, seen>>

\* Faulty variant: the result is assigned without clearing the throwable.
EndPhaseKeepingThrowable(phase, next) ==
  /\ at = phase
  /\ todo = <<>>
  /\ param' = IF info.hasChanged THEN [param EXCEPT !.result = info.result] ELSE param
  /\ at' = next
  /\ UNCHANGED <<call, todo, info, args, seen, ran>>

\* if (info.hasChanged) param.result = info.result
EndPhase(phase, next) ==
  /\ at = phase
  /\ todo = <<>>
  /\ param' = IF info.hasChanged THEN WithResult(info.result) ELSE param
  /\ at' = next
  /\ UNCHANGED <<call, todo, info, args, seen, ran>>

\* The framework calls the original unless the param says otherwise.
RunOriginal ==
  /\ at = "original"
  /\ IF param.returnEarly
     THEN UNCHANGED <<param, seen>>
     ELSE /\ param' = IF call.throws THEN WithThrowable(Original) ELSE WithResult(Original)
          /\ seen' = args
  /\ at' = "afterHooked"
  /\ UNCHANGED <<call, todo, info, args, ran>>

LegacyNext ==
  \/ StartPhase("beforeHooked", "before", "BEFORE")
  \/ EndPhase("before", "original")
  \/ RunOriginal
  \/ StartPhase("afterHooked", "after", "AFTER")
  \/ EndPhase("after", "returned")
  \/ \E phase \in {"before", "after"} : RunCallback(phase) \/ RunClinitCallback(phase)

\* What the caller gets.
LegacyOutcome ==
  IF at # "returned" THEN Pending
  ELSE IF param.throwable # Nobody THEN Exception(param.throwable)
  ELSE Result(param.result)
====
