---- MODULE ChainCall ----
(***************************************************************************)
(* One call of a hooked member under the LSPosed backend (InterceptHooker  *)
(* in impl/LSPosed.kt 404-450).  The framework nests the hooks of a member *)
(* by descending priority; chain.proceed() calls the next one and at last  *)
(* the original.  A BEFORE hook acts on the way in, an AFTER hook on the   *)
(* way out.                                                                *)
(***************************************************************************)
EXTENDS HookedCall

VARIABLES
  chain,    \* the hooks, outermost first
  pos,      \* the link reached, Len(chain) + 1 for the original
  outcome,  \* Pending on the way in, then what the link below ended with
  passed,   \* who assigned the argument in the arguments of this link
  received, \* ghost: the argument the original saw, Nobody if it was skipped
  called    \* ghost: the hooks whose callback was called, in order

vars == <<call, chain, pos, outcome, passed, received, called>>

TypeOK ==
  /\ chain \in Seq(Indices) /\ called \in Seq(Indices)
  /\ pos \in 0..(Len(chain) + 1)
  /\ outcome \in Outcome
  /\ passed \in Authors \ {Nobody} /\ received \in Authors
  /\ (outcome = Pending) = (outcome.by = Nobody)
  /\ pos = 0 => outcome # Pending
  /\ pos = Len(chain) + 1 => outcome = Pending

\* The priority hook() sets; hookClassInitializer leaves the default.
ChainPriority(i) ==
  IF call.clinit THEN PriorityDefault
  ELSE Normalized(TypeOf(i), call.hooks[i].priority)

\* The framework orders hooks of one priority as it likes.
Chains ==
  {s \in [Indices -> Indices] :
     /\ IsInjective(s)
     /\ \A i, j \in DOMAIN s : i < j => ChainPriority(s[i]) >= ChainPriority(s[j])}

InitChain ==
  /\ chain \in Chains
  /\ pos = 1
  /\ outcome = Pending
  /\ passed = Original
  /\ received = Nobody
  /\ called = <<>>

Inward == outcome = Pending
AtLink(type) == pos \in DOMAIN chain /\ TypeOf(chain[pos]) = type

\* Faulty variants: a result set by a class initializer's callback counts; no
\* result set counts.
EndsHereAlways(h) == Writes(h)
EndsHereOnThrow(h) == Does(h, "throw")

\* throw info.exception, or a result was set and is not ignored
EndsHere(h) == Does(h, "throw") \/ (Does(h, "set") /\ ~call.clinit)

\* Faulty variant: proceed() with the arguments the link was given.
BeforeKeepingArgs ==
  LET h == chain[pos]
  IN  /\ Inward
      /\ AtLink("BEFORE")
      /\ called' = Append(called, h)
      /\ ~EndsHere(h)
      /\ pos' = pos + 1
      /\ UNCHANGED <<call, chain, outcome, passed, received>>

\* A BEFORE hook on the way in: the callback, then chain.proceed(args) with the
\* array the callback was given ...
BeforeProceeds ==
  LET h == chain[pos]
  IN  /\ Inward
      /\ AtLink("BEFORE")
      /\ ~EndsHere(h)
      /\ called' = Append(called, h)
      /\ passed' = IF Does(h, "assign") THEN h ELSE passed
      /\ pos' = pos + 1
      /\ UNCHANGED <<call, chain, outcome, received>>

\* ... or neither the hooks further in nor the original.
BeforeEnds ==
  LET h == chain[pos]
  IN  /\ Inward
      /\ AtLink("BEFORE")
      /\ EndsHere(h)
      /\ called' = Append(called, h)
      /\ outcome' = IF Does(h, "throw") THEN Exception(h) ELSE Result(h)
      /\ pos' = pos - 1
      /\ UNCHANGED <<call, chain, passed, received>>

\* An AFTER hook on the way in: chain.runCatching { proceed() }
AfterProceeds ==
  /\ Inward
  /\ AtLink("AFTER")
  /\ pos' = pos + 1
  /\ UNCHANGED <<call, chain, outcome, passed, received, called>>

RunOriginal ==
  /\ Inward
  /\ pos = Len(chain) + 1
  /\ outcome' = OriginalOutcome
  /\ received' = passed
  /\ pos' = pos - 1
  /\ UNCHANGED <<call, chain, passed, called>>

\* A BEFORE hook on the way out hands on what it gets.
BeforeReturns ==
  /\ ~Inward
  /\ AtLink("BEFORE")
  /\ pos' = pos - 1
  /\ UNCHANGED <<call, chain, outcome, passed, received, called>>

\* Faulty variants: the result of the call itself is returned; a result set
\* replaces an exception.
AfterOutcomeStale(h) == IF Does(h, "throw") THEN Exception(h) ELSE outcome
AfterOutcomeSet(h) ==
  IF Does(h, "throw") THEN Exception(h)
  ELSE IF Does(h, "set") /\ ~call.clinit THEN Result(h)
  ELSE outcome

\* What an AFTER hook makes of what it got: the callback's exception, else the
\* one it got, else the result, which the callback may have set.
AfterOutcome(h) ==
  IF Does(h, "throw") THEN Exception(h)
  ELSE IF outcome.kind = "exception" THEN outcome
  ELSE IF Does(h, "set") /\ ~call.clinit THEN Result(h)
  ELSE outcome

AfterReturns ==
  LET h == chain[pos]
  IN  /\ ~Inward
      /\ AtLink("AFTER")
      /\ called' = Append(called, h)
      /\ outcome' = AfterOutcome(h)
      /\ pos' = pos - 1
      /\ UNCHANGED <<call, chain, passed, received>>

ChainNext ==
  \/ BeforeProceeds
  \/ BeforeEnds
  \/ AfterProceeds
  \/ RunOriginal
  \/ BeforeReturns
  \/ AfterReturns

\* What the caller gets.
ChainOutcome == IF pos = 0 THEN outcome ELSE Pending
====
