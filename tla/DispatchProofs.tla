---- MODULE DispatchProofs ----
(***************************************************************************)
(* What holds of a call of a hooked member for any hooks, under both       *)
(* backends.  NestedOK says how the callbacks LSPosed has called are       *)
(* nested; LegacyInv what the callbacks the legacy backend has called, the *)
(* original and the phases have written; ReachInv how far the call under   *)
(* LSPosed got and OutcomeInv what came of it.  The two calls share only   *)
(* the hooks, so each invariant is kept by its own call's steps; the       *)
(* theorems about both compare what the invariants say of a call that has  *)
(* returned.                                                               *)
(***************************************************************************)
EXTENDS Dispatch, FiniteSetTheorems, TLAPS

----
\* The priorities LSPosed.hook() gives the framework, for every default

\* Normalizing a priority never overflows.  (LSPosed.kt 118-122)
THEOREM NormalizedInRange ==
  ASSUME NEW type \in Types, NEW p, InIntRange(p)
  PROVE  InIntRange(Normalized(type, p))
BY PriorityAssumption DEF Types, InIntRange, Normalized, Collapsed, Negated, IntMin, IntMax

\* BEFORE hooks keep their order: a higher priority is never further in.
\* (LSPosed.kt 113-116)
THEOREM BeforeKeepsOrder ==
  ASSUME NEW p, InIntRange(p), NEW q, InIntRange(q), p <= q
  PROVE  Normalized("BEFORE", p) <= Normalized("BEFORE", q)
BY PriorityAssumption DEF InIntRange, Normalized, Collapsed, Negated, IntMin, IntMax

\* AFTER hooks are reversed over the whole range, its two ends included: since
\* they run from the innermost out, the higher priority is never called later.
\* (LSPosed.kt 117-123)
THEOREM AfterReversesOrder ==
  ASSUME NEW p, InIntRange(p), NEW q, InIntRange(q), p <= q
  PROVE  Normalized("AFTER", q) <= Normalized("AFTER", p)
BY PriorityAssumption DEF InIntRange, Normalized, Collapsed, Negated, IntMin, IntMax

----
\* Calls

\* An exception under LSPosed reaches the caller, or an AFTER callback replaces
\* it by another: no step turns it into a result.  (LSPosed.kt 432-446)
THEOREM ExceptionStays == Spec => ChainExceptionStays
<1>1. ASSUME [Next]_vars, outcome.kind = "exception", outcome' # outcome
      PROVE  \E h \in Range(chain) :
               /\ TypeOf(h) = "AFTER"
               /\ outcome' = Exception(h)
               /\ called' = Append(called, h)
  <2>1. Chain!ChainNext
    BY <1>1 DEF Next, vars, chainVars
  <2>2. ~Chain!Inward
    BY <1>1 DEF Chain!Inward, Chain!Pending
  <2>3. Chain!AfterReturns
    BY <1>1, <2>1, <2>2
    DEF Chain!ChainNext, Chain!BeforeProceeds, Chain!BeforeEnds,
        Chain!AfterProceeds, Chain!RunOriginal, Chain!BeforeReturns
  <2>4. PICK h \in Range(chain) : h = chain[pos] /\ TypeOf(h) = "AFTER"
    BY <2>3 DEF Chain!AfterReturns, Chain!AtLink, Range, TypeOf, Chain!TypeOf
  <2> QED
    BY <1>1, <2>3, <2>4 DEF Chain!AfterReturns, Chain!AfterOutcome, Chain!Exception, Chain!Result,
        Exception
<1> QED
  BY <1>1, PTL DEF Spec, ChainExceptionStays

----
\* What the hooks of a member are.
HooksOK ==
  \A i \in Indices : TypeOf(i) \in Types /\ InIntRange(call.hooks[i].priority)

\* The chain is sorted, the outermost hook first.
ChainOK ==
  /\ chain \in Seq(Indices)
  /\ \A a, b \in DOMAIN chain :
       a < b => Chain!ChainPriority(chain[a]) >= Chain!ChainPriority(chain[b])

\* Callbacks of BEFORE hooks are called on the way in, above pos; those of AFTER
\* hooks on the way out, below pos.
CalledOK ==
  /\ pos \in Int
  /\ called \in Seq(Indices)
  /\ \A i \in DOMAIN called : \E a \in DOMAIN chain :
       /\ chain[a] = called[i]
       /\ TypeOf(called[i]) = "BEFORE" /\ Chain!Inward => a < pos
       /\ TypeOf(called[i]) = "AFTER" => ~Chain!Inward /\ pos < a

\* Two callbacks of a type are called as their hooks are nested.
NestedOK ==
  \A i, j \in DOMAIN called :
    i < j /\ TypeOf(called[i]) = TypeOf(called[j]) =>
      \E a, b \in DOMAIN chain :
        /\ chain[a] = called[i] /\ chain[b] = called[j]
        /\ TypeOf(called[i]) = "BEFORE" => a < b
        /\ TypeOf(called[i]) = "AFTER" => b < a

IInv == HooksOK /\ ChainOK /\ CalledOK /\ NestedOK

\* The hooks of a call are numbered from 1.
LEMMA IndicesFromOne == InitCall => \E m \in Nat : Indices = 1..m
<1> SUFFICES ASSUME InitCall PROVE \E m \in Nat : Indices = 1..m
  OBVIOUS
<1>1. PICK m \in 0..MaxHooks : call.hooks \in [1..m -> Hooks]
  BY DEF InitCall, BoundedSeq, SeqOf
<1>2. m \in Nat
  BY <1>1, BoundsAssumption
<1> QED
  BY <1>1, <1>2 DEF Indices

\* Every call starts with a sorted chain and nothing called.
LEMMA StartsNested == Init => IInv
<1> SUFFICES ASSUME Init PROVE IInv
  OBVIOUS
<1> USE DEF Init
<1>1. HooksOK
  <2>1. PICK m \in 0..MaxHooks : call.hooks \in [1..m -> Hooks]
    BY DEF InitCall, BoundedSeq, SeqOf
  <2> QED
    BY <2>1, HooksAssumption DEF HooksOK, Indices, TypeOf
<1>2. chain \in [Indices -> Indices]
      /\ \A a, b \in DOMAIN chain :
           a < b => Chain!ChainPriority(chain[a]) >= Chain!ChainPriority(chain[b])
  BY DEF Chain!InitChain, Chain!Chains, Indices, Chain!Indices
<1>3. chain \in Seq(Indices)
  BY <1>2, IndicesFromOne
<1>4. pos = 1 /\ called = <<>>
  BY DEF Chain!InitChain
<1> QED
  BY <1>1, <1>2, <1>3, <1>4 DEF IInv, ChainOK, CalledOK, NestedOK

\* Calling the callback at pos keeps the callbacks nested, on the way in for a
\* BEFORE hook and on the way out for an AFTER hook.
LEMMA CallKeepsNested ==
  ASSUME IInv, UNCHANGED <<call, chain>>, pos \in DOMAIN chain,
         called' = Append(called, chain[pos]),
         \/ TypeOf(chain[pos]) = "BEFORE" /\ Chain!Inward
              /\ (pos' = pos + 1 \/ (pos' = pos - 1 /\ ~Chain!Inward'))
         \/ TypeOf(chain[pos]) = "AFTER" /\ ~Chain!Inward
              /\ pos' = pos - 1 /\ ~Chain!Inward'
  PROVE  CalledOK' /\ NestedOK'
<1> DEFINE n == Len(called)
<1>1. /\ n \in Nat
      /\ called' \in Seq(Indices)
      /\ DOMAIN called = 1..n /\ DOMAIN called' = 1..(n + 1)
      /\ \A i \in 1..n : called'[i] = called[i]
      /\ called'[n + 1] = chain[pos]
  BY DEF IInv, ChainOK, CalledOK
<1>2. pos' \in Int
  BY DEF IInv, CalledOK
<1>3. Indices' = Indices /\ \A i : TypeOf(i)' = TypeOf(i)
  BY DEF Indices, TypeOf
<1>4. CalledOK'
  <2> SUFFICES ASSUME NEW i \in 1..(n + 1)
               PROVE  \E a \in DOMAIN chain :
                        /\ chain[a] = called'[i]
                        /\ TypeOf(called'[i]) = "BEFORE" /\ Chain!Inward' => a < pos'
                        /\ TypeOf(called'[i]) = "AFTER" => ~Chain!Inward' /\ pos' < a
    BY <1>1, <1>2, <1>3 DEF CalledOK
  <2>1. CASE i = n + 1
    BY <1>1, <2>1 DEF IInv, CalledOK
  <2>2. CASE i # n + 1
    <3>1. i \in 1..n /\ called'[i] = called[i]
      BY <1>1, <2>2
    <3>2. DOMAIN chain \subseteq Int /\ pos \in Int
      BY DEF IInv, ChainOK, CalledOK
    <3>3. PICK a \in DOMAIN chain :
            /\ chain[a] = called[i]
            /\ TypeOf(called[i]) = "BEFORE" /\ Chain!Inward => a < pos
            /\ TypeOf(called[i]) = "AFTER" => ~Chain!Inward /\ pos < a
      BY <1>1, <3>1 DEF IInv, CalledOK
    <3> QED
      BY <3>1, <3>2, <3>3
  <2> QED
    BY <2>1, <2>2
<1>5. NestedOK'
  <2> SUFFICES ASSUME NEW i \in 1..(n + 1), NEW j \in 1..(n + 1), i < j,
                      TypeOf(called'[i]) = TypeOf(called'[j])
               PROVE  \E a, b \in DOMAIN chain :
                        /\ chain[a] = called'[i] /\ chain[b] = called'[j]
                        /\ TypeOf(called'[i]) = "BEFORE" => a < b
                        /\ TypeOf(called'[i]) = "AFTER" => b < a
    BY <1>1, <1>3 DEF NestedOK
  <2>1. i \in 1..n /\ called'[i] = called[i]
    BY <1>1
  <2>2. CASE j = n + 1
    <3>1. PICK a \in DOMAIN chain :
            /\ chain[a] = called[i]
            /\ TypeOf(called[i]) = "BEFORE" /\ Chain!Inward => a < pos
            /\ TypeOf(called[i]) = "AFTER" => ~Chain!Inward /\ pos < a
      BY <1>1, <2>1 DEF IInv, CalledOK
    <3> QED
      BY <1>1, <2>1, <2>2, <3>1
  <2>3. CASE j # n + 1
    <3>1. j \in 1..n /\ called'[j] = called[j]
      BY <1>1, <2>3
    <3> QED
      BY <1>1, <2>1, <3>1 DEF IInv, NestedOK
  <2> QED
    BY <2>2, <2>3
<1> QED
  BY <1>4, <1>5

\* A step that calls nothing only has to move pos the way it goes.
LEMMA MoveKeepsNested ==
  ASSUME IInv, UNCHANGED <<call, chain, called>>,
         \/ Chain!Inward /\ pos' = pos + 1 /\ Chain!Inward'
         \/ pos' = pos - 1 /\ ~Chain!Inward'
         \/ UNCHANGED pos /\ (Chain!Inward' = Chain!Inward)
  PROVE  CalledOK' /\ NestedOK'
<1>1. Indices' = Indices /\ \A i : TypeOf(i)' = TypeOf(i)
  BY DEF Indices, TypeOf
<1>2. NestedOK'
  BY <1>1 DEF IInv, NestedOK
<1>3. pos' \in Int /\ called' \in Seq(Indices')
  BY <1>1 DEF IInv, CalledOK
<1>4. ASSUME NEW i \in DOMAIN called
      PROVE  \E a \in DOMAIN chain :
               /\ chain[a] = called[i]
               /\ TypeOf(called[i]) = "BEFORE" /\ Chain!Inward' => a < pos'
               /\ TypeOf(called[i]) = "AFTER" => ~Chain!Inward' /\ pos' < a
  <2>1. PICK a \in DOMAIN chain :
          /\ chain[a] = called[i]
          /\ TypeOf(called[i]) = "BEFORE" /\ Chain!Inward => a < pos
          /\ TypeOf(called[i]) = "AFTER" => ~Chain!Inward /\ pos < a
    BY DEF IInv, CalledOK
  <2>2. a \in Int /\ pos \in Int
    BY DEF IInv, ChainOK, CalledOK
  <2> QED
    BY <2>1, <2>2
<1> QED
  BY <1>1, <1>2, <1>3, <1>4 DEF CalledOK

\* Every step of the call keeps the callbacks nested.
LEMMA StepKeepsNested == IInv /\ [Next]_vars => IInv'
<1> SUFFICES ASSUME IInv, [Next]_vars PROVE IInv'
  OBVIOUS
<1>1. UNCHANGED <<call, chain>>
  BY DEF Next, vars, legacyVars, chainVars,
      Legacy!LegacyNext, Legacy!StartPhase, Legacy!EndPhase, Legacy!RunOriginal,
      Legacy!RunCallback, Legacy!RunClinitCallback,
      Chain!ChainNext, Chain!BeforeProceeds, Chain!BeforeEnds, Chain!AfterProceeds,
      Chain!RunOriginal, Chain!BeforeReturns, Chain!AfterReturns
<1>2. HooksOK' /\ ChainOK'
  BY <1>1 DEF IInv, HooksOK, ChainOK, Indices, TypeOf, Chain!ChainPriority, Chain!TypeOf
<1>3. CASE UNCHANGED chainVars
  <2>1. Chain!Inward' = Chain!Inward
    BY <1>3 DEF chainVars, Chain!Inward, Chain!Pending, Chain!Nobody
  <2> QED
    BY <1>1, <1>2, <1>3, <2>1, MoveKeepsNested DEF chainVars, IInv
<1>4. CASE Chain!BeforeProceeds
  <2>1. Chain!Inward'
    BY <1>4 DEF Chain!BeforeProceeds, Chain!Inward, Chain!Pending, Chain!Nobody
  <2> QED
    BY <1>1, <1>2, <1>4, <2>1, CallKeepsNested
    DEF Chain!BeforeProceeds, Chain!AtLink, TypeOf, Chain!TypeOf, IInv
<1>5. CASE Chain!BeforeEnds
  <2>1. ~Chain!Inward'
    BY <1>5 DEF Chain!BeforeEnds, Chain!Inward, Chain!Pending, Chain!Nobody,
        Chain!Exception, Chain!Result
  <2> QED
    BY <1>1, <1>2, <1>5, <2>1, CallKeepsNested
    DEF Chain!BeforeEnds, Chain!AtLink, TypeOf, Chain!TypeOf, IInv
<1>6. CASE Chain!AfterProceeds
  <2>1. Chain!Inward'
    BY <1>6 DEF Chain!AfterProceeds, Chain!Inward, Chain!Pending, Chain!Nobody
  <2> QED
    BY <1>1, <1>2, <1>6, <2>1, MoveKeepsNested DEF Chain!AfterProceeds, IInv
<1>7. CASE Chain!RunOriginal
  <2>1. ~Chain!Inward'
    BY <1>7 DEF Chain!RunOriginal, Chain!Inward, Chain!Pending, Chain!Nobody,
        Chain!OriginalOutcome, Chain!Exception, Chain!Result
  <2> QED
    BY <1>1, <1>2, <1>7, <2>1, MoveKeepsNested DEF Chain!RunOriginal, IInv
<1>8. CASE Chain!BeforeReturns
  <2>1. ~Chain!Inward'
    BY <1>8 DEF Chain!BeforeReturns, Chain!Inward, Chain!Pending, Chain!Nobody
  <2> QED
    BY <1>1, <1>2, <1>8, <2>1, MoveKeepsNested DEF Chain!BeforeReturns, IInv
<1>9. CASE Chain!AfterReturns
  <2>1. ~Chain!Inward'
    BY <1>9 DEF Chain!AfterReturns, Chain!AfterOutcome, Chain!Inward, Chain!Pending,
        Chain!Nobody, Chain!Exception, Chain!Result
  <2>2. ~Chain!Inward
    BY <1>9 DEF Chain!AfterReturns
  <2> QED
    BY <1>1, <1>2, <1>9, <2>1, <2>2, CallKeepsNested
    DEF Chain!AfterReturns, Chain!AtLink, TypeOf, Chain!TypeOf, IInv
<1>10. UNCHANGED chainVars \/ Chain!ChainNext
  BY DEF Next, vars
<1> QED
  BY <1>3, <1>4, <1>5, <1>6, <1>7, <1>8, <1>9, <1>10 DEF Chain!ChainNext

\* Nested hooks are called in the order of the priorities modules asked for.
LEMMA NestedInOrder == IInv => SameOrder
<1> SUFFICES ASSUME IInv, ~call.clinit,
                    NEW i \in DOMAIN called, NEW j \in DOMAIN called, i < j,
                    TypeOf(called[i]) = TypeOf(called[j])
             PROVE  \/ call.hooks[called[i]].priority >= call.hooks[called[j]].priority
                    \/ Chain!ChainPriority(called[i]) = Chain!ChainPriority(called[j])
  BY DEF SameOrder
<1> DEFINE type == TypeOf(called[i])
           p == call.hooks[called[i]].priority
           q == call.hooks[called[j]].priority
<1>1. PICK a, b \in DOMAIN chain :
        /\ chain[a] = called[i] /\ chain[b] = called[j]
        /\ type = "BEFORE" => a < b
        /\ type = "AFTER" => b < a
  BY DEF IInv, NestedOK
<1>2. called[i] \in Indices /\ called[j] \in Indices
  BY DEF IInv, CalledOK
<1>3. type \in Types /\ InIntRange(p) /\ InIntRange(q)
  BY <1>2 DEF IInv, HooksOK
<1>4. /\ Chain!ChainPriority(called[i]) = Normalized(type, p)
      /\ Chain!ChainPriority(called[j]) = Normalized(type, q)
  BY DEF Chain!ChainPriority, TypeOf, Chain!TypeOf, Normalized, Chain!Normalized,
      Collapsed, Chain!Collapsed, Negated, Chain!Negated,
      IntMin, IntMax, Chain!IntMin, Chain!IntMax
<1>5. Normalized(type, p) \in Int /\ Normalized(type, q) \in Int
  BY <1>3, NormalizedInRange DEF InIntRange
<1>6. CASE type = "BEFORE"
  <2>1. Normalized("BEFORE", p) >= Normalized("BEFORE", q)
    BY <1>1, <1>4, <1>6 DEF IInv, ChainOK
  <2>2. p <= q => Normalized("BEFORE", p) <= Normalized("BEFORE", q)
    BY <1>3, BeforeKeepsOrder
  <2> QED
    BY <1>3, <1>4, <1>5, <1>6, <2>1, <2>2 DEF InIntRange
<1>7. CASE type = "AFTER"
  <2>1. Normalized("AFTER", q) >= Normalized("AFTER", p)
    BY <1>1, <1>4, <1>7 DEF IInv, ChainOK
  <2>2. p <= q => Normalized("AFTER", q) <= Normalized("AFTER", p)
    BY <1>3, AfterReversesOrder
  <2> QED
    BY <1>3, <1>4, <1>5, <1>7, <2>1, <2>2 DEF InIntRange
<1> QED
  BY <1>3, <1>6, <1>7 DEF Types

\* For any hooks, priorities and default: LSPosed calls two callbacks of a type
\* in the order of the priorities the module asked for, as the legacy backend
\* does, unless it makes the priorities one.  (LSPosed.kt 112-123, 413-446)
THEOREM CalledInOrder == Spec => []SameOrder
<1>1. Init => IInv
  BY StartsNested
<1>2. IInv /\ [Next]_vars => IInv'
  BY StepKeepsNested
<1>3. IInv => SameOrder
  BY NestedInOrder
<1> QED
  BY <1>1, <1>2, <1>3, PTL DEF Spec

----
\* What both backends have written, for the calls of ordinary members

\* A callback that was called, and does the deed, made it.
Made(a, type, deed) == a \in Range(ran) /\ TypeOf(a) = type /\ Does(a, deed)
Was(type, deed) == \E a \in Range(ran) : TypeOf(a) = type /\ Does(a, deed)

\* param and info keep their types and agree with where the call is.
ParamOK ==
  /\ at \in {"beforeHooked", "before", "original", "afterHooked", "after", "returned"}
  /\ todo \in Seq(Indices) /\ ran \in Seq(Indices)
  /\ info \in [result : Authors, hasChanged : BOOLEAN]
  /\ param \in [result : Authors, throwable : Authors, returnEarly : BOOLEAN]
  /\ param.throwable # Nobody => param.result = Nobody
  /\ param.returnEarly <=> param.throwable # Nobody \/ param.result # Nobody
  /\ at \in {"before", "after"} /\ info.hasChanged => info.result # Nobody
  /\ at \in {"afterHooked", "after", "returned"} => param.returnEarly
  /\ at = "beforeHooked" => ~param.returnEarly /\ ran = <<>>
  /\ args \in Authors \ {Nobody}
  /\ seen \in Authors
  /\ at \in {"beforeHooked", "before", "original"} => seen = Nobody

\* Without a callback that set a result or threw, the original was called.
Base(a, deed) == Made(a, "BEFORE", deed) \/ (a = Original /\ seen # Nobody)
BaseThrown ==
  \/ Was("BEFORE", "throw") /\ ~Was("BEFORE", "set")
  \/ seen # Nobody /\ call.throws
BaseOK ==
  /\ param.throwable # Nobody => Base(param.throwable, "throw")
  /\ param.result # Nobody => Base(param.result, "set")

BeforeOK ==
  /\ info.hasChanged <=> Was("BEFORE", "set")
  /\ info.hasChanged => Made(info.result, "BEFORE", "set")
  /\ param.result = Nobody
  /\ param.throwable # Nobody <=> Was("BEFORE", "throw")
  /\ param.throwable # Nobody => Made(param.throwable, "BEFORE", "throw")

OriginalOK ==
  /\ param.result # Nobody <=> Was("BEFORE", "set")
  /\ param.throwable # Nobody <=> Was("BEFORE", "throw") /\ ~Was("BEFORE", "set")
  /\ BaseOK

SeenOK == seen = Nobody <=> Was("BEFORE", "set") \/ Was("BEFORE", "throw")

AfterHookedOK ==
  /\ SeenOK
  /\ param.throwable # Nobody <=> BaseThrown
  /\ BaseOK

AfterOK ==
  /\ SeenOK
  /\ info.hasChanged <=> Was("AFTER", "set")
  /\ info.hasChanged => Made(info.result, "AFTER", "set")
  /\ param.throwable # Nobody <=> BaseThrown \/ Was("AFTER", "throw")
  /\ IF Was("AFTER", "throw") THEN Made(param.throwable, "AFTER", "throw") ELSE BaseOK

ReturnedOK ==
  /\ SeenOK
  /\ param.throwable # Nobody <=>
       ~Was("AFTER", "set") /\ (BaseThrown \/ Was("AFTER", "throw"))
  /\ IF Was("AFTER", "set") THEN Made(param.result, "AFTER", "set")
     ELSE IF Was("AFTER", "throw") THEN Made(param.throwable, "AFTER", "throw")
     ELSE BaseOK

WrittenOK ==
  ~call.clinit =>
    /\ \A i \in Range(ran) : TypeOf(i) = "AFTER" => at \in {"after", "returned"}
    /\ at = "before" => BeforeOK
    /\ at = "original" => OriginalOK
    /\ at = "afterHooked" => AfterHookedOK
    /\ at = "after" => AfterOK
    /\ at = "returned" => ReturnedOK

ClinitOK ==
  call.clinit =>
    /\ at \in {"before", "after"} => ~info.hasChanged
    /\ at \in {"beforeHooked", "before", "original"} => ~param.returnEarly
    /\ at \in {"afterHooked", "after", "returned"} =>
         /\ seen # Nobody
         /\ param = IF call.throws THEN Legacy!WithThrowable(Original)
                                   ELSE Legacy!WithResult(Original)

----
\* Who is called under the legacy backend

Going(type) == at = IF type = "BEFORE" THEN "before" ELSE "after"
Begun(type) ==
  at \in IF type = "BEFORE" THEN {"before", "original", "afterHooked", "after", "returned"}
         ELSE {"after", "returned"}
Precedes(i, j) == Legacy!Precedes(i, j)
CutOff(i) == \E j \in Range(ran) : TypeOf(j) = TypeOf(i) /\ Does(j, "throw") /\ Precedes(j, i)

RanOK ==
  ~call.clinit =>
    /\ at \notin {"before", "after"} => todo = <<>>
    /\ \A i \in Range(todo) : Going(TypeOf(i))
    /\ \A i \in Range(ran) : Begun(TypeOf(i))
    /\ \A i, j \in DOMAIN todo : i < j => Precedes(todo[i], todo[j])
    /\ \A i \in Range(ran), j \in Range(todo) :
         TypeOf(i) = TypeOf(j) => Precedes(i, j) /\ ~Does(i, "throw")
    /\ \A i, j \in DOMAIN ran :
         i < j /\ TypeOf(ran[i]) = TypeOf(ran[j]) =>
           Precedes(ran[i], ran[j]) /\ ~Does(ran[i], "throw")
    /\ \A i \in Indices : Begun(TypeOf(i)) => i \in Range(ran) \cup Range(todo) \/ CutOff(i)

\* Who has assigned the argument last
LastToAssign(a) ==
  IF a = Original THEN \A i \in Range(ran) : TypeOf(i) = "BEFORE" => ~Does(i, "assign")
  ELSE /\ Made(a, "BEFORE", "assign")
       /\ \A i \in Range(ran) :
            TypeOf(i) = "BEFORE" /\ Does(i, "assign") /\ i # a => Precedes(i, a)

ArgsOK ==
  ~call.clinit =>
    /\ at \in {"beforeHooked", "before", "original"} => LastToAssign(args)
    /\ seen # Nobody => LastToAssign(seen)

----
\* Steps

\* The call is one that InitCall admits.
CallOK ==
  /\ HooksOK
  /\ call.throws \in BOOLEAN
  /\ Indices \subseteq 1..MaxHooks

LegacyInv == CallOK /\ ParamOK /\ WrittenOK /\ ClinitOK /\ RanOK /\ ArgsOK

\* Every call InitCall admits is such a call.
LEMMA InitCallOK == InitCall => CallOK
<1> SUFFICES ASSUME InitCall PROVE CallOK
  OBVIOUS
<1>1. PICK m \in 0..MaxHooks : call.hooks \in [1..m -> Hooks]
  BY DEF InitCall, BoundedSeq, SeqOf
<1>2. HooksOK
  BY <1>1, HooksAssumption DEF HooksOK, Indices, TypeOf
<1>3. Indices \subseteq 1..MaxHooks
  BY <1>1, BoundsAssumption DEF Indices
<1>4. call.throws \in BOOLEAN
  BY DEF InitCall
<1> QED
  BY <1>2, <1>3, <1>4 DEF CallOK

\* Numbers of hooks are neither the original's nor nobody's.
LEMMA Numbers ==
  /\ Original \in Authors \ {Nobody} /\ Nobody \in Authors
  /\ CallOK => \A i \in Indices : i \in Authors \ {Nobody} /\ i # Original
BY BoundsAssumption DEF CallOK, Authors, Nobody, Original

\* No step changes the call.
LEMMA SameCall ==
  ASSUME UNCHANGED call
  PROVE  /\ Indices' = Indices
         /\ \A i : TypeOf(i)' = TypeOf(i)
         /\ \A i, deed : Does(i, deed)' <=> Does(i, deed)
         /\ \A i, j : Precedes(i, j)' <=> Precedes(i, j)
         /\ CallOK' <=> CallOK
<1>1. Indices' = Indices /\ \A i : TypeOf(i)' = TypeOf(i)
  BY DEF Indices, TypeOf
<1>2. \A i, deed : Does(i, deed)' <=> Does(i, deed)
  BY DEF Does
<1>3. \A i, j : Precedes(i, j)' <=> Precedes(i, j)
  BY DEF Precedes, Legacy!Precedes
<1>4. CallOK' <=> CallOK
  BY <1>1 DEF CallOK, HooksOK
<1> QED
  BY <1>1, <1>2, <1>3, <1>4

\* What was called stays, or one more callback is.
LEMMA SameRan ==
  ASSUME UNCHANGED <<call, ran>>
  PROVE  /\ \A a, type, deed : Made(a, type, deed)' <=> Made(a, type, deed)
         /\ \A type, deed : Was(type, deed)' <=> Was(type, deed)
<1>1. \A a, type, deed : Made(a, type, deed)' <=> Made(a, type, deed)
  BY SameCall DEF Made
<1>2. \A type, deed : Was(type, deed)' <=> Was(type, deed)
  BY SameCall DEF Was
<1> QED
  BY <1>1, <1>2

\* One more callback was called.
LEMMA RanGrows ==
  ASSUME UNCHANGED call, ran \in Seq(Indices), NEW h \in Indices, ran' = Append(ran, h)
  PROVE  /\ ran' \in Seq(Indices)
         /\ Range(ran') = Range(ran) \cup {h}
         /\ \A a, type, deed :
              Made(a, type, deed)' <=>
                \/ Made(a, type, deed)
                \/ a = h /\ TypeOf(h) = type /\ Does(h, deed)
         /\ \A type, deed :
              Was(type, deed)' <=> Was(type, deed) \/ (TypeOf(h) = type /\ Does(h, deed))
<1>1. ran' \in Seq(Indices)
  OBVIOUS
<1>2. Range(ran') = Range(ran) \cup {h}
  <2>1. Range(ran') \subseteq Range(ran) \cup {h}
    BY DEF Range
  <2>2. Range(ran) \subseteq Range(ran')
    BY DEF Range
  <2>3. h \in Range(ran')
    <3>1. ran'[Len(ran) + 1] = h /\ Len(ran) + 1 \in DOMAIN ran'
      OBVIOUS
    <3> QED
      BY <3>1 DEF Range
  <2> QED
    BY <2>1, <2>2, <2>3
<1>3. \A a, type, deed :
        Made(a, type, deed)' <=>
          \/ Made(a, type, deed)
          \/ a = h /\ TypeOf(h) = type /\ Does(h, deed)
  BY <1>2, SameCall DEF Made
<1>4. \A type, deed :
        Was(type, deed)' <=> Was(type, deed) \/ (TypeOf(h) = type /\ Does(h, deed))
  BY <1>2, SameCall DEF Was
<1> QED
  BY <1>1, <1>2, <1>3, <1>4

\* A step of the call under the legacy backend, or one that leaves it alone
LEMMA LegacySteps ==
  ASSUME [Next]_vars
  PROVE  \/ UNCHANGED <<call, legacyVars>>
         \/ Legacy!StartPhase("beforeHooked", "before", "BEFORE")
         \/ Legacy!EndPhase("before", "original")
         \/ Legacy!RunOriginal
         \/ Legacy!StartPhase("afterHooked", "after", "AFTER")
         \/ Legacy!EndPhase("after", "returned")
         \/ \E phase \in {"before", "after"} : Legacy!RunCallback(phase)
         \/ \E phase \in {"before", "after"} : Legacy!RunClinitCallback(phase)
<1>1. CASE UNCHANGED vars
  BY <1>1 DEF vars
<1>2. CASE Legacy!LegacyNext
  BY <1>2 DEF Legacy!LegacyNext
<1>3. CASE Chain!ChainNext /\ UNCHANGED legacyVars
  <2>1. UNCHANGED call
    BY <1>3 DEF Chain!ChainNext, Chain!BeforeProceeds, Chain!BeforeEnds, Chain!AfterProceeds,
      Chain!RunOriginal, Chain!BeforeReturns, Chain!AfterReturns
  <2> QED
    BY <1>3, <2>1
<1> QED
  BY <1>1, <1>2, <1>3 DEF Next

\* The legacy call's own names for what both calls share
LEMMA LegacyNames ==
  /\ Legacy!Nobody = Nobody /\ Legacy!Original = Original
  /\ \A i : Legacy!TypeOf(i) = TypeOf(i)
  /\ \A i, deed : Legacy!Does(i, deed) <=> Does(i, deed)
  /\ \A type : Legacy!OfType(type) = OfType(type)
BY DEF Legacy!Nobody, Nobody, Legacy!Original, Original, Legacy!TypeOf, TypeOf, Legacy!Does, Does,
       Legacy!OfType, OfType, Legacy!Indices, Indices

\* A sequence that enumerates a set has each of it once.
LEMMA SeqsOnto ==
  ASSUME NEW S, IsFiniteSet(S), NEW s \in Legacy!SetToSeqs(S)
  PROVE  s \in Seq(S) /\ Range(s) = S /\ \A i, j \in DOMAIN s : s[i] = s[j] => i = j
<1> DEFINE n == Cardinality(S)
<1>1. n \in Nat
  BY FS_CardinalityType
<1>2. s \in [1..n -> S] /\ \A i, j \in 1..n : i # j => s[i] # s[j]
  <2>1. Legacy!Cardinality(S) = Cardinality(S)
    BY DEF Legacy!Cardinality, Cardinality
  <2> QED
    BY <2>1 DEF Legacy!SetToSeqs
<1>3. Cardinality(1..n) = n
  BY <1>1, FS_Interval
<1>4. s \in Injection(1..n, S)
  BY <1>2 DEF Injection, IsInjective
<1>5. s \in Surjection(1..n, S)
  BY <1>3, <1>4, FS_Injection
<1>6. Range(s) = S
  BY <1>2, <1>5 DEF Surjection, Range
<1> QED
  BY <1>1, <1>2, <1>6

\* What a phase has to call: every hook of the type once, ordered for ordinary members
LEMMA OrdersOK ==
  ASSUME CallOK, NEW type, NEW s \in Legacy!Orders(type)
  PROVE  /\ s \in Seq(Indices)
         /\ Range(s) = OfType(type)
         /\ \A i, j \in DOMAIN s : s[i] = s[j] => i = j
         /\ ~call.clinit => \A i, j \in DOMAIN s : i < j => Precedes(s[i], s[j])
<1>1. IsFiniteSet(OfType(type)) /\ OfType(type) \subseteq Indices
  <2>1. IsFiniteSet(1..MaxHooks)
    BY BoundsAssumption, FS_Interval
  <2>2. OfType(type) \in SUBSET (1..MaxHooks)
    BY DEF OfType, CallOK
  <2>3. IsFiniteSet(OfType(type))
    BY <2>1, <2>2, FS_Subset
  <2> QED
    BY <2>3 DEF OfType
<1>2. s \in Legacy!SetToSeqs(OfType(type))
  BY LegacyNames DEF Legacy!Orders
<1>3. /\ s \in Seq(OfType(type)) /\ Range(s) = OfType(type)
      /\ \A i, j \in DOMAIN s : s[i] = s[j] => i = j
  BY <1>1, <1>2, SeqsOnto
<1>4. ~call.clinit => \A i, j \in DOMAIN s : i < j => Precedes(s[i], s[j])
  BY DEF Legacy!Orders, Precedes
<1> QED
  BY <1>1, <1>3, <1>4

\* A call starts with nothing written and nobody called.
LEMMA InitLegacyInv == Init => LegacyInv
<1> SUFFICES ASSUME Init PROVE LegacyInv
  OBVIOUS
<1>1. CallOK
  BY InitCallOK DEF Init
<1>2. /\ at = "beforeHooked" /\ todo = <<>> /\ args = Original /\ seen = Nobody /\ ran = <<>>
      /\ info = [result |-> Nobody, hasChanged |-> FALSE]
      /\ param = [result |-> Nobody, throwable |-> Nobody, returnEarly |-> FALSE]
  BY LegacyNames DEF Init, Legacy!InitLegacy, Legacy!NoInfo
<1>3. Range(ran) = {} /\ Range(todo) = {}
  BY <1>2 DEF Range
<1>4. ParamOK
  BY <1>2, Numbers DEF ParamOK
<1>5. WrittenOK /\ ClinitOK
  BY <1>2, <1>3 DEF WrittenOK, ClinitOK
<1>6. RanOK
  BY <1>2, <1>3 DEF RanOK, Begun
<1>7. ArgsOK
  BY <1>2, <1>3 DEF ArgsOK, LastToAssign
<1> QED
  BY <1>1, <1>4, <1>5, <1>6, <1>7 DEF LegacyInv

\* What the original and the BEFORE callbacks made of the call stays.
LEMMA SameBase ==
  ASSUME UNCHANGED <<call, ran, seen>>
  PROVE  /\ SeenOK' <=> SeenOK
         /\ BaseThrown' <=> BaseThrown
         /\ \A a, deed : Base(a, deed)' <=> Base(a, deed)
         /\ \A a : LastToAssign(a)' <=> LastToAssign(a)
<1>1. Nobody' = Nobody /\ Original' = Original
  BY DEF Nobody, Original
<1>2. SeenOK' <=> SeenOK
  BY <1>1, SameRan DEF SeenOK
<1>3. BaseThrown' <=> BaseThrown
  BY <1>1, SameRan DEF BaseThrown
<1>4. \A a, deed : Base(a, deed)' <=> Base(a, deed)
  BY <1>1, SameRan DEF Base
<1>5. \A a : LastToAssign(a)' <=> LastToAssign(a)
  BY <1>1, SameRan, SameCall DEF LastToAssign
<1> QED
  BY <1>2, <1>3, <1>4, <1>5

\* A phase begins.
LEMMA StartKeeps ==
  ASSUME LegacyInv, NEW from, NEW to, NEW type, Legacy!StartPhase(from, to, type),
         \/ from = "beforeHooked" /\ to = "before" /\ type = "BEFORE"
         \/ from = "afterHooked" /\ to = "after" /\ type = "AFTER"
  PROVE  LegacyInv'
<1> USE DEF LegacyInv
<1>1. /\ at = from /\ at' = to /\ UNCHANGED <<call, param, args, seen, ran>>
      /\ info' = [result |-> param.result, hasChanged |-> FALSE]
      /\ todo' \in Legacy!Orders(type)
  BY DEF Legacy!StartPhase
<1>2. /\ todo' \in Seq(Indices)
      /\ Range(todo') = OfType(type)
      /\ ~call.clinit => \A i, j \in DOMAIN todo' : i < j => Precedes(todo'[i], todo'[j])
  BY <1>1, OrdersOK
<1>3. CallOK'
  BY <1>1, SameCall
<1>4. ParamOK'
  <2>1. Indices' = Indices
    BY <1>1, SameCall
  <2>2. info' \in [result : Authors, hasChanged : BOOLEAN]
    BY <1>1 DEF ParamOK
  <2> QED
    BY <1>1, <1>2, <2>1, <2>2 DEF ParamOK
<1>5. WrittenOK'
  <2>1. CASE call.clinit
    BY <1>1, <2>1 DEF WrittenOK
  <2>2. CASE ~call.clinit /\ from = "beforeHooked"
    <3>1. Range(ran) = {} /\ param.result = Nobody /\ param.throwable = Nobody
      BY <1>1, <2>2 DEF ParamOK, Range
    <3>2. \A deed : ~Was("BEFORE", deed)'
      BY <1>1, <3>1, SameRan DEF Was
    <3>3. BeforeOK'
      BY <1>1, <3>1, <3>2 DEF BeforeOK
    <3> QED
      BY <1>1, <2>2, <3>1, <3>3 DEF WrittenOK
  <2>3. CASE ~call.clinit /\ from = "afterHooked"
    <3>1. \A deed : ~Was("AFTER", deed)
      BY <1>1, <2>3 DEF WrittenOK, Was
    <3>2. \A deed : ~Was("AFTER", deed)'
      BY <1>1, <3>1, SameRan
    <3>3. AfterHookedOK
      BY <1>1, <2>3 DEF WrittenOK
    <3>4. SeenOK' /\ BaseOK' /\ (BaseThrown' <=> BaseThrown)
      BY <1>1, <3>3, SameBase DEF AfterHookedOK, BaseOK
    <3>5. AfterOK'
      BY <1>1, <3>2, <3>3, <3>4 DEF AfterOK, AfterHookedOK
    <3> QED
      BY <1>1, <2>3, <3>5, SameCall DEF WrittenOK
  <2> QED
    BY <1>1, <2>1, <2>2, <2>3
<1>6. ClinitOK'
  BY <1>1 DEF ClinitOK
<1>7. RanOK'
  <2> SUFFICES ASSUME ~call.clinit PROVE RanOK'
    BY <1>1 DEF RanOK
  <2>1. \A i \in Range(ran) : TypeOf(i) # type
    BY <1>1 DEF RanOK, Begun
  <2>2. \A i \in Range(todo') : TypeOf(i) = type
    BY <1>2 DEF OfType
  <2>3. \A i \in Indices : TypeOf(i) = type => i \in Range(todo')
    BY <1>2 DEF OfType
  <2>4. \A t \in Types : t # type /\ Begun(t)' => Begun(t)
    BY <1>1 DEF Begun, Types
  <2>5. \A i : CutOff(i)' <=> CutOff(i)
    BY <1>1, SameCall DEF CutOff
  <2>6. Range(todo) = {}
    BY <1>1 DEF RanOK, Range
  <2>7. ASSUME NEW i \in Indices, Begun(TypeOf(i))'
        PROVE  i \in Range(ran) \cup Range(todo') \/ CutOff(i)
    <3>1. TypeOf(i)' = TypeOf(i) /\ TypeOf(i) \in Types
      BY <1>1, SameCall DEF CallOK, HooksOK
    <3>2. CASE TypeOf(i) = type
      BY <2>3, <3>2
    <3>3. CASE TypeOf(i) # type
      <4>1. Begun(TypeOf(i))
        BY <2>4, <2>7, <3>1, <3>3
      <4> QED
        BY <2>6, <4>1 DEF RanOK
    <3> QED
      BY <3>2, <3>3
  <2>8. \A i \in Range(todo') : Going(TypeOf(i))'
    BY <1>1, <2>2, SameCall DEF Going
  <2>9. \A i \in Range(ran) : Begun(TypeOf(i))'
    BY <1>1, SameCall DEF RanOK, Begun
  <2>10. \A i, j \in DOMAIN ran :
           i < j /\ TypeOf(ran[i]) = TypeOf(ran[j]) =>
             Precedes(ran[i], ran[j]) /\ ~Does(ran[i], "throw")
    BY DEF RanOK
  <2> QED
    BY <1>1, <1>2, <2>1, <2>2, <2>5, <2>7, <2>8, <2>9, <2>10, SameCall DEF RanOK
<1>8. ArgsOK'
  BY <1>1, SameBase DEF ArgsOK, Nobody
<1> QED
  BY <1>3, <1>4, <1>5, <1>6, <1>7, <1>8

\* Outside a phase, moving on begins no phase and changes nothing of who was called.
LEMMA EndedKeeps ==
  ASSUME CallOK, ParamOK, RanOK, UNCHANGED <<call, todo, ran>>, todo = <<>>,
         \/ at = "before" /\ at' = "original"
         \/ at = "original" /\ at' = "afterHooked"
         \/ at = "after" /\ at' = "returned"
  PROVE  RanOK'
<1>1. \A t \in Types : Begun(t)' <=> Begun(t)
  BY DEF Begun, Types
<1>2. \A i : CutOff(i)' <=> CutOff(i)
  BY SameCall DEF CutOff
<1>3. \A i \in Indices : TypeOf(i)' = TypeOf(i) /\ TypeOf(i) \in Types
  BY SameCall DEF CallOK, HooksOK
<1>4. Range(ran) \subseteq Indices /\ Range(todo) = {}
  BY DEF ParamOK, Range
<1>5. \A i \in Indices : Begun(TypeOf(i))' <=> Begun(TypeOf(i))
  BY <1>1, <1>3
<1> QED
  BY <1>2, <1>3, <1>4, <1>5, SameCall DEF RanOK

\* A phase ends: the result its callbacks set, if any, replaces what was there.
LEMMA EndKeeps ==
  ASSUME LegacyInv, NEW phase, NEW next, Legacy!EndPhase(phase, next),
         \/ phase = "before" /\ next = "original"
         \/ phase = "after" /\ next = "returned"
  PROVE  LegacyInv'
<1> USE DEF LegacyInv
<1>1. /\ at = phase /\ at' = next /\ todo = <<>>
      /\ UNCHANGED <<call, todo, info, args, seen, ran>>
  BY DEF Legacy!EndPhase
<1>2. IF info.hasChanged
      THEN param' = [result |-> info.result, throwable |-> Nobody, returnEarly |-> TRUE]
      ELSE param' = param
  BY LegacyNames DEF Legacy!EndPhase, Legacy!WithResult
<1>3. CallOK' /\ Nobody' = Nobody /\ Original' = Original
  BY <1>1, SameCall DEF Nobody, Original
<1>4. ParamOK'
  <2>1. Indices' = Indices
    BY <1>1, SameCall
  <2>2. info.hasChanged => info.result # Nobody
    BY <1>1 DEF ParamOK
  <2>3. next \in {"original", "returned"} /\ (next = "original" => seen = Nobody)
    BY <1>1 DEF ParamOK
  <2>4. CASE info.hasChanged
    <3>1. param' = [result |-> info.result, throwable |-> Nobody, returnEarly |-> TRUE]
      BY <1>2, <2>4
    <3>2. info.result \in Authors /\ info.result # Nobody /\ Nobody \in Authors
      BY <2>2, <2>4, Numbers DEF ParamOK
    <3>3. param' \in [result : Authors, throwable : Authors, returnEarly : BOOLEAN]
      BY <3>1, <3>2
    <3> QED
      BY <1>1, <1>3, <2>1, <2>3, <3>1, <3>2, <3>3 DEF ParamOK, Authors
  <2>5. CASE ~info.hasChanged
    BY <1>1, <1>2, <2>1, <2>3, <2>5 DEF ParamOK
  <2> QED
    BY <2>4, <2>5
<1>5. WrittenOK'
  <2>1. CASE call.clinit
    BY <1>1, <2>1 DEF WrittenOK
  <2>2. CASE ~call.clinit /\ phase = "before"
    <3>1. BeforeOK /\ seen = Nobody
      BY <1>1, <2>2 DEF WrittenOK, ParamOK
    <3>2. BaseOK'
      <4>1. param'.throwable # Nobody => Made(param'.throwable, "BEFORE", "throw")
        BY <1>2, <3>1 DEF BeforeOK
      <4>2. param'.result # Nobody => Made(param'.result, "BEFORE", "set")
        BY <1>2, <3>1 DEF BeforeOK
      <4> QED
        BY <1>1, <4>1, <4>2, SameRan DEF BaseOK, Base, Nobody
    <3>3. param'.result # Nobody <=> Was("BEFORE", "set")
      BY <1>1, <1>2, <3>1 DEF BeforeOK, ParamOK
    <3>4. param'.throwable # Nobody <=> Was("BEFORE", "throw") /\ ~Was("BEFORE", "set")
      BY <1>2, <3>1 DEF BeforeOK
    <3>5. OriginalOK'
      BY <1>1, <1>3, <3>2, <3>3, <3>4, SameRan DEF OriginalOK
    <3> QED
      BY <1>1, <2>2, <3>5, SameCall DEF WrittenOK
  <2>3. CASE ~call.clinit /\ phase = "after"
    <3>1. AfterOK
      BY <1>1, <2>3 DEF WrittenOK
    <3>2. SeenOK'
      BY <1>1, <3>1, SameBase DEF AfterOK
    <3>3. param'.throwable # Nobody <=>
            ~Was("AFTER", "set") /\ (BaseThrown \/ Was("AFTER", "throw"))
      BY <1>2, <3>1 DEF AfterOK
    <3>4. Was("AFTER", "set") => Made(param'.result, "AFTER", "set")
      BY <1>2, <3>1 DEF AfterOK
    <3>5. ~Was("AFTER", "set") => param' = param
      BY <1>2, <3>1 DEF AfterOK
    <3>6. ~Was("AFTER", "set") /\ Was("AFTER", "throw") => Made(param'.throwable, "AFTER", "throw")
      BY <3>1, <3>5 DEF AfterOK
    <3>7. ~Was("AFTER", "set") /\ ~Was("AFTER", "throw") => BaseOK'
      <4> SUFFICES ASSUME ~Was("AFTER", "set"), ~Was("AFTER", "throw") PROVE BaseOK'
        OBVIOUS
      <4>1. BaseOK /\ param' = param
        BY <3>1, <3>5 DEF AfterOK
      <4> QED
        BY <1>1, <1>3, <4>1, SameBase DEF BaseOK
    <3>8. BaseThrown' <=> BaseThrown
      BY <1>1, SameBase
    <3>9. ReturnedOK'
      BY <1>1, <1>3, <3>2, <3>3, <3>4, <3>6, <3>7, <3>8, SameRan DEF ReturnedOK
    <3> QED
      BY <1>1, <2>3, <3>9, SameCall DEF WrittenOK
  <2> QED
    BY <2>1, <2>2, <2>3
<1>6. ClinitOK'
  BY <1>1, <1>2, <1>3 DEF ClinitOK, Legacy!WithThrowable, Legacy!WithResult, ParamOK
<1>7. RanOK'
  BY <1>1, EndedKeeps
<1>8. ArgsOK'
  BY <1>1, <1>3, SameBase DEF ArgsOK
<1> QED
  BY <1>3, <1>4, <1>5, <1>6, <1>7, <1>8

\* The original is called unless a BEFORE callback has decided the call.
LEMMA OriginalKeeps ==
  ASSUME LegacyInv, Legacy!RunOriginal
  PROVE  LegacyInv'
<1> USE DEF LegacyInv
<1>1. /\ at = "original" /\ at' = "afterHooked"
      /\ UNCHANGED <<call, todo, info, args, ran>>
      /\ IF param.returnEarly THEN UNCHANGED <<param, seen>>
         ELSE /\ seen' = args
              /\ param' = IF call.throws THEN Legacy!WithThrowable(Original)
                                         ELSE Legacy!WithResult(Original)
  BY LegacyNames DEF Legacy!RunOriginal
<1>2. /\ Legacy!WithThrowable(Original) =
           [result |-> Nobody, throwable |-> Original, returnEarly |-> TRUE]
      /\ Legacy!WithResult(Original) =
           [result |-> Original, throwable |-> Nobody, returnEarly |-> TRUE]
      /\ Original # Nobody /\ Original \in Authors /\ Nobody \in Authors
  BY LegacyNames, Numbers DEF Legacy!WithThrowable, Legacy!WithResult
<1>3. CallOK' /\ Nobody' = Nobody /\ Original' = Original /\ Authors' = Authors /\ Indices' = Indices
  BY <1>1, SameCall DEF Nobody, Original, Authors
<1>4. seen = Nobody /\ args # Nobody /\ args \in Authors
  BY <1>1 DEF ParamOK
<1>5. RanOK'
  <2>1. CASE call.clinit
    BY <1>1, <2>1 DEF RanOK
  <2>2. CASE ~call.clinit
    <3>1. todo = <<>>
      BY <1>1, <2>2 DEF RanOK
    <3> QED
      BY <1>1, <3>1, EndedKeeps
  <2> QED
    BY <2>1, <2>2
<1>6. CASE param.returnEarly
  <2>1. UNCHANGED <<param, seen>>
    BY <1>1, <1>6
  <2>2. ParamOK'
    BY <1>1, <1>3, <1>6, <2>1 DEF ParamOK
  <2>3. WrittenOK'
    <3>1. CASE call.clinit
      BY <1>1, <3>1 DEF WrittenOK
    <3>2. CASE ~call.clinit
      <4>1. OriginalOK
        BY <1>1, <3>2 DEF WrittenOK
      <4>2. SeenOK
        <5>1. param.throwable # Nobody \/ param.result # Nobody
          BY <1>6 DEF ParamOK
        <5> QED
          BY <1>4, <4>1, <5>1 DEF OriginalOK, SeenOK
      <4>3. param.throwable # Nobody <=> BaseThrown
        BY <1>4, <4>1 DEF OriginalOK, BaseThrown
      <4>4. BaseOK'
        BY <1>1, <1>3, <2>1, <4>1, SameBase DEF OriginalOK, BaseOK
      <4>5. AfterHookedOK'
        BY <1>1, <1>3, <2>1, <4>2, <4>3, <4>4, SameBase DEF AfterHookedOK
      <4>6. \A i \in Range(ran) : TypeOf(i) # "AFTER"
        BY <1>1, <3>2 DEF WrittenOK
      <4> QED
        BY <1>1, <4>5, <4>6, SameCall DEF WrittenOK
    <3> QED
      BY <3>1, <3>2
  <2>4. ClinitOK'
    BY <1>1, <1>6 DEF ClinitOK
  <2>5. ArgsOK'
    BY <1>1, <1>3, <1>4, <2>1 DEF ArgsOK
  <2> QED
    BY <1>3, <2>2, <2>3, <2>4, <2>5, <1>5
<1>7. CASE ~param.returnEarly
  <2>1. seen' = args /\ param' = IF call.throws
             THEN [result |-> Nobody, throwable |-> Original, returnEarly |-> TRUE]
             ELSE [result |-> Original, throwable |-> Nobody, returnEarly |-> TRUE]
    BY <1>1, <1>2, <1>7
  <2>2. ParamOK'
    <3>1. param' \in [result : Authors, throwable : Authors, returnEarly : BOOLEAN]
      BY <1>2, <2>1
    <3>2. param'.returnEarly /\ ~(param'.throwable # Nobody /\ param'.result # Nobody)
      BY <2>1
    <3>3. param'.throwable # Nobody \/ param'.result # Nobody
      BY <1>2, <2>1
    <3> QED
      BY <1>1, <1>3, <1>4, <2>1, <3>1, <3>2, <3>3 DEF ParamOK
  <2>3. WrittenOK'
    <3>1. CASE call.clinit
      BY <1>1, <3>1 DEF WrittenOK
    <3>2. CASE ~call.clinit
      <4>1. OriginalOK
        BY <1>1, <3>2 DEF WrittenOK
      <4>2. ~Was("BEFORE", "set") /\ ~Was("BEFORE", "throw")
        BY <1>7, <4>1 DEF OriginalOK, ParamOK
      <4>3. ~Was("BEFORE", "set")' /\ ~Was("BEFORE", "throw")'
        BY <1>1, <4>2, SameRan
      <4>4. SeenOK'
        BY <1>3, <1>4, <2>1, <4>3 DEF SeenOK
      <4>5. param'.throwable # Nobody <=> call.throws
        BY <1>2, <2>1 DEF CallOK
      <4>6. BaseThrown' <=> call.throws
        BY <1>1, <1>3, <1>4, <2>1, <4>3 DEF BaseThrown, CallOK
      <4>7. BaseOK'
        <5>1. Base(Original, "throw")' /\ Base(Original, "set")'
          BY <1>3, <1>4, <2>1 DEF Base
        <5>2. param'.throwable # Nobody => param'.throwable = Original'
          BY <1>3, <2>1
        <5>3. param'.result # Nobody => param'.result = Original'
          BY <1>3, <2>1
        <5> QED
          BY <1>3, <5>1, <5>2, <5>3 DEF BaseOK
      <4>8. AfterHookedOK'
        BY <1>3, <4>4, <4>5, <4>6, <4>7 DEF AfterHookedOK
      <4>9. \A i \in Range(ran) : TypeOf(i) # "AFTER"
        BY <1>1, <3>2 DEF WrittenOK
      <4> QED
        BY <1>1, <4>8, <4>9, SameCall DEF WrittenOK
    <3> QED
      BY <3>1, <3>2
  <2>4. ClinitOK'
    BY <1>1, <1>3, <1>4, <1>7 DEF ClinitOK, Legacy!WithThrowable, Legacy!WithResult
  <2>5. ArgsOK'
    <3>1. ~call.clinit => LastToAssign(args)
      BY <1>1 DEF ArgsOK
    <3>2. \A a : LastToAssign(a)' <=> LastToAssign(a)
      BY <1>1, <1>3, SameRan, SameCall DEF LastToAssign
    <3> QED
      BY <1>1, <2>1, <3>1, <3>2 DEF ArgsOK
  <2> QED
    BY <1>3, <2>2, <2>3, <2>4, <2>5, <1>5
<1> QED
  BY <1>6, <1>7

\* What remains when the first element of a list has been taken
LEMMA HeadTail ==
  ASSUME NEW S, NEW s \in Seq(S), s # <<>>
  PROVE  /\ Head(s) = s[1] /\ 1 \in DOMAIN s /\ Head(s) \in S
         /\ Tail(s) \in Seq(S)
         /\ \A k \in DOMAIN Tail(s) : k + 1 \in DOMAIN s /\ Tail(s)[k] = s[k + 1] /\ 1 < k + 1
         /\ Range(s) = {Head(s)} \cup Range(Tail(s))
<1>1. Head(s) = s[1] /\ 1 \in DOMAIN s /\ Head(s) \in S /\ Tail(s) \in Seq(S)
  OBVIOUS
<1>2. \A k \in DOMAIN Tail(s) : k + 1 \in DOMAIN s /\ Tail(s)[k] = s[k + 1] /\ 1 < k + 1
  OBVIOUS
<1>3. \A k \in DOMAIN s : k = 1 \/ (k - 1 \in DOMAIN Tail(s) /\ Tail(s)[k - 1] = s[k])
  OBVIOUS
<1>4. Range(s) = {Head(s)} \cup Range(Tail(s))
  <2>1. \A x \in Range(s) : x \in {Head(s)} \cup Range(Tail(s))
    <3> SUFFICES ASSUME NEW k \in DOMAIN s PROVE s[k] \in {Head(s)} \cup Range(Tail(s))
      BY DEF Range
    <3>1. CASE k = 1
      BY <1>1, <3>1
    <3>2. CASE k # 1
      <4>1. k - 1 \in DOMAIN Tail(s) /\ Tail(s)[k - 1] = s[k]
        BY <1>3, <3>2
      <4> QED
        BY <4>1 DEF Range
    <3> QED
      BY <3>1, <3>2
  <2>2. \A x \in Range(Tail(s)) : x \in Range(s)
    BY <1>2 DEF Range
  <2>3. Head(s) \in Range(s)
    BY <1>1 DEF Range
  <2> QED
    BY <2>1, <2>2, <2>3
<1> QED
  BY <1>1, <1>2, <1>4

\* What a callback of an ordinary member does
LEMMA CallbackStep ==
  ASSUME LegacyInv, NEW phase \in {"before", "after"}, Legacy!RunCallback(phase)
  PROVE  LET h == Head(todo)
             type == IF phase = "before" THEN "BEFORE" ELSE "AFTER"
         IN  /\ at = phase /\ at' = phase /\ ~call.clinit /\ UNCHANGED <<call, seen>>
             /\ todo # <<>> /\ h \in Indices /\ TypeOf(h) = type
             /\ ran' = Append(ran, h)
             /\ Does(h, "assign") => args' = h
             /\ ~Does(h, "assign") => args' = args
             /\ Does(h, "set") => info' = [result |-> h, hasChanged |-> TRUE]
             /\ ~Does(h, "set") => info' = info
             /\ Does(h, "throw") =>
                  /\ param' = [result |-> Nobody, throwable |-> h, returnEarly |-> TRUE]
                  /\ todo' = <<>>
             /\ ~Does(h, "throw") => param' = param /\ todo' = Tail(todo)
<1> DEFINE h == Head(todo)
<1> USE DEF LegacyInv
<1>1. /\ at = phase /\ todo # <<>> /\ ~call.clinit /\ UNCHANGED <<call, at, seen>>
      /\ ran' = Append(ran, h)
  BY DEF Legacy!RunCallback
<1>2. h \in Indices /\ h \in Range(todo)
  BY <1>1, HeadTail DEF ParamOK
<1>3. Going(TypeOf(h)) /\ TypeOf(h) \in Types
  BY <1>1, <1>2 DEF RanOK, CallOK, HooksOK
<1>4. TypeOf(h) = IF phase = "before" THEN "BEFORE" ELSE "AFTER"
  BY <1>1, <1>3 DEF Going, Types
<1>5. /\ args' = IF Does(h, "assign") THEN h ELSE args
      /\ info' = IF Does(h, "set") THEN [result |-> h, hasChanged |-> TRUE] ELSE info
      /\ IF Does(h, "throw")
         THEN param' = Legacy!WithThrowable(h) /\ todo' = <<>>
         ELSE todo' = Tail(todo) /\ UNCHANGED param
  BY DEF Legacy!RunCallback, Legacy!Does, Does
<1>6. Legacy!WithThrowable(h) = [result |-> Nobody, throwable |-> h, returnEarly |-> TRUE]
  BY LegacyNames DEF Legacy!WithThrowable
<1> QED
  BY <1>1, <1>2, <1>4, <1>5, <1>6

\* A callback changes what is written as WrittenOK says.
LEMMA CallbackWrites ==
  ASSUME LegacyInv, NEW phase \in {"before", "after"}, Legacy!RunCallback(phase)
  PROVE  ParamOK' /\ WrittenOK'
<1> DEFINE h == Head(todo)
           type == IF phase = "before" THEN "BEFORE" ELSE "AFTER"
           set == Does(h, "set")
           throw == Does(h, "throw")
<1>1. /\ at = phase /\ at' = phase /\ ~call.clinit /\ UNCHANGED <<call, seen>>
      /\ todo # <<>> /\ h \in Indices /\ TypeOf(h) = type
      /\ ran' = Append(ran, h)
  BY CallbackStep
<1>2. args' = h \/ args' = args
  BY CallbackStep
<1>3. /\ set => info' = [result |-> h, hasChanged |-> TRUE]
      /\ ~set => info' = info
  BY CallbackStep
<1>4. /\ throw => param' = [result |-> Nobody, throwable |-> h, returnEarly |-> TRUE] /\ todo' = <<>>
      /\ ~throw => param' = param /\ todo' = Tail(todo)
  BY CallbackStep
<1>5. CallOK /\ ParamOK /\ WrittenOK
  BY DEF LegacyInv
<1>6. h \in Authors \ {Nobody} /\ h # Original /\ Nobody \in Authors
  BY <1>1, <1>5, Numbers
<1>7. Nobody' = Nobody /\ Original' = Original /\ Authors' = Authors /\ Indices' = Indices
  BY <1>1, SameCall DEF Nobody, Original, Authors
<1>8. /\ ran' \in Seq(Indices)
      /\ Range(ran') = Range(ran) \cup {h}
      /\ \A a, t, deed :
           Made(a, t, deed)' <=>
             \/ Made(a, t, deed)
             \/ a = h /\ type = t /\ Does(h, deed)
      /\ \A t, deed : Was(t, deed)' <=> Was(t, deed) \/ (type = t /\ Does(h, deed))
  BY <1>1, <1>5, RanGrows DEF ParamOK
<1> HIDE DEF h, type
<1>9. todo' \in Seq(Indices) /\ args' \in Authors \ {Nobody}
  <2>1. todo \in Seq(Indices) /\ args \in Authors \ {Nobody}
    BY <1>5 DEF ParamOK
  <2>2. Tail(todo) \in Seq(Indices) /\ <<>> \in Seq(Indices)
    BY <1>1, <2>1
  <2> QED
    BY <1>2, <1>4, <1>6, <2>1, <2>2
<1>10. /\ info' \in [result : Authors, hasChanged : BOOLEAN]
       /\ info'.hasChanged => info'.result # Nobody
  <2>1. CASE set
    <3>1. info' = [result |-> h, hasChanged |-> TRUE]
      BY <1>3, <2>1
    <3>2. h \in Authors /\ h # Nobody
      BY <1>6
    <3> QED
      BY <3>1, <3>2
  <2>2. CASE ~set
    BY <1>1, <1>3, <1>5, <2>2 DEF ParamOK
  <2> QED
    BY <2>1, <2>2
<1>11. /\ param' \in [result : Authors, throwable : Authors, returnEarly : BOOLEAN]
       /\ param'.throwable # Nobody => param'.result = Nobody
       /\ param'.returnEarly <=> param'.throwable # Nobody \/ param'.result # Nobody
       /\ phase = "after" => param'.returnEarly
  <2>1. CASE throw
    <3>1. param' = [result |-> Nobody, throwable |-> h, returnEarly |-> TRUE]
      BY <1>4, <2>1
    <3>2. h \in Authors /\ h # Nobody /\ Nobody \in Authors
      BY <1>6
    <3> QED
      BY <3>1, <3>2
  <2>2. CASE ~throw
    BY <1>1, <1>4, <1>5, <2>2 DEF ParamOK
  <2> QED
    BY <2>1, <2>2
<1>12. seen \in Authors /\ (phase = "before" => seen = Nobody)
  BY <1>1, <1>5 DEF ParamOK
<1>13. ParamOK'
  BY <1>1, <1>7, <1>8, <1>9, <1>10, <1>11, <1>12 DEF ParamOK
<1>14. \A i \in Range(ran') : TypeOf(i)' = "AFTER" => at' \in {"after", "returned"}
  BY <1>1, <1>5, <1>8, SameCall DEF WrittenOK, type
<1>15. /\ set => info'.hasChanged /\ info'.result = h
       /\ ~set => info'.hasChanged = info.hasChanged /\ info'.result = info.result
  BY <1>3
<1>16. /\ throw => param'.throwable = h /\ param'.result = Nobody
       /\ ~throw => param'.throwable = param.throwable /\ param'.result = param.result
  BY <1>4
<1> HIDE DEF set, throw
<1>17. CASE phase = "before"
  <2>1. BeforeOK /\ type = "BEFORE"
    BY <1>1, <1>5, <1>17 DEF WrittenOK, type
  <2>2. info'.hasChanged <=> Was("BEFORE", "set")'
    BY <1>8, <1>15, <2>1 DEF BeforeOK, set
  <2>3. info'.hasChanged => Made(info.result, "BEFORE", "set")'
    BY <1>8, <1>15, <2>1 DEF BeforeOK, set
  <2>4. param'.result = Nobody
    BY <1>16, <2>1 DEF BeforeOK
  <2>5. param'.throwable # Nobody <=> Was("BEFORE", "throw")'
    BY <1>6, <1>8, <1>16, <2>1 DEF BeforeOK, throw
  <2>6. param'.throwable # Nobody => Made(param.throwable, "BEFORE", "throw")'
    BY <1>6, <1>8, <1>16, <2>1 DEF BeforeOK, throw
  <2>7. BeforeOK'
    BY <1>7, <2>2, <2>3, <2>4, <2>5, <2>6 DEF BeforeOK
  <2> QED
    BY <1>1, <1>13, <1>14, <1>17, <2>7 DEF WrittenOK
<1>18. CASE phase = "after"
  <2>1. AfterOK /\ type = "AFTER"
    BY <1>1, <1>5, <1>18 DEF WrittenOK, type
  <2>2. \A deed : Was("BEFORE", deed)' <=> Was("BEFORE", deed)
    BY <1>8, <2>1
  <2>3. SeenOK' /\ (BaseThrown' <=> BaseThrown)
    BY <1>1, <1>7, <2>1, <2>2 DEF AfterOK, SeenOK, BaseThrown
  <2>4. info'.hasChanged <=> Was("AFTER", "set")'
    BY <1>8, <1>15, <2>1 DEF AfterOK, set
  <2>5. info'.hasChanged => Made(info.result, "AFTER", "set")'
    BY <1>8, <1>15, <2>1 DEF AfterOK, set
  <2>6. param'.throwable # Nobody <=> BaseThrown \/ Was("AFTER", "throw")'
    BY <1>6, <1>8, <1>16, <2>1 DEF AfterOK, throw
  <2>7. Was("AFTER", "throw")' => Made(param.throwable, "AFTER", "throw")'
    BY <1>8, <1>16, <2>1 DEF AfterOK, throw
  <2>8. ~Was("AFTER", "throw")' => BaseOK'
    <3> SUFFICES ASSUME ~Was("AFTER", "throw")' PROVE BaseOK'
      OBVIOUS
    <3>1. BaseOK /\ param'.throwable = param.throwable /\ param'.result = param.result
      BY <1>8, <1>16, <2>1 DEF AfterOK, throw
    <3>2. \A a, deed : Base(a, deed) => Base(a, deed)'
      BY <1>1, <1>7, <1>8 DEF Base
    <3> QED
      BY <1>7, <3>1, <3>2 DEF BaseOK
  <2>9. AfterOK'
    BY <1>7, <2>3, <2>4, <2>5, <2>6, <2>7, <2>8 DEF AfterOK
  <2> QED
    BY <1>1, <1>13, <1>14, <1>18, <2>9 DEF WrittenOK
<1> QED
  BY <1>17, <1>18

\* A callback is the next in order, and one that throws cuts off the rest.
LEMMA CallbackOrder ==
  ASSUME LegacyInv, NEW phase \in {"before", "after"}, Legacy!RunCallback(phase)
  PROVE  RanOK'
<1> PICK h : h = Head(todo)
  OBVIOUS
<1> DEFINE type == IF phase = "before" THEN "BEFORE" ELSE "AFTER"
<1>1. /\ at = phase /\ at' = phase /\ ~call.clinit /\ UNCHANGED <<call, seen>>
      /\ todo # <<>> /\ h \in Indices /\ TypeOf(h) = type
      /\ ran' = Append(ran, h)
  BY CallbackStep
<1>2. /\ Does(h, "throw") => todo' = <<>>
      /\ ~Does(h, "throw") => todo' = Tail(todo)
  BY CallbackStep
<1>3. CallOK /\ todo \in Seq(Indices) /\ ran \in Seq(Indices) /\ RanOK
  BY DEF LegacyInv, ParamOK
<1>4. /\ h = todo[1] /\ 1 \in DOMAIN todo /\ Tail(todo) \in Seq(Indices)
      /\ \A k \in DOMAIN Tail(todo) : k + 1 \in DOMAIN todo /\ Tail(todo)[k] = todo[k + 1] /\ 1 < k + 1
      /\ Range(todo) = {h} \cup Range(Tail(todo))
  BY <1>1, <1>3, HeadTail
<1>5. Range(ran') = Range(ran) \cup {h}
  BY <1>1, <1>3, RanGrows
<1> HIDE DEF type
<1>6. \A i \in Range(ran), j \in Range(todo) :
        TypeOf(i) = TypeOf(j) => Precedes(i, j) /\ ~Does(i, "throw")
  BY <1>1, <1>3 DEF RanOK
<1>7. \A j \in Range(todo) : TypeOf(j) = type
  <2> SUFFICES ASSUME NEW j \in Range(todo) PROVE TypeOf(j) = type
    OBVIOUS
  <2>1. j \in Indices
    BY <1>3 DEF Range
  <2>2. Going(TypeOf(j)) /\ TypeOf(j) \in Types
    BY <1>1, <1>3, <2>1 DEF RanOK, CallOK, HooksOK
  <2> QED
    BY <1>1, <2>2 DEF Going, Types, type
<1>8. \A j \in Range(Tail(todo)) : Precedes(h, j)
  <2> SUFFICES ASSUME NEW j \in Range(Tail(todo)) PROVE Precedes(h, j)
    OBVIOUS
  <2>1. PICK k \in DOMAIN Tail(todo) : Tail(todo)[k] = j
    BY DEF Range
  <2>2. 1 \in DOMAIN todo /\ k + 1 \in DOMAIN todo /\ 1 < k + 1 /\ j = todo[k + 1] /\ h = todo[1]
    BY <1>4, <2>1
  <2>3. \A i, l \in DOMAIN todo : i < l => Precedes(todo[i], todo[l])
    BY <1>1, <1>3 DEF RanOK
  <2> QED
    BY <2>2, <2>3
<1>9. Range(todo') \subseteq Range(Tail(todo)) /\ Range(todo') \subseteq Range(todo)
      /\ (Range(todo') # {} => ~Does(h, "throw"))
  <2>1. CASE Does(h, "throw")
    <3>1. todo' = <<>>
      BY <1>2, <2>1
    <3>2. Range(todo') = {}
      BY <3>1 DEF Range
    <3> QED
      BY <3>2
  <2>2. CASE ~Does(h, "throw")
    BY <1>2, <1>4, <2>2
  <2> QED
    BY <2>1, <2>2
<1>10. \A i \in Range(todo') : Going(TypeOf(i))'
  BY <1>1, <1>7, <1>9, SameCall DEF Going, type
<1>11. \A i \in Range(ran') : Begun(TypeOf(i))'
  <2>1. \A i \in Range(ran) : Begun(TypeOf(i))'
    BY <1>1, <1>3, SameCall DEF RanOK, Begun
  <2>2. Begun(TypeOf(h))'
    BY <1>1, SameCall DEF Begun, type
  <2> QED
    BY <1>5, <2>1, <2>2
<1>12. \A i, j \in DOMAIN todo' : i < j => Precedes(todo'[i], todo'[j])
  <2>1. \A i, l \in DOMAIN todo : i < l => Precedes(todo[i], todo[l])
    BY <1>1, <1>3 DEF RanOK
  <2>2. CASE Does(h, "throw")
    BY <1>2, <2>2
  <2>3. CASE ~Does(h, "throw")
    <3>1. todo' = Tail(todo)
      BY <1>2, <2>3
    <3> SUFFICES ASSUME NEW i \in DOMAIN Tail(todo), NEW j \in DOMAIN Tail(todo), i < j
                 PROVE  Precedes(Tail(todo)[i], Tail(todo)[j])
      BY <3>1
    <3>2. i \in Int /\ j \in Int
      BY <1>4
    <3>3. i + 1 < j + 1
      BY <3>2
    <3> QED
      BY <1>4, <2>1, <3>3
  <2> QED
    BY <2>2, <2>3
<1>13. \A i \in Range(ran'), j \in Range(todo') :
         TypeOf(i) = TypeOf(j) => Precedes(i, j) /\ ~Does(i, "throw")
  BY <1>5, <1>6, <1>8, <1>9
<1>14. \A i, j \in DOMAIN ran' :
         i < j /\ TypeOf(ran'[i]) = TypeOf(ran'[j]) =>
           Precedes(ran'[i], ran'[j]) /\ ~Does(ran'[i], "throw")
  <2> SUFFICES ASSUME NEW i \in DOMAIN ran', NEW j \in DOMAIN ran', i < j,
                      TypeOf(ran'[i]) = TypeOf(ran'[j])
               PROVE  Precedes(ran'[i], ran'[j]) /\ ~Does(ran'[i], "throw")
    OBVIOUS
  <2>1. i \in DOMAIN ran /\ ran'[i] = ran[i]
    BY <1>1, <1>3
  <2>2. CASE j \in DOMAIN ran
    <3>1. ran'[j] = ran[j]
      BY <1>1, <1>3, <2>2
    <3> QED
      BY <1>1, <1>3, <2>1, <2>2, <3>1 DEF RanOK
  <2>3. CASE j \notin DOMAIN ran
    <3>1. ran'[j] = h
      BY <1>1, <1>3, <2>3
    <3>2. ran[i] \in Range(ran) /\ h \in Range(todo)
      BY <1>4, <2>1 DEF Range
    <3> QED
      BY <1>6, <2>1, <3>1, <3>2
  <2> QED
    BY <2>2, <2>3
<1>15. ASSUME NEW i \in Indices, Begun(TypeOf(i))'
       PROVE  i \in Range(ran') \cup Range(todo') \/ CutOff(i)'
  <2>1. Begun(TypeOf(i))
    BY <1>1, <1>15, SameCall DEF Begun
  <2>2. i \in Range(ran) \cup Range(todo) \/ CutOff(i)
    BY <1>1, <1>3, <2>1 DEF RanOK
  <2>3. CASE i \in Range(ran) \cup {h}
    BY <1>5, <2>3
  <2>4. CASE i \in Range(Tail(todo)) /\ ~Does(h, "throw")
    BY <1>2, <2>4
  <2>5. CASE i \in Range(Tail(todo)) /\ Does(h, "throw")
    <3>1. Precedes(h, i) /\ TypeOf(h) = TypeOf(i)
      BY <1>1, <1>4, <1>7, <1>8, <2>5
    <3>2. Precedes(h, i)' /\ TypeOf(h)' = TypeOf(i)' /\ Does(h, "throw")' /\ h \in Range(ran')
      BY <1>1, <1>5, <2>5, <3>1, SameCall
    <3> QED
      BY <3>2 DEF CutOff
  <2>6. CASE CutOff(i)
    <3>1. PICK j \in Range(ran) : TypeOf(j) = TypeOf(i) /\ Does(j, "throw") /\ Precedes(j, i)
      BY <2>6 DEF CutOff
    <3>2. Precedes(j, i)' /\ TypeOf(j)' = TypeOf(i)' /\ Does(j, "throw")' /\ j \in Range(ran')
      BY <1>1, <1>5, <3>1, SameCall
    <3> QED
      BY <3>2 DEF CutOff
  <2> QED
    BY <1>4, <2>2, <2>3, <2>4, <2>5, <2>6
<1> QED
  BY <1>1, <1>10, <1>11, <1>12, <1>13, <1>14, <1>15, SameCall DEF RanOK

\* One that assigns the argument is the last to.
LEMMA CallbackAssigns ==
  ASSUME LegacyInv, NEW phase \in {"before", "after"}, Legacy!RunCallback(phase)
  PROVE  ArgsOK'
<1> PICK h : h = Head(todo)
  OBVIOUS
<1> DEFINE type == IF phase = "before" THEN "BEFORE" ELSE "AFTER"
<1>1. /\ at = phase /\ at' = phase /\ ~call.clinit /\ UNCHANGED <<call, seen>>
      /\ todo # <<>> /\ h \in Indices /\ TypeOf(h) = type
      /\ ran' = Append(ran, h)
  BY CallbackStep
<1>2. /\ Does(h, "assign") => args' = h
      /\ ~Does(h, "assign") => args' = args
  BY CallbackStep
<1>3. CallOK /\ todo \in Seq(Indices) /\ ran \in Seq(Indices) /\ RanOK /\ ParamOK /\ ArgsOK
  BY DEF LegacyInv, ParamOK
<1>4. Nobody' = Nobody /\ Original' = Original /\ h # Original
  BY <1>1, <1>3, Numbers DEF Nobody, Original
<1>5. /\ Range(ran') = Range(ran) \cup {h}
      /\ \A a, t, deed :
           Made(a, t, deed)' <=> Made(a, t, deed) \/ (a = h /\ type = t /\ Does(h, deed))
  BY <1>1, <1>3, RanGrows
<1>6. h \in Range(todo)
  BY <1>1, <1>3, HeadTail
<1> HIDE DEF type
<1>7. \A i \in Range(ran) : TypeOf(i) = type => Precedes(i, h)
  BY <1>1, <1>3, <1>6 DEF RanOK
<1>8. CASE phase = "before"
  <2>1. LastToAssign(args) /\ seen = Nobody /\ type = "BEFORE"
    BY <1>1, <1>3, <1>8 DEF ArgsOK, ParamOK, type
  <2>2. CASE Does(h, "assign")
    <3>1. Made(h, "BEFORE", "assign")'
      BY <1>5, <2>1, <2>2
    <3>2. \A i \in Range(ran') : TypeOf(i) = "BEFORE" /\ i # h => Precedes(i, h)
      BY <1>5, <1>7, <2>1
    <3>3. \A i \in Range(ran') :
            TypeOf(i)' = "BEFORE" /\ Does(i, "assign")' /\ i # h => Precedes(i, h)'
      BY <1>1, <3>2, SameCall
    <3>4. \A a : a = h => LastToAssign(a)'
      BY <1>4, <3>1, <3>3 DEF LastToAssign
    <3>5. LastToAssign(args)'
      BY <1>2, <2>2, <3>4
    <3> QED
      BY <1>1, <1>4, <2>1, <3>5 DEF ArgsOK
  <2>3. CASE ~Does(h, "assign")
    <3>1. \A a : LastToAssign(a) => LastToAssign(a)'
      <4> SUFFICES ASSUME NEW a, LastToAssign(a) PROVE LastToAssign(a)'
        OBVIOUS
      <4>1. CASE a = Original
        <5>1. \A i \in Range(ran) : TypeOf(i) = "BEFORE" => ~Does(i, "assign")
          BY <4>1 DEF LastToAssign
        <5>2. \A i \in Range(ran') : TypeOf(i)' = "BEFORE" => ~Does(i, "assign")'
          BY <1>1, <1>5, <2>3, <5>1, SameCall
        <5> QED
          BY <1>4, <4>1, <5>2 DEF LastToAssign
      <4>2. CASE a # Original
        <5>1. /\ Made(a, "BEFORE", "assign")
              /\ \A i \in Range(ran) :
                   TypeOf(i) = "BEFORE" /\ Does(i, "assign") /\ i # a => Precedes(i, a)
          BY <4>2 DEF LastToAssign
        <5>2. \A i \in Range(ran') :
                TypeOf(i)' = "BEFORE" /\ Does(i, "assign")' /\ i # a => Precedes(i, a)'
          BY <1>1, <1>5, <2>3, <5>1, SameCall
        <5>3. Made(a, "BEFORE", "assign")'
          BY <1>5, <5>1
        <5> QED
          BY <1>4, <4>2, <5>2, <5>3 DEF LastToAssign
      <4> QED
        BY <4>1, <4>2
    <3>2. LastToAssign(args)'
      BY <1>2, <2>1, <2>3, <3>1
    <3> QED
      BY <1>1, <1>4, <2>1, <3>2 DEF ArgsOK
  <2> QED
    BY <2>2, <2>3
<1>9. CASE phase = "after"
  <2>1. (seen # Nobody => LastToAssign(seen)) /\ type = "AFTER"
    BY <1>1, <1>3, <1>9 DEF ArgsOK, type
  <2>2. \A i \in Range(ran') : TypeOf(i) = "BEFORE" <=> i \in Range(ran) /\ TypeOf(i) = "BEFORE"
    BY <1>1, <1>5, <2>1
  <2>3. \A a : LastToAssign(a) => LastToAssign(a)'
    BY <1>1, <1>4, <1>5, <2>1, <2>2, SameCall DEF LastToAssign
  <2>4. seen # Nobody => LastToAssign(seen)'
    BY <1>1, <2>1, <2>3
  <2> QED
    BY <1>1, <1>4, <1>9, <2>4 DEF ArgsOK
<1> QED
  BY <1>8, <1>9

\* A callback of an ordinary member keeps the invariant.
LEMMA CallbackKeeps ==
  ASSUME LegacyInv, NEW phase \in {"before", "after"}, Legacy!RunCallback(phase)
  PROVE  LegacyInv'
<1>1. UNCHANGED call /\ ~call.clinit
  BY CallbackStep
<1>2. CallOK'
  BY <1>1, SameCall DEF LegacyInv
<1>3. ClinitOK'
  BY <1>1 DEF ClinitOK
<1> QED
  BY <1>2, <1>3, CallbackWrites, CallbackOrder, CallbackAssigns DEF LegacyInv

\* A class initializer's callback changes nothing.
LEMMA ClinitCallbackKeeps ==
  ASSUME LegacyInv, NEW phase \in {"before", "after"}, Legacy!RunClinitCallback(phase)
  PROVE  LegacyInv'
<1>1. /\ call.clinit /\ todo # <<>> /\ at = phase
      /\ todo' = Tail(todo) /\ ran' = Append(ran, Head(todo))
      /\ UNCHANGED <<call, at, info, param, args, seen>>
  BY DEF Legacy!RunClinitCallback
<1>2. todo \in Seq(Indices) /\ ran \in Seq(Indices) /\ CallOK /\ ParamOK /\ ClinitOK
  BY DEF LegacyInv, ParamOK
<1>3. Head(todo) \in Indices /\ Tail(todo) \in Seq(Indices)
  BY <1>1, <1>2, HeadTail
<1>4. ran' \in Seq(Indices) /\ Indices' = Indices /\ CallOK'
  BY <1>1, <1>2, <1>3, SameCall
<1>5. Nobody' = Nobody /\ Original' = Original /\ Authors' = Authors
  BY DEF Nobody, Original, Authors
<1>6. ParamOK'
  BY <1>1, <1>2, <1>3, <1>4, <1>5 DEF ParamOK
<1>7. ClinitOK'
  BY <1>1, <1>2, <1>5 DEF ClinitOK, Legacy!WithThrowable, Legacy!WithResult
<1>8. WrittenOK' /\ RanOK' /\ ArgsOK'
  BY <1>1 DEF WrittenOK, RanOK, ArgsOK
<1> QED
  BY <1>4, <1>6, <1>7, <1>8 DEF LegacyInv

\* So does a step of the other backend.
LEMMA StillKeeps ==
  ASSUME LegacyInv, UNCHANGED <<call, legacyVars>>
  PROVE  LegacyInv'
<1>1. UNCHANGED <<call, at, todo, info, param, args, seen, ran>>
  BY DEF legacyVars
<1>2. CallOK' /\ Indices' = Indices
  BY <1>1, SameCall DEF LegacyInv
<1>3. Nobody' = Nobody /\ Original' = Original /\ Authors' = Authors
  BY DEF Nobody, Original, Authors
<1>4. ParamOK'
  BY <1>1, <1>2, <1>3 DEF LegacyInv, ParamOK
<1>5. WrittenOK'
  <2>1. /\ BeforeOK' <=> BeforeOK
        /\ OriginalOK' <=> OriginalOK
    BY <1>1, <1>3, SameRan, SameBase DEF BeforeOK, OriginalOK, BaseOK
  <2>2. AfterHookedOK' <=> AfterHookedOK
    BY <1>1, <1>3, SameBase DEF AfterHookedOK, BaseOK
  <2>3. AfterOK' <=> AfterOK
    BY <1>1, <1>3, SameRan, SameBase DEF AfterOK, BaseOK
  <2>4. ReturnedOK' <=> ReturnedOK
    BY <1>1, <1>3, SameRan, SameBase DEF ReturnedOK, BaseOK
  <2>5. WrittenOK
    BY DEF LegacyInv
  <2> QED
    BY <1>1, <2>1, <2>2, <2>3, <2>4, <2>5, SameCall DEF WrittenOK
<1>6. ClinitOK'
  BY <1>1, <1>3 DEF LegacyInv, ClinitOK, Legacy!WithThrowable, Legacy!WithResult
<1>7. RanOK'
  <2>1. RanOK
    BY DEF LegacyInv
  <2> QED
    BY <1>1, <2>1
    DEF RanOK, Going, Begun, CutOff, Precedes, Legacy!Precedes, Indices, TypeOf, Does
<1>8. ArgsOK'
  <2>1. ArgsOK
    BY DEF LegacyInv
  <2> QED
    BY <1>1, <1>3, <2>1, SameBase DEF ArgsOK
<1> QED
  BY <1>2, <1>4, <1>5, <1>6, <1>7, <1>8 DEF LegacyInv

\* Every step does.
LEMMA StepKeepsLegacy == LegacyInv /\ [Next]_vars => LegacyInv'
<1> SUFFICES ASSUME LegacyInv, [Next]_vars PROVE LegacyInv'
  OBVIOUS
<1> QED
  BY LegacySteps, StillKeeps, StartKeeps, EndKeeps, OriginalKeeps, CallbackKeeps, ClinitCallbackKeeps
----
\* What the caller gets from the legacy backend

\* The outcome is what param holds when the call has returned.
LEMMA LegacyReturns ==
  ASSUME LegacyInv, at = "returned"
  PROVE  /\ param.throwable # Nobody => Legacy!LegacyOutcome = Exception(param.throwable)
         /\ param.throwable = Nobody => Legacy!LegacyOutcome = Result(param.result)
         /\ param.throwable = Nobody => param.result # Nobody
BY LegacyNames DEF LegacyInv, ParamOK, Legacy!LegacyOutcome, Legacy!Exception, Legacy!Result, Exception, Result

\* What was written when the call has returned decides between result and exception.
LEMMA DeliveredByInv == LegacyInv => LegacyExceptionDelivered
<1> SUFFICES ASSUME LegacyInv, at = "returned", ~call.clinit
             PROVE  (Legacy!LegacyOutcome.kind = "exception") =
                      \/ Was("AFTER", "throw") /\ ~Was("AFTER", "set")
                      \/ ~Was("AFTER", "set") /\ Was("BEFORE", "throw") /\ ~Was("BEFORE", "set")
                      \/ ~Was("AFTER", "set") /\ seen # Nobody /\ call.throws
  BY DEF LegacyExceptionDelivered, Was
<1>1. Legacy!LegacyOutcome.kind = "exception" <=> param.throwable # Nobody
  BY LegacyReturns DEF Exception, Result
<1>2. ReturnedOK
  BY DEF LegacyInv, WrittenOK
<1> QED
  BY <1>1, <1>2 DEF ReturnedOK, BaseThrown

\* For any hooks: under the legacy backend an exception of a callback, or of the
\* original, reaches the caller unless a callback of the same or a later phase
\* set a result.  (Xposed.kt 92-97)
THEOREM ExceptionDelivered == Spec => []LegacyExceptionDelivered
<1>1. Init => LegacyInv
  BY InitLegacyInv
<1>2. LegacyInv /\ [Next]_vars => LegacyInv'
  BY StepKeepsLegacy
<1> QED
  BY <1>1, <1>2, DeliveredByInv, PTL DEF Spec
----
\* How far in a call under LSPosed gets

BeforeUpTo(t) == {chain[a] : a \in {b \in DOMAIN chain : b <= t /\ TypeOf(chain[b]) = "BEFORE"}}
AfterBetween(p, t) == {chain[a] : a \in {b \in DOMAIN chain : p < b /\ b < t /\ TypeOf(chain[b]) = "AFTER"}}

\* A callback ends the call, if it is a BEFORE hook's.
Ends(h) == Does(h, "throw") \/ (Does(h, "set") /\ ~call.clinit)

\* The BEFORE callbacks further out than t have let the call pass.
PassedUpTo(t) ==
  \A a \in DOMAIN chain : a < t /\ TypeOf(chain[a]) = "BEFORE" => ~Ends(chain[a])

\* a assigned the argument last among the BEFORE callbacks further out than t.
AssignedUpTo(a, t) ==
  IF a = Original
  THEN \A b \in DOMAIN chain : b < t /\ TypeOf(chain[b]) = "BEFORE" => ~Does(chain[b], "assign")
  ELSE \E c \in DOMAIN chain :
         /\ c < t /\ chain[c] = a /\ TypeOf(a) = "BEFORE" /\ Does(a, "assign")
         /\ \A b \in DOMAIN chain :
              b < t /\ TypeOf(chain[b]) = "BEFORE" /\ Does(chain[b], "assign") => b <= c

InwardOK ==
  /\ 0 < pos
  /\ PassedUpTo(pos)
  /\ Range(called) = BeforeUpTo(pos - 1)
  /\ received = Nobody
  /\ AssignedUpTo(passed, pos)

\* The call turned at the link t: the original, or a BEFORE hook that ended it.
TurnedAt(t) ==
  /\ pos < t
  /\ PassedUpTo(t)
  /\ Range(called) = BeforeUpTo(t) \cup AfterBetween(pos, t)
  /\ t = Len(chain) + 1 => received # Nobody /\ AssignedUpTo(received, t)
  /\ t # Len(chain) + 1 =>
       received = Nobody /\ TypeOf(chain[t]) = "BEFORE" /\ Ends(chain[t])

\* Every hook has one place in the chain.
PlacesOK ==
  /\ \A a, b \in DOMAIN chain : chain[a] = chain[b] => a = b
  /\ \A i \in Indices : \E a \in DOMAIN chain : chain[a] = i

ReachOK ==
  /\ pos \in 0..(Len(chain) + 1)
  /\ outcome \in Outcome /\ (Chain!Inward <=> outcome.by = Nobody)
  /\ passed \in Authors \ {Nobody} /\ received \in Authors
  /\ Chain!Inward => InwardOK
  /\ ~Chain!Inward => \E t \in 1..(Len(chain) + 1) : TurnedAt(t)

ReachInv == IInv /\ CallOK /\ PlacesOK /\ ReachOK

\* The chained call's own names for what both calls share
LEMMA ChainNames ==
  /\ Chain!Nobody = Nobody /\ Chain!Original = Original /\ Chain!Authors = Authors
  /\ Chain!Indices = Indices /\ Chain!Outcome = Outcome /\ Chain!Pending = Pending
  /\ Chain!OriginalOutcome = OriginalOutcome
  /\ \A i : Chain!TypeOf(i) = TypeOf(i)
  /\ \A i, deed : Chain!Does(i, deed) <=> Does(i, deed)
  /\ \A i : Chain!EndsHere(i) <=> Ends(i)
  /\ \A i : Chain!Exception(i) = Exception(i) /\ Chain!Result(i) = Result(i)
BY DEF Chain!Nobody, Nobody, Chain!Original, Original, Chain!Authors, Authors, Chain!Indices, Indices,
       Chain!Outcome, Outcome, Chain!Pending, Pending, Chain!OriginalOutcome, OriginalOutcome,
       Chain!TypeOf, TypeOf, Chain!Does, Does, Chain!EndsHere, Ends, Chain!Exception, Exception,
       Chain!Result, Result

\* Nothing of the chain changes.
LEMMA SameChain ==
  ASSUME UNCHANGED <<call, chain>>
  PROVE  /\ \A t : BeforeUpTo(t)' = BeforeUpTo(t)
         /\ \A p, t : AfterBetween(p, t)' = AfterBetween(p, t)
         /\ \A t : PassedUpTo(t)' <=> PassedUpTo(t)
         /\ \A a, t : AssignedUpTo(a, t)' <=> AssignedUpTo(a, t)
         /\ \A i : Ends(i)' <=> Ends(i)
         /\ PlacesOK' <=> PlacesOK
<1>1. \A t : BeforeUpTo(t)' = BeforeUpTo(t)
  BY SameCall DEF BeforeUpTo
<1>2. \A p, t : AfterBetween(p, t)' = AfterBetween(p, t)
  BY SameCall DEF AfterBetween
<1>3. \A i : Ends(i)' <=> Ends(i)
  BY SameCall DEF Ends
<1>4. \A t : PassedUpTo(t)' <=> PassedUpTo(t)
  BY <1>3, SameCall DEF PassedUpTo
<1>5. \A a, t : AssignedUpTo(a, t)' <=> AssignedUpTo(a, t)
  BY SameCall DEF AssignedUpTo, Original
<1>6. PlacesOK' <=> PlacesOK
  BY SameCall DEF PlacesOK
<1> QED
  BY <1>1, <1>2, <1>3, <1>4, <1>5, <1>6

\* One link further in, and one further out
LEMMA LinkFurther ==
  ASSUME chain \in Seq(Indices), NEW p \in DOMAIN chain, NEW t \in Nat
  PROVE  /\ TypeOf(chain[p]) = "BEFORE" => BeforeUpTo(p) = BeforeUpTo(p - 1) \cup {chain[p]}
         /\ TypeOf(chain[p]) # "BEFORE" => BeforeUpTo(p) = BeforeUpTo(p - 1)
         /\ p < t /\ TypeOf(chain[p]) = "AFTER" => AfterBetween(p - 1, t) = AfterBetween(p, t) \cup {chain[p]}
         /\ p < t /\ TypeOf(chain[p]) # "AFTER" => AfterBetween(p - 1, t) = AfterBetween(p, t)
         /\ PassedUpTo(p) /\ (TypeOf(chain[p]) = "BEFORE" => ~Ends(chain[p])) => PassedUpTo(p + 1)
<1>1. DOMAIN chain \subseteq Int /\ p \in Int /\ \A b \in DOMAIN chain : b <= p <=> b <= p - 1 \/ b = p
  OBVIOUS
<1>2. \A b \in DOMAIN chain : p - 1 < b <=> p < b \/ b = p
  BY <1>1
<1>3. \A b \in DOMAIN chain : b < p + 1 <=> b < p \/ b = p
  BY <1>1
<1>4. TypeOf(chain[p]) = "BEFORE" => BeforeUpTo(p) = BeforeUpTo(p - 1) \cup {chain[p]}
  BY <1>1 DEF BeforeUpTo
<1>5. TypeOf(chain[p]) # "BEFORE" => BeforeUpTo(p) = BeforeUpTo(p - 1)
  BY <1>1 DEF BeforeUpTo
<1>6. p < t /\ TypeOf(chain[p]) = "AFTER" => AfterBetween(p - 1, t) = AfterBetween(p, t) \cup {chain[p]}
  BY <1>2 DEF AfterBetween
<1>7. p < t /\ TypeOf(chain[p]) # "AFTER" => AfterBetween(p - 1, t) = AfterBetween(p, t)
  BY <1>2 DEF AfterBetween
<1>8. PassedUpTo(p) /\ (TypeOf(chain[p]) = "BEFORE" => ~Ends(chain[p])) => PassedUpTo(p + 1)
  BY <1>3 DEF PassedUpTo
<1> QED
  BY <1>4, <1>5, <1>6, <1>7, <1>8

\* A BEFORE callback that assigns the argument is the last to; nobody else assigns it.
LEMMA AssignedFurther ==
  ASSUME CallOK, chain \in Seq(Indices), NEW p \in DOMAIN chain, NEW a, AssignedUpTo(a, p)
  PROVE  /\ TypeOf(chain[p]) = "BEFORE" /\ Does(chain[p], "assign") => AssignedUpTo(chain[p], p + 1)
         /\ ~(TypeOf(chain[p]) = "BEFORE" /\ Does(chain[p], "assign")) => AssignedUpTo(a, p + 1)
<1>1. DOMAIN chain \subseteq Int /\ p \in Int
  OBVIOUS
<1>2. \A b \in DOMAIN chain : (b < p + 1 <=> b < p \/ b = p) /\ (b < p + 1 <=> b <= p) /\ p < p + 1
  BY <1>1
<1>3. chain[p] # Original
  BY Numbers
<1>4. TypeOf(chain[p]) = "BEFORE" /\ Does(chain[p], "assign") => AssignedUpTo(chain[p], p + 1)
  BY <1>2, <1>3 DEF AssignedUpTo
<1>5. ASSUME ~(TypeOf(chain[p]) = "BEFORE" /\ Does(chain[p], "assign"))
      PROVE  AssignedUpTo(a, p + 1)
  <2>1. CASE a = Original
    BY <1>2, <1>5, <2>1 DEF AssignedUpTo
  <2>2. CASE a # Original
    <3>1. PICK c \in DOMAIN chain :
            /\ c < p /\ chain[c] = a /\ TypeOf(a) = "BEFORE" /\ Does(a, "assign")
            /\ \A b \in DOMAIN chain :
                 b < p /\ TypeOf(chain[b]) = "BEFORE" /\ Does(chain[b], "assign") => b <= c
      BY <2>2 DEF AssignedUpTo
    <3>2. c < p + 1
      BY <1>2, <3>1
    <3>3. \A b \in DOMAIN chain :
            b < p + 1 /\ TypeOf(chain[b]) = "BEFORE" /\ Does(chain[b], "assign") => b <= c
      BY <1>2, <1>5, <3>1
    <3> QED
      BY <2>2, <3>1, <3>2, <3>3 DEF AssignedUpTo
  <2> QED
    BY <2>1, <2>2
<1> QED
  BY <1>4, <1>5

\* Outcomes are of their type, and say whose they are.
LEMMA OutcomesOK ==
  /\ Pending \in Outcome /\ Pending.by = Nobody
  /\ OriginalOutcome \in Outcome /\ OriginalOutcome.by # Nobody
  /\ OriginalOutcome # Pending
  /\ CallOK => \A h \in Indices :
       /\ Exception(h) \in Outcome /\ Exception(h).by # Nobody /\ Exception(h) # Pending
       /\ Result(h) \in Outcome /\ Result(h).by # Nobody /\ Result(h) # Pending
<1>1. \A a \in Authors \ {Nobody} :
        /\ Exception(a) \in Outcome /\ Exception(a).by # Nobody /\ Exception(a) # Pending
        /\ Result(a) \in Outcome /\ Result(a).by # Nobody /\ Result(a) # Pending
  <2> TAKE a \in Authors \ {Nobody}
  <2>1. [kind |-> "exception", by |-> a] \in [kind : {"result", "exception", "pending"}, by : Authors]
    OBVIOUS
  <2>2. [kind |-> "result", by |-> a] \in [kind : {"result", "exception", "pending"}, by : Authors]
    OBVIOUS
  <2>3. Exception(a).by = a /\ Result(a).by = a /\ Exception(a).kind # Pending.kind
        /\ Result(a).kind # Pending.kind
    BY DEF Exception, Result, Pending
  <2> QED
    BY <2>1, <2>2, <2>3 DEF Exception, Result, Outcome
<1>2. Pending \in Outcome /\ Pending.by = Nobody
  <2>1. [kind |-> "pending", by |-> Nobody] \in [kind : {"result", "exception", "pending"}, by : Authors]
    BY Numbers
  <2> QED
    BY <2>1 DEF Pending, Outcome
<1>3. OriginalOutcome = Exception(Original) \/ OriginalOutcome = Result(Original)
  BY DEF OriginalOutcome
<1> QED
  BY <1>1, <1>2, <1>3, Numbers

\* A call starts at the outermost hook, with every hook in its place.
LEMMA InitReachInv == Init => ReachInv
<1> SUFFICES ASSUME Init PROVE ReachInv
  OBVIOUS
<1>1. CallOK /\ IInv
  BY InitCallOK, StartsNested DEF Init
<1>2. PICK m \in Nat : Indices = 1..m
  BY IndicesFromOne DEF Init
<1>3. /\ chain \in [Indices -> Indices] /\ Chain!IsInjective(chain)
      /\ pos = 1 /\ outcome = Pending /\ passed = Original /\ received = Nobody /\ called = <<>>
  BY ChainNames DEF Init, Chain!InitChain, Chain!Chains
<1>4. \A a, b \in DOMAIN chain : chain[a] = chain[b] => a = b
  BY <1>3 DEF Chain!IsInjective
<1>5. PlacesOK
  <2>1. IsFiniteSet(Indices) /\ Cardinality(1..m) = Cardinality(Indices)
    BY <1>2, FS_Interval
  <2>2. chain \in Injection(Indices, Indices)
    BY <1>3, <1>4 DEF Injection, IsInjective
  <2>3. chain \in Surjection(Indices, Indices)
    BY <2>1, <2>2, FS_Injection
  <2> QED
    BY <1>3, <1>4, <2>3 DEF PlacesOK, Surjection
<1>6. DOMAIN chain = 1..m /\ Len(chain) = m
  BY <1>2, <1>3
<1>7. Range(called) = {} /\ BeforeUpTo(0) = {}
  BY <1>3, <1>6 DEF Range, BeforeUpTo
<1>8. PassedUpTo(1) /\ AssignedUpTo(Original, 1)
  BY <1>6 DEF PassedUpTo, AssignedUpTo
<1>9. Chain!Inward /\ outcome \in Outcome /\ outcome.by = Nobody
  BY <1>3, ChainNames, OutcomesOK DEF Chain!Inward
<1>10. InwardOK
  <2>1. 0 < pos /\ pos - 1 = 0
    BY <1>3
  <2>2. Range(called) = BeforeUpTo(pos - 1)
    BY <1>7, <2>1
  <2>3. PassedUpTo(pos) /\ AssignedUpTo(passed, pos) /\ received = Nobody
    BY <1>3, <1>8
  <2> QED
    BY <2>1, <2>2, <2>3 DEF InwardOK
<1>11. pos \in 0..(Len(chain) + 1)
  BY <1>3, <1>6
<1>12. ReachOK
  BY <1>3, <1>9, <1>10, <1>11, Numbers DEF ReachOK
<1> QED
  BY <1>1, <1>5, <1>12 DEF ReachInv

\* A step of the call under LSPosed, or one that leaves it alone
LEMMA ChainSteps ==
  ASSUME [Next]_vars
  PROVE  /\ UNCHANGED <<call, chain>>
         /\ \/ UNCHANGED <<pos, outcome, passed, received, called>>
            \/ Chain!BeforeProceeds \/ Chain!BeforeEnds \/ Chain!AfterProceeds
            \/ Chain!RunOriginal \/ Chain!BeforeReturns \/ Chain!AfterReturns
<1>1. UNCHANGED <<call, chain>>
  BY DEF Next, vars, legacyVars, chainVars,
      Legacy!LegacyNext, Legacy!StartPhase, Legacy!EndPhase, Legacy!RunOriginal,
      Legacy!RunCallback, Legacy!RunClinitCallback,
      Chain!ChainNext, Chain!BeforeProceeds, Chain!BeforeEnds, Chain!AfterProceeds,
      Chain!RunOriginal, Chain!BeforeReturns, Chain!AfterReturns
<1> QED
  BY <1>1 DEF Next, vars, chainVars, Chain!ChainNext

\* The callback of the link reached is called.
LEMMA CalledGrows ==
  ASSUME ReachInv, pos \in DOMAIN chain, called' = Append(called, chain[pos])
  PROVE  chain[pos] \in Indices /\ Range(called') = Range(called) \cup {chain[pos]}
<1>1. called \in Seq(Indices) /\ chain[pos] \in Indices
  BY DEF ReachInv, IInv, CalledOK, ChainOK
<1>2. PICK h : h = chain[pos]
  OBVIOUS
<1>3. Len(called) \in Nat /\ DOMAIN called = 1..Len(called)
      /\ DOMAIN called' = 1..(Len(called) + 1)
      /\ called'[Len(called) + 1] = h /\ \A k \in DOMAIN called : called'[k] = called[k]
  BY <1>1, <1>2
<1>4. \A k \in DOMAIN called' : k \in DOMAIN called \/ k = Len(called) + 1
  BY <1>3
<1>5. DOMAIN called \subseteq DOMAIN called' /\ Len(called) + 1 \in DOMAIN called'
  BY <1>3
<1>6. Range(called') = Range(called) \cup {h}
  <2>1. Range(called') \subseteq Range(called) \cup {h}
    BY <1>3, <1>4 DEF Range
  <2>2. Range(called) \subseteq Range(called')
    BY <1>3, <1>5 DEF Range
  <2>3. h \in Range(called')
    BY <1>3, <1>5 DEF Range
  <2> QED
    BY <2>1, <2>2, <2>3
<1> QED
  BY <1>1, <1>2, <1>6

\* The call goes further in, past the link reached.
LEMMA ProceedsReach ==
  ASSUME ReachInv, Chain!BeforeProceeds \/ Chain!AfterProceeds
  PROVE  ReachOK'
<1> PICK p : p = pos
  OBVIOUS
<1>1. /\ Chain!Inward /\ Chain!Inward' /\ p \in DOMAIN chain /\ pos' = p + 1
      /\ UNCHANGED <<call, chain, outcome, received>>
  BY ChainNames DEF Chain!BeforeProceeds, Chain!AfterProceeds, Chain!Inward, Chain!AtLink,
     Chain!Pending, Chain!Nobody
<1>2. CallOK /\ chain \in Seq(Indices) /\ InwardOK /\ ReachOK
  BY <1>1 DEF ReachInv, IInv, ChainOK, ReachOK
<1>3. p \in Nat /\ 0 < p /\ p + 1 \in 0..(Len(chain) + 1) /\ (p + 1) - 1 = p
  BY <1>1, <1>2
<1>4. PassedUpTo(p) /\ Range(called) = BeforeUpTo(p - 1) /\ AssignedUpTo(passed, p) /\ received = Nobody
  BY <1>2 DEF InwardOK
<1>5. PassedUpTo(p + 1) /\ Range(called') = BeforeUpTo(p) /\ AssignedUpTo(passed', p + 1)
      /\ passed' \in Authors \ {Nobody}
  <2>1. CASE Chain!BeforeProceeds
    <3>1. /\ TypeOf(chain[p]) = "BEFORE" /\ ~Ends(chain[p])
          /\ called' = Append(called, chain[p])
          /\ Does(chain[p], "assign") => passed' = chain[p]
          /\ ~Does(chain[p], "assign") => passed' = passed
      BY <2>1, ChainNames DEF Chain!BeforeProceeds, Chain!AtLink
    <3>2. chain[p] \in Indices /\ Range(called') = Range(called) \cup {chain[p]}
      BY <1>1, <3>1, CalledGrows
    <3>3. AssignedUpTo(passed', p + 1)
      <4>1. CASE Does(chain[p], "assign")
        <5>1. AssignedUpTo(chain[p], p + 1)
          BY <1>1, <1>2, <1>4, <3>1, <4>1, AssignedFurther
        <5> QED
          BY <3>1, <4>1, <5>1
      <4>2. CASE ~Does(chain[p], "assign")
        <5>1. AssignedUpTo(passed, p + 1)
          BY <1>1, <1>2, <1>4, <3>1, <4>2, AssignedFurther
        <5> QED
          BY <3>1, <4>2, <5>1
      <4> QED
        BY <4>1, <4>2
    <3>4. passed' \in Authors \ {Nobody}
      BY <1>2, <3>1, <3>2, Numbers DEF ReachOK
    <3>5. PassedUpTo(p + 1) /\ BeforeUpTo(p) = BeforeUpTo(p - 1) \cup {chain[p]}
      BY <1>1, <1>2, <1>3, <1>4, <3>1, LinkFurther
    <3> QED
      BY <1>4, <3>2, <3>3, <3>4, <3>5
  <2>2. CASE Chain!AfterProceeds
    <3>1. TypeOf(chain[p]) = "AFTER" /\ UNCHANGED <<called, passed>>
      BY <2>2, ChainNames DEF Chain!AfterProceeds, Chain!AtLink
    <3>2. PassedUpTo(p + 1) /\ BeforeUpTo(p) = BeforeUpTo(p - 1)
      BY <1>1, <1>2, <1>3, <1>4, <3>1, LinkFurther
    <3>3. AssignedUpTo(passed, p + 1)
      BY <1>1, <1>2, <1>4, <3>1, AssignedFurther
    <3>4. AssignedUpTo(passed', p + 1) /\ passed' \in Authors \ {Nobody}
      BY <1>2, <3>1, <3>3 DEF ReachOK
    <3> QED
      BY <1>4, <3>1, <3>2, <3>4
  <2> QED
    BY <2>1, <2>2
<1>6. Nobody' = Nobody /\ Original' = Original /\ Authors' = Authors /\ Outcome' = Outcome
  BY DEF Nobody, Original, Authors, Outcome
<1>7. InwardOK'
  <2>1. PassedUpTo(p + 1)' /\ BeforeUpTo(p)' = BeforeUpTo(p)
    BY <1>1, <1>5, SameChain
  <2>2. AssignedUpTo(passed, p + 1)'
    BY <1>1, <1>5, SameChain
  <2>3. BeforeUpTo(pos - 1)' = BeforeUpTo(p)'
    BY <1>1, <1>3
  <2> QED
    BY <1>1, <1>3, <1>4, <1>5, <1>6, <2>1, <2>2, <2>3 DEF InwardOK
<1> QED
  BY <1>1, <1>2, <1>3, <1>5, <1>6, <1>7 DEF ReachOK

\* There is no link between neighbours.
LEMMA NoneBetween ==
  ASSUME chain \in Seq(Indices), NEW t \in Nat
  PROVE  AfterBetween(t - 1, t) = {}
<1>1. \A b \in DOMAIN chain : ~(t - 1 < b /\ b < t)
  OBVIOUS
<1> QED
  BY <1>1 DEF AfterBetween

\* The call turns: at the original, or at a BEFORE callback that ends it.
LEMMA TurnsReach ==
  ASSUME ReachInv, Chain!BeforeEnds \/ Chain!RunOriginal
  PROVE  ReachOK'
<1> PICK p : p = pos
  OBVIOUS
<1>1. Chain!Inward /\ pos' = p - 1 /\ UNCHANGED <<call, chain, passed>>
  BY DEF Chain!BeforeEnds, Chain!RunOriginal
<1>2. CallOK /\ chain \in Seq(Indices) /\ InwardOK /\ ReachOK
  BY <1>1 DEF ReachInv, IInv, ChainOK, ReachOK
<1>3. p \in 1..(Len(chain) + 1) /\ pos' \in 0..(Len(chain) + 1) /\ pos' < p /\ p \in Nat
  BY <1>1, <1>2 DEF InwardOK, ReachOK
<1>4. PassedUpTo(p) /\ Range(called) = BeforeUpTo(p - 1) /\ AssignedUpTo(passed, p) /\ received = Nobody
  BY <1>2 DEF InwardOK
<1>5. Nobody' = Nobody /\ Original' = Original /\ Authors' = Authors /\ Outcome' = Outcome
  BY DEF Nobody, Original, Authors, Outcome
<1>6. /\ Range(called') = BeforeUpTo(p)
      /\ received' \in Authors /\ outcome' \in Outcome /\ outcome'.by # Nobody /\ outcome' # Pending
      /\ p = Len(chain) + 1 => received' # Nobody /\ received' = passed
      /\ p # Len(chain) + 1 =>
           received' = Nobody /\ TypeOf(chain[p]) = "BEFORE" /\ Ends(chain[p])
  <2>1. CASE Chain!BeforeEnds
    <3>1. /\ p \in DOMAIN chain /\ TypeOf(chain[p]) = "BEFORE" /\ Ends(chain[p])
          /\ called' = Append(called, chain[p]) /\ UNCHANGED received
          /\ outcome' = Exception(chain[p]) \/ outcome' = Result(chain[p])
      BY <2>1, ChainNames DEF Chain!BeforeEnds, Chain!AtLink
    <3>2. chain[p] \in Indices /\ Range(called') = Range(called) \cup {chain[p]}
      BY <3>1, CalledGrows
    <3>3. BeforeUpTo(p) = BeforeUpTo(p - 1) \cup {chain[p]}
      BY <1>2, <1>3, <3>1, LinkFurther
    <3>4. outcome' \in Outcome /\ outcome'.by # Nobody /\ outcome' # Pending
      BY <1>2, <3>1, <3>2, OutcomesOK
    <3>5. p # Len(chain) + 1
      BY <1>2, <3>1
    <3> QED
      BY <1>2, <1>4, <3>1, <3>2, <3>3, <3>4, <3>5 DEF ReachOK
  <2>2. CASE Chain!RunOriginal
    <3>1. /\ p = Len(chain) + 1 /\ outcome' = OriginalOutcome /\ received' = passed /\ UNCHANGED called
      BY <2>2, ChainNames DEF Chain!RunOriginal
    <3>2. BeforeUpTo(p) = BeforeUpTo(p - 1)
      <4>1. \A b \in DOMAIN chain : b <= p <=> b <= p - 1
        BY <1>2, <3>1
      <4> QED
        BY <4>1 DEF BeforeUpTo
    <3>3. outcome' \in Outcome /\ outcome'.by # Nobody /\ outcome' # Pending
      BY <3>1, OutcomesOK
    <3>4. passed \in Authors /\ passed # Nobody
      BY <1>2 DEF ReachOK
    <3> QED
      BY <1>4, <3>1, <3>2, <3>3, <3>4
  <2> QED
    BY <2>1, <2>2
<1>7. ~Chain!Inward'
  <2>1. Chain!Pending' = Pending
    BY ChainNames DEF Chain!Pending, Chain!Nobody, Pending, Nobody
  <2> QED
    BY <1>6, <2>1 DEF Chain!Inward
<1>8. TurnedAt(p)'
  <2>1. AfterBetween(p - 1, p) = {}
    BY <1>2, <1>3, NoneBetween
  <2>2. AfterBetween(pos, p)' = {}
    <3>1. AfterBetween(p - 1, p)' = AfterBetween(p - 1, p)
      BY <1>1, SameChain
    <3>2. AfterBetween(pos, p)' = AfterBetween(p - 1, p)'
      BY <1>1
    <3> QED
      BY <2>1, <3>1, <3>2
  <2>3. PassedUpTo(p)' /\ BeforeUpTo(p)' = BeforeUpTo(p) /\ (Ends(chain[p])' <=> Ends(chain[p]))
        /\ TypeOf(chain[p])' = TypeOf(chain[p])
    BY <1>1, <1>4, SameChain, SameCall
  <2>4. p = Len(chain) + 1 => AssignedUpTo(received, p)'
    <3>1. AssignedUpTo(passed, p)'
      BY <1>1, <1>4, SameChain
    <3> QED
      BY <1>1, <1>6, <3>1
  <2> QED
    BY <1>1, <1>3, <1>5, <1>6, <2>2, <2>3, <2>4 DEF TurnedAt
<1> QED
  BY <1>1, <1>2, <1>3, <1>5, <1>6, <1>7, <1>8 DEF ReachOK

\* The call comes further out, past the link reached.
LEMMA ReturnsReach ==
  ASSUME ReachInv, Chain!BeforeReturns \/ Chain!AfterReturns
  PROVE  ReachOK'
<1> PICK p : p = pos
  OBVIOUS
<1>1. ~Chain!Inward /\ p \in DOMAIN chain /\ pos' = p - 1 /\ UNCHANGED <<call, chain, passed, received>>
  BY DEF Chain!BeforeReturns, Chain!AfterReturns, Chain!AtLink
<1>2. CallOK /\ chain \in Seq(Indices) /\ ReachOK
  BY <1>1 DEF ReachInv, IInv, ChainOK
<1>3. PICK t \in 1..(Len(chain) + 1) : TurnedAt(t)
  BY <1>1, <1>2 DEF ReachOK
<1>4. p < t /\ p \in Nat /\ t \in Nat /\ pos' \in 0..(Len(chain) + 1) /\ pos' < t
  BY <1>1, <1>2, <1>3 DEF TurnedAt
<1>5. Nobody' = Nobody /\ Original' = Original /\ Authors' = Authors /\ Outcome' = Outcome
  BY DEF Nobody, Original, Authors, Outcome
<1>6. /\ Range(called') = BeforeUpTo(t) \cup AfterBetween(p - 1, t)
      /\ outcome' \in Outcome /\ outcome'.by # Nobody /\ outcome' # Pending
  <2>1. Range(called) = BeforeUpTo(t) \cup AfterBetween(p, t)
    BY <1>3 DEF TurnedAt
  <2>2. outcome \in Outcome /\ outcome.by # Nobody /\ outcome # Pending
    BY <1>1, <1>2, ChainNames DEF ReachOK, Chain!Inward
  <2>3. CASE Chain!BeforeReturns
    <3>1. TypeOf(chain[p]) = "BEFORE" /\ UNCHANGED <<called, outcome>>
      BY <2>3, ChainNames DEF Chain!BeforeReturns, Chain!AtLink
    <3>2. AfterBetween(p - 1, t) = AfterBetween(p, t)
      BY <1>1, <1>2, <1>4, <3>1, LinkFurther
    <3> QED
      BY <2>1, <2>2, <3>1, <3>2
  <2>4. CASE Chain!AfterReturns
    <3>1. /\ TypeOf(chain[p]) = "AFTER" /\ called' = Append(called, chain[p])
          /\ outcome' \in {Exception(chain[p]), Result(chain[p]), outcome}
      BY <2>4, ChainNames DEF Chain!AfterReturns, Chain!AtLink, Chain!AfterOutcome
    <3>2. chain[p] \in Indices /\ Range(called') = Range(called) \cup {chain[p]}
      BY <1>1, <3>1, CalledGrows
    <3>3. AfterBetween(p - 1, t) = AfterBetween(p, t) \cup {chain[p]}
      BY <1>1, <1>2, <1>4, <3>1, LinkFurther
    <3>4. outcome' \in Outcome /\ outcome'.by # Nobody /\ outcome' # Pending
      BY <1>2, <2>2, <3>1, <3>2, OutcomesOK
    <3> QED
      BY <2>1, <3>2, <3>3, <3>4
  <2> QED
    BY <2>3, <2>4
<1>7. ~Chain!Inward'
  <2>1. Chain!Pending' = Pending
    BY ChainNames DEF Chain!Pending, Chain!Nobody, Pending, Nobody
  <2> QED
    BY <1>6, <2>1 DEF Chain!Inward
<1>8. TurnedAt(t)'
  <2>1. AfterBetween(pos, t)' = AfterBetween(p - 1, t)
    <3>1. AfterBetween(p - 1, t)' = AfterBetween(p - 1, t)
      BY <1>1, SameChain
    <3> QED
      BY <1>1, <3>1
  <2>2. PassedUpTo(t)' /\ BeforeUpTo(t)' = BeforeUpTo(t)
    BY <1>1, <1>3, SameChain DEF TurnedAt
  <2>3. t = Len(chain) + 1 => received # Nobody /\ AssignedUpTo(received, t)'
    <3> SUFFICES ASSUME t = Len(chain) + 1 PROVE received # Nobody /\ AssignedUpTo(received, t)'
      OBVIOUS
    <3>1. received # Nobody /\ AssignedUpTo(received, t)
      BY <1>3 DEF TurnedAt
    <3> PICK r : r = received
      OBVIOUS
    <3>2. AssignedUpTo(r, t)'
      BY <1>1, <3>1, SameChain
    <3> QED
      BY <1>1, <3>1, <3>2
  <2>4. t # Len(chain) + 1 => received = Nobody /\ TypeOf(chain[t])' = "BEFORE" /\ Ends(chain[t])'
    <3> SUFFICES ASSUME t # Len(chain) + 1
                 PROVE  received = Nobody /\ TypeOf(chain[t])' = "BEFORE" /\ Ends(chain[t])'
      OBVIOUS
    <3>1. received = Nobody /\ TypeOf(chain[t]) = "BEFORE" /\ Ends(chain[t])
      BY <1>3 DEF TurnedAt
    <3> PICK h : h = chain[t]
      OBVIOUS
    <3>2. TypeOf(h)' = "BEFORE" /\ Ends(h)'
      BY <1>1, <3>1, SameChain, SameCall
    <3> QED
      BY <1>1, <3>1, <3>2
  <2> QED
    BY <1>1, <1>4, <1>5, <1>6, <2>1, <2>2, <2>3, <2>4 DEF TurnedAt
<1> QED
  BY <1>1, <1>2, <1>4, <1>5, <1>6, <1>7, <1>8 DEF ReachOK
\* A step of the other backend moves nothing under LSPosed.
LEMMA StillReach ==
  ASSUME ReachInv, UNCHANGED <<call, chain, pos, outcome, passed, received, called>>
  PROVE  ReachOK'
<1>1. Chain!Inward' <=> Chain!Inward
  BY DEF Chain!Inward, Chain!Pending, Chain!Nobody
<1>2. InwardOK' <=> InwardOK
  BY DEF InwardOK, PassedUpTo, BeforeUpTo, AssignedUpTo, Ends, TypeOf, Does, Nobody, Original
<1>3. \A t : TurnedAt(t)' <=> TurnedAt(t)
  BY DEF TurnedAt, PassedUpTo, BeforeUpTo, AfterBetween, AssignedUpTo, Ends, TypeOf, Does, Nobody, Original
<1> QED
  BY <1>1, <1>2, <1>3 DEF ReachInv, ReachOK, Outcome, Authors, Nobody

\* Every step keeps track of how far the call got.
LEMMA StepKeepsReach == ReachInv /\ [Next]_vars => ReachInv'
<1> SUFFICES ASSUME ReachInv, [Next]_vars PROVE ReachInv'
  OBVIOUS
<1>1. UNCHANGED <<call, chain>>
  BY ChainSteps
<1>2. IInv' /\ CallOK' /\ PlacesOK'
  BY <1>1, StepKeepsNested, SameCall, SameChain DEF ReachInv
<1>3. ReachOK'
  BY <1>1, ChainSteps, StillReach, ProceedsReach, TurnsReach, ReturnsReach
<1> QED
  BY <1>2, <1>3 DEF ReachInv

----
\* What comes of a call under LSPosed

\* What a callback that writes, in one way, makes of the call
Wrote(i) == IF Does(i, "throw") THEN Exception(i) ELSE Result(i)

\* One callback writes, in one way, and no result set counts where the original threw.
OneWrites ==
  /\ ~call.clinit
  /\ \A i, j \in Writers : i = j
  /\ \A i \in Writers :
       /\ ~(Does(i, "set") /\ Does(i, "throw"))
       /\ Before(i) \/ Does(i, "throw") \/ ~call.throws

\* No callback of a class initializer throws.
QuietClinit == call.clinit /\ \A i \in Indices : ~Does(i, "throw")

OutcomeOK ==
  ~Chain!Inward =>
    /\ OneWrites =>
         /\ \A i \in Range(called) : Writes(i) => outcome = Wrote(i)
         /\ (\A i \in Range(called) : ~Writes(i)) => outcome = OriginalOutcome
    /\ QuietClinit => outcome = OriginalOutcome

OutcomeInv == ReachInv /\ OutcomeOK

\* Who writes, and what, is decided by the call alone.
LEMMA SameWriters ==
  ASSUME UNCHANGED call
  PROVE  /\ OneWrites' <=> OneWrites
         /\ QuietClinit' <=> QuietClinit
         /\ \A i : Wrote(i)' = Wrote(i) /\ (Writes(i)' <=> Writes(i))
         /\ OriginalOutcome' = OriginalOutcome
<1>1. \A i : Writes(i)' <=> Writes(i)
  BY SameCall DEF Writes
<1>2. Writers' = Writers /\ \A i : Before(i)' <=> Before(i)
  BY <1>1, SameCall DEF Writers, Before
<1>3. OneWrites' <=> OneWrites
  BY <1>2, SameCall DEF OneWrites
<1>4. QuietClinit' <=> QuietClinit
  BY SameCall DEF QuietClinit
<1>5. OriginalOutcome' = OriginalOutcome
  BY DEF OriginalOutcome, Exception, Result, Original
<1>6. \A i : Wrote(i)' = Wrote(i)
  BY SameCall DEF Wrote, Exception, Result
<1> QED
  BY <1>1, <1>3, <1>4, <1>5, <1>6

\* A BEFORE callback that ends the call makes the outcome.
LEMMA BeforeEndsOutcome ==
  ASSUME OutcomeInv, Chain!BeforeEnds
  PROVE  OutcomeOK'
<1> PICK h : h = chain[pos]
  OBVIOUS
<1>1. /\ pos \in DOMAIN chain /\ Ends(h) /\ Chain!Inward
      /\ called' = Append(called, h) /\ UNCHANGED <<call, chain>>
      /\ outcome' = Wrote(h)
  BY ChainNames DEF Chain!BeforeEnds, Chain!AtLink, Wrote
<1>2. h \in Indices /\ Range(called') = Range(called) \cup {h}
  BY <1>1, CalledGrows DEF OutcomeInv
<1>3. Range(called) \subseteq Indices
  BY DEF OutcomeInv, ReachInv, IInv, CalledOK, Range
<1>4. Writes(h)
  BY <1>1 DEF Ends, Writes
<1>5. ASSUME OneWrites
      PROVE  /\ \A i \in Range(called') : Writes(i) => outcome' = Wrote(i)
             /\ ~\A i \in Range(called') : ~Writes(i)
  <2>1. \A i \in Range(called') : Writes(i) => i = h
    BY <1>2, <1>3, <1>4, <1>5 DEF OneWrites, Writers
  <2> QED
    BY <1>1, <1>2, <1>4, <2>1
<1>6. ~QuietClinit
  BY <1>1, <1>2 DEF Ends, QuietClinit
<1> QED
  BY <1>1, <1>5, <1>6, SameWriters DEF OutcomeOK

\* When the original is reached, no callback called so far writes.
LEMMA OriginalOutcomeKept ==
  ASSUME OutcomeInv, Chain!RunOriginal
  PROVE  OutcomeOK'
<1>1. /\ Chain!Inward /\ pos = Len(chain) + 1 /\ outcome' = OriginalOutcome
      /\ UNCHANGED <<call, chain, called>>
  BY ChainNames DEF Chain!RunOriginal
<1>2. PassedUpTo(pos) /\ Range(called) = BeforeUpTo(pos - 1) /\ chain \in Seq(Indices)
  BY <1>1 DEF OutcomeInv, ReachInv, ReachOK, InwardOK, IInv, ChainOK
<1>3. \A b \in DOMAIN chain : b < pos
  BY <1>1, <1>2
<1>4. \A i \in Range(called) : ~Ends(i)
  BY <1>2, <1>3 DEF PassedUpTo, BeforeUpTo
<1>5. OneWrites => \A i \in Range(called) : ~Writes(i)
  BY <1>4 DEF OneWrites, Ends, Writes
<1> QED
  BY <1>1, <1>5, SameWriters DEF OutcomeOK

\* An AFTER callback that writes makes the outcome, others leave it.
LEMMA AfterReturnsOutcome ==
  ASSUME OutcomeInv, Chain!AfterReturns
  PROVE  OutcomeOK'
<1> PICK h : h = chain[pos]
  OBVIOUS
<1>1. /\ pos \in DOMAIN chain /\ TypeOf(h) = "AFTER" /\ ~Chain!Inward
      /\ called' = Append(called, h) /\ UNCHANGED <<call, chain>>
  BY ChainNames DEF Chain!AfterReturns, Chain!AtLink
<1>2. /\ Does(h, "throw") => outcome' = Exception(h)
      /\ ~Does(h, "throw") /\ outcome.kind = "exception" => outcome' = outcome
      /\ ~Does(h, "throw") /\ outcome.kind # "exception" =>
           /\ Does(h, "set") /\ ~call.clinit => outcome' = Result(h)
           /\ ~(Does(h, "set") /\ ~call.clinit) => outcome' = outcome
  <2>1. outcome' = Chain!AfterOutcome(h)
    BY DEF Chain!AfterReturns
  <2> QED
    BY <2>1, ChainNames DEF Chain!AfterOutcome
<1>3. h \in Indices /\ Range(called') = Range(called) \cup {h}
  BY <1>1, CalledGrows DEF OutcomeInv
<1>4. Range(called) \subseteq Indices
  BY DEF OutcomeInv, ReachInv, IInv, CalledOK, Range
<1>5. h \notin Range(called)
  <2> SUFFICES ASSUME h \in Range(called) PROVE FALSE
    OBVIOUS
  <2>1. PICK k \in DOMAIN called : called[k] = h
    BY DEF Range
  <2>2. PICK a \in DOMAIN chain : chain[a] = h /\ pos < a
    BY <1>1, <2>1 DEF OutcomeInv, ReachInv, IInv, CalledOK
  <2>3. a = pos
    BY <1>1, <2>2 DEF OutcomeInv, ReachInv, PlacesOK
  <2>4. pos \in Int
    BY DEF OutcomeInv, ReachInv, IInv, CalledOK
  <2> QED
    BY <2>2, <2>3, <2>4
<1>6. /\ OneWrites =>
           /\ \A i \in Range(called) : Writes(i) => outcome = Wrote(i)
           /\ (\A i \in Range(called) : ~Writes(i)) => outcome = OriginalOutcome
      /\ QuietClinit => outcome = OriginalOutcome
  BY <1>1 DEF OutcomeInv, OutcomeOK
<1>7. ASSUME OneWrites
      PROVE  /\ \A i \in Range(called') : Writes(i) => outcome' = Wrote(i)
             /\ (\A i \in Range(called') : ~Writes(i)) => outcome' = OriginalOutcome
  <2>1. CASE Writes(h)
    <3>1. \A i \in Range(called) : ~Writes(i)
      BY <1>3, <1>4, <1>5, <1>7, <2>1 DEF OneWrites, Writers
    <3>2. outcome' = Wrote(h)
      <4>1. CASE Does(h, "throw")
        BY <1>2, <4>1 DEF Wrote
      <4>2. CASE ~Does(h, "throw")
        <5>1. Does(h, "set") /\ ~call.clinit /\ ~call.throws
          BY <1>1, <1>3, <1>7, <2>1, <4>2 DEF OneWrites, Writers, Writes, Before
        <5>2. outcome = Result(Original)
          BY <1>6, <1>7, <3>1, <5>1 DEF OriginalOutcome
        <5>3. outcome.kind # "exception"
          BY <5>2 DEF Result
        <5> QED
          BY <1>2, <4>2, <5>1, <5>3 DEF Wrote
      <4> QED
        BY <4>1, <4>2
    <3> QED
      BY <1>3, <2>1, <3>1, <3>2
  <2>2. CASE ~Writes(h)
    <3>1. outcome' = outcome
      BY <1>2, <2>2 DEF Writes
    <3> QED
      BY <1>3, <1>6, <1>7, <2>2, <3>1
  <2> QED
    BY <2>1, <2>2
<1>8. QuietClinit => outcome' = OriginalOutcome
  <2> SUFFICES ASSUME QuietClinit PROVE outcome' = outcome
    BY <1>6
  <2> QED
    BY <1>2, <1>3 DEF QuietClinit
<1> QED
  BY <1>1, <1>7, <1>8, SameWriters DEF OutcomeOK

\* Every step keeps the outcome that of the one writing callback, or the original.
LEMMA StepKeepsOutcome == OutcomeInv /\ [Next]_vars => OutcomeInv'
<1> SUFFICES ASSUME OutcomeInv, [Next]_vars PROVE OutcomeInv'
  OBVIOUS
<1>1. UNCHANGED <<call, chain>>
  BY ChainSteps
<1>2. ASSUME UNCHANGED <<outcome, called>> PROVE OutcomeOK'
  <2>1. Chain!Inward' <=> Chain!Inward
    BY <1>2 DEF Chain!Inward, Chain!Pending, Chain!Nobody
  <2> QED
    BY <1>1, <1>2, <2>1, SameWriters DEF OutcomeInv, OutcomeOK
<1>3. Chain!BeforeProceeds \/ Chain!AfterProceeds => OutcomeOK'
  BY DEF Chain!BeforeProceeds, Chain!AfterProceeds, Chain!Inward, Chain!Pending, Chain!Nobody, OutcomeOK
<1>4. Chain!BeforeReturns => OutcomeOK'
  BY <1>2 DEF Chain!BeforeReturns
<1>5. OutcomeOK'
  BY <1>2, <1>3, <1>4, ChainSteps, BeforeEndsOutcome, OriginalOutcomeKept, AfterReturnsOutcome
<1> QED
  BY <1>5, StepKeepsReach DEF OutcomeInv

\* A call starts without an outcome.
LEMMA InitOutcomeInv == Init => OutcomeInv
<1> SUFFICES ASSUME Init PROVE OutcomeInv
  OBVIOUS
<1>1. Chain!Inward
  BY DEF Init, Chain!InitChain, Chain!Inward
<1> QED
  BY <1>1, InitReachInv DEF OutcomeInv, OutcomeOK
----
\* What both backends do with a call

DispatchInv == LegacyInv /\ OutcomeInv

\* Both invariants hold of every reachable state.
LEMMA DispatchInvHolds == Spec => []DispatchInv
<1>1. Init => DispatchInv
  BY InitLegacyInv, InitOutcomeInv DEF DispatchInv
<1>2. DispatchInv /\ [Next]_vars => DispatchInv'
  BY StepKeepsLegacy, StepKeepsOutcome DEF DispatchInv
<1> QED
  BY <1>1, <1>2, PTL DEF Spec

\* The invariants give the types.
LEMMA TypedByInv == DispatchInv => TypeOK
<1> SUFFICES ASSUME DispatchInv PROVE TypeOK
  OBVIOUS
<1>1. Legacy!TypeOK
  BY LegacyNames DEF DispatchInv, LegacyInv, ParamOK, Legacy!TypeOK, Legacy!Indices, Indices,
     Legacy!Authors, Authors
<1>2. /\ ReachOK /\ chain \in Seq(Indices) /\ called \in Seq(Indices)
      /\ Chain!Inward <=> outcome = Pending
  BY ChainNames DEF DispatchInv, OutcomeInv, ReachInv, IInv, ChainOK, CalledOK, Chain!Inward
<1>3. /\ pos \in 0..(Len(chain) + 1)
      /\ outcome \in Outcome /\ (outcome = Pending <=> outcome.by = Nobody)
      /\ passed \in Authors \ {Nobody} /\ received \in Authors
  BY <1>2 DEF ReachOK
<1>4. pos = 0 => outcome # Pending
  BY <1>2 DEF ReachOK, InwardOK
<1>5. pos = Len(chain) + 1 => outcome = Pending
  <2> SUFFICES ASSUME outcome # Pending PROVE pos # Len(chain) + 1
    OBVIOUS
  <2>1. PICK t \in 1..(Len(chain) + 1) : pos < t
    BY <1>2 DEF ReachOK, TurnedAt
  <2> QED
    BY <1>2, <1>3, <2>1
<1>6. Chain!TypeOK
  BY <1>2, <1>3, <1>4, <1>5, ChainNames DEF Chain!TypeOK
<1> QED
  BY <1>1, <1>6 DEF TypeOK

\* The call has returned under LSPosed: it turned at a link.
LEMMA ChainReturns ==
  ASSUME DispatchInv, Returned
  PROVE  /\ ~Chain!Inward
         /\ Chain!ChainOutcome = outcome
         /\ chain \in Seq(Indices) /\ PlacesOK
         /\ \E t \in 1..(Len(chain) + 1) :
              /\ PassedUpTo(t)
              /\ Range(called) = BeforeUpTo(t) \cup AfterBetween(0, t)
              /\ t = Len(chain) + 1 => received # Nobody /\ AssignedUpTo(received, t)
              /\ t # Len(chain) + 1 =>
                   /\ t \in DOMAIN chain
                   /\ received = Nobody /\ TypeOf(chain[t]) = "BEFORE" /\ Ends(chain[t])
<1>1. ReachOK /\ pos = 0 /\ chain \in Seq(Indices) /\ PlacesOK
  BY DEF DispatchInv, OutcomeInv, ReachInv, IInv, ChainOK, Returned
<1>2. ~Chain!Inward
  BY <1>1 DEF ReachOK, InwardOK
<1>3. PICK t \in 1..(Len(chain) + 1) : TurnedAt(t)
  BY <1>1, <1>2 DEF ReachOK
<1>4. t # Len(chain) + 1 => t \in DOMAIN chain
  BY <1>1
<1>5. /\ PassedUpTo(t)
      /\ Range(called) = BeforeUpTo(t) \cup AfterBetween(0, t)
      /\ t = Len(chain) + 1 => received # Nobody /\ AssignedUpTo(received, t)
      /\ t # Len(chain) + 1 =>
           received = Nobody /\ TypeOf(chain[t]) = "BEFORE" /\ Ends(chain[t])
  BY <1>1, <1>3 DEF TurnedAt
<1>6. Chain!ChainOutcome = outcome
  BY <1>1 DEF Chain!ChainOutcome
<1> QED
  BY <1>1, <1>2, <1>4, <1>5, <1>6

\* A class initializer's outcome is the original's.
LEMMA ClinitByInv == DispatchInv => ClinitUntouched
<1> SUFFICES ASSUME DispatchInv, Returned, call.clinit
             PROVE  /\ Legacy!LegacyOutcome = OriginalOutcome
                    /\ seen # Nobody
                    /\ (\A i \in Indices : ~Does(i, "throw")) =>
                         Chain!ChainOutcome = OriginalOutcome /\ received # Nobody
  BY DEF ClinitUntouched
<1>1. /\ seen # Nobody
      /\ param = IF call.throws THEN Legacy!WithThrowable(Original) ELSE Legacy!WithResult(Original)
  BY DEF DispatchInv, LegacyInv, ClinitOK, Returned
<1>2. Legacy!LegacyOutcome = OriginalOutcome
  <2>1. /\ param.throwable # Nobody => Legacy!LegacyOutcome = Exception(param.throwable)
        /\ param.throwable = Nobody => Legacy!LegacyOutcome = Result(param.result)
    BY LegacyReturns DEF DispatchInv, Returned
  <2>2. CASE call.throws
    <3>1. param.throwable = Original
      BY <1>1, <2>2 DEF Legacy!WithThrowable
    <3> QED
      BY <2>1, <2>2, <3>1, Numbers DEF OriginalOutcome
  <2>3. CASE ~call.throws
    <3>1. param.throwable = Nobody /\ param.result = Original
      BY <1>1, <2>3, LegacyNames DEF Legacy!WithResult
    <3> QED
      BY <2>1, <2>3, <3>1 DEF OriginalOutcome
  <2> QED
    BY <2>2, <2>3
<1>3. ASSUME \A i \in Indices : ~Does(i, "throw")
      PROVE  Chain!ChainOutcome = OriginalOutcome /\ received # Nobody
  <2>1. outcome = OriginalOutcome /\ Chain!ChainOutcome = outcome
    BY <1>3, ChainReturns DEF DispatchInv, OutcomeInv, OutcomeOK, QuietClinit
  <2>2. \A a \in DOMAIN chain : ~Ends(chain[a])
    BY <1>3, ChainReturns DEF Ends
  <2>3. received # Nobody
    BY <2>2, ChainReturns
  <2> QED
    BY <2>1, <2>3
<1> QED
  BY <1>1, <1>2, <1>3

\* The types of both calls, for any hooks
THEOREM DispatchTyped == Spec => []TypeOK
BY DispatchInvHolds, TypedByInv, PTL

\* For any hooks: a class initializer runs, and its outcome reaches the class
\* loader whatever results callbacks set.  (Xposed.kt 170-182, LSPosed.kt 161,
\* 425, 445)
THEOREM ClinitRuns == Spec => []ClinitUntouched
BY DispatchInvHolds, ClinitByInv, PTL
----
\* Who is called, under both backends

\* The order of HookedMember.handles is strict.
LEMMA PrecedesOrders ==
  ASSUME CallOK
  PROVE  /\ \A i \in Indices : ~Precedes(i, i)
         /\ \A i, j \in Indices : Precedes(i, j) => ~Precedes(j, i)
         /\ \A i, j, k \in Indices : Precedes(i, j) /\ Precedes(j, k) => Precedes(i, k)
<1>1. \A i \in Indices : i \in Int /\ call.hooks[i].priority \in Int
  BY BoundsAssumption DEF CallOK, HooksOK, InIntRange
<1>2. \A i \in Indices : ~Precedes(i, i)
  BY <1>1 DEF Precedes, Legacy!Precedes
<1>3. \A i, j \in Indices : Precedes(i, j) => ~Precedes(j, i)
  BY <1>1 DEF Precedes, Legacy!Precedes
<1>4. \A i, j, k \in Indices : Precedes(i, j) /\ Precedes(j, k) => Precedes(i, k)
  BY <1>1 DEF Precedes, Legacy!Precedes
<1> QED
  BY <1>2, <1>3, <1>4

\* How often an element occurs in a sequence that has none twice
LEMMA Occurrences ==
  ASSUME NEW S, NEW s \in Seq(S), \A k, l \in DOMAIN s : k < l => s[k] # s[l], NEW x
  PROVE  Cardinality({k \in DOMAIN s : s[k] = x}) = IF x \in Range(s) THEN 1 ELSE 0
<1>1. CASE x \in Range(s)
  <2>1. PICK k \in DOMAIN s : s[k] = x
    BY <1>1 DEF Range
  <2>2. \A l \in DOMAIN s : s[l] = x => l = k
    BY <2>1
  <2>3. {l \in DOMAIN s : s[l] = x} = {k}
    BY <2>1, <2>2
  <2> QED
    BY <1>1, <2>3, FS_Singleton
<1>2. CASE x \notin Range(s)
  <2>1. {l \in DOMAIN s : s[l] = x} = {}
    BY <1>2 DEF Range
  <2> QED
    BY <1>2, <2>1, FS_EmptySet
<1> QED
  BY <1>1, <1>2

\* The legacy backend calls what no callback of the phase cut off, once.
LEMMA LegacyCalls ==
  ASSUME LegacyInv, at = "returned", ~call.clinit
  PROVE  /\ \A k, l \in DOMAIN ran : k < l => ran[k] # ran[l]
         /\ \A i \in Indices :
              i \in Range(ran) <=>
                ~\E j \in Indices : TypeOf(j) = TypeOf(i) /\ Does(j, "throw") /\ Precedes(j, i)
<1>1. /\ CallOK /\ ran \in Seq(Indices) /\ todo = <<>>
      /\ \A k, l \in DOMAIN ran :
           k < l /\ TypeOf(ran[k]) = TypeOf(ran[l]) =>
             Precedes(ran[k], ran[l]) /\ ~Does(ran[k], "throw")
      /\ \A i \in Indices : Begun(TypeOf(i)) => i \in Range(ran) \cup Range(todo) \/ CutOff(i)
  BY DEF LegacyInv, ParamOK, RanOK
<1>2. Range(todo) = {} /\ Range(ran) \subseteq Indices
  BY <1>1 DEF Range
<1>3. \A i \in Indices : i \in Range(ran) \/ CutOff(i)
  <2>1. \A i \in Indices : Begun(TypeOf(i))
    BY DEF Begun
  <2> QED
    BY <1>1, <1>2, <2>1
<1>4. \A k, l \in DOMAIN ran : k < l => ran[k] # ran[l]
  BY <1>1, PrecedesOrders
<1>5. ASSUME NEW i \in Indices, i \notin Range(ran)
      PROVE  \E j \in Indices : TypeOf(j) = TypeOf(i) /\ Does(j, "throw") /\ Precedes(j, i)
  BY <1>2, <1>3, <1>5 DEF CutOff
<1>6. ASSUME NEW i \in Indices, i \in Range(ran),
             NEW j \in Indices, TypeOf(j) = TypeOf(i), Does(j, "throw"), Precedes(j, i)
      PROVE  FALSE
  <2>1. PICK m \in Range(ran) : TypeOf(m) = TypeOf(i) /\ Does(m, "throw") /\ Precedes(m, i)
    <3>1. CASE j \in Range(ran)
      BY <1>6, <3>1
    <3>2. CASE j \notin Range(ran)
      <4>1. PICK m \in Range(ran) : TypeOf(m) = TypeOf(j) /\ Does(m, "throw") /\ Precedes(m, j)
        BY <1>3, <3>2 DEF CutOff
      <4>2. Precedes(m, i)
        BY <1>1, <1>2, <1>6, <4>1, PrecedesOrders
      <4> QED
        BY <1>6, <4>1, <4>2
    <3> QED
      BY <3>1, <3>2
  <2>2. PICK k \in DOMAIN ran, l \in DOMAIN ran : ran[k] = m /\ ran[l] = i
    BY <1>6, <2>1 DEF Range
  <2>3. k \in Int /\ l \in Int
    BY <1>1
  <2>4. ~Precedes(i, m) /\ ~Precedes(i, i)
    BY <1>1, <1>2, <1>6, <2>1, PrecedesOrders
  <2>5. k # l
    BY <2>1, <2>2, <2>4
  <2>6. ~(k < l) /\ ~(l < k)
    BY <1>1, <2>1, <2>2, <2>4
  <2> QED
    BY <2>3, <2>5, <2>6
<1> QED
  BY <1>4, <1>5, <1>6

\* LSPosed calls what no BEFORE callback further out kept the call from, once.
LEMMA ChainCalls ==
  ASSUME DispatchInv, Returned, ~call.clinit
  PROVE  /\ \A k, l \in DOMAIN called : k < l => called[k] # called[l]
         /\ \A i \in Indices :
              i \in Range(called) <=>
                ~\E k, l \in DOMAIN chain :
                   k < l /\ chain[l] = i /\ Before(chain[k]) /\ Writes(chain[k])
<1>1. /\ chain \in Seq(Indices) /\ called \in Seq(Indices) /\ NestedOK
      /\ \A a, b \in DOMAIN chain : chain[a] = chain[b] => a = b
      /\ \A i \in Indices : \E a \in DOMAIN chain : chain[a] = i
      /\ \A i \in Indices : TypeOf(i) \in Types
  BY DEF DispatchInv, OutcomeInv, ReachInv, IInv, ChainOK, CalledOK, PlacesOK, HooksOK
<1>2. DOMAIN chain = 1..Len(chain) /\ Len(chain) \in Nat /\ DOMAIN chain \subseteq Int
  BY <1>1
<1>3. PICK t \in 1..(Len(chain) + 1) :
        /\ PassedUpTo(t)
        /\ Range(called) = BeforeUpTo(t) \cup AfterBetween(0, t)
        /\ t # Len(chain) + 1 =>
             t \in DOMAIN chain /\ TypeOf(chain[t]) = "BEFORE" /\ Ends(chain[t])
  BY ChainReturns
<1>4. \A i : Ends(i) <=> Writes(i)
  BY DEF Ends, Writes
<1>5. ASSUME NEW k \in DOMAIN called, NEW l \in DOMAIN called, k < l PROVE called[k] # called[l]
  <2> SUFFICES ASSUME called[k] = called[l] PROVE FALSE
    OBVIOUS
  <2>1. PICK a, b \in DOMAIN chain :
          /\ chain[a] = called[k] /\ chain[b] = called[l]
          /\ TypeOf(called[k]) = "BEFORE" => a < b
          /\ TypeOf(called[k]) = "AFTER" => b < a
    BY <1>1, <1>5 DEF NestedOK
  <2>2. a = b /\ a \in Int
    BY <1>1, <1>2, <2>1
  <2>3. TypeOf(called[k]) \in Types
    BY <1>1
  <2> QED
    BY <2>1, <2>2, <2>3 DEF Types
<1>6. ASSUME NEW l \in DOMAIN chain
      PROVE  chain[l] \in Range(called) <=>
               ~\E k \in DOMAIN chain : k < l /\ Before(chain[k]) /\ Writes(chain[k])
  <2>1. chain[l] \in Range(called) <=>
          \/ TypeOf(chain[l]) = "BEFORE" /\ l <= t
          \/ TypeOf(chain[l]) = "AFTER" /\ 0 < l /\ l < t
    BY <1>1, <1>3 DEF BeforeUpTo, AfterBetween
  <2>2. 0 < l /\ l \in Int /\ t \in Int /\ TypeOf(chain[l]) \in Types
    BY <1>1, <1>2, <1>3
  <2>3. ASSUME chain[l] \in Range(called), NEW k \in DOMAIN chain, k < l, Before(chain[k]), Writes(chain[k])
        PROVE  FALSE
    <3>1. k < t
      BY <1>2, <2>1, <2>2, <2>3
    <3> QED
      BY <1>3, <1>4, <2>3, <3>1 DEF PassedUpTo, Before
  <2>4. ASSUME chain[l] \notin Range(called)
        PROVE  \E k \in DOMAIN chain : k < l /\ Before(chain[k]) /\ Writes(chain[k])
    <3>1. t <= l /\ (TypeOf(chain[l]) = "BEFORE" => t < l)
      BY <2>1, <2>2, <2>4 DEF Types
    <3>2. t \in DOMAIN chain /\ TypeOf(chain[t]) = "BEFORE" /\ Ends(chain[t])
      BY <1>2, <1>3, <3>1
    <3>3. t < l
      BY <2>2, <3>1, <3>2
    <3> QED
      BY <1>4, <3>2, <3>3 DEF Before
  <2> QED
    BY <2>3, <2>4
<1>7. ASSUME NEW i \in Indices
      PROVE  i \in Range(called) <=>
               ~\E k, l \in DOMAIN chain :
                  k < l /\ chain[l] = i /\ Before(chain[k]) /\ Writes(chain[k])
  <2>1. PICK l \in DOMAIN chain : chain[l] = i
    BY <1>1
  <2>2. \A m \in DOMAIN chain : chain[m] = i => m = l
    BY <1>1, <2>1
  <2> QED
    BY <1>6, <2>1, <2>2
<1> QED
  BY <1>5, <1>7

\* Both counts are one, or zero when cut off.
LEMMA CalledOnceByInv == DispatchInv => CalledOnceOrCutOff
<1> SUFFICES ASSUME DispatchInv, Returned, ~call.clinit, NEW i \in Indices
             PROVE  /\ Cardinality({k \in DOMAIN called : called[k] = i}) =
                         IF \E k, l \in DOMAIN chain :
                              k < l /\ chain[l] = i /\ Before(chain[k]) /\ Writes(chain[k])
                         THEN 0 ELSE 1
                    /\ Cardinality({k \in DOMAIN ran : ran[k] = i}) =
                         IF \E j \in OfType(TypeOf(i)) : Does(j, "throw") /\ Legacy!Precedes(j, i)
                         THEN 0 ELSE 1
  BY DEF CalledOnceOrCutOff
<1>1. LegacyInv /\ at = "returned" /\ called \in Seq(Indices) /\ ran \in Seq(Indices)
  BY DEF DispatchInv, LegacyInv, ParamOK, OutcomeInv, ReachInv, IInv, CalledOK, Returned
<1>2. Cardinality({k \in DOMAIN called : called[k] = i}) = IF i \in Range(called) THEN 1 ELSE 0
  BY <1>1, ChainCalls, Occurrences
<1>3. Cardinality({k \in DOMAIN ran : ran[k] = i}) = IF i \in Range(ran) THEN 1 ELSE 0
  BY <1>1, LegacyCalls, Occurrences
<1>4. i \in Range(called) <=>
        ~\E k, l \in DOMAIN chain :
           k < l /\ chain[l] = i /\ Before(chain[k]) /\ Writes(chain[k])
  BY ChainCalls
<1>5. i \in Range(ran) <=> ~\E j \in OfType(TypeOf(i)) : Does(j, "throw") /\ Legacy!Precedes(j, i)
  BY <1>1, LegacyCalls DEF OfType, Precedes
<1> QED
  BY <1>2, <1>3, <1>4, <1>5

\* For any hooks: no callback is called twice, LSPosed leaves out exactly what is
\* further in than the outermost BEFORE hook that ends the call, and the legacy
\* backend exactly what comes after one that throws in its phase.
\* (Xposed.kt 87-94, LSPosed.kt 424-430)
THEOREM OnceOrCutOff == Spec => []CalledOnceOrCutOff
BY DispatchInvHolds, CalledOnceByInv, PTL
----
\* What the original sees, and what the caller gets, under both backends

\* If a BEFORE callback writes, each backend calls one that does; if none does,
\* each calls every BEFORE callback.
LEMMA BothSkip ==
  ASSUME DispatchInv, Returned, ~call.clinit
  PROVE  /\ seen = Nobody <=> \E i \in Writers : Before(i)
         /\ received = Nobody <=> \E i \in Writers : Before(i)
         /\ received # Nobody => AssignedUpTo(received, Len(chain) + 1)
<1>1. LegacyInv /\ at = "returned" /\ ran \in Seq(Indices) /\ SeenOK /\ CallOK
  BY DEF DispatchInv, LegacyInv, ParamOK, WrittenOK, ReturnedOK, Returned
<1>2. Range(ran) \subseteq Indices
  BY <1>1 DEF Range
<1>3. seen = Nobody <=> \E i \in Range(ran) : TypeOf(i) = "BEFORE" /\ Writes(i)
  BY <1>1 DEF SeenOK, Was, Writes
<1>4. ASSUME NEW i \in Writers, Before(i)
      PROVE  \E j \in Range(ran) : TypeOf(j) = "BEFORE" /\ Writes(j)
  <2>1. CASE i \in Range(ran)
    BY <1>4, <2>1 DEF Writers, Before
  <2>2. CASE i \notin Range(ran)
    <3>1. CutOff(i)
      <4>1. Begun(TypeOf(i)) /\ todo = <<>>
        BY <1>1 DEF Begun, LegacyInv, RanOK
      <4>2. Range(todo) = {}
        BY <4>1 DEF Range
      <4> QED
        BY <1>1, <1>4, <2>2, <4>1, <4>2 DEF LegacyInv, RanOK, Writers
    <3> QED
      BY <1>4, <3>1 DEF CutOff, Before, Writes
  <2> QED
    BY <2>1, <2>2
<1>5. seen = Nobody <=> \E i \in Writers : Before(i)
  BY <1>2, <1>3, <1>4 DEF Writers, Before
<1>6. /\ chain \in Seq(Indices)
      /\ \A i \in Indices : \E a \in DOMAIN chain : chain[a] = i
  BY ChainReturns DEF PlacesOK
<1>7. PICK t \in 1..(Len(chain) + 1) :
        /\ PassedUpTo(t)
        /\ t = Len(chain) + 1 => received # Nobody /\ AssignedUpTo(received, t)
        /\ t # Len(chain) + 1 =>
             t \in DOMAIN chain /\ received = Nobody /\ TypeOf(chain[t]) = "BEFORE" /\ Ends(chain[t])
  BY ChainReturns
<1>8. \A i : Ends(i) <=> Writes(i)
  BY DEF Ends, Writes
<1>9. CASE t = Len(chain) + 1
  <2>1. \A a \in DOMAIN chain : a < t
    BY <1>6, <1>9
  <2>2. \A a \in DOMAIN chain : ~(Before(chain[a]) /\ Writes(chain[a]))
    BY <1>7, <1>8, <2>1 DEF PassedUpTo, Before
  <2>3. ~\E i \in Writers : Before(i)
    BY <1>6, <2>2 DEF Writers
  <2> QED
    BY <1>5, <1>7, <1>9, <2>3
<1>10. CASE t # Len(chain) + 1
  <2>1. chain[t] \in Indices /\ Before(chain[t]) /\ Writes(chain[t]) /\ received = Nobody
    BY <1>6, <1>7, <1>8, <1>10 DEF Before
  <2> QED
    BY <1>5, <2>1 DEF Writers
<1> QED
  BY <1>9, <1>10

\* Both backends order two BEFORE hooks alike, unless LSPosed makes their priorities one.
LEMMA SameBeforeOrder ==
  ASSUME CallOK, ~call.clinit, NEW i \in Indices, NEW j \in Indices,
         TypeOf(i) = "BEFORE", TypeOf(j) = "BEFORE",
         Precedes(j, i), Chain!ChainPriority(i) >= Chain!ChainPriority(j)
  PROVE  Chain!ChainPriority(i) = Chain!ChainPriority(j)
<1> DEFINE p == call.hooks[i].priority
           q == call.hooks[j].priority
<1>1. InIntRange(p) /\ InIntRange(q)
  BY DEF CallOK, HooksOK
<1>2. p <= q
  <2>1. p \in Int /\ q \in Int
    BY <1>1 DEF InIntRange
  <2> QED
    BY <2>1 DEF Precedes, Legacy!Precedes
<1>3. /\ Chain!ChainPriority(i) = Normalized("BEFORE", p)
      /\ Chain!ChainPriority(j) = Normalized("BEFORE", q)
  BY DEF Chain!ChainPriority, TypeOf, Chain!TypeOf, Normalized, Chain!Normalized,
      Collapsed, Chain!Collapsed, Negated, Chain!Negated,
      IntMin, IntMax, Chain!IntMin, Chain!IntMax
<1>4. Normalized("BEFORE", p) <= Normalized("BEFORE", q)
  BY <1>1, <1>2, BeforeKeepsOrder
<1>5. Normalized("BEFORE", p) \in Int /\ Normalized("BEFORE", q) \in Int
  BY <1>1, NormalizedInRange DEF InIntRange, Types
<1> HIDE DEF p, q
<1> QED
  BY <1>3, <1>4, <1>5

\* Where the original runs under both, it is given the same argument.
LEMMA SameArgument ==
  ASSUME DispatchInv, Returned, ~call.clinit, ~\E i \in Writers : Before(i)
  PROVE  \/ seen = received
         \/ \E i, j \in OfType("BEFORE") :
              /\ Does(i, "assign") /\ Does(j, "assign") /\ i # j
              /\ Chain!ChainPriority(i) = Chain!ChainPriority(j)
<1>1. /\ LegacyInv /\ at = "returned" /\ ran \in Seq(Indices) /\ CallOK
      /\ chain \in Seq(Indices)
      /\ \A a, b \in DOMAIN chain : a < b => Chain!ChainPriority(chain[a]) >= Chain!ChainPriority(chain[b])
      /\ \A i \in Indices : \E a \in DOMAIN chain : chain[a] = i
  BY DEF DispatchInv, LegacyInv, ParamOK, Returned, OutcomeInv, ReachInv, IInv, ChainOK, PlacesOK
<1>2. Range(ran) \subseteq Indices /\ DOMAIN chain \subseteq Int /\ \A b \in DOMAIN chain : b < Len(chain) + 1
  BY <1>1 DEF Range
<1>3. seen # Nobody /\ received # Nobody
  BY BothSkip
<1>4. LastToAssign(seen)
  BY <1>1, <1>3 DEF LegacyInv, ArgsOK
<1>5. AssignedUpTo(received, Len(chain) + 1)
  BY <1>3, BothSkip
<1>6. \A i \in OfType("BEFORE") : i \in Range(ran)
  <2> SUFFICES ASSUME NEW i \in Indices, TypeOf(i) = "BEFORE" PROVE i \in Range(ran)
    BY DEF OfType
  <2>1. \A j \in Indices : TypeOf(j) = "BEFORE" => ~Does(j, "throw")
    BY DEF Writers, Before, Writes
  <2> QED
    BY <1>1, <2>1, LegacyCalls
<1>7. CASE received = Original
  <2>1. \A b \in DOMAIN chain : TypeOf(chain[b]) = "BEFORE" => ~Does(chain[b], "assign")
    BY <1>2, <1>5, <1>7 DEF AssignedUpTo
  <2>2. \A i \in Indices : TypeOf(i) = "BEFORE" => ~Does(i, "assign")
    BY <1>1, <2>1
  <2>3. seen = Original
    BY <1>2, <1>4, <2>2 DEF LastToAssign, Made
  <2> QED
    BY <1>7, <2>3
<1>8. CASE received # Original
  <2>1. PICK c \in DOMAIN chain :
          /\ chain[c] = received /\ TypeOf(received) = "BEFORE" /\ Does(received, "assign")
          /\ \A b \in DOMAIN chain :
               TypeOf(chain[b]) = "BEFORE" /\ Does(chain[b], "assign") => b <= c
    BY <1>2, <1>5, <1>8 DEF AssignedUpTo
  <2>2. received \in Indices /\ received \in OfType("BEFORE")
    BY <1>1, <2>1 DEF OfType
  <2>3. received \in Range(ran)
    BY <1>6, <2>2
  <2>4. /\ seen \in Range(ran) /\ TypeOf(seen) = "BEFORE" /\ Does(seen, "assign")
        /\ received # seen => Precedes(received, seen)
    BY <1>4, <2>1, <2>3 DEF LastToAssign, Made
  <2>5. seen \in Indices /\ seen \in OfType("BEFORE")
    BY <1>2, <2>4 DEF OfType
  <2>6. PICK b \in DOMAIN chain : chain[b] = seen
    BY <1>1, <2>5
  <2>7. b <= c
    BY <2>1, <2>4, <2>6
  <2>8. CASE b = c
    BY <2>1, <2>6, <2>8
  <2>9. CASE b # c /\ seen # received
    <3>1. b < c
      BY <1>2, <2>7, <2>9
    <3>2. Chain!ChainPriority(seen) >= Chain!ChainPriority(received)
      BY <1>1, <2>1, <2>6, <3>1
    <3>3. Chain!ChainPriority(seen) = Chain!ChainPriority(received)
      BY <1>1, <2>1, <2>2, <2>4, <2>5, <2>9, <3>2, SameBeforeOrder
    <3> QED
      BY <2>1, <2>2, <2>4, <2>5, <2>9, <3>3
  <2> QED
    BY <2>8, <2>9
<1> QED
  BY <1>7, <1>8

\* Both backends skip the original together.
LEMMA SameCallByInv == DispatchInv => SameOriginalCall
<1> SUFFICES ASSUME DispatchInv, Returned, ~call.clinit
             PROVE  /\ (seen = Nobody) = (\E i \in Writers : Before(i))
                    /\ (received = Nobody) = (\E i \in Writers : Before(i))
                    /\ \/ seen = received
                       \/ \E i, j \in OfType("BEFORE") :
                            /\ Does(i, "assign") /\ Does(j, "assign") /\ i # j
                            /\ Chain!ChainPriority(i) = Chain!ChainPriority(j)
  BY DEF SameOriginalCall
<1>1. /\ (seen = Nobody) = (\E i \in Writers : Before(i))
      /\ (received = Nobody) = (\E i \in Writers : Before(i))
  BY BothSkip
<1>2. CASE \E i \in Writers : Before(i)
  BY <1>1, <1>2
<1>3. CASE ~\E i \in Writers : Before(i)
  BY <1>1, <1>3, SameArgument
<1> QED
  BY <1>1, <1>2, <1>3

\* For any hooks: both backends call the original unless a BEFORE callback sets
\* a result or throws, and with the same argument unless LSPosed makes the
\* priorities of two that assign it one.  (Xposed.kt 87-97, LSPosed.kt 413-430)
THEOREM SameOriginal == Spec => []SameOriginalCall
BY DispatchInvHolds, SameCallByInv, PTL

\* A set of at most one
LEMMA AtMostOne ==
  ASSUME NEW S, IsFiniteSet(S), Cardinality(S) <= 1
  PROVE  \A x, y \in S : x = y
<1> SUFFICES ASSUME NEW x \in S, NEW y \in S, x # y PROVE FALSE
  OBVIOUS
<1>1. IsFiniteSet({x}) /\ Cardinality({x}) = 1
  BY FS_Singleton
<1>2. Cardinality({x} \cup {y}) = 2
  <2>1. y \notin {x}
    OBVIOUS
  <2>2. Cardinality({x} \cup {y}) = Cardinality({x}) + 1
    BY <1>1, <2>1, FS_AddElement
  <2> QED
    BY <1>1, <2>2
<1>3. {x} \cup {y} \in SUBSET S
  OBVIOUS
<1>4. Cardinality({x} \cup {y}) <= Cardinality(S)
  BY <1>3, FS_Subset
<1> QED
  BY <1>2, <1>4, FS_CardinalityType

\* Each backend calls the one callback that writes, and nothing else matters.
LEMMA WriterCalled ==
  ASSUME DispatchInv, Returned, OneWrites, NEW w \in Writers
  PROVE  w \in Range(ran) /\ w \in Range(called)
<1>1. LegacyInv /\ at = "returned" /\ CallOK /\ w \in Indices /\ ~call.clinit
      /\ \A i \in Indices : Writes(i) => i = w
  BY DEF DispatchInv, LegacyInv, Returned, Writers, OneWrites
<1>2. w \in Range(ran)
  <2> SUFFICES ASSUME NEW j \in Indices, Does(j, "throw"), Precedes(j, w) PROVE FALSE
    BY <1>1, LegacyCalls
  <2>1. j = w
    BY <1>1 DEF Writes
  <2> QED
    BY <1>1, <2>1, PrecedesOrders
<1>3. w \in Range(called)
  <2>1. chain \in Seq(Indices) /\ DOMAIN chain \subseteq Int
        /\ \A a, b \in DOMAIN chain : chain[a] = chain[b] => a = b
    BY ChainReturns DEF PlacesOK
  <2> SUFFICES ASSUME NEW k \in DOMAIN chain, NEW l \in DOMAIN chain, k < l,
                      chain[l] = w, Writes(chain[k])
               PROVE  FALSE
    BY <1>1, ChainCalls
  <2>2. k = l
    BY <1>1, <2>1
  <2> QED
    BY <2>1, <2>2
<1> QED
  BY <1>2, <1>3

\* What one writing callback makes of a call under the legacy backend
LEMMA LegacyWrote ==
  ASSUME DispatchInv, Returned, OneWrites, NEW w \in Writers
  PROVE  Legacy!LegacyOutcome = Wrote(w)
<1>1. /\ LegacyInv /\ ran \in Seq(Indices) /\ ReturnedOK /\ SeenOK
      /\ param.throwable # Nobody => Legacy!LegacyOutcome = Exception(param.throwable)
      /\ param.throwable = Nobody => Legacy!LegacyOutcome = Result(param.result)
      /\ param.throwable = Nobody => param.result # Nobody
  BY LegacyReturns DEF DispatchInv, LegacyInv, ParamOK, WrittenOK, ReturnedOK, Returned, OneWrites
<1>2. w \in Range(ran) /\ w \in Indices /\ Range(ran) \subseteq Indices
  BY <1>1, WriterCalled DEF Range, Writers
<1>3. /\ \A i \in Range(ran) : Writes(i) => i = w
      /\ ~(Does(w, "set") /\ Does(w, "throw"))
      /\ Before(w) \/ Does(w, "throw") \/ ~call.throws
  BY <1>2 DEF OneWrites, Writers
<1>4. /\ \A a, type : Made(a, type, "set") => a = w
      /\ \A a, type : Made(a, type, "throw") => a = w
      /\ \A type : Was(type, "set") <=> TypeOf(w) = type /\ Does(w, "set")
      /\ \A type : Was(type, "throw") <=> TypeOf(w) = type /\ Does(w, "throw")
  BY <1>2, <1>3 DEF Made, Was, Writes
<1>5. TypeOf(w) = "BEFORE" \/ TypeOf(w) = "AFTER"
  BY <1>1, <1>2 DEF LegacyInv, CallOK, HooksOK, Types
<1>6. Does(w, "set") \/ Does(w, "throw")
  BY DEF Writers, Writes
<1>7. CASE TypeOf(w) = "BEFORE"
  <2>1. seen = Nobody /\ ~Was("AFTER", "set") /\ ~Was("AFTER", "throw")
    BY <1>1, <1>4, <1>6, <1>7 DEF SeenOK
  <2>2. /\ param.throwable # Nobody <=> BaseThrown
        /\ BaseOK
    BY <1>1, <2>1 DEF ReturnedOK
  <2>3. /\ param.throwable # Nobody => param.throwable = w
        /\ param.result # Nobody => param.result = w
    BY <1>4, <2>1, <2>2 DEF BaseOK, Base
  <2>4. param.throwable # Nobody <=> Does(w, "throw")
    BY <1>3, <1>4, <1>7, <2>1, <2>2 DEF BaseThrown
  <2> QED
    BY <1>1, <2>3, <2>4 DEF Wrote
<1>8. CASE TypeOf(w) = "AFTER" /\ Does(w, "throw")
  <2>1. Was("AFTER", "throw") /\ ~Was("AFTER", "set")
    BY <1>3, <1>4, <1>8
  <2>2. param.throwable # Nobody /\ param.throwable = w
    BY <1>1, <1>4, <2>1 DEF ReturnedOK
  <2> QED
    BY <1>1, <1>8, <2>2 DEF Wrote
<1>9. CASE TypeOf(w) = "AFTER" /\ ~Does(w, "throw")
  <2>1. Was("AFTER", "set")
    BY <1>4, <1>6, <1>9
  <2>2. param.throwable = Nobody /\ param.result = w
    BY <1>1, <1>4, <2>1 DEF ReturnedOK
  <2> QED
    BY <1>1, <1>9, <2>2 DEF Wrote
<1> QED
  BY <1>5, <1>7, <1>8, <1>9

\* Without a writing callback the caller gets what the original made.
LEMMA LegacyUntouched ==
  ASSUME DispatchInv, Returned, ~call.clinit, \A i \in Indices : ~Writes(i)
  PROVE  Legacy!LegacyOutcome = OriginalOutcome
<1>1. /\ LegacyInv /\ ran \in Seq(Indices) /\ ReturnedOK /\ SeenOK
      /\ param.throwable # Nobody => Legacy!LegacyOutcome = Exception(param.throwable)
      /\ param.throwable = Nobody => Legacy!LegacyOutcome = Result(param.result)
      /\ param.throwable = Nobody => param.result # Nobody
  BY LegacyReturns DEF DispatchInv, LegacyInv, ParamOK, WrittenOK, ReturnedOK, Returned
<1>2. Range(ran) \subseteq Indices
  BY <1>1 DEF Range
<1>3. /\ \A a, type : ~Made(a, type, "set") /\ ~Made(a, type, "throw")
      /\ \A type : ~Was(type, "set") /\ ~Was(type, "throw")
  BY <1>2 DEF Made, Was, Writes
<1>4. seen # Nobody
  BY <1>1, <1>3 DEF SeenOK
<1>5. (param.throwable # Nobody <=> BaseThrown) /\ BaseOK
  BY <1>1, <1>3 DEF ReturnedOK
<1>6. /\ param.throwable # Nobody => param.throwable = Original
      /\ param.result # Nobody => param.result = Original
  BY <1>3, <1>5 DEF BaseOK, Base
<1>7. param.throwable # Nobody <=> call.throws
  BY <1>3, <1>4, <1>5 DEF BaseThrown
<1> QED
  BY <1>1, <1>6, <1>7 DEF OriginalOutcome

\* Both backends return what the one writing callback made, or the original.
LEMMA SameOutcomeByInv == DispatchInv => SameOutcome
<1> SUFFICES ASSUME DispatchInv, Returned, ~call.clinit, Cardinality(Writers) <= 1,
                    \A i \in Writers :
                      /\ ~(Does(i, "set") /\ Does(i, "throw"))
                      /\ Before(i) \/ Does(i, "throw") \/ ~call.throws
             PROVE  Legacy!LegacyOutcome = Chain!ChainOutcome
  BY DEF SameOutcome
<1>1. IsFiniteSet(Writers)
  <2>1. IsFiniteSet(1..MaxHooks)
    BY BoundsAssumption, FS_Interval
  <2>2. Writers \in SUBSET (1..MaxHooks)
    BY DEF Writers, DispatchInv, LegacyInv, CallOK
  <2> QED
    BY <2>1, <2>2, FS_Subset
<1>2. OneWrites
  <2>1. \A i, j \in Writers : i = j
    BY <1>1, AtMostOne
  <2> QED
    BY <2>1 DEF OneWrites
<1>3. /\ Chain!ChainOutcome = outcome
      /\ \A i \in Range(called) : Writes(i) => outcome = Wrote(i)
      /\ (\A i \in Range(called) : ~Writes(i)) => outcome = OriginalOutcome
  BY <1>2, ChainReturns DEF DispatchInv, OutcomeInv, OutcomeOK
<1>4. CASE \E w \in Writers : TRUE
  <2>1. PICK w \in Writers : TRUE
    BY <1>4
  <2>2. w \in Range(called) /\ Legacy!LegacyOutcome = Wrote(w)
    BY <1>2, WriterCalled, LegacyWrote
  <2> QED
    BY <1>3, <2>2 DEF Writers
<1>5. CASE ~\E w \in Writers : TRUE
  <2>1. \A i \in Indices : ~Writes(i)
    BY <1>5 DEF Writers
  <2>2. Range(called) \subseteq Indices
    BY DEF DispatchInv, OutcomeInv, ReachInv, IInv, CalledOK, Range
  <2> QED
    BY <1>3, <2>1, <2>2, LegacyUntouched
<1> QED
  BY <1>4, <1>5

\* For any hooks: module code that keeps to one writing callback, which does one
\* of the two, gets the same outcome to the caller under both backends, unless
\* it is an AFTER callback that sets a result where the original threw.
\* (Xposed.kt 95-97, LSPosed.kt 423-446)
THEOREM SameOutcomes == Spec => []SameOutcome
BY DispatchInvHolds, SameOutcomeByInv, PTL

----
\* Both backends keep the contract.  First the callbacks of a class initializer
\* under the legacy backend, which RanOK says nothing of: each is called once, or
\* still to be called, from its phase on.

ClinitRanOK ==
  call.clinit =>
    /\ \A i \in Indices : ~Does(i, "assign")
    /\ at \notin {"before", "after"} => todo = <<>>
    /\ \A i \in Range(todo) : Going(TypeOf(i))
    /\ \A i \in Range(ran) : Begun(TypeOf(i)) /\ i \notin Range(todo)
    /\ \A i, j \in DOMAIN todo : todo[i] = todo[j] => i = j
    /\ \A i \in Indices : Begun(TypeOf(i)) => i \in Range(ran) \cup Range(todo)

\* A phase begins: it has all callbacks of its type to call.
LEMMA StartClinit ==
  ASSUME LegacyInv, ClinitRanOK, NEW from, NEW to, NEW type, Legacy!StartPhase(from, to, type),
         \/ from = "beforeHooked" /\ to = "before" /\ type = "BEFORE"
         \/ from = "afterHooked" /\ to = "after" /\ type = "AFTER"
  PROVE  ClinitRanOK'
<1> SUFFICES ASSUME call.clinit' PROVE ClinitRanOK'
  BY DEF ClinitRanOK
<1>1. /\ at = from /\ at' = to /\ UNCHANGED <<call, ran>>
      /\ todo' \in Legacy!Orders(type)
  BY DEF Legacy!StartPhase
<1>2. call.clinit /\ CallOK /\ ParamOK /\ todo = <<>>
  BY <1>1 DEF LegacyInv, ClinitRanOK
<1>3. /\ Range(todo') = OfType(type)
      /\ \A i, j \in DOMAIN todo' : todo'[i] = todo'[j] => i = j
  BY <1>1, <1>2, OrdersOK
<1>4. /\ Indices' = Indices /\ \A i : TypeOf(i)' = TypeOf(i)
      /\ \A i, deed : Does(i, deed)' <=> Does(i, deed)
  BY <1>1, SameCall
<1>5. Range(todo) = {}
  BY <1>2 DEF Range
<1>6. \A i \in Indices : TypeOf(i) \in Types
  BY <1>2 DEF CallOK, HooksOK
<1>7. Range(ran) \subseteq Indices
  BY <1>2 DEF ParamOK, Range
<1>8. at' \in {"before", "after"}
  BY <1>1
<1>9. \A i \in Range(todo') : Going(TypeOf(i))'
  BY <1>1, <1>3, <1>4 DEF OfType, Going
<1>10. \A i \in Range(ran) : Begun(TypeOf(i)) /\ TypeOf(i) # type
  <2>1. \A i \in Range(ran) : Begun(TypeOf(i)) /\ TypeOf(i) \in Types
    BY <1>2, <1>6, <1>7 DEF ClinitRanOK
  <2>2. CASE at = "beforeHooked"
    BY <1>2, <2>2 DEF ParamOK, Range
  <2>3. CASE at = "afterHooked" /\ type = "AFTER"
    BY <2>1, <2>3 DEF Begun, Types
  <2> QED
    BY <1>1, <2>1, <2>2, <2>3
<1>11. \A i \in Range(ran) : Begun(TypeOf(i))' /\ i \notin Range(todo')
  BY <1>1, <1>3, <1>4, <1>10 DEF Begun, OfType
<1>12. \A i \in Indices : Begun(TypeOf(i))' => i \in Range(ran) \cup Range(todo')
  <2> SUFFICES ASSUME NEW i \in Indices, Begun(TypeOf(i))', TypeOf(i) # type
               PROVE  i \in Range(ran)
    BY <1>3 DEF OfType
  <2>1. Begun(TypeOf(i))
    BY <1>1, <1>4, <1>6 DEF Begun, Types
  <2> QED
    BY <1>2, <1>5, <2>1 DEF ClinitRanOK
<1> QED
  BY <1>1, <1>2, <1>3, <1>4, <1>8, <1>9, <1>11, <1>12 DEF ClinitRanOK

\* A callback is called.
LEMMA CallbackClinit ==
  ASSUME LegacyInv, ClinitRanOK, NEW phase \in {"before", "after"},
         Legacy!RunClinitCallback(phase)
  PROVE  ClinitRanOK'
<1> PICK h : h = Head(todo)
  OBVIOUS
<1>1. /\ call.clinit /\ todo # <<>> /\ at = phase
      /\ todo' = Tail(todo) /\ ran' = Append(ran, h)
      /\ UNCHANGED <<call, at>>
  BY DEF Legacy!RunClinitCallback
<1>2. todo \in Seq(Indices) /\ ran \in Seq(Indices)
  BY DEF LegacyInv, ParamOK
<1>3. /\ h = todo[1] /\ 1 \in DOMAIN todo /\ h \in Indices
      /\ \A k \in DOMAIN todo' : k + 1 \in DOMAIN todo /\ todo'[k] = todo[k + 1] /\ 1 < k + 1
      /\ Range(todo) = {h} \cup Range(todo')
  BY <1>1, <1>2, HeadTail
<1>4. Range(ran') = Range(ran) \cup {h}
  BY <1>1, <1>2, <1>3, RanGrows
<1>5. DOMAIN todo' \subseteq Nat
  BY <1>1, <1>2, HeadTail
<1>6. \A i, j \in DOMAIN todo' : todo'[i] = todo'[j] => i = j
  <2> SUFFICES ASSUME NEW i \in DOMAIN todo', NEW j \in DOMAIN todo', todo'[i] = todo'[j]
               PROVE  i = j
    OBVIOUS
  <2>1. i + 1 = j + 1
    BY <1>1, <1>3 DEF ClinitRanOK
  <2> QED
    BY <1>5, <2>1
<1>7. h \notin Range(todo')
  <2> SUFFICES ASSUME NEW k \in DOMAIN todo', todo'[k] = h PROVE FALSE
    BY DEF Range
  <2>1. k + 1 = 1
    BY <1>1, <1>3 DEF ClinitRanOK
  <2> QED
    BY <1>3, <1>5, <2>1
<1>8. /\ Indices' = Indices /\ \A i : TypeOf(i)' = TypeOf(i)
      /\ \A i, deed : Does(i, deed)' <=> Does(i, deed)
  BY <1>1, SameCall
<1>9. \A type : (Going(type)' <=> Going(type)) /\ (Begun(type)' <=> Begun(type))
  BY <1>1 DEF Going, Begun
<1>10. Begun(TypeOf(h))
  <2>1. Going(TypeOf(h))
    BY <1>1, <1>3 DEF ClinitRanOK
  <2> QED
    BY <2>1 DEF Going, Begun
<1> QED
  BY <1>1, <1>3, <1>4, <1>6, <1>7, <1>8, <1>9, <1>10 DEF ClinitRanOK

\* The rest of the call leaves both lists as they are.
LEMMA QuietClinitStep ==
  ASSUME LegacyInv, ClinitRanOK, UNCHANGED <<call, ran, todo>>,
         \/ UNCHANGED at
         \/ at = "before" /\ at' = "original" /\ todo = <<>>
         \/ at = "original" /\ at' = "afterHooked"
         \/ at = "after" /\ at' = "returned" /\ todo = <<>>
  PROVE  ClinitRanOK'
<1>1. /\ Indices' = Indices /\ \A i : TypeOf(i)' = TypeOf(i)
      /\ \A i, deed : Does(i, deed)' <=> Does(i, deed)
  BY SameCall
<1>2. CASE UNCHANGED at
  BY <1>1, <1>2 DEF ClinitRanOK, Going, Begun
<1>3. CASE ~UNCHANGED at
  <2>1. call.clinit => todo = <<>>
    BY <1>3 DEF ClinitRanOK
  <2>2. call.clinit => Range(todo) = {}
    BY <2>1 DEF Range
  <2>3. \A type : Begun(type)' <=> Begun(type)
    BY <1>3 DEF Begun
  <2> QED
    BY <1>1, <2>1, <2>2, <2>3 DEF ClinitRanOK
<1> QED
  BY <1>2, <1>3

\* Every step keeps count of the callbacks of a class initializer.
LEMMA StepKeepsClinitRan ==
  ASSUME LegacyInv, ClinitRanOK, [Next]_vars
  PROVE  ClinitRanOK'
<1>1. UNCHANGED <<call, legacyVars>> => ClinitRanOK'
  BY QuietClinitStep DEF legacyVars
<1>2. Legacy!EndPhase("before", "original") => ClinitRanOK'
  BY QuietClinitStep DEF Legacy!EndPhase
<1>3. Legacy!RunOriginal => ClinitRanOK'
  BY QuietClinitStep DEF Legacy!RunOriginal
<1>4. Legacy!EndPhase("after", "returned") => ClinitRanOK'
  BY QuietClinitStep DEF Legacy!EndPhase
<1>5. ASSUME NEW phase \in {"before", "after"}, Legacy!RunCallback(phase) PROVE ClinitRanOK'
  <2>1. ~call.clinit'
    BY <1>5 DEF Legacy!RunCallback
  <2> QED
    BY <2>1 DEF ClinitRanOK
<1> QED
  BY <1>1, <1>2, <1>3, <1>4, <1>5, LegacySteps, StartClinit, CallbackClinit

----
\* What a call may come to, by the callbacks called

\* A callback of the type wrote the outcome.
WroteIt(o, type, S) ==
  \E i \in S :
    /\ TypeOf(i) = type
    /\ \/ Does(i, "set") /\ ~call.clinit /\ o = Result(i)
       \/ Does(i, "throw") /\ o = Exception(i)

\* The call came to it before the AFTER callbacks, and they let it stay.
Turned(o, S, g) == IF g # Nobody THEN o = OriginalOutcome ELSE WroteIt(o, "BEFORE", S)
Stays(o, S) ==
  \/ \A i \in S : TypeOf(i) = "AFTER" => ~Ends(i)
  \/ o.kind = "exception" /\ \A i \in S : TypeOf(i) = "AFTER" => ~Does(i, "throw")
  \/ call.clinit

AnswerIn(o, S, g) == WroteIt(o, "AFTER", S) \/ (Turned(o, S, g) /\ Stays(o, S))

\* Such an outcome is one of the contract's, and a result is no exception.
LEMMA LegacyAnswersAre ==
  ASSUME Range(ran) \subseteq Indices, NEW o, AnswerIn(o, Range(ran), seen)
  PROVE  o \in LegacyContract!Answers
<1> DEFINE S == Range(ran)
           W(type) == LegacyContract!Written(type)
<1>1. /\ \A type : LegacyContract!Done(type) = {i \in S : TypeOf(i) = type}
      /\ \A i, deed : LegacyContract!Does(i, deed) <=> Does(i, deed)
      /\ \A i : LegacyContract!Result(i) = Result(i) /\ LegacyContract!Exception(i) = Exception(i)
      /\ LegacyContract!Nobody = Nobody
      /\ LegacyContract!OriginalOutcome = OriginalOutcome
  BY DEF LegacyContract!Done, LegacyContract!OfType, LegacyContract!Indices, Indices,
         LegacyContract!TypeOf, TypeOf, LegacyContract!Does, Does, LegacyContract!Result, Result,
         LegacyContract!Exception, Exception, LegacyContract!Nobody, Nobody,
         LegacyContract!OriginalOutcome, OriginalOutcome, LegacyContract!Original, Original
<1>2. \A type, w : w \in W(type) <=> WroteIt(w, type, S)
  BY <1>1 DEF LegacyContract!Written, WroteIt
<1>3. (\A i \in S : TypeOf(i) = "AFTER" => ~Ends(i)) => W("AFTER") = {}
  BY <1>2 DEF WroteIt, Ends
<1>4. (\A i \in S : TypeOf(i) = "AFTER" => ~Does(i, "throw")) =>
        ~LegacyContract!Throws(W("AFTER"))
  BY <1>2 DEF WroteIt, LegacyContract!Throws, Result
<1>5. Turned(o, S, seen) => o \in LegacyContract!Turned
  BY <1>1, <1>2 DEF Turned, LegacyContract!Turned
<1> QED
  BY <1>2, <1>3, <1>4, <1>5 DEF AnswerIn, Stays, LegacyContract!Answers

LEMMA ChainAnswersAre ==
  ASSUME Range(called) \subseteq Indices, NEW o, AnswerIn(o, Range(called), received)
  PROVE  o \in ChainContract!Answers
<1> DEFINE S == Range(called)
           W(type) == ChainContract!Written(type)
<1>1. /\ \A type : ChainContract!Done(type) = {i \in S : TypeOf(i) = type}
      /\ \A i, deed : ChainContract!Does(i, deed) <=> Does(i, deed)
      /\ \A i : ChainContract!Result(i) = Result(i) /\ ChainContract!Exception(i) = Exception(i)
      /\ ChainContract!Nobody = Nobody
      /\ ChainContract!OriginalOutcome = OriginalOutcome
  BY DEF ChainContract!Done, ChainContract!OfType, ChainContract!Indices, Indices,
         ChainContract!TypeOf, TypeOf, ChainContract!Does, Does, ChainContract!Result, Result,
         ChainContract!Exception, Exception, ChainContract!Nobody, Nobody,
         ChainContract!OriginalOutcome, OriginalOutcome, ChainContract!Original, Original
<1>2. \A type, w : w \in W(type) <=> WroteIt(w, type, S)
  BY <1>1 DEF ChainContract!Written, WroteIt
<1>3. (\A i \in S : TypeOf(i) = "AFTER" => ~Ends(i)) => W("AFTER") = {}
  BY <1>2 DEF WroteIt, Ends
<1>4. (\A i \in S : TypeOf(i) = "AFTER" => ~Does(i, "throw")) =>
        ~ChainContract!Throws(W("AFTER"))
  BY <1>2 DEF WroteIt, ChainContract!Throws, Result
<1>5. Turned(o, S, received) => o \in ChainContract!Turned
  BY <1>1, <1>2 DEF Turned, ChainContract!Turned
<1> QED
  BY <1>2, <1>3, <1>4, <1>5 DEF AnswerIn, Stays, ChainContract!Answers

----
\* The legacy backend keeps the contract.

LegacyArgument == IF at \in {"beforeHooked", "before", "original"} THEN args ELSE Nobody

\* The contract's names for what the legacy call knows
LEMMA LegacyContractNames ==
  /\ LegacyContract!Indices = Indices
  /\ LegacyContract!Nobody = Nobody
  /\ \A i : LegacyContract!TypeOf(i) = TypeOf(i)
  /\ \A i, deed : LegacyContract!Does(i, deed) <=> Does(i, deed)
  /\ \A i : LegacyContract!Writes(i) <=> Writes(i)
  /\ \A type : LegacyContract!OfType(type) = OfType(type)
  /\ \A type : LegacyContract!Done(type) = Range(ran) \cap OfType(type)
  /\ LegacyContract!Inward <=> LegacyArgument # Nobody
BY DEF LegacyContract!Indices, Indices, LegacyContract!Nobody, Nobody, LegacyContract!TypeOf, TypeOf,
       LegacyContract!Does, Does, LegacyContract!Writes, Writes, LegacyContract!OfType, OfType,
       LegacyContract!Done, LegacyContract!Inward, LegacyArgument

\* A step with which the call does not return
LEMMA LegacyGoesOn ==
  ASSUME UNCHANGED call, at # "returned", at' # "returned",
         \/ \E i \in Indices : LegacyContract!CallBefore(i) \/ LegacyContract!CallAfter(i)
         \/ LegacyContract!RunOriginal
         \/ LegacyContract!TurnBack
         \/ Range(ran)' = Range(ran) /\ LegacyArgument' = LegacyArgument /\ UNCHANGED seen
  PROVE  LegacyContract!Next
<1>1. /\ Legacy!LegacyOutcome = LegacyContract!Pending
      /\ Legacy!LegacyOutcome' = LegacyContract!Pending'
  BY DEF Legacy!LegacyOutcome, Legacy!Pending, LegacyContract!Pending, Legacy!Nobody,
         LegacyContract!Nobody
<1>2. LegacyContract!Pending' = LegacyContract!Pending
  BY DEF LegacyContract!Pending, LegacyContract!Nobody
<1> QED
  BY <1>1, <1>2, LegacyContractNames DEF LegacyContract!Next, LegacyArgument

\* The callback taken from the list may be called.
LEMMA LegacyMayCall ==
  ASSUME LegacyInv, ClinitRanOK, todo # <<>>
  PROVE  /\ Head(todo) \in Indices
         /\ Going(TypeOf(Head(todo)))
         /\ LegacyContract!MayCall(Head(todo))
<1> PICK h : h = Head(todo)
  OBVIOUS
<1>1. CallOK /\ todo \in Seq(Indices) /\ ran \in Seq(Indices)
  BY DEF LegacyInv, ParamOK
<1>2. h \in Indices /\ h \in Range(todo)
  BY <1>1, HeadTail
<1>3. Range(ran) \subseteq Indices
  BY <1>1 DEF Range
<1>4. Going(TypeOf(h))
  BY <1>2 DEF LegacyInv, RanOK, ClinitRanOK
<1>5. \A i \in Indices : i \in Int /\ call.hooks[i].priority \in Int
  <2>1. \A i \in Indices : InIntRange(call.hooks[i].priority)
    BY <1>1 DEF CallOK, HooksOK
  <2>2. \A i \in Indices : i \in 1..MaxHooks
    BY <1>1 DEF CallOK
  <2> QED
    BY <2>1, <2>2, BoundsAssumption DEF InIntRange
<1>6. ~call.clinit =>
        \A i \in Range(ran) :
          TypeOf(i) = TypeOf(h) => i # h /\ call.hooks[i].priority >= call.hooks[h].priority
  <2> SUFFICES ASSUME ~call.clinit, NEW i \in Range(ran), TypeOf(i) = TypeOf(h)
               PROVE  i # h /\ call.hooks[i].priority >= call.hooks[h].priority
    OBVIOUS
  <2>1. Precedes(i, h)
    BY <1>2 DEF LegacyInv, RanOK
  <2> QED
    BY <1>2, <1>3, <1>5, <2>1 DEF Precedes, Legacy!Precedes
<1>7. h \notin Range(ran)
  BY <1>2, <1>3, <1>6 DEF ClinitRanOK
<1>8. call.clinit => LegacyContract!MayCall(h)
  BY <1>7 DEF LegacyContract!MayCall
<1>9. ~call.clinit => LegacyContract!MayCall(h)
  <2> SUFFICES ASSUME ~call.clinit, NEW i \in Range(ran), TypeOf(i) = TypeOf(h)
               PROVE  LegacyContract!InTurn(i, h)
    BY <1>6, <1>7, LegacyContractNames DEF LegacyContract!MayCall, OfType
  <2> QED
    BY <1>6 DEF LegacyContract!InTurn
<1> QED
  BY <1>2, <1>4, <1>8, <1>9

\* A callback of either kind is one of the contract's.
LEMMA LegacyCallbackKept ==
  ASSUME LegacyInv, ClinitRanOK, NEW phase \in {"before", "after"},
         Legacy!RunCallback(phase) \/ Legacy!RunClinitCallback(phase)
  PROVE  LegacyContract!Next
<1> PICK h : h = Head(todo)
  OBVIOUS
<1>1. /\ at = phase /\ at' = phase /\ todo # <<>> /\ ran' = Append(ran, h)
      /\ UNCHANGED <<call, seen>>
      /\ args' = IF Does(h, "assign") /\ ~call.clinit THEN h ELSE args
  BY LegacyNames DEF Legacy!RunCallback, Legacy!RunClinitCallback
<1>2. h \in Indices /\ Going(TypeOf(h)) /\ LegacyContract!MayCall(h)
  BY <1>1, LegacyMayCall
<1>3. CallOK /\ ran \in Seq(Indices)
  BY DEF LegacyInv, ParamOK
<1>4. Range(ran)' = Range(ran) \cup {h}
  BY <1>1, <1>2, <1>3, RanGrows
<1>5. TypeOf(h) = IF phase = "before" THEN "BEFORE" ELSE "AFTER"
  BY <1>1, <1>2, <1>3 DEF Going, CallOK, HooksOK, Types
<1>6. CASE phase = "before"
  <2>1. /\ LegacyArgument = args /\ LegacyArgument' = args'
        /\ LegacyContract!Inward
    BY <1>1, <1>6, LegacyContractNames DEF LegacyArgument, LegacyInv, ParamOK
  <2>2. LegacyArgument' = IF Does(h, "assign") THEN h ELSE LegacyArgument
    BY <1>1, <1>2, <2>1 DEF ClinitRanOK
  <2>3. call.clinit \/ \A j \in Range(ran) : ~Does(j, "throw")
    <3> SUFFICES ASSUME ~call.clinit, NEW j \in Range(ran) PROVE ~Does(j, "throw")
      OBVIOUS
    <3>1. h \in Range(todo)
      BY <1>1, HeadTail DEF LegacyInv, ParamOK
    <3>2. TypeOf(j) = "BEFORE"
      <4>1. j \in Indices
        BY <1>3 DEF Range
      <4> QED
        BY <1>1, <1>3, <1>6, <4>1 DEF LegacyInv, RanOK, Begun, CallOK, HooksOK, Types
    <3> QED
      BY <1>5, <1>6, <3>1, <3>2 DEF LegacyInv, RanOK
  <2>4. LegacyContract!CallBefore(h)
    BY <1>1, <1>2, <1>4, <1>5, <1>6, <2>1, <2>2, <2>3, LegacyContractNames
    DEF LegacyContract!CallBefore, LegacyArgument
  <2> QED
    BY <1>1, <1>2, <2>4, LegacyGoesOn
<1>7. CASE phase = "after"
  <2>1. LegacyArgument = Nobody /\ LegacyArgument' = Nobody /\ ~LegacyContract!Inward
    BY <1>1, <1>7, LegacyContractNames DEF LegacyArgument, Nobody
  <2>2. LegacyContract!CallAfter(h)
    BY <1>1, <1>2, <1>4, <1>5, <1>7, <2>1, LegacyContractNames
    DEF LegacyContract!CallAfter, LegacyArgument
  <2> QED
    BY <1>1, <1>2, <2>2, LegacyGoesOn
<1> QED
  BY <1>6, <1>7

\* So is the original's part.
LEMMA LegacyOriginalKept ==
  ASSUME LegacyInv, ClinitRanOK, Legacy!RunOriginal
  PROVE  LegacyContract!Next
<1>1. /\ at = "original" /\ at' = "afterHooked" /\ UNCHANGED <<call, args, ran>>
      /\ param.returnEarly => UNCHANGED seen
      /\ ~param.returnEarly => seen' = args
  BY DEF Legacy!RunOriginal
<1>2. CallOK /\ ParamOK /\ ran \in Seq(Indices)
  BY DEF LegacyInv, ParamOK
<1>3. /\ LegacyArgument = args /\ LegacyArgument' = Nobody /\ Range(ran)' = Range(ran)
      /\ LegacyContract!Inward
  BY <1>1, <1>2, LegacyContractNames DEF LegacyArgument, ParamOK, Nobody
<1>4. Range(ran) \subseteq Indices /\ \A i \in Range(ran) : TypeOf(i) = "BEFORE"
  <2>1. Range(ran) \subseteq Indices
    BY <1>2 DEF Range
  <2> QED
    BY <1>1, <1>2, <2>1 DEF LegacyInv, RanOK, ClinitRanOK, Begun, CallOK, HooksOK, Types
<1>5. param.returnEarly => ~call.clinit
  BY <1>1 DEF LegacyInv, ClinitOK
<1>6. ~call.clinit => (param.returnEarly <=> \E i \in Range(ran) : Writes(i))
  <2> SUFFICES ASSUME ~call.clinit
               PROVE  param.returnEarly <=> Was("BEFORE", "set") \/ Was("BEFORE", "throw")
    BY <1>4 DEF Was, Writes
  <2>1. OriginalOK
    BY <1>1 DEF LegacyInv, WrittenOK
  <2> QED
    BY <1>2, <2>1 DEF ParamOK, OriginalOK
<1>7. CASE param.returnEarly
  <2>1. LegacyContract!TurnBack
    BY <1>1, <1>3, <1>5, <1>6, <1>7, LegacyContractNames DEF LegacyContract!TurnBack, LegacyArgument
  <2> QED
    BY <1>1, <2>1, LegacyGoesOn
<1>8. CASE ~param.returnEarly
  <2>1. OfType("BEFORE") \subseteq Range(ran)
    <3> SUFFICES ASSUME NEW i \in Indices, TypeOf(i) = "BEFORE" PROVE i \in Range(ran)
      BY DEF OfType
    <3>1. Begun(TypeOf(i)) /\ Range(todo) = {}
      BY <1>1 DEF Begun, LegacyInv, RanOK, ClinitRanOK, Range
    <3>2. call.clinit => i \in Range(ran)
      BY <3>1 DEF ClinitRanOK
    <3>3. ~call.clinit => i \in Range(ran)
      <4>1. ~call.clinit => ~CutOff(i)
        BY <1>6, <1>8 DEF CutOff, Writes
      <4> QED
        BY <3>1, <4>1 DEF LegacyInv, RanOK
    <3> QED
      BY <3>2, <3>3
  <2>2. LegacyContract!RunOriginal
    BY <1>1, <1>3, <1>6, <1>8, <2>1, LegacyContractNames DEF LegacyContract!RunOriginal, LegacyArgument
  <2> QED
    BY <1>1, <2>2, LegacyGoesOn
<1> QED
  BY <1>7, <1>8

\* A call that has returned has called what it must, and has one of the answers.
LEMMA LegacyAnswers ==
  LegacyInv /\ ClinitRanOK /\ at = "returned" =>
    /\ ~LegacyContract!Inward
    /\ LegacyContract!AllCalled
    /\ Legacy!LegacyOutcome \in LegacyContract!Answers
<1> SUFFICES ASSUME LegacyInv, ClinitRanOK, at = "returned"
             PROVE  /\ ~LegacyContract!Inward
                    /\ LegacyContract!AllCalled
                    /\ Legacy!LegacyOutcome \in LegacyContract!Answers
  OBVIOUS
<1> DEFINE S == Range(ran)
           o == Legacy!LegacyOutcome
<1>1. CallOK /\ ParamOK /\ ran \in Seq(Indices) /\ Range(todo) = {}
  BY DEF LegacyInv, ParamOK, RanOK, ClinitRanOK, Range
<1>2. S \subseteq Indices
  BY <1>1 DEF Range
<1>3. ~LegacyContract!Inward
  BY LegacyContractNames DEF LegacyArgument
<1>4. LegacyContract!AllCalled
  <2> SUFFICES ASSUME NEW i \in Indices, TypeOf(i) = "AFTER", i \notin S
               PROVE  ~call.clinit /\ \E j \in S : TypeOf(j) = "AFTER" /\ Does(j, "throw")
    BY <1>2, LegacyContractNames DEF LegacyContract!AllCalled, OfType
  <2>1. Begun(TypeOf(i))
    BY DEF Begun
  <2>2. ~call.clinit
    BY <1>1, <2>1 DEF ClinitRanOK
  <2>3. CutOff(i)
    BY <1>1, <2>1, <2>2 DEF LegacyInv, RanOK
  <2> QED
    BY <2>2, <2>3 DEF CutOff
<1>5. /\ param.throwable # Nobody => o = Exception(param.throwable)
      /\ param.throwable = Nobody => o = Result(param.result) /\ param.result # Nobody
  BY LegacyReturns
<1>6. CASE call.clinit
  <2>1. /\ seen # Nobody
        /\ param = IF call.throws THEN Legacy!WithThrowable(Original) ELSE Legacy!WithResult(Original)
    BY <1>6 DEF LegacyInv, ClinitOK
  <2>2. o = OriginalOutcome
    BY <1>1, <1>5, <2>1, Numbers, LegacyNames
    DEF Legacy!WithThrowable, Legacy!WithResult, OriginalOutcome
  <2>3. AnswerIn(o, S, seen)
    BY <1>6, <2>1, <2>2 DEF AnswerIn, Turned, Stays
  <2> QED
    BY <1>2, <1>3, <1>4, <2>3, LegacyAnswersAre
<1>7. CASE ~call.clinit
  <2> SUFFICES AnswerIn(o, S, seen)
    BY <1>2, <1>3, <1>4, LegacyAnswersAre
  <2>1. ReturnedOK
    BY <1>7 DEF LegacyInv, WrittenOK
  <2>2. CASE Was("AFTER", "set")
    <3>1. Made(param.result, "AFTER", "set") /\ o = Result(param.result)
      BY <1>5, <2>1, <2>2 DEF ReturnedOK
    <3> QED
      BY <1>7, <3>1 DEF Made, AnswerIn, WroteIt
  <2>3. CASE ~Was("AFTER", "set") /\ Was("AFTER", "throw")
    <3>1. Made(param.throwable, "AFTER", "throw") /\ o = Exception(param.throwable)
      BY <1>5, <2>1, <2>3 DEF ReturnedOK
    <3> QED
      BY <3>1 DEF Made, AnswerIn, WroteIt
  <2>4. CASE ~Was("AFTER", "set") /\ ~Was("AFTER", "throw")
    <3>1. Stays(o, S)
      BY <2>4 DEF Was, Stays, Ends
    <3>2. BaseOK /\ (param.throwable # Nobody <=> BaseThrown) /\ SeenOK
      BY <2>1, <2>4 DEF ReturnedOK
    <3>3. CASE seen # Nobody
      <4>1. ~Was("BEFORE", "set") /\ ~Was("BEFORE", "throw")
        BY <3>2, <3>3 DEF SeenOK
      <4>2. param.throwable # Nobody <=> call.throws
        BY <3>2, <3>3, <4>1 DEF BaseThrown
      <4>3. \A a : ~Made(a, "BEFORE", "set") /\ ~Made(a, "BEFORE", "throw")
        BY <4>1 DEF Was, Made
      <4>4. o = OriginalOutcome
        BY <1>5, <3>2, <4>2, <4>3 DEF BaseOK, Base, OriginalOutcome
      <4> QED
        BY <3>1, <3>3, <4>4 DEF AnswerIn, Turned
    <3>4. CASE seen = Nobody
      <4>1. /\ param.throwable # Nobody => Made(param.throwable, "BEFORE", "throw")
            /\ param.result # Nobody => Made(param.result, "BEFORE", "set")
        BY <3>2, <3>4 DEF BaseOK, Base
      <4>2. WroteIt(o, "BEFORE", S)
        BY <1>5, <1>7, <4>1 DEF Made, WroteIt
      <4> QED
        BY <3>1, <3>4, <4>2 DEF AnswerIn, Turned
    <3> QED
      BY <3>3, <3>4
  <2> QED
    BY <2>2, <2>3, <2>4
<1> QED
  BY <1>6, <1>7

\* With the last step the call has its answer.
LEMMA LegacyReturnKept ==
  ASSUME LegacyInv', ClinitRanOK', Legacy!EndPhase("after", "returned")
  PROVE  LegacyContract!Next
<1>1. /\ at = "after" /\ at' = "returned" /\ UNCHANGED <<call, seen, ran>>
  BY DEF Legacy!EndPhase
<1>2. (LegacyInv /\ ClinitRanOK /\ at = "returned" =>
         /\ ~LegacyContract!Inward
         /\ LegacyContract!AllCalled
         /\ Legacy!LegacyOutcome \in LegacyContract!Answers)'
  BY LegacyAnswers, PTL
<1>3. LegacyArgument = Nobody /\ LegacyArgument' = Nobody
  BY <1>1 DEF LegacyArgument, Nobody
<1>4. Legacy!LegacyOutcome = LegacyContract!Pending
  BY <1>1 DEF Legacy!LegacyOutcome, Legacy!Pending, LegacyContract!Pending, Legacy!Nobody,
         LegacyContract!Nobody
<1> QED
  BY <1>1, <1>2, <1>3, <1>4 DEF LegacyContract!Next, LegacyArgument

\* Every step of the legacy call is one the contract allows, or none of it.
LEMMA LegacyStepKept ==
  ASSUME LegacyInv, ClinitRanOK, LegacyInv', ClinitRanOK', [Next]_vars
  PROVE  [LegacyContract!Next]_(LegacyContract!contractVars)
<1>1. ASSUME NEW from, NEW to, UNCHANGED <<call, seen, ran, args>>, at = from, at' = to,
             \/ from = "beforeHooked" /\ to = "before"
             \/ from = "before" /\ to = "original"
             \/ from = "afterHooked" /\ to = "after"
      PROVE  LegacyContract!Next
  <2>1. Range(ran)' = Range(ran) /\ LegacyArgument' = LegacyArgument
    BY <1>1 DEF LegacyArgument, Nobody
  <2> QED
    BY <1>1, <2>1, LegacyGoesOn
<1>2. CASE UNCHANGED <<call, legacyVars>>
  BY <1>2 DEF legacyVars, LegacyContract!contractVars, Legacy!LegacyOutcome, Legacy!Pending,
     Legacy!Nobody, Legacy!Exception, Legacy!Result, Nobody
<1>3. CASE Legacy!StartPhase("beforeHooked", "before", "BEFORE")
  BY <1>1, <1>3 DEF Legacy!StartPhase
<1>4. CASE Legacy!EndPhase("before", "original")
  BY <1>1, <1>4 DEF Legacy!EndPhase
<1>5. CASE Legacy!StartPhase("afterHooked", "after", "AFTER")
  BY <1>1, <1>5 DEF Legacy!StartPhase
<1> QED
  BY <1>2, <1>3, <1>4, <1>5, LegacySteps, LegacyReturnKept, LegacyOriginalKept, LegacyCallbackKept

\* For any hooks, whatever they do: a call under the legacy backend is one that
\* the contract allows.  (Xposed.kt 66-99, 155-189)
THEOREM LegacyKeeps == Spec => LegacyKeepsContract
<1>1. Init => LegacyContract!Init /\ LegacyInv /\ ClinitRanOK
  <2> SUFFICES ASSUME Init PROVE LegacyContract!Init /\ LegacyInv /\ ClinitRanOK
    OBVIOUS
  <2>1. /\ at = "beforeHooked" /\ todo = <<>> /\ args = Original /\ seen = Nobody /\ ran = <<>>
    BY LegacyNames DEF Init, Legacy!InitLegacy
  <2>2. Range(ran) = {} /\ Range(todo) = {}
    BY <2>1 DEF Range
  <2>3. LegacyContract!Init
    BY <2>1, <2>2 DEF LegacyContract!Init, LegacyContract!Original, LegacyContract!Nobody, Original,
       Nobody, LegacyContract!Pending, Legacy!LegacyOutcome, Legacy!Pending, Legacy!Nobody
  <2>4. call.clinit => \A i \in Indices : ~Does(i, "assign")
    BY DEF Init, InitCall, ForClinit, Range, Indices, Does
  <2>5. ClinitRanOK
    BY <2>1, <2>2, <2>4 DEF ClinitRanOK, Begun
  <2> QED
    BY <2>3, <2>5, InitLegacyInv
<1>2. LegacyInv /\ ClinitRanOK /\ [Next]_vars => LegacyInv' /\ ClinitRanOK'
  BY StepKeepsLegacy, StepKeepsClinitRan
<1>3. LegacyInv /\ ClinitRanOK /\ LegacyInv' /\ ClinitRanOK' /\ [Next]_vars =>
        [LegacyContract!Next]_(LegacyContract!contractVars)
  BY LegacyStepKept
<1> QED
  BY <1>1, <1>2, <1>3, PTL DEF Spec, LegacyKeepsContract, LegacyContract!Spec

----
\* LSPosed keeps the contract.

ChainArgument == IF Chain!Inward THEN passed ELSE Nobody

\* What the call has come to on its way out is what its callbacks and the
\* original have made of it so far.
OutcomeFrom == ~Chain!Inward => AnswerIn(outcome, Range(called), received)

\* The contract's names for what the chained call knows
LEMMA ChainContractNames ==
  /\ ChainContract!Indices = Indices
  /\ ChainContract!Nobody = Nobody
  /\ \A i : ChainContract!TypeOf(i) = TypeOf(i)
  /\ \A i, deed : ChainContract!Does(i, deed) <=> Does(i, deed)
  /\ \A i : ChainContract!Writes(i) <=> Writes(i)
  /\ \A i : ChainContract!Decides(i) <=> Ends(i)
  /\ \A type : ChainContract!OfType(type) = OfType(type)
  /\ \A type : ChainContract!Done(type) = Range(called) \cap OfType(type)
  /\ ChainContract!Inward <=> ChainArgument # Nobody
BY DEF ChainContract!Indices, Indices, ChainContract!Nobody, Nobody, ChainContract!TypeOf, TypeOf,
       ChainContract!Does, Does, ChainContract!Writes, Writes, ChainContract!OfType, OfType,
       ChainContract!Done, ChainContract!Inward, ChainArgument, ChainContract!Decides, Ends

\* An outcome of the next state, of the hooks there are
LEMMA SameAnswer ==
  ASSUME UNCHANGED call, Chain!Inward' \/ AnswerIn(outcome', Range(called'), received')
  PROVE  OutcomeFrom'
BY DEF OutcomeFrom, AnswerIn, WroteIt, Turned, Stays, Ends, Does, TypeOf, OriginalOutcome,
       Original, Nobody, Exception, Result

\* A BEFORE callback ends the call, and wrote what it ends with.
LEMMA BeforeEndsFrom ==
  ASSUME ReachInv, Chain!BeforeEnds
  PROVE  OutcomeFrom'
<1> PICK h : h = chain[pos]
  OBVIOUS
<1>1. /\ pos \in DOMAIN chain /\ TypeOf(h) = "BEFORE" /\ Ends(h) /\ Chain!Inward
      /\ called' = Append(called, h) /\ UNCHANGED <<call, chain, received>>
      /\ outcome' = IF Does(h, "throw") THEN Exception(h) ELSE Result(h)
  BY ChainNames DEF Chain!BeforeEnds, Chain!AtLink
<1>2. Range(called') = Range(called) \cup {h}
  BY <1>1, CalledGrows
<1>3. received = Nobody
  BY <1>1 DEF ReachInv, ReachOK, InwardOK
<1>4. WroteIt(outcome', "BEFORE", Range(called'))
  BY <1>1, <1>2 DEF WroteIt, Ends
<1>5. \A i \in Range(called') : TypeOf(i) # "AFTER"
  <2> SUFFICES ASSUME NEW i \in Range(called) PROVE TypeOf(i) # "AFTER"
    BY <1>1, <1>2
  <2>1. PICK k \in DOMAIN called : called[k] = i
    BY DEF Range
  <2> QED
    BY <1>1, <2>1 DEF ReachInv, IInv, CalledOK
<1>6. AnswerIn(outcome', Range(called'), received')
  BY <1>1, <1>3, <1>4, <1>5 DEF AnswerIn, Turned, Stays
<1> QED
  BY <1>1, <1>6, SameAnswer

\* The original makes the outcome, and no AFTER callback was called yet.
LEMMA OriginalFrom ==
  ASSUME ReachInv, Chain!RunOriginal
  PROVE  OutcomeFrom'
<1>1. /\ Chain!Inward /\ outcome' = OriginalOutcome /\ received' = passed
      /\ UNCHANGED <<call, chain, called>>
  BY ChainNames DEF Chain!RunOriginal
<1>2. passed # Nobody
  BY DEF ReachInv, ReachOK
<1>3. \A i \in Range(called') : TypeOf(i) # "AFTER"
  <2> SUFFICES ASSUME NEW k \in DOMAIN called PROVE TypeOf(called[k]) # "AFTER"
    BY <1>1 DEF Range
  <2> QED
    BY <1>1 DEF ReachInv, IInv, CalledOK
<1>4. AnswerIn(outcome', Range(called'), received')
  BY <1>1, <1>2, <1>3 DEF AnswerIn, Turned, Stays
<1> QED
  BY <1>1, <1>4, SameAnswer

\* An AFTER callback that throws, or sets a result where nothing was thrown, makes
\* the outcome; any other lets it stay.
LEMMA AfterReturnsFrom ==
  ASSUME ReachInv, OutcomeFrom, Chain!AfterReturns
  PROVE  OutcomeFrom'
<1> PICK h : h = chain[pos]
  OBVIOUS
<1> DEFINE S == Range(called)
           T == Range(called')
<1>1. /\ pos \in DOMAIN chain /\ TypeOf(h) = "AFTER" /\ ~Chain!Inward
      /\ called' = Append(called, h) /\ UNCHANGED <<call, chain, received>>
  BY ChainNames DEF Chain!AfterReturns, Chain!AtLink
<1>2. /\ Does(h, "throw") => outcome' = Exception(h)
      /\ ~Does(h, "throw") /\ outcome.kind = "exception" => outcome' = outcome
      /\ ~Does(h, "throw") /\ outcome.kind # "exception" =>
           /\ Does(h, "set") /\ ~call.clinit => outcome' = Result(h)
           /\ ~(Does(h, "set") /\ ~call.clinit) => outcome' = outcome
  <2>1. outcome' = Chain!AfterOutcome(h)
    BY DEF Chain!AfterReturns
  <2> QED
    BY <2>1, ChainNames DEF Chain!AfterOutcome
<1>3. T = S \cup {h}
  BY <1>1, CalledGrows
<1>4. AnswerIn(outcome, S, received)
  BY <1>1 DEF OutcomeFrom
<1>5. CASE Does(h, "throw")
  <2>1. WroteIt(outcome', "AFTER", T)
    BY <1>1, <1>2, <1>3, <1>5 DEF WroteIt
  <2> QED
    BY <1>1, <2>1, SameAnswer DEF AnswerIn
<1>6. CASE ~Does(h, "throw") /\ outcome.kind # "exception" /\ Does(h, "set") /\ ~call.clinit
  <2>1. WroteIt(outcome', "AFTER", T)
    BY <1>1, <1>2, <1>3, <1>6 DEF WroteIt
  <2> QED
    BY <1>1, <2>1, SameAnswer DEF AnswerIn
<1>7. CASE ~Does(h, "throw") /\ (outcome.kind = "exception" \/ ~(Does(h, "set") /\ ~call.clinit))
  <2>1. outcome' = outcome
    BY <1>2, <1>7
  <2>2. \A type : WroteIt(outcome, type, S) => WroteIt(outcome, type, T)
    BY <1>3 DEF WroteIt
  <2>3. Turned(outcome, S, received) => Turned(outcome, T, received)
    BY <2>2 DEF Turned
  <2>4. Stays(outcome, S) => Stays(outcome, T)
    BY <1>3, <1>7 DEF Stays, Ends
  <2>5. AnswerIn(outcome, T, received)
    BY <1>4, <2>2, <2>3, <2>4 DEF AnswerIn
  <2>6. AnswerIn(outcome', T, received')
    BY <1>1, <2>1, <2>5
  <2> QED
    BY <1>1, <2>6, SameAnswer
<1> QED
  BY <1>5, <1>6, <1>7

\* Every step keeps the outcome one that was made.
LEMMA StepKeepsFrom == ReachInv /\ OutcomeFrom /\ [Next]_vars => OutcomeFrom'
<1> SUFFICES ASSUME ReachInv, OutcomeFrom, [Next]_vars PROVE OutcomeFrom'
  OBVIOUS
<1>1. UNCHANGED <<call, chain>>
  BY ChainSteps
<1>2. ASSUME UNCHANGED <<outcome, called, received>> PROVE OutcomeFrom'
  <2>1. Chain!Inward' <=> Chain!Inward
    BY <1>2 DEF Chain!Inward, Chain!Pending, Chain!Nobody
  <2>2. Chain!Inward' \/ AnswerIn(outcome', Range(called'), received')
    BY <1>2, <2>1 DEF OutcomeFrom
  <2> QED
    BY <1>1, <2>2, SameAnswer
<1>3. Chain!BeforeProceeds \/ Chain!AfterProceeds => OutcomeFrom'
  BY DEF Chain!BeforeProceeds, Chain!AfterProceeds, Chain!Inward, Chain!Pending, Chain!Nobody, OutcomeFrom
<1>4. Chain!BeforeReturns => OutcomeFrom'
  BY <1>2 DEF Chain!BeforeReturns
<1> QED
  BY <1>2, <1>3, <1>4, ChainSteps, BeforeEndsFrom, OriginalFrom, AfterReturnsFrom

\* A call that is over has called what it must, and has one of the answers.
LEMMA ChainAnswers ==
  ReachInv /\ OutcomeFrom /\ pos = 0 =>
    /\ ~ChainContract!Inward
    /\ ChainContract!AllCalled
    /\ Chain!ChainOutcome \in ChainContract!Answers
<1> SUFFICES ASSUME ReachInv, OutcomeFrom, pos = 0
             PROVE  /\ ~ChainContract!Inward
                    /\ ChainContract!AllCalled
                    /\ Chain!ChainOutcome \in ChainContract!Answers
  OBVIOUS
<1>1. ReachOK /\ PlacesOK /\ chain \in Seq(Indices) /\ Range(called) \subseteq Indices
  BY DEF ReachInv, IInv, ChainOK, CalledOK, Range
<1>2. ~Chain!Inward
  BY <1>1 DEF ReachOK, InwardOK
<1>3. ~ChainContract!Inward
  BY <1>2, ChainContractNames DEF ChainArgument
<1>4. PICK t \in 1..(Len(chain) + 1) : TurnedAt(t)
  BY <1>1, <1>2 DEF ReachOK
<1>5. ASSUME received # Nobody, NEW i \in Indices, TypeOf(i) = "AFTER"
      PROVE  i \in Range(called)
  <2>1. t = Len(chain) + 1
    BY <1>4, <1>5 DEF TurnedAt
  <2>2. PICK a \in DOMAIN chain : chain[a] = i
    BY <1>1 DEF PlacesOK
  <2>3. pos < a /\ a < t
    BY <1>1, <2>1
  <2>4. i \in AfterBetween(pos, t)
    BY <1>5, <2>2, <2>3 DEF AfterBetween
  <2> QED
    BY <1>4, <2>4 DEF TurnedAt
<1>6. ChainContract!AllCalled
  BY <1>5, ChainContractNames DEF ChainContract!AllCalled, OfType
<1>7. Chain!ChainOutcome \in ChainContract!Answers
  <2>1. AnswerIn(outcome, Range(called), received)
    BY <1>2 DEF OutcomeFrom
  <2>2. Chain!ChainOutcome = outcome
    BY DEF Chain!ChainOutcome
  <2> QED
    BY <1>1, <2>1, <2>2, ChainAnswersAre
<1> QED
  BY <1>3, <1>6, <1>7

\* A step of a call that is not over, which may be its last
LEMMA ChainGoesOn ==
  ASSUME UNCHANGED call, pos # 0, ReachInv', OutcomeFrom',
         \/ \E i \in Indices : ChainContract!CallBefore(i) \/ ChainContract!CallAfter(i)
         \/ ChainContract!RunOriginal
         \/ Range(called)' = Range(called) /\ ChainArgument' = ChainArgument /\ UNCHANGED received
  PROVE  ChainContract!Next
<1>1. (ReachInv /\ OutcomeFrom /\ pos = 0 =>
         /\ ~ChainContract!Inward
         /\ ChainContract!AllCalled
         /\ Chain!ChainOutcome \in ChainContract!Answers)'
  BY ChainAnswers, PTL
<1>2. /\ Chain!ChainOutcome = ChainContract!Pending
      /\ pos' # 0 => Chain!ChainOutcome' = ChainContract!Pending'
  BY DEF Chain!ChainOutcome, Chain!Pending, ChainContract!Pending, Chain!Nobody, ChainContract!Nobody
<1>3. ChainContract!Pending' = ChainContract!Pending
  BY DEF ChainContract!Pending, ChainContract!Nobody
<1> QED
  BY <1>1, <1>2, <1>3, ChainContractNames DEF ChainContract!Next, ChainArgument

\* The callback of the link reached may be called: those of its type that were are
\* further out on the way in, and further in on the way out.
LEMMA ChainMayCall ==
  ASSUME ReachInv, pos \in DOMAIN chain,
         \/ TypeOf(chain[pos]) = "BEFORE" /\ Chain!Inward
         \/ TypeOf(chain[pos]) = "AFTER"
  PROVE  ChainContract!MayCall(chain[pos])
<1> PICK h : h = chain[pos]
  OBVIOUS
<1>1. /\ HooksOK /\ ChainOK /\ CalledOK /\ PlacesOK
      /\ h \in Indices /\ Range(called) \subseteq Indices
  BY DEF ReachInv, IInv, ChainOK, CalledOK, Range
<1>2. \A j \in Range(called) : \E a \in DOMAIN chain :
        /\ chain[a] = j
        /\ TypeOf(j) = "BEFORE" /\ Chain!Inward => a < pos
        /\ TypeOf(j) = "AFTER" => pos < a
  BY <1>1 DEF CalledOK, Range
<1>3. h \notin Range(called)
  <2> SUFFICES ASSUME h \in Range(called) PROVE FALSE
    OBVIOUS
  <2>1. PICK a \in DOMAIN chain :
          /\ chain[a] = h
          /\ TypeOf(h) = "BEFORE" /\ Chain!Inward => a < pos
          /\ TypeOf(h) = "AFTER" => pos < a
    BY <1>2
  <2>2. a = pos
    BY <1>1, <2>1 DEF PlacesOK
  <2> QED
    BY <1>1, <2>1, <2>2 DEF CalledOK
<1>4. ASSUME ~call.clinit, NEW j \in Range(called), TypeOf(j) = TypeOf(h)
      PROVE  ChainContract!InTurn(j, h)
  <2> DEFINE type == TypeOf(h)
             p == call.hooks[j].priority
             q == call.hooks[h].priority
  <2>1. type \in Types /\ InIntRange(p) /\ InIntRange(q)
    BY <1>1, <1>4 DEF HooksOK
  <2>2. /\ Chain!ChainPriority(j) = Normalized(type, p)
        /\ Chain!ChainPriority(h) = Normalized(type, q)
    BY <1>4 DEF Chain!ChainPriority, TypeOf, Chain!TypeOf, Normalized, Chain!Normalized,
       Collapsed, Chain!Collapsed, Negated, Chain!Negated,
       IntMin, IntMax, Chain!IntMin, Chain!IntMax
  <2>3. Normalized(type, p) \in Int /\ Normalized(type, q) \in Int
    BY <2>1, NormalizedInRange DEF InIntRange
  <2>4. PICK a \in DOMAIN chain :
          /\ chain[a] = j
          /\ type = "BEFORE" => a < pos
          /\ type = "AFTER" => pos < a
    BY <1>2, <1>4
  <2>5. ChainContract!InTurn(j, h) <=> p >= q \/ Normalized(type, p) = Normalized(type, q)
    BY <1>4 DEF ChainContract!InTurn, TypeOf, ChainContract!TypeOf, Normalized, ChainContract!Normalized,
       Collapsed, ChainContract!Collapsed, Negated, ChainContract!Negated,
       IntMin, IntMax, ChainContract!IntMin, ChainContract!IntMax
  <2>6. CASE type = "BEFORE"
    <3>1. Normalized("BEFORE", p) >= Normalized("BEFORE", q)
      BY <1>1, <2>2, <2>4, <2>6 DEF ChainOK
    <3>2. p <= q => Normalized("BEFORE", p) <= Normalized("BEFORE", q)
      BY <2>1, BeforeKeepsOrder
    <3> QED
      BY <2>1, <2>3, <2>5, <2>6, <3>1, <3>2 DEF InIntRange
  <2>7. CASE type = "AFTER"
    <3>1. Normalized("AFTER", q) >= Normalized("AFTER", p)
      BY <1>1, <2>2, <2>4, <2>7 DEF ChainOK
    <3>2. p <= q => Normalized("AFTER", q) <= Normalized("AFTER", p)
      BY <2>1, AfterReversesOrder
    <3> QED
      BY <2>1, <2>3, <2>5, <2>7, <3>1, <3>2 DEF InIntRange
  <2> QED
    BY <2>1, <2>6, <2>7 DEF Types
<1> QED
  BY <1>3, <1>4, ChainContractNames DEF ChainContract!MayCall, OfType

\* A BEFORE callback is one of the contract's.
LEMMA ChainBeforeKept ==
  ASSUME ReachInv, ReachInv', OutcomeFrom', Chain!BeforeProceeds \/ Chain!BeforeEnds
  PROVE  ChainContract!Next
<1> PICK h : h = chain[pos]
  OBVIOUS
<1>1. /\ Chain!Inward /\ pos \in DOMAIN chain /\ TypeOf(h) = "BEFORE"
      /\ called' = Append(called, h) /\ UNCHANGED <<call, chain, received>>
  BY ChainNames DEF Chain!BeforeProceeds, Chain!BeforeEnds, Chain!AtLink
<1>2. h \in Indices /\ Range(called)' = Range(called) \cup {h}
  BY <1>1, CalledGrows
<1>3. ChainContract!MayCall(h)
  BY <1>1, ChainMayCall
<1>4. InwardOK /\ passed # Nobody /\ chain \in Seq(Indices)
  BY <1>1 DEF ReachInv, ReachOK, IInv, ChainOK
<1>5. ChainContract!Inward /\ ChainArgument = passed
  BY <1>1, <1>4, ChainContractNames DEF ChainArgument
<1>6. \A j \in Range(called) : ~Does(j, "throw")
  <2>1. \A b \in DOMAIN chain : b <= pos - 1 => b < pos
    BY <1>1, <1>4
  <2> QED
    BY <1>4, <2>1 DEF InwardOK, BeforeUpTo, PassedUpTo, Ends
<1>7. \/ ChainArgument' = IF Does(h, "assign") THEN h ELSE ChainArgument
      \/ Ends(h) /\ ChainArgument' = Nobody
  <2>1. CASE Chain!BeforeProceeds
    <3>1. /\ UNCHANGED outcome
          /\ passed' = IF Does(h, "assign") THEN h ELSE passed
      BY <2>1, ChainNames DEF Chain!BeforeProceeds
    <3>2. Chain!Inward'
      BY <1>1, <3>1 DEF Chain!Inward, Chain!Pending, Chain!Nobody
    <3> QED
      BY <1>5, <3>1, <3>2 DEF ChainArgument
  <2>2. CASE Chain!BeforeEnds
    <3>1. Ends(h) /\ outcome' = IF Does(h, "throw") THEN Exception(h) ELSE Result(h)
      BY <2>2, ChainNames DEF Chain!BeforeEnds
    <3>2. outcome' # Pending
      BY <1>2, <3>1, OutcomesOK DEF ReachInv
    <3>3. ~Chain!Inward'
      BY <3>2 DEF Chain!Inward, Chain!Pending, Chain!Nobody, Pending, Nobody
    <3> QED
      BY <3>1, <3>3 DEF ChainArgument, Nobody
  <2> QED
    BY <2>1, <2>2
<1>8. ChainContract!CallBefore(h)
  BY <1>1, <1>2, <1>3, <1>5, <1>6, <1>7, ChainContractNames DEF ChainContract!CallBefore, ChainArgument
<1>9. pos # 0
  BY <1>1, <1>4
<1> QED
  BY <1>1, <1>2, <1>8, <1>9, ChainGoesOn

\* So is an AFTER callback.
LEMMA ChainAfterKept ==
  ASSUME ReachInv, ReachInv', OutcomeFrom', Chain!AfterReturns
  PROVE  ChainContract!Next
<1> PICK h : h = chain[pos]
  OBVIOUS
<1>1. /\ ~Chain!Inward /\ pos \in DOMAIN chain /\ TypeOf(h) = "AFTER" /\ pos' = pos - 1
      /\ called' = Append(called, h) /\ UNCHANGED <<call, chain, received>>
  BY ChainNames DEF Chain!AfterReturns, Chain!AtLink
<1>2. h \in Indices /\ Range(called)' = Range(called) \cup {h}
  BY <1>1, CalledGrows
<1>3. ChainContract!MayCall(h)
  BY <1>1, ChainMayCall
<1>4. /\ chain \in Seq(Indices) /\ pos \in 0..(Len(chain) + 1)
      /\ outcome.by # Nobody
  BY <1>1 DEF ReachInv, ReachOK, IInv, ChainOK
<1>5. outcome' \in {Exception(h), Result(h), outcome}
  BY ChainNames DEF Chain!AfterReturns, Chain!AfterOutcome
<1>6. ~Chain!Inward'
  <2>1. outcome' # Pending
    BY <1>2, <1>4, <1>5, OutcomesOK DEF ReachInv
  <2> QED
    BY <2>1 DEF Chain!Inward, Chain!Pending, Chain!Nobody, Pending, Nobody
<1>7. ~ChainContract!Inward /\ ChainArgument = Nobody /\ ChainArgument' = Nobody
  BY <1>1, <1>6, ChainContractNames DEF ChainArgument, Nobody
<1>8. ChainContract!CallAfter(h)
  BY <1>1, <1>2, <1>3, <1>7, ChainContractNames DEF ChainContract!CallAfter, ChainArgument
<1>9. pos # 0
  BY <1>1, <1>4
<1> QED
  BY <1>1, <1>2, <1>8, <1>9, ChainGoesOn

\* The original is called as the contract has it.
LEMMA ChainOriginalKept ==
  ASSUME ReachInv, ReachInv', OutcomeFrom', Chain!RunOriginal
  PROVE  ChainContract!Next
<1>1. /\ Chain!Inward /\ pos = Len(chain) + 1 /\ outcome' = OriginalOutcome /\ received' = passed
      /\ UNCHANGED <<call, chain, called>>
  BY ChainNames DEF Chain!RunOriginal
<1>2. /\ InwardOK /\ PlacesOK /\ passed # Nobody /\ chain \in Seq(Indices)
  BY <1>1 DEF ReachInv, ReachOK, IInv, ChainOK
<1>3. \A b \in DOMAIN chain : b <= pos - 1 /\ b < pos
  BY <1>1, <1>2
<1>4. OfType("BEFORE") \subseteq Range(called)
  <2> SUFFICES ASSUME NEW i \in Indices, TypeOf(i) = "BEFORE" PROVE i \in BeforeUpTo(pos - 1)
    BY <1>2 DEF OfType, InwardOK
  <2>1. PICK a \in DOMAIN chain : chain[a] = i
    BY <1>2 DEF PlacesOK
  <2> QED
    BY <1>3, <2>1 DEF BeforeUpTo
<1>5. call.clinit \/ \A i \in Range(called) : ~Writes(i)
  BY <1>2, <1>3 DEF InwardOK, BeforeUpTo, PassedUpTo, Ends, Writes
<1>6. ~Chain!Inward'
  <2>1. outcome' # Pending
    BY <1>1, OutcomesOK
  <2> QED
    BY <2>1 DEF Chain!Inward, Chain!Pending, Chain!Nobody, Pending, Nobody
<1>7. ChainContract!Inward /\ ChainArgument = passed /\ ChainArgument' = Nobody
  BY <1>1, <1>2, <1>6, ChainContractNames DEF ChainArgument, Nobody
<1>8. Range(called)' = Range(called)
  BY <1>1
<1>9. ChainContract!RunOriginal
  BY <1>1, <1>4, <1>5, <1>7, <1>8, ChainContractNames DEF ChainContract!RunOriginal, ChainArgument
<1>10. pos # 0
  BY <1>1, <1>2
<1> QED
  BY <1>1, <1>9, <1>10, ChainGoesOn

\* Every step of the chained call is one the contract allows, or none of it.
LEMMA ChainStepKept ==
  ASSUME ReachInv, OutcomeFrom, ReachInv', OutcomeFrom', [Next]_vars
  PROVE  [ChainContract!Next]_(ChainContract!contractVars)
<1>1. UNCHANGED call
  BY ChainSteps
<1>2. CASE UNCHANGED <<pos, outcome, passed, received, called>>
  BY <1>1, <1>2 DEF ChainContract!contractVars, Chain!ChainOutcome, Chain!Pending, Chain!Nobody,
     Chain!Inward, Nobody
<1>3. CASE Chain!AfterProceeds \/ Chain!BeforeReturns
  <2>1. UNCHANGED <<outcome, passed, received, called>> /\ pos \in DOMAIN chain
    BY <1>3 DEF Chain!AfterProceeds, Chain!BeforeReturns, Chain!AtLink
  <2>2. pos # 0
    BY <2>1 DEF ReachInv, IInv, ChainOK
  <2>3. Range(called)' = Range(called) /\ ChainArgument' = ChainArgument
    BY <2>1 DEF ChainArgument, Chain!Inward, Chain!Pending, Chain!Nobody, Nobody
  <2> QED
    BY <1>1, <2>1, <2>2, <2>3, ChainGoesOn
<1> QED
  BY <1>2, <1>3, ChainSteps, ChainBeforeKept, ChainAfterKept, ChainOriginalKept

\* For any hooks, whatever they do, and any order of hooks of one priority: a call
\* under LSPosed is one that the contract allows.  (LSPosed.kt 404-450)
THEOREM ChainKeeps == Spec => ChainKeepsContract
<1>1. Init => ChainContract!Init /\ ReachInv /\ OutcomeFrom
  <2> SUFFICES ASSUME Init PROVE ChainContract!Init /\ ReachInv /\ OutcomeFrom
    OBVIOUS
  <2>1. /\ pos = 1 /\ Chain!Inward /\ passed = Original /\ received = Nobody /\ called = <<>>
    BY ChainNames DEF Init, Chain!InitChain, Chain!Inward
  <2>2. Range(called) = {}
    BY <2>1 DEF Range
  <2>3. ChainContract!Init
    BY <2>1, <2>2 DEF ChainContract!Init, ChainContract!Original, ChainContract!Nobody, Original,
       Nobody, ChainContract!Pending, Chain!ChainOutcome, Chain!Pending, Chain!Nobody
  <2> QED
    BY <2>1, <2>3, InitReachInv DEF OutcomeFrom
<1>2. ReachInv /\ OutcomeFrom /\ [Next]_vars => ReachInv' /\ OutcomeFrom'
  BY StepKeepsReach, StepKeepsFrom
<1>3. ReachInv /\ OutcomeFrom /\ ReachInv' /\ OutcomeFrom' /\ [Next]_vars =>
        [ChainContract!Next]_(ChainContract!contractVars)
  BY ChainStepKept
<1> QED
  BY <1>1, <1>2, <1>3, PTL DEF Spec, ChainKeepsContract, ChainContract!Spec
====
