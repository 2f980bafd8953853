---- MODULE Dispatch ----
(***************************************************************************)
(* The same call of a hooked member under both backends, the legacy one    *)
(* first; they share nothing but the hooks.  A callback does the same      *)
(* under both, whatever it is shown.  The properties say what a module     *)
(* that is to run on either framework may rely on.                         *)
(***************************************************************************)
EXTENDS HookedCall

VARIABLES
  at, todo, info, param, args, seen, ran,         \* LegacyCall
  chain, pos, outcome, passed, received, called   \* ChainCall

Legacy == INSTANCE LegacyCall
Chain == INSTANCE ChainCall

legacyVars == <<at, todo, info, param, args, seen, ran>>
chainVars == <<chain, pos, outcome, passed, received, called>>
vars == <<call, legacyVars, chainVars>>

TypeOK == Legacy!TypeOK /\ Chain!TypeOK

Init == InitCall /\ Legacy!InitLegacy /\ Chain!InitChain

Next ==
  \/ Legacy!LegacyNext /\ UNCHANGED chainVars
  \/ at = "returned" /\ Chain!ChainNext /\ UNCHANGED legacyVars

Spec == Init /\ [][Next]_vars

----
Returned == at = "returned" /\ pos = 0
Writers == {i \in Indices : Writes(i)}
Before(i) == TypeOf(i) = "BEFORE"

\* Under both backends the original is called unless a BEFORE callback sets a
\* result or throws, and with the argument the last BEFORE callback assigned.
\* Priorities that LSPosed makes one may differ in who is last.
\* (Xposed.kt 87-97, LSPosed.kt 413-430)
SameOriginalCall ==
  Returned /\ ~call.clinit =>
    /\ (seen = Nobody) = (\E i \in Writers : Before(i))
    /\ (received = Nobody) = (\E i \in Writers : Before(i))
    /\ \/ seen = received
       \/ \E i, j \in OfType("BEFORE") :
            /\ Does(i, "assign") /\ Does(j, "assign") /\ i # j
            /\ Chain!ChainPriority(i) = Chain!ChainPriority(j)

\* Module code that keeps to one writing callback, which does one of the two,
\* gets the same outcome to the caller under both backends, unless it is an
\* AFTER callback that sets a result where the original threw: LSPosed keeps the
\* exception.  (Xposed.kt 95-97, LSPosed.kt 423-446)
SameOutcome ==
  /\ Returned
  /\ ~call.clinit
  /\ Cardinality(Writers) <= 1
  /\ \A i \in Writers :
       /\ ~(Does(i, "set") /\ Does(i, "throw"))
       /\ Before(i) \/ Does(i, "throw") \/ ~call.throws
  => Legacy!LegacyOutcome = Chain!ChainOutcome

\* Two callbacks of one type and different priority are called in the same order
\* by both, unless LSPosed makes their priorities one; AFTER callbacks too,
\* though they are called from the inside out.  (Xposed.kt 150, LSPosed.kt
\* 112-123)
SameOrder ==
  \A i, j \in DOMAIN called :
    /\ ~call.clinit
    /\ i < j
    /\ TypeOf(called[i]) = TypeOf(called[j])
    => \/ call.hooks[called[i]].priority >= call.hooks[called[j]].priority
       \/ Chain!ChainPriority(called[i]) = Chain!ChainPriority(called[j])

\* No callback is called twice, and both backends call all of them if none
\* writes.  Where some do, LSPosed leaves out exactly what is further in than
\* the outermost BEFORE hook that ends the call, and the legacy backend exactly
\* what comes after one that throws in its phase.
\* (Xposed.kt 87-94, LSPosed.kt 424-430)
CalledOnceOrCutOff ==
  Returned /\ ~call.clinit =>
    /\ \A i \in Indices :
         LET cut == \E k, l \in DOMAIN chain :
                      k < l /\ chain[l] = i /\ Before(chain[k]) /\ Writes(chain[k])
         IN  Cardinality({k \in DOMAIN called : called[k] = i}) = IF cut THEN 0 ELSE 1
    /\ \A i \in Indices :
         LET cut == \E j \in OfType(TypeOf(i)) : Does(j, "throw") /\ Legacy!Precedes(j, i)
         IN  Cardinality({k \in DOMAIN ran : ran[k] = i}) = IF cut THEN 0 ELSE 1

\* Under the legacy backend an exception of a callback reaches the caller unless
\* a callback of the same or a later phase set a result; then it is lost.  The
\* result of a callback is never lost to an exception of the same phase.
\* (Xposed.kt 92-97)
LegacyExceptionDelivered ==
  at = "returned" /\ ~call.clinit =>
    LET o == Legacy!LegacyOutcome
        setBy(type) == \E i \in Range(ran) : TypeOf(i) = type /\ Does(i, "set")
        thrownBy(type) == \E i \in Range(ran) : TypeOf(i) = type /\ Does(i, "throw")
    IN  (o.kind = "exception") =
          \/ thrownBy("AFTER") /\ ~setBy("AFTER")
          \/ ~setBy("AFTER") /\ thrownBy("BEFORE") /\ ~setBy("BEFORE")
          \/ ~setBy("AFTER") /\ seen # Nobody /\ call.throws

\* Under LSPosed an exception, a callback's or the original's, always reaches
\* the caller, unless an AFTER callback further out throws another; no callback
\* turns it into a result.  (LSPosed.kt 432-446)
ChainExceptionStays ==
  [][outcome.kind = "exception" /\ outcome' # outcome =>
       \E h \in Range(chain) :
         /\ TypeOf(h) = "AFTER"
         /\ outcome' = Exception(h)
         /\ called' = Append(called, h)]_vars

\* Each backend's call is one that the contract of both allows.  What it knows of
\* a call are the callbacks called so far, the argument on its way in, what the
\* original was given, and what the caller gets.
\* (Xposed.kt 66-99, 155-189; LSPosed.kt 404-450)
LegacyContract ==
  INSTANCE CallContract WITH
    done <- Range(ran),
    argument <- IF at \in {"beforeHooked", "before", "original"} THEN args ELSE Nobody,
    given <- seen,
    answer <- Legacy!LegacyOutcome

ChainContract ==
  INSTANCE CallContract WITH
    done <- Range(called),
    argument <- IF Chain!Inward THEN passed ELSE Nobody,
    given <- received,
    answer <- Chain!ChainOutcome

\* The legacy backend keeps the contract.
LegacyKeepsContract == LegacyContract!Spec

\* So does LSPosed.
ChainKeepsContract == ChainContract!Spec

\* A class initializer runs and its outcome reaches the class loader whatever
\* results callbacks set; under LSPosed an exception of a callback does keep it
\* from running or replaces its outcome, under the legacy backend never.
\* (Xposed.kt 170-182, LSPosed.kt 161, 425, 445)
ClinitUntouched ==
  Returned /\ call.clinit =>
    /\ Legacy!LegacyOutcome = OriginalOutcome
    /\ seen # Nobody
    /\ (\A i \in Indices : ~Does(i, "throw")) =>
         Chain!ChainOutcome = OriginalOutcome /\ received # Nobody
====
