---- MODULE ProxyActivity ----
(***************************************************************************)
(* support/ModuleContextWrapper.kt: activities of the module started in    *)
(* the host's process.  The system only starts activities of the host's    *)
(* manifest, so startActivity asks for one of those (the proxy) with the   *)
(* real intent packed inside, and replaces the process's Instrumentation   *)
(* so that the module's class is made in its place and its context is the  *)
(* wrapper.  Other code in the process may wrap the Instrumentation too.   *)
(***************************************************************************)
EXTENDS Naturals, FiniteSets, SequencesExt

CONSTANTS
  Wrappers,    \* ModuleContextWrapper objects in the process
  Hosts,       \* activities of the host's manifest
  Aliases,     \* those that are activity-alias
  Launchers,   \* those the launcher query returns
  Mains,       \* those the ACTION_MAIN query returns
  Targets,     \* activities of the module
  Missing,     \* targets whose class the module's class loader cannot find
  LaunchMode,  \* [Hosts \cup Targets -> launch modes]
  MaxStarts,   \* bound: startActivity calls
  MaxForeign   \* bound: times other code wraps the Instrumentation

ASSUME HostsAssumption ==
  Aliases \subseteq Hosts /\ Launchers \subseteq Mains /\ Mains \subseteq Hosts
ASSUME TargetsAssumption == Targets \cap Hosts = {} /\ Missing \subseteq Targets
ASSUME ProxyBoundsAssumption == MaxStarts \in Nat /\ MaxForeign \in Nat

None == "none"
Foreign == "foreign"

VARIABLES
  proxy,      \* [Wrappers -> Hosts \cup {None}]: mProxyActivity
  stack,      \* the Instrumentation in use, outermost first: whose wrapper it is
  running,    \* host activities that run and are not paused
  starts,     \* number of startActivity calls so far
  intents,    \* the proxy intents sent and not yet launched
  activities  \* the module's activities that were created

proxyVars == <<proxy, stack, running, starts, intents, activities>>

Intent == [id : 1..MaxStarts, wrapper : Wrappers, target : Targets, proxy : Hosts]

ProxyTypeOK ==
  /\ proxy \in [Wrappers -> (Hosts \ Aliases) \cup {None}]
  /\ stack \in Seq(Wrappers \cup {Foreign})
  /\ running \subseteq Hosts
  /\ starts \in 0..MaxStarts
  /\ intents \subseteq Intent
  /\ \A a \in activities :
       /\ a.intent \in Intent
       /\ a.class \in Hosts \cup Targets
       /\ a.contexts \in Seq(Wrappers)

ProxyInit ==
  /\ proxy = [w \in Wrappers |-> None]
  /\ stack = <<>>
  /\ running \in SUBSET (Hosts \ Aliases)
  /\ starts = 0
  /\ intents = {}
  /\ activities = {}

\* Faulty variant: aliases too.
ValidOrAlias(S, t) ==
  {h \in S : h \notin running /\ LaunchMode[h] = LaunchMode[t]}

\* filterVaild: no alias, not running, the launch mode of the target
Valid(S, t) ==
  {h \in S : h \notin Aliases \cup running /\ LaunchMode[h] = LaunchMode[t]}

\* The first query with a valid result: launcher, main, all.
Candidates(t) ==
  IF Valid(Launchers, t) # {} THEN Valid(Launchers, t)
  ELSE IF Valid(Mains, t) # {} THEN Valid(Mains, t)
  ELSE Valid(Hosts, t)

\* instrumentation !is InstrumentationWrapper: only the outermost is looked at.
Wrapped == stack # <<>> /\ Head(stack) \in Wrappers

\* startActivity(intent): the proxy found once is kept for later starts.  (The
\* query's preference for exported activities is left open; when there is no
\* valid activity the call throws and nothing has changed.)
StartActivity(w, t) ==
  /\ starts < MaxStarts
  /\ starts' = starts + 1
  /\ proxy' \in {[proxy EXCEPT ![w] = h] :
                   h \in IF proxy[w] = None THEN Candidates(t) ELSE {proxy[w]}}
  /\ stack' = IF Wrapped THEN stack ELSE <<w>> \o stack
  /\ intents' = intents \cup
       {[id |-> starts + 1, wrapper |-> w, target |-> t, proxy |-> proxy'[w]]}
  /\ UNCHANGED <<running, activities>>

\* setProxyActivity(component)
SetProxyActivity(w, h) ==
  /\ proxy' = [proxy EXCEPT ![w] = h]
  /\ UNCHANGED <<stack, running, starts, intents, activities>>

\* Faulty variant: the host's class, whatever the intent says.
ProxyClass(i) == i.proxy

\* newActivity: the outermost wrapper makes the module's class; if that is not
\* found every wrapper lets its base go on, and the proxy itself is made.
ClassOf(i) == IF i.target \in Missing THEN i.proxy ELSE i.target

\* Faulty variant: the activity keeps the proxy intent.
PreparingAll(s) == SelectSeq(s, LAMBDA x : x \in Wrappers)

\* callActivityOnCreate goes through all wrappers; prepareActivity of the first
\* gives the activity the real intent, so that the others take it for one of
\* the host's own.  The wrappers that prepare it:
Preparing(s) ==
  LET own == {i \in DOMAIN s : s[i] \in Wrappers}
  IN  IF own = {} THEN <<>> ELSE <<s[Min(own)]>>

\* The system launches the proxy of an intent.
Launch(i) ==
  /\ intents' = intents \ {i}
  /\ activities' = activities \cup
       {[intent |-> i, class |-> ClassOf(i), contexts |-> Preparing(stack)]}
  /\ UNCHANGED <<proxy, stack, running, starts>>

\* The host starts, pauses or resumes an activity of its own.
HostActivity(h) ==
  /\ running' \in {running \cup {h}, running \ {h}}
  /\ UNCHANGED <<proxy, stack, starts, intents, activities>>

\* Other code puts its own Instrumentation around the current one.
ForeignWraps ==
  /\ Cardinality({i \in DOMAIN stack : stack[i] = Foreign}) < MaxForeign
  /\ stack' = <<Foreign>> \o stack
  /\ UNCHANGED <<proxy, running, starts, intents, activities>>

ModuleNext ==
  \/ \E w \in Wrappers, t \in Targets : StartActivity(w, t)
  \/ \E i \in intents : Launch(i)
  \/ \E h \in Hosts \ Aliases : HostActivity(h)
  \/ ForeignWraps

ProxyNext == ModuleNext \/ \E w \in Wrappers, h \in Hosts \ Aliases : SetProxyActivity(w, h)

ProxySpec == ProxyInit /\ [][ProxyNext]_proxyVars

\* The module leaves the choice of the proxy to the wrapper.
SpecAutomatic == ProxyInit /\ [][ModuleNext]_proxyVars

----
Started == intents \cup {a.intent : a \in activities}

\* An activity the module started is made from the module's class and gets its
\* context from exactly one wrapper, however often the Instrumentation was
\* wrapped meanwhile.  While no other code has wrapped it, that is the wrapper of
\* the first start, whose theme all activities then get, those started through
\* other wrappers too.  (ModuleContextWrapper.kt 213-260, 281-307, 318-366)
PreparedByOneWrapper ==
  \A a \in activities :
    /\ Len(a.contexts) = 1
    /\ a.intent.target \notin Missing => a.class = a.intent.target
    /\ Foreign \notin Range(stack) =>
         \A i \in Started : i.id = 1 => a.contexts = <<i.wrapper>>

\* The proxy of a start has the launch mode of its target.
\* (ModuleContextWrapper.kt 160-173)
ProxyHasLaunchMode ==
  \A i \in intents : LaunchMode[i.proxy] = LaunchMode[i.target]
====
