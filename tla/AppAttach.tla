---- MODULE AppAttach ----
(***************************************************************************)
(* The application listeners of XposedKit.kt.                              *)
(*                                                                         *)
(* registerAppAttachListener(package, listener) promises to call the       *)
(* listener with the package's Application: at once if the application has *)
(* attached, else from the hook on Application.attach that prepare() made. *)
(* attachedApplications and appAttachListeners are two maps, read and      *)
(* written without a common lock; a map operation, and a synchronized      *)
(* block on one listener set, are the steps here.  ConcurrentMap.getOrPut  *)
(* takes effect at its get or at its putIfAbsent, so it is one step.       *)
(*                                                                         *)
(* A registration is numbered by its call, and a listener set by the       *)
(* registration that allocated it.                                         *)
(***************************************************************************)
EXTENDS HostPackages, Naturals, FiniteSets, Sequences

CONSTANTS
  Threads,     \* threads that register and unregister
  AppThreads,  \* threads on which Application.attach returns
  Listeners,   \* listener objects; one may be registered twice
  MaxRegs,     \* bound: registerAppAttachListener calls
  MaxAttaches, \* bound: returns of Application.attach
  MaxUnregs    \* bound: unregisterAppAttachListeners calls

ASSUME ThreadsAssumption == Threads \cap AppThreads = {}
ASSUME BoundsAssumption == MaxRegs \in Nat /\ MaxAttaches \in Nat /\ MaxUnregs \in Nat

VARIABLES
  attached,   \* keys of attachedApplications
  table,      \* appAttachListeners: [Packages -> set number, 0 for none]
  sets,       \* the listener sets: [1..MaxRegs -> SUBSET Listeners]
  regs,       \* the registrations so far: a sequence of [pkg, listener]
  attaches,   \* number of attaches so far
  unregs,     \* number of unregister calls so far
  pc,
  reg,        \* the registration a thread is making
  into,       \* the set it adds to
  app,        \* the package an app thread has attached
  took,       \* the set an app thread has removed from the table
  toCall,     \* the listeners an app thread has still to call
  called,     \* ghost: how often each listener was called per package
  served,     \* ghost: registrations whose listener was called since
  returned,   \* ghost: registrations that have returned
  excused     \* ghost: registrations that may be lost

vars == <<attached, table, sets, regs, attaches, unregs, pc, reg, into, app,
          took, toCall, called, served, returned, excused>>
registering == <<reg, into>>
attaching == <<app, took, toCall>>

Registrations == 1..Len(regs)
InProgress == {reg[t] : t \in {u \in Threads : pc[u] # "idle"}}

TypeOK ==
  /\ attached \subseteq Packages
  /\ table \in [Packages -> 0..MaxRegs]
  /\ sets \in [1..MaxRegs -> SUBSET Listeners]
  /\ regs \in Seq([pkg : Packages, listener : Listeners]) /\ Len(regs) <= MaxRegs
  /\ attaches \in 0..MaxAttaches /\ unregs \in 0..MaxUnregs
  /\ pc \in [Threads \cup AppThreads -> {"idle", "getOrPut", "add", "remove", "copy", "call"}]
  /\ \A t \in Threads : pc[t] # "idle" => reg[t] \in Registrations \ returned
  /\ \A t \in Threads : pc[t] = "add" => into[t] \in 1..MaxRegs
  /\ \A a \in AppThreads : pc[a] # "idle" => app[a] \in attached
  /\ \A a \in AppThreads : pc[a] = "copy" => took[a] \in 1..MaxRegs
  /\ toCall \in [AppThreads -> SUBSET Listeners]
  /\ called \in [Packages \X Listeners -> Nat]
  /\ served \cup returned \cup excused \subseteq Registrations

Init ==
  /\ attached = {}
  /\ table = [p \in Packages |-> 0]
  /\ sets = [n \in 1..MaxRegs |-> {}]
  /\ regs = <<>>
  /\ attaches = 0
  /\ unregs = 0
  /\ pc = [t \in Threads \cup AppThreads |-> "idle"]
  /\ reg = [t \in Threads |-> 0]
  /\ into = [t \in Threads |-> 0]
  /\ app = [a \in AppThreads |-> <<>>]
  /\ took = [a \in AppThreads |-> 0]
  /\ toCall = [a \in AppThreads |-> {}]
  /\ called = [pl \in Packages \X Listeners |-> 0]
  /\ served = {}
  /\ returned = {}
  /\ excused = {}

----
Goto(t, l) == pc' = [pc EXCEPT ![t] = l]

\* The listeners in L are called with the application of package p.  Ghost: that
\* serves every registration of theirs that has begun.
Call(p, L, rs) ==
  /\ called' = [pl \in Packages \X Listeners |->
                  called[pl] + IF pl[1] = p /\ pl[2] \in L THEN 1 ELSE 0]
  /\ served' = served \cup {r \in DOMAIN rs : rs[r].pkg = p /\ rs[r].listener \in L}

----
\* registerAppAttachListener(packageName, listener)

\* If the application is attached, the listener is called and that is all.
Register(t, p, l) ==
  LET rs == Append(regs, [pkg |-> p, listener |-> l])
  IN  /\ pc[t] = "idle"
      /\ Len(regs) < MaxRegs
      /\ regs' = rs
      /\ \/ /\ p \in attached
            /\ Call(p, {l}, rs)
            /\ returned' = returned \cup {Len(rs)}
            /\ UNCHANGED <<pc, reg>>
         \/ /\ p \notin attached
            /\ reg' = [reg EXCEPT ![t] = Len(rs)]
            /\ Goto(t, "getOrPut")
            /\ UNCHANGED <<called, served, returned>>
      /\ UNCHANGED <<attached, table, sets, attaches, unregs, into, attaching, excused>>

\* Faulty variant: a new set takes the place of the old one.
RegisterNewSet(t) ==
  /\ pc[t] = "getOrPut"
  /\ table' = [table EXCEPT ![regs[reg[t]].pkg] = reg[t]]
  /\ into' = [into EXCEPT ![t] = reg[t]]
  /\ Goto(t, "add")
  /\ UNCHANGED <<attached, sets, regs, attaches, unregs, reg, attaching,
                 called, served, returned, excused>>

\* appAttachListeners.getOrPut(packageName) { mutableSetOf() }
RegisterGetOrPut(t) ==
  LET p == regs[reg[t]].pkg
      n == IF table[p] = 0 THEN reg[t] ELSE table[p]
  IN  /\ pc[t] = "getOrPut"
      /\ table' = [table EXCEPT ![p] = n]
      /\ into' = [into EXCEPT ![t] = n]
      /\ Goto(t, "add")
      /\ UNCHANGED <<attached, sets, regs, attaches, unregs, reg, attaching,
                     called, served, returned, excused>>

\* synchronized(listeners) { listeners.add(listener) }
RegisterAdd(t) ==
  /\ pc[t] = "add"
  /\ sets' = [sets EXCEPT ![into[t]] = @ \cup {regs[reg[t]].listener}]
  /\ returned' = returned \cup {reg[t]}
  /\ Goto(t, "idle")
  /\ reg' = [reg EXCEPT ![t] = 0]
  /\ into' = [into EXCEPT ![t] = 0]
  /\ UNCHANGED <<attached, table, regs, attaches, unregs, attaching,
                 called, served, excused>>

\* unregisterAppAttachListeners(packageName).  Ghost: it cancels the
\* registrations of the package that have begun.
Unregister(t, p) ==
  /\ pc[t] = "idle"
  /\ unregs < MaxUnregs
  /\ unregs' = unregs + 1
  /\ table' = [table EXCEPT ![p] = 0]
  /\ excused' = excused \cup {r \in Registrations : regs[r].pkg = p}
  /\ UNCHANGED <<attached, sets, regs, attaches, pc, registering, attaching,
                 called, served, returned>>

----
\* The callback prepare() puts on Application.attach, after the original

\* attachedApplications[packageName] = application.  Ghost: the registrations
\* in progress have not seen the application and may be too late for its call.
Attach(a, p) ==
  /\ pc[a] = "idle"
  /\ attaches < MaxAttaches
  /\ attaches' = attaches + 1
  /\ attached' = attached \cup {p}
  /\ app' = [app EXCEPT ![a] = p]
  /\ Goto(a, "remove")
  /\ excused' = excused \cup {r \in InProgress : regs[r].pkg = p}
  /\ UNCHANGED <<table, sets, regs, unregs, registering, took, toCall,
                 called, served, returned>>

\* Faulty variant: the listeners stay in the table.
AttachKeepSet(a) ==
  /\ pc[a] = "remove"
  /\ took' = [took EXCEPT ![a] = table[app[a]]]
  /\ Goto(a, IF table[app[a]] = 0 THEN "idle" ELSE "copy")
  /\ UNCHANGED <<attached, table, sets, regs, attaches, unregs, registering, app,
                 toCall, called, served, returned, excused>>

\* Faulty variant: no test for a missing set.
AttachNoReturn(a) ==
  /\ pc[a] = "remove"
  /\ took' = [took EXCEPT ![a] = table[app[a]]]
  /\ table' = [table EXCEPT ![app[a]] = 0]
  /\ Goto(a, "copy")
  /\ UNCHANGED <<attached, sets, regs, attaches, unregs, registering, app,
                 toCall, called, served, returned, excused>>

\* appAttachListeners.remove(packageName) ?: return
AttachRemove(a) ==
  LET p == app[a]
  IN  /\ pc[a] = "remove"
      /\ took' = [took EXCEPT ![a] = table[p]]
      /\ table' = [table EXCEPT ![p] = 0]
      /\ Goto(a, IF table[p] = 0 THEN "idle" ELSE "copy")
      /\ UNCHANGED <<attached, sets, regs, attaches, unregs, registering, app,
                     toCall, called, served, returned, excused>>

\* synchronized(listeners) { listeners.toList() }
AttachCopy(a) ==
  /\ pc[a] = "copy"
  /\ toCall' = [toCall EXCEPT ![a] = sets[took[a]]]
  /\ took' = [took EXCEPT ![a] = 0]
  /\ Goto(a, "call")
  /\ UNCHANGED <<attached, table, sets, regs, attaches, unregs, registering, app,
                 called, served, returned, excused>>

\* forEach { listener -> listener(application) }
AttachCall(a) ==
  /\ pc[a] = "call"
  /\ \/ /\ toCall[a] = {}
        /\ Goto(a, "idle")
        /\ UNCHANGED <<toCall, called, served>>
     \/ \E l \in toCall[a] :
          /\ toCall' = [toCall EXCEPT ![a] = @ \ {l}]
          /\ Call(app[a], {l}, regs)
          /\ UNCHANGED pc
  /\ UNCHANGED <<attached, table, sets, regs, attaches, unregs, registering, app,
                 took, returned, excused>>

\* A listener throws: it has been called, the rest of the list is not.
AttachCallThrows(a) ==
  /\ pc[a] = "call"
  /\ \E l \in toCall[a] :
       /\ Call(app[a], {l}, regs)
       /\ excused' = excused \cup
            {r \in Registrations : regs[r].pkg = app[a] /\ regs[r].listener \in toCall[a]}
  /\ toCall' = [toCall EXCEPT ![a] = {}]
  /\ Goto(a, "idle")
  /\ UNCHANGED <<attached, table, sets, regs, attaches, unregs, registering, app,
                 took, returned>>

----
RegisterStep(t) == RegisterGetOrPut(t) \/ RegisterAdd(t)
AttachStep(a) == AttachRemove(a) \/ AttachCopy(a) \/ AttachCall(a) \/ AttachCallThrows(a)

Next ==
  \/ \E t \in Threads :
       \/ \E p \in Packages, l \in Listeners : Register(t, p, l)
       \/ \E p \in Packages : Unregister(t, p)
       \/ RegisterStep(t)
  \/ \E a \in AppThreads :
       \/ \E p \in Packages : Attach(a, p)
       \/ AttachStep(a)

\* No step waits for another thread longer than for a synchronized block, so a
\* thread that has begun an operation goes on with it.
Fairness ==
  /\ \A t \in Threads : WF_vars(RegisterStep(t))
  /\ \A a \in AppThreads : WF_vars(AttachStep(a))

Spec == Init /\ [][Next]_vars /\ Fairness

----
\* A listener is not called more often than it was registered for the package,
\* however registrations, attaches and unregistrations overlap.
\* (XposedKit.kt 58-63, 222-233)
CalledOncePerRegistration ==
  \A p \in Packages, l \in Listeners :
    called[<<p, l>>] <= Cardinality({r \in Registrations :
                                       regs[r].pkg = p /\ regs[r].listener = l})

\* Once the application has attached and nothing is under way, every listener
\* registered for it has been called, unless the package was unregistered, a
\* listener before it threw, or the registration was under way when the
\* application attached: then it may be lost.  (XposedKit.kt 56-63, 223-232)
RegisteredIsCalled ==
  \A r \in returned \ excused :
    /\ regs[r].pkg \in attached
    /\ \A t \in Threads \cup AppThreads : pc[t] = "idle"
    => r \in served

\* The same as progress: the call does come.
RegisteredEventuallyCalled ==
  \A r \in 1..MaxRegs :
    r \in returned /\ regs[r].pkg \in attached ~> r \in served \cup excused
====
