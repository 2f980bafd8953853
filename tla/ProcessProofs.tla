---- MODULE ProcessProofs ----
(***************************************************************************)
(* A module in the process of its host.                                    *)
(*                                                                         *)
(* The listeners of AppAttach for any number of threads, packages,         *)
(* listeners and registrations: none is lost, none is called too often.    *)
(* Then the start of the module, which is what hooks Application.attach    *)
(* for them: Startup for any packages and any number of loads.  Then the   *)
(* two in one process (HostProcess): a listener registered from whatever   *)
(* callback of the start is reached.  Last the activities it starts        *)
(* there: ProxyActivity for any number of wrappers and starts, however     *)
(* often other code wraps the Instrumentation.                             *)
(***************************************************************************)
EXTENDS HostProcess, ProxyActivity, FiniteSetTheorems, WellFoundedInduction, SequenceTheorems, TLAPS

USE BoundsAssumption, ThreadsAssumption

\* Where the threads are, what their locals hold, and that two threads make two
\* registrations
Label == {"idle", "getOrPut", "add", "remove", "copy", "call"}

Locals ==
  /\ \A t \in Threads : pc[t] \in {"idle", "getOrPut", "add"}
  /\ \A a \in AppThreads : pc[a] \in {"idle", "remove", "copy", "call"}
  /\ reg \in [Threads -> 0..MaxRegs] /\ into \in [Threads -> 0..MaxRegs]
  /\ took \in [AppThreads -> 0..MaxRegs]
  /\ DOMAIN app = AppThreads

OwnRegistration ==
  \A t, u \in Threads : pc[t] # "idle" /\ pc[u] # "idle" /\ reg[t] = reg[u] => t = u

TypeInv == TypeOK /\ Locals /\ OwnRegistration

\* The declarations, as the proofs use them
LEMMA Types ==
  ASSUME TypeInv
  PROVE  /\ pc \in [Threads \cup AppThreads -> Label]
         /\ attached \subseteq Packages /\ table \in [Packages -> 0..MaxRegs]
         /\ sets \in [1..MaxRegs -> SUBSET Listeners]
         /\ reg \in [Threads -> 0..MaxRegs] /\ into \in [Threads -> 0..MaxRegs]
         /\ took \in [AppThreads -> 0..MaxRegs] /\ DOMAIN app = AppThreads
         /\ toCall \in [AppThreads -> SUBSET Listeners]
         /\ called \in [Packages \X Listeners -> Nat]
         /\ served \subseteq Registrations /\ returned \subseteq Registrations
         /\ excused \subseteq Registrations
BY DEF TypeInv, TypeOK, Locals, Label

LEMMA Regs ==
  ASSUME TypeInv
  PROVE  /\ Len(regs) \in Nat /\ Len(regs) <= MaxRegs /\ DOMAIN regs = Registrations
         /\ Registrations \subseteq 1..MaxRegs
         /\ \A r \in Registrations : regs[r].pkg \in Packages /\ regs[r].listener \in Listeners
<1>1. regs \in Seq([pkg : Packages, listener : Listeners]) /\ Len(regs) <= MaxRegs
  BY DEF TypeInv, TypeOK
<1>2. Len(regs) \in Nat /\ DOMAIN regs = Registrations
  BY <1>1, LenProperties DEF Registrations
<1>3. \A r \in Registrations : regs[r] \in [pkg : Packages, listener : Listeners]
  BY <1>1, ElementOfSeq DEF Registrations
<1> QED
  BY <1>1, <1>2, <1>3 DEF Registrations

\* A new registration, and the old ones
LEMMA NewRegistration ==
  ASSUME TypeInv, NEW t \in Threads, NEW p \in Packages, NEW l \in Listeners,
         Register(t, p, l)
  PROVE  /\ regs' \in Seq([pkg : Packages, listener : Listeners])
         /\ Len(regs') <= MaxRegs /\ Len(regs') = Len(regs) + 1 /\ Len(regs) + 1 \in 1..MaxRegs
         /\ Len(regs) + 1 \notin Registrations
         /\ Registrations' = Registrations \cup {Len(regs) + 1}
         /\ regs'[Len(regs) + 1].pkg = p /\ regs'[Len(regs) + 1].listener = l
         /\ \A r \in Registrations : regs'[r] = regs[r]
         /\ DOMAIN regs' = Registrations'
<1> DEFINE x == [pkg |-> p, listener |-> l]
           R == [pkg : Packages, listener : Listeners]
<1>1. regs \in Seq(R) /\ Len(regs) \in Nat
  BY Regs DEF TypeInv, TypeOK
<1>2. regs' = Append(regs, x) /\ Len(regs) < MaxRegs
  BY DEF Register
<1>3. x \in R /\ x.pkg = p /\ x.listener = l
  OBVIOUS
<1>4. /\ regs' \in Seq(R) /\ Len(regs') = Len(regs) + 1 /\ regs'[Len(regs) + 1] = x
      /\ \A r \in 1..Len(regs) : regs'[r] = regs[r]
      /\ DOMAIN regs' = 1..(Len(regs) + 1)
  <2> HIDE DEF x, R
  <2> QED
    BY <1>1, <1>2, <1>3, AppendProperties, LenProperties
<1> QED
  BY <1>1, <1>2, <1>3, <1>4 DEF Registrations

\* What the parts of Next leave alone
LEMMA RegisterNowFrame ==
  ASSUME TypeInv, NEW t \in Threads, NEW p \in Packages, NEW l \in Listeners,
         Register(t, p, l), p \in attached
  PROVE  /\ pc' = pc /\ reg' = reg /\ pc[t] = "idle"
         /\ attached' = attached /\ table' = table /\ sets' = sets /\ attaches' = attaches
         /\ unregs' = unregs /\ into' = into /\ app' = app /\ took' = took
         /\ toCall' = toCall /\ excused' = excused
         /\ returned' = returned \cup {Len(regs) + 1}
         /\ called' = [pl \in Packages \X Listeners |->
                         called[pl] + IF pl[1] = p /\ pl[2] \in {l} THEN 1 ELSE 0]
         /\ served' = served \cup {r \in DOMAIN regs' :
                                     regs'[r].pkg = p /\ regs'[r].listener \in {l}}
<1>1. Len(regs') = Len(regs) + 1 /\ regs' = Append(regs, [pkg |-> p, listener |-> l])
  BY NewRegistration DEF Register
<1> QED
  BY <1>1 DEF Register, Call, attaching

LEMMA RegisterLaterFrame ==
  ASSUME TypeInv, NEW t \in Threads, NEW p \in Packages, NEW l \in Listeners,
         Register(t, p, l), p \notin attached
  PROVE  /\ pc[t] = "idle" /\ pc' = [pc EXCEPT ![t] = "getOrPut"]
         /\ reg' = [reg EXCEPT ![t] = Len(regs) + 1]
         /\ attached' = attached /\ table' = table /\ sets' = sets /\ attaches' = attaches
         /\ unregs' = unregs /\ into' = into /\ app' = app /\ took' = took
         /\ toCall' = toCall /\ excused' = excused
         /\ returned' = returned /\ called' = called /\ served' = served
<1>1. Len(regs') = Len(regs) + 1 /\ regs' = Append(regs, [pkg |-> p, listener |-> l])
  BY NewRegistration DEF Register
<1> QED
  BY <1>1 DEF Register, attaching, Goto

----
LEMMA InitTypeInv == Init => TypeInv
<1> SUFFICES ASSUME Init PROVE TypeInv
  OBVIOUS
<1>1. regs \in Seq([pkg : Packages, listener : Listeners]) /\ Len(regs) <= MaxRegs
  BY DEF Init
<1>2. /\ served = {} /\ returned = {} /\ excused = {}
      /\ \A t \in Threads \cup AppThreads : pc[t] = "idle"
  BY DEF Init
<1>3. /\ attached \subseteq Packages /\ table \in [Packages -> 0..MaxRegs]
      /\ sets \in [1..MaxRegs -> SUBSET Listeners]
      /\ attaches \in 0..MaxAttaches /\ unregs \in 0..MaxUnregs
      /\ pc \in [Threads \cup AppThreads -> Label]
      /\ toCall \in [AppThreads -> SUBSET Listeners]
      /\ called \in [Packages \X Listeners -> Nat]
  BY DEF Init, Label
<1>4. TypeOK
  BY <1>1, <1>2, <1>3 DEF TypeOK, Label
<1> QED
  BY <1>2, <1>4 DEF Init, TypeInv, Locals, OwnRegistration

\* A call counts once.
LEMMA CallCounts ==
  ASSUME TypeInv, NEW p \in Packages, NEW l \in Listeners, NEW rs, Call(p, {l}, rs)
  PROVE  /\ called' \in [Packages \X Listeners -> Nat]
         /\ called'[<<p, l>>] = called[<<p, l>>] + 1
         /\ \A q \in Packages, k \in Listeners :
              <<q, k>> # <<p, l>> => called'[<<q, k>>] = called[<<q, k>>]
<1> DEFINE one(pl) == IF pl[1] = p /\ pl[2] \in {l} THEN 1 ELSE 0
<1>1. called \in [Packages \X Listeners -> Nat]
  BY Types
<1>2. called' = [pl \in Packages \X Listeners |-> called[pl] + one(pl)]
  BY DEF Call
<1>3. \A pl \in Packages \X Listeners : one(pl) \in {0, 1}
  OBVIOUS
<1>4. \A pl \in Packages \X Listeners : called[pl] + one(pl) \in Nat
  <2> HIDE DEF one
  <2> QED
    BY <1>1, <1>3
<1>5. called' \in [Packages \X Listeners -> Nat]
  <2> HIDE DEF one
  <2> QED
    BY <1>2, <1>4
<1>6. called'[<<p, l>>] = called[<<p, l>>] + 1
  BY <1>2
<1>7. ASSUME NEW q \in Packages, NEW k \in Listeners, <<q, k>> # <<p, l>>
      PROVE  called'[<<q, k>>] = called[<<q, k>>]
  <2>1. called[<<q, k>>] \in Nat
    BY <1>1
  <2>2. one(<<q, k>>) = 0
    BY <1>7
  <2>3. called'[<<q, k>>] = called[<<q, k>>] + one(<<q, k>>)
    BY <1>2
  <2> QED
    BY <2>1, <2>2, <2>3
<1> QED
  BY <1>5, <1>6, <1>7

LEMMA RegisterTyped ==
  ASSUME TypeInv, NEW t \in Threads, NEW p \in Packages, NEW l \in Listeners,
         Register(t, p, l)
  PROVE  TypeInv'
<1> DEFINE n == Len(regs) + 1
<1>1. /\ regs' \in Seq([pkg : Packages, listener : Listeners])
      /\ Len(regs') <= MaxRegs /\ n \in 1..MaxRegs /\ n \notin Registrations
      /\ Registrations' = Registrations \cup {n} /\ DOMAIN regs' = Registrations'
  BY NewRegistration
<1>2. CASE p \in attached
  <2>1. served' \subseteq Registrations' /\ returned' \subseteq Registrations'
    BY <1>1, <1>2, RegisterNowFrame, Types
  <2>2. called' \in [Packages \X Listeners -> Nat]
    <3>1. Call(p, {l}, Append(regs, [pkg |-> p, listener |-> l]))
      BY <1>2 DEF Register
    <3> QED
      BY <3>1, CallCounts
  <2>3. \A u \in Threads : pc'[u] # "idle" => reg'[u] \in Registrations' \ returned'
    BY <1>1, <1>2, RegisterNowFrame DEF TypeInv, TypeOK
  <2>4. TypeOK'
    BY <1>1, <1>2, <2>1, <2>2, <2>3, RegisterNowFrame DEF TypeInv, TypeOK
  <2> QED
    BY <1>2, <2>4, RegisterNowFrame DEF TypeInv, Locals, OwnRegistration
<1>3. CASE p \notin attached
  <2>1. /\ pc[t] = "idle" /\ pc' = [pc EXCEPT ![t] = "getOrPut"]
        /\ reg' = [reg EXCEPT ![t] = n]
        /\ pc \in [Threads \cup AppThreads -> Label] /\ reg \in [Threads -> 0..MaxRegs]
    BY <1>3, RegisterLaterFrame, Types
  <2>2. \A u \in Threads \cup AppThreads : u # t => pc'[u] = pc[u]
    BY <2>1
  <2>3. \A u \in Threads : u # t => reg'[u] = reg[u]
    BY <2>1
  <2>4. /\ pc'[t] = "getOrPut" /\ reg'[t] = n
        /\ pc' \in [Threads \cup AppThreads -> Label] /\ reg' \in [Threads -> 0..MaxRegs]
    BY <1>1, <2>1 DEF Label
  <2>5. \A u \in Threads : pc'[u] # "idle" => reg'[u] \in Registrations' \ returned'
    <3>1. returned' = returned /\ n \notin returned
      BY <1>1, <1>3, RegisterLaterFrame, Types
    <3> QED
      BY <1>1, <2>2, <2>3, <2>4, <3>1 DEF TypeInv, TypeOK
  <2>6. \A u \in Threads : pc'[u] = "add" => into'[u] \in 1..MaxRegs
    BY <1>3, <2>2, <2>4, RegisterLaterFrame DEF TypeInv, TypeOK
  <2>7. /\ \A a \in AppThreads : pc'[a] # "idle" => app'[a] \in attached'
        /\ \A a \in AppThreads : pc'[a] = "copy" => took'[a] \in 1..MaxRegs
    BY <1>3, <2>2, RegisterLaterFrame DEF TypeInv, TypeOK
  <2>8. TypeOK'
    BY <1>1, <1>3, <2>4, <2>5, <2>6, <2>7, RegisterLaterFrame DEF TypeInv, TypeOK, Label
  <2>9. Locals'
    BY <1>3, <2>2, <2>4, RegisterLaterFrame DEF TypeInv, Locals
  <2>10. OwnRegistration'
    <3>1. \A u \in Threads : pc[u] # "idle" => reg[u] # n
      BY <1>1 DEF TypeInv, TypeOK
    <3>2. ASSUME NEW u \in Threads, NEW v \in Threads, pc'[u] # "idle", reg'[u] = reg'[v],
                 pc'[v] # "idle"
          PROVE  u = v
      BY <2>2, <2>3, <2>4, <3>1, <3>2 DEF TypeInv, OwnRegistration
    <3> QED
      BY <3>2 DEF OwnRegistration
  <2> QED
    BY <2>8, <2>9, <2>10 DEF TypeInv
<1> QED
  BY <1>2, <1>3

LEMMA GetOrPutTyped ==
  ASSUME TypeInv, NEW t \in Threads, RegisterGetOrPut(t)
  PROVE  TypeInv'
<1> DEFINE p == regs[reg[t]].pkg
           n == IF table[p] = 0 THEN reg[t] ELSE table[p]
<1>1. /\ pc[t] = "getOrPut" /\ pc' = [pc EXCEPT ![t] = "add"]
      /\ table' = [table EXCEPT ![p] = n] /\ into' = [into EXCEPT ![t] = n]
  BY DEF RegisterGetOrPut, Goto
<1>2. /\ attached' = attached /\ sets' = sets /\ regs' = regs /\ attaches' = attaches
      /\ unregs' = unregs /\ reg' = reg /\ app' = app /\ took' = took /\ toCall' = toCall
      /\ called' = called /\ served' = served /\ returned' = returned /\ excused' = excused
  BY DEF RegisterGetOrPut, attaching
<1>3. reg[t] \in Registrations /\ p \in Packages /\ reg[t] \in 1..MaxRegs
  BY <1>1, Regs DEF TypeInv, TypeOK
<1>4. n \in 1..MaxRegs
  BY <1>3, Types
<1>5. /\ table' \in [Packages -> 0..MaxRegs] /\ into' \in [Threads -> 0..MaxRegs]
      /\ pc' \in [Threads \cup AppThreads -> Label]
  BY <1>1, <1>3, <1>4, Types DEF Label
<1>6. /\ pc'[t] = "add" /\ into'[t] = n
      /\ \A u \in Threads \cup AppThreads : u # t => pc'[u] = pc[u]
      /\ \A u \in Threads : u # t => into'[u] = into[u]
  BY <1>1, Types
<1>7. Registrations' = Registrations
  BY <1>2 DEF Registrations
<1>8. TypeOK'
  <2>1. \A u \in Threads : pc'[u] # "idle" => reg'[u] \in Registrations' \ returned'
    BY <1>1, <1>2, <1>6, <1>7 DEF TypeInv, TypeOK
  <2>2. \A u \in Threads : pc'[u] = "add" => into'[u] \in 1..MaxRegs
    BY <1>4, <1>6 DEF TypeInv, TypeOK
  <2>3. /\ \A a \in AppThreads : pc'[a] # "idle" => app'[a] \in attached'
        /\ \A a \in AppThreads : pc'[a] = "copy" => took'[a] \in 1..MaxRegs
    BY <1>2, <1>6 DEF TypeInv, TypeOK
  <2> QED
    BY <1>2, <1>5, <1>7, <2>1, <2>2, <2>3 DEF TypeInv, TypeOK, Label
<1>9. Locals'
  BY <1>2, <1>5, <1>6 DEF TypeInv, Locals
<1>10. OwnRegistration'
  BY <1>1, <1>2, <1>6 DEF TypeInv, OwnRegistration
<1> QED
  BY <1>8, <1>9, <1>10 DEF TypeInv

LEMMA AddTyped ==
  ASSUME TypeInv, NEW t \in Threads, RegisterAdd(t)
  PROVE  TypeInv'
<1> DEFINE n == into[t]
           l == regs[reg[t]].listener
<1>1. /\ pc[t] = "add" /\ pc' = [pc EXCEPT ![t] = "idle"]
      /\ sets' = [sets EXCEPT ![n] = @ \cup {l}]
      /\ returned' = returned \cup {reg[t]}
      /\ reg' = [reg EXCEPT ![t] = 0] /\ into' = [into EXCEPT ![t] = 0]
  BY DEF RegisterAdd, Goto
<1>2. /\ attached' = attached /\ table' = table /\ regs' = regs /\ attaches' = attaches
      /\ unregs' = unregs /\ app' = app /\ took' = took /\ toCall' = toCall
      /\ called' = called /\ served' = served /\ excused' = excused
  BY DEF RegisterAdd, attaching
<1>3. reg[t] \in Registrations /\ l \in Listeners /\ n \in 1..MaxRegs
  BY <1>1, Regs DEF TypeInv, TypeOK
<1>4. /\ sets' \in [1..MaxRegs -> SUBSET Listeners]
      /\ reg' \in [Threads -> 0..MaxRegs] /\ into' \in [Threads -> 0..MaxRegs]
      /\ pc' \in [Threads \cup AppThreads -> Label]
  BY <1>1, <1>3, Types DEF Label
<1>5. /\ pc'[t] = "idle"
      /\ \A u \in Threads \cup AppThreads : u # t => pc'[u] = pc[u]
      /\ \A u \in Threads : u # t => into'[u] = into[u] /\ reg'[u] = reg[u]
  BY <1>1, Types
<1>6. Registrations' = Registrations
  BY <1>2 DEF Registrations
<1>7. TypeOK'
  <2>1. \A u \in Threads : pc'[u] # "idle" => reg'[u] \in Registrations' \ returned'
    <3> SUFFICES ASSUME NEW u \in Threads, pc'[u] # "idle"
                 PROVE  reg'[u] \in Registrations' \ returned'
      OBVIOUS
    <3>1. u # t /\ pc[u] # "idle" /\ reg'[u] = reg[u]
      BY <1>5
    <3>2. reg[u] \in Registrations \ returned /\ reg[u] # reg[t]
      BY <1>1, <3>1 DEF TypeInv, TypeOK, OwnRegistration
    <3> QED BY <1>1, <1>6, <3>1, <3>2
  <2>2. \A u \in Threads : pc'[u] = "add" => into'[u] \in 1..MaxRegs
    BY <1>5 DEF TypeInv, TypeOK
  <2>3. /\ \A a \in AppThreads : pc'[a] # "idle" => app'[a] \in attached'
        /\ \A a \in AppThreads : pc'[a] = "copy" => took'[a] \in 1..MaxRegs
    BY <1>1, <1>2, <1>5 DEF TypeInv, TypeOK, Locals
  <2>4. returned' \subseteq Registrations
    BY <1>1, <1>3, Types
  <2> QED
    BY <1>2, <1>4, <1>6, <2>1, <2>2, <2>3, <2>4 DEF TypeInv, TypeOK, Label
<1>8. Locals'
  BY <1>2, <1>4, <1>5 DEF TypeInv, Locals
<1>9. OwnRegistration'
  BY <1>5 DEF TypeInv, OwnRegistration
<1> QED
  BY <1>7, <1>8, <1>9 DEF TypeInv

LEMMA UnregisterTyped ==
  ASSUME TypeInv, NEW t \in Threads, NEW p \in Packages, Unregister(t, p)
  PROVE  TypeInv'
<1>1. /\ attached' = attached /\ sets' = sets /\ regs' = regs /\ attaches' = attaches
      /\ pc' = pc /\ reg' = reg /\ into' = into /\ app' = app /\ took' = took
      /\ toCall' = toCall /\ called' = called /\ served' = served /\ returned' = returned
  BY DEF Unregister, registering, attaching
<1>2. /\ table' \in [Packages -> 0..MaxRegs] /\ Registrations' = Registrations
      /\ excused' \subseteq Registrations
  BY <1>1, Types DEF Unregister, Registrations
<1>3. unregs' \in 0..MaxUnregs
  BY DEF Unregister, TypeInv, TypeOK
<1>4. TypeOK'
  BY <1>1, <1>2, <1>3 DEF TypeInv, TypeOK
<1> QED
  BY <1>1, <1>4 DEF TypeInv, Locals, OwnRegistration

LEMMA AttachTyped ==
  ASSUME TypeInv, NEW a \in AppThreads, NEW p \in Packages, Attach(a, p)
  PROVE  TypeInv'
<1>1. /\ pc[a] = "idle" /\ pc' = [pc EXCEPT ![a] = "remove"]
      /\ app' = [app EXCEPT ![a] = p] /\ attached' = attached \cup {p}
      /\ excused' = excused \cup {r \in InProgress : regs[r].pkg = p}
  BY DEF Attach, Goto
<1>2. /\ table' = table /\ sets' = sets /\ regs' = regs /\ unregs' = unregs
      /\ reg' = reg /\ into' = into /\ took' = took /\ toCall' = toCall
      /\ called' = called /\ served' = served /\ returned' = returned
  BY DEF Attach, registering
<1>3. /\ pc'[a] = "remove" /\ app'[a] = p /\ DOMAIN app' = AppThreads
      /\ pc' \in [Threads \cup AppThreads -> Label]
      /\ \A b \in Threads \cup AppThreads : b # a => pc'[b] = pc[b]
      /\ \A b \in AppThreads : b # a => app'[b] = app[b]
  BY <1>1, Types DEF Label
<1>4. a \notin Threads
  OBVIOUS
<1>5. Registrations' = Registrations /\ excused' \subseteq Registrations
  <2>1. InProgress \subseteq Registrations
    BY DEF InProgress, TypeInv, TypeOK
  <2> QED
    BY <1>1, <1>2, <2>1, Types DEF Registrations
<1>6. attaches' \in 0..MaxAttaches
  BY DEF Attach, TypeInv, TypeOK
<1>7. TypeOK'
  <2>1. /\ \A t \in Threads : pc'[t] # "idle" => reg'[t] \in Registrations' \ returned'
        /\ \A t \in Threads : pc'[t] = "add" => into'[t] \in 1..MaxRegs
    BY <1>2, <1>3, <1>4, <1>5 DEF TypeInv, TypeOK
  <2>2. /\ \A b \in AppThreads : pc'[b] # "idle" => app'[b] \in attached'
        /\ \A b \in AppThreads : pc'[b] = "copy" => took'[b] \in 1..MaxRegs
    BY <1>1, <1>2, <1>3 DEF TypeInv, TypeOK
  <2>3. attached' \subseteq Packages
    BY <1>1, Types
  <2> QED
    BY <1>2, <1>3, <1>5, <1>6, <2>1, <2>2, <2>3 DEF TypeInv, TypeOK, Label
<1>8. Locals'
  BY <1>2, <1>3, <1>4 DEF TypeInv, Locals
<1>9. OwnRegistration'
  BY <1>2, <1>3, <1>4 DEF TypeInv, OwnRegistration
<1> QED
  BY <1>7, <1>8, <1>9 DEF TypeInv

\* What the steps of an app thread in the callback have in common
LEMMA AttachStepFrame ==
  ASSUME TypeInv, NEW a \in AppThreads, AttachStep(a)
  PROVE  /\ attached' = attached /\ sets' = sets /\ regs' = regs /\ attaches' = attaches
         /\ unregs' = unregs /\ reg' = reg /\ into' = into /\ app' = app
         /\ returned' = returned /\ Registrations' = Registrations
         /\ a \notin Threads /\ pc[a] # "idle" /\ app[a] \in attached
         /\ pc'[a] \in {"idle", "copy", "call"}
         /\ pc' \in [Threads \cup AppThreads -> Label]
         /\ \A b \in Threads \cup AppThreads : b # a => pc'[b] = pc[b]
         /\ \A b \in AppThreads : b # a => took'[b] = took[b] /\ toCall'[b] = toCall[b]
         /\ excused \subseteq excused' /\ served \subseteq served'
<1>1. /\ attached' = attached /\ sets' = sets /\ regs' = regs /\ attaches' = attaches
      /\ unregs' = unregs /\ reg' = reg /\ into' = into /\ app' = app
      /\ returned' = returned
  BY DEF AttachStep, AttachRemove, AttachCopy, AttachCall, AttachCallThrows, registering
<1>2. Registrations' = Registrations
  BY <1>1 DEF Registrations
<1>3. pc[a] # "idle" /\ app[a] \in attached
  BY DEF AttachStep, AttachRemove, AttachCopy, AttachCall, AttachCallThrows, TypeInv, TypeOK
<1>4. \E l \in {"idle", "copy", "call"} : pc' = [pc EXCEPT ![a] = l]
  <2>1. CASE AttachRemove(a)
    BY <2>1 DEF AttachRemove, Goto
  <2>2. CASE AttachCopy(a)
    BY <2>2 DEF AttachCopy, Goto
  <2>3. CASE AttachCall(a)
    <3>1. pc[a] = "call" /\ (pc' = pc \/ pc' = [pc EXCEPT ![a] = "idle"])
      BY <2>3 DEF AttachCall, Goto
    <3>2. pc = [pc EXCEPT ![a] = pc[a]]
      BY Types
    <3> QED
      BY <3>1, <3>2
  <2>4. CASE AttachCallThrows(a)
    BY <2>4 DEF AttachCallThrows, Goto
  <2> QED
    BY <2>1, <2>2, <2>3, <2>4 DEF AttachStep
<1>5. /\ pc'[a] \in {"idle", "copy", "call"}
      /\ pc' \in [Threads \cup AppThreads -> Label]
      /\ \A b \in Threads \cup AppThreads : b # a => pc'[b] = pc[b]
  BY <1>4, Types DEF Label
<1>6. \A b \in AppThreads : b # a => took'[b] = took[b] /\ toCall'[b] = toCall[b]
  BY Types DEF AttachStep, AttachRemove, AttachCopy, AttachCall, AttachCallThrows
<1>7. excused \subseteq excused'
  BY DEF AttachStep, AttachRemove, AttachCopy, AttachCall, AttachCallThrows
<1>8. served \subseteq served'
  BY DEF AttachStep, AttachRemove, AttachCopy, AttachCall, AttachCallThrows, Call
<1> QED
  BY <1>1, <1>2, <1>3, <1>5, <1>6, <1>7, <1>8

LEMMA AttachStepTyped ==
  ASSUME TypeInv, NEW a \in AppThreads, AttachStep(a)
  PROVE  TypeInv'
<1>1. /\ attached' = attached /\ sets' = sets /\ regs' = regs /\ attaches' = attaches
      /\ unregs' = unregs /\ reg' = reg /\ into' = into /\ app' = app
      /\ returned' = returned /\ Registrations' = Registrations
      /\ a \notin Threads /\ pc[a] # "idle" /\ app[a] \in attached
      /\ pc'[a] \in {"idle", "copy", "call"}
      /\ pc' \in [Threads \cup AppThreads -> Label]
      /\ \A b \in Threads \cup AppThreads : b # a => pc'[b] = pc[b]
      /\ \A b \in AppThreads : b # a => took'[b] = took[b] /\ toCall'[b] = toCall[b]
  BY AttachStepFrame
<1>2. app[a] \in Packages
  BY <1>1, Types
<1>3. table' \in [Packages -> 0..MaxRegs]
  BY <1>2, Types DEF AttachStep, AttachRemove, AttachCopy, AttachCall, AttachCallThrows
<1>4. /\ took' \in [AppThreads -> 0..MaxRegs]
      /\ pc'[a] = "copy" => took'[a] \in 1..MaxRegs
  <2>1. CASE AttachRemove(a)
    <3>1. table[app[a]] \in 0..MaxRegs
      BY <1>2, Types
    <3>2. took' = [took EXCEPT ![a] = table[app[a]]]
      BY <2>1 DEF AttachRemove
    <3>3. pc'[a] = "copy" => table[app[a]] # 0
      BY <2>1, Types DEF AttachRemove, Goto
    <3> QED
      BY <3>1, <3>2, <3>3, Types
  <2>2. CASE AttachCopy(a)
    BY <2>2, Types DEF AttachCopy, Goto
  <2>3. CASE AttachCall(a) \/ AttachCallThrows(a)
    BY <2>3, Types DEF AttachCall, AttachCallThrows, Goto
  <2> QED
    BY <2>1, <2>2, <2>3 DEF AttachStep
<1>5. toCall' \in [AppThreads -> SUBSET Listeners]
  <2>1. CASE AttachCopy(a)
    <3>1. sets[took[a]] \in SUBSET Listeners
      BY <2>1, Types DEF AttachCopy, TypeInv, TypeOK
    <3> QED
      BY <2>1, <3>1, Types DEF AttachCopy
  <2>2. CASE ~AttachCopy(a)
    BY <2>2, Types DEF AttachStep, AttachRemove, AttachCall, AttachCallThrows
  <2> QED
    BY <2>1, <2>2
<1>6. called' \in [Packages \X Listeners -> Nat]
  <2>1. CASE \E l \in toCall[a] : Call(app[a], {l}, regs)
    BY <1>2, <2>1, CallCounts, Types
  <2>2. CASE called' = called
    BY <2>2, Types
  <2> QED
    BY <2>1, <2>2 DEF AttachStep, AttachRemove, AttachCopy, AttachCall, AttachCallThrows
<1>7. served' \subseteq Registrations /\ excused' \subseteq Registrations
  BY Types, Regs DEF AttachStep, AttachRemove, AttachCopy, AttachCall, AttachCallThrows, Call
<1>8. TypeOK'
  <2>1. /\ \A t \in Threads : pc'[t] # "idle" => reg'[t] \in Registrations' \ returned'
        /\ \A t \in Threads : pc'[t] = "add" => into'[t] \in 1..MaxRegs
    BY <1>1 DEF TypeInv, TypeOK
  <2>2. /\ \A b \in AppThreads : pc'[b] # "idle" => app'[b] \in attached'
        /\ \A b \in AppThreads : pc'[b] = "copy" => took'[b] \in 1..MaxRegs
    BY <1>1, <1>4 DEF TypeInv, TypeOK
  <2> QED
    BY <1>1, <1>3, <1>5, <1>6, <1>7, <2>1, <2>2 DEF TypeInv, TypeOK, Label
<1>9. Locals'
  BY <1>1, <1>4 DEF TypeInv, Locals
<1>10. OwnRegistration'
  BY <1>1 DEF TypeInv, OwnRegistration
<1> QED
  BY <1>8, <1>9, <1>10 DEF TypeInv

LEMMA NextTypeInv == TypeInv /\ [Next]_vars => TypeInv'
<1> SUFFICES ASSUME TypeInv, [Next]_vars PROVE TypeInv'
  OBVIOUS
<1>1. CASE UNCHANGED vars
  BY <1>1 DEF vars, registering, attaching, TypeInv, TypeOK, Locals, OwnRegistration,
     Registrations
<1>2. CASE Next
  BY <1>2, RegisterTyped, GetOrPutTyped, AddTyped, UnregisterTyped, AttachTyped,
     AttachStepTyped DEF Next, RegisterStep
<1> QED
  BY <1>1, <1>2

\* The maps, the listener sets and the locals of the threads are what their
\* declarations say.  (XposedKit.kt 31-32, 51-75, 214-236)
THEOREM TypeCorrect == Spec => []TypeOK
<1>1. TypeInv => TypeOK
  BY DEF TypeInv
<1> QED
  BY <1>1, InitTypeInv, NextTypeInv, PTL DEF Spec

----
\* A registration in progress that an attach has not overtaken adds to the set in the
\* table.  The listener of one that has returned is in that set, which an app thread
\* is about to take if the application has attached, or an app thread has it to call.
Holds(a, p, l) ==
  /\ app[a] = p
  /\ \/ pc[a] = "copy" /\ l \in sets[took[a]]
     \/ pc[a] = "call" /\ l \in toCall[a]

Holders(p, l) == {a \in AppThreads : Holds(a, p, l)}
InTable(p, l) == table[p] # 0 /\ l \in sets[table[p]]
Taking(p) == \E a \in AppThreads : pc[a] = "remove" /\ app[a] = p

Waiting ==
  \A t \in Threads : pc[t] # "idle" /\ reg[t] \notin excused =>
    /\ regs[reg[t]].pkg \notin attached
    /\ pc[t] = "add" => table[regs[reg[t]].pkg] = into[t]

OnItsWay(p, l) ==
  \/ InTable(p, l) /\ (p \in attached => Taking(p))
  \/ Holders(p, l) # {}

Kept ==
  \A r \in returned \ excused :
    r \notin served => OnItsWay(regs[r].pkg, regs[r].listener)

KeptInv == TypeInv /\ Waiting /\ Kept

LEMMA InitKept == Init => KeptInv
BY InitTypeInv DEF Init, KeptInv, Waiting, Kept

\* A step of another thread takes nothing from the app threads.
LEMMA AppThreadsFrame ==
  ASSUME TypeInv, \A a \in AppThreads : pc'[a] = pc[a], app' = app, took' = took,
         toCall' = toCall, \A n \in 1..MaxRegs : sets[n] \subseteq sets'[n]
  PROVE  /\ \A p : Taking(p)' = Taking(p)
         /\ \A p, l : Holders(p, l) \subseteq Holders(p, l)'
<1>1. \A p : Taking(p)' = Taking(p)
  BY DEF Taking
<1>2. ASSUME NEW p, NEW l, NEW a \in AppThreads, Holds(a, p, l) PROVE Holds(a, p, l)'
  BY <1>2 DEF Holds, TypeInv, TypeOK
<1> QED
  BY <1>1, <1>2 DEF Holders

LEMMA RegisterKept ==
  ASSUME KeptInv, NEW t \in Threads, NEW p \in Packages, NEW l \in Listeners,
         Register(t, p, l)
  PROVE  Waiting' /\ Kept'
<1> DEFINE n == Len(regs) + 1
<1>1. TypeInv
  BY DEF KeptInv
<1>2. /\ Registrations' = Registrations \cup {n} /\ n \notin Registrations
      /\ regs'[n].pkg = p /\ regs'[n].listener = l
      /\ \A r \in Registrations : regs'[r] = regs[r]
      /\ DOMAIN regs' = Registrations'
  BY <1>1, NewRegistration
<1>3. /\ attached' = attached /\ table' = table /\ sets' = sets /\ into' = into
      /\ app' = app /\ took' = took /\ toCall' = toCall /\ excused' = excused
      /\ served \subseteq served'
  BY <1>1, RegisterNowFrame, RegisterLaterFrame
<1>4. /\ pc[t] = "idle" /\ t \notin AppThreads
      /\ \A u \in Threads \cup AppThreads : u # t => pc'[u] = pc[u]
      /\ \A u \in Threads : u # t => reg'[u] = reg[u]
      /\ \/ pc'[t] = "idle" /\ p \in attached
         \/ pc'[t] = "getOrPut" /\ reg'[t] = n /\ p \notin attached
      /\ pc \in [Threads \cup AppThreads -> Label] /\ reg \in [Threads -> 0..MaxRegs]
  BY <1>1, RegisterNowFrame, RegisterLaterFrame, Types
<1>5. returned' = returned \/ (returned' = returned \cup {n} /\ n \in served')
  BY <1>1, <1>2, RegisterNowFrame, RegisterLaterFrame
<1>6. Waiting'
  <2> SUFFICES ASSUME NEW u \in Threads, pc'[u] # "idle", reg'[u] \notin excused
               PROVE  /\ regs'[reg'[u]].pkg \notin attached
                      /\ pc'[u] = "add" => table[regs'[reg'[u]].pkg] = into[u]
    BY <1>3 DEF Waiting
  <2>1. CASE u = t
    BY <1>2, <1>4, <2>1
  <2>2. CASE u # t
    <3>1. pc'[u] = pc[u] /\ reg'[u] = reg[u] /\ reg[u] \in Registrations
      BY <1>1, <1>4, <2>2 DEF TypeInv, TypeOK
    <3> QED
      BY <1>2, <3>1 DEF KeptInv, Waiting
  <2> QED
    BY <2>1, <2>2
<1>7. Kept'
  <2> SUFFICES ASSUME NEW r \in returned' \ excused, r \notin served'
               PROVE  OnItsWay(regs[r].pkg, regs[r].listener)'
    BY <1>3 DEF Kept
  <2>1. r \in returned /\ r \notin served /\ regs'[r] = regs[r]
    BY <1>1, <1>2, <1>3, <1>5, Types
  <2>2. \A q : Taking(q)' = Taking(q)
    BY <1>1, <1>3, <1>4, AppThreadsFrame
  <2>3. \A q, k : Holders(q, k) \subseteq Holders(q, k)'
    BY <1>1, <1>3, <1>4, AppThreadsFrame
  <2>4. OnItsWay(regs[r].pkg, regs[r].listener)
    BY <2>1 DEF KeptInv, Kept
  <2> QED
    BY <1>3, <2>1, <2>2, <2>3, <2>4 DEF OnItsWay, InTable
<1> QED
  BY <1>6, <1>7

LEMMA GetOrPutKept ==
  ASSUME KeptInv, NEW t \in Threads, RegisterGetOrPut(t)
  PROVE  Waiting' /\ Kept'
<1> DEFINE p == regs[reg[t]].pkg
           n == IF table[p] = 0 THEN reg[t] ELSE table[p]
<1>1. TypeInv
  BY DEF KeptInv
<1>2. /\ pc[t] = "getOrPut" /\ pc' = [pc EXCEPT ![t] = "add"]
      /\ table' = [table EXCEPT ![p] = n] /\ into' = [into EXCEPT ![t] = n]
      /\ attached' = attached /\ sets' = sets /\ regs' = regs /\ reg' = reg
      /\ app' = app /\ took' = took /\ toCall' = toCall
      /\ served' = served /\ returned' = returned /\ excused' = excused
  BY DEF RegisterGetOrPut, attaching, Goto
<1>3. reg[t] \in Registrations /\ p \in Packages
  BY <1>1, <1>2, Regs DEF TypeInv, TypeOK
<1>4. /\ table'[p] = n /\ (table[p] # 0 => n = table[p])
      /\ \A q \in Packages : q # p => table'[q] = table[q]
      /\ pc'[t] = "add" /\ into'[t] = n
      /\ \A u \in Threads \cup AppThreads : u # t => pc'[u] = pc[u]
      /\ \A u \in Threads : u # t => into'[u] = into[u]
  BY <1>1, <1>2, <1>3, Types
<1>5. \A q \in Packages : table[q] # 0 => table'[q] = table[q]
  BY <1>4
<1>6. Waiting'
  <2> SUFFICES ASSUME NEW u \in Threads, pc'[u] # "idle", reg[u] \notin excused
               PROVE  /\ regs[reg[u]].pkg \notin attached
                      /\ pc'[u] = "add" => table'[regs[reg[u]].pkg] = into'[u]
    BY <1>2 DEF Waiting
  <2>1. CASE u = t
    BY <1>2, <1>4, <2>1 DEF KeptInv, Waiting
  <2>2. CASE u # t
    <3>1. pc'[u] = pc[u] /\ into'[u] = into[u]
      BY <1>4, <2>2
    <3>2. pc[u] = "add" => /\ table[regs[reg[u]].pkg] = into[u]
                           /\ regs[reg[u]].pkg \in Packages /\ into[u] # 0
      BY <1>1, Regs DEF KeptInv, Waiting, TypeInv, TypeOK
    <3> QED
      BY <1>5, <3>1, <3>2 DEF KeptInv, Waiting
  <2> QED
    BY <2>1, <2>2
<1>7. Kept'
  <2> SUFFICES ASSUME NEW r \in returned \ excused, r \notin served
               PROVE  OnItsWay(regs[r].pkg, regs[r].listener)'
    BY <1>2 DEF Kept
  <2>1. \A q : Taking(q)' = Taking(q)
    BY <1>1, <1>2, <1>4, AppThreadsFrame
  <2>2. \A q, k : Holders(q, k) \subseteq Holders(q, k)'
    BY <1>1, <1>2, <1>4, AppThreadsFrame
  <2>3. OnItsWay(regs[r].pkg, regs[r].listener) /\ regs[r].pkg \in Packages
    BY <1>1, Regs, Types DEF KeptInv, Kept
  <2> QED
    BY <1>2, <1>5, <2>1, <2>2, <2>3 DEF OnItsWay, InTable
<1> QED
  BY <1>6, <1>7

LEMMA AddKept ==
  ASSUME KeptInv, NEW t \in Threads, RegisterAdd(t)
  PROVE  Waiting' /\ Kept'
<1> DEFINE n == into[t]
           l == regs[reg[t]].listener
           p == regs[reg[t]].pkg
<1>1. TypeInv
  BY DEF KeptInv
<1>2. /\ pc[t] = "add" /\ pc' = [pc EXCEPT ![t] = "idle"]
      /\ sets' = [sets EXCEPT ![n] = @ \cup {l}]
      /\ returned' = returned \cup {reg[t]}
      /\ reg' = [reg EXCEPT ![t] = 0] /\ into' = [into EXCEPT ![t] = 0]
      /\ attached' = attached /\ table' = table /\ regs' = regs
      /\ app' = app /\ took' = took /\ toCall' = toCall
      /\ served' = served /\ excused' = excused
  BY DEF RegisterAdd, attaching, Goto
<1>3. reg[t] \in Registrations /\ n \in 1..MaxRegs
  BY <1>1, <1>2 DEF TypeInv, TypeOK
<1>4. /\ l \in sets'[n] /\ \A m \in 1..MaxRegs : sets[m] \subseteq sets'[m]
      /\ pc'[t] = "idle"
      /\ \A u \in Threads \cup AppThreads : u # t => pc'[u] = pc[u]
      /\ \A u \in Threads : u # t => into'[u] = into[u] /\ reg'[u] = reg[u]
  BY <1>1, <1>2, <1>3, Types
<1>5. Waiting'
  BY <1>2, <1>4 DEF KeptInv, Waiting
<1>6. Kept'
  <2> SUFFICES ASSUME NEW r \in returned', r \notin excused, r \notin served
               PROVE  OnItsWay(regs[r].pkg, regs[r].listener)'
    BY <1>2 DEF Kept
  <2>1. CASE r = reg[t]
    <3>1. p \notin attached /\ table[p] = n
      BY <1>2, <2>1 DEF KeptInv, Waiting
    <3> QED
      BY <1>2, <1>3, <1>4, <2>1, <3>1 DEF OnItsWay, InTable
  <2>2. CASE r \in returned
    <3>1. \A q : Taking(q)' = Taking(q)
      BY <1>1, <1>2, <1>4, AppThreadsFrame
    <3>2. \A q, k : Holders(q, k) \subseteq Holders(q, k)'
      BY <1>1, <1>2, <1>4, AppThreadsFrame
    <3>3. /\ OnItsWay(regs[r].pkg, regs[r].listener)
          /\ regs[r].pkg \in Packages /\ table[regs[r].pkg] \in 0..MaxRegs
      BY <1>1, <2>2, Regs, Types DEF KeptInv, Kept
    <3>4. InTable(regs[r].pkg, regs[r].listener) => InTable(regs[r].pkg, regs[r].listener)'
      BY <1>2, <1>4, <3>3 DEF InTable
    <3> QED
      BY <1>2, <3>1, <3>2, <3>3, <3>4 DEF OnItsWay
  <2> QED
    BY <1>2, <2>1, <2>2
<1> QED
  BY <1>5, <1>6

LEMMA UnregisterKept ==
  ASSUME KeptInv, NEW t \in Threads, NEW p \in Packages, Unregister(t, p)
  PROVE  Waiting' /\ Kept'
<1>1. TypeInv
  BY DEF KeptInv
<1>2. /\ table' = [table EXCEPT ![p] = 0]
      /\ excused' = excused \cup {r \in Registrations : regs[r].pkg = p}
      /\ attached' = attached /\ sets' = sets /\ regs' = regs /\ pc' = pc /\ reg' = reg
      /\ into' = into /\ app' = app /\ took' = took /\ toCall' = toCall
      /\ served' = served /\ returned' = returned
  BY DEF Unregister, registering, attaching
<1>3. \A q \in Packages : q # p => table'[q] = table[q]
  BY <1>1, <1>2, Types
<1>4. \A r \in Registrations \ excused' : regs[r].pkg # p /\ regs[r].pkg \in Packages
  BY <1>1, <1>2, Regs
<1>5. Waiting'
  <2> SUFFICES ASSUME NEW u \in Threads, pc[u] # "idle", reg[u] \notin excused'
               PROVE  /\ regs[reg[u]].pkg \notin attached
                      /\ pc[u] = "add" => table'[regs[reg[u]].pkg] = into[u]
    BY <1>2 DEF Waiting
  <2>1. reg[u] \in Registrations /\ reg[u] \notin excused
    BY <1>1, <1>2 DEF TypeInv, TypeOK
  <2> QED
    BY <1>3, <1>4, <2>1 DEF KeptInv, Waiting
<1>6. Kept'
  <2> SUFFICES ASSUME NEW r \in returned, r \notin excused', r \notin served
               PROVE  OnItsWay(regs[r].pkg, regs[r].listener)'
    BY <1>2 DEF Kept
  <2>1. table'[regs[r].pkg] = table[regs[r].pkg]
    BY <1>1, <1>3, <1>4, Types
  <2>2. OnItsWay(regs[r].pkg, regs[r].listener)
    BY <1>2 DEF KeptInv, Kept
  <2> QED
    BY <1>2, <2>1, <2>2 DEF OnItsWay, InTable, Taking, Holders, Holds
<1> QED
  BY <1>5, <1>6

LEMMA AttachKept ==
  ASSUME KeptInv, NEW a \in AppThreads, NEW p \in Packages, Attach(a, p)
  PROVE  Waiting' /\ Kept'
<1>1. TypeInv
  BY DEF KeptInv
<1>2. /\ pc[a] = "idle" /\ pc' = [pc EXCEPT ![a] = "remove"]
      /\ app' = [app EXCEPT ![a] = p] /\ attached' = attached \cup {p}
      /\ excused' = excused \cup {r \in InProgress : regs[r].pkg = p}
      /\ table' = table /\ sets' = sets /\ regs' = regs /\ reg' = reg /\ into' = into
      /\ took' = took /\ toCall' = toCall /\ served' = served /\ returned' = returned
  BY DEF Attach, registering, Goto
<1>3. /\ pc'[a] = "remove" /\ app'[a] = p
      /\ \A b \in Threads \cup AppThreads : b # a => pc'[b] = pc[b]
      /\ \A b \in AppThreads : b # a => app'[b] = app[b]
  BY <1>1, <1>2, Types
<1>4. Waiting'
  <2> SUFFICES ASSUME NEW u \in Threads, pc[u] # "idle", reg[u] \notin excused'
               PROVE  /\ regs[reg[u]].pkg \notin attached'
                      /\ pc[u] = "add" => table[regs[reg[u]].pkg] = into[u]
    BY <1>2, <1>3 DEF Waiting
  <2>1. reg[u] \in InProgress
    BY DEF InProgress
  <2> QED
    BY <1>2, <2>1 DEF KeptInv, Waiting
<1>5. Kept'
  <2> SUFFICES ASSUME NEW r \in returned, r \notin excused, r \notin served
               PROVE  OnItsWay(regs[r].pkg, regs[r].listener)'
    BY <1>2 DEF Kept
  <2> DEFINE q == regs[r].pkg
             k == regs[r].listener
  <2>1. OnItsWay(q, k)
    BY DEF KeptInv, Kept
  <2>2. CASE InTable(q, k) /\ (q \in attached => Taking(q))
    <3>1. InTable(q, k)'
      BY <1>2, <2>2 DEF InTable
    <3>2. Taking(p)'
      BY <1>3 DEF Taking
    <3>3. Taking(q) => Taking(q)'
      BY <1>2, <1>3 DEF Taking
    <3> QED
      BY <1>2, <2>2, <3>1, <3>2, <3>3 DEF OnItsWay
  <2>3. CASE Holders(q, k) # {}
    <3>1. PICK b \in AppThreads : Holds(b, q, k)
      BY <2>3 DEF Holders
    <3>2. Holds(b, q, k)'
      BY <1>2, <1>3, <3>1 DEF Holds
    <3> QED
      BY <1>2, <3>2 DEF OnItsWay, Holders
  <2> QED
    BY <2>1, <2>2, <2>3 DEF OnItsWay
<1> QED
  BY <1>4, <1>5

LEMMA AttachStepKept ==
  ASSUME KeptInv, NEW a \in AppThreads, AttachStep(a)
  PROVE  Waiting' /\ Kept'
<1>1. TypeInv
  BY DEF KeptInv
<1>2. /\ attached' = attached /\ sets' = sets /\ regs' = regs
      /\ reg' = reg /\ into' = into /\ app' = app
      /\ returned' = returned
      /\ a \notin Threads /\ app[a] \in attached
      /\ \A b \in Threads \cup AppThreads : b # a => pc'[b] = pc[b]
      /\ \A b \in AppThreads : b # a => took'[b] = took[b] /\ toCall'[b] = toCall[b]
      /\ excused \subseteq excused' /\ served \subseteq served'
  BY <1>1, AttachStepFrame
<1>3. app[a] \in Packages
  BY <1>1, <1>2, Types
<1>4. \A q \in Packages : q # app[a] => table'[q] = table[q]
  BY <1>1, Types DEF AttachStep, AttachRemove, AttachCopy, AttachCall, AttachCallThrows
<1>5. Waiting'
  <2> SUFFICES ASSUME NEW u \in Threads, pc[u] # "idle", reg[u] \notin excused
               PROVE  /\ regs[reg[u]].pkg \notin attached
                      /\ pc[u] = "add" => table'[regs[reg[u]].pkg] = into[u]
    BY <1>2 DEF Waiting
  <2>1. regs[reg[u]].pkg \notin attached /\ regs[reg[u]].pkg \in Packages
    BY <1>1, Regs DEF KeptInv, Waiting, TypeInv, TypeOK
  <2> QED
    BY <1>2, <1>4, <2>1 DEF KeptInv, Waiting
<1>6. Kept'
  <2> SUFFICES ASSUME NEW r \in returned, r \notin excused', r \notin served'
               PROVE  OnItsWay(regs[r].pkg, regs[r].listener)'
    BY <1>2 DEF Kept
  <2> DEFINE q == regs[r].pkg
             k == regs[r].listener
  <2>1. OnItsWay(q, k) /\ q \in Packages /\ k \in Listeners /\ r \in Registrations
    BY <1>1, <1>2, Regs, Types DEF KeptInv, Kept
  <2>2. ASSUME NEW b \in AppThreads, b # a, Holds(b, q, k) PROVE OnItsWay(q, k)'
    <3>1. Holds(b, q, k)'
      BY <1>2, <2>2 DEF Holds
    <3> QED
      BY <1>2, <3>1 DEF OnItsWay, Holders
  <2>3. ASSUME Holds(a, q, k) PROVE OnItsWay(q, k)'
    <3>1. CASE AttachRemove(a)
      BY <2>3, <3>1 DEF AttachRemove, Holds
    <3>2. CASE AttachCopy(a)
      <4>1. pc'[a] = "call" /\ toCall'[a] = sets[took[a]]
        BY <1>1, <3>2, Types DEF AttachCopy, Goto
      <4>2. k \in sets[took[a]]
        BY <2>3, <3>2 DEF AttachCopy, Holds
      <4>3. Holds(a, q, k)'
        BY <1>2, <2>3, <4>1, <4>2 DEF Holds
      <4> QED
        BY <1>2, <4>3 DEF OnItsWay, Holders
    <3>3. CASE AttachCall(a)
      <4>1. pc[a] = "call" /\ k \in toCall[a] /\ app[a] = q
        BY <2>3, <3>3 DEF AttachCall, Holds
      <4>2. PICK l \in toCall[a] : /\ toCall' = [toCall EXCEPT ![a] = @ \ {l}]
                                   /\ Call(app[a], {l}, regs) /\ pc' = pc
        BY <3>3, <4>1 DEF AttachCall
      <4>3. l # k
        BY <1>1, <2>1, <4>1, <4>2, Regs DEF Call
      <4>4. Holds(a, q, k)'
        BY <1>1, <1>2, <4>1, <4>2, <4>3, Types DEF Holds
      <4> QED
        BY <1>2, <4>4 DEF OnItsWay, Holders
    <3>4. CASE AttachCallThrows(a)
      <4>1. k \in toCall[a] /\ app[a] = q
        BY <2>3, <3>4 DEF AttachCallThrows, Holds
      <4> QED
        BY <2>1, <3>4, <4>1 DEF AttachCallThrows
    <3> QED
      BY <3>1, <3>2, <3>3, <3>4 DEF AttachStep
  <2>4. ASSUME InTable(q, k), q \in attached => Taking(q) PROVE OnItsWay(q, k)'
    <3>1. CASE AttachRemove(a) /\ q = app[a]
      <4>1. table[q] # 0 /\ k \in sets[table[q]]
        BY <2>4 DEF InTable
      <4>2. pc'[a] = "copy" /\ took'[a] = table[q]
        BY <1>1, <3>1, <4>1, Types DEF AttachRemove, Goto
      <4>3. Holds(a, q, k)'
        BY <1>2, <3>1, <4>1, <4>2 DEF Holds
      <4> QED
        BY <1>2, <4>3 DEF OnItsWay, Holders
    <3>2. CASE ~(AttachRemove(a) /\ q = app[a])
      <4>1. table'[q] = table[q]
        BY <1>4, <2>1, <3>2 DEF AttachStep, AttachRemove, AttachCopy, AttachCall,
           AttachCallThrows
      <4>2. Taking(q) => Taking(q)'
        <5>1. pc[a] = "remove" => app[a] # q
          BY <3>2 DEF AttachStep, AttachRemove, AttachCopy, AttachCall, AttachCallThrows
        <5> QED
          BY <1>2, <5>1 DEF Taking
      <4> QED
        BY <1>2, <2>4, <4>1, <4>2 DEF OnItsWay, InTable
    <3> QED
      BY <3>1, <3>2
  <2>5. CASE Holders(q, k) # {}
    BY <2>2, <2>3, <2>5 DEF Holders
  <2> QED
    BY <1>2, <2>1, <2>4, <2>5 DEF OnItsWay
<1> QED
  BY <1>5, <1>6

LEMMA NextKept == KeptInv /\ [Next]_vars => KeptInv'
<1> SUFFICES ASSUME KeptInv, [Next]_vars PROVE KeptInv'
  OBVIOUS
<1>1. TypeInv'
  BY NextTypeInv DEF KeptInv
<1>2. CASE UNCHANGED vars
  <2>1. Waiting' /\ Kept'
    BY <1>2 DEF vars, registering, attaching, KeptInv, Waiting, Kept, OnItsWay, InTable,
       Taking, Holders, Holds
  <2> QED
    BY <1>1, <2>1 DEF KeptInv
<1>3. CASE Next
  <2>1. Waiting' /\ Kept'
    BY <1>3, RegisterKept, GetOrPutKept, AddKept, UnregisterKept, AttachKept,
       AttachStepKept DEF Next, RegisterStep
  <2> QED
    BY <1>1, <2>1 DEF KeptInv
<1> QED
  BY <1>2, <1>3

LEMMA KeptIsCalled == KeptInv => RegisteredIsCalled
<1> SUFFICES ASSUME KeptInv, NEW r \in returned \ excused, regs[r].pkg \in attached,
                    \A t \in Threads \cup AppThreads : pc[t] = "idle"
             PROVE  r \in served
  BY DEF RegisteredIsCalled
<1>1. \A p, l : Holders(p, l) = {}
  BY DEF Holders, Holds
<1>2. \A p : ~Taking(p)
  BY DEF Taking
<1> QED
  BY <1>1, <1>2 DEF KeptInv, Kept, OnItsWay

\* With the application attached and nothing under way, every listener registered has
\* been called, the excused ones excepted.  (XposedKit.kt 56-63, 223-232)
THEOREM CallsTheRegistered == Spec => []RegisteredIsCalled
  BY InitKept, NextKept, KeptIsCalled, PTL DEF Spec

----
\* A listener set belongs to one package and is in one place: in the table, or with
\* the app thread that has removed it.  A set not yet in the table is empty.
SetPackage ==
  /\ \A p \in Packages : table[p] # 0 => table[p] \in Registrations /\ regs[table[p]].pkg = p
  /\ \A t \in Threads : pc[t] = "add" =>
       into[t] \in Registrations /\ regs[into[t]].pkg = regs[reg[t]].pkg
  /\ \A a \in AppThreads : pc[a] = "copy" =>
       took[a] \in Registrations /\ regs[took[a]].pkg = app[a]

OneHolder ==
  /\ \A a \in AppThreads : pc[a] = "copy" => table[app[a]] # took[a]
  /\ \A a, b \in AppThreads : pc[a] = "copy" /\ pc[b] = "copy" /\ took[a] = took[b] => a = b

Unused(n) ==
  /\ sets[n] = {}
  /\ \A p \in Packages : table[p] # n
  /\ \A t \in Threads : pc[t] = "add" => into[t] # n
  /\ \A a \in AppThreads : pc[a] = "copy" => took[a] # n

NewSetUnused ==
  /\ \A n \in (1..MaxRegs) \ Registrations : sets[n] = {}
  /\ \A t \in Threads : pc[t] = "getOrPut" => Unused(reg[t])

SetInv == TypeInv /\ SetPackage /\ OneHolder /\ NewSetUnused

LEMMA InitSetInv == Init => SetInv
BY InitTypeInv DEF Init, SetInv, SetPackage, OneHolder, NewSetUnused

\* The thread's own registration, and the package of an app thread
LEMMA OwnFacts ==
  ASSUME TypeInv
  PROVE  /\ \A t \in Threads : pc[t] # "idle" =>
              reg[t] \in Registrations /\ regs[reg[t]].pkg \in Packages
         /\ \A a \in AppThreads : pc[a] # "idle" => app[a] \in Packages
         /\ InProgress \subseteq Registrations
         /\ \A a \in AppThreads : a \notin Threads
<1>1. \A t \in Threads : pc[t] # "idle" => reg[t] \in Registrations
  BY DEF TypeInv, TypeOK
<1>2. \A a \in AppThreads : pc[a] # "idle" => app[a] \in Packages
  BY Types DEF TypeInv, TypeOK
<1>3. InProgress \subseteq Registrations
  BY <1>1 DEF InProgress
<1> QED
  BY <1>1, <1>2, <1>3, Regs

LEMMA RegisterSets ==
  ASSUME SetInv, NEW t \in Threads, NEW p \in Packages, NEW l \in Listeners,
         Register(t, p, l)
  PROVE  SetPackage' /\ OneHolder' /\ NewSetUnused'
<1> DEFINE n == Len(regs) + 1
<1>1. TypeInv
  BY DEF SetInv
<1>2. /\ Registrations' = Registrations \cup {n} /\ n \notin Registrations /\ n \in 1..MaxRegs
      /\ \A r \in Registrations : regs'[r] = regs[r]
  BY <1>1, NewRegistration
<1>3. /\ table' = table /\ sets' = sets /\ into' = into /\ app' = app /\ took' = took
  BY <1>1, RegisterNowFrame, RegisterLaterFrame
<1>4. /\ t \notin AppThreads
      /\ \A u \in Threads \cup AppThreads : u # t => pc'[u] = pc[u]
      /\ \A u \in Threads : u # t => reg'[u] = reg[u]
      /\ pc'[t] = "idle" \/ (pc'[t] = "getOrPut" /\ reg'[t] = n)
  BY <1>1, RegisterNowFrame, RegisterLaterFrame, Types
<1>5. SetPackage'
  <2>1. \A q \in Packages : table'[q] # 0 =>
          table'[q] \in Registrations' /\ regs'[table'[q]].pkg = q
    BY <1>2, <1>3 DEF SetInv, SetPackage
  <2>2. \A u \in Threads : pc'[u] = "add" =>
          into'[u] \in Registrations' /\ regs'[into'[u]].pkg = regs'[reg'[u]].pkg
    BY <1>1, <1>2, <1>3, <1>4, OwnFacts DEF SetInv, SetPackage
  <2>3. \A a \in AppThreads : pc'[a] = "copy" =>
          took'[a] \in Registrations' /\ regs'[took'[a]].pkg = app'[a]
    BY <1>2, <1>3, <1>4 DEF SetInv, SetPackage
  <2> QED
    BY <2>1, <2>2, <2>3 DEF SetPackage
<1>6. OneHolder'
  BY <1>3, <1>4 DEF SetInv, OneHolder
<1>7. NewSetUnused'
  <2>1. sets[n] = {}
    BY <1>2 DEF SetInv, NewSetUnused
  <2>2. \A q \in Packages : table[q] # n
    BY <1>1, <1>2, Types DEF SetInv, SetPackage
  <2>3. ASSUME pc'[t] = "getOrPut" PROVE Unused(reg[t])'
    <3>1. reg'[t] = n
      BY <1>4, <2>3
    <3>2. \A u \in Threads : pc'[u] = "add" => into[u] # n
      BY <1>2, <1>4, <2>3 DEF SetInv, SetPackage
    <3>3. \A a \in AppThreads : pc'[a] = "copy" => took[a] # n
      BY <1>2, <1>4 DEF SetInv, SetPackage
    <3> QED
      BY <1>3, <2>1, <2>2, <3>1, <3>2, <3>3 DEF Unused
  <2>4. ASSUME NEW u \in Threads, u # t, pc[u] = "getOrPut" PROVE Unused(reg[u])'
    <3>1. Unused(reg[u])
      BY <2>4 DEF SetInv, NewSetUnused
    <3>2. reg'[u] = reg[u]
      BY <1>4, <2>4
    <3> QED
      BY <1>3, <1>4, <3>1, <3>2 DEF Unused
  <2> QED
    BY <1>2, <1>3, <1>4, <2>3, <2>4 DEF SetInv, NewSetUnused
<1> QED
  BY <1>5, <1>6, <1>7

LEMMA GetOrPutSets ==
  ASSUME SetInv, NEW t \in Threads, RegisterGetOrPut(t)
  PROVE  SetPackage' /\ OneHolder' /\ NewSetUnused'
<1> DEFINE p == regs[reg[t]].pkg
           n == IF table[p] = 0 THEN reg[t] ELSE table[p]
<1>1. TypeInv
  BY DEF SetInv
<1>2. /\ pc[t] = "getOrPut" /\ pc' = [pc EXCEPT ![t] = "add"]
      /\ table' = [table EXCEPT ![p] = n] /\ into' = [into EXCEPT ![t] = n]
      /\ sets' = sets /\ regs' = regs /\ reg' = reg /\ app' = app /\ took' = took
  BY DEF RegisterGetOrPut, attaching, Goto
<1>3. reg[t] \in Registrations /\ p \in Packages /\ Registrations' = Registrations
  BY <1>1, <1>2, OwnFacts DEF Registrations
<1>4. /\ table'[p] = n
      /\ \A q \in Packages : q # p => table'[q] = table[q]
      /\ pc'[t] = "add" /\ into'[t] = n
      /\ \A u \in Threads \cup AppThreads : u # t => pc'[u] = pc[u]
      /\ \A u \in Threads : u # t => into'[u] = into[u]
  BY <1>1, <1>2, <1>3, Types
<1>5. n \in Registrations /\ regs[n].pkg = p
  BY <1>3 DEF SetInv, SetPackage
<1>6. Unused(reg[t])
  BY <1>2 DEF SetInv, NewSetUnused
<1>7. \A a \in AppThreads : a # t
  BY <1>1, OwnFacts
<1>8. SetPackage'
  <2>1. \A q \in Packages : table'[q] # 0 =>
          table'[q] \in Registrations /\ regs[table'[q]].pkg = q
    BY <1>4, <1>5 DEF SetInv, SetPackage
  <2>2. \A u \in Threads : pc'[u] = "add" =>
          into'[u] \in Registrations /\ regs[into'[u]].pkg = regs[reg[u]].pkg
    BY <1>4, <1>5 DEF SetInv, SetPackage
  <2>3. \A a \in AppThreads : pc'[a] = "copy" =>
          took[a] \in Registrations /\ regs[took[a]].pkg = app[a]
    BY <1>4, <1>7 DEF SetInv, SetPackage
  <2> QED
    BY <1>2, <1>3, <2>1, <2>2, <2>3 DEF SetPackage
<1>9. OneHolder'
  <2>1. ASSUME NEW a \in AppThreads, pc[a] = "copy" PROVE table'[app[a]] # took[a]
    <3>1. app[a] \in Packages /\ table[app[a]] # took[a] /\ took[a] # reg[t]
      BY <1>1, <1>6, <2>1, OwnFacts DEF SetInv, OneHolder, Unused
    <3> QED
      BY <1>4, <3>1
  <2> QED
    BY <1>2, <1>4, <1>7, <2>1 DEF SetInv, OneHolder
<1>10. NewSetUnused'
  <2>1. ASSUME NEW u \in Threads, u # t, pc[u] = "getOrPut" PROVE Unused(reg[u])'
    <3>1. Unused(reg[u]) /\ reg[u] # reg[t]
      BY <1>2, <2>1 DEF SetInv, NewSetUnused, TypeInv, OwnRegistration
    <3>2. reg[u] # n
      BY <1>3, <3>1 DEF Unused
    <3>3. \A q \in Packages : table'[q] # reg[u]
      BY <1>4, <3>1, <3>2 DEF Unused
    <3>4. \A v \in Threads : pc'[v] = "add" => into'[v] # reg[u]
      BY <1>4, <3>1, <3>2 DEF Unused
    <3>5. \A a \in AppThreads : pc'[a] = "copy" => took[a] # reg[u]
      BY <1>4, <1>7, <3>1 DEF Unused
    <3> QED
      BY <1>2, <3>1, <3>3, <3>4, <3>5 DEF Unused
  <2> QED
    BY <1>2, <1>3, <1>4, <2>1 DEF SetInv, NewSetUnused
<1> QED
  BY <1>8, <1>9, <1>10

LEMMA AddSets ==
  ASSUME SetInv, NEW t \in Threads, RegisterAdd(t)
  PROVE  SetPackage' /\ OneHolder' /\ NewSetUnused'
<1> DEFINE l == regs[reg[t]].listener
<1>1. TypeInv
  BY DEF SetInv
<1>2. /\ pc[t] = "add" /\ pc' = [pc EXCEPT ![t] = "idle"]
      /\ sets' = [sets EXCEPT ![into[t]] = @ \cup {l}]
      /\ reg' = [reg EXCEPT ![t] = 0] /\ into' = [into EXCEPT ![t] = 0]
      /\ table' = table /\ regs' = regs /\ app' = app /\ took' = took
  BY DEF RegisterAdd, attaching, Goto
<1>3. into[t] \in Registrations /\ Registrations' = Registrations
  BY <1>2 DEF SetInv, SetPackage, Registrations
<1>4. /\ pc'[t] = "idle"
      /\ \A u \in Threads \cup AppThreads : u # t => pc'[u] = pc[u]
      /\ \A u \in Threads : u # t => into'[u] = into[u] /\ reg'[u] = reg[u]
      /\ \A m \in 1..MaxRegs : m # into[t] => sets'[m] = sets[m]
  BY <1>1, <1>2, Types
<1>5. \A a \in AppThreads : a # t
  BY <1>1, OwnFacts
<1>6. SetPackage'
  BY <1>2, <1>3, <1>4, <1>5 DEF SetInv, SetPackage
<1>7. OneHolder'
  BY <1>2, <1>4, <1>5 DEF SetInv, OneHolder
<1>8. NewSetUnused'
  <2>1. ASSUME NEW u \in Threads, u # t, pc[u] = "getOrPut" PROVE Unused(reg[u])'
    <3>1. Unused(reg[u]) /\ reg[u] \in 1..MaxRegs
      BY <1>1, <2>1, OwnFacts, Regs DEF SetInv, NewSetUnused
    <3>2. into[t] # reg[u] /\ reg'[u] = reg[u]
      BY <1>2, <1>4, <2>1, <3>1 DEF Unused
    <3>3. sets'[reg[u]] = {}
      BY <1>4, <3>1, <3>2 DEF Unused
    <3> QED
      BY <1>2, <1>4, <1>5, <3>1, <3>2, <3>3 DEF Unused
  <2>2. \A m \in (1..MaxRegs) \ Registrations : sets'[m] = {}
    BY <1>3, <1>4 DEF SetInv, NewSetUnused
  <2> QED
    BY <1>3, <1>4, <2>1, <2>2 DEF NewSetUnused
<1> QED
  BY <1>6, <1>7, <1>8

LEMMA UnregisterSets ==
  ASSUME SetInv, NEW t \in Threads, NEW p \in Packages, Unregister(t, p)
  PROVE  SetPackage' /\ OneHolder' /\ NewSetUnused'
<1>1. /\ table' = [table EXCEPT ![p] = 0]
      /\ sets' = sets /\ regs' = regs /\ pc' = pc /\ reg' = reg
      /\ into' = into /\ app' = app /\ took' = took /\ TypeInv
  BY DEF Unregister, registering, attaching, SetInv
<1>2. \A q \in Packages : table'[q] = IF q = p THEN 0 ELSE table[q]
  BY <1>1, Types
<1>3. Registrations' = Registrations
  BY <1>1 DEF Registrations
<1>4. SetPackage'
  BY <1>1, <1>2, <1>3 DEF SetInv, SetPackage
<1>5. OneHolder'
  <2>1. ASSUME NEW a \in AppThreads, pc[a] = "copy" PROVE table'[app[a]] # took[a]
    <3>1. app[a] \in Packages /\ table[app[a]] # took[a] /\ took[a] # 0
      BY <1>1, <2>1, OwnFacts DEF SetInv, OneHolder, TypeInv, TypeOK
    <3> QED
      BY <1>2, <3>1
  <2> QED
    BY <1>1, <2>1 DEF SetInv, OneHolder
<1>6. NewSetUnused'
  <2>1. ASSUME NEW u \in Threads, pc[u] = "getOrPut" PROVE Unused(reg[u])'
    <3>1. Unused(reg[u]) /\ reg[u] # 0
      BY <1>1, <2>1, OwnFacts, Regs DEF SetInv, NewSetUnused
    <3> QED
      BY <1>1, <1>2, <3>1 DEF Unused
  <2> QED
    BY <1>1, <1>3, <2>1 DEF SetInv, NewSetUnused
<1> QED
  BY <1>4, <1>5, <1>6

LEMMA AttachSets ==
  ASSUME SetInv, NEW a \in AppThreads, NEW p \in Packages, Attach(a, p)
  PROVE  SetPackage' /\ OneHolder' /\ NewSetUnused'
<1>1. /\ pc[a] = "idle" /\ pc' = [pc EXCEPT ![a] = "remove"]
      /\ app' = [app EXCEPT ![a] = p]
      /\ table' = table /\ sets' = sets /\ regs' = regs /\ reg' = reg /\ into' = into
      /\ took' = took /\ TypeInv
  BY DEF Attach, registering, Goto, SetInv
<1>2. /\ pc'[a] = "remove"
      /\ \A b \in Threads \cup AppThreads : b # a => pc'[b] = pc[b]
      /\ \A b \in AppThreads : b # a => app'[b] = app[b]
  BY <1>1, Types
<1>3. a \notin Threads /\ Registrations' = Registrations
  BY <1>1, OwnFacts DEF Registrations
<1>4. SetPackage'
  BY <1>1, <1>2, <1>3 DEF SetInv, SetPackage
<1>5. OneHolder'
  BY <1>1, <1>2 DEF SetInv, OneHolder
<1>6. NewSetUnused'
  BY <1>1, <1>2, <1>3 DEF SetInv, NewSetUnused, Unused
<1> QED
  BY <1>4, <1>5, <1>6

LEMMA AttachStepSets ==
  ASSUME SetInv, NEW a \in AppThreads, AttachStep(a)
  PROVE  SetPackage' /\ OneHolder' /\ NewSetUnused'
<1>1. TypeInv
  BY DEF SetInv
<1>2. /\ sets' = sets /\ regs' = regs /\ reg' = reg /\ into' = into /\ app' = app
      /\ Registrations' = Registrations
      /\ a \notin Threads /\ pc[a] # "idle" /\ app[a] \in attached
      /\ \A b \in Threads \cup AppThreads : b # a => pc'[b] = pc[b]
      /\ \A b \in AppThreads : b # a => took'[b] = took[b]
  BY <1>1, AttachStepFrame
<1>3. app[a] \in Packages
  BY <1>1, <1>2, OwnFacts
<1>4. CASE AttachRemove(a)
  <2> DEFINE p == app[a]
  <2>1. /\ table'[p] = 0 /\ \A q \in Packages : q # p => table'[q] = table[q]
        /\ took'[a] = table[p]
        /\ pc'[a] = "idle" \/ (pc'[a] = "copy" /\ table[p] # 0)
    BY <1>1, <1>3, <1>4, Types DEF AttachRemove, Goto
  <2>2. SetPackage'
    <3>1. \A q \in Packages : table'[q] # 0 =>
            table'[q] \in Registrations /\ regs[table'[q]].pkg = q
      BY <2>1 DEF SetInv, SetPackage
    <3>2. \A t \in Threads : pc'[t] = "add" =>
            into[t] \in Registrations /\ regs[into[t]].pkg = regs[reg[t]].pkg
      BY <1>2 DEF SetInv, SetPackage
    <3>3. \A b \in AppThreads : pc'[b] = "copy" =>
            took'[b] \in Registrations /\ regs[took'[b]].pkg = app[b]
      BY <1>2, <1>3, <2>1 DEF SetInv, SetPackage
    <3> QED
      BY <1>2, <3>1, <3>2, <3>3 DEF SetPackage
  <2>3. \A b \in AppThreads : pc[b] = "copy" => took[b] # table[p]
    <3>1. ASSUME NEW b \in AppThreads, pc[b] = "copy", took[b] = table[p] PROVE FALSE
      <4>1. regs[took[b]].pkg = app[b] /\ took[b] \in Registrations
        BY <3>1 DEF SetInv, SetPackage
      <4>2. table[p] # 0
        BY <1>1, <3>1, <4>1, Regs
      <4>3. app[b] = p
        BY <1>3, <3>1, <4>1, <4>2 DEF SetInv, SetPackage
      <4> QED
        BY <3>1, <4>3 DEF SetInv, OneHolder
    <3> QED
      BY <3>1
  <2>4. OneHolder'
    <3>1. \A b \in AppThreads : pc'[b] = "copy" => table'[app[b]] # took'[b]
      <4>1. ASSUME NEW b \in AppThreads, b # a, pc[b] = "copy" PROVE table'[app[b]] # took[b]
        <5>1. app[b] \in Packages /\ table[app[b]] # took[b] /\ took[b] # 0
          BY <1>1, <4>1, OwnFacts DEF SetInv, OneHolder, TypeInv, TypeOK
        <5> QED
          BY <2>1, <5>1
      <4> QED
        BY <1>2, <2>1, <4>1
    <3>2. \A b, c \in AppThreads :
            pc'[b] = "copy" /\ pc'[c] = "copy" /\ took'[b] = took'[c] => b = c
      BY <1>2, <2>1, <2>3 DEF SetInv, OneHolder
    <3> QED
      BY <1>2, <3>1, <3>2 DEF OneHolder
  <2>5. NewSetUnused'
    <3>1. ASSUME NEW u \in Threads, pc[u] = "getOrPut" PROVE Unused(reg[u])'
      <4>1. Unused(reg[u]) /\ reg[u] # 0
        BY <1>1, <3>1, OwnFacts, Regs DEF SetInv, NewSetUnused
      <4> QED
        BY <1>2, <1>3, <2>1, <4>1 DEF Unused
    <3> QED
      BY <1>2, <3>1 DEF SetInv, NewSetUnused
  <2> QED
    BY <2>2, <2>4, <2>5
<1>5. CASE AttachCopy(a) \/ AttachCall(a) \/ AttachCallThrows(a)
  <2>1. table' = table /\ pc'[a] # "copy"
    BY <1>1, <1>5, Types DEF AttachCopy, AttachCall, AttachCallThrows, Goto
  <2>2. SetPackage'
    BY <1>2, <2>1 DEF SetInv, SetPackage
  <2>3. OneHolder'
    BY <1>2, <2>1 DEF SetInv, OneHolder
  <2>4. NewSetUnused'
    BY <1>2, <2>1 DEF SetInv, NewSetUnused, Unused
  <2> QED
    BY <2>2, <2>3, <2>4
<1> QED
  BY <1>4, <1>5 DEF AttachStep

LEMMA NextSetInv == SetInv /\ [Next]_vars => SetInv'
<1> SUFFICES ASSUME SetInv, [Next]_vars PROVE SetInv'
  OBVIOUS
<1>1. TypeInv'
  BY NextTypeInv DEF SetInv
<1>2. CASE UNCHANGED vars
  <2>1. SetPackage' /\ OneHolder' /\ NewSetUnused'
    BY <1>2 DEF vars, registering, attaching, SetInv, SetPackage, OneHolder, NewSetUnused,
       Unused, Registrations
  <2> QED
    BY <1>1, <2>1 DEF SetInv
<1>3. CASE Next
  <2>1. SetPackage' /\ OneHolder' /\ NewSetUnused'
    BY <1>3, RegisterSets, GetOrPutSets, AddSets, UnregisterSets, AttachSets,
       AttachStepSets DEF Next, RegisterStep
  <2> QED
    BY <1>1, <2>1 DEF SetInv
<1> QED
  BY <1>2, <1>3

----
\* Every call made, and every listener waiting in the table or with an app thread,
\* stands for a registration of its own that is no longer in progress.
Settled(p, l) ==
  {r \in Registrations \ InProgress : regs[r].pkg = p /\ regs[r].listener = l}

Held(p, l) == IF InTable(p, l) THEN 1 ELSE 0
Sum(p, l) == called[<<p, l>>] + Cardinality(Holders(p, l)) + Held(p, l)

CountedFor(p, l) ==
  IsFiniteSet(Holders(p, l)) /\ Sum(p, l) <= Cardinality(Settled(p, l))

CountInv == SetInv /\ \A p \in Packages, l \in Listeners : CountedFor(p, l)

LEMMA FiniteNumbers ==
  ASSUME NEW n \in Nat, NEW S \in SUBSET (1..n)
  PROVE  IsFiniteSet(S) /\ Cardinality(S) \in Nat
<1>1. IsFiniteSet(1..n)
  BY FS_Interval
<1>2. IsFiniteSet(S)
  BY <1>1, FS_Subset
<1> QED
  BY <1>2, FS_CardinalityType

LEMMA InitCounted == Init => CountInv
<1> SUFFICES ASSUME Init, NEW p \in Packages, NEW l \in Listeners PROVE CountedFor(p, l)
  BY InitSetInv DEF CountInv
<1>1. Holders(p, l) = {} /\ ~InTable(p, l) /\ called[<<p, l>>] = 0
  BY DEF Init, Holders, Holds, InTable
<1>2. Settled(p, l) = {}
  BY DEF Init, Settled, Registrations
<1> QED
  BY <1>1, <1>2, FS_EmptySet DEF CountedFor, Held, Sum

\* Counted still holds if no more is added to the sum than to the registrations.
LEMMA CountStep ==
  ASSUME TypeInv, TypeInv', NEW p \in Packages, NEW l \in Listeners, CountedFor(p, l),
         IsFiniteSet(Holders(p, l)'), Settled(p, l) \subseteq Settled(p, l)',
         NEW d \in {0, 1}, Sum(p, l)' <= Sum(p, l) + d,
         d = 1 => Settled(p, l)' # Settled(p, l)
  PROVE  CountedFor(p, l)'
<1>1. Len(regs) \in Nat /\ Len(regs') \in Nat
  BY DEF TypeInv, TypeOK
<1>2. Settled(p, l) \subseteq 1..Len(regs) /\ Settled(p, l)' \subseteq 1..Len(regs')
  BY DEF Settled, Registrations
<1>3. /\ IsFiniteSet(Settled(p, l)) /\ Cardinality(Settled(p, l)) \in Nat
      /\ IsFiniteSet(Settled(p, l)') /\ Cardinality(Settled(p, l)') \in Nat
  BY <1>1, <1>2, FiniteNumbers
<1>4. /\ Cardinality(Settled(p, l)) <= Cardinality(Settled(p, l)')
      /\ d = 1 => Cardinality(Settled(p, l)) # Cardinality(Settled(p, l)')
  BY <1>3, FS_Subset
<1>5. Sum(p, l) \in Nat /\ Sum(p, l)' \in Nat
  <2>1. called[<<p, l>>] \in Nat /\ called'[<<p, l>>] \in Nat
    BY DEF TypeInv, TypeOK
  <2>2. Held(p, l) \in Nat /\ Held(p, l)' \in Nat
    BY DEF Held
  <2>3. Cardinality(Holders(p, l)) \in Nat /\ Cardinality(Holders(p, l)') \in Nat
    BY FS_CardinalityType DEF CountedFor
  <2> QED
    BY <2>1, <2>2, <2>3 DEF Sum
<1>6. Sum(p, l) <= Cardinality(Settled(p, l))
  BY DEF CountedFor
<1>7. Sum(p, l)' <= Cardinality(Settled(p, l)')
  BY <1>3, <1>4, <1>5, <1>6
<1> QED
  BY <1>7 DEF CountedFor

\* The parts of the sum
LEMMA Parts ==
  ASSUME TypeInv, NEW p \in Packages, NEW l \in Listeners, CountedFor(p, l)
  PROVE  /\ called[<<p, l>>] \in Nat /\ Held(p, l) \in {0, 1}
         /\ IsFiniteSet(Holders(p, l)) /\ Cardinality(Holders(p, l)) \in Nat
BY FS_CardinalityType DEF TypeInv, TypeOK, Held, CountedFor

LEMMA OneElementMore ==
  ASSUME NEW S, NEW x, IsFiniteSet(S)
  PROVE  /\ IsFiniteSet(S \cup {x}) /\ Cardinality(S \cup {x}) \in Nat
         /\ Cardinality(S \cup {x}) <= Cardinality(S) + 1
<1>1. IsFiniteSet(S \cup {x}) /\ Cardinality(S) \in Nat
  BY FS_AddElement, FS_CardinalityType
<1>2. Cardinality(S \cup {x}) \in {Cardinality(S), Cardinality(S) + 1}
  BY FS_AddElement
<1> QED
  BY <1>1, <1>2, FS_CardinalityType

\* Nothing is added.
LEMMA CountKept ==
  ASSUME TypeInv, TypeInv', NEW p \in Packages, NEW l \in Listeners, CountedFor(p, l),
         Holders(p, l)' \subseteq Holders(p, l), InTable(p, l)' => InTable(p, l),
         called'[<<p, l>>] = called[<<p, l>>], Settled(p, l) \subseteq Settled(p, l)'
  PROVE  CountedFor(p, l)'
<1>1. /\ IsFiniteSet(Holders(p, l)') /\ Cardinality(Holders(p, l)') \in Nat
      /\ Cardinality(Holders(p, l)') <= Cardinality(Holders(p, l))
  BY FS_Subset, FS_CardinalityType DEF CountedFor
<1>2. Held(p, l)' <= Held(p, l) /\ Held(p, l)' \in {0, 1}
  BY DEF Held
<1>3. Sum(p, l)' <= Sum(p, l) + 0
  BY <1>1, <1>2, Parts DEF Sum
<1> QED
  BY <1>1, <1>3, CountStep

\* A registration is settled, and its listener called or left to be called.
LEMMA CountOne ==
  ASSUME TypeInv, TypeInv', NEW p \in Packages, NEW l \in Listeners, CountedFor(p, l),
         Settled(p, l) \subseteq Settled(p, l)', NEW r \in Settled(p, l)',
         r \notin Settled(p, l),
         \/ /\ Holders(p, l)' \subseteq Holders(p, l) /\ (InTable(p, l)' => InTable(p, l))
            /\ called'[<<p, l>>] = called[<<p, l>>] + 1
         \/ /\ Holders(p, l)' \subseteq Holders(p, l) 
            /\ called'[<<p, l>>] = called[<<p, l>>]
         \/ /\ \E a : Holders(p, l)' \subseteq Holders(p, l) \cup {a}
            /\ InTable(p, l)' => InTable(p, l)
            /\ called'[<<p, l>>] = called[<<p, l>>]
  PROVE  CountedFor(p, l)'
<1>1. PICK a : Holders(p, l)' \subseteq Holders(p, l) \cup {a}
  OBVIOUS
<1>2. /\ IsFiniteSet(Holders(p, l) \cup {a})
      /\ Cardinality(Holders(p, l) \cup {a}) <= Cardinality(Holders(p, l)) + 1
  BY Parts, OneElementMore
<1>3. /\ IsFiniteSet(Holders(p, l)') /\ Cardinality(Holders(p, l)') \in Nat
      /\ Cardinality(Holders(p, l)') <= Cardinality(Holders(p, l) \cup {a})
  BY <1>1, <1>2, FS_Subset, FS_CardinalityType
<1>4. Cardinality(Holders(p, l) \cup {a}) \in Nat
  BY <1>2, FS_CardinalityType
<1>5. Cardinality(Holders(p, l)') <= Cardinality(Holders(p, l)) + 1
  BY <1>2, <1>3, <1>4, Parts
<1>6. Holders(p, l)' \subseteq Holders(p, l) =>
        Cardinality(Holders(p, l)') <= Cardinality(Holders(p, l))
  BY Parts, FS_Subset
<1>7. /\ Held(p, l)' \in {0, 1}
      /\ (InTable(p, l)' => InTable(p, l)) => Held(p, l)' <= Held(p, l)
  BY DEF Held
<1>8. Sum(p, l)' <= Sum(p, l) + 1
  BY <1>3, <1>5, <1>6, <1>7, Parts DEF Sum
<1> QED
  BY <1>3, <1>8, CountStep

\* A waiting listener is taken from the table by an app thread.
LEMMA CountTaken ==
  ASSUME TypeInv, TypeInv', NEW p \in Packages, NEW l \in Listeners, CountedFor(p, l),
         NEW a, Holders(p, l)' \subseteq Holders(p, l) \cup {a},
         InTable(p, l), ~InTable(p, l)',
         called'[<<p, l>>] = called[<<p, l>>], Settled(p, l) \subseteq Settled(p, l)'
  PROVE  CountedFor(p, l)'
<1>1. /\ IsFiniteSet(Holders(p, l) \cup {a})
      /\ Cardinality(Holders(p, l) \cup {a}) <= Cardinality(Holders(p, l)) + 1
      /\ Cardinality(Holders(p, l) \cup {a}) \in Nat
  BY Parts, OneElementMore
<1>2. /\ IsFiniteSet(Holders(p, l)') /\ Cardinality(Holders(p, l)') \in Nat
      /\ Cardinality(Holders(p, l)') <= Cardinality(Holders(p, l) \cup {a})
  BY <1>1, FS_Subset, FS_CardinalityType
<1>3. Held(p, l) = 1 /\ Held(p, l)' = 0
  BY DEF Held
<1>4. Sum(p, l)' <= Sum(p, l) + 0
  BY <1>1, <1>2, <1>3, Parts DEF Sum
<1> QED
  BY <1>2, <1>4, CountStep

\* A waiting listener is called by the app thread that has it.
LEMMA CountCalled ==
  ASSUME TypeInv, TypeInv', NEW p \in Packages, NEW l \in Listeners, CountedFor(p, l),
         NEW a \in Holders(p, l), Holders(p, l)' \subseteq Holders(p, l) \ {a},
         InTable(p, l)' => InTable(p, l),
         called'[<<p, l>>] = called[<<p, l>>] + 1, Settled(p, l) \subseteq Settled(p, l)'
  PROVE  CountedFor(p, l)'
<1>1. /\ IsFiniteSet(Holders(p, l) \ {a})
      /\ Cardinality(Holders(p, l) \ {a}) = Cardinality(Holders(p, l)) - 1
      /\ Cardinality(Holders(p, l) \ {a}) \in Nat
  BY Parts, FS_RemoveElement, FS_CardinalityType
<1>2. /\ IsFiniteSet(Holders(p, l)') /\ Cardinality(Holders(p, l)') \in Nat
      /\ Cardinality(Holders(p, l)') <= Cardinality(Holders(p, l) \ {a})
  BY <1>1, FS_Subset, FS_CardinalityType
<1>3. Held(p, l)' <= Held(p, l) /\ Held(p, l)' \in {0, 1}
  BY DEF Held
<1>4. Sum(p, l)' <= Sum(p, l) + 0
  BY <1>1, <1>2, <1>3, Parts DEF Sum
<1> QED
  BY <1>2, <1>4, CountStep

LEMMA RegisterCounted ==
  ASSUME CountInv, TypeInv', NEW t \in Threads, NEW p \in Packages, NEW l \in Listeners,
         Register(t, p, l), NEW q \in Packages, NEW k \in Listeners
  PROVE  CountedFor(q, k)'
<1> DEFINE n == Len(regs) + 1
<1>1. TypeInv /\ CountedFor(q, k)
  BY DEF CountInv, SetInv
<1>2. /\ Registrations' = Registrations \cup {n} /\ n \notin Registrations
      /\ regs'[n].pkg = p /\ regs'[n].listener = l
      /\ \A r \in Registrations : regs'[r] = regs[r]
  BY <1>1, NewRegistration
<1>3. /\ table' = table /\ sets' = sets /\ app' = app /\ took' = took /\ toCall' = toCall
      /\ t \notin AppThreads
      /\ \A u \in Threads \cup AppThreads : u # t => pc'[u] = pc[u]
      /\ \A u \in Threads : u # t => reg'[u] = reg[u]
      /\ pc[t] = "idle"
  BY <1>1, RegisterNowFrame, RegisterLaterFrame, Types
<1>4. Holders(q, k)' = Holders(q, k) /\ InTable(q, k)' = InTable(q, k)
  BY <1>3 DEF Holders, Holds, InTable
<1>5. CASE p \in attached
  <2>1. /\ pc' = pc /\ reg' = reg
    BY <1>1, <1>5, RegisterNowFrame
  <2>2. InProgress' = InProgress /\ n \notin InProgress
    BY <1>1, <1>2, <2>1, OwnFacts DEF InProgress
  <2>3. Settled(q, k) \subseteq Settled(q, k)'
    BY <1>2, <2>2 DEF Settled
  <2>4. Call(p, {l}, Append(regs, [pkg |-> p, listener |-> l]))
    BY <1>5 DEF Register
  <2>5. CASE <<q, k>> = <<p, l>>
    <3>1. called'[<<q, k>>] = called[<<q, k>>] + 1
      <4>1. called'[<<p, l>>] = called[<<p, l>>] + 1
        BY <1>1, <2>4, CallCounts
      <4> QED
        BY <2>5, <4>1
    <3>2. n \in Settled(q, k)' /\ n \notin Settled(q, k)
      BY <1>2, <2>2, <2>5 DEF Settled
    <3> HIDE DEF n
    <3> QED
      BY <1>1, <1>4, <2>3, <3>1, <3>2, CountOne
  <2>6. CASE <<q, k>> # <<p, l>>
    <3>1. called'[<<q, k>>] = called[<<q, k>>]
      <4>1. \A x \in Packages, y \in Listeners :
              <<x, y>> # <<p, l>> => called'[<<x, y>>] = called[<<x, y>>]
        BY <1>1, <2>4, CallCounts
      <4> QED
        BY <2>6, <4>1
    <3> QED
      BY <1>1, <1>4, <2>3, <3>1, CountKept
  <2> QED
    BY <2>5, <2>6
<1>6. CASE p \notin attached
  <2>1. /\ pc'[t] = "getOrPut" /\ reg'[t] = n /\ called' = called
    BY <1>1, <1>6, RegisterLaterFrame, Types
  <2>2. InProgress' \subseteq InProgress \cup {n}
    BY <1>3, <2>1 DEF InProgress
  <2>3. Settled(q, k) \subseteq Settled(q, k)'
    BY <1>2, <2>2 DEF Settled
  <2> QED
    BY <1>1, <1>4, <2>1, <2>3, CountKept
<1> QED
  BY <1>5, <1>6

LEMMA GetOrPutCounted ==
  ASSUME CountInv, TypeInv', NEW t \in Threads, RegisterGetOrPut(t),
         NEW q \in Packages, NEW k \in Listeners
  PROVE  CountedFor(q, k)'
<1> DEFINE p == regs[reg[t]].pkg
           n == IF table[p] = 0 THEN reg[t] ELSE table[p]
<1>1. TypeInv /\ CountedFor(q, k)
  BY DEF CountInv, SetInv
<1>2. /\ pc[t] = "getOrPut" /\ pc' = [pc EXCEPT ![t] = "add"]
      /\ table' = [table EXCEPT ![p] = n]
      /\ sets' = sets /\ regs' = regs /\ reg' = reg /\ app' = app /\ took' = took
      /\ toCall' = toCall /\ called' = called
  BY DEF RegisterGetOrPut, attaching, Goto
<1>3. p \in Packages /\ \A a \in AppThreads : a # t
  BY <1>1, <1>2, OwnFacts
<1>4. /\ pc'[t] = "add" /\ \A u \in Threads \cup AppThreads : u # t => pc'[u] = pc[u]
      /\ table'[p] = n /\ \A r \in Packages : r # p => table'[r] = table[r]
  BY <1>1, <1>2, <1>3, Types
<1>5. Holders(q, k)' = Holders(q, k)
  BY <1>2, <1>3, <1>4 DEF Holders, Holds
<1>6. InTable(q, k)' => InTable(q, k)
  <2>1. sets[reg[t]] = {}
    BY <1>2 DEF CountInv, SetInv, NewSetUnused, Unused
  <2> QED
    BY <1>2, <1>4, <2>1 DEF InTable
<1>7. Settled(q, k)' = Settled(q, k)
  <2>1. InProgress' = InProgress
    <3>1. \A u \in Threads : pc'[u] # "idle" <=> pc[u] # "idle"
      BY <1>2, <1>4
    <3> QED
      BY <1>2, <3>1 DEF InProgress
  <2> QED
    BY <1>2, <2>1 DEF Settled, Registrations
<1> QED
  BY <1>1, <1>2, <1>5, <1>6, <1>7, CountKept

LEMMA AddCounted ==
  ASSUME CountInv, TypeInv', NEW t \in Threads, RegisterAdd(t),
         NEW q \in Packages, NEW k \in Listeners
  PROVE  CountedFor(q, k)'
<1> DEFINE n == into[t]
           r == reg[t]
           p == regs[r].pkg
           l == regs[r].listener
<1>1. TypeInv /\ CountedFor(q, k) /\ SetPackage /\ OneHolder
  BY DEF CountInv, SetInv
<1>2. /\ pc[t] = "add" /\ pc' = [pc EXCEPT ![t] = "idle"]
      /\ sets' = [sets EXCEPT ![n] = @ \cup {l}]
      /\ reg' = [reg EXCEPT ![t] = 0]
      /\ table' = table /\ regs' = regs /\ app' = app /\ took' = took
      /\ toCall' = toCall /\ called' = called
  BY DEF RegisterAdd, attaching, Goto
<1>3. /\ r \in Registrations /\ p \in Packages /\ n \in 1..MaxRegs /\ regs[n].pkg = p
      /\ Registrations' = Registrations /\ \A a \in AppThreads : a # t
  BY <1>1, <1>2, OwnFacts, Regs DEF SetPackage, Registrations
<1>4. /\ pc'[t] = "idle" /\ \A u \in Threads \cup AppThreads : u # t => pc'[u] = pc[u]
      /\ \A u \in Threads : u # t => reg'[u] = reg[u]
      /\ sets'[n] = sets[n] \cup {l}
      /\ \A m \in 1..MaxRegs : m # n => sets'[m] = sets[m]
  BY <1>1, <1>2, <1>3, Types
<1>5. r \in InProgress /\ InProgress' = InProgress \ {r}
  BY <1>1, <1>2, <1>4 DEF InProgress, TypeInv, OwnRegistration
<1>6. Settled(q, k) \subseteq Settled(q, k)'
  BY <1>2, <1>3, <1>5 DEF Settled
<1>7. \A a \in AppThreads : pc[a] = "copy" => took[a] \in 1..MaxRegs /\ regs[took[a]].pkg = app[a]
  BY <1>1, Regs DEF SetPackage
<1>8. CASE <<q, k>> = <<p, l>>
  <2>1. r \in Settled(q, k)' /\ r \notin Settled(q, k)
    BY <1>2, <1>3, <1>5, <1>8 DEF Settled
  <2>2. CASE \E a \in AppThreads : pc[a] = "copy" /\ took[a] = n
    <3>1. PICK a \in AppThreads : pc[a] = "copy" /\ took[a] = n
      BY <2>2
    <3>2. \A b \in AppThreads : pc[b] = "copy" /\ took[b] = n => b = a
      BY <1>1, <3>1 DEF OneHolder
    <3>3. table[q] # n
      BY <1>1, <1>3, <1>7, <1>8, <3>1 DEF OneHolder
    <3>4. Holders(q, k)' \subseteq Holders(q, k) \cup {a}
      BY <1>2, <1>3, <1>4, <1>7, <3>2 DEF Holders, Holds
    <3>5. InTable(q, k)' => InTable(q, k)
      BY <1>1, <1>2, <1>4, <3>3, Types DEF InTable
    <3> QED
      BY <1>1, <1>2, <1>6, <2>1, <3>4, <3>5, CountOne
  <2>3. CASE ~ \E a \in AppThreads : pc[a] = "copy" /\ took[a] = n
    <3>1. Holders(q, k)' \subseteq Holders(q, k)
      BY <1>2, <1>3, <1>4, <1>7, <2>3 DEF Holders, Holds
    <3> QED
      BY <1>1, <1>2, <1>6, <2>1, <3>1, CountOne
  <2> QED
    BY <2>2, <2>3
<1>9. CASE <<q, k>> # <<p, l>>
  <2>1. \A m \in 1..MaxRegs : regs[m].pkg = q => (k \in sets'[m] <=> k \in sets[m])
    BY <1>3, <1>4, <1>9
  <2>2. Holders(q, k)' \subseteq Holders(q, k)
    BY <1>2, <1>3, <1>4, <1>7, <2>1 DEF Holders, Holds
  <2>3. InTable(q, k)' => InTable(q, k)
    <3>1. table[q] # 0 => table[q] \in 1..MaxRegs /\ regs[table[q]].pkg = q
      BY <1>1, Regs DEF SetPackage
    <3> QED
      BY <1>2, <2>1, <3>1 DEF InTable
  <2> QED
    BY <1>1, <1>2, <1>6, <2>2, <2>3, CountKept
<1> QED
  BY <1>8, <1>9

LEMMA UnregisterCounted ==
  ASSUME CountInv, TypeInv', NEW t \in Threads, NEW p \in Packages, Unregister(t, p),
         NEW q \in Packages, NEW k \in Listeners
  PROVE  CountedFor(q, k)'
<1>1. TypeInv /\ CountedFor(q, k)
  BY DEF CountInv, SetInv
<1>2. /\ table' = [table EXCEPT ![p] = 0]
      /\ sets' = sets /\ regs' = regs /\ pc' = pc /\ reg' = reg
      /\ app' = app /\ took' = took /\ toCall' = toCall /\ called' = called
  BY DEF Unregister, registering, attaching
<1>3. table'[q] = 0 \/ table'[q] = table[q]
  BY <1>1, <1>2, Types
<1>4. Holders(q, k)' = Holders(q, k) /\ (InTable(q, k)' => InTable(q, k))
  BY <1>2, <1>3 DEF Holders, Holds, InTable
<1>5. Settled(q, k)' = Settled(q, k)
  BY <1>2 DEF Settled, InProgress, Registrations
<1> QED
  BY <1>1, <1>2, <1>4, <1>5, CountKept

LEMMA AttachCounted ==
  ASSUME CountInv, TypeInv', NEW a \in AppThreads, NEW p \in Packages, Attach(a, p),
         NEW q \in Packages, NEW k \in Listeners
  PROVE  CountedFor(q, k)'
<1>1. TypeInv /\ CountedFor(q, k)
  BY DEF CountInv, SetInv
<1>2. /\ pc[a] = "idle" /\ pc' = [pc EXCEPT ![a] = "remove"]
      /\ app' = [app EXCEPT ![a] = p]
      /\ table' = table /\ sets' = sets /\ regs' = regs /\ reg' = reg
      /\ took' = took /\ toCall' = toCall /\ called' = called
  BY DEF Attach, registering, Goto
<1>3. /\ pc'[a] = "remove" /\ a \notin Threads
      /\ \A b \in Threads \cup AppThreads : b # a => pc'[b] = pc[b]
      /\ \A b \in AppThreads : b # a => app'[b] = app[b]
  BY <1>1, <1>2, Types, OwnFacts
<1>4. Holders(q, k)' \subseteq Holders(q, k) /\ (InTable(q, k)' => InTable(q, k))
  BY <1>2, <1>3 DEF Holders, Holds, InTable
<1>5. Settled(q, k)' = Settled(q, k)
  BY <1>2, <1>3 DEF Settled, InProgress, Registrations
<1> QED
  BY <1>1, <1>2, <1>4, <1>5, CountKept

LEMMA AttachStepCounted ==
  ASSUME CountInv, TypeInv', NEW a \in AppThreads, AttachStep(a),
         NEW q \in Packages, NEW k \in Listeners
  PROVE  CountedFor(q, k)'
<1>1. TypeInv /\ CountedFor(q, k)
  BY DEF CountInv, SetInv
<1>2. /\ sets' = sets /\ regs' = regs /\ reg' = reg /\ app' = app
      /\ Registrations' = Registrations
      /\ a \notin Threads /\ pc[a] # "idle"
      /\ \A b \in Threads \cup AppThreads : b # a => pc'[b] = pc[b]
      /\ \A b \in AppThreads : b # a => took'[b] = took[b] /\ toCall'[b] = toCall[b]
  BY <1>1, AttachStepFrame
<1>3. app[a] \in Packages
  BY <1>1, <1>2, OwnFacts
<1>4. Settled(q, k) \subseteq Settled(q, k)'
  BY <1>2 DEF Settled, InProgress
<1>5. \A b \in AppThreads : b # a => (Holds(b, q, k)' <=> Holds(b, q, k))
  BY <1>2 DEF Holds
<1>6. CASE AttachRemove(a)
  <2>1. /\ table' = [table EXCEPT ![app[a]] = 0] /\ pc[a] = "remove" /\ called' = called
        /\ pc'[a] = "copy" => took'[a] = table[app[a]] /\ table[app[a]] # 0
        /\ pc'[a] # "call"
    BY <1>1, <1>6, Types DEF AttachRemove, Goto
  <2>2. CASE q = app[a] /\ InTable(q, k)
    <3>1. Holders(q, k)' \subseteq Holders(q, k) \cup {a}
      BY <1>5 DEF Holders
    <3>2. ~InTable(q, k)'
      BY <1>1, <2>1, <2>2, Types DEF InTable
    <3> QED
      BY <1>1, <1>4, <2>1, <2>2, <3>1, <3>2, CountTaken
  <2>3. CASE ~(q = app[a] /\ InTable(q, k))
    <3>1. ~Holds(a, q, k)'
      BY <1>2, <2>1, <2>3 DEF Holds, InTable
    <3>2. Holders(q, k)' \subseteq Holders(q, k)
      BY <1>5, <3>1 DEF Holders
    <3>3. InTable(q, k)' => InTable(q, k)
      BY <1>1, <1>2, <2>1, Types DEF InTable
    <3> QED
      BY <1>1, <1>4, <2>1, <3>2, <3>3, CountKept
  <2> QED
    BY <2>2, <2>3
<1>7. CASE AttachCopy(a)
  <2>1. /\ pc[a] = "copy" /\ pc'[a] = "call" /\ toCall'[a] = sets[took[a]]
        /\ called' = called /\ table' = table
    BY <1>1, <1>7, Types DEF AttachCopy, Goto
  <2>2. Holds(a, q, k)' => Holds(a, q, k)
    BY <1>2, <2>1 DEF Holds
  <2>3. Holders(q, k)' \subseteq Holders(q, k)
    BY <1>5, <2>2 DEF Holders
  <2> QED
    BY <1>1, <1>2, <1>4, <2>1, <2>3, CountKept DEF InTable
<1>8. ASSUME NEW l \in toCall[a], pc[a] = "call", Call(app[a], {l}, regs), table' = table,
             pc'[a] = "call" => toCall'[a] = toCall[a] \ {l},
             pc'[a] # "copy"
      PROVE  CountedFor(q, k)'
  <2>1. Holds(a, q, k)' => Holds(a, q, k) /\ <<q, k>> # <<app[a], l>>
    BY <1>2, <1>8 DEF Holds
  <2>2. Holders(q, k)' \subseteq Holders(q, k)
    BY <1>5, <2>1 DEF Holders
  <2>3. l \in Listeners
    BY <1>1, <1>8, Types
  <2>4. InTable(q, k)' => InTable(q, k)
    BY <1>2, <1>8 DEF InTable
  <2>5. CASE <<q, k>> = <<app[a], l>>
    <3>1. a \in Holders(q, k) /\ a \notin Holders(q, k)'
      BY <1>8, <2>1, <2>5 DEF Holders, Holds
    <3>2. called'[<<q, k>>] = called[<<q, k>>] + 1
      <4>1. called'[<<app[a], l>>] = called[<<app[a], l>>] + 1
        BY <1>1, <1>3, <1>8, <2>3, CallCounts
      <4> QED
        BY <2>5, <4>1
    <3> QED
      BY <1>1, <1>4, <2>2, <2>4, <3>1, <3>2, CountCalled
  <2>6. CASE <<q, k>> # <<app[a], l>>
    <3>1. called'[<<q, k>>] = called[<<q, k>>]
      <4>1. \A x \in Packages, y \in Listeners :
              <<x, y>> # <<app[a], l>> => called'[<<x, y>>] = called[<<x, y>>]
        BY <1>1, <1>3, <1>8, <2>3, CallCounts
      <4> QED
        BY <2>6, <4>1
    <3> QED
      BY <1>1, <1>4, <2>2, <2>4, <3>1, CountKept
  <2> QED
    BY <2>5, <2>6
<1>9. CASE AttachCall(a)
  <2>1. pc[a] = "call" /\ table' = table
    BY <1>9 DEF AttachCall
  <2>2. CASE /\ toCall[a] = {} /\ Goto(a, "idle") /\ UNCHANGED <<toCall, called, served>>
    <3>1. pc'[a] = "idle" /\ called' = called
      BY <1>1, <2>2, Types DEF Goto
    <3>2. Holders(q, k)' \subseteq Holders(q, k)
      BY <1>5, <3>1 DEF Holders, Holds
    <3> QED
      BY <1>1, <1>2, <1>4, <2>1, <3>1, <3>2, CountKept DEF InTable
  <2>3. CASE \E l \in toCall[a] :
               /\ toCall' = [toCall EXCEPT ![a] = @ \ {l}]
               /\ Call(app[a], {l}, regs) /\ UNCHANGED pc
    <3>1. PICK l \in toCall[a] : /\ toCall' = [toCall EXCEPT ![a] = @ \ {l}]
                                 /\ Call(app[a], {l}, regs) /\ pc' = pc
      BY <2>3
    <3>2. toCall'[a] = toCall[a] \ {l}
      BY <1>1, <3>1, Types
    <3> QED
      BY <1>8, <2>1, <3>1, <3>2
  <2> QED
    BY <1>9, <2>2, <2>3 DEF AttachCall
<1>10. CASE AttachCallThrows(a)
  <2>1. PICK l \in toCall[a] : Call(app[a], {l}, regs)
    BY <1>10 DEF AttachCallThrows
  <2>2. pc[a] = "call" /\ pc'[a] = "idle" /\ table' = table
    BY <1>1, <1>10, Types DEF AttachCallThrows, Goto
  <2> QED
    BY <1>8, <2>1, <2>2
<1> QED
  BY <1>6, <1>7, <1>9, <1>10 DEF AttachStep

LEMMA NextCounted == CountInv /\ [Next]_vars => CountInv'
<1> SUFFICES ASSUME CountInv, [Next]_vars PROVE CountInv'
  OBVIOUS
<1>1. SetInv' /\ TypeInv'
  <2>1. SetInv'
    BY NextSetInv DEF CountInv
  <2> QED
    BY <2>1 DEF SetInv
<1>2. ASSUME NEW q \in Packages, NEW k \in Listeners PROVE CountedFor(q, k)'
  <2>1. CASE UNCHANGED vars
    BY <2>1 DEF vars, registering, attaching, CountInv, CountedFor, Sum, Held, InTable,
       Holders, Holds, Settled, InProgress, Registrations
  <2>2. CASE Next
    BY <1>1, <2>2, RegisterCounted, GetOrPutCounted, AddCounted, UnregisterCounted,
       AttachCounted, AttachStepCounted DEF Next, RegisterStep
  <2> QED
    BY <2>1, <2>2
<1> QED
  BY <1>1, <1>2 DEF CountInv

\* A listener is not called more often than it was registered for the package.
\* (XposedKit.kt 58-63, 222-233)
THEOREM CallsOncePerRegistration == Spec => []CalledOncePerRegistration
<1>1. ASSUME CountInv, NEW p \in Packages, NEW l \in Listeners
      PROVE  called[<<p, l>>] <= Cardinality({r \in Registrations :
                                   regs[r].pkg = p /\ regs[r].listener = l})
  <2> DEFINE R == {r \in Registrations : regs[r].pkg = p /\ regs[r].listener = l}
  <2>1. TypeInv /\ CountedFor(p, l)
    BY <1>1 DEF CountInv, SetInv
  <2>2. Len(regs) \in Nat /\ R \subseteq 1..Len(regs)
    BY <2>1, Regs DEF Registrations
  <2>3. IsFiniteSet(R) /\ Cardinality(R) \in Nat
    BY <2>2, FiniteNumbers
  <2>4. Settled(p, l) \subseteq R
    BY DEF Settled
  <2>5. /\ Cardinality(Settled(p, l)) \in Nat
        /\ Cardinality(Settled(p, l)) <= Cardinality(R)
    BY <2>3, <2>4, FS_Subset, FS_CardinalityType
  <2>6. called[<<p, l>>] <= Cardinality(Settled(p, l))
    BY <2>1, <2>5, Parts DEF CountedFor, Sum
  <2>7. called[<<p, l>>] \in Nat
    BY <2>1, Parts
  <2> QED
    BY <2>3, <2>5, <2>6, <2>7
<1>2. CountInv => CalledOncePerRegistration
  BY <1>1 DEF CalledOncePerRegistration
<1> QED
  BY <1>2, InitCounted, NextCounted, PTL DEF Spec

----
\* The start of the module

USE PackagesAssumption, StartBoundsAssumption

\* The module has been told of its process, ...
Told == \E i \in DOMAIN told : told[i] = Process

\* ... and is about to be.
ProcessIsNext == todo # <<>> /\ Head(todo) = Process

\* What excuses a callback c that comes before that of the process
Excused(c) ==
  \/ unmade
  \/ StartedByOwnPackage
  \/ c = System /\ backend = "lsposed" /\ ~processName

\* Nothing is made of a module that is not there, or of no package.
NewOK ==
  /\ phase = "new" => todo = <<>> /\ told = <<>>
  /\ backend = "legacy" /\ first = Nothing => todo = <<>> /\ told = <<>>

\* prepare() has hooked Application.attach once a package was loaded (legacy) or
\* the process is known (LSPosed), so before a package is even to be told of.
HookedOK ==
  /\ backend = "legacy" /\ ~system /\ first # Nothing =>
       attachHooked \/ first = OwnPackage
  /\ backend = "lsposed" /\ processName => attachHooked
  /\ \A i \in DOMAIN todo :
       todo[i].on = "package" => attachHooked \/ StartedByOwnPackage
  /\ \A i \in DOMAIN told :
       told[i].on = "package" => attachHooked \/ StartedByOwnPackage

\* From the first package (legacy), or once the process is known (LSPosed), the
\* module has been told of the process, is about to be, or could not be made;
\* the same wherever something else is to be told, and where it was told.
FirstOK ==
  /\ backend = "legacy" /\ ~system /\ first \notin {Nothing, OwnPackage} =>
       Told \/ unmade \/ ProcessIsNext
  /\ backend = "lsposed" /\ processName => Told \/ unmade \/ ProcessIsNext
  /\ \A i \in DOMAIN todo : todo[i] # Process =>
       Told \/ ProcessIsNext \/ Excused(todo[i])
  /\ \A i \in DOMAIN told : told[i] # Process =>
       (\E j \in 1..(i - 1) : told[j] = Process) \/ Excused(told[i])

\* The process is told of once, and is to be told of only if it was not.
ToldOnce ==
  \A i, j \in DOMAIN told :
    told[i] = Process /\ told[j] = Process => i = j

OnceOK ==
  ~(backend = "legacy" /\ system) =>
    /\ \A i \in DOMAIN todo : todo[i] = Process => i = 1 /\ ~Told
    /\ ToldOnce

\* The variables have the values they are meant to have; a running module of the
\* legacy backend knows its package, and nothing is told before moduleInstance.
\* (Xposed.kt 46-57, XposedKit.kt 110-161)
THEOREM StartTyped == StartSpec => []StartTypeOK
<1>1. StartInit => StartTypeOK
  <2> SUFFICES ASSUME StartInit PROVE StartTypeOK
    OBVIOUS
  <2>1. {moduleSource, processName, attachHooked, instance, unmade, serverStarted} = {FALSE}
    BY DEF StartInit
  <2>2. /\ loads \in 0..MaxLoads
        /\ todo \in Seq(Callbacks) /\ told \in Seq(Callbacks)
    BY DEF StartInit
  <2> QED BY <2>1, <2>2 DEF StartInit, StartTypeOK
<1>2. StartTypeOK /\ [StartNext]_startVars => StartTypeOK'
  <2> SUFFICES ASSUME StartTypeOK, [StartNext]_startVars PROVE StartTypeOK'
    OBVIOUS
  <2> USE DEF StartTypeOK, framework, loading, backendState
  <2>c. /\ Process \in Callbacks /\ System \in Callbacks
        /\ \A p \in Packages : Package(p) \in Callbacks
    BY DEF Callbacks, Process, System, Package
  <2>0. ASSUME NEW p \in Packages, Load(p)
        PROVE  /\ first' \in Packages \cup {Nothing} /\ loads' \in 0..MaxLoads
               /\ serverStarted' = serverStarted
               /\ phase = "running"
    BY <2>0 DEF Load
  <2>1. CASE Construct
    BY <2>1 DEF Construct
  <2>2. CASE InitZygote
    BY <2>2 DEF InitZygote
  <2>3. ASSUME NEW p \in Packages, HandleLoadPackage(p) PROVE StartTypeOK'
    <3>1. /\ LegacyLoad(p).prepare \in BOOLEAN
          /\ LegacyLoad(p).todo \in Seq(Callbacks)
      BY <2>c DEF LegacyLoad
    <3> QED BY <2>3, <2>0, <3>1 DEF HandleLoadPackage
  <2>4. ASSUME NEW p \in Packages, OnPackageReady(p) PROVE StartTypeOK'
    BY <2>4, <2>0, <2>c DEF OnPackageReady
  <2>5. CASE OnModuleLoaded
    <3>1. todo' \in Seq(Callbacks) /\ {attachHooked', processName'} \subseteq BOOLEAN
      <4>1. CASE attachHooked' = TRUE /\ processName' = TRUE /\ todo' = <<Process>>
        BY <4>1, <2>c
      <4>2. CASE UNCHANGED <<attachHooked, processName, todo>>
        BY <4>2
      <4> QED BY <2>5, <4>1, <4>2 DEF OnModuleLoaded
    <3> QED BY <2>5, <3>1 DEF OnModuleLoaded
  <2>6. CASE OnSystemServerStarting
    BY <2>6, <2>c DEF OnSystemServerStarting
  <2>7. CASE MountThrows
    BY <2>7 DEF MountThrows
  <2>8. CASE CallModule
    <3>1. todo # <<>> /\ Head(todo) \in Callbacks
      BY <2>8 DEF CallModule, Idle
    <3>2. told' \in Seq(Callbacks) /\ todo' \in Seq(Callbacks)
      BY <2>8, <3>1 DEF CallModule
    <3>3. Head(todo).on = "package" => Head(todo).package \in Packages
      BY <3>1 DEF Callbacks
    <3> QED BY <2>8, <3>1, <3>2, <3>3 DEF CallModule
  <2>9. CASE ModuleThrows
    <3>1. todo # <<>> /\ Head(todo) \in Callbacks
      BY <2>9 DEF ModuleThrows, Idle
    <3> QED BY <2>9, <3>1 DEF ModuleThrows
  <2>10. CASE UNCHANGED startVars
    BY <2>10 DEF startVars
  <2> QED BY <2>1, <2>2, <2>3, <2>4, <2>5, <2>6, <2>7, <2>8, <2>9, <2>10 DEF StartNext
<1> QED BY <1>1, <1>2, PTL DEF StartSpec

\* A callback of the module is made: it is the last one told, ...
LEMMA ToldOneMore ==
  ASSUME StartTypeOK, todo # <<>>, told' = Append(told, Head(todo))
  PROVE  /\ Head(todo) = todo[1] /\ 1 \in DOMAIN todo
         /\ DOMAIN told = 1..Len(told) /\ Len(told) \in Nat
         /\ DOMAIN told' = 1..(Len(told) + 1)
         /\ \A i \in DOMAIN told : i \in DOMAIN told' /\ told'[i] = told[i]
         /\ \A i \in DOMAIN told' : i \in DOMAIN told \/ i = Len(told) + 1
         /\ told'[Len(told) + 1] = todo[1]
<1>1. todo \in Seq(Callbacks) /\ told \in Seq(Callbacks)
  BY DEF StartTypeOK
<1>2. Head(todo) = todo[1] /\ 1 \in DOMAIN todo /\ Head(todo) \in Callbacks
  BY <1>1
<1> QED BY <1>1, <1>2

\* ... and what is left to make moves up.
LEMMA OneLessToDo ==
  ASSUME StartTypeOK, todo # <<>>, todo' = Tail(todo)
  PROVE  \A i \in DOMAIN todo' :
           i \in Nat /\ i >= 1 /\ i + 1 \in DOMAIN todo /\ todo'[i] = todo[i + 1]
<1>1. todo \in Seq(Callbacks)
  BY DEF StartTypeOK
<1> QED BY <1>1

\* What the backends make of a load.
LEMMA LoadedToDo ==
  ASSUME NEW p \in Packages
  PROVE  \/ /\ p = OwnPackage
            /\ LegacyLoad(p).todo = <<>> /\ LegacyLoad(p).prepare = FALSE
         \/ /\ p # OwnPackage /\ system
            /\ LegacyLoad(p).todo = <<Process, System>>
            /\ LegacyLoad(p).prepare = FALSE
         \/ /\ p # OwnPackage /\ ~system /\ first = Nothing
            /\ LegacyLoad(p).todo = <<Process, Package(p)>>
            /\ LegacyLoad(p).prepare = TRUE
         \/ /\ p # OwnPackage /\ ~system /\ first # Nothing
            /\ LegacyLoad(p).todo = <<Package(p)>>
            /\ LegacyLoad(p).prepare = FALSE
BY DEF LegacyLoad

\* Each part is kept by every step, whatever throws.
LEMMA NewStep ==
  ASSUME StartTypeOK, NewOK, [StartNext]_startVars
  PROVE  NewOK'
<1> USE DEF NewOK, framework, loading, backendState
<1>1. CASE Construct
  BY <1>1 DEF Construct
<1>2. CASE InitZygote
  BY <1>2 DEF InitZygote
<1>3. ASSUME NEW p \in Packages, HandleLoadPackage(p) PROVE NewOK'
  <2>1. phase = "running" /\ phase' = "running" /\ first' # Nothing
    BY <1>3 DEF HandleLoadPackage, Load
  <2> QED BY <2>1
<1>4. ASSUME NEW p \in Packages, OnPackageReady(p) PROVE NewOK'
  <2>1. phase = "running" /\ phase' = "running" /\ backend' = "lsposed"
    BY <1>4 DEF OnPackageReady, Load
  <2> QED BY <2>1
<1>5. CASE OnModuleLoaded
  <2>1. phase' = "running" /\ backend' = "lsposed"
    BY <1>5 DEF OnModuleLoaded
  <2> QED BY <2>1
<1>6. CASE OnSystemServerStarting
  <2>1. phase' = "running" /\ backend' = "lsposed"
    BY <1>6 DEF OnSystemServerStarting
  <2> QED BY <2>1
<1>7. CASE MountThrows \/ CallModule \/ ModuleThrows
  BY <1>7 DEF MountThrows, CallModule, ModuleThrows, Idle
<1>8. CASE UNCHANGED startVars
  BY <1>8 DEF startVars
<1> QED BY <1>1, <1>2, <1>3, <1>4, <1>5, <1>6, <1>7, <1>8 DEF StartNext

LEMMA HookedStep ==
  ASSUME StartTypeOK, NewOK, HookedOK, [StartNext]_startVars
  PROVE  HookedOK'
<1> USE DEF framework, loading, backendState
<1>p. Process.on # "package" /\ System.on # "package"
  BY DEF Process, System
<1>0. ASSUME UNCHANGED <<backend, system, first, attachHooked, processName, todo, told>>
      PROVE  HookedOK'
  BY <1>0 DEF HookedOK, StartedByOwnPackage
<1>1. CASE Construct
  BY <1>0, <1>1 DEF Construct
<1>2. CASE InitZygote
  BY <1>0, <1>2 DEF InitZygote
<1>3. ASSUME NEW p \in Packages, HandleLoadPackage(p) PROVE HookedOK'
  <2>1. /\ backend = "legacy" /\ backend' = "legacy" /\ system' = system
        /\ first' = (IF first = Nothing THEN p ELSE first) /\ p # Nothing
        /\ told' = told /\ todo' = LegacyLoad(p).todo
        /\ attachHooked' = (attachHooked \/ LegacyLoad(p).prepare)
    BY <1>3 DEF HandleLoadPackage, Load
  <2>2. attachHooked \/ StartedByOwnPackage =>
          attachHooked' \/ StartedByOwnPackage'
    BY <2>1 DEF StartedByOwnPackage
  <2>3. ~system' /\ first' # Nothing => attachHooked' \/ StartedByOwnPackage'
    BY <2>1, LoadedToDo DEF HookedOK, StartedByOwnPackage
  <2>4. \A i \in DOMAIN todo' : todo'[i].on = "package" => ~system'
    <3>1. CASE ~system
      BY <2>1, <3>1
    <3>2. CASE system
      <4>1. todo' = <<>> \/ todo' = <<Process, System>>
        BY <2>1, <3>2, LoadedToDo
      <4>2. \A i \in DOMAIN todo' : todo'[i] \in {Process, System}
        BY <4>1
      <4> QED BY <4>2, <1>p
    <3> QED BY <3>1, <3>2
  <2> QED BY <2>1, <2>2, <2>3, <2>4 DEF HookedOK, StartedByOwnPackage
<1>4. ASSUME NEW p \in Packages, OnPackageReady(p) PROVE HookedOK'
  <2>1. /\ backend = "lsposed" /\ backend' = "lsposed" /\ told' = told
        /\ attachHooked' = attachHooked /\ processName' = processName
        /\ todo' = IF processName THEN <<Package(p)>> ELSE <<>>
    BY <1>4 DEF OnPackageReady
  <2> QED BY <2>1 DEF HookedOK, StartedByOwnPackage
<1>5. CASE OnModuleLoaded
  <2>1. backend = "lsposed" /\ backend' = "lsposed" /\ told' = <<>>
    BY <1>5 DEF OnModuleLoaded, NewOK
  <2>2. CASE attachHooked' = TRUE /\ processName' = TRUE /\ todo' = <<Process>>
    BY <2>1, <2>2 DEF HookedOK
  <2>3. CASE UNCHANGED <<attachHooked, processName, todo>>
    BY <1>5, <2>1, <2>3 DEF OnModuleLoaded, HookedOK, StartedByOwnPackage
  <2> QED BY <1>5, <2>2, <2>3 DEF OnModuleLoaded
<1>6. CASE OnSystemServerStarting
  <2>1. /\ UNCHANGED <<backend, system, first, attachHooked, processName, told>>
        /\ todo' = <<System>>
    BY <1>6 DEF OnSystemServerStarting
  <2>2. \A i \in DOMAIN todo' : todo'[i].on # "package"
    BY <2>1, <1>p
  <2>3. StartedByOwnPackage' = StartedByOwnPackage
    BY <2>1 DEF StartedByOwnPackage
  <2> QED BY <2>1, <2>2, <2>3 DEF HookedOK
<1>7. CASE MountThrows
  <2>1. /\ UNCHANGED <<backend, system, first, attachHooked, processName, told>>
        /\ todo' = <<>>
    BY <1>7 DEF MountThrows
  <2> QED BY <2>1 DEF HookedOK, StartedByOwnPackage
<1>8. CASE CallModule \/ ModuleThrows
  <2>1. /\ UNCHANGED <<backend, system, first, attachHooked, processName>>
        /\ todo # <<>> /\ told' = Append(told, Head(todo))
        /\ todo' \in {<<>>, Tail(todo)}
    BY <1>8 DEF CallModule, ModuleThrows, Idle
  <2>2. \A i \in DOMAIN todo' : \E j \in DOMAIN todo : todo'[i] = todo[j]
    <3>1. CASE todo' = Tail(todo)
      BY <2>1, <3>1, OneLessToDo
    <3>2. CASE todo' = <<>>
      BY <3>2
    <3> QED BY <2>1, <3>1, <3>2
  <2>3. \A i \in DOMAIN told' :
          \/ i \in DOMAIN told /\ told'[i] = told[i]
          \/ 1 \in DOMAIN todo /\ told'[i] = todo[1]
    BY <2>1, ToldOneMore
  <2>4. StartedByOwnPackage' = StartedByOwnPackage
    BY <2>1 DEF StartedByOwnPackage
  <2> QED BY <2>1, <2>2, <2>3, <2>4 DEF HookedOK
<1>9. CASE UNCHANGED startVars
  BY <1>0, <1>9 DEF startVars
<1> QED BY <1>1, <1>2, <1>3, <1>4, <1>5, <1>6, <1>7, <1>8, <1>9 DEF StartNext

\* With the next callback made, the module has been told of its process if it
\* was before or if that is the callback.
LEMMA ToldNow ==
  ASSUME StartTypeOK, todo # <<>>, told' = Append(told, Head(todo))
  PROVE  /\ Told' <=> Told \/ ProcessIsNext
         /\ ProcessIsNext <=> todo[1] = Process
<1>1. ProcessIsNext <=> todo[1] = Process
  BY ToldOneMore DEF ProcessIsNext
<1>2. Told => Told'
  BY ToldOneMore DEF Told
<1>3. todo[1] = Process => Told'
  <2>1. Len(told) + 1 \in DOMAIN told' /\ told'[Len(told) + 1] = todo[1]
    BY ToldOneMore
  <2> QED BY <2>1 DEF Told, Process
<1>4. Told' => Told \/ todo[1] = Process
  <2> SUFFICES ASSUME NEW i \in DOMAIN told', told'[i] = Process
               PROVE  Told \/ todo[1] = Process
    BY DEF Told, Process
  <2>1. i \in DOMAIN told \/ i = Len(told) + 1
    BY ToldOneMore
  <2>2. CASE i \in DOMAIN told
    BY <2>2, ToldOneMore DEF Told
  <2>3. CASE i = Len(told) + 1
    BY <2>3, ToldOneMore
  <2> QED BY <2>1, <2>2, <2>3
<1> QED BY <1>1, <1>2, <1>3, <1>4

LEMMA FirstStep ==
  ASSUME StartTypeOK, NewOK, FirstOK, [StartNext]_startVars
  PROVE  FirstOK'
<1> USE DEF framework, loading, backendState
<1>0. ASSUME UNCHANGED <<backend, system, first, processName, unmade, todo, told>>
      PROVE  FirstOK'
  BY <1>0
     DEF FirstOK, StartedByOwnPackage, Excused, ProcessIsNext,
         Told, Process, System
<1>1. CASE Construct
  BY <1>0, <1>1 DEF Construct
<1>2. CASE InitZygote
  BY <1>0, <1>2 DEF InitZygote
<1>s. System # Process
  BY DEF System, Process
<1>k. ASSUME UNCHANGED <<backend, told>>, unmade => unmade',
             StartedByOwnPackage => StartedByOwnPackage',
             processName' => processName
      PROVE  /\ \A c : Excused(c) => Excused(c)'
             /\ Told' = Told
             /\ (\A i \in DOMAIN told : told[i] # Process =>
                   (\E j \in 1..(i - 1) : told[j] = Process) \/ Excused(told[i]))'
  <2>1. \A c : Excused(c) => Excused(c)'
    BY <1>k DEF Excused, System
  <2> QED BY <1>k, <2>1 DEF FirstOK, Told, Process
<1>3. ASSUME NEW p \in Packages, HandleLoadPackage(p) PROVE FirstOK'
  <2>1. /\ backend = "legacy" /\ UNCHANGED <<backend, system, processName, unmade, told>>
        /\ first' = (IF first = Nothing THEN p ELSE first) /\ p # Nothing
        /\ todo = <<>> /\ todo' = LegacyLoad(p).todo
    BY <1>3 DEF HandleLoadPackage, Load, Idle
  <2>2. StartedByOwnPackage => StartedByOwnPackage'
    BY <2>1 DEF StartedByOwnPackage
  <2>3. ~ProcessIsNext
    BY <2>1 DEF ProcessIsNext
  <2>4. CASE p = OwnPackage
    <3>1. todo' = <<>>
      BY <2>1, <2>4, LoadedToDo
    <3> QED BY <2>1, <2>2, <2>3, <2>4, <3>1, <1>k DEF FirstOK
  <2>5. CASE \/ todo' = <<Process, System>>
             \/ todo' = <<Process, Package(p)>>
    <3>1. ProcessIsNext'
      BY <2>5 DEF ProcessIsNext, Process
    <3> QED BY <2>1, <2>2, <3>1, <1>k DEF FirstOK
  <2>6. CASE ~system /\ first # Nothing /\ todo' = <<Package(p)>>
    <3>1. first \notin {Nothing, OwnPackage} => Told \/ unmade
      BY <2>1, <2>3, <2>6 DEF FirstOK
    <3>2. Told' \/ unmade' \/ StartedByOwnPackage'
      BY <2>1, <2>6, <3>1, <1>k, <2>2 DEF StartedByOwnPackage
    <3>3. ~StartedByOwnPackage' => Told' \/ unmade'
      BY <3>2
    <3>4. first' = OwnPackage <=> StartedByOwnPackage'
      BY <2>1 DEF StartedByOwnPackage
    <3>5. \A c : Told' \/ Excused(c)'
      BY <3>2 DEF Excused
    <3>6. backend' = "legacy"
      BY <2>1
    <3> QED BY <2>1, <2>2, <3>3, <3>4, <3>5, <3>6, <1>k DEF FirstOK
  <2> QED BY <2>1, <2>4, <2>5, <2>6, LoadedToDo
<1>4. ASSUME NEW p \in Packages, OnPackageReady(p) PROVE FirstOK'
  <2>1. /\ backend = "lsposed" /\ UNCHANGED <<backend, processName, unmade, told>>
        /\ todo = <<>> /\ todo' = IF processName THEN <<Package(p)>> ELSE <<>>
    BY <1>4 DEF OnPackageReady, Load, Idle
  <2>2. ~StartedByOwnPackage /\ ~ProcessIsNext
    BY <2>1 DEF StartedByOwnPackage, ProcessIsNext
  <2>3. processName => Told \/ unmade
    BY <2>1, <2>2 DEF FirstOK
  <2>4. CASE processName
    <3>1. \A c : Told' \/ Excused(c)'
      BY <2>1, <2>2, <2>3, <2>4, <1>k DEF Excused
    <3> QED BY <2>1, <2>2, <2>3, <2>4, <3>1, <1>k DEF FirstOK
  <2>5. CASE ~processName
    <3>1. todo' = <<>>
      BY <2>1, <2>5
    <3> QED BY <2>1, <2>2, <2>5, <3>1, <1>k DEF FirstOK
  <2> QED BY <2>4, <2>5
<1>5. CASE OnModuleLoaded
  <2>1. /\ backend = "lsposed" /\ told' = <<>> /\ todo = <<>>
        /\ UNCHANGED <<backend, system, first, unmade, told>>
    BY <1>5 DEF OnModuleLoaded, NewOK
  <2>2. CASE attachHooked' = TRUE /\ processName' = TRUE /\ todo' = <<Process>>
    <3>1. ProcessIsNext'
      BY <2>2 DEF ProcessIsNext, Process
    <3> QED BY <2>1, <3>1 DEF FirstOK
  <2>3. CASE UNCHANGED <<attachHooked, processName, todo>>
    BY <2>1, <2>3, <1>0
  <2> QED BY <1>5, <2>2, <2>3 DEF OnModuleLoaded
<1>6. CASE OnSystemServerStarting
  <2>1. /\ backend = "lsposed"
        /\ UNCHANGED <<backend, system, first, processName, unmade, told>>
        /\ todo = <<>> /\ todo' = <<System>>
    BY <1>6 DEF OnSystemServerStarting, Idle
  <2>2. ~StartedByOwnPackage /\ ~ProcessIsNext
    BY <2>1 DEF StartedByOwnPackage, ProcessIsNext
  <2>3. processName => Told \/ unmade
    BY <2>1, <2>2 DEF FirstOK
  <2>4. \A i \in DOMAIN todo' : todo'[i] = System
    BY <2>1
  <2>5. Told' \/ Excused(System)'
    BY <2>1, <2>2, <2>3, <1>k DEF Excused, System
  <2>6. \A i \in DOMAIN todo' : Told' \/ Excused(todo[i])'
    BY <2>4, <2>5
  <2> QED BY <2>1, <2>2, <2>3, <2>6, <1>k DEF FirstOK
<1>7. CASE MountThrows
  <2>1. /\ todo # <<>> /\ todo' = <<>>
        /\ unmade' = (unmade \/ Head(todo) = Process)
        /\ UNCHANGED <<backend, system, first, processName, told>>
    BY <1>7 DEF MountThrows, Idle
  <2>2. StartedByOwnPackage' = StartedByOwnPackage
    BY <2>1 DEF StartedByOwnPackage
  <2>3. unmade \/ ProcessIsNext => unmade'
    BY <2>1 DEF ProcessIsNext
  <2> QED BY <2>1, <2>2, <2>3, <1>k DEF FirstOK
<1>8. CASE CallModule \/ ModuleThrows
  <2>1. /\ UNCHANGED <<backend, system, first, processName, unmade>>
        /\ todo # <<>> /\ told' = Append(told, Head(todo))
        /\ todo' \in {<<>>, Tail(todo)}
    BY <1>8 DEF CallModule, ModuleThrows, Idle
  <2>2. /\ StartedByOwnPackage' = StartedByOwnPackage
        /\ \A c : Excused(c)' = Excused(c)
    BY <2>1 DEF StartedByOwnPackage, Excused, System
  <2>3. Told \/ ProcessIsNext => Told'
    BY <2>1, ToldNow
  <2>4. \A i \in DOMAIN todo' : \E j \in DOMAIN todo : todo'[i] = todo[j]
    <3>1. CASE todo' = Tail(todo)
      BY <2>1, <3>1, OneLessToDo
    <3>2. CASE todo' = <<>>
      BY <3>2
    <3> QED BY <2>1, <3>1, <3>2
  <2>5. \A i \in DOMAIN todo' : todo'[i] # Process => Told' \/ Excused(todo[i])'
    BY <2>2, <2>3, <2>4 DEF FirstOK
  <2>6. ASSUME NEW i \in DOMAIN told', told'[i] # Process
        PROVE  (\E j \in 1..(i - 1) : told'[j] = Process) \/ Excused(told[i])'
    <3>1. CASE i \in DOMAIN told
      <4>1. /\ told'[i] = told[i] /\ i \in Nat
            /\ DOMAIN told = 1..Len(told) /\ Len(told) \in Nat
        BY <2>1, <3>1, ToldOneMore
      <4>2. \A j \in 1..(i - 1) : told'[j] = told[j]
        BY <2>1, <3>1, <4>1, ToldOneMore
      <4> QED BY <2>2, <2>6, <3>1, <4>1, <4>2 DEF FirstOK
    <3>2. CASE i = Len(told) + 1
      <4>1. told'[i] = todo[1] /\ 1 \in DOMAIN todo /\ DOMAIN told = 1..Len(told)
        BY <2>1, <3>2, ToldOneMore
      <4>2. ~ProcessIsNext
        BY <2>1, <2>6, <4>1, ToldNow
      <4>3. Told \/ Excused(todo[1])
        BY <2>6, <4>1, <4>2 DEF FirstOK
      <4>4. CASE Told
        <5>1. PICK j \in DOMAIN told : told[j] = Process
          BY <4>4 DEF Told
        <5>2. told'[j] = Process /\ j \in 1..(i - 1)
          BY <2>1, <3>2, <4>1, <5>1, ToldOneMore
        <5> QED BY <5>2
      <4>5. CASE Excused(todo[1])
        BY <2>2, <4>1, <4>5
      <4> QED BY <4>3, <4>4, <4>5
    <3> QED BY <2>1, <3>1, <3>2, ToldOneMore
  <2> QED BY <2>1, <2>2, <2>3, <2>5, <2>6 DEF FirstOK, Process
<1>9. CASE UNCHANGED startVars
  BY <1>0, <1>9 DEF startVars
<1> QED BY <1>1, <1>2, <1>3, <1>4, <1>5, <1>6, <1>7, <1>8, <1>9 DEF StartNext

LEMMA OnceStep ==
  ASSUME StartTypeOK, NewOK, OnceOK, [StartNext]_startVars
  PROVE  OnceOK'
<1> USE DEF framework, loading, backendState
<1>0. ASSUME UNCHANGED <<backend, system, todo, told>> PROVE OnceOK'
  BY <1>0 DEF OnceOK, ToldOnce, Told, Process
<1>1. CASE Construct
  BY <1>0, <1>1 DEF Construct
<1>2. CASE InitZygote
  BY <1>0, <1>2 DEF InitZygote
<1>s. System # Process
  BY DEF System, Process
<1>k. ASSUME UNCHANGED <<backend, system, told>>,
             ~(backend = "legacy" /\ system) =>
               \A i \in DOMAIN todo' : todo'[i] = Process => i = 1 /\ ~Told
      PROVE  OnceOK'
  BY <1>k DEF OnceOK, ToldOnce, Told, Process
<1>3. ASSUME NEW p \in Packages, HandleLoadPackage(p) PROVE OnceOK'
  <2>1. /\ backend = "legacy" /\ UNCHANGED <<backend, system, told>>
        /\ todo' = LegacyLoad(p).todo
    BY <1>3 DEF HandleLoadPackage
  <2> SUFFICES ASSUME ~system
               PROVE  \A i \in DOMAIN todo' : todo'[i] = Process => i = 1 /\ ~Told
    BY <2>1, <1>k
  <2>p. Package(p) # Process
    BY DEF Package, Process
  <2>2. CASE todo' = <<Process, Package(p)>> /\ first = Nothing
    <3>1. ~Told
      BY <2>1, <2>2 DEF NewOK, Told
    <3> QED BY <2>2, <2>p, <3>1
  <2>3. CASE todo' = <<>> \/ todo' = <<Package(p)>>
    BY <2>3, <2>p
  <2> QED BY <2>1, <2>2, <2>3, LoadedToDo
<1>4. ASSUME NEW p \in Packages, OnPackageReady(p) PROVE OnceOK'
  <2>1. UNCHANGED <<backend, system, told>> /\ todo' \in {<<Package(p)>>, <<>>}
    BY <1>4 DEF OnPackageReady
  <2>2. Package(p) # Process
    BY DEF Package, Process
  <2>3. \A i \in DOMAIN todo' : todo'[i] # Process
    BY <2>1, <2>2
  <2> QED BY <2>1, <2>3, <1>k
<1>5. CASE OnModuleLoaded
  <2>1. /\ UNCHANGED <<backend, system, told>> /\ told = <<>>
        /\ todo' \in {<<Process>>, todo}
    BY <1>5 DEF OnModuleLoaded, NewOK
  <2>2. todo = <<>> /\ ~Told
    BY <1>5, <2>1 DEF OnModuleLoaded, NewOK, Told
  <2>3. \A i \in DOMAIN todo' : i = 1
    BY <2>1, <2>2
  <2> QED BY <2>1, <2>2, <2>3, <1>k
<1>6. CASE OnSystemServerStarting
  <2>1. UNCHANGED <<backend, system, told>> /\ todo' = <<System>>
    BY <1>6 DEF OnSystemServerStarting
  <2> QED BY <2>1, <1>s, <1>k
<1>7. CASE MountThrows
  <2>1. UNCHANGED <<backend, system, told>> /\ todo' = <<>>
    BY <1>7 DEF MountThrows
  <2> QED BY <2>1, <1>k
<1>8. CASE CallModule \/ ModuleThrows
  <2>1. /\ UNCHANGED <<backend, system>>
        /\ todo # <<>> /\ told' = Append(told, Head(todo))
        /\ todo' \in {<<>>, Tail(todo)}
    BY <1>8 DEF CallModule, ModuleThrows, Idle
  <2> SUFFICES ASSUME ~(backend = "legacy" /\ system)
               PROVE  /\ (\A i \in DOMAIN todo : todo[i] = Process => i = 1 /\ ~Told)'
                      /\ ToldOnce'
    BY <2>1 DEF OnceOK
  <2>2. ASSUME NEW i \in DOMAIN todo' PROVE todo'[i] # Process
    <3>1. CASE todo' = Tail(todo)
      <4>1. i + 1 \in DOMAIN todo /\ i + 1 # 1 /\ todo'[i] = todo[i + 1]
        BY <2>1, <2>2, <3>1, OneLessToDo
      <4> QED BY <4>1 DEF OnceOK
    <3>2. CASE todo' = <<>>
      BY <2>2, <3>2
    <3> QED BY <2>1, <3>1, <3>2
  <2>3. ToldOnce'
    <3> SUFFICES ASSUME NEW i \in DOMAIN told', NEW j \in DOMAIN told',
                        told'[i] = Process, told'[j] = Process
                 PROVE  i = j
      BY DEF ToldOnce, Process
    <3>1. CASE Told
      <4>1. todo[1] # Process
        BY <2>1, <3>1, ToldOneMore DEF OnceOK
      <4>2. ASSUME NEW n \in DOMAIN told', told'[n] = Process
            PROVE  n \in DOMAIN told /\ told[n] = Process
        BY <2>1, <4>1, <4>2, ToldOneMore
      <4> QED BY <4>2 DEF OnceOK, ToldOnce
    <3>2. CASE ~Told
      <4>1. ASSUME NEW n \in DOMAIN told', told'[n] = Process PROVE n = Len(told) + 1
        BY <2>1, <3>2, <4>1, ToldOneMore DEF Told
      <4> QED BY <4>1
    <3> QED BY <3>1, <3>2
  <2> QED BY <2>2, <2>3 DEF Process
<1>9. CASE UNCHANGED startVars
  BY <1>0, <1>9 DEF startVars
<1> QED BY <1>1, <1>2, <1>3, <1>4, <1>5, <1>6, <1>7, <1>8, <1>9 DEF StartNext

LEMMA StartInvariant ==
  StartSpec => [](StartTypeOK /\ NewOK /\ HookedOK /\ FirstOK /\ OnceOK)
<1>1. StartInit => NewOK /\ HookedOK /\ FirstOK /\ OnceOK
  <2> SUFFICES ASSUME StartInit PROVE NewOK /\ HookedOK /\ FirstOK /\ OnceOK
    OBVIOUS
  <2>1. first = Nothing /\ ~processName
    BY DEF StartInit
  <2>2. todo = <<>> /\ told = <<>> /\ DOMAIN todo = {} /\ DOMAIN told = {}
    BY DEF StartInit
  <2>3. NewOK
    BY <2>2 DEF NewOK
  <2>4. HookedOK
    BY <2>1, <2>2, Zenon DEF HookedOK
  <2>5. FirstOK
    BY <2>1, <2>2, Zenon DEF FirstOK
  <2>6. OnceOK
    BY <2>2, Zenon DEF OnceOK, ToldOnce
  <2> QED BY <2>3, <2>4, <2>5, <2>6
<1>2. StartTypeOK /\ NewOK /\ HookedOK /\ FirstOK /\ OnceOK /\ [StartNext]_startVars
        => NewOK' /\ HookedOK' /\ FirstOK' /\ OnceOK'
  BY NewStep, HookedStep, FirstStep, OnceStep
<1> QED BY <1>1, <1>2, StartTyped, PTL DEF StartSpec

\* Application.attach is hooked before the module is told of a package, except
\* where the process was started by its own.
\* (Xposed.kt 286-301, LSPosed.kt 218-245, XposedKit.kt 49-65)
THEOREM HookedBeforeTold ==
  StartSpec => []AttachHookedFirst
<1>1. StartTypeOK /\ HookedOK => AttachHookedFirst
  BY DEF StartTypeOK, HookedOK, AttachHookedFirst, Range
<1> QED BY <1>1, StartInvariant, PTL

\* The module is told of its process first and once, however many packages
\* follow and whatever its callbacks throw, with the exceptions the property
\* names.  (Xposed.kt 270-301, LSPosed.kt 216-253)
THEOREM ProcessComesFirst ==
  StartSpec => []ProcessFirstAndOnce
<1>1. FirstOK /\ OnceOK => ProcessFirstAndOnce
  BY DEF FirstOK, OnceOK, Excused, ToldOnce, ProcessFirstAndOnce
<1> QED BY <1>1, StartInvariant, PTL

----
\* The start and the listeners in one process

\* The process takes steps of its parts only.
LEMMA HostStep ==
  HostNext => [Next]_vars /\ [StartNext]_startVars
<1> SUFFICES ASSUME HostNext PROVE [Next]_vars /\ [StartNext]_startVars
  OBVIOUS
<1>1. CASE StartStep
  BY <1>1 DEF StartStep
<1>2. CASE ModuleRegisters
  BY <1>2 DEF ModuleRegisters, Next
<1>3. ASSUME NEW a \in AppThreads, NEW p \in Packages, ApplicationAttaches(a, p)
      PROVE  [Next]_vars /\ [StartNext]_startVars
  BY <1>3 DEF ApplicationAttaches, Next
<1>4. CASE ListenersCalled
  BY <1>4 DEF ListenersCalled, Next
<1> QED BY <1>1, <1>2, <1>3, <1>4 DEF HostNext

\* Each part behaves in the process as it does alone, so what is proved of either
\* holds there.  (XposedKit.kt 49-65, 222-237; Xposed.kt 261-302; LSPosed.kt 216-253)
THEOREM HostImplementsParts == HostSpec => StartSpec /\ Init /\ [][Next]_vars
<1>1. [HostNext]_hostVars => [Next]_vars /\ [StartNext]_startVars
  BY HostStep DEF hostVars
<1>2. HostInit => Init /\ StartInit
  BY DEF HostInit
<1> QED BY <1>1, <1>2, PTL DEF HostSpec, StartSpec

\* No application attaches before the first load.  Once one may, the callback that
\* notes the attached ones is there or never will be.
AttachedOK ==
  /\ phase = "new" => first = Nothing
  /\ first = Nothing => applications = {}
  /\ attachHooked => applications \subseteq attached

\* Nothing is registered by a module that does not run; and with LSPosed none runs,
\* outside of the system server, where onModuleLoaded has failed.
MountedOK ==
  /\ ~mounted => returned = {} /\ todo = <<>>
  /\ ~mounted => \A t \in Threads : pc[t] = "idle"
  /\ mounted /\ backend = "lsposed" => processName \/ system

\* What a step of the start may do to what the two parts share
StartEffect ==
  /\ UNCHANGED <<backend, system>>
  /\ attachHooked => attachHooked'
  /\ attachHooked' => attachHooked \/ first = Nothing
  /\ first' = Nothing => first = Nothing
  /\ phase' = "new" => phase = "new" /\ UNCHANGED first
  /\ processName => processName'
  /\ todo' = <<>> \/ todo # <<>> \/ backend = "legacy" \/ processName' \/ system

LEMMA StartFrame ==
  ASSUME StartTypeOK, AttachedOK, [StartNext]_startVars
  PROVE  StartEffect
<1> USE DEF StartEffect, framework, loading, backendState
<1>1. CASE Construct
  BY <1>1 DEF Construct
<1>2. CASE InitZygote
  BY <1>2 DEF InitZygote
<1>3. ASSUME NEW p \in Packages, HandleLoadPackage(p) PROVE StartEffect
  <2>1. /\ backend = "legacy" /\ phase = "running"
        /\ first' = (IF first = Nothing THEN p ELSE first)
        /\ attachHooked' = (attachHooked \/ LegacyLoad(p).prepare)
        /\ UNCHANGED <<backend, system, phase, processName>>
    BY <1>3 DEF HandleLoadPackage, Load
  <2>2. LegacyLoad(p).prepare => first = Nothing
    BY LoadedToDo
  <2> QED BY <2>1, <2>2
<1>4. ASSUME NEW p \in Packages, OnPackageReady(p) PROVE StartEffect
  BY <1>4 DEF OnPackageReady, Load
<1>5. CASE OnModuleLoaded
  <2>1. /\ phase = "new" /\ phase' = "running"
        /\ UNCHANGED <<backend, system, first>>
    BY <1>5 DEF OnModuleLoaded
  <2>2. first = Nothing
    BY <2>1 DEF AttachedOK
  <2>3. CASE attachHooked' = TRUE /\ processName' = TRUE
    BY <2>1, <2>2, <2>3
  <2>4. CASE UNCHANGED <<attachHooked, processName, todo>>
    BY <2>1, <2>2, <2>4
  <2> QED BY <1>5, <2>3, <2>4 DEF OnModuleLoaded
<1>6. CASE OnSystemServerStarting
  BY <1>6 DEF OnSystemServerStarting
<1>7. CASE MountThrows
  BY <1>7 DEF MountThrows
<1>8. CASE CallModule \/ ModuleThrows
  BY <1>8 DEF CallModule, ModuleThrows, Idle
<1>9. CASE UNCHANGED startVars
  BY <1>9 DEF startVars
<1> QED BY <1>1, <1>2, <1>3, <1>4, <1>5, <1>6, <1>7, <1>8, <1>9 DEF StartNext

LEMMA AttachedStep ==
  ASSUME KeptInv, StartTypeOK, AttachedOK, [HostNext]_hostVars
  PROVE  AttachedOK'
<1>1. CASE StartStep
  <2>1. StartEffect /\ UNCHANGED <<applications, attached>>
    BY <1>1, StartFrame DEF StartStep, vars
  <2> QED BY <2>1 DEF StartEffect, AttachedOK
<1>2. CASE ModuleRegisters
  <2>1. UNCHANGED attached
    BY <1>2 DEF ModuleRegisters, Register, Unregister, RegisterStep, RegisterGetOrPut,
       RegisterAdd, attaching, registering
  <2> QED BY <1>2, <2>1 DEF ModuleRegisters, AttachedOK, startVars, framework, loading,
          backendState
<1>3. ASSUME NEW a \in AppThreads, NEW p \in Packages, ApplicationAttaches(a, p)
      PROVE  AttachedOK'
  <2>1. attachHooked => attached' = attached \cup {p}
    BY <1>3 DEF ApplicationAttaches, Attach
  <2> QED BY <1>3, <2>1 DEF ApplicationAttaches, AttachedOK, startVars, framework, loading,
          backendState
<1>4. CASE ListenersCalled
  <2>1. UNCHANGED attached
    BY <1>4, AttachStepFrame DEF ListenersCalled, KeptInv
  <2> QED BY <1>4, <2>1 DEF ListenersCalled, AttachedOK, startVars, framework, loading,
          backendState
<1>5. CASE UNCHANGED hostVars
  BY <1>5 DEF hostVars, vars, startVars, framework, loading, backendState, AttachedOK
<1> QED BY <1>1, <1>2, <1>3, <1>4, <1>5 DEF HostNext

LEMMA MountedStep ==
  ASSUME KeptInv, StartTypeOK, AttachedOK, MountedOK, [HostNext]_hostVars
  PROVE  MountedOK'
<1>0. ASSUME UNCHANGED <<startVars, mounted>>, mounted PROVE MountedOK'
  BY <1>0 DEF MountedOK, startVars, framework, loading, backendState
<1>1. CASE StartStep
  <2>1. /\ StartEffect /\ UNCHANGED <<returned, pc>>
        /\ mounted' = (mounted \/ todo' # <<>>)
    BY <1>1, StartFrame DEF StartStep, vars
  <2> QED BY <2>1 DEF StartEffect, MountedOK
<1>2. CASE ModuleRegisters
  BY <1>0, <1>2 DEF ModuleRegisters
<1>3. ASSUME NEW a \in AppThreads, UNCHANGED <<startVars, mounted, returned>>,
             \A t \in Threads : pc'[t] = pc[t]
      PROVE  MountedOK'
  BY <1>3 DEF MountedOK, startVars, framework, loading, backendState
<1>4. ASSUME NEW a \in AppThreads, NEW p \in Packages, ApplicationAttaches(a, p)
      PROVE  MountedOK'
  <2>1. CASE attachHooked
    <3>1. returned' = returned /\ pc' = [pc EXCEPT ![a] = "remove"]
      BY <1>4, <2>1 DEF ApplicationAttaches, Attach, Goto
    <3>2. \A t \in Threads : pc'[t] = pc[t]
      BY <3>1, Types, ThreadsAssumption DEF KeptInv
    <3> QED BY <1>3, <1>4, <3>1, <3>2 DEF ApplicationAttaches
  <2>2. CASE ~attachHooked
    BY <1>3, <1>4, <2>2 DEF ApplicationAttaches, vars
  <2> QED BY <2>1, <2>2
<1>5. CASE ListenersCalled
  <2>1. PICK a \in AppThreads : AttachStep(a)
    BY <1>5 DEF ListenersCalled
  <2>2. returned' = returned /\ \A t \in Threads : pc'[t] = pc[t]
    BY <2>1, AttachStepFrame, ThreadsAssumption DEF KeptInv
  <2> QED BY <1>3, <1>5, <2>1, <2>2 DEF ListenersCalled
<1>6. CASE UNCHANGED hostVars
  BY <1>6 DEF hostVars, vars, startVars, framework, loading, backendState, MountedOK
<1> QED BY <1>1, <1>2, <1>4, <1>5, <1>6 DEF HostNext

\* End to end: a listener that code of the module has registered has been called
\* once its application has attached, except where Application.attach is not hooked,
\* which is in the system server or after the module's own package only.
\* (Xposed.kt 270-301, LSPosed.kt 218-245, XposedKit.kt 49-65, 222-233)
THEOREM ListenersAreReached == HostSpec => []RegisteredIsReached
<1> DEFINE HostInv == KeptInv /\ AttachedOK /\ MountedOK
<1>1. HostInit => HostInv
  BY InitKept DEF HostInit, Init, StartInit, AttachedOK, MountedOK
<1>2. HostInv /\ StartTypeOK /\ [HostNext]_hostVars => HostInv'
  BY HostStep, NextKept, AttachedStep, MountedStep DEF hostVars
<1>3. HostInv /\ StartTypeOK /\ HookedOK => RegisteredIsReached
  <2> SUFFICES ASSUME HostInv, StartTypeOK, HookedOK,
                      NEW r \in returned \ excused, regs[r].pkg \in applications,
                      \A t \in Threads \cup AppThreads : pc[t] = "idle"
               PROVE  \/ r \in served
                      \/ ~attachHooked /\ (system \/ StartedByOwnPackage)
    BY DEF RegisteredIsReached
  <2>1. CASE attachHooked
    <3>1. regs[r].pkg \in attached
      BY <2>1 DEF AttachedOK
    <3> QED BY <3>1, KeptIsCalled DEF RegisteredIsCalled
  <2>2. CASE ~attachHooked
    <3>1. first # Nothing /\ mounted
      BY DEF AttachedOK, MountedOK
    <3>2. backend \in {"legacy", "lsposed"}
      BY DEF StartTypeOK, Backends
    <3> QED BY <2>2, <3>1, <3>2 DEF HookedOK, MountedOK, StartedByOwnPackage
  <2> QED BY <2>1, <2>2
<1>4. HostSpec => [](StartTypeOK /\ HookedOK)
  BY HostImplementsParts, StartInvariant, PTL
<1> QED BY <1>1, <1>2, <1>3, <1>4, PTL DEF HostSpec

----
\* The activities of the module

\* The wrappers that prepare an activity

USE HostsAssumption, TargetsAssumption, ProxyBoundsAssumption

\* A nonempty set of naturals has a least element, which is what Min returns.
LEMMA Least ==
  ASSUME NEW T \in SUBSET Nat, T # {}
  PROVE  Min(T) \in T
<1> DEFINE R == {ss \in Nat \X Nat : ss[1] < ss[2]}
<1>1. IsWellFoundedOn(R, Nat)
  BY NatLessThanWellFounded DEF OpToRel
<1>2. PICK x \in T : \A y \in T : ~(<<y, x>> \in R)
  BY <1>1, WFMin
<1>3. \A y \in T : ~(y < x)
  BY <1>2
<1>4. \A y \in T : x =< y
  BY <1>3
<1> QED BY <1>4 DEF Min

\* It is one wrapper of the stack, if there is one at all.
LEMMA OnePrepares ==
  ASSUME NEW T, NEW s \in Seq(T), NEW i \in DOMAIN s, s[i] \in Wrappers
  PROVE  \E j \in DOMAIN s : s[j] \in Wrappers /\ Preparing(s) = <<s[j]>>
<1> DEFINE own == {j \in DOMAIN s : s[j] \in Wrappers}
<1>1. own \in SUBSET Nat /\ own # {}
  OBVIOUS
<1>2. Min(own) \in own
  BY <1>1, Least
<1> QED BY <1>1, <1>2 DEF Preparing

LEMMA PreparingTyped ==
  ASSUME NEW T, NEW s \in Seq(T)
  PROVE  Preparing(s) \in Seq(Wrappers)
<1>1. CASE \E i \in DOMAIN s : s[i] \in Wrappers
  <2>1. PICK j \in DOMAIN s : s[j] \in Wrappers /\ Preparing(s) = <<s[j]>>
    BY <1>1, OnePrepares
  <2>2. <<s[j]>> \in Seq(Wrappers)
    BY <2>1
  <2> QED BY <2>1, <2>2
<1>2. CASE ~\E i \in DOMAIN s : s[i] \in Wrappers
  <2>1. Preparing(s) = <<>>
    BY <1>2 DEF Preparing
  <2> QED BY <2>1
<1> QED BY <1>1, <1>2

----
\* Type correctness

\* The proxy a start picks or keeps is an activity of the host.
LEMMA ProxyTyped ==
  ASSUME ProxyTypeOK, NEW w \in Wrappers, NEW t \in Targets,
         StartActivity(w, t)
  PROVE  /\ proxy' \in [Wrappers -> (Hosts \ Aliases) \cup {None}]
         /\ proxy'[w] \in Hosts
<1>1. PICK h \in IF proxy[w] = None THEN Candidates(t) ELSE {proxy[w]} :
             proxy' = [proxy EXCEPT ![w] = h]
  BY DEF StartActivity
<1>2. h \in Hosts \ Aliases
  BY <1>1 DEF ProxyTypeOK, Candidates, Valid
<1> QED BY <1>1, <1>2 DEF ProxyTypeOK

\* The variables have the values they are meant to have; an activity's context
\* is given by wrappers only.  (ModuleContextWrapper.kt 160-260)
THEOREM ProxyTypeCorrect == ProxySpec => []ProxyTypeOK
<1>1. ProxyInit => ProxyTypeOK
  BY DEF ProxyInit, ProxyTypeOK
<1>2. ProxyTypeOK /\ [ProxyNext]_proxyVars => ProxyTypeOK'
  <2> SUFFICES ASSUME ProxyTypeOK, [ProxyNext]_proxyVars PROVE ProxyTypeOK'
    OBVIOUS
  <2>1. ASSUME NEW w \in Wrappers, NEW t \in Targets, StartActivity(w, t)
        PROVE  ProxyTypeOK'
    <3> DEFINE i == [id |-> starts + 1, wrapper |-> w, target |-> t,
                     proxy |-> proxy'[w]]
    <3>1. /\ proxy' \in [Wrappers -> (Hosts \ Aliases) \cup {None}]
          /\ proxy'[w] \in Hosts
      BY <2>1, ProxyTyped
    <3>2. starts' \in 0..MaxStarts /\ starts + 1 \in 1..MaxStarts
      BY <2>1 DEF StartActivity, ProxyTypeOK
    <3>3. i \in Intent
      BY <3>1, <3>2 DEF Intent
    <3>4. intents' \subseteq Intent
      BY <2>1, <3>3 DEF StartActivity, ProxyTypeOK
    <3>5. stack' \in Seq(Wrappers \cup {Foreign})
      <4>1. stack' \in {stack, <<w>> \o stack}
        BY <2>1 DEF StartActivity
      <4>2. /\ stack \in Seq(Wrappers \cup {Foreign})
            /\ <<w>> \in Seq(Wrappers \cup {Foreign})
        BY DEF ProxyTypeOK
      <4>3. <<w>> \o stack \in Seq(Wrappers \cup {Foreign})
        BY <4>2, ConcatProperties
      <4> QED BY <4>1, <4>2, <4>3
    <3> QED BY <2>1, <3>1, <3>2, <3>4, <3>5 DEF StartActivity, ProxyTypeOK
  <2>2. ASSUME NEW i \in intents, Launch(i) PROVE ProxyTypeOK'
    <3> DEFINE new == [intent |-> i, class |-> ClassOf(i),
                       contexts |-> Preparing(stack)]
    <3>1. i \in Intent
      BY DEF ProxyTypeOK
    <3>2. ClassOf(i) \in Hosts \cup Targets
      BY <3>1 DEF ClassOf, Intent
    <3>3. Preparing(stack) \in Seq(Wrappers)
      BY PreparingTyped DEF ProxyTypeOK
    <3>4. \A a \in activities' : a \in activities \/ a = new
      BY <2>2 DEF Launch
    <3>5. \A a \in activities' :
            /\ a.intent \in Intent /\ a.class \in Hosts \cup Targets
            /\ a.contexts \in Seq(Wrappers)
      BY <3>1, <3>2, <3>3, <3>4 DEF ProxyTypeOK
    <3> QED BY <2>2, <3>5 DEF Launch, ProxyTypeOK, Intent
  <2>3. ASSUME NEW h \in Hosts \ Aliases, HostActivity(h) PROVE ProxyTypeOK'
    BY <2>3 DEF HostActivity, ProxyTypeOK, Intent
  <2>4. CASE ForeignWraps
    <3>1. stack' \in Seq(Wrappers \cup {Foreign})
      BY <2>4 DEF ForeignWraps, ProxyTypeOK
    <3> QED BY <2>4, <3>1 DEF ForeignWraps, ProxyTypeOK, Intent
  <2>5. ASSUME NEW w \in Wrappers, NEW h \in Hosts \ Aliases,
               SetProxyActivity(w, h)
        PROVE  ProxyTypeOK'
    BY <2>5 DEF SetProxyActivity, ProxyTypeOK, Intent
  <2>6. CASE UNCHANGED proxyVars
    BY <2>6 DEF proxyVars, ProxyTypeOK, Intent
  <2> QED BY <2>1, <2>2, <2>3, <2>4, <2>5, <2>6 DEF ProxyNext, ModuleNext
<1> QED BY <1>1, <1>2, PTL DEF ProxySpec

----
\* The wrapper of the first start

\* Once an activity was started there is a wrapper in the stack, and while there
\* is nothing else it is alone there.
StackOK ==
  /\ starts # 0 => \E j \in DOMAIN stack : stack[j] \in Wrappers
  /\ starts = 0 => intents = {} /\ activities = {}

\* The wrapper alone in the stack is that of the first start, ...
FirstAlone ==
  (\A j \in DOMAIN stack : stack[j] # Foreign) =>
    IF starts = 0 THEN stack = <<>>
    ELSE /\ Len(stack) = 1
         /\ \A i \in Started : i.id = 1 => stack = <<i.wrapper>>

\* ... and has prepared whatever was launched meanwhile; what was launched is
\* what its intent asked for.
LaunchedOK ==
  \A a \in activities :
    /\ Len(a.contexts) = 1
    /\ a.intent.target \notin Missing => a.class = a.intent.target
    /\ (\A j \in DOMAIN stack : stack[j] # Foreign) => a.contexts = stack

LEMMA FirstIsOne ==
  ASSUME ProxyTypeOK, StackOK, FirstAlone, NEW w \in Wrappers, NEW t \in Targets,
         StartActivity(w, t)
  PROVE  StackOK' /\ FirstAlone'
<1> DEFINE new == [id |-> starts + 1, wrapper |-> w, target |-> t, proxy |-> proxy'[w]]
<1>1. starts' = starts + 1 /\ starts \in Nat
  BY DEF StartActivity, ProxyTypeOK
<1>2. stack' = IF Wrapped THEN stack ELSE <<w>> \o stack
  BY DEF StartActivity
<1>3. Started' = Started \cup {new}
  BY DEF StartActivity, Started
<1>s. stack \in Seq(Wrappers \cup {Foreign})
  BY DEF ProxyTypeOK
<1>4. \E j \in DOMAIN stack' : stack'[j] \in Wrappers
  <2>1. CASE Wrapped
    <3>1. 1 \in DOMAIN stack /\ stack[1] \in Wrappers
      BY <1>s, <2>1 DEF Wrapped
    <3> QED BY <1>2, <2>1, <3>1
  <2>2. CASE ~Wrapped
    <3>1. 1 \in DOMAIN stack' /\ stack'[1] = w
      BY <1>2, <1>s, <2>2
    <3> QED BY <3>1
  <2> QED BY <2>1, <2>2
<1>5. FirstAlone'
  <2> SUFFICES ASSUME \A j \in DOMAIN stack' : stack'[j] # Foreign
               PROVE  /\ Len(stack') = 1
                      /\ \A i \in Started' : i.id = 1 => stack' = <<i.wrapper>>
    BY <1>1 DEF FirstAlone
  <2>1. \A j \in DOMAIN stack : stack[j] # Foreign
    <3>1. CASE Wrapped
      BY <1>2, <3>1
    <3>2. CASE ~Wrapped
      <4>1. \A j \in DOMAIN stack : j + 1 \in DOMAIN stack' /\ stack'[j + 1] = stack[j]
        BY <1>2, <1>s, <3>2
      <4> QED BY <4>1
    <3> QED BY <3>1, <3>2
  <2>2. CASE starts = 0
    <3>1. stack = <<>> /\ Started = {}
      BY <2>1, <2>2 DEF FirstAlone, StackOK, Started
    <3>2. stack' = <<w>>
      BY <1>2, <3>1 DEF Wrapped
    <3> QED BY <1>3, <3>1, <3>2
  <2>3. CASE starts # 0
    <3>1. Len(stack) = 1 /\ \A i \in Started : i.id = 1 => stack = <<i.wrapper>>
      BY <2>1, <2>3 DEF FirstAlone
    <3>2. stack[1] \in Wrappers /\ stack # <<>> /\ Head(stack) = stack[1]
      BY <1>s, <2>3, <3>1 DEF StackOK
    <3>3. stack' = stack
      BY <1>2, <3>2 DEF Wrapped
    <3>4. new.id # 1
      BY <1>1, <2>3
    <3> QED BY <1>3, <3>1, <3>3, <3>4
  <2> QED BY <2>2, <2>3
<1>6. starts' # 0
  BY <1>1
<1> QED BY <1>4, <1>5, <1>6 DEF StackOK

LEMMA FirstWrapperStep ==
  ASSUME ProxyTypeOK, StackOK, FirstAlone, LaunchedOK, [ProxyNext]_proxyVars
  PROVE  StackOK' /\ FirstAlone' /\ LaunchedOK'
<1>s. stack \in Seq(Wrappers \cup {Foreign})
  BY DEF ProxyTypeOK
<1>1. ASSUME NEW w \in Wrappers, NEW t \in Targets, StartActivity(w, t)
      PROVE  StackOK' /\ FirstAlone' /\ LaunchedOK'
  <2>1. StackOK' /\ FirstAlone'
    BY <1>1, FirstIsOne
  <2>2. activities' = activities
    BY <1>1 DEF StartActivity
  <2>3. ASSUME NEW a \in activities, \A j \in DOMAIN stack' : stack'[j] # Foreign
        PROVE  a.contexts = stack'
    <3>1. starts # 0
      BY <2>3 DEF StackOK
    <3>2. stack' = IF Wrapped THEN stack ELSE <<w>> \o stack
      BY <1>1 DEF StartActivity
    <3>3. \A j \in DOMAIN stack : stack[j] # Foreign
      <4>1. CASE Wrapped
        BY <3>2, <2>3, <4>1
      <4>2. CASE ~Wrapped
        <5>1. \A j \in DOMAIN stack : j + 1 \in DOMAIN stack' /\ stack'[j + 1] = stack[j]
          BY <3>2, <1>s, <4>2
        <5> QED BY <2>3, <5>1
      <4> QED BY <4>1, <4>2
    <3>4. Len(stack) = 1
      BY <3>1, <3>3 DEF FirstAlone
    <3>5. stack[1] \in Wrappers /\ stack # <<>> /\ Head(stack) = stack[1]
      BY <1>s, <3>1, <3>4 DEF StackOK
    <3>6. stack' = stack
      BY <3>2, <3>5 DEF Wrapped
    <3> QED BY <3>3, <3>6 DEF LaunchedOK
  <2> QED BY <2>1, <2>2, <2>3 DEF LaunchedOK
<1>2. ASSUME NEW i \in intents, Launch(i)
      PROVE  StackOK' /\ FirstAlone' /\ LaunchedOK'
  <2> DEFINE new == [intent |-> i, class |-> ClassOf(i),
                     contexts |-> Preparing(stack)]
  <2>1. /\ stack' = stack /\ starts' = starts
        /\ intents' = intents \ {i} /\ activities' = activities \cup {new}
    BY <1>2 DEF Launch
  <2>2. Started' = Started
    <3>1. new.intent = i
      OBVIOUS
    <3> HIDE DEF new
    <3>2. ASSUME NEW x PROVE x \in Started' <=> x \in Started
      BY <2>1, <3>1 DEF Started
    <3> QED BY <3>2
  <2>3. starts # 0
    BY DEF StackOK
  <2>4. PICK j \in DOMAIN stack :
          stack[j] \in Wrappers /\ Preparing(stack) = <<stack[j]>>
    BY <1>s, <2>3, OnePrepares DEF StackOK
  <2>5. (\A k \in DOMAIN stack : stack[k] # Foreign) => new.contexts = stack
    <3> SUFFICES ASSUME \A k \in DOMAIN stack : stack[k] # Foreign
                 PROVE  new.contexts = stack
      OBVIOUS
    <3>1. Len(stack) = 1
      BY <2>3 DEF FirstAlone
    <3>2. j = 1 /\ stack = <<stack[1]>>
      BY <1>s, <2>4, <3>1
    <3> QED BY <2>4, <3>2
  <2>6. Len(new.contexts) = 1
    BY <2>4
  <2>7. new.intent.target \notin Missing => new.class = new.intent.target
    BY DEF ClassOf
  <2> HIDE DEF new
  <2>8. LaunchedOK'
    BY <2>1, <2>5, <2>6, <2>7 DEF LaunchedOK
  <2> QED BY <2>1, <2>2, <2>3, <2>8 DEF StackOK, FirstAlone
<1>3. ASSUME NEW h \in Hosts \ Aliases, HostActivity(h)
      PROVE  StackOK' /\ FirstAlone' /\ LaunchedOK'
  BY <1>3 DEF HostActivity, StackOK, FirstAlone, LaunchedOK, Started
<1>4. CASE ForeignWraps
  <2>1. stack' = <<Foreign>> \o stack /\ UNCHANGED <<starts, intents, activities>>
    BY <1>4 DEF ForeignWraps
  <2>2. 1 \in DOMAIN stack' /\ stack'[1] = Foreign
    BY <1>s, <2>1
  <2>3. \A j \in DOMAIN stack : j + 1 \in DOMAIN stack' /\ stack'[j + 1] = stack[j]
    BY <1>s, <2>1
  <2>4. StackOK'
    BY <2>1, <2>3 DEF StackOK
  <2>5. FirstAlone' /\ LaunchedOK'
    BY <2>1, <2>2 DEF FirstAlone, LaunchedOK
  <2> QED BY <2>4, <2>5
<1>5. ASSUME NEW w \in Wrappers, NEW h \in Hosts \ Aliases, SetProxyActivity(w, h)
      PROVE  StackOK' /\ FirstAlone' /\ LaunchedOK'
  BY <1>5 DEF SetProxyActivity, StackOK, FirstAlone, LaunchedOK, Started
<1>6. CASE UNCHANGED proxyVars
  BY <1>6 DEF proxyVars, StackOK, FirstAlone, LaunchedOK, Started
<1> QED BY <1>1, <1>2, <1>3, <1>4, <1>5, <1>6 DEF ProxyNext, ModuleNext

\* Exactly one wrapper prepares an activity of the module, which is of the
\* module's class; while no other code has wrapped the Instrumentation it is the
\* wrapper of the first start, whatever wrapper the activity was started through.
\* (ModuleContextWrapper.kt 213-260, 281-307, 318-366)
THEOREM OneWrapperPrepares ==
  ProxySpec => []PreparedByOneWrapper
<1>1. ProxyInit => StackOK /\ FirstAlone /\ LaunchedOK
  BY DEF ProxyInit, StackOK, FirstAlone, LaunchedOK
<1>2. ProxyTypeOK /\ StackOK /\ FirstAlone /\ LaunchedOK /\ [ProxyNext]_proxyVars
        => StackOK' /\ FirstAlone' /\ LaunchedOK'
  BY FirstWrapperStep
<1>3. ProxyTypeOK /\ StackOK /\ FirstAlone /\ LaunchedOK => PreparedByOneWrapper
  <2> SUFFICES ASSUME ProxyTypeOK, StackOK, FirstAlone, LaunchedOK, NEW a \in activities
               PROVE  /\ Len(a.contexts) = 1
                      /\ a.intent.target \notin Missing => a.class = a.intent.target
                      /\ Foreign \notin Range(stack) =>
                           \A i \in Started : i.id = 1 => a.contexts = <<i.wrapper>>
    BY DEF PreparedByOneWrapper
  <2>1. Foreign \notin Range(stack) =>
          \A j \in DOMAIN stack : stack[j] # Foreign
    BY DEF Range
  <2>2. starts # 0
    BY DEF StackOK
  <2> QED BY <2>1, <2>2 DEF FirstAlone, LaunchedOK
<1> QED BY <1>1, <1>2, <1>3, ProxyTypeCorrect, PTL DEF ProxySpec
====
