---- MODULE DeferredValueProofs ----
(***************************************************************************)
(* DeferredValue keeps the promise of OneShot, for any number of setters,  *)
(* callbacks, awaiters and values.                                         *)
(***************************************************************************)
EXTENDS DeferredValue, TLAPS

\* The client is on no list and in no copy of one.
Unqueued(c) ==
  /\ c \notin callbacks \cup waiters
  /\ \A s \in Setters : c \notin toCall[s] \cup toResume[s]

\* The client is where the setter that serves it will find it.
Queued(c) ==
  IF value = Null
  THEN /\ c \in callbacks \cup waiters
       /\ \A s \in Setters : c \notin toCall[s] \cup toResume[s]
  ELSE /\ c \notin callbacks \cup waiters
       /\ \E s \in Setters : \A t \in Setters : c \in toCall[t] \cup toResume[t] <=> t = s

\* A call is before its lock, has the value in hand, waits, or is served.
ClientInv(c) ==
  \/ pc[c] \in {"start", "enter"} /\ deliveries[c] = <<>> /\ Unqueued(c)
  \/ pc[c] = "return" /\ value # Null /\ deliveries[c] = <<>> /\ Unqueued(c)
  \/ pc[c] = "block" /\ deliveries[c] = <<>> /\ Queued(c)
  \/ pc[c] \in {"block", "done"} /\ value # Null /\ deliveries[c] = <<value>> /\ Unqueued(c)

\* Only the setter that has set the value has copies.
SetterInv(s) ==
  /\ value = Null => pc[s] = "start"
  /\ pc[s] = "start" => toCall[s] = {} /\ toResume[s] = {}

IInv ==
  /\ TypeOK
  /\ \A c \in Clients : ClientInv(c)
  /\ \A s \in Setters : SetterInv(s)

USE ClientsAssumption, SettersAssumption, NullAssumption

\* Nobody waits and nothing is set at first.
LEMMA InitIInv == Init => IInv
BY DEF Init, IInv, TypeOK, ClientInv, SetterInv, Unqueued, Clients

\* The invariant after a step of each action
LEMMA SetIInv ==
  ASSUME IInv, NEW s \in Setters, NEW v \in Values, Set(s, v)
  PROVE  IInv'
<1> USE DEF Set, Goto
<1>1. TypeOK'
  BY DEF IInv, TypeOK, Clients
<1>2. \A c \in Clients : ClientInv(c)'
  <2> SUFFICES ASSUME NEW c \in Clients PROVE ClientInv(c)'
    OBVIOUS
  <2>1. pc'[c] = pc[c] /\ deliveries' = deliveries
    BY DEF IInv, TypeOK, Clients
  <2>2. \A t \in Setters : toCall[t] = {} /\ toResume[t] = {}
    BY DEF IInv, SetterInv
  <2>3. \A t \in Setters : c \in toCall'[t] \cup toResume'[t] <=> t = s /\ c \in callbacks \cup waiters
    BY <2>2 DEF IInv, TypeOK
  <2>4. Unqueued(c) => Unqueued(c)'
    BY <2>3 DEF Unqueued
  <2>5. Queued(c) => Queued(c)'
    BY <2>3 DEF Queued
  <2> QED
    BY <2>1, <2>4, <2>5 DEF IInv, ClientInv
<1>3. \A t \in Setters : SetterInv(t)'
  BY DEF IInv, TypeOK, SetterInv
<1> QED
  BY <1>1, <1>2, <1>3 DEF IInv

\* The setter of whenInitialize's callbacks serves a client that waits, with the
\* value that is set, and takes it off its copy.
LEMMA CallOneIInv ==
  ASSUME IInv, NEW s \in Setters, CallOne(s)
  PROVE  IInv' /\ \E c \in Clients : pc[c] = "block" /\ deliveries[c] = <<>> /\ value # Null
                                   /\ Deliver(c)
<1> USE DEF CallOne, Deliver
<1>1. PICK d \in toCall[s] : toCall' = [toCall EXCEPT ![s] = @ \ {d}] /\ Deliver(d)
  OBVIOUS
<1>2. d \in Callbacks /\ d \in Clients
  BY DEF IInv, TypeOK, Clients
<1>3. pc[d] = "block" /\ deliveries[d] = <<>> /\ Queued(d)
  BY <1>2 DEF IInv, ClientInv, Unqueued
<1>4. value # Null /\ value \in Values
  BY <1>3 DEF Queued, IInv, TypeOK
<1>5. deliveries' = [deliveries EXCEPT ![d] = <<value>>]
  BY <1>1, <1>3, Append(<<>>, value) = <<value>>
<1>6. TypeOK'
  BY <1>1, <1>2, <1>4, <1>5 DEF IInv, TypeOK
<1>7. ASSUME NEW c \in Clients PROVE ClientInv(c)'
  <2>1. CASE c = d
    <3>1. Unqueued(c)'
      BY <2>1, <1>1, <1>2, <1>3, <1>4 DEF Queued, Unqueued, IInv, TypeOK
    <3> QED
      BY <2>1, <3>1, <1>2, <1>3, <1>4, <1>5 DEF ClientInv, IInv, TypeOK
  <2>2. CASE c # d
    <3>1. deliveries'[c] = deliveries[c]
      BY <2>2, <1>5, <1>2 DEF IInv, TypeOK
    <3>2. \A t \in Setters : c \in toCall'[t] <=> c \in toCall[t]
      BY <2>2, <1>1 DEF IInv, TypeOK
    <3>3. (Unqueued(c) => Unqueued(c)') /\ (Queued(c) => Queued(c)')
      BY <3>2 DEF Queued, Unqueued
    <3> QED
      BY <3>1, <3>3 DEF IInv, ClientInv
  <2> QED
    BY <2>1, <2>2
<1>8. \A t \in Setters : SetterInv(t)'
  BY <1>1, <1>4 DEF IInv, TypeOK, SetterInv
<1> QED
  BY <1>1, <1>2, <1>3, <1>4, <1>6, <1>7, <1>8 DEF IInv

\* The same for the coroutine a setter resumes.
LEMMA ResumeOneIInv ==
  ASSUME IInv, NEW s \in Setters, ResumeOne(s)
  PROVE  IInv' /\ \E c \in Clients : pc[c] = "block" /\ deliveries[c] = <<>> /\ value # Null
                                   /\ Deliver(c)
<1> USE DEF ResumeOne, Deliver
<1>1. PICK d \in toResume[s] : toResume' = [toResume EXCEPT ![s] = @ \ {d}] /\ Deliver(d)
  OBVIOUS
<1>2. d \in Awaiters /\ d \in Clients
  BY DEF IInv, TypeOK, Clients
<1>3. pc[d] = "block" /\ deliveries[d] = <<>> /\ Queued(d)
  BY <1>2 DEF IInv, ClientInv, Unqueued
<1>4. value # Null /\ value \in Values
  BY <1>3 DEF Queued, IInv, TypeOK
<1>5. deliveries' = [deliveries EXCEPT ![d] = <<value>>]
  BY <1>1, <1>3, Append(<<>>, value) = <<value>>
<1>6. TypeOK'
  BY <1>1, <1>2, <1>4, <1>5 DEF IInv, TypeOK
<1>7. ASSUME NEW c \in Clients PROVE ClientInv(c)'
  <2>1. CASE c = d
    <3>1. Unqueued(c)'
      BY <2>1, <1>1, <1>2, <1>3, <1>4 DEF Queued, Unqueued, IInv, TypeOK
    <3> QED
      BY <2>1, <3>1, <1>2, <1>3, <1>4, <1>5 DEF ClientInv, IInv, TypeOK
  <2>2. CASE c # d
    <3>1. deliveries'[c] = deliveries[c]
      BY <2>2, <1>5, <1>2 DEF IInv, TypeOK
    <3>2. \A t \in Setters : c \in toResume'[t] <=> c \in toResume[t]
      BY <2>2, <1>1 DEF IInv, TypeOK
    <3>3. (Unqueued(c) => Unqueued(c)') /\ (Queued(c) => Queued(c)')
      BY <3>2 DEF Queued, Unqueued
    <3> QED
      BY <3>1, <3>3 DEF IInv, ClientInv
  <2> QED
    BY <2>1, <2>2
<1>8. \A t \in Setters : SetterInv(t)'
  BY <1>1, <1>4 DEF IInv, TypeOK, SetterInv
<1> QED
  BY <1>1, <1>2, <1>3, <1>4, <1>6, <1>7, <1>8 DEF IInv

\* A step of a setter that only moves on
LEMMA MoveIInv ==
  ASSUME IInv, NEW s \in Setters, SetThrows(s) \/ AllCalled(s) \/ AllResumed(s)
  PROVE  IInv'
<1>1. /\ pc' = [pc EXCEPT ![s] = "resume"] \/ pc' = [pc EXCEPT ![s] = "done"]
      /\ UNCHANGED <<value, callbacks, waiters, toCall, toResume, deliveries>>
      /\ value # Null
  BY DEF SetThrows, AllCalled, AllResumed, Goto, IInv, SetterInv
<1>2. TypeOK'
  BY <1>1 DEF IInv, TypeOK
<1>3. \A c \in Clients : pc'[c] = pc[c]
  BY <1>1 DEF IInv, TypeOK, Clients
<1>4. \A c \in Clients : ClientInv(c)'
  BY <1>1, <1>3 DEF IInv, ClientInv, Queued, Unqueued
<1>5. \A t \in Setters : SetterInv(t)'
  BY <1>1 DEF IInv, TypeOK, SetterInv
<1> QED
  BY <1>2, <1>4, <1>5 DEF IInv

\* A client under a lock: with the value in hand, or put on its list
LEMMA LockedIInv ==
  ASSUME IInv, NEW d \in Clients,
         (d \in Callbacks /\ WhenInitialize(d)) \/ (d \in Awaiters /\ AwaitLocked(d))
  PROVE  IInv'
<1> USE DEF WhenInitialize, AwaitLocked, Goto
<1>1. pc[d] \in {"start", "enter"} /\ deliveries[d] = <<>> /\ Unqueued(d)
  BY DEF IInv, ClientInv
<1>2. TypeOK'
  BY DEF IInv, TypeOK, Clients
<1>3. ClientInv(d)'
  BY <1>1 DEF IInv, TypeOK, ClientInv, Queued, Unqueued, Clients
<1>4. ASSUME NEW c \in Clients, c # d PROVE ClientInv(c)'
  <2>1. (c \in callbacks' \cup waiters') <=> (c \in callbacks \cup waiters)
    BY <1>4
  <2>2. (Unqueued(c) => Unqueued(c)') /\ (Queued(c) => Queued(c)')
    BY <2>1 DEF Queued, Unqueued
  <2> QED
    BY <1>4, <2>2 DEF IInv, TypeOK, ClientInv
<1>5. \A t \in Setters : SetterInv(t)'
  BY DEF IInv, TypeOK, SetterInv, Clients
<1> QED
  BY <1>2, <1>3, <1>4, <1>5 DEF IInv

\* The read of await without the lock: a value that is seen is set for good.
LEMMA AwaitIInv ==
  ASSUME IInv, NEW d \in Awaiters, Await(d)
  PROVE  IInv'
<1> USE DEF Await, Goto, Clients
<1>1. deliveries[d] = <<>> /\ Unqueued(d)
  BY DEF IInv, ClientInv
<1>2. TypeOK'
  BY DEF IInv, TypeOK
<1>3. \A c \in Clients : (Unqueued(c) => Unqueued(c)') /\ (Queued(c) => Queued(c)')
  BY DEF Queued, Unqueued
<1>4. \A c \in Clients : ClientInv(c)'
  BY <1>1, <1>3 DEF IInv, TypeOK, ClientInv
<1>5. \A t \in Setters : SetterInv(t)'
  BY DEF IInv, TypeOK, SetterInv
<1> QED
  BY <1>2, <1>4, <1>5 DEF IInv

\* A client that has the value in hand is on no list, so it is served once.
LEMMA ReturnIInv ==
  ASSUME IInv, NEW d \in Clients, Return(d)
  PROVE  IInv' /\ deliveries[d] = <<>> /\ value # Null
<1> USE DEF Return, Goto, Deliver
<1>1. value # Null /\ value \in Values /\ deliveries[d] = <<>> /\ Unqueued(d)
  BY DEF IInv, ClientInv, TypeOK
<1>2. deliveries' = [deliveries EXCEPT ![d] = <<value>>]
  BY <1>1, Append(<<>>, value) = <<value>>
<1>3. TypeOK'
  BY <1>1, <1>2 DEF IInv, TypeOK
<1>4. \A c \in Clients : (Unqueued(c) => Unqueued(c)') /\ (Queued(c) => Queued(c)')
  BY DEF Queued, Unqueued
<1>5. \A c \in Clients : ClientInv(c)'
  BY <1>1, <1>2, <1>4 DEF IInv, TypeOK, ClientInv
<1>6. \A t \in Setters : SetterInv(t)'
  BY DEF IInv, TypeOK, SetterInv, Clients
<1> QED
  BY <1>1, <1>3, <1>5, <1>6 DEF IInv

\* Every step keeps IInv.
LEMMA StepIInv == IInv /\ [Next]_vars => IInv'
<1> SUFFICES ASSUME IInv, [Next]_vars PROVE IInv'
  OBVIOUS
<1>1. CASE Next
  <2>1. ASSUME NEW s \in Setters, NEW v \in Values, Set(s, v) PROVE IInv'
    BY <2>1, SetIInv
  <2>2. ASSUME NEW s \in Setters, SetThrows(s) \/ SetterStep(s) PROVE IInv'
    BY <2>2, MoveIInv, CallOneIInv, ResumeOneIInv DEF SetterStep
  <2>3. ASSUME NEW c \in Callbacks, WhenInitialize(c) PROVE IInv'
    BY <2>3, LockedIInv DEF Clients
  <2>4. ASSUME NEW c \in Awaiters, Await(c) PROVE IInv'
    BY <2>4, AwaitIInv
  <2>5. ASSUME NEW c \in Clients, ClientStep(c) PROVE IInv'
    BY <2>5, LockedIInv, ReturnIInv DEF ClientStep
  <2> QED
    BY <1>1, <2>1, <2>2, <2>3, <2>4, <2>5 DEF Next
<1>2. CASE UNCHANGED vars
  BY <1>2 DEF vars, IInv, TypeOK, ClientInv, SetterInv, Queued, Unqueued
<1> QED
  BY <1>1, <1>2

\* Every reachable state has IInv: a client that has not been served is on exactly
\* one list or copy, and only while it waits.  (DeferredValue.kt 17-33, 50-74)
THEOREM Invariance == Spec => []IInv
BY InitIInv, StepIInv, PTL DEF Spec

\* Every variable keeps its type; in particular only values are delivered, never
\* Null.
THEOREM TypeCorrect == Spec => []TypeOK
<1>1. IInv => TypeOK
  BY DEF IInv
<1> QED
  BY <1>1, Invariance, PTL

\* No wakeup is lost: a waiting client is on one list, or in one copy of a list.
\* (DeferredValue.kt 17-29, 50-62)
THEOREM NoLostWakeup == Spec => []WaitingOnOneList
<1>1. IInv => WaitingOnOneList
  <2> SUFFICES ASSUME IInv, NEW c \in Clients, pc[c] = "block", deliveries[c] = <<>>
               PROVE  LET copies == {s \in Setters : c \in toCall[s] \cup toResume[s]}
                      IN  IF value = Null THEN c \in callbacks \cup waiters /\ copies = {}
                          ELSE c \notin callbacks \cup waiters /\ \E s \in Setters : copies = {s}
    BY DEF WaitingOnOneList
  <2>1. Queued(c)
    <3>1. value # Null /\ deliveries[c] = <<value>> => deliveries[c] # <<>>
      OBVIOUS
    <3> QED
      BY <3>1 DEF IInv, ClientInv
  <2> QED
    BY <2>1 DEF Queued
<1> QED
  BY <1>1, Invariance, PTL

\* Every step is a step of OneShot, or none: the value is set once, and a client
\* is given it at most once, after it has asked.  (DeferredValue.kt 12-33, 50-74)
LEMMA StepRefines == IInv /\ [Next]_vars => [Promise!Next]_(Promise!vars)
<1> SUFFICES ASSUME IInv, [Next]_vars PROVE [Promise!Next]_(Promise!vars)
  OBVIOUS
<1> USE DEF Promise!Next, Promise!vars, Promise!Set, Promise!Ask, Promise!Deliver
<1>1. CASE Next
  <2>1. ASSUME NEW s \in Setters, NEW v \in Values, Set(s, v) PROVE Promise!Set(v)
    BY <2>1 DEF Set, Goto, Asked, Clients, IInv, TypeOK
  <2>2. ASSUME NEW s \in Setters, SetThrows(s) \/ AllCalled(s) \/ AllResumed(s)
        PROVE  UNCHANGED Promise!vars
    BY <2>2 DEF SetThrows, AllCalled, AllResumed, Goto, Asked, Clients, IInv, TypeOK
  <2>3. ASSUME NEW s \in Setters, CallOne(s) PROVE \E c \in Clients : Promise!Deliver(c)
    <3>1. UNCHANGED <<value, pc>>
      BY <2>3 DEF CallOne
    <3>2. PICK c \in Clients : pc[c] = "block" /\ deliveries[c] = <<>> /\ value # Null /\ Deliver(c)
      BY <2>3, CallOneIInv
    <3> QED
      BY <3>1, <3>2, Append(<<>>, value) = <<value>> DEF Deliver, Asked
  <2>4. ASSUME NEW s \in Setters, ResumeOne(s) PROVE \E c \in Clients : Promise!Deliver(c)
    <3>1. UNCHANGED <<value, pc>>
      BY <2>4 DEF ResumeOne
    <3>2. PICK c \in Clients : pc[c] = "block" /\ deliveries[c] = <<>> /\ value # Null /\ Deliver(c)
      BY <2>4, ResumeOneIInv
    <3> QED
      BY <3>1, <3>2, Append(<<>>, value) = <<value>> DEF Deliver, Asked
  <2>5. ASSUME NEW c \in Clients, (c \in Callbacks /\ WhenInitialize(c)) \/ (c \in Awaiters /\ Await(c))
        PROVE  Promise!Ask(c)
    BY <2>5 DEF WhenInitialize, Await, Goto, Asked, IInv, TypeOK
  <2>6. ASSUME NEW c \in Awaiters, AwaitLocked(c) PROVE UNCHANGED Promise!vars
    BY <2>6 DEF AwaitLocked, Goto, Asked, Clients, IInv, TypeOK
  <2>7. ASSUME NEW c \in Clients, Return(c) PROVE Promise!Deliver(c)
    <3>1. deliveries[c] = <<>> /\ value # Null
      BY <2>7, ReturnIInv
    <3>2. Asked' = Asked /\ c \in Asked
      BY <2>7 DEF Return, Goto, Asked, IInv, TypeOK
    <3> QED
      BY <2>7, <3>1, <3>2, Append(<<>>, value) = <<value>> DEF Return, Deliver
  <2> QED
    BY <1>1, <2>1, <2>2, <2>3, <2>4, <2>5, <2>6, <2>7
    DEF Next, SetterStep, ClientStep, Clients
<1>2. CASE UNCHANGED vars
  BY <1>2 DEF vars, Asked
<1> QED
  BY <1>1, <1>2

\* DeferredValue implements the safety part of OneShot.
THEOREM Refinement == Spec => Promise!Safety
<1>1. Init => Promise!Init
  BY DEF Init, Promise!Init, Asked, Clients
<1> QED
  BY <1>1, StepRefines, Invariance, PTL DEF Spec, Promise!Safety
====
