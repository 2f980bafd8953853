---- MODULE DeferredValue ----
(***************************************************************************)
(* util/DeferredValue.kt: a value set once by any thread; callbacks wait   *)
(* for it with whenInitialize, coroutines with await.  Each synchronized   *)
(* block is one step; the callbacks run and the coroutines resume outside  *)
(* the lock, one step each.  The two lists are sets here: no property is   *)
(* about the order inside a list.  An exception of a callback is caught,   *)
(* so a call that throws is a call like any other.                         *)
(***************************************************************************)
EXTENDS Sequences

CONSTANTS
  Setters,   \* threads that set the value, each once
  Callbacks, \* blocks given to whenInitialize, each once
  Awaiters,  \* coroutines that call await, each once
  Values,
  Null

ASSUME ClientsAssumption == Callbacks \cap Awaiters = {}
ASSUME SettersAssumption == Setters \cap (Callbacks \cup Awaiters) = {}
ASSUME NullAssumption == Null \notin Values

Clients == Callbacks \cup Awaiters

VARIABLES
  value,
  callbacks,  \* the field callbacks
  waiters,    \* the field waiters
  pc,         \* where a setter, or the call of a client, is
  toCall,     \* the copy of callbacks a setter has left to call
  toResume,   \* the copy of waiters a setter has left to resume
  deliveries  \* the values each client was given

vars == <<value, callbacks, waiters, pc, toCall, toResume, deliveries>>

TypeOK ==
  /\ value \in Values \cup {Null}
  /\ callbacks \subseteq Callbacks
  /\ waiters \subseteq Awaiters
  /\ pc \in [Setters \cup Clients ->
               {"start", "call", "resume", "enter", "block", "return", "done"}]
  /\ toCall \in [Setters -> SUBSET Callbacks]
  /\ toResume \in [Setters -> SUBSET Awaiters]
  /\ deliveries \in [Clients -> Seq(Values)]

Init ==
  /\ value = Null
  /\ callbacks = {}
  /\ waiters = {}
  /\ pc = [x \in Setters \cup Clients |-> "start"]
  /\ toCall = [s \in Setters |-> {}]
  /\ toResume = [s \in Setters |-> {}]
  /\ deliveries = [c \in Clients |-> <<>>]

Goto(x, l) == pc' = [pc EXCEPT ![x] = l]
Deliver(c) == deliveries' = [deliveries EXCEPT ![c] = Append(@, value)]

----
\* value = v

\* Faulty variant: no test for a value.
SetUnchecked(s, v) ==
  /\ pc[s] = "start"
  /\ value' = v
  /\ toCall' = [toCall EXCEPT ![s] = callbacks]
  /\ toResume' = [toResume EXCEPT ![s] = waiters]
  /\ callbacks' = {}
  /\ waiters' = {}
  /\ Goto(s, "call")
  /\ UNCHANGED deliveries

\* The locked part: store the value, take the callbacks and the waiters.
Set(s, v) ==
  /\ pc[s] = "start"
  /\ value = Null
  /\ value' = v
  /\ toCall' = [toCall EXCEPT ![s] = callbacks]
  /\ toResume' = [toResume EXCEPT ![s] = waiters]
  /\ callbacks' = {}
  /\ waiters' = {}
  /\ Goto(s, "call")
  /\ UNCHANGED deliveries

\* "Value has already been set!"
SetThrows(s) ==
  /\ pc[s] = "start"
  /\ value # Null
  /\ Goto(s, "done")
  /\ UNCHANGED <<value, callbacks, waiters, toCall, toResume, deliveries>>

\* callbacks.forEachCatching { it(value) }
CallOne(s) ==
  /\ pc[s] = "call"
  /\ \E c \in toCall[s] :
       /\ toCall' = [toCall EXCEPT ![s] = @ \ {c}]
       /\ Deliver(c)
  /\ UNCHANGED <<value, callbacks, waiters, pc, toResume>>

AllCalled(s) ==
  /\ pc[s] = "call"
  /\ toCall[s] = {}
  /\ Goto(s, "resume")
  /\ UNCHANGED <<value, callbacks, waiters, toCall, toResume, deliveries>>

\* waiters.forEachCatching { it.resume(value) }
ResumeOne(s) ==
  /\ pc[s] = "resume"
  /\ \E c \in toResume[s] :
       /\ toResume' = [toResume EXCEPT ![s] = @ \ {c}]
       /\ Deliver(c)
  /\ UNCHANGED <<value, callbacks, waiters, pc, toCall>>

AllResumed(s) ==
  /\ pc[s] = "resume"
  /\ toResume[s] = {}
  /\ Goto(s, "done")
  /\ UNCHANGED <<value, callbacks, waiters, toCall, toResume, deliveries>>

----
\* whenInitialize(block): the locked part adds the block, or sees the value and
\* leaves the call to the thread itself.
WhenInitialize(c) ==
  /\ pc[c] = "start"
  /\ IF value = Null
     THEN callbacks' = callbacks \cup {c} /\ Goto(c, "block")
     ELSE Goto(c, "return") /\ UNCHANGED callbacks
  /\ UNCHANGED <<value, waiters, toCall, toResume, deliveries>>

----
\* await(): the read without the lock may miss a value that has been set
Await(c) ==
  /\ pc[c] = "start"
  /\ \/ value # Null /\ Goto(c, "return")
     \/ Goto(c, "enter")
  /\ UNCHANGED <<value, callbacks, waiters, toCall, toResume, deliveries>>

\* Faulty variant: no second look under the lock.
AwaitAlwaysWaits(c) ==
  /\ pc[c] = "enter"
  /\ waiters' = waiters \cup {c}
  /\ Goto(c, "block")
  /\ UNCHANGED <<value, callbacks, toCall, toResume, deliveries>>

\* The locked part looks again before it waits.
AwaitLocked(c) ==
  /\ pc[c] = "enter"
  /\ IF value = Null
     THEN waiters' = waiters \cup {c} /\ Goto(c, "block")
     ELSE Goto(c, "return") /\ UNCHANGED waiters
  /\ UNCHANGED <<value, callbacks, toCall, toResume, deliveries>>

----
\* The client has seen the value itself: ?.also(block), return it, resume(it).
Return(c) ==
  /\ pc[c] = "return"
  /\ Deliver(c)
  /\ Goto(c, "done")
  /\ UNCHANGED <<value, callbacks, waiters, toCall, toResume>>

SetterStep(s) == CallOne(s) \/ AllCalled(s) \/ ResumeOne(s) \/ AllResumed(s)
ClientStep(c) == (c \in Awaiters /\ AwaitLocked(c)) \/ Return(c)

Next ==
  \/ \E s \in Setters :
       \/ \E v \in Values : Set(s, v)
       \/ SetThrows(s)
       \/ SetterStep(s)
  \/ \E c \in Callbacks : WhenInitialize(c)
  \/ \E c \in Awaiters : Await(c)
  \/ \E c \in Clients : ClientStep(c)

\* The lock is held for a bounded time and nobody waits while holding it, so a
\* thread inside an operation goes on; whether one is begun is up to the module.
Fairness ==
  /\ \A s \in Setters : WF_vars(SetterStep(s))
  /\ \A c \in Clients : WF_vars(ClientStep(c))

Spec == Init /\ [][Next]_vars /\ Fairness

----
\* DeferredValue implements the value set once: a client has asked when its call
\* has begun.  (DeferredValue.kt 12-33, 50-62, 68-74)
Asked == {c \in Clients : pc[c] # "start"}
Promise == INSTANCE OneShot WITH asked <- Asked

\* Nobody is given the value twice, or another value; and every client that has
\* asked is given it once it is set.
KeepsPromise == Promise!Spec

\* A client whose call is waiting is on exactly one list: the field it was added
\* to, as long as there is no value, or the copy of the setter that will serve
\* it; this is why no wakeup is lost.  (DeferredValue.kt 17-29)
WaitingOnOneList ==
  \A c \in Clients :
    LET copies == {s \in Setters : c \in toCall[s] \cup toResume[s]}
    IN  pc[c] = "block" /\ deliveries[c] = <<>> =>
          IF value = Null THEN c \in callbacks \cup waiters /\ copies = {}
          ELSE c \notin callbacks \cup waiters /\ \E s \in Setters : copies = {s}
====
