---- MODULE HeapVisitProofs ----
(***************************************************************************)
(* Overlapping visits of the heap, for any number of threads, objects,     *)
(* classes and visits: each finds instances of its class only, together    *)
(* they return every instance that was marked, and they leave no tag.      *)
(***************************************************************************)
EXTENDS HeapVisit, TLAPS

USE InstancesAssumption, MaxVisitsAssumption

\* Typing.  (VisitHeapObjects, xposedkit.cxx 201-274)
THEOREM HeapVisitTyped == Spec => []TypeOK
<1>1. Init => TypeOK
  BY DEF Init, TypeOK
<1>2. TypeOK /\ [Next]_vars => TypeOK'
  <2> SUFFICES ASSUME TypeOK, [Next]_vars PROVE TypeOK'
    OBVIOUS
  <2> USE DEF TypeOK, heap, call
  <2>1. ASSUME NEW t \in Threads, Begin(t) PROVE TypeOK'
    BY <2>1 DEF Begin
  <2>2. ASSUME NEW t \in Threads, Tag(t) PROVE TypeOK'
    BY <2>2 DEF Tag, Marked
  <2>3. ASSUME NEW t \in Threads, Get(t) PROVE TypeOK'
    BY <2>3 DEF Get
  <2>4. ASSUME NEW t \in Threads, Array(t) PROVE TypeOK'
    BY <2>4 DEF Array
  <2>5. ASSUME NEW t \in Threads, Store(t) PROVE TypeOK'
    <3>1. PICK o \in objects[t] :
            /\ tag' = [tag EXCEPT ![o] = 0]
            /\ objects' \in {[objects EXCEPT ![t] = @ \ {o}], [objects EXCEPT ![t] = {}]}
            /\ result' \in {[result EXCEPT ![t] = @ \cup {o}], [result EXCEPT ![t] = {}]}
            /\ stray' \in {stray \ {o}, stray \cup objects[t] \cup result[t]}
            /\ pc' \in {pc, [pc EXCEPT ![t] = "idle"]}
      BY <2>5 DEF Store
    <3> QED
      BY <2>5, <3>1 DEF Store
  <2>6. ASSUME NEW t \in Threads, Return(t) PROVE TypeOK'
    BY <2>6 DEF Return
  <2>7. ASSUME NEW t \in Threads, Fail(t) PROVE TypeOK'
    BY <2>7 DEF Fail, InCharge
  <2>8. ASSUME NEW o \in Objects, Allocate(o) PROVE TypeOK'
    BY <2>8 DEF Allocate
  <2>9. ASSUME NEW o \in Objects, Collect(o) PROVE TypeOK'
    BY <2>9 DEF Collect
  <2>10. ASSUME UNCHANGED vars PROVE TypeOK'
    BY <2>10 DEF vars
  <2> QED
    BY <2>1, <2>2, <2>3, <2>4, <2>5, <2>6, <2>7, <2>8, <2>9, <2>10 DEF Next, Visit
<1> QED
  BY <1>1, <1>2, PTL DEF Spec

----
Running(t) == pc[t] # "idle"

\* A tag in use is older than the counter, and no two visits have the same.
OwnTag ==
  /\ \A o \in Objects : tag[o] < gNextTag
  /\ \A t \in Threads : Running(t) => mine[t] > 0 /\ mine[t] < gNextTag
  /\ \A s, t \in Threads : Running(s) /\ Running(t) /\ mine[s] = mine[t] => s = t

\* Before a visit has marked anything nothing has its tag, and then only
\* instances of its class.
TagMeansInstance ==
  \A t \in Threads, o \in Objects : tag[o] = mine[t] =>
    /\ pc[t] # "tag"
    /\ pc[t] = "get" => o \in Instances[clazz[t]]

\* A visit has objects from GetObjectsWithTags on, and an array in the loop.
EmptyUntil ==
  \A t \in Threads :
    /\ pc[t] \in {"idle", "tag", "get"} => objects[t] = {}
    /\ pc[t] # "store" => result[t] = {}

Inv == TypeOK /\ OwnTag /\ TagMeansInstance /\ EmptyUntil /\ FindsOnlyInstances

LEMMA InitInv == Init => Inv
BY DEF Init, Inv, TypeOK, OwnTag, TagMeansInstance, EmptyUntil, FindsOnlyInstances, Running

\* A store never fails, so it is what its first branch says.
LEMMA StoreSucceeds ==
  ASSUME Inv, NEW t \in Threads, Store(t)
  PROVE  /\ pc[t] = "store"
         /\ \E o \in objects[t] :
              /\ o \in Objects
              /\ tag' = [tag EXCEPT ![o] = 0]
              /\ objects' = [objects EXCEPT ![t] = @ \ {o}]
              /\ result' = [result EXCEPT ![t] = @ \cup {o}]
              /\ stray' = stray \ {o}
         /\ UNCHANGED <<alive, gNextTag, pc, clazz, mine, owed>>
BY DEF Inv, TypeOK, FindsOnlyInstances, Store

\* The invariant holds after a step of each action that touches what it is about.
LEMMA NextInv == Inv /\ TypeOK' /\ [Next]_vars => Inv'
<1> SUFFICES ASSUME Inv, TypeOK', [Next]_vars PROVE Inv'
  OBVIOUS
<1> USE DEF Inv, TypeOK, heap, call, Running
<1>1. ASSUME NEW t \in Threads, Begin(t) PROVE Inv'
  <2> USE <1>1 DEF Begin
  <2>1. OwnTag'
    BY DEF OwnTag
  <2>2. TagMeansInstance' /\ EmptyUntil' /\ FindsOnlyInstances'
    BY DEF OwnTag, TagMeansInstance, EmptyUntil, FindsOnlyInstances
  <2> QED
    BY <2>1, <2>2
<1>2. ASSUME NEW t \in Threads, Tag(t) PROVE Inv'
  <2> USE <1>2 DEF Tag, Marked
  <2>1. OwnTag'
    BY DEF OwnTag
  <2>2. TagMeansInstance'
    BY DEF OwnTag, TagMeansInstance
  <2>3. EmptyUntil' /\ FindsOnlyInstances'
    BY DEF EmptyUntil, FindsOnlyInstances
  <2> QED
    BY <2>1, <2>2, <2>3
<1>3. ASSUME NEW t \in Threads, Get(t) PROVE Inv'
  BY <1>3 DEF Get, OwnTag, TagMeansInstance, EmptyUntil, FindsOnlyInstances
<1>4. ASSUME NEW t \in Threads, Array(t) PROVE Inv'
  BY <1>4 DEF Array, OwnTag, TagMeansInstance, EmptyUntil, FindsOnlyInstances
<1>5. ASSUME NEW t \in Threads, Store(t) PROVE Inv'
  <2>1. PICK o \in objects[t] :
          /\ o \in Objects
          /\ tag' = [tag EXCEPT ![o] = 0]
          /\ objects' = [objects EXCEPT ![t] = @ \ {o}]
          /\ result' = [result EXCEPT ![t] = @ \cup {o}]
    BY <1>5, StoreSucceeds
  <2>2. pc[t] = "store" /\ UNCHANGED <<gNextTag, pc, clazz, mine>>
    BY <1>5, StoreSucceeds
  <2>3. OwnTag' /\ TagMeansInstance'
    BY <2>1, <2>2 DEF OwnTag, TagMeansInstance
  <2>4. EmptyUntil' /\ FindsOnlyInstances'
    BY <2>1, <2>2 DEF EmptyUntil, FindsOnlyInstances
  <2> QED
    BY <2>3, <2>4
<1>6. ASSUME NEW t \in Threads, Return(t) PROVE Inv'
  BY <1>6 DEF Return, OwnTag, TagMeansInstance, EmptyUntil, FindsOnlyInstances
<1>7. ASSUME NEW t \in Threads, Fail(t) PROVE Inv'
  BY <1>7 DEF Fail, OwnTag, TagMeansInstance, EmptyUntil, FindsOnlyInstances
<1>8. ASSUME NEW o \in Objects, Allocate(o) PROVE Inv'
  BY <1>8 DEF Allocate, OwnTag, TagMeansInstance, EmptyUntil, FindsOnlyInstances
<1>9. ASSUME NEW o \in Objects, Collect(o) PROVE Inv'
  BY <1>9 DEF Collect, OwnTag, TagMeansInstance, EmptyUntil, FindsOnlyInstances
<1>10. ASSUME UNCHANGED vars PROVE Inv'
  BY <1>10 DEF vars, OwnTag, TagMeansInstance, EmptyUntil, FindsOnlyInstances
<1> QED
  BY <1>1, <1>2, <1>3, <1>4, <1>5, <1>6, <1>7, <1>8, <1>9, <1>10 DEF Next, Visit

LEMMA AlwaysInv == Spec => []Inv
<1>1. Inv => TypeOK
  BY DEF Inv
<1> QED
  BY <1>1, InitInv, NextInv, HeapVisitTyped, PTL DEF Spec

\* Whatever overlaps, a visit has only instances of the class it was asked for.
\* (xposedkit.cxx 212-243)
THEOREM VisitsFindOnlyInstances == Spec => []FindsOnlyInstances
<1>1. Inv => FindsOnlyInstances
  BY DEF Inv
<1> QED
  BY <1>1, AlwaysInv, PTL

----
\* Each tag on an object is some visit's to take off, or was a failed one's.
Accounted ==
  \A o \in Objects : tag[o] # 0 => o \in stray \/ \E t \in Threads : o \in InCharge(t)

\* Each instance that is owed is on its way in some visit.
Underway == \A o \in owed : \E t \in Threads : o \in InCharge(t) \cup result[t]

Charge == Accounted /\ Underway

LEMMA InitCharge == Init => Charge
BY DEF Init, Charge, Accounted, Underway

\* A mark makes the visit that sets it the one in charge.
LEMMA TagCharge ==
  ASSUME Inv, Charge, NEW t \in Threads, Tag(t)
  PROVE  Charge'
<1> USE DEF Inv, TypeOK, Tag
<1>1. \A o \in Marked(t) : o \in Objects /\ o \in InCharge(t)'
  BY DEF Marked, InCharge
<1>2. ASSUME NEW s \in Threads, NEW o \in Objects \ Marked(t), o \in InCharge(s)
      PROVE  o \in InCharge(s)'
  BY <1>2 DEF InCharge, EmptyUntil
<1>3. \A o \in Objects \ Marked(t) : tag'[o] = tag[o]
  OBVIOUS
<1>4. Accounted'
  BY <1>1, <1>2, <1>3 DEF Charge, Accounted
<1>5. Underway'
  BY <1>1, <1>2 DEF Charge, Underway
<1> QED
  BY <1>4, <1>5 DEF Charge

\* What a visit finds it had marked.
LEMMA GetCharge ==
  ASSUME Inv, Charge, NEW t \in Threads, Get(t)
  PROVE  Charge'
<1> USE DEF Inv, TypeOK, Get, heap
<1>1. ASSUME NEW s \in Threads, NEW o \in InCharge(s) PROVE o \in InCharge(s)'
  BY <1>1 DEF InCharge, EmptyUntil
<1> QED
  BY <1>1 DEF Charge, Accounted, Underway

\* An object in the array has no tag and is still the visit's to return.
LEMMA StoreCharge ==
  ASSUME Inv, Charge, NEW t \in Threads, Store(t)
  PROVE  Charge'
<1> USE DEF Inv, TypeOK
<1>1. PICK o \in objects[t] :
        /\ o \in Objects
        /\ tag' = [tag EXCEPT ![o] = 0]
        /\ objects' = [objects EXCEPT ![t] = @ \ {o}]
        /\ result' = [result EXCEPT ![t] = @ \cup {o}]
        /\ stray' = stray \ {o}
  BY StoreSucceeds
<1>2. pc[t] = "store" /\ UNCHANGED <<pc, mine, owed>>
  BY StoreSucceeds
<1>3. ASSUME NEW s \in Threads, NEW p \in InCharge(s), p # o PROVE p \in InCharge(s)'
  BY <1>1, <1>2, <1>3 DEF InCharge
<1>4. Accounted'
  BY <1>1, <1>3 DEF Charge, Accounted
<1>5. Underway'
  BY <1>1, <1>2, <1>3 DEF Charge, Underway
<1> QED
  BY <1>4, <1>5 DEF Charge

\* A visit that returns has returned what it was in charge of.
LEMMA ReturnCharge ==
  ASSUME Inv, Charge, NEW t \in Threads, Return(t)
  PROVE  Charge'
<1> USE DEF Inv, TypeOK, Return, heap
<1>1. \A s \in Threads : InCharge(s) = InCharge(s)'
  BY DEF InCharge
<1>2. InCharge(t) = {}
  BY DEF InCharge
<1> QED
  BY <1>1, <1>2 DEF Charge, Accounted, Underway

\* What only a failed visit was in charge of is owed by nobody.
LEMMA FailCharge ==
  ASSUME Inv, Charge, NEW t \in Threads, Fail(t)
  PROVE  Charge'
<1> USE DEF Inv, TypeOK, Fail, heap
<1>1. \A s \in Threads \ {t} : InCharge(s) = InCharge(s)'
  BY DEF InCharge
<1>2. Accounted'
  BY <1>1 DEF Charge, Accounted
<1>3. result[t] = {}
  BY DEF EmptyUntil
<1>4. Underway'
  BY <1>1, <1>3 DEF Charge, Underway
<1> QED
  BY <1>2, <1>4 DEF Charge

\* An object that dies is in no visit's array.
LEMMA CollectCharge ==
  ASSUME Inv, Charge, NEW o \in Objects, Collect(o)
  PROVE  Charge'
<1> USE DEF Inv, TypeOK, Collect, call
<1>1. ASSUME NEW s \in Threads, NEW p \in InCharge(s), p # o PROVE p \in InCharge(s)'
  BY <1>1 DEF InCharge
<1> QED
  BY <1>1 DEF Charge, Accounted, Underway

LEMMA NextCharge == Inv /\ Charge /\ [Next]_vars => Charge'
<1> SUFFICES ASSUME Inv, Charge, [Next]_vars PROVE Charge'
  OBVIOUS
<1>1. ASSUME NEW t \in Threads, Begin(t) PROVE Charge'
  <2>1. ASSUME NEW s \in Threads, NEW o \in InCharge(s) PROVE o \in InCharge(s)'
    BY <1>1, <2>1 DEF Begin, heap, InCharge, Inv, TypeOK, EmptyUntil
  <2> QED
    BY <1>1, <2>1 DEF Begin, heap, Charge, Accounted, Underway
<1>2. ASSUME NEW t \in Threads, Array(t) PROVE Charge'
  <2>1. \A s \in Threads : InCharge(s) \subseteq InCharge(s)'
    BY <1>2 DEF Array, heap, InCharge, Inv, TypeOK
  <2> QED
    BY <1>2, <2>1 DEF Array, heap, Charge, Accounted, Underway
<1>3. ASSUME NEW o \in Objects, Allocate(o) PROVE Charge'
  BY <1>3 DEF Allocate, call, Charge, Accounted, Underway, InCharge
<1>4. ASSUME UNCHANGED vars PROVE Charge'
  BY <1>4 DEF vars, heap, call, Charge, Accounted, Underway, InCharge
<1> QED
  BY <1>1, <1>2, <1>3, <1>4, TagCharge, GetCharge, StoreCharge, ReturnCharge, FailCharge,
     CollectCharge DEF Next, Visit

LEMMA AlwaysCharge == Spec => [](Inv /\ Charge)
BY AlwaysInv, InitCharge, NextCharge, PTL DEF Spec

\* A visit in charge of something is not idle.
LEMMA IdleInCharge ==
  ASSUME Inv, AllIdle, NEW t \in Threads
  PROVE  InCharge(t) \cup result[t] = {}
BY DEF Inv, AllIdle, InCharge, EmptyUntil

\* Visits that overlap lose nothing between them: what one marks some visit
\* returns, unless the only one in charge of it failed.
\* (xposedkit.cxx 213-220, 262-270)
THEOREM VisitsReturnTheMarked == Spec => []MarkedIsReturned
<1>1. Inv /\ Charge => MarkedIsReturned
  BY IdleInCharge DEF MarkedIsReturned, Charge, Underway
<1> QED
  BY <1>1, AlwaysCharge, PTL

\* When nobody visits, only what a failed visit left has a tag.
\* (xposedkit.cxx 221-264)
THEOREM VisitsLeaveNoTag == Spec => []NoTagLeft
<1>1. Inv /\ Charge => NoTagLeft
  BY IdleInCharge DEF NoTagLeft, Charge, Accounted
<1> QED
  BY <1>1, AlwaysCharge, PTL
====
