---- MODULE HeapVisit ----
(***************************************************************************)
(* VisitHeapObjects (xposedkit.cxx 201-274): the live instances of a       *)
(* class, found by marking them.  A visit takes a number of its own, lets  *)
(* JVMTI write it as the tag of each instance, asks JVMTI for the objects  *)
(* with that tag, and moves them into an array, taking each tag off again. *)
(* An object has one tag, and nothing keeps two threads from visiting at   *)
(* the same time.                                                          *)
(*                                                                         *)
(* Each call of JVMTI is one step: the heap stands still while instances   *)
(* are iterated over, and the table of tags has a lock.  The objects JVMTI *)
(* hands out are local references, so they outlive the visit that has      *)
(* them.  The counter is 64 bits wide and is not modelled as wrapping.     *)
(***************************************************************************)
EXTENDS Naturals, FiniteSets

CONSTANTS
  Threads,
  Objects,
  Classes,
  Instances,  \* the objects of each class, those of its subclasses among them
  MaxVisits   \* bound: visits begun

ASSUME InstancesAssumption == Instances \in [Classes -> SUBSET Objects]
ASSUME MaxVisitsAssumption == MaxVisits \in Nat

VARIABLES
  alive,     \* objects on the heap
  tag,       \* the JVMTI tag of each object, 0 for none
  gNextTag,
  pc,        \* where the call of a thread is
  clazz,     \* the class it was asked for
  mine,      \* its tag
  objects,   \* what GetObjectsWithTags answered, less what the loop is done with
  result,    \* what its array has so far
  owed,      \* ghost: instances some visit has marked and nobody has returned yet
  stray      \* ghost: objects a failed visit was in charge of, tags and all

heap == <<alive, tag>>
call == <<pc, clazz, mine>>
vars == <<heap, gNextTag, call, objects, result, owed, stray>>

TypeOK ==
  /\ alive \subseteq Objects
  /\ tag \in [Objects -> Nat]
  /\ gNextTag \in Nat \ {0}
  /\ pc \in [Threads -> {"idle", "tag", "get", "array", "store"}]
  /\ clazz \in [Threads -> Classes]
  /\ mine \in [Threads -> Nat]
  /\ objects \in [Threads -> SUBSET Objects]
  /\ result \in [Threads -> SUBSET Objects]
  /\ owed \subseteq Objects
  /\ stray \subseteq Objects

Init ==
  /\ alive \in SUBSET Objects
  /\ tag = [o \in Objects |-> 0]
  /\ gNextTag = 1
  /\ pc = [t \in Threads |-> "idle"]
  /\ clazz \in [Threads -> Classes]
  /\ mine = [t \in Threads |-> 0]
  /\ objects = [t \in Threads |-> {}]
  /\ result = [t \in Threads |-> {}]
  /\ owed = {}
  /\ stray = {}

\* The objects whose tag the visit of t has to take off
InCharge(t) == {o \in Objects : pc[t] = "get" /\ tag[o] = mine[t]} \cup objects[t]

----
\* Faulty variant: every visit uses the same tag.
BeginSameTag(t) ==
  /\ pc[t] = "idle"
  /\ gNextTag <= MaxVisits
  /\ \E c \in Classes : clazz' = [clazz EXCEPT ![t] = c]
  /\ mine' = [mine EXCEPT ![t] = 1]
  /\ gNextTag' = gNextTag + 1
  /\ pc' = [pc EXCEPT ![t] = "tag"]
  /\ UNCHANGED <<heap, objects, result, owed, stray>>

\* tag = gNextTag.fetch_add(1)
Begin(t) ==
  /\ pc[t] = "idle"
  /\ gNextTag <= MaxVisits
  /\ \E c \in Classes : clazz' = [clazz EXCEPT ![t] = c]
  /\ mine' = [mine EXCEPT ![t] = gNextTag]
  /\ gNextTag' = gNextTag + 1
  /\ pc' = [pc EXCEPT ![t] = "tag"]
  /\ UNCHANGED <<heap, objects, result, owed, stray>>

Marked(t) == alive \cap Instances[clazz[t]]

\* Faulty variant: an object with a tag is left to the visit that tagged it.
TagUntagged(t) ==
  LET m == {o \in Marked(t) : tag[o] = 0}
  IN  /\ pc[t] = "tag"
      /\ tag' = [o \in Objects |-> IF o \in m THEN mine[t] ELSE tag[o]]
      /\ owed' = owed \cup Marked(t)
      /\ pc' = [pc EXCEPT ![t] = "get"]
      /\ UNCHANGED <<alive, gNextTag, clazz, mine, objects, result, stray>>

\* IterateOverInstancesOfClass: *tag_ptr = tag, whatever it was
Tag(t) ==
  /\ pc[t] = "tag"
  /\ tag' = [o \in Objects |-> IF o \in Marked(t) THEN mine[t] ELSE tag[o]]
  /\ owed' = owed \cup Marked(t)
  /\ pc' = [pc EXCEPT ![t] = "get"]
  /\ UNCHANGED <<alive, gNextTag, clazz, mine, objects, result, stray>>

\* GetObjectsWithTags, for the visit's tag alone
Get(t) ==
  /\ pc[t] = "get"
  /\ objects' = [objects EXCEPT ![t] = {o \in Objects : tag[o] = mine[t]}]
  /\ pc' = [pc EXCEPT ![t] = "array"]
  /\ UNCHANGED <<heap, gNextTag, clazz, mine, result, owed, stray>>

\* NewObjectArray(count, clazz)
Array(t) ==
  /\ pc[t] = "array"
  /\ pc' = [pc EXCEPT ![t] = "store"]
  /\ UNCHANGED <<heap, gNextTag, clazz, mine, objects, result, owed, stray>>

\* One of the early returns before the loop: JVMTI answers with an error, which
\* is thrown, or the array could not be made.  Tags stay as they are.
Fail(t) ==
  /\ pc[t] \in {"tag", "get", "array"}
  /\ owed' = owed \ {o \in InCharge(t) : \A s \in Threads \ {t} : o \notin InCharge(s)}
  /\ stray' = stray \cup InCharge(t)
  /\ objects' = [objects EXCEPT ![t] = {}]
  /\ pc' = [pc EXCEPT ![t] = "idle"]
  /\ UNCHANGED <<heap, gNextTag, clazz, mine, result>>

\* Faulty variant: the tag stays.
StoreTagged(t) ==
  /\ pc[t] = "store"
  /\ \E o \in objects[t] :
       /\ objects' = [objects EXCEPT ![t] = @ \ {o}]
       /\ result' = [result EXCEPT ![t] = @ \cup {o}]
       /\ UNCHANGED <<tag, stray>>
  /\ UNCHANGED <<alive, gNextTag, call, owed>>

\* SetTag(obj, 0), SetObjectArrayElement: the array would refuse an object that
\* is no instance of its class, and the exception would end the visit.
Store(t) ==
  /\ pc[t] = "store"
  /\ \E o \in objects[t] :
       /\ tag' = [tag EXCEPT ![o] = 0]
       /\ IF o \in Instances[clazz[t]]
          THEN /\ objects' = [objects EXCEPT ![t] = @ \ {o}]
               /\ result' = [result EXCEPT ![t] = @ \cup {o}]
               /\ stray' = stray \ {o}
               /\ UNCHANGED pc
          ELSE /\ objects' = [objects EXCEPT ![t] = {}]
               /\ result' = [result EXCEPT ![t] = {}]
               /\ stray' = stray \cup objects[t] \cup result[t]
               /\ pc' = [pc EXCEPT ![t] = "idle"]
  /\ UNCHANGED <<alive, gNextTag, clazz, mine, owed>>

\* return result; the caller may drop it at once.
Return(t) ==
  /\ pc[t] = "store"
  /\ objects[t] = {}
  /\ owed' = owed \ result[t]
  /\ result' = [result EXCEPT ![t] = {}]
  /\ pc' = [pc EXCEPT ![t] = "idle"]
  /\ UNCHANGED <<heap, gNextTag, clazz, mine, objects, stray>>

----
\* The program makes an object.
Allocate(o) ==
  /\ o \notin alive
  /\ alive' = alive \cup {o}
  /\ UNCHANGED <<tag, gNextTag, call, objects, result, owed, stray>>

\* The garbage collector frees an object no visit has a reference to; JVMTI
\* forgets its tag.
Collect(o) ==
  /\ o \in alive
  /\ \A t \in Threads : o \notin objects[t] \cup result[t]
  /\ alive' = alive \ {o}
  /\ tag' = [tag EXCEPT ![o] = 0]
  /\ owed' = owed \ {o}
  /\ stray' = stray \ {o}
  /\ UNCHANGED <<gNextTag, call, objects, result>>

Visit(t) ==
  \/ Begin(t) \/ Tag(t) \/ Get(t) \/ Array(t) \/ Store(t) \/ Return(t)
  \/ Fail(t)

Next ==
  \/ \E t \in Threads : Visit(t)
  \/ \E o \in Objects : Allocate(o) \/ Collect(o)

Spec == Init /\ [][Next]_vars

----
AllIdle == \A t \in Threads : pc[t] = "idle"

\* A visit finds instances of the class it was asked for and no others, however
\* visits of other classes overlap with it; so no store into its array fails.
\* (xposedkit.cxx 212-220, 236-243, 262-270)
FindsOnlyInstances ==
  \A t \in Threads : objects[t] \cup result[t] \subseteq Instances[clazz[t]]

\* An instance one visit loses to another, which marked it over or took the mark
\* off, is returned by some visit: once all have returned, each object that was
\* marked and still lives has been returned, unless the only visit in charge of
\* it failed.  A visit nothing overlaps returns all of them.
\* (xposedkit.cxx 213-220, 262-270)
MarkedIsReturned == AllIdle => owed = {}

\* Visits leave no tag behind, except those of a visit that failed.
\* (xposedkit.cxx 221-234, 244-260, 264)
NoTagLeft == AllIdle => \A o \in Objects : tag[o] = 0 \/ o \in stray
====
