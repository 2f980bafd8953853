---- MODULE XLog ----
(***************************************************************************)
(* XLog.kt: a message below the level is kept hidden in records and is     *)
(* printed when updateLevel lowers the level.  print and updateLevel run   *)
(* on any thread; records is a synchronizedList, but updateLevel iterates  *)
(* over it without its lock, with the fail-fast iterator of ArrayList.     *)
(* Fields are read and written in program order here (the code marks       *)
(* neither level nor hidden volatile).  A record is numbered by its        *)
(* print() call.                                                           *)
(***************************************************************************)
EXTENDS Naturals, Sequences, SequencesExt

CONSTANTS
  Threads,
  Levels,     \* log priorities, and the values of level
  MaxRecords, \* bound: print() calls
  MaxUpdates  \* bound: updateLevel() calls

ASSUME LevelsAssumption == Levels \subseteq Nat
ASSUME BoundsAssumption == MaxRecords \in Nat /\ MaxUpdates \in Nat

VARIABLES
  level,
  record,   \* LogRecord objects so far: a sequence of [priority, hidden]
  records,  \* the list: record numbers
  updates,  \* number of updateLevel() calls so far
  pc,
  cur,      \* the record a thread prints
  new,      \* newLevel of a thread in updateLevel
  next,     \* its iterator: the next index ...
  size,     \* ... and the length of the list when it was made
  printed,  \* ghost: how often printLog printed each record
  excused,  \* ghost: records whose printing was disturbed
  doubled   \* ghost: two updateLevel() calls have overlapped

vars == <<level, record, records, updates, pc, cur, new, next, size,
          printed, excused, doubled>>
iterator == <<new, next, size>>

Record == 1..Len(record)
Updating == {t \in Threads : pc[t] \in {"iterate", "next", "unhide", "show"}}
Printing == {t \in Threads : pc[t] \in {"print", "add"}}

TypeOK ==
  /\ level \in Levels
  /\ record \in Seq([priority : Levels, hidden : BOOLEAN])
  /\ records \in Seq(Record) /\ IsInjective(records)
  /\ updates \in 0..MaxUpdates
  /\ pc \in [Threads -> {"idle", "print", "add", "iterate", "next", "unhide", "show"}]
  /\ \A t \in Printing : cur[t] \in Record \ Range(records)
  /\ \A t \in Updating : new[t] \in Levels
  /\ \A t \in Updating : pc[t] \in {"unhide", "show"} => cur[t] \in Range(records)
  /\ next \in [Threads -> Nat] /\ size \in [Threads -> Nat]
  /\ printed \in [1..MaxRecords -> Nat]
  /\ excused \subseteq Record
  /\ doubled \in BOOLEAN

Init ==
  /\ level \in Levels
  /\ record = <<>>
  /\ records = <<>>
  /\ updates = 0
  /\ pc = [t \in Threads |-> "idle"]
  /\ cur = [t \in Threads |-> 0]
  /\ new = [t \in Threads |-> 0]
  /\ next = [t \in Threads |-> 0]
  /\ size = [t \in Threads |-> 0]
  /\ printed = [r \in 1..MaxRecords |-> 0]
  /\ excused = {}
  /\ doubled = FALSE

Goto(t, l) == pc' = [pc EXCEPT ![t] = l]
Done(t) == Goto(t, "idle") /\ cur' = [cur EXCEPT ![t] = 0]
DoneUpdating(t) ==
  /\ Done(t)
  /\ new' = [new EXCEPT ![t] = 0]
  /\ next' = [next EXCEPT ![t] = 0]
  /\ size' = [size EXCEPT ![t] = 0]

----
\* print(priority, ...)

\* if (priority < level) hidden = true else print it.  Ghost: an updateLevel in
\* progress may miss the record.
StartPrint(t, p) ==
  LET r == Len(record) + 1
  IN  /\ pc[t] = "idle"
      /\ Len(record) < MaxRecords
      /\ record' = Append(record, [priority |-> p, hidden |-> p < level])
      /\ cur' = [cur EXCEPT ![t] = r]
      /\ Goto(t, IF p < level THEN "add" ELSE "print")
      /\ excused' = excused \cup {x \in {r} : Updating # {}}
      /\ UNCHANGED <<level, records, updates, iterator, printed, doubled>>

\* impl.printLog(record), which may throw: then the record is not kept.
PrintLog(t) ==
  /\ pc[t] = "print"
  /\ \/ /\ printed' = [printed EXCEPT ![cur[t]] = @ + 1]
        /\ Goto(t, "add")
        /\ UNCHANGED cur
     \/ Done(t) /\ UNCHANGED printed
  /\ UNCHANGED <<level, record, records, updates, iterator, excused, doubled>>

\* Faulty variant: added once in each branch and once at the end.
AddTwice(t) ==
  /\ pc[t] = "add"
  /\ records' = Append(Append(records, cur[t]), cur[t])
  /\ Done(t)
  /\ UNCHANGED <<level, record, updates, iterator, printed, excused, doubled>>

\* records.add(record)
Add(t) ==
  /\ pc[t] = "add"
  /\ records' = Append(records, cur[t])
  /\ Done(t)
  /\ UNCHANGED <<level, record, updates, iterator, printed, excused, doubled>>

----
\* updateLevel(newLevel)

\* level = newLevel.  Ghosts: the records being printed have seen the old level;
\* another updateLevel may be running.
UpdateLevel(t, l) ==
  /\ pc[t] = "idle"
  /\ updates < MaxUpdates
  /\ updates' = updates + 1
  /\ level' = l
  /\ new' = [new EXCEPT ![t] = l]
  /\ Goto(t, "iterate")
  /\ excused' = excused \cup {cur[u] : u \in Printing}
  /\ doubled' = (doubled \/ Updating # {})
  /\ UNCHANGED <<record, records, cur, next, size, printed>>

\* records.asSequence()...forEach makes the iterator.
UpdateIterate(t) ==
  /\ pc[t] = "iterate"
  /\ next' = [next EXCEPT ![t] = 1]
  /\ size' = [size EXCEPT ![t] = Len(records)]
  /\ Goto(t, "next")
  /\ UNCHANGED <<level, record, records, updates, cur, new, printed, excused, doubled>>

\* Faulty variant: the records already printed are not left out.
WantsAll(t, r) == record[r].priority >= new[t]

\* filter { it.hidden && it.priority >= newLevel }
Wants(t, r) == record[r].hidden /\ record[r].priority >= new[t]

\* hasNext and next
UpdateNext(t) ==
  /\ pc[t] = "next"
  /\ next[t] # Len(records) + 1
  /\ Len(records) = size[t]
  /\ next' = [next EXCEPT ![t] = @ + 1]
  /\ LET r == records[next[t]]
     IN  IF Wants(t, r)
         THEN Goto(t, "unhide") /\ cur' = [cur EXCEPT ![t] = r]
         ELSE UNCHANGED <<pc, cur>>
  /\ UNCHANGED <<level, record, records, updates, new, size, printed, excused, doubled>>

UpdateEnd(t) ==
  /\ pc[t] = "next"
  /\ next[t] = Len(records) + 1
  /\ DoneUpdating(t)
  /\ UNCHANGED <<level, record, records, updates, printed, excused, doubled>>

Unvisited(t) == {records[i] : i \in next[t]..Len(records)}

\* A record was added since the iterator was made: next() throws
\* ConcurrentModificationException out of updateLevel.  Ghost: the records not
\* visited are passed over.
UpdateThrows(t) ==
  /\ pc[t] = "next"
  /\ next[t] # Len(records) + 1
  /\ Len(records) # size[t]
  /\ DoneUpdating(t)
  /\ excused' = excused \cup Unvisited(t)
  /\ UNCHANGED <<level, record, records, updates, printed, doubled>>

\* Faulty variant: the record stays hidden.
UpdateKeepHidden(t) ==
  /\ pc[t] = "unhide"
  /\ Goto(t, "show")
  /\ UNCHANGED <<level, record, records, updates, cur, iterator, printed, excused, doubled>>

\* it.hidden = false
UpdateUnhide(t) ==
  /\ pc[t] = "unhide"
  /\ record' = [record EXCEPT ![cur[t]].hidden = FALSE]
  /\ Goto(t, "show")
  /\ UNCHANGED <<level, records, updates, cur, iterator, printed, excused, doubled>>

\* impl.printLog(it); if it throws, updateLevel ends with the record marked as
\* printed.
UpdateShow(t) ==
  /\ pc[t] = "show"
  /\ \/ /\ printed' = [printed EXCEPT ![cur[t]] = @ + 1]
        /\ Goto(t, "next")
        /\ cur' = [cur EXCEPT ![t] = 0]
        /\ UNCHANGED <<iterator, excused>>
     \/ /\ DoneUpdating(t)
        /\ excused' = excused \cup Unvisited(t) \cup {cur[t]}
        /\ UNCHANGED printed
  /\ UNCHANGED <<level, record, records, updates, doubled>>

----
Next ==
  \E t \in Threads :
    \/ \E p \in Levels : StartPrint(t, p)
    \/ PrintLog(t)
    \/ Add(t)
    \/ \E l \in Levels : UpdateLevel(t, l)
    \/ UpdateIterate(t)
    \/ UpdateNext(t)
    \/ UpdateEnd(t)
    \/ UpdateThrows(t)
    \/ UpdateUnhide(t)
    \/ UpdateShow(t)

Spec == Init /\ [][Next]_vars

----
\* A message is printed at most once, whatever prints and updates overlap, as
\* long as no two updateLevel() calls do.  (XLog.kt 20-25, 50-54)
PrintedAtMostOnce == ~doubled => \A r \in Record : printed[r] <= 1

\* When no updateLevel() is running, a kept message that the level lets through
\* has been printed, and a hidden one has not.  Excepted are the messages whose
\* print() overlapped an updateLevel(), and those an updateLevel() that threw did
\* not reach.  (XLog.kt 18-26, 48-57)
LetThroughIsPrinted ==
  Updating = {} =>
    \A r \in Range(records) \ excused :
      /\ record[r].priority >= level => printed[r] >= 1
      /\ record[r].hidden <=> printed[r] = 0
====
