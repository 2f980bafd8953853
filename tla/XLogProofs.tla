---- MODULE XLogProofs ----
(***************************************************************************)
(* The log of XLog for any number of threads, levels, messages and         *)
(* updates: no message is printed twice, and one that the level lets       *)
(* through is printed.                                                     *)
(***************************************************************************)
EXTENDS XLog, SequenceTheorems, TLAPS

\* The locals of a thread are numbers, two messages under way are two records, and
\* an iterator is inside the list it was made over.
Locals == cur \in [Threads -> Nat] /\ new \in [Threads -> Nat]

OwnRecord == \A t, u \in Printing : cur[t] = cur[u] => t = u

Iterators ==
  \A t \in Updating : pc[t] # "iterate" =>
    1 <= next[t] /\ next[t] <= size[t] + 1 /\ size[t] <= Len(records)

TypeInv == TypeOK /\ Locals /\ OwnRecord /\ Iterators

USE LevelsAssumption, BoundsAssumption

\* A longer list has the elements of the shorter one, and the new one.
LEMMA RangeAppend ==
  ASSUME NEW S, NEW s \in Seq(S), NEW x \in S
  PROVE  /\ Append(s, x) \in Seq(S)
         /\ Len(Append(s, x)) = Len(s) + 1
         /\ \A i \in 1..Len(s) : Append(s, x)[i] = s[i]
         /\ Append(s, x)[Len(s) + 1] = x
         /\ Range(Append(s, x)) = Range(s) \cup {x}
<1>1. Len(s) \in Nat /\ DOMAIN s = 1..Len(s)
  BY LenProperties
<1>2. /\ Append(s, x) \in Seq(S) /\ Len(Append(s, x)) = Len(s) + 1
      /\ \A i \in 1..Len(s) : Append(s, x)[i] = s[i]
      /\ Append(s, x)[Len(s) + 1] = x
  BY AppendProperties
<1>3. DOMAIN Append(s, x) = 1..(Len(s) + 1)
  BY <1>2, LenProperties
<1>4. Range(s) \cup {x} \subseteq Range(Append(s, x))
  BY <1>1, <1>2, <1>3 DEF Range
<1>5. Range(Append(s, x)) \subseteq Range(s) \cup {x}
  BY <1>1, <1>2, <1>3 DEF Range
<1> QED
  BY <1>2, <1>4, <1>5

LEMMA InitTypeInv == Init => TypeInv
<1> SUFFICES ASSUME Init PROVE TypeInv
  OBVIOUS
<1>1. Updating = {} /\ Printing = {} /\ Range(records) = {}
  BY DEF Init, Updating, Printing, Range
<1>2. records \in Seq(Record) /\ IsInjective(records)
  BY DEF Init, IsInjective
<1>3. record \in Seq([priority : Levels, hidden : BOOLEAN])
  BY DEF Init
<1>4. level \in Levels /\ updates \in 0..MaxUpdates
  BY DEF Init
<1>9. doubled \in BOOLEAN
  BY DEF Init
<1>10. excused \subseteq Record
  BY DEF Init
<1>6. pc \in [Threads -> {"idle", "print", "add", "iterate", "next", "unhide", "show"}]
  BY DEF Init
<1>7. next \in [Threads -> Nat] /\ size \in [Threads -> Nat]
  BY DEF Init
<1>8. printed \in [1..MaxRecords -> Nat]
  BY DEF Init
<1>5. TypeOK
  <2>1. \A t \in Printing : cur[t] \in Record \ Range(records)
    BY <1>1
  <2>2. \A t \in Updating : new[t] \in Levels /\ cur[t] \in Range(records)
    BY <1>1
  <2> QED
    BY <1>2, <1>3, <1>4, <1>6, <1>7, <1>8, <1>9, <1>10, <2>1, <2>2 DEF TypeOK
<1> QED
  BY <1>1, <1>5 DEF Init, TypeInv, Locals, OwnRecord, Iterators

LEMMA StartPrintTyped ==
  ASSUME TypeInv, NEW t \in Threads, NEW p \in Levels, StartPrint(t, p)
  PROVE  TypeInv'
<1> USE DEF TypeInv, StartPrint, Goto, iterator
<1> DEFINE r == Len(record) + 1
<1>1. Len(record) \in Nat /\ Record' = Record \cup {r} /\ r \notin Record
  BY DEF TypeOK, Record
<1>2. /\ pc' = [pc EXCEPT ![t] = IF p < level THEN "add" ELSE "print"]
      /\ cur' = [cur EXCEPT ![t] = r]
  OBVIOUS
<1>3. Updating' = Updating /\ Printing' = Printing \cup {t}
  BY <1>2 DEF TypeOK, Updating, Printing
<1>4. Range(records) \subseteq Record
  BY DEF TypeOK, Range
<1>5. record' \in Seq([priority : Levels, hidden : BOOLEAN])
  BY DEF TypeOK
<1>6. records' \in Seq(Record')
  BY <1>1 DEF TypeOK
<1>7. \A u \in Printing' : cur'[u] \in Record' \ Range(records)'
  BY <1>1, <1>2, <1>3, <1>4 DEF TypeOK, Locals
<1>8. TypeOK'
  BY <1>1, <1>2, <1>3, <1>5, <1>6, <1>7 DEF TypeOK, Locals, Updating
<1>9. Locals' /\ OwnRecord'
  BY <1>1, <1>2, <1>3 DEF TypeOK, Locals, OwnRecord
<1>10. Iterators'
  BY <1>2, <1>3 DEF TypeOK, Iterators, Updating
<1> QED
  BY <1>8, <1>9, <1>10
LEMMA PrintLogTyped ==
  ASSUME TypeInv, NEW t \in Threads, PrintLog(t)
  PROVE  TypeInv'
<1> USE DEF TypeInv, PrintLog, Goto, Done, iterator
<1>1. Updating' = Updating /\ Printing' \in {Printing, Printing \ {t}}
  BY DEF TypeOK, Updating, Printing
<1>2. \A u \in Printing' : u \in Printing /\ cur'[u] = cur[u]
  BY <1>1 DEF TypeOK, Locals, Printing
<1>3. \A u \in Updating' : cur'[u] = cur[u] /\ pc'[u] = pc[u]
  BY <1>1 DEF TypeOK, Locals, Updating
<1>4. TypeOK'
  <2>1. cur[t] \in Record
    BY DEF TypeOK, Printing
  <2>2. printed' \in [1..MaxRecords -> Nat]
    BY <2>1 DEF TypeOK
  <2> QED
    BY <1>1, <1>2, <1>3, <2>2 DEF TypeOK, Record, Updating
<1>5. Locals'
  BY DEF Locals
<1>6. OwnRecord'
  BY <1>2 DEF OwnRecord
<1>7. Iterators'
  BY <1>1, <1>3 DEF Iterators
<1> QED
  BY <1>4, <1>5, <1>6, <1>7

LEMMA AddTyped ==
  ASSUME TypeInv, NEW t \in Threads, Add(t)
  PROVE  TypeInv'
<1> USE DEF TypeInv, Add, Goto, Done, iterator
<1> DEFINE r == cur[t]
<1>1. Updating' = Updating /\ Printing' = Printing \ {t} /\ t \in Printing
  BY DEF TypeOK, Updating, Printing
<1>2. r \in Record \ Range(records) /\ Record' = Record
  BY <1>1 DEF TypeOK, Record
<1>3. /\ records' \in Seq(Record) /\ Len(records') = Len(records) + 1
      /\ \A i \in 1..Len(records) : records'[i] = records[i]
      /\ records'[Len(records) + 1] = r
      /\ Range(records') = Range(records) \cup {r}
  BY <1>2, RangeAppend DEF TypeOK
<1>4. IsInjective(records')
  <2>1. /\ DOMAIN records' = 1..(Len(records) + 1) /\ DOMAIN records = 1..Len(records)
        /\ Len(records) \in Nat
    BY <1>3, LenProperties DEF TypeOK
  <2>2. \A i \in 1..Len(records) : records[i] \in Range(records)
    BY <2>1 DEF Range
  <2> QED
    BY <1>2, <1>3, <2>1, <2>2 DEF TypeOK, IsInjective
<1>5. \A u \in Printing' : u \in Printing /\ cur'[u] = cur[u] /\ cur'[u] # r
  BY <1>1 DEF Locals, OwnRecord
<1>6. \A u \in Updating' : cur'[u] = cur[u] /\ pc'[u] = pc[u]
  BY <1>1 DEF TypeOK, Locals, Updating
<1>7. TypeOK'
  BY <1>1, <1>2, <1>3, <1>4, <1>5, <1>6 DEF TypeOK
<1>8. Locals' /\ OwnRecord'
  BY <1>1, <1>5 DEF TypeOK, Locals, OwnRecord
<1>9. Iterators'
  <2>1. Len(records) \in Nat /\ \A u \in Updating : next[u] \in Nat /\ size[u] \in Nat
    BY LenProperties DEF TypeOK, Updating
  <2> QED
    BY <1>1, <1>3, <1>6, <2>1 DEF Iterators
<1> QED
  BY <1>7, <1>8, <1>9

LEMMA UpdateLevelTyped ==
  ASSUME TypeInv, NEW t \in Threads, NEW l \in Levels, UpdateLevel(t, l)
  PROVE  TypeInv'
<1> USE DEF TypeInv, UpdateLevel, Goto
<1>1. Updating' = Updating \cup {t} /\ Printing' = Printing
  BY DEF TypeOK, Updating, Printing
<1>2. \A u \in Updating' : u # t => pc'[u] = pc[u] /\ new'[u] = new[u] /\ u \in Updating
  BY <1>1 DEF Locals, TypeOK
<1>3. pc'[t] = "iterate" /\ new'[t] = l /\ t \notin Printing
  BY DEF TypeOK, Locals, Printing
<1>4. Record' = Record
  BY DEF Record
<1>5. /\ level' \in Levels /\ updates' \in 0..MaxUpdates /\ doubled' \in BOOLEAN
      /\ pc' \in [Threads -> {"idle", "print", "add", "iterate", "next", "unhide", "show"}]
      /\ excused' \subseteq Record
  BY DEF TypeOK
<1>6. TypeOK'
  BY <1>1, <1>2, <1>3, <1>4, <1>5 DEF TypeOK
<1>7. Locals'
  BY DEF Locals
<1>8. OwnRecord'
  BY <1>1 DEF OwnRecord
<1>9. Iterators'
  BY <1>1, <1>2, <1>3 DEF Iterators
<1> QED
  BY <1>6, <1>7, <1>8, <1>9

UpdateStep(t) ==
  \/ UpdateIterate(t) \/ UpdateNext(t) \/ UpdateEnd(t) \/ UpdateThrows(t)
  \/ UpdateUnhide(t) \/ UpdateShow(t)

\* What a step of updateLevel() leaves alone
LEMMA UpdateFrame ==
  ASSUME TypeInv, NEW t \in Threads, UpdateStep(t)
  PROVE  /\ t \in Updating /\ t \notin Printing
         /\ records' = records /\ level' = level /\ updates' = updates
         /\ doubled' = doubled /\ Record' = Record
         /\ \A u \in Threads \ {t} :
              /\ pc'[u] = pc[u] /\ cur'[u] = cur[u] /\ new'[u] = new[u]
              /\ next'[u] = next[u] /\ size'[u] = size[u]
         /\ Printing' = Printing /\ Updating' \in {Updating, Updating \ {t}}
<1> USE DEF TypeInv, UpdateStep, Goto, Done, DoneUpdating, iterator, UpdateIterate,
        UpdateNext, UpdateEnd, UpdateThrows, UpdateUnhide, UpdateShow
<1>1. t \in Updating /\ t \notin Printing
  BY DEF TypeOK, Updating, Printing
<1>2. /\ records' = records /\ level' = level /\ updates' = updates /\ doubled' = doubled
  OBVIOUS
<1>3. Record' = Record
  <2>1. Len(record') = Len(record)
    BY <1>1 DEF TypeOK, Updating
  <2> QED
    BY <2>1 DEF Record
<1>4. \A u \in Threads \ {t} :
        /\ pc'[u] = pc[u] /\ cur'[u] = cur[u] /\ new'[u] = new[u]
        /\ next'[u] = next[u] /\ size'[u] = size[u]
  BY DEF TypeOK, Locals
<1>5. Printing' = Printing /\ Updating' \in {Updating, Updating \ {t}}
  BY <1>1, <1>4 DEF TypeOK, Updating, Printing
<1> QED
  BY <1>1, <1>2, <1>3, <1>4, <1>5

\* The next index of the iterator is in the list.
LEMMA NextInList ==
  ASSUME TypeInv, NEW t \in Threads, UpdateNext(t)
  PROVE  /\ next[t] \in 1..Len(records) /\ DOMAIN records = 1..Len(records)
         /\ records[next[t]] \in Range(records)
         /\ records[next[t]] \in Record
<1>1. Len(records) \in Nat /\ DOMAIN records = 1..Len(records)
  BY LenProperties DEF TypeInv, TypeOK
<1>2. next[t] \in Nat /\ size[t] \in Nat
  BY DEF TypeInv, TypeOK
<1>3. next[t] \in 1..Len(records)
  BY <1>1, <1>2 DEF TypeInv, Iterators, Updating, UpdateNext
<1>4. records[next[t]] \in Record
  BY <1>3 DEF TypeInv, TypeOK
<1> QED
  BY <1>1, <1>3, <1>4 DEF Range

\* A step of updateLevel() stays inside the list.
LEMMA UpdateTyped ==
  ASSUME TypeInv, NEW t \in Threads, UpdateStep(t)
  PROVE  TypeInv'
<1> USE DEF TypeInv, Goto, Done, DoneUpdating, iterator
<1>1. /\ t \in Updating /\ t \notin Printing
      /\ records' = records /\ level' = level /\ updates' = updates
      /\ doubled' = doubled /\ Record' = Record
      /\ \A u \in Threads \ {t} :
           /\ pc'[u] = pc[u] /\ cur'[u] = cur[u] /\ new'[u] = new[u]
           /\ next'[u] = next[u] /\ size'[u] = size[u]
      /\ Printing' = Printing /\ Updating' \in {Updating, Updating \ {t}}
  BY UpdateFrame
<1>2. Range(records)' = Range(records)
  BY <1>1 DEF Range
<1>3. /\ pc' \in [Threads -> {"idle", "print", "add", "iterate", "next", "unhide", "show"}]
      /\ next' \in [Threads -> Nat] /\ size' \in [Threads -> Nat]
      /\ new' \in [Threads -> Nat]
      /\ t \in Updating' => new'[t] = new[t]
  <2>1. Len(records) \in Nat
    BY LenProperties DEF TypeOK
  <2>2. pc' \in [Threads -> {"idle", "print", "add", "iterate", "next", "unhide", "show"}]
    <3>1. \E l \in {"idle", "next", "unhide", "show"} : pc' = pc \/ Goto(t, l)
      BY DEF UpdateStep, UpdateIterate, UpdateNext, UpdateEnd, UpdateThrows,
         UpdateUnhide, UpdateShow
    <3> QED
      BY <3>1 DEF TypeOK
  <2>3. next' \in [Threads -> Nat] /\ size' \in [Threads -> Nat]
    <3>1. next[t] \in Nat /\ size[t] \in Nat
      BY DEF TypeOK
    <3>2. next' = next \/ \E i \in {0, 1, next[t] + 1} : next' = [next EXCEPT ![t] = i]
      BY <3>1 DEF UpdateStep, UpdateIterate, UpdateNext, UpdateEnd, UpdateThrows,
         UpdateUnhide, UpdateShow
    <3>3. size' = size \/ \E n \in {0, Len(records)} : size' = [size EXCEPT ![t] = n]
      BY <2>1 DEF UpdateStep, UpdateIterate, UpdateNext, UpdateEnd, UpdateThrows,
         UpdateUnhide, UpdateShow
    <3> QED
      <4>0. next \in [Threads -> Nat] /\ size \in [Threads -> Nat]
        BY DEF TypeOK
      <4>1. next' \in [Threads -> Nat]
        BY <3>1, <3>2, <4>0
      <4>2. size' \in [Threads -> Nat]
        BY <2>1, <3>3, <4>0
      <4> QED
        BY <4>1, <4>2
  <2>4. new' \in [Threads -> Nat] /\ (t \in Updating' => new'[t] = new[t])
    <3>1. new' = new \/ (new' = [new EXCEPT ![t] = 0] /\ pc' = [pc EXCEPT ![t] = "idle"])
      BY DEF UpdateStep, UpdateIterate, UpdateNext, UpdateEnd, UpdateThrows,
         UpdateUnhide, UpdateShow
    <3> QED
      BY <3>1 DEF TypeOK, Locals, Updating
  <2> QED
    BY <2>2, <2>3, <2>4
<1>4. /\ cur' \in [Threads -> Nat]
      /\ pc'[t] \in {"unhide", "show"} => cur'[t] \in Range(records)
  <2>1. CASE UpdateNext(t)
    <3>1. records[next[t]] \in Range(records) /\ records[next[t]] \in Nat
      BY <2>1, NextInList DEF Record, TypeOK
    <3> QED
      BY <2>1, <3>1 DEF TypeOK, Locals, UpdateNext
  <2>2. CASE UpdateUnhide(t)
    BY <2>2, <1>1 DEF TypeOK, Locals, UpdateUnhide
  <2>3. CASE ~UpdateNext(t) /\ ~UpdateUnhide(t)
    BY <2>3 DEF TypeOK, Locals, UpdateStep, UpdateIterate, UpdateEnd, UpdateThrows,
       UpdateShow
  <2> QED
    BY <2>1, <2>2, <2>3
<1>5. pc'[t] \notin {"idle", "iterate"} =>
        1 <= next'[t] /\ next'[t] <= size'[t] + 1 /\ size'[t] <= Len(records)
  <2>1. Len(records) \in Nat /\ next[t] \in Nat /\ size[t] \in Nat
    BY LenProperties DEF TypeOK
  <2>2. CASE UpdateNext(t)
    <3>1. next[t] \in 1..Len(records) /\ Len(records) = size[t]
      BY <2>2, NextInList DEF UpdateNext
    <3>2. next'[t] = next[t] + 1 /\ size'[t] = size[t]
      BY <2>2 DEF UpdateNext, TypeOK
    <3> QED
      BY <2>1, <3>1, <3>2
  <2>3. CASE ~UpdateNext(t)
    BY <2>1, <2>3 DEF TypeOK, Iterators, Updating, UpdateStep, UpdateIterate, UpdateEnd,
       UpdateThrows, UpdateUnhide, UpdateShow
  <2> QED
    BY <2>2, <2>3
<1>6. record' \in Seq([priority : Levels, hidden : BOOLEAN])
  <2> DEFINE R == [priority : Levels, hidden : BOOLEAN]
  <2>1. CASE UpdateUnhide(t)
    <3> DEFINE r == [record[cur[t]] EXCEPT !.hidden = FALSE]
    <3>1. cur[t] \in 1..Len(record) /\ record \in Seq(R)
      <4>1. cur[t] \in Range(records) /\ record \in Seq(R)
        BY <1>1, <2>1 DEF TypeOK, UpdateUnhide
      <4>2. Range(records) \subseteq Record
        BY DEF TypeOK, Range
      <4> QED
        BY <4>1, <4>2 DEF Record
    <3>2. r \in R
      <4>1. record[cur[t]] \in R
        BY <3>1, ElementOfSeq
      <4> QED
        BY <4>1
    <3>3. [record EXCEPT ![cur[t]] = r] \in Seq(R)
      BY <3>1, <3>2, ExceptSeq
    <3>4. record' = [record EXCEPT ![cur[t]] = r]
      BY <2>1, <3>1 DEF UpdateUnhide
    <3> QED
      BY <3>3, <3>4
  <2>2. CASE ~UpdateUnhide(t)
    BY <2>2 DEF TypeOK, UpdateStep, UpdateIterate, UpdateNext, UpdateEnd, UpdateThrows,
       UpdateShow
  <2> QED
    BY <2>1, <2>2
<1>7. printed' \in [1..MaxRecords -> Nat]
  <2>1. \/ printed' = printed
        \/ printed' = [printed EXCEPT ![cur[t]] = printed[cur[t]] + 1]
    BY DEF UpdateStep, UpdateIterate, UpdateNext, UpdateEnd, UpdateThrows,
       UpdateUnhide, UpdateShow
  <2>2. printed \in [1..MaxRecords -> Nat]
    BY DEF TypeOK
  <2>3. \A r \in 1..MaxRecords : printed[r] + 1 \in Nat
    BY <2>2
  <2> HIDE DEF TypeInv, Goto, Done, DoneUpdating, iterator
  <2>4. ASSUME NEW r, printed' = [printed EXCEPT ![r] = printed[r] + 1]
        PROVE  printed' \in [1..MaxRecords -> Nat]
    BY <2>2, <2>3, <2>4
  <2> QED
    BY <2>1, <2>2, <2>4
<1>8. excused' \subseteq Record
  <2>1. excused \subseteq Record /\ Range(records) \subseteq Record
    BY DEF TypeOK, Range
  <2>2. pc[t] # "iterate" => Unvisited(t) \subseteq Range(records)
    <3>1. Len(records) \in Nat /\ DOMAIN records = 1..Len(records) /\ next[t] \in Nat
      BY LenProperties DEF TypeOK
    <3> QED
      BY <1>1, <3>1 DEF Iterators, Unvisited, Range
  <2>3. pc[t] = "show" => cur[t] \in Range(records)
    BY <1>1 DEF TypeOK
  <2> QED
    BY <2>1, <2>2, <2>3 DEF UpdateStep, UpdateIterate, UpdateNext, UpdateEnd, UpdateThrows,
     UpdateUnhide, UpdateShow
<1>9. TypeOK'
  <2>1. \A u \in Printing' : cur'[u] \in Record \ Range(records)
    BY <1>1 DEF TypeOK, Printing
  <2>2. \A u \in Updating' : new'[u] \in Levels
    BY <1>1, <1>3 DEF TypeOK, Updating
  <2>3. \A u \in Updating' : pc'[u] \in {"unhide", "show"} => cur'[u] \in Range(records)
    BY <1>1, <1>4 DEF TypeOK, Updating
  <2> QED
    BY <1>1, <1>2, <1>3, <1>6, <1>7, <1>8, <2>1, <2>2, <2>3 DEF TypeOK
<1>10. Locals'
  BY <1>3, <1>4 DEF Locals
<1>11. OwnRecord'
  BY <1>1 DEF OwnRecord, Printing
<1>12. Iterators'
  BY <1>1, <1>5 DEF Iterators, Updating
<1> QED
  BY <1>9, <1>10, <1>11, <1>12

LEMMA NextTypeInv == TypeInv /\ [Next]_vars => TypeInv'
<1> SUFFICES ASSUME TypeInv, [Next]_vars PROVE TypeInv'
  OBVIOUS
<1>1. CASE UNCHANGED vars
  BY <1>1 DEF vars, TypeInv, TypeOK, Locals, OwnRecord, Iterators, Record, Updating, Printing
<1>2. CASE Next
  BY <1>2, StartPrintTyped, PrintLogTyped, AddTyped, UpdateLevelTyped, UpdateTyped
     DEF Next, UpdateStep
<1> QED
  BY <1>1, <1>2

\* The state of the log is what its declarations say, and next() of an iterator stays
\* inside the list.  (XLog.kt 14-57)
THEOREM TypeCorrect == Spec => []TypeOK
<1>1. TypeInv => TypeOK
  BY DEF TypeInv
<1> QED
  BY <1>1, InitTypeInv, NextTypeInv, PTL DEF Spec

----
\* Printing a record takes it out of the hidden ones first, and while no two
\* updateLevel() calls overlap nobody else is about to print it.
Unprinted ==
  /\ Record \subseteq 1..MaxRecords
  /\ \A r \in (1..MaxRecords) \ Record : printed[r] = 0
  /\ \A r \in Record : record[r].hidden => printed[r] = 0
  /\ \A t \in Threads : pc[t] \in {"print", "show"} => ~record[cur[t]].hidden

OneUpdate == ~doubled => \A t, u \in Updating : t = u

PrintedOnce ==
  ~doubled =>
    /\ \A r \in Record : printed[r] <= 1
    /\ \A t \in Threads : pc[t] \in {"print", "unhide", "show"} => printed[cur[t]] = 0

OnceInv == TypeInv /\ Unprinted /\ OneUpdate /\ PrintedOnce

\* The declarations, as the proofs below use them
Label == {"idle", "print", "add", "iterate", "next", "unhide", "show"}

LEMMA Types ==
  ASSUME TypeInv
  PROVE  /\ pc \in [Threads -> Label] /\ cur \in [Threads -> Nat]
         /\ new \in [Threads -> Nat] /\ next \in [Threads -> Nat]
         /\ size \in [Threads -> Nat] /\ printed \in [1..MaxRecords -> Nat]
         /\ level \in Nat
         /\ Len(record) \in Nat /\ DOMAIN record = 1..Len(record)
         /\ \A r \in Record : record[r] \in [priority : Nat, hidden : BOOLEAN]
         /\ Len(records) \in Nat /\ DOMAIN records = 1..Len(records)
         /\ \A i \in 1..Len(records) : records[i] \in Range(records)
         /\ Range(records) \subseteq Record
<1>1. /\ pc \in [Threads -> Label] /\ cur \in [Threads -> Nat]
      /\ new \in [Threads -> Nat] /\ next \in [Threads -> Nat]
      /\ size \in [Threads -> Nat] /\ printed \in [1..MaxRecords -> Nat]
      /\ level \in Nat
  BY DEF TypeInv, TypeOK, Locals, Label
<1>2. record \in Seq([priority : Levels, hidden : BOOLEAN]) /\ records \in Seq(Record)
  BY DEF TypeInv, TypeOK
<1>3. /\ Len(record) \in Nat /\ DOMAIN record = 1..Len(record)
      /\ Len(records) \in Nat /\ DOMAIN records = 1..Len(records)
  BY <1>2, LenProperties
<1>4. \A r \in Record : record[r] \in [priority : Levels, hidden : BOOLEAN]
  BY <1>2, ElementOfSeq DEF Record
<1>5. Range(records) \subseteq Record
  BY <1>2, <1>3 DEF Range
<1>6. \A i \in 1..Len(records) : records[i] \in Range(records)
  BY <1>3 DEF Range
<1> QED
  BY <1>1, <1>3, <1>4, <1>5, <1>6

\* A new record, and the old ones
LEMMA NewRecord ==
  ASSUME TypeInv, NEW t \in Threads, NEW p \in Levels, StartPrint(t, p)
  PROVE  /\ Len(record') = Len(record) + 1 /\ Record' = Record \cup {Len(record) + 1}
         /\ Len(record) + 1 \in 1..MaxRecords /\ Len(record) + 1 \notin Record
         /\ record'[Len(record) + 1] = [priority |-> p, hidden |-> p < level]
         /\ \A x \in Record : record'[x] = record[x]
<1> DEFINE R == [priority : Levels, hidden : BOOLEAN]
           x == [priority |-> p, hidden |-> p < level]
<1>1. record \in Seq(R) /\ Len(record) \in Nat
  BY Types DEF TypeInv, TypeOK
<1>2. record' = Append(record, x) /\ Len(record) < MaxRecords
  BY DEF StartPrint
<1>3. x \in R
  OBVIOUS
<1>4. /\ Len(record') = Len(record) + 1 /\ record'[Len(record) + 1] = x
      /\ \A i \in 1..Len(record) : record'[i] = record[i]
  <2> HIDE DEF R, x
  <2> QED
    BY <1>1, <1>2, <1>3, RangeAppend
<1> QED
  BY <1>1, <1>2, <1>4 DEF Record

\* it.hidden = false changes nothing else.
LEMMA Unhidden ==
  ASSUME TypeInv, NEW t \in Threads, UpdateUnhide(t)
  PROVE  /\ cur[t] \in Record
         /\ \A x \in Record : record'[x].priority = record[x].priority
         /\ \A x \in Record \ {cur[t]} : record'[x] = record[x]
         /\ record'[cur[t]].hidden = FALSE
<1>1. cur[t] \in Record /\ DOMAIN record = Record
  BY Types DEF TypeInv, TypeOK, UpdateUnhide, Record, Updating
<1>2. \A x \in Record : record[x] \in [priority : Nat, hidden : BOOLEAN]
  BY Types
<1> QED
  BY <1>1, <1>2 DEF UpdateUnhide

LEMMA InitOnce == Init => OnceInv
BY InitTypeInv DEF Init, OnceInv, Unprinted, OneUpdate, PrintedOnce, Updating, Record

\* Where the record of a thread is
LEMMA CurPlace ==
  ASSUME TypeInv
  PROVE  /\ \A t \in Threads : pc[t] \in {"print", "add"} => cur[t] \in Record \ Range(records)
         /\ \A t \in Threads : pc[t] \in {"unhide", "show"} =>
              cur[t] \in Range(records) /\ cur[t] \in Record
         /\ \A t, u \in Threads :
              pc[t] \in {"print", "add"} /\ pc[u] \in {"print", "add"} /\ cur[t] = cur[u] => t = u
         /\ Range(records) \subseteq Record
         /\ Record \subseteq Nat
<1>1. Range(records) \subseteq Record
  BY DEF TypeInv, TypeOK, Range
<1> QED
  BY <1>1 DEF TypeInv, TypeOK, OwnRecord, Printing, Updating, Record

LEMMA StartPrintOnce ==
  ASSUME OnceInv, TypeInv', NEW t \in Threads, NEW p \in Levels, StartPrint(t, p)
  PROVE  OnceInv'
<1> DEFINE r == Len(record) + 1
           x == [priority |-> p, hidden |-> p < level]
<1> USE DEF OnceInv
<1>1. /\ Len(record) \in Nat /\ r \in 1..MaxRecords
      /\ Record' = Record \cup {r} /\ r \notin Record
      /\ record'[r] = x /\ \A y \in Record : record'[y] = record[y]
  BY Types, NewRecord
<1>2. /\ pc' = [pc EXCEPT ![t] = IF p < level THEN "add" ELSE "print"]
      /\ cur' = [cur EXCEPT ![t] = r] /\ printed' = printed /\ doubled' = doubled
      /\ pc[t] = "idle" /\ pc \in [Threads -> Label] /\ cur \in [Threads -> Nat]
  BY Types DEF StartPrint, Goto
<1>3. Updating' = Updating
  BY <1>2 DEF Updating
<1>4. \A u \in Threads : u # t /\ pc'[u] \in {"print", "unhide", "show"} =>
        pc[u] = pc'[u] /\ cur'[u] = cur[u] /\ cur[u] \in Record
  BY <1>2, CurPlace
<1>5. Unprinted'
  <2>1. Record' \subseteq 1..MaxRecords
    BY <1>1 DEF Unprinted
  <2>2. \A y \in (1..MaxRecords) \ Record' : printed'[y] = 0
    BY <1>1, <1>2 DEF Unprinted
  <2>3. \A y \in Record' : record'[y].hidden => printed'[y] = 0
    BY <1>1, <1>2 DEF Unprinted
  <2>4. ASSUME NEW u \in Threads, pc'[u] \in {"print", "show"}
        PROVE  ~record'[cur'[u]].hidden
    <3>1. CASE u = t
      <4>1. pc'[u] = "print" /\ ~(p < level) /\ cur'[u] = r
        BY <1>2, <2>4, <3>1
      <4>2. ~x.hidden
        BY <4>1
      <4> QED
        BY <1>1, <4>1, <4>2
    <3>2. CASE u # t
      <4>1. pc[u] \in {"print", "show"} /\ cur'[u] = cur[u] /\ cur[u] \in Record
        BY <1>4, <2>4, <3>2
      <4>2. record'[cur[u]] = record[cur[u]]
        BY <1>1, <4>1
      <4>3. ~record[cur[u]].hidden
        BY <4>1 DEF Unprinted
      <4> QED
        BY <4>1, <4>2, <4>3
    <3> QED
      BY <3>1, <3>2
  <2> QED
    BY <2>1, <2>2, <2>3, <2>4 DEF Unprinted
<1>6. OneUpdate'
  BY <1>2, <1>3 DEF OneUpdate
<1>7. printed[r] = 0
  BY <1>1 DEF Unprinted
<1>8. cur'[t] = r
  BY <1>2
<1>9. PrintedOnce'
  <2>1. ASSUME ~doubled PROVE \A y \in Record' : printed'[y] <= 1
    BY <1>1, <1>2, <1>7, <2>1 DEF PrintedOnce
  <2>2. ASSUME ~doubled, NEW u \in Threads, pc'[u] \in {"print", "unhide", "show"}
        PROVE  printed'[cur'[u]] = 0
    BY <1>2, <1>4, <1>7, <1>8, <2>2 DEF PrintedOnce
  <2> QED
    BY <1>2, <2>1, <2>2 DEF PrintedOnce
<1> QED
  BY <1>5, <1>6, <1>9

LEMMA PrintLogOnce ==
  ASSUME OnceInv, TypeInv', NEW t \in Threads, PrintLog(t)
  PROVE  OnceInv'
<1> USE DEF OnceInv
<1>1. /\ record' = record /\ Record' = Record /\ doubled' = doubled
      /\ pc[t] = "print" /\ cur[t] \in Record \ Range(records)
      /\ \/ printed' = [printed EXCEPT ![cur[t]] = @ + 1]
         \/ printed' = printed
      /\ pc' = [pc EXCEPT ![t] = "add"] \/ pc' = [pc EXCEPT ![t] = "idle"]
      /\ \A u \in Threads : u # t => cur'[u] = cur[u]
      /\ pc \in [Threads -> Label] /\ printed \in [1..MaxRecords -> Nat]
  BY Types, CurPlace DEF PrintLog, Goto, Done, Record
<1>2. Updating' = Updating
  BY <1>1 DEF Updating
<1>3. \A u \in Threads : pc'[u] \in {"print", "unhide", "show"} =>
        pc[u] = pc'[u] /\ cur'[u] = cur[u] /\ cur[u] \in Record /\ cur[u] # cur[t]
  BY <1>1, CurPlace
<1>4. \A x \in 1..MaxRecords :
        printed'[x] \in {printed[x], printed[x] + 1} /\ (x # cur[t] => printed'[x] = printed[x])
  BY <1>1
<1>5. Record \subseteq 1..MaxRecords
  BY DEF Unprinted
<1>6. Unprinted'
  BY <1>1, <1>3, <1>4, <1>5 DEF Unprinted
<1>7. OneUpdate'
  BY <1>1, <1>2 DEF OneUpdate
<1>8. PrintedOnce'
  <2>1. ASSUME ~doubled PROVE \A x \in Record : printed'[x] <= 1
    <3>1. printed[cur[t]] = 0
      BY <1>1, <2>1 DEF PrintedOnce
    <3>2. \A x \in Record : printed[x] <= 1
      BY <2>1 DEF PrintedOnce
    <3>3. cur[t] \in 1..MaxRecords
      BY <1>1, <1>5
    <3>4. printed'[cur[t]] \in {0, 1}
      BY <1>4, <3>1, <3>3
    <3>5. \A x \in Record : x # cur[t] => printed'[x] = printed[x]
      BY <1>4, <1>5
    <3> QED
      BY <3>2, <3>4, <3>5
  <2>2. ASSUME ~doubled, NEW u \in Threads, pc'[u] \in {"print", "unhide", "show"}
        PROVE  printed'[cur'[u]] = 0
    BY <1>3, <1>4, <1>5, <2>2 DEF PrintedOnce
  <2> QED
    BY <1>1, <2>1, <2>2 DEF PrintedOnce
<1> QED
  BY <1>6, <1>7, <1>8

LEMMA AddOnce ==
  ASSUME OnceInv, TypeInv', NEW t \in Threads, Add(t)
  PROVE  OnceInv'
<1> USE DEF OnceInv
<1>1. /\ record' = record /\ Record' = Record /\ doubled' = doubled /\ printed' = printed
      /\ pc[t] = "add" /\ pc' = [pc EXCEPT ![t] = "idle"]
      /\ \A u \in Threads : u # t => cur'[u] = cur[u]
      /\ pc \in [Threads -> Label]
  BY Types DEF Add, Goto, Done, Record
<1>2. Updating' = Updating
  BY <1>1 DEF Updating
<1>3. Unprinted'
  BY <1>1 DEF Unprinted
<1>4. OneUpdate'
  BY <1>1, <1>2 DEF OneUpdate
<1>5. PrintedOnce'
  BY <1>1 DEF PrintedOnce
<1> QED
  BY <1>3, <1>4, <1>5

LEMMA UpdateLevelOnce ==
  ASSUME OnceInv, TypeInv', NEW t \in Threads, NEW l \in Levels, UpdateLevel(t, l)
  PROVE  OnceInv'
<1> USE DEF OnceInv
<1>1. /\ record' = record /\ Record' = Record /\ cur' = cur /\ printed' = printed
      /\ doubled' = (doubled \/ Updating # {})
      /\ pc[t] = "idle" /\ pc' = [pc EXCEPT ![t] = "iterate"]
      /\ pc \in [Threads -> Label]
  BY Types DEF UpdateLevel, Goto, Done, Record
<1>2. Updating' = Updating \cup {t}
  BY <1>1 DEF Updating
<1>3. Unprinted'
  BY <1>1 DEF Unprinted
<1>4. OneUpdate'
  BY <1>1, <1>2 DEF OneUpdate
<1>5. PrintedOnce'
  BY <1>1 DEF PrintedOnce
<1> QED
  BY <1>3, <1>4, <1>5

LEMMA UpdateOnce ==
  ASSUME OnceInv, TypeInv', NEW t \in Threads, UpdateStep(t)
  PROVE  OnceInv'
<1> USE DEF OnceInv
<1>1. /\ t \in Updating /\ doubled' = doubled /\ Record' = Record
      /\ \A u \in Threads \ {t} : pc'[u] = pc[u] /\ cur'[u] = cur[u]
      /\ Updating' \in {Updating, Updating \ {t}}
  BY UpdateFrame
<1>2. pc \in [Threads -> Label] /\ cur \in [Threads -> Nat] /\ printed \in [1..MaxRecords -> Nat]
  BY Types
<1>3. OneUpdate'
  BY <1>1 DEF OneUpdate
<1>4. CASE UpdateIterate(t) \/ UpdateEnd(t) \/ UpdateThrows(t)
  <2>1. record' = record /\ printed' = printed /\ pc'[t] \in {"idle", "next"}
    BY <1>2, <1>4 DEF UpdateIterate, UpdateEnd, UpdateThrows, DoneUpdating, Done, Goto
  <2>2. Unprinted'
    BY <1>1, <2>1 DEF Unprinted
  <2>3. PrintedOnce'
    BY <1>1, <2>1 DEF PrintedOnce
  <2> QED
    BY <1>3, <2>2, <2>3
<1>5. CASE UpdateNext(t)
  <2> DEFINE r == records[next[t]]
  <2>1. record' = record /\ printed' = printed /\ r \in Record
    BY <1>5, NextInList DEF UpdateNext
  <2>2. \/ pc'[t] = "unhide" /\ cur'[t] = r /\ record[r].hidden
        \/ pc'[t] = "next"
    BY <1>2, <1>5 DEF UpdateNext, Wants, Goto
  <2>3. Unprinted'
    BY <1>1, <2>1, <2>2 DEF Unprinted
  <2>4. PrintedOnce'
    BY <1>1, <2>1, <2>2 DEF PrintedOnce, Unprinted
  <2> QED
    BY <1>3, <2>3, <2>4
<1>6. CASE UpdateUnhide(t)
  <2>1. printed' = printed /\ cur' = cur /\ pc[t] = "unhide" /\ pc'[t] = "show"
    BY <1>2, <1>6 DEF UpdateUnhide, Goto
  <2>2. cur[t] \in Record
    BY <2>1, CurPlace
  <2>3. /\ \A x \in Record : record'[x].hidden => record[x].hidden
        /\ ~record'[cur[t]].hidden
    BY <1>6, Unhidden
  <2>4. \A u \in Threads : pc'[u] \in {"print", "show"} => cur[u] \in Record
    BY <1>1, <2>1, <2>2, CurPlace
  <2>5. Unprinted'
    BY <1>1, <2>1, <2>2, <2>3, <2>4 DEF Unprinted
  <2>6. PrintedOnce'
    BY <1>1, <2>1 DEF PrintedOnce
  <2> QED
    BY <1>3, <2>5, <2>6
<1>7. CASE UpdateShow(t)
  <2>1. /\ record' = record /\ pc[t] = "show" /\ pc'[t] \in {"idle", "next"}
        /\ printed' \in {printed, [printed EXCEPT ![cur[t]] = @ + 1]}
    BY <1>2, <1>7 DEF UpdateShow, DoneUpdating, Done, Goto
  <2>2. cur[t] \in Record /\ cur[t] \in Range(records)
    BY <2>1, CurPlace
  <2>3. \A u \in Threads : pc'[u] \in {"print", "unhide", "show"} =>
          /\ u # t /\ pc[u] = pc'[u] /\ cur'[u] = cur[u] /\ cur[u] \in Record
          /\ cur[u] = cur[t] => u \in Updating
    BY <1>1, <2>1, <2>2, CurPlace DEF Updating
  <2>4. Record \subseteq 1..MaxRecords
    BY DEF Unprinted
  <2>5. Unprinted'
    BY <1>1, <1>2, <2>1, <2>2, <2>3, <2>4 DEF Unprinted
  <2>6. PrintedOnce'
    <3>0. \A x \in Record : x # cur[t] => printed'[x] = printed[x]
      BY <1>2, <2>1, <2>2, <2>4
    <3>1. ASSUME ~doubled PROVE \A x \in Record : printed'[x] <= 1
      <4>1. printed[cur[t]] = 0
        BY <1>1, <2>1, <3>1 DEF PrintedOnce, Updating
      <4>2. printed'[cur[t]] \in {0, 1}
        BY <1>2, <2>1, <2>2, <2>4, <4>1
      <4> QED
        BY <3>0, <3>1, <4>2 DEF PrintedOnce
    <3>2. ASSUME ~doubled, NEW u \in Threads, pc'[u] \in {"print", "unhide", "show"}
          PROVE  printed'[cur'[u]] = 0
      <4>1. cur[u] # cur[t]
        BY <1>1, <2>3, <3>2 DEF OneUpdate
      <4> QED
        BY <2>3, <3>0, <3>2, <4>1 DEF PrintedOnce
    <3> QED
      BY <1>1, <3>1, <3>2 DEF PrintedOnce
  <2> QED
    BY <1>3, <2>5, <2>6
<1> QED
  BY <1>4, <1>5, <1>6, <1>7 DEF UpdateStep
LEMMA NextOnce == OnceInv /\ [Next]_vars => OnceInv'
<1> SUFFICES ASSUME OnceInv, [Next]_vars PROVE OnceInv'
  OBVIOUS
<1>1. TypeInv'
  BY NextTypeInv DEF OnceInv
<1>2. CASE UNCHANGED vars
  BY <1>1, <1>2 DEF vars, OnceInv, Unprinted, OneUpdate, PrintedOnce, Record, Updating
<1>3. CASE Next
  BY <1>1, <1>3, StartPrintOnce, PrintLogOnce, AddOnce, UpdateLevelOnce, UpdateOnce
     DEF Next, UpdateStep
<1> QED
  BY <1>2, <1>3

\* A message is printed at most once while no two updateLevel() calls overlap.
\* (XLog.kt 20-25, 50-54)
THEOREM PrintsOnce == Spec => []PrintedAtMostOnce
<1>1. OnceInv => PrintedAtMostOnce
  BY DEF OnceInv, PrintedOnce, PrintedAtMostOnce
<1> QED
  BY <1>1, InitOnce, NextOnce, PTL DEF Spec

----
\* A record the level lets through is hidden only while the updateLevel() that set
\* the level has it ahead; one that is not hidden is printed or about to be.  No
\* level changes between the test in print() and records.add(record).
WillVisit(t, r) ==
  \/ pc[t] = "iterate"
  \/ pc[t] # "iterate" /\ r \in Unvisited(t)
  \/ pc[t] = "unhide" /\ cur[t] = r

Wanted(r) == record[r].hidden /\ record[r].priority >= level
Awaited(r) == \E t \in Updating : new[t] = level /\ WillVisit(t, r)
Shown(r) == printed[r] >= 1 \/ \E t \in Threads : pc[t] = "show" /\ cur[t] = r

Kept ==
  \A r \in Range(records) \ excused :
    /\ Wanted(r) => Awaited(r)
    /\ ~record[r].hidden => Shown(r)

InPrint ==
  \A t \in Printing : cur[t] \notin excused =>
    /\ Updating = {}
    /\ ~Wanted(cur[t])
    /\ pc[t] = "add" /\ ~record[cur[t]].hidden => printed[cur[t]] >= 1

KeptInv == OnceInv /\ Kept /\ InPrint

LEMMA InitKept == Init => KeptInv
BY InitOnce DEF Init, KeptInv, Kept, InPrint, Printing, Range

LEMMA StartPrintKept ==
  ASSUME KeptInv, NEW t \in Threads, NEW p \in Levels, StartPrint(t, p)
  PROVE  Kept' /\ InPrint'
<1> DEFINE r == Len(record) + 1
<1>1. TypeInv /\ Unprinted
  BY DEF KeptInv, OnceInv
<1>2. /\ record'[r] = [priority |-> p, hidden |-> p < level] /\ r \notin Record
      /\ \A x \in Record : record'[x] = record[x]
  BY <1>1, NewRecord
<1>3. /\ pc' = [pc EXCEPT ![t] = IF p < level THEN "add" ELSE "print"]
      /\ cur' = [cur EXCEPT ![t] = r] /\ pc[t] = "idle"
      /\ pc \in [Threads -> Label] /\ cur \in [Threads -> Nat]
      /\ printed' = printed /\ records' = records /\ level' = level
      /\ new' = new /\ next' = next /\ size' = size
  BY <1>1, Types DEF StartPrint, Goto, iterator
<1>4. excused' = excused \cup {x \in {r} : Updating # {}}
  BY DEF StartPrint
<1>5. Updating' = Updating /\ Printing' = Printing \cup {t}
  BY <1>3 DEF Updating, Printing
<1>6. \A u \in Threads \ {t} : pc'[u] = pc[u] /\ cur'[u] = cur[u]
  BY <1>3
<1>7. Kept'
  <2> SUFFICES ASSUME NEW x \in Range(records), x \notin excused
               PROVE  (Wanted(x)' => Awaited(x)') /\ (~record'[x].hidden => Shown(x)')
    BY <1>3, <1>4 DEF Kept
  <2>1. record'[x] = record[x]
    BY <1>1, <1>2, Types
  <2>2. Wanted(x)' = Wanted(x)
    BY <1>3, <2>1 DEF Wanted
  <2>3. Awaited(x) => Awaited(x)'
    <3>1. \A u \in Updating : u # t /\ (WillVisit(u, x) => WillVisit(u, x)')
      BY <1>3, <1>6 DEF WillVisit, Unvisited, Updating
    <3> QED
      BY <1>3, <1>5, <3>1 DEF Awaited
  <2>4. Shown(x) => Shown(x)'
    <3>1. \A u \in Threads : pc[u] = "show" => pc'[u] = pc[u] /\ cur'[u] = cur[u]
      BY <1>3, <1>6
    <3> QED
      BY <1>3, <3>1 DEF Shown
  <2>5. (Wanted(x) => Awaited(x)) /\ (~record[x].hidden => Shown(x))
    BY DEF KeptInv, Kept
  <2> QED
    BY <2>1, <2>2, <2>3, <2>4, <2>5
<1>8. InPrint'
  <2> SUFFICES ASSUME NEW u \in Printing', cur'[u] \notin excused'
               PROVE  /\ Updating' = {} /\ ~Wanted(cur[u])'
                      /\ pc'[u] = "add" /\ ~record'[cur'[u]].hidden => printed'[cur'[u]] >= 1
    BY DEF InPrint
  <2>1. CASE u = t
    <3>1. cur'[u] = r /\ Updating = {}
      BY <1>3, <1>4, <2>1
    <3>2. record'[r].priority = p /\ record'[r].hidden = (p < level)
      BY <1>2
    <3>3. pc'[u] = "add" <=> p < level
      BY <1>3, <2>1
    <3>4. p \in Nat /\ level \in Nat
      BY <1>1, Types
    <3>5. record'[r].hidden => ~(record'[r].priority >= level)
      <4>1. p < level => ~(p >= level)
        BY <3>4
      <4> QED
        BY <3>2, <4>1
    <3>6. Wanted(cur[u])' = (record'[r].hidden /\ record'[r].priority >= level)
      BY <1>3, <3>1 DEF Wanted
    <3>7. ~Wanted(cur[u])'
      BY <3>5, <3>6
    <3> QED
      BY <1>5, <3>1, <3>2, <3>3, <3>7
  <2>2. CASE u # t
    <3>1. u \in Printing /\ u \in Threads /\ pc'[u] = pc[u] /\ cur'[u] = cur[u]
      BY <1>5, <1>6, <2>2 DEF Printing
    <3>2. cur[u] \in Record /\ record'[cur[u]] = record[cur[u]]
      BY <1>1, <1>2, <3>1, CurPlace DEF Printing
    <3>3. cur[u] \notin excused
      BY <1>4, <3>1
    <3>4. /\ Updating = {} /\ ~Wanted(cur[u])
          /\ pc[u] = "add" /\ ~record[cur[u]].hidden => printed[cur[u]] >= 1
      BY <3>1, <3>3 DEF KeptInv, InPrint
    <3>5. ~Wanted(cur[u])'
      BY <1>3, <3>1, <3>2, <3>4 DEF Wanted
    <3> QED
      BY <1>3, <1>5, <3>1, <3>2, <3>4, <3>5
  <2> QED
    BY <2>1, <2>2
<1> QED
  BY <1>7, <1>8

LEMMA PrintLogKept ==
  ASSUME KeptInv, NEW t \in Threads, PrintLog(t)
  PROVE  Kept' /\ InPrint'
<1>1. TypeInv /\ Unprinted
  BY DEF KeptInv, OnceInv
<1>2. /\ pc[t] = "print" /\ cur[t] \in Record \ Range(records)
      /\ pc \in [Threads -> Label] /\ cur \in [Threads -> Nat]
      /\ printed \in [1..MaxRecords -> Nat] /\ cur[t] \in 1..MaxRecords
  BY <1>1, Types, CurPlace DEF PrintLog, Unprinted
<1>3. /\ record' = record /\ records' = records /\ level' = level /\ excused' = excused
      /\ new' = new /\ next' = next /\ size' = size
  BY DEF PrintLog, iterator
<1>4. \/ /\ printed' = [printed EXCEPT ![cur[t]] = @ + 1]
         /\ pc' = [pc EXCEPT ![t] = "add"] /\ cur' = cur
      \/ /\ printed' = printed
         /\ pc' = [pc EXCEPT ![t] = "idle"] /\ cur' = [cur EXCEPT ![t] = 0]
  BY DEF PrintLog, Goto, Done
<1>5. Updating' = Updating /\ Printing' \subseteq Printing
  BY <1>2, <1>4 DEF Updating, Printing
<1>6. \A u \in Threads \ {t} : pc'[u] = pc[u] /\ cur'[u] = cur[u]
  BY <1>2, <1>4
<1>7. \A x \in 1..MaxRecords : x # cur[t] => printed'[x] = printed[x]
  BY <1>2, <1>4
<1>8. Kept'
  <2> SUFFICES ASSUME NEW x \in Range(records), x \notin excused
               PROVE  (Wanted(x)' => Awaited(x)') /\ (~record[x].hidden => Shown(x)')
    BY <1>3 DEF Kept
  <2>1. Wanted(x)' = Wanted(x)
    BY <1>3 DEF Wanted
  <2>2. Awaited(x) => Awaited(x)'
    <3>1. \A u \in Updating : u # t /\ (WillVisit(u, x) => WillVisit(u, x)')
      BY <1>2, <1>3, <1>6 DEF WillVisit, Unvisited, Updating
    <3> QED
      BY <1>3, <1>5, <3>1 DEF Awaited
  <2>3. Shown(x) => Shown(x)'
    <3>1. \A u \in Threads : pc[u] = "show" => pc'[u] = pc[u] /\ cur'[u] = cur[u]
      BY <1>2, <1>6
    <3>2. printed'[x] = printed[x]
      <4>1. x \in 1..MaxRecords /\ x # cur[t]
        BY <1>1, <1>2, Types DEF Unprinted
      <4> QED
        BY <1>7, <4>1
    <3> QED
      BY <3>1, <3>2 DEF Shown
  <2>4. (Wanted(x) => Awaited(x)) /\ (~record[x].hidden => Shown(x))
    BY DEF KeptInv, Kept
  <2> QED
    BY <2>1, <2>2, <2>3, <2>4
<1>9. InPrint'
  <2> SUFFICES ASSUME NEW u \in Printing', cur'[u] \notin excused
               PROVE  /\ Updating' = {} /\ ~Wanted(cur[u])'
                      /\ pc'[u] = "add" /\ ~record[cur'[u]].hidden => printed'[cur'[u]] >= 1
    BY <1>3 DEF InPrint
  <2>1. u \in Printing /\ u \in Threads /\ cur'[u] = cur[u]
    BY <1>2, <1>4, <1>5 DEF Printing
  <2>2. /\ Updating = {} /\ ~Wanted(cur[u])
        /\ pc[u] = "add" /\ ~record[cur[u]].hidden => printed[cur[u]] >= 1
    BY <2>1 DEF KeptInv, InPrint
  <2>3. ~Wanted(cur[u])'
    BY <1>3, <2>1, <2>2 DEF Wanted
  <2>4. pc'[u] = "add" /\ ~record[cur[u]].hidden => printed'[cur[u]] >= 1
    <3>1. CASE u = t
      <4>1. pc'[t] = "add" => printed'[cur[t]] = printed[cur[t]] + 1
        BY <1>2, <1>4
      <4>2. printed[cur[t]] \in Nat
        BY <1>2
      <4> QED
        BY <3>1, <4>1, <4>2
    <3>2. CASE u # t
      <4>1. cur[u] # cur[t] /\ pc'[u] = pc[u] /\ cur[u] \in 1..MaxRecords
        BY <1>1, <1>2, <1>6, <2>1, <3>2, CurPlace DEF Printing, Unprinted
      <4> QED
        BY <1>7, <2>2, <4>1
    <3> QED
      BY <3>1, <3>2
  <2> QED
    BY <1>5, <2>1, <2>2, <2>3, <2>4
<1> QED
  BY <1>8, <1>9

LEMMA AddKept ==
  ASSUME KeptInv, NEW t \in Threads, Add(t)
  PROVE  Kept' /\ InPrint'
<1>1. TypeInv
  BY DEF KeptInv, OnceInv
<1>2. /\ pc[t] = "add" /\ cur[t] \in Record \ Range(records)
      /\ pc \in [Threads -> Label] /\ cur \in [Threads -> Nat]
      /\ next \in [Threads -> Nat]
  BY <1>1, Types, CurPlace DEF Add
<1>3. /\ record' = record /\ level' = level /\ excused' = excused
      /\ new' = new /\ next' = next /\ size' = size /\ printed' = printed
      /\ pc' = [pc EXCEPT ![t] = "idle"] /\ cur' = [cur EXCEPT ![t] = 0]
  BY DEF Add, Goto, Done, iterator
<1>4. /\ Len(records') = Len(records) + 1 /\ Len(records) \in Nat
      /\ \A i \in 1..Len(records) : records'[i] = records[i]
      /\ Range(records') = Range(records) \cup {cur[t]}
  <2>1. records \in Seq(Record) /\ records' = Append(records, cur[t])
    BY <1>1 DEF TypeInv, TypeOK, Add
  <2> QED
    BY <1>1, <1>2, <2>1, Types, RangeAppend
<1>5. Updating' = Updating /\ Printing' \subseteq Printing /\ t \in Printing
  BY <1>2, <1>3 DEF Updating, Printing
<1>6. \A u \in Threads \ {t} : pc'[u] = pc[u] /\ cur'[u] = cur[u]
  BY <1>2, <1>3
<1>7. \A x : Wanted(x)' = Wanted(x)
  BY <1>3 DEF Wanted
<1>8. Kept'
  <2> SUFFICES ASSUME NEW x \in Range(records) \cup {cur[t]}, x \notin excused
               PROVE  (Wanted(x)' => Awaited(x)') /\ (~record[x].hidden => Shown(x)')
    BY <1>3, <1>4 DEF Kept
  <2>1. CASE x = cur[t]
    <3>1. ~Wanted(x) /\ (~record[x].hidden => printed[x] >= 1)
      BY <1>2, <1>5, <2>1 DEF KeptInv, InPrint
    <3> QED
      BY <1>3, <1>7, <3>1 DEF Shown
  <2>2. CASE x \in Range(records)
    <3>1. Awaited(x) => Awaited(x)'
      <4>1. ASSUME NEW u \in Updating, WillVisit(u, x) PROVE WillVisit(u, x)'
        <5>1. pc'[u] = pc[u] /\ cur'[u] = cur[u]
          BY <1>2, <1>6 DEF Updating
        <5>2. pc[u] # "iterate" => 1 <= next[u] /\ next[u] \in Nat
          BY <1>1, <1>2 DEF TypeInv, Iterators, Updating
        <5>3. pc[u] # "iterate" => Unvisited(u) \subseteq Unvisited(u)'
          BY <1>3, <1>4, <5>2 DEF Unvisited
        <5> QED
          BY <4>1, <5>1, <5>3 DEF WillVisit
      <4> QED
        BY <1>3, <1>5, <4>1 DEF Awaited
    <3>2. Shown(x) => Shown(x)'
      <4>1. \A u \in Threads : pc[u] = "show" => pc'[u] = pc[u] /\ cur'[u] = cur[u]
        BY <1>2, <1>6
      <4> QED
        BY <1>3, <4>1 DEF Shown
    <3>3. (Wanted(x) => Awaited(x)) /\ (~record[x].hidden => Shown(x))
      BY <2>2 DEF KeptInv, Kept
    <3> QED
      BY <1>7, <3>1, <3>2, <3>3
  <2> QED
    BY <2>1, <2>2
<1>9. InPrint'
  <2>1. \A u \in Printing' : u \in Printing /\ pc'[u] = pc[u] /\ cur'[u] = cur[u]
    BY <1>2, <1>3, <1>6 DEF Printing
  <2>2. \A u \in Printing' : Wanted(cur[u])' = Wanted(cur[u])
    BY <1>3, <2>1 DEF Wanted
  <2> QED
    BY <1>3, <1>5, <2>1, <2>2 DEF KeptInv, InPrint
<1> QED
  BY <1>8, <1>9

LEMMA UpdateLevelKept ==
  ASSUME KeptInv, NEW t \in Threads, NEW l \in Levels, UpdateLevel(t, l)
  PROVE  Kept' /\ InPrint'
<1>1. TypeInv
  BY DEF KeptInv, OnceInv
<1>2. /\ pc[t] = "idle" /\ pc \in [Threads -> Label] /\ new \in [Threads -> Nat]
      /\ pc' = [pc EXCEPT ![t] = "iterate"] /\ new' = [new EXCEPT ![t] = l] /\ level' = l
  BY <1>1, Types DEF UpdateLevel, Goto
<1>3. /\ record' = record /\ records' = records /\ cur' = cur /\ printed' = printed
      /\ excused' = excused \cup {cur[u] : u \in Printing}
  BY DEF UpdateLevel
<1>4. t \in Updating' /\ Printing' = Printing
  BY <1>2 DEF Updating, Printing
<1>5. \A x : Awaited(x)'
  BY <1>2, <1>4 DEF Awaited, WillVisit
<1>6. \A x : Shown(x) => Shown(x)'
  <2>1. \A u \in Threads : pc[u] = "show" => pc'[u] = pc[u]
    BY <1>2
  <2> QED
    BY <1>3, <2>1 DEF Shown
<1>7. Kept'
  BY <1>3, <1>5, <1>6 DEF KeptInv, Kept
<1>8. InPrint'
  BY <1>3, <1>4 DEF InPrint
<1> QED
  BY <1>7, <1>8

\* The records ahead of an iterator that goes on
LEMMA UnvisitedNext ==
  ASSUME TypeInv, NEW t \in Threads, UpdateNext(t)
  PROVE  Unvisited(t) \subseteq Unvisited(t)' \cup {records[next[t]]}
<1>1. next[t] \in 1..Len(records) /\ Len(records) \in Nat /\ next \in [Threads -> Nat]
  BY NextInList, Types
<1>2. next'[t] = next[t] + 1 /\ records' = records
  BY <1>1 DEF UpdateNext
<1>3. \A i \in next[t]..Len(records) : i = next[t] \/ i \in next'[t]..Len(records)
  BY <1>1, <1>2
<1> QED
  BY <1>2, <1>3 DEF Unvisited

\* What a step of updateLevel() does to a record its own thread has ahead
LEMMA OwnVisit ==
  ASSUME KeptInv, NEW t \in Threads, UpdateStep(t), NEW x \in Range(records),
         x \notin excused', new[t] = level, WillVisit(t, x), Wanted(x)'
  PROVE  Awaited(x)'
<1>1. TypeInv
  BY DEF KeptInv, OnceInv
<1>2. /\ pc \in [Threads -> Label] /\ new \in [Threads -> Nat] /\ cur \in [Threads -> Nat]
      /\ next \in [Threads -> Nat] /\ Len(records) \in Nat
      /\ DOMAIN records = 1..Len(records)
  BY <1>1, Types
<1>3. t \in Updating /\ records' = records /\ level' = level
  BY <1>1, UpdateFrame
<1>4. SUFFICES pc'[t] \in {"next", "unhide", "show"} /\ new'[t] = new[t] /\ WillVisit(t, x)'
  BY <1>3 DEF Awaited, Updating
<1>5. CASE UpdateIterate(t)
  <2>1. pc'[t] = "next" /\ new' = new /\ next'[t] = 1
    BY <1>2, <1>5 DEF UpdateIterate, Goto
  <2>2. x \in Unvisited(t)'
    BY <1>2, <1>3, <2>1 DEF Unvisited, Range
  <2> QED
    BY <2>1, <2>2 DEF WillVisit
<1>6. CASE UpdateNext(t)
  <2>1. x \in Unvisited(t) /\ new' = new /\ record' = record
    BY <1>6 DEF UpdateNext, WillVisit
  <2>2. CASE x \in Unvisited(t)'
    <3>1. pc'[t] \in {"next", "unhide"}
      BY <1>2, <1>6 DEF UpdateNext, Goto
    <3> QED
      BY <2>1, <2>2, <3>1 DEF WillVisit
  <2>3. CASE x = records[next[t]]
    <3>1. Wants(t, x)
      BY <1>3, <2>1 DEF Wanted, Wants
    <3>2. pc'[t] = "unhide" /\ cur'[t] = x
      BY <1>2, <1>6, <2>3, <3>1 DEF UpdateNext, Goto
    <3> QED
      BY <2>1, <3>2 DEF WillVisit
  <2> QED
    BY <1>1, <1>6, <2>1, <2>2, <2>3, UnvisitedNext
<1>7. CASE UpdateEnd(t)
  <2>1. next[t] = Len(records) + 1 /\ pc[t] = "next"
    BY <1>7 DEF UpdateEnd
  <2>2. Unvisited(t) = {}
    BY <1>2, <2>1 DEF Unvisited
  <2> QED
    BY <2>1, <2>2 DEF WillVisit
<1>8. CASE UpdateThrows(t)
  BY <1>8 DEF UpdateThrows, WillVisit
<1>9. CASE UpdateUnhide(t)
  <2>1. pc[t] = "unhide" /\ pc'[t] = "show" /\ new' = new /\ next' = next
    BY <1>2, <1>9 DEF UpdateUnhide, Goto, iterator
  <2>2. cur[t] # x
    <3>1. record'[cur[t]].hidden = FALSE
      BY <1>1, <1>9, Unhidden
    <3> QED
      BY <3>1 DEF Wanted
  <2>3. x \in Unvisited(t)'
    BY <1>3, <2>1, <2>2 DEF WillVisit, Unvisited
  <2> QED
    BY <2>1, <2>3 DEF WillVisit
<1>10. CASE UpdateShow(t)
  <2>1. pc[t] = "show" /\ x \in Unvisited(t)
    BY <1>10 DEF UpdateShow, WillVisit
  <2>2. pc'[t] = "next" /\ new' = new /\ next' = next
    BY <1>2, <1>10, <2>1 DEF UpdateShow, Goto, iterator
  <2>3. x \in Unvisited(t)'
    BY <1>3, <2>1, <2>2 DEF Unvisited
  <2> QED
    BY <2>2, <2>3 DEF WillVisit
<1> QED
  BY <1>5, <1>6, <1>7, <1>8, <1>9, <1>10 DEF UpdateStep

LEMMA UpdateKept ==
  ASSUME KeptInv, NEW t \in Threads, UpdateStep(t)
  PROVE  Kept' /\ InPrint'
<1>1. TypeInv /\ Unprinted
  BY DEF KeptInv, OnceInv
<1>2. /\ t \in Updating /\ t \notin Printing
      /\ records' = records /\ level' = level
      /\ \A u \in Threads \ {t} :
           /\ pc'[u] = pc[u] /\ cur'[u] = cur[u] /\ new'[u] = new[u]
           /\ next'[u] = next[u] /\ size'[u] = size[u]
      /\ Printing' = Printing /\ Updating' \in {Updating, Updating \ {t}}
  BY <1>1, UpdateFrame
<1>3. /\ pc \in [Threads -> Label] /\ cur \in [Threads -> Nat]
      /\ printed \in [1..MaxRecords -> Nat] /\ Range(records) \subseteq 1..MaxRecords
      /\ Range(records) \subseteq Record
  BY <1>1, Types DEF Unprinted
<1>4. excused \subseteq excused'
  BY DEF UpdateStep, UpdateIterate, UpdateNext, UpdateEnd, UpdateThrows, UpdateUnhide,
     UpdateShow
<1>5. InPrint'
  <2>1. \A u \in Printing : cur[u] \in excused
    BY <1>2 DEF KeptInv, InPrint
  <2> QED
    BY <1>2, <1>4, <2>1 DEF InPrint, Printing
<1>6. ASSUME NEW x \in Range(records), x \notin excused'
      PROVE  Wanted(x)' => Awaited(x)'
  <2>1. Wanted(x)' => Wanted(x)
    <3>1. CASE UpdateUnhide(t)
      <4>1. /\ record'[x].priority = record[x].priority
            /\ x # cur[t] => record'[x] = record[x]
            /\ record'[cur[t]].hidden = FALSE
        BY <1>1, <1>3, <3>1, Unhidden
      <4> QED
        BY <1>2, <4>1 DEF Wanted
    <3>2. CASE ~UpdateUnhide(t)
      <4>1. record' = record
        BY <3>2 DEF UpdateStep, UpdateIterate, UpdateNext, UpdateEnd, UpdateThrows, UpdateShow
      <4> QED
        BY <1>2, <4>1 DEF Wanted
    <3> QED
      BY <3>1, <3>2
  <2>2. Wanted(x) => Awaited(x)
    BY <1>4, <1>6 DEF KeptInv, Kept
  <2>3. ASSUME NEW u \in Updating, u # t, new[u] = level, WillVisit(u, x)
        PROVE  Awaited(x)'
    <3>1. u \in Updating' /\ u \in Threads /\ new'[u] = level'
      BY <1>2, <2>3 DEF Updating
    <3>2. WillVisit(u, x)'
      BY <1>2, <2>3, <3>1 DEF WillVisit, Unvisited
    <3> QED
      BY <3>1, <3>2 DEF Awaited
  <2>4. ASSUME new[t] = level, WillVisit(t, x), Wanted(x)' PROVE Awaited(x)'
    BY <1>6, <2>4, OwnVisit
  <2> QED
    BY <2>1, <2>2, <2>3, <2>4 DEF Awaited
<1>7. ASSUME NEW x \in Range(records), x \notin excused', ~record'[x].hidden
      PROVE  Shown(x)'
  <2>1. ~record[x].hidden => Shown(x)
    BY <1>4, <1>7 DEF KeptInv, Kept
  <2>2. ASSUME NEW u \in Threads, u # t, pc[u] = "show", cur[u] = x
        PROVE  Shown(x)'
    BY <1>2, <2>2 DEF Shown
  <2>3. CASE UpdateShow(t)
    <3>1. record' = record
      BY <2>3 DEF UpdateShow
    <3>2. /\ cur[t] # x => printed'[x] = printed[x]
          /\ cur[t] = x => printed'[x] = printed[x] + 1
          /\ printed[x] \in Nat /\ pc[t] = "show"
      BY <1>3, <1>7, <2>3 DEF UpdateShow
    <3>3. printed[x] >= 1 => printed'[x] >= 1
      BY <3>2
    <3>4. cur[t] = x => Shown(x)'
      BY <3>2 DEF Shown
    <3> QED
      BY <1>7, <2>1, <2>2, <3>1, <3>3, <3>4 DEF Shown
  <2>4. CASE UpdateUnhide(t)
    <3>1. printed' = printed /\ cur' = cur /\ pc[t] = "unhide" /\ pc'[t] = "show"
      BY <1>3, <2>4 DEF UpdateUnhide, Goto
    <3>2. x # cur[t] => record'[x] = record[x]
      BY <1>1, <1>3, <2>4, Unhidden
    <3>3. x = cur[t] => Shown(x)'
      BY <3>1 DEF Shown
    <3>4. Shown(x) => Shown(x)'
      BY <2>2, <3>1 DEF Shown
    <3> QED
      BY <1>7, <2>1, <3>2, <3>3, <3>4
  <2>5. CASE UpdateIterate(t) \/ UpdateNext(t) \/ UpdateEnd(t) \/ UpdateThrows(t)
    <3>1. record' = record /\ printed' = printed /\ pc[t] # "show"
      BY <2>5 DEF UpdateIterate, UpdateNext, UpdateEnd, UpdateThrows
    <3>2. Shown(x) => Shown(x)'
      BY <2>2, <3>1 DEF Shown
    <3> QED
      BY <1>7, <2>1, <3>1, <3>2
  <2> QED
    BY <2>3, <2>4, <2>5 DEF UpdateStep
<1>8. Kept'
  BY <1>2, <1>6, <1>7 DEF Kept
<1> QED
  BY <1>5, <1>8

LEMMA NextKept == KeptInv /\ [Next]_vars => KeptInv'
<1> SUFFICES ASSUME KeptInv, [Next]_vars PROVE KeptInv'
  OBVIOUS
<1>1. OnceInv'
  BY NextOnce DEF KeptInv
<1>2. CASE UNCHANGED vars
  <2>1. Kept' /\ InPrint'
    BY <1>2 DEF vars, KeptInv, Kept, InPrint, Wanted, Awaited, Shown, WillVisit, Unvisited,
       Updating, Printing
  <2> QED
    BY <1>1, <2>1 DEF KeptInv
<1>3. CASE Next
  <2>1. Kept' /\ InPrint'
    BY <1>3, StartPrintKept, PrintLogKept, AddKept, UpdateLevelKept, UpdateKept
       DEF Next, UpdateStep
  <2> QED
    BY <1>1, <2>1 DEF KeptInv
<1> QED
  BY <1>2, <1>3

\* With no updateLevel() running, a kept message that the level lets through has been
\* printed, and a hidden one has not.  (XLog.kt 18-26, 48-57)
THEOREM PrintsWhatIsLetThrough == Spec => []LetThroughIsPrinted
<1>1. ASSUME KeptInv PROVE LetThroughIsPrinted
  <2> SUFFICES ASSUME Updating = {}, NEW r \in Range(records) \ excused
               PROVE  /\ record[r].priority >= level => printed[r] >= 1
                      /\ record[r].hidden <=> printed[r] = 0
    BY DEF LetThroughIsPrinted
  <2>1. TypeInv /\ Unprinted
    BY <1>1 DEF KeptInv, OnceInv
  <2>2. r \in Record /\ record[r].hidden => printed[r] = 0
    BY <2>1 DEF Unprinted
  <2>3. r \in Record
    BY <2>1, Types
  <2>4. \A t \in Threads : pc[t] # "show"
    BY DEF Updating
  <2>5. ~record[r].hidden => printed[r] >= 1
    BY <1>1, <2>4 DEF KeptInv, Kept, Shown
  <2>6. ~Wanted(r)
    BY <1>1 DEF KeptInv, Kept, Awaited
  <2>7. printed[r] >= 1 => printed[r] # 0
    OBVIOUS
  <2> QED
    BY <2>2, <2>3, <2>5, <2>6, <2>7 DEF Wanted
<1> QED
  BY <1>1, InitKept, NextKept, PTL DEF Spec
====
