---- MODULE HookRegistryProofs ----
(***************************************************************************)
(* The registry of HookRegistry for any number of threads, members,        *)
(* requests and calls.                                                     *)
(***************************************************************************)
EXTENDS HookRegistry, FiniteSetTheorems, WellFoundedInduction, SequenceTheorems, TLAPS

----
\* What Sublist returns, for every sequence

\* A nonempty set of naturals has a least element.
LEMMA Least ==
  ASSUME NEW T \in SUBSET Nat, T # {}
  PROVE  \E x \in T : \A y \in T : x <= y
<1> DEFINE R == {ss \in Nat \X Nat : ss[1] < ss[2]}
<1>1. IsWellFoundedOn(R, Nat)
  BY NatLessThanWellFounded DEF OpToRel
<1>2. PICK x \in T : \A y \in T : ~(<<y, x>> \in R)
  BY <1>1, WFMin
<1>3. \A y \in T : ~(y < x)
  BY <1>2
<1> QED
  BY <1>3

IsAscending(f, S) ==
  /\ f \in [1..Cardinality(S) -> S]
  /\ \A i, j \in 1..Cardinality(S) : i < j => f[i] < f[j]

\* There is an increasing enumeration of the empty set ...
LEMMA AscendingEmpty == \E f : IsAscending(f, {})
<1>1. Cardinality({}) = 0
  BY FS_EmptySet
<1>2. [i \in 1..0 |-> 0] \in [1..0 -> {}]
  OBVIOUS
<1> QED
  BY <1>1, <1>2 DEF IsAscending

\* ... and one of S \ {n} goes on to n when n is the greatest element of S.
LEMMA AscendingExtend ==
  ASSUME NEW n \in Nat, NEW S \in SUBSET (1..n), n \in S,
         NEW g, IsAscending(g, S \ {n})
  PROVE  \E f : IsAscending(f, S)
<1> DEFINE k == Cardinality(S)
           f == [i \in 1..k |-> IF i = k THEN n ELSE g[i]]
<1>1. IsFiniteSet(S) /\ k \in Nat
  <2>1. IsFiniteSet(1..n)
    BY FS_Interval
  <2>2. IsFiniteSet(S)
    BY <2>1, FS_Subset
  <2> QED
    BY <2>2, FS_CardinalityType
<1>2. Cardinality(S \ {n}) = k - 1
  BY <1>1, FS_RemoveElement
<1>3. \A i \in 1..(k - 1) : g[i] \in S \ {n}
  BY <1>2 DEF IsAscending
<1> HIDE DEF k
<1>4. f \in [1..k -> S]
  BY <1>1, <1>3
<1>5. ASSUME NEW i \in 1..k, NEW j \in 1..k, i < j PROVE f[i] < f[j]
  <2>1. i \in 1..(k - 1) /\ f[i] = g[i]
    BY <1>1, <1>5
  <2>2. CASE j = k
    <3>1. f[i] \in S \ {n} /\ f[j] = n
      BY <2>1, <2>2, <1>3
    <3>2. \A x \in S \ {n} : x < n
      OBVIOUS
    <3> HIDE DEF f
    <3> QED
      BY <3>1, <3>2
  <2>3. CASE j # k
    <3>1. j \in 1..(k - 1) /\ f[j] = g[j]
      BY <2>3, <1>1
    <3> QED
      BY <1>2, <1>5, <2>1, <3>1 DEF IsAscending
  <2> QED
    BY <2>2, <2>3
<1> QED
  BY <1>4, <1>5 DEF IsAscending, k

\* Every set of positive integers up to n has an increasing enumeration: by
\* the least n for which one had none.
LEMMA AscendingExists ==
  ASSUME NEW n \in Nat, NEW S \in SUBSET (1..n)
  PROVE  \E f : IsAscending(f, S)
<1> DEFINE T == {k \in Nat : \E U \in SUBSET (1..k) : ~\E f : IsAscending(f, U)}
<1> SUFFICES ASSUME T # {} PROVE FALSE
  OBVIOUS
<1>1. PICK k \in T : \A y \in T : k <= y
  BY Least
<1>2. PICK U \in SUBSET (1..k) : ~\E f : IsAscending(f, U)
  OBVIOUS
<1>3. U # {}
  BY <1>2, AscendingEmpty
<1>4. k \in Nat /\ k # 0 /\ k - 1 \in Nat /\ k - 1 \notin T
  <2>1. k \in Nat
    BY DEF T
  <2>2. k # 0
    <3>1. CASE k = 0
      <4>1. U \in SUBSET (1..0)
        BY <3>1
      <4>2. 1..0 = {}
        OBVIOUS
      <4> QED
        BY <1>3, <4>1, <4>2
    <3> QED
      BY <3>1
  <2>3. k - 1 \in Nat /\ ~(k <= k - 1)
    BY <2>1, <2>2
  <2> QED
    BY <1>1, <2>1, <2>2, <2>3
<1>5. \A V \in SUBSET (1..(k - 1)) : \E f : IsAscending(f, V)
  BY <1>4
<1>6. U \ {k} \in SUBSET (1..(k - 1))
  BY <1>4
<1>7. k \in U
  BY <1>2, <1>5, <1>6, U \ {k} = U \/ k \in U
<1> QED
  BY <1>2, <1>5, <1>6, <1>7, AscendingExtend

\* Ascending(S) is one; it is onto, since it is an injection between finite sets
\* of one cardinality.
LEMMA AscendingIs ==
  ASSUME NEW n \in Nat, NEW S \in SUBSET (1..n)
  PROVE  IsAscending(Ascending(S), S)
<1>1. PICK f : IsAscending(f, S)
  BY AscendingExists
<1> QED
  BY <1>1 DEF Ascending, IsAscending

\* An increasing enumeration of S reaches every element of S.
LEMMA AscendingOnto ==
  ASSUME NEW n \in Nat, NEW S \in SUBSET (1..n)
  PROVE  /\ Cardinality(S) \in Nat
         /\ \A x \in S : \E i \in 1..Cardinality(S) : Ascending(S)[i] = x
<1> DEFINE f == Ascending(S)
           k == Cardinality(S)
<1>1. IsFiniteSet(1..n)
  BY FS_Interval
<1>2. IsFiniteSet(S) /\ k \in Nat
  BY <1>1, FS_Subset, FS_CardinalityType
<1>3. Cardinality(1..k) = k
  BY <1>2, FS_Interval
<1>4. f \in [1..k -> S] /\ \A i, j \in 1..k : i < j => f[i] < f[j]
  BY AscendingIs DEF IsAscending
<1> HIDE DEF f, k
<1>5. \A i, j \in 1..k : f[i] = f[j] => i = j
  <2> SUFFICES ASSUME NEW i \in 1..k, NEW j \in 1..k, f[i] = f[j] PROVE ~(i < j) /\ ~(j < i)
    BY <1>2
  <2>1. f[i] \in 1..n /\ f[j] \in 1..n
    <3>1. f[i] \in S /\ f[j] \in S
      BY <1>4
    <3> QED
      BY <3>1
  <2> QED
    BY <1>4, <2>1
<1>6. f \in Injection(1..k, S)
  BY <1>4, <1>5 DEF Injection, IsInjective
<1>7. f \in Surjection(1..k, S)
  BY <1>2, <1>3, <1>6, FS_Injection DEF k
<1> QED
  BY <1>2, <1>7 DEF Surjection, f, k

\* Sublist(s, S) picks elements of s that are in S, in the order of s ...
LEMMA SublistPicks ==
  ASSUME NEW D, NEW s \in Seq(D), NEW S
  PROVE  /\ Sublist(s, S) \in Seq(D)
         /\ \E g \in [1..Len(Sublist(s, S)) -> 1..Len(s)] :
              /\ \A k \in 1..Len(Sublist(s, S)) : Sublist(s, S)[k] = s[g[k]] /\ s[g[k]] \in S
              /\ \A j, k \in 1..Len(Sublist(s, S)) : j < k => g[j] < g[k]
              /\ \A i \in 1..Len(s) : s[i] \in S => \E k \in 1..Len(Sublist(s, S)) : g[k] = i
<1> DEFINE keep == {i \in DOMAIN s : s[i] \in S}
           n == Cardinality(keep)
           g == Ascending(keep)
           r == Sublist(s, S)
<1>1. Len(s) \in Nat /\ DOMAIN s = 1..Len(s)
  OBVIOUS
<1>2. keep \in SUBSET (1..Len(s))
  BY <1>1
<1>3. g \in [1..n -> keep] /\ \A i, j \in 1..n : i < j => g[i] < g[j]
  BY <1>1, <1>2, AscendingIs DEF IsAscending
<1>4. n \in Nat /\ \A x \in keep : \E i \in 1..n : g[i] = x
  BY <1>1, <1>2, AscendingOnto
<1>5. r = [k \in 1..n |-> s[g[k]]]
  BY DEF Sublist
<1> HIDE DEF n, g, r
<1>6. \A k \in 1..n : g[k] \in 1..Len(s) /\ s[g[k]] \in D /\ s[g[k]] \in S
  <2> SUFFICES ASSUME NEW k \in 1..n PROVE g[k] \in 1..Len(s) /\ s[g[k]] \in D /\ s[g[k]] \in S
    OBVIOUS
  <2>1. g[k] \in keep
    BY <1>3
  <2> QED
    BY <1>1, <2>1
<1>7. r \in Seq(D) /\ Len(r) = n
  BY <1>4, <1>5, <1>6
<1>8. g \in [1..Len(r) -> 1..Len(s)]
  BY <1>2, <1>3, <1>7
<1>9. \A k \in 1..Len(r) : r[k] = s[g[k]] /\ s[g[k]] \in S
  BY <1>5, <1>6, <1>7
<1>10. \A i \in 1..Len(s) : s[i] \in S => \E k \in 1..Len(r) : g[k] = i
  BY <1>1, <1>4, <1>7
<1> QED
  BY <1>3, <1>7, <1>8, <1>9, <1>10 DEF r

\* ... all of them.
LEMMA SublistRange ==
  ASSUME NEW D, NEW s \in Seq(D), NEW S
  PROVE  Range(Sublist(s, S)) = Range(s) \cap S
<1> DEFINE r == Sublist(s, S)
<1>1. r \in Seq(D)
  BY SublistPicks
<1>2. PICK g \in [1..Len(r) -> 1..Len(s)] :
        /\ \A k \in 1..Len(r) : r[k] = s[g[k]] /\ s[g[k]] \in S
        /\ \A j, k \in 1..Len(r) : j < k => g[j] < g[k]
        /\ \A i \in 1..Len(s) : s[i] \in S => \E k \in 1..Len(r) : g[k] = i
  BY SublistPicks
<1> HIDE DEF r
<1>3. DOMAIN r = 1..Len(r) /\ DOMAIN s = 1..Len(s)
  BY <1>1
<1>4. Range(r) \subseteq Range(s) \cap S
  BY <1>2, <1>3 DEF Range
<1>5. Range(s) \cap S \subseteq Range(r)
  BY <1>2, <1>3 DEF Range
<1> QED
  BY <1>4, <1>5 DEF r

----
\* What InsertAt returns

\* InsertAt at a place of the list, or after its end, makes a list.
LEMMA InsertAtType ==
  ASSUME NEW D, NEW s \in Seq(D), NEW i \in 1..(Len(s) + 1), NEW e \in D
  PROVE  InsertAt(s, i, e) \in Seq(D)
BY DEF InsertAt

\* InsertAt adds one element and keeps the others.
LEMMA InsertAtRange ==
  ASSUME NEW D, NEW s \in Seq(D), NEW i \in 1..(Len(s) + 1), NEW e \in D
  PROVE  Range(InsertAt(s, i, e)) = Range(s) \cup {e}
<1> DEFINE a == SubSeq(s, 1, i - 1)
           b == SubSeq(s, i, Len(s))
           r == a \o <<e>> \o b
<1>1. a \in Seq(D) /\ Len(a) = i - 1 /\ \A j \in 1..(i - 1) : a[j] = s[j]
  OBVIOUS
<1>2. b \in Seq(D) /\ Len(b) = Len(s) - i + 1 /\ \A j \in 1..(Len(s) - i + 1) : b[j] = s[i + j - 1]
  OBVIOUS
<1>3. Range(s) = Range(a) \cup Range(b)
  <2>1. ASSUME NEW j \in 1..Len(s) PROVE s[j] \in Range(a) \cup Range(b)
    <3>1. CASE j < i
      <4>1. j \in DOMAIN a /\ a[j] = s[j]
        BY <1>1, <3>1
      <4> QED
        BY <4>1 DEF Range
    <3>2. CASE ~(j < i)
      <4>1. j - i + 1 \in DOMAIN b /\ b[j - i + 1] = s[j]
        BY <1>2, <3>2
      <4> QED
        BY <4>1 DEF Range
    <3> QED
      BY <3>1, <3>2
  <2>2. ASSUME NEW j \in 1..(i - 1) PROVE a[j] \in Range(s)
    BY <1>1 DEF Range
  <2>3. ASSUME NEW j \in 1..(Len(s) - i + 1) PROVE b[j] \in Range(s)
    <3>1. i + j - 1 \in DOMAIN s
      OBVIOUS
    <3> QED
      BY <1>2, <3>1 DEF Range
  <2>4. DOMAIN a = 1..(i - 1) /\ DOMAIN b = 1..(Len(s) - i + 1) /\ DOMAIN s = 1..Len(s)
    BY <1>1, <1>2
  <2> HIDE DEF a, b
  <2> QED
    BY <2>1, <2>2, <2>3, <2>4 DEF Range
<1> HIDE DEF a, b
<1>4. Range(r) = Range(a) \cup {e} \cup Range(b)
  <2>1. a \in Seq(D) /\ b \in Seq(D)
    BY <1>1, <1>2
  <2>2. <<e>> \in Seq(D) /\ Range(<<e>>) = {e}
    BY DEF Range
  <2>3. a \o <<e>> \in Seq(D)
    BY <2>1, <2>2
  <2>4. \A x, y \in Seq(D) : Range(x \o y) = Range(x) \cup Range(y)
    BY RangeConcatenation
  <2>5. Range(a \o <<e>>) = Range(a) \cup {e}
    BY <2>1, <2>2, <2>4
  <2>6. Range((a \o <<e>>) \o b) = Range(a \o <<e>>) \cup Range(b)
    BY <2>1, <2>3, <2>4
  <2> QED
    BY <2>5, <2>6
<1> QED
  BY <1>3, <1>4 DEF InsertAt, a, b

----
\* Types

\* Where the threads are and what their locals hold: a handle in the making has
\* the number of a hook() call, and is bound to a HookedMember once it is found.
Locals ==
  /\ hooks \in 0..MaxHooks
  /\ pc \in [Threads \cup Callers ->
               {"idle", "lookBefore", "before", "lookAfter", "after"}
               \cup InHook \cup InUnhook]
  /\ cur \in [Threads -> {<<>>} \cup Handle]
  /\ idx \in [Threads -> Nat]
  /\ \A t \in Threads :
       /\ pc[t] \in {"idle"} \cup InHook \cup InUnhook
       /\ pc[t] # "idle" => cur[t] \in Handle
       /\ pc[t] \in {"index", "size", "add"} => cur[t].target # None
       /\ pc[t] \in InHook => cur[t].id \in 1..hooks
       /\ pc[t] = "add" => idx[t] # 0
       /\ pc[t] \in InUnhook => cur[t] \in unhooking

\* What the callers are calling
Calls ==
  /\ callee \in [Callers -> {<<>>} \cup Members]
  /\ \A c \in Callers : pc[c] # "idle" => callee[c] \in Members
  /\ pending \in [Callers -> Seq(Handle)]

\* The registry; a list only holds handles that were returned and bound to it.
Lists ==
  /\ hookedMembers \in [Members -> 0..MaxHooks]
  /\ handles \in [1..MaxHooks -> Seq(Handle)]
  /\ bridged \subseteq Members
  /\ returned \subseteq Handle
  /\ \A h \in returned : h.target # None /\ h.id \in 1..hooks
  /\ \A n \in 1..MaxHooks : \A h \in Range(handles[n]) : h \in returned /\ h.target = n

\* The history
Past ==
  /\ unhooks \in 0..MaxUnhooks
  /\ unhooked \subseteq unhooking
  /\ unhooking \subseteq returned
  /\ overlapped \subseteq Members
  /\ raced \subseteq overlapped

TypeInv == Locals /\ Calls /\ Lists /\ Past

USE MembersAssumption, RequestsAssumption, BoundsAssumption, ThreadsAssumption

\* TypeInv is what TypeOK needs to be inductive.
LEMMA TypeInvTypeOK == TypeInv => TypeOK
BY DEF TypeInv, Locals, Calls, Lists, Past, TypeOK

\* The empty registry is well-typed.
LEMMA InitTypeInv == Init => TypeInv
<1>1. ASSUME Init, NEW n \in 1..MaxHooks PROVE Range(handles[n]) = {}
  BY <1>1 DEF Init, Range
<1>2. Init => Lists
  BY <1>1 DEF Init, Lists, None
<1> QED
  BY <1>2 DEF Init, TypeInv, Locals, Calls, Past, InHook, InUnhook, None

\* A thread that goes to l with the handle h and the index i keeps Locals when
\* they fit l.
LEMMA StepLocals ==
  ASSUME Locals, NEW t \in Threads, NEW l, NEW h, NEW i,
         hooks' \in 0..MaxHooks, hooks <= hooks', unhooking \subseteq unhooking',
         pc' = [pc EXCEPT ![t] = l],
         cur' = [cur EXCEPT ![t] = h],
         idx' = [idx EXCEPT ![t] = i],
         h \in {<<>>} \cup Handle, i \in Nat,
         l \in {"idle"} \cup InHook \cup InUnhook,
         l # "idle" => h \in Handle,
         l \in {"index", "size", "add"} => h.target # None,
         l \in InHook => h.id \in 1..hooks',
         l = "add" => i # 0,
         l \in InUnhook => h \in unhooking'
  PROVE  Locals'
<1>1. /\ pc' \in [Threads \cup Callers ->
               {"idle", "lookBefore", "before", "lookAfter", "after"}
               \cup InHook \cup InUnhook]
      /\ cur' \in [Threads -> {<<>>} \cup Handle]
      /\ idx' \in [Threads -> Nat]
  BY DEF Locals
<1>2. ASSUME NEW u \in Threads
      PROVE  /\ pc'[u] = IF u = t THEN l ELSE pc[u]
             /\ cur'[u] = IF u = t THEN h ELSE cur[u]
             /\ idx'[u] = IF u = t THEN i ELSE idx[u]
  BY DEF Locals
<1>3. ASSUME NEW u \in Threads
      PROVE  /\ pc'[u] \in {"idle"} \cup InHook \cup InUnhook
             /\ pc'[u] # "idle" => cur'[u] \in Handle
             /\ pc'[u] \in {"index", "size", "add"} => cur'[u].target # None
             /\ pc'[u] \in InHook => cur'[u].id \in 1..hooks'
             /\ pc'[u] = "add" => idx'[u] # 0
             /\ pc'[u] \in InUnhook => cur'[u] \in unhooking'
  <2>1. CASE u = t
    BY <1>2, <2>1
  <2>2. CASE u # t
    <3>1. pc[u] \in InHook => cur[u].id \in 1..hooks'
      BY DEF Locals
    <3> QED
      BY <1>2, <2>2, <3>1 DEF Locals
  <2> QED
    BY <2>1, <2>2
<1> QED
  BY <1>1, <1>3 DEF Locals

\* A thread's step leaves the callers where they are.
LEMMA StepCalls ==
  ASSUME Calls, Locals, NEW t \in Threads, NEW l, pc' = [pc EXCEPT ![t] = l],
         UNCHANGED caller
  PROVE  Calls'
BY DEF Calls, Locals, caller

\* The operation of a thread returns or throws.
LEMMA DoneLocals ==
  ASSUME Locals, NEW t \in Threads, Done(t), hooks' = hooks, unhooking' = unhooking
  PROVE  Locals'
BY StepLocals DEF Done, Goto, Locals, InHook, InUnhook

\* A thread goes on to l with the locals it has.
LEMMA GotoLocals ==
  ASSUME Locals, NEW t \in Threads, NEW l, Goto(t, l),
         UNCHANGED <<hooks, unhooking, cur, idx>>,
         pc[t] # "idle",
         \/ pc[t] \in InHook /\ l \in {"bridge", "put"}
         \/ pc[t] \in {"index", "size", "add"} /\ l \in {"index", "size"}
         \/ pc[t] \in InUnhook /\ l \in InUnhook
  PROVE  Locals'
<1>1. cur' = [cur EXCEPT ![t] = cur[t]] /\ idx' = [idx EXCEPT ![t] = idx[t]]
  BY DEF Locals
<1>2. cur[t] \in Handle /\ idx[t] \in Nat
  BY DEF Locals
<1>3. hooks' \in 0..MaxHooks /\ hooks <= hooks'
  BY DEF Locals
<1>4. pc[t] \in InHook => cur[t].id \in 1..hooks
  BY DEF Locals
<1> QED
  BY <1>1, <1>2, <1>3, <1>4, StepLocals DEF Goto, Locals, InHook, InUnhook

\* hook() starts with a handle of a new number.
LEMMA LookupTypeInv ==
  ASSUME TypeInv, NEW t \in Threads, NEW m \in Members, NEW r \in Requests, HookLookup(t, m, r)
  PROVE  TypeInv'
<1> USE DEF TypeInv
<1> DEFINE h == [id |-> hooks + 1, member |-> m, req |-> r, target |-> hookedMembers[m]]
           l == IF hookedMembers[m] = None THEN "bridge" ELSE "index"
<1>1. hooks' = hooks + 1 /\ hooks' \in 0..MaxHooks
  BY DEF HookLookup, Locals
<1>2. h \in Handle
  BY <1>1 DEF HookLookup, Handle, Lists, Locals
<1>3. Locals'
  <2>1. idx' = [idx EXCEPT ![t] = idx[t]] /\ idx[t] \in Nat
    BY DEF HookLookup, Locals
  <2>2. h.id \in 1..hooks' /\ hooks <= hooks'
    BY <1>1 DEF Locals
  <2>3. pc' = [pc EXCEPT ![t] = l] /\ cur' = [cur EXCEPT ![t] = h] /\ unhooking' = unhooking
    BY DEF HookLookup, Goto
  <2>4. l = "bridge" \/ (l = "index" /\ h.target # None)
    OBVIOUS
  <2> HIDE DEF h, l
  <2> QED
    BY <1>1, <1>2, <2>1, <2>2, <2>3, <2>4, StepLocals DEF InHook, InUnhook
<1>4. Calls'
  BY StepCalls DEF HookLookup, Goto
<1>5. Lists'
  <2>1. /\ hookedMembers' = hookedMembers /\ handles' = handles
        /\ bridged' = bridged /\ returned' = returned
    BY DEF HookLookup, registry
  <2>2. \A k \in 1..hooks : k \in 1..hooks'
    BY <1>1 DEF Locals
  <2> QED
    BY <2>1, <2>2 DEF Lists
<1>6. Past'
  <2>1. overlapped' = overlapped \cup {m} \/ overlapped' = overlapped
    BY DEF HookLookup
  <2>2. raced' = raced \cup {m} \/ raced' = raced
    BY DEF HookLookup
  <2>3. raced' \subseteq overlapped'
    BY DEF HookLookup, Past, Quiet, Hooking, Allocating, InHook
  <2>4. UNCHANGED <<unhooks, unhooked, unhooking, returned>>
    BY DEF HookLookup
  <2> QED
    BY <2>1, <2>2, <2>3, <2>4 DEF Past
<1> QED
  BY <1>3, <1>4, <1>5, <1>6

\* The steps of hook() that leave the map and the lists alone
LEMMA HookTypeInv ==
  ASSUME TypeInv, NEW t \in Threads,
         HookBridge(t) \/ HookBridgeThrows(t) \/ HookSize(t) \/ HookAddThrows(t)
  PROVE  TypeInv'
<1> USE DEF TypeInv, registry, ghosts
<1>1. CASE HookBridge(t)
  <2>1. Locals'
    BY <1>1, GotoLocals DEF HookBridge, InHook
  <2>2. Calls'
    BY <1>1, StepCalls DEF HookBridge, Goto
  <2>3. Lists'
    <3>1. bridged' \subseteq Members
      BY <1>1 DEF HookBridge, Lists
    <3> QED
      BY <1>1, <3>1 DEF HookBridge, Lists
  <2>4. Past'
    BY <1>1 DEF HookBridge, Past
  <2> QED
    BY <2>1, <2>2, <2>3, <2>4
<1>2. CASE HookBridgeThrows(t)
  <2>1. Locals'
    BY <1>2, DoneLocals DEF HookBridgeThrows
  <2>2. Calls'
    BY <1>2, StepCalls DEF HookBridgeThrows, Done, Goto
  <2>3. Lists' /\ Past'
    BY <1>2 DEF HookBridgeThrows, Lists, Past
  <2> QED
    BY <2>1, <2>2, <2>3
<1>3. CASE HookSize(t)
  <2>1. cur[t] \in Handle /\ cur[t].target \in 1..MaxHooks /\ cur[t].id \in 1..hooks
    BY <1>3 DEF HookSize, Locals, Handle, None, InHook
  <2>2. handles[cur[t].target] \in Seq(Handle)
    BY <2>1 DEF Lists
  <2> DEFINE i == Len(handles[cur[t].target]) + 1
  <2>3. i \in Nat /\ i # 0
    BY <2>2
  <2>4. cur' = [cur EXCEPT ![t] = cur[t]]
    BY <1>3 DEF HookSize, Locals
  <2>5. pc' = [pc EXCEPT ![t] = "add"] /\ idx' = [idx EXCEPT ![t] = i]
    BY <1>3 DEF HookSize, Goto
  <2>6. hooks' = hooks /\ unhooking' = unhooking /\ cur[t].target # None
    BY <1>3 DEF HookSize, Locals
  <2> HIDE DEF i
  <2>7. Locals'
    BY <2>1, <2>3, <2>4, <2>5, <2>6, StepLocals DEF Locals, InHook, InUnhook
  <2>8. Calls'
    BY <1>3, <2>5, StepCalls DEF HookSize
  <2>9. Lists' /\ Past'
    BY <1>3 DEF HookSize, Lists, Past
  <2> QED
    BY <2>7, <2>8, <2>9
<1>4. CASE HookAddThrows(t)
  <2>1. Locals'
    BY <1>4, DoneLocals DEF HookAddThrows
  <2>2. Calls'
    BY <1>4, StepCalls DEF HookAddThrows, Done, Goto
  <2>3. Lists' /\ Past'
    BY <1>4 DEF HookAddThrows, Lists, Past
  <2> QED
    BY <2>1, <2>2, <2>3
<1> QED
  BY <1>1, <1>2, <1>3, <1>4

\* The new HookedMember is numbered by its hook() call.
LEMMA PutTypeInv ==
  ASSUME TypeInv, NEW t \in Threads, HookPut(t)
  PROVE  TypeInv'
<1> USE DEF TypeInv, registry, ghosts
<1>1. cur[t] \in Handle /\ cur[t].id \in 1..hooks /\ hooks \in 0..MaxHooks
  BY DEF HookPut, Locals, InHook
<1> DEFINE h == [cur[t] EXCEPT !.target = cur[t].id]
<1>2. h \in Handle /\ h.target # None /\ h.id \in 1..hooks
  BY <1>1 DEF Handle, None
<1>3. cur[t].id \in 0..MaxHooks /\ hooks' \in 0..MaxHooks /\ hooks <= hooks'
  BY <1>1 DEF HookPut
<1>4. Locals'
  <2>1. cur' = [cur EXCEPT ![t] = h]
    BY DEF HookPut, Locals
  <2>2. idx' = [idx EXCEPT ![t] = idx[t]] /\ idx[t] \in Nat
    BY DEF HookPut, Locals
  <2>3. pc' = [pc EXCEPT ![t] = "index"] /\ hooks' = hooks /\ unhooking' = unhooking
    BY DEF HookPut, Goto
  <2> HIDE DEF h
  <2> QED
    BY <1>1, <1>3, <1>2, <2>1, <2>2, <2>3, StepLocals DEF InHook, InUnhook
<1>5. Calls'
  BY StepCalls DEF HookPut, Goto
<1>6. Lists'
  <2>1. hookedMembers' \in [Members -> 0..MaxHooks]
    BY <1>3 DEF HookPut, Lists
  <2> QED
    BY <2>1 DEF HookPut, Lists
<1>7. Past'
  BY DEF HookPut, Past
<1> QED
  BY <1>4, <1>5, <1>6, <1>7

\* indexOfFirst returns a place in the list.
LEMMA IndexTypeInv ==
  ASSUME TypeInv, NEW t \in Threads, HookIndex(t)
  PROVE  TypeInv'
<1> USE DEF TypeInv, registry, ghosts
<1> DEFINE n == cur[t].target
           lower == LowerThan(handles[n], cur[t].req.priority)
           i == CHOOSE i \in lower : \A j \in lower : i <= j
<1>1. /\ cur[t] \in Handle /\ cur[t].id \in 1..hooks
      /\ n \in 1..MaxHooks /\ cur[t].target # None
  BY DEF HookIndex, Locals, Handle, None, InHook
<1>2. handles[n] \in Seq(Handle)
  BY <1>1 DEF Lists
<1>3. Locals'
  <2>1. CASE lower = {}
    <3>1. Goto(t, "size") /\ UNCHANGED idx
      BY <2>1 DEF HookIndex
    <3> QED
      BY <3>1, GotoLocals DEF HookIndex
  <2>2. CASE lower # {}
    <3>1. lower \in SUBSET Nat /\ 0 \notin lower
      BY <1>2 DEF LowerThan
    <3>2. \E k \in lower : \A j \in lower : k <= j
      BY <2>2, <3>1, Least
    <3>3. i \in Nat /\ i # 0
      BY <3>1, <3>2
    <3>4. Goto(t, "add") /\ idx' = [idx EXCEPT ![t] = i]
      BY <2>2 DEF HookIndex
    <3>5. cur' = [cur EXCEPT ![t] = cur[t]] /\ hooks' = hooks /\ unhooking' = unhooking
      BY DEF HookIndex, Locals
    <3> HIDE DEF i, n
    <3> QED
      BY <1>1, <3>3, <3>4, <3>5, StepLocals DEF Goto, Locals, InHook, InUnhook
  <2> QED
    BY <2>1, <2>2
<1>4. Calls'
  BY StepCalls DEF HookIndex, Goto
<1>5. Lists' /\ Past'
  BY DEF HookIndex, Lists, Past
<1> QED
  BY <1>3, <1>4, <1>5

\* The handle that is returned is in the list of its HookedMember.
LEMMA AddTypeInv ==
  ASSUME TypeInv, NEW t \in Threads, HookAdd(t)
  PROVE  TypeInv'
<1> USE DEF TypeInv, registry, ghosts
<1> DEFINE n == cur[t].target
<1>1. /\ cur[t] \in Handle /\ cur[t].id \in 1..hooks
      /\ n \in 1..MaxHooks /\ n # None
  BY DEF HookAdd, Locals, Handle, None, InHook
<1>2. handles[n] \in Seq(Handle) /\ idx[t] \in 1..(Len(handles[n]) + 1)
  <2>1. handles[n] \in Seq(Handle) /\ idx[t] \in Nat /\ idx[t] # 0
    BY <1>1 DEF HookAdd, Locals, Lists
  <2>2. idx[t] <= Len(handles[n]) + 1
    BY DEF HookAdd
  <2> QED
    BY <2>1, <2>2
<1> DEFINE s == InsertAt(handles[n], idx[t], cur[t])
<1>3. s \in Seq(Handle) /\ Range(s) = Range(handles[n]) \cup {cur[t]}
  BY <1>1, <1>2, InsertAtType, InsertAtRange
<1>4. handles' = [handles EXCEPT ![n] = s] /\ returned' = returned \cup {cur[t]}
  BY DEF HookAdd
<1>5. Locals'
  BY DoneLocals DEF HookAdd
<1>6. Calls'
  BY StepCalls DEF HookAdd, Done, Goto
<1>7. Lists'
  <2> HIDE DEF s
  <2>1. handles' \in [1..MaxHooks -> Seq(Handle)]
    BY <1>1, <1>3, <1>4 DEF Lists
  <2>2. ASSUME NEW k \in 1..MaxHooks, NEW h \in Range(handles'[k])
        PROVE  h \in returned' /\ h.target = k
    <3>1. CASE k = n
      <4>1. handles'[k] = s
        BY <1>1, <1>4, <3>1 DEF Lists
      <4>2. h \in Range(handles[n]) \/ h = cur[t]
        BY <1>3, <2>2, <4>1
      <4> QED
        BY <1>1, <1>4, <3>1, <4>2 DEF Lists
    <3>2. CASE k # n
      <4>1. handles'[k] = handles[k]
        BY <1>4, <3>2 DEF Lists
      <4> QED
        BY <1>4, <2>2, <4>1 DEF Lists
    <3> QED
      BY <3>1, <3>2
  <2>3. returned' \subseteq Handle /\ \A h \in returned' : h.target # None /\ h.id \in 1..hooks'
    <3>1. hooks' = hooks
      BY DEF HookAdd
    <3> QED
      BY <1>1, <1>4, <3>1 DEF Lists
  <2>4. UNCHANGED <<hookedMembers, bridged>>
    BY DEF HookAdd
  <2> QED
    BY <2>1, <2>2, <2>3, <2>4 DEF Lists
<1>8. Past'
  BY <1>4 DEF HookAdd, Past
<1> QED
  BY <1>5, <1>6, <1>7, <1>8

\* unhook() leaves some of the handles of one list.
LEMMA RemoveIfTypeInv ==
  ASSUME TypeInv, NEW t \in Threads, NEW h \in returned, UnhookRemoveIf(t, h)
  PROVE  TypeInv'
<1> USE DEF TypeInv, registry, ghosts
<1> DEFINE n == h.target
           s == Sublist(handles[n], Kept(handles[n], h))
<1>1. h \in Handle /\ n \in 1..MaxHooks
  BY DEF Lists, Handle, None
<1>2. handles[n] \in Seq(Handle)
  BY <1>1 DEF Lists
<1>3. s \in Seq(Handle) /\ Range(s) \subseteq Range(handles[n])
  BY <1>2, SublistPicks, SublistRange
<1>4. handles' = [handles EXCEPT ![n] = s]
  BY DEF UnhookRemoveIf
<1> HIDE DEF s
<1>5. Locals'
  <2>1. cur' = [cur EXCEPT ![t] = h] /\ pc' = [pc EXCEPT ![t] = "isEmpty"]
    BY DEF UnhookRemoveIf, Goto
  <2>2. idx' = [idx EXCEPT ![t] = idx[t]] /\ idx[t] \in Nat
    BY DEF UnhookRemoveIf, Locals
  <2>3. hooks' \in 0..MaxHooks /\ hooks <= hooks'
    BY DEF UnhookRemoveIf, Locals
  <2>4. h \in unhooking' /\ unhooking \subseteq unhooking'
    BY DEF UnhookRemoveIf
  <2> QED
    BY <1>1, <2>1, <2>2, <2>3, <2>4, StepLocals DEF InHook, InUnhook
<1>6. Calls'
  BY StepCalls DEF UnhookRemoveIf, Goto
<1>7. Lists'
  <2>1. handles' \in [1..MaxHooks -> Seq(Handle)]
    BY <1>1, <1>3, <1>4 DEF Lists
  <2>2. UNCHANGED <<hookedMembers, bridged, returned, hooks>>
    BY DEF UnhookRemoveIf
  <2>3. ASSUME NEW k \in 1..MaxHooks, NEW e \in Range(handles'[k])
        PROVE  e \in Range(handles[k])
    BY <1>1, <1>3, <1>4, <2>3 DEF Lists
  <2> QED
    BY <2>1, <2>2, <2>3 DEF Lists
<1>8. Past'
  <2>1. unhooks' \in 0..MaxUnhooks
    BY DEF UnhookRemoveIf, Past
  <2>2. h.member \in Members
    BY <1>1 DEF Handle
  <2>3. PICK hit \in SUBSET Members : overlapped' = overlapped \cup hit /\ raced' = raced \cup hit
    BY <2>2 DEF UnhookRemoveIf
  <2>4. unhooking' = unhooking \cup {h} /\ unhooked' = unhooked /\ returned' = returned
    BY DEF UnhookRemoveIf
  <2> QED
    BY <2>1, <2>3, <2>4 DEF Past
<1> QED
  BY <1>5, <1>6, <1>7, <1>8

\* unhook() after removeIf: what it gives up is well-typed without it.
LEMMA UnhookTypeInv ==
  ASSUME TypeInv, NEW t \in Threads,
         UnhookIsEmpty(t) \/ UnhookRemove(t) \/ UnhookBridge(t)
  PROVE  TypeInv'
<1> USE DEF TypeInv, registry, ghosts
<1>0. pc[t] \in InUnhook /\ cur[t] \in unhooking /\ cur[t] \in Handle
  BY DEF UnhookIsEmpty, UnhookRemove, UnhookBridge, Locals, InUnhook
<1>1. CASE UnhookIsEmpty(t)
  <2>1. Locals'
    <3>1. CASE handles[cur[t].target] = <<>>
      <4>1. Goto(t, "remove") /\ UNCHANGED <<cur, idx>>
        BY <1>1, <3>1 DEF UnhookIsEmpty
      <4> QED
        BY <1>0, <1>1, <4>1, GotoLocals DEF UnhookIsEmpty, InUnhook
    <3>2. CASE handles[cur[t].target] # <<>>
      BY <1>1, <3>2, DoneLocals DEF UnhookIsEmpty
    <3> QED
      BY <3>1, <3>2
  <2>2. PICK l : pc' = [pc EXCEPT ![t] = l]
    BY <1>1 DEF UnhookIsEmpty, Goto, Done
  <2>3. Calls'
    BY <1>1, <2>2, StepCalls DEF UnhookIsEmpty
  <2>4. Lists'
    BY <1>1 DEF UnhookIsEmpty, Lists
  <2>5. Past'
    BY <1>0, <1>1 DEF UnhookIsEmpty, Past
  <2> QED
    BY <2>1, <2>3, <2>4, <2>5
<1>2. CASE UnhookRemove(t)
  <2>1. Locals'
    BY <1>0, <1>2, GotoLocals DEF UnhookRemove, InUnhook
  <2>2. Calls'
    BY <1>2, StepCalls DEF UnhookRemove, Goto
  <2>3. Lists'
    <3>1. None \in 0..MaxHooks
      BY DEF None
    <3>2. hookedMembers' \in [Members -> 0..MaxHooks]
      BY <1>2, <3>1 DEF UnhookRemove, Lists
    <3> QED
      BY <1>2, <3>2 DEF UnhookRemove, Lists
  <2>4. Past'
    BY <1>2 DEF UnhookRemove, Past
  <2> QED
    BY <2>1, <2>2, <2>3, <2>4
<1>3. CASE UnhookBridge(t)
  <2>1. Locals'
    BY <1>3, DoneLocals DEF UnhookBridge
  <2>2. Calls'
    BY <1>3, StepCalls DEF UnhookBridge, Done, Goto
  <2>3. Lists'
    <3>1. bridged' \subseteq Members
      BY <1>3 DEF UnhookBridge, Lists
    <3> QED
      BY <1>3, <3>1 DEF UnhookBridge, Lists
  <2>4. Past'
    BY <1>0, <1>3 DEF UnhookBridge, Past
  <2> QED
    BY <2>1, <2>2, <2>3, <2>4
<1> QED
  BY <1>1, <1>2, <1>3

\* A caller's step leaves the threads and the registry alone; its copy of a list
\* is a list of handles.
LEMMA CallTypeInv ==
  ASSUME TypeInv, NEW c \in Callers,
         (\E m \in Members : CallEnter(c, m)) \/ CallStep(c)
  PROVE  TypeInv'
<1> USE DEF TypeInv, registry, ghosts
<1>1. UNCHANGED <<registry, hooks, unhooks, cur, idx, ghosts>>
  BY DEF CallEnter, CallStep, CallLookup, CallHandle
<1>2. PICK l \in {"idle", "lookBefore", "before", "lookAfter", "after"} :
        pc' = [pc EXCEPT ![c] = l] /\ (l = "idle" \/ pc[c] # "idle" \/ callee'[c] \in Members)
  <2>1. CASE \E m \in Members : CallEnter(c, m)
    BY <2>1 DEF CallEnter, Goto, Calls
  <2>2. CASE CallStep(c)
    <3>1. CASE UNCHANGED pc
      <4>1. pc' = [pc EXCEPT ![c] = pc[c]]
        BY <3>1 DEF Locals
      <4>2. pc[c] \in {"idle", "lookBefore", "before", "lookAfter", "after"}
        BY <2>2 DEF CallStep, CallLookup, CallHandle
      <4> QED
        BY <4>1, <4>2
    <3>2. CASE ~UNCHANGED pc
      BY <2>2, <3>2 DEF CallStep, CallLookup, CallHandle, Goto
    <3> QED
      BY <3>1, <3>2
  <2> QED
    BY <2>1, <2>2
<1>3. Locals'
  <2>1. \A t \in Threads : pc'[t] = pc[t] /\ t # c
    BY <1>2 DEF Locals
  <2>2. pc' \in [Threads \cup Callers ->
               {"idle", "lookBefore", "before", "lookAfter", "after"}
               \cup InHook \cup InUnhook]
    BY <1>2 DEF Locals
  <2> QED
    BY <1>1, <2>1, <2>2 DEF Locals
<1>4. Calls'
  <2>1. callee' \in [Callers -> {<<>>} \cup Members]
    BY DEF CallEnter, CallStep, CallLookup, CallHandle, Calls
  <2>2. \A d \in Callers : pc'[d] # "idle" => callee'[d] \in Members
    <3>1. \A d \in Callers \ {c} : pc'[d] = pc[d] /\ callee'[d] = callee[d]
      BY <1>2 DEF CallEnter, CallStep, CallLookup, CallHandle, Calls, Locals
    <3>2. pc'[c] # "idle" => callee'[c] \in Members
      <4>1. CASE \E m \in Members : CallEnter(c, m)
        BY <4>1 DEF CallEnter, Calls
      <4>2. CASE CallStep(c)
        <5>1. callee' = callee /\ pc[c] # "idle"
          BY <4>2 DEF CallStep, CallLookup, CallHandle
        <5> QED
          BY <5>1 DEF Calls
      <4> QED
        BY <4>1, <4>2
    <3> QED
      BY <3>1, <3>2 DEF Calls
  <2>3. pending' \in [Callers -> Seq(Handle)]
    <3>1. CASE \E m \in Members : CallEnter(c, m)
      BY <3>1 DEF CallEnter, Calls
    <3>2. ASSUME NEW look, NEW run, NEW next, NEW type,
                 CallLookup(c, look, run, next, type), pc[c] # "idle"
          PROVE  pending' \in [Callers -> Seq(Handle)]
      <4> DEFINE m == callee[c]
                 s == handles[hookedMembers[m]]
      <4>1. CASE hookedMembers[m] = None
        BY <3>2, <4>1 DEF CallLookup, Calls
      <4>2. CASE hookedMembers[m] # None
        <5>1. m \in Members
          BY <3>2 DEF Calls
        <5>2. hookedMembers[m] \in 1..MaxHooks
          BY <4>2, <5>1 DEF Lists, None
        <5>3. s \in Seq(Handle)
          BY <5>2 DEF Lists
        <5>4. Sublist(s, OfType(s, type)) \in Seq(Handle)
          BY <5>3, SublistPicks
        <5>5. pending' = [pending EXCEPT ![c] = Sublist(s, OfType(s, type))]
          BY <3>2, <4>2 DEF CallLookup
        <5> HIDE DEF s
        <5> QED
          BY <5>4, <5>5 DEF Calls
      <4> QED
        BY <4>1, <4>2
    <3>3. ASSUME NEW run, NEW next, CallHandle(c, run, next)
          PROVE  pending' \in [Callers -> Seq(Handle)]
      <4>1. pending[c] \in Seq(Handle)
        BY DEF Calls
      <4>2. pending[c] # <<>> => Tail(pending[c]) \in Seq(Handle)
        BY <4>1
      <4>3. <<>> \in Seq(Handle)
        OBVIOUS
      <4> QED
        BY <3>3, <4>2, <4>3 DEF CallHandle, Calls
    <3> QED
      <4>1. CASE CallStep(c)
        BY <4>1, <3>2, <3>3 DEF CallStep, CallLookup
      <4> QED
        BY <3>1, <4>1
  <2> QED
    BY <2>1, <2>2, <2>3 DEF Calls
<1>5. Lists' /\ Past'
  BY <1>1 DEF Lists, Past
<1> QED
  BY <1>3, <1>4, <1>5

\* Every step keeps TypeInv.
LEMMA StepTypeInv == TypeInv /\ [Next]_vars => TypeInv'
<1> SUFFICES ASSUME TypeInv, [Next]_vars PROVE TypeInv'
  OBVIOUS
<1>1. CASE UNCHANGED vars
  BY <1>1 DEF vars, TypeInv, Locals, Calls, Lists, Past
<1>2. ASSUME NEW t \in Threads, NEW m \in Members, NEW r \in Requests, HookLookup(t, m, r)
      PROVE  TypeInv'
  BY <1>2, LookupTypeInv
<1>3. ASSUME NEW t \in Threads, HookStep(t) PROVE TypeInv'
  BY <1>3, HookTypeInv, PutTypeInv, IndexTypeInv, AddTypeInv DEF HookStep
<1>4. ASSUME NEW t \in Threads, NEW h \in returned, UnhookRemoveIf(t, h) PROVE TypeInv'
  BY <1>4, RemoveIfTypeInv
<1>5. ASSUME NEW t \in Threads, UnhookStep(t) PROVE TypeInv'
  BY <1>5, UnhookTypeInv DEF UnhookStep
<1>6. ASSUME NEW c \in Callers, (\E m \in Members : CallEnter(c, m)) \/ CallStep(c)
      PROVE  TypeInv'
  BY <1>6, CallTypeInv
<1> QED
  BY <1>1, <1>2, <1>3, <1>4, <1>5, <1>6 DEF Next

\* Every reachable state has TypeInv.
LEMMA TypeInvariance == Spec => []TypeInv
BY InitTypeInv, StepTypeInv, PTL DEF Spec

\* Every reachable state of the registry is well-typed: a handle in the making is
\* never added before it is bound to its HookedMember, for any number of
\* threads, members and requests.  (Xposed.kt 121-153)
THEOREM TypeCorrect == Spec => []TypeOK
BY TypeInvariance, TypeInvTypeOK, PTL

----
\* What leaves a list

\* The step changes no list, or it is one of the two that do.
LEMMA ListSteps ==
  ASSUME [Next]_vars
  PROVE  \/ UNCHANGED <<handles, returned, unhooking>>
         \/ \E t \in Threads : HookAdd(t)
         \/ \E t \in Threads, h \in returned : UnhookRemoveIf(t, h)
<1>1. CASE UNCHANGED vars
  BY <1>1 DEF vars
<1>2. ASSUME NEW t \in Threads, NEW m \in Members, NEW r \in Requests, HookLookup(t, m, r)
      PROVE  UNCHANGED <<handles, returned, unhooking>>
  BY <1>2 DEF HookLookup, registry
<1>3. ASSUME NEW t \in Threads, HookStep(t)
      PROVE  UNCHANGED <<handles, returned, unhooking>> \/ HookAdd(t)
  BY <1>3 DEF HookStep, HookBridge, HookBridgeThrows, HookPut, HookIndex, HookSize,
              HookAddThrows, registry, ghosts
<1>4. ASSUME NEW t \in Threads, UnhookStep(t)
      PROVE  UNCHANGED <<handles, returned, unhooking>>
  BY <1>4 DEF UnhookStep, UnhookIsEmpty, UnhookRemove, UnhookBridge, registry, ghosts
<1>5. ASSUME NEW c \in Callers, (\E m \in Members : CallEnter(c, m)) \/ CallStep(c)
      PROVE  UNCHANGED <<handles, returned, unhooking>>
  BY <1>5 DEF CallEnter, CallStep, CallLookup, CallHandle, registry, ghosts
<1> QED
  BY <1>1, <1>2, <1>3, <1>4, <1>5 DEF Next

\* What HookAdd and UnhookRemoveIf leave in a list
LEMMA AddRange ==
  ASSUME TypeInv, NEW t \in Threads, HookAdd(t), NEW n \in 1..MaxHooks
  PROVE  /\ cur[t].target \in 1..MaxHooks
         /\ Range(handles'[n]) =
              Range(handles[n]) \cup (IF n = cur[t].target THEN {cur[t]} ELSE {})
<1> DEFINE k == cur[t].target
           s == InsertAt(handles[k], idx[t], cur[t])
<1>1. cur[t] \in Handle /\ k \in 1..MaxHooks /\ idx[t] \in Nat /\ idx[t] # 0
  BY DEF HookAdd, TypeInv, Locals, Handle, None
<1>2. handles[k] \in Seq(Handle)
  BY <1>1 DEF TypeInv, Lists
<1>3. idx[t] \in 1..(Len(handles[k]) + 1)
  <2>1. idx[t] <= Len(handles[k]) + 1
    BY DEF HookAdd
  <2> QED
    BY <1>1, <1>2, <2>1
<1>4. Range(s) = Range(handles[k]) \cup {cur[t]}
  BY <1>1, <1>2, <1>3, InsertAtRange
<1>5. handles' = [handles EXCEPT ![k] = s]
  BY DEF HookAdd
<1> HIDE DEF s
<1>6. handles'[n] = IF n = k THEN s ELSE handles[n]
  BY <1>1, <1>5 DEF TypeInv, Lists
<1> QED
  BY <1>1, <1>4, <1>6

\* unhook() leaves the handles of the list with another callback, in that list only.
LEMMA RemoveRange ==
  ASSUME TypeInv, NEW t \in Threads, NEW h \in returned, UnhookRemoveIf(t, h),
         NEW n \in 1..MaxHooks
  PROVE  /\ h.target \in 1..MaxHooks
         /\ Range(handles'[n]) =
              {e \in Range(handles[n]) :
                 n = h.target => e.req.callback # h.req.callback}
<1> DEFINE k == h.target
           s == Sublist(handles[k], Kept(handles[k], h))
<1>1. k \in 1..MaxHooks
  BY DEF TypeInv, Lists, Handle, None
<1>2. handles[k] \in Seq(Handle)
  BY <1>1 DEF TypeInv, Lists
<1>3. Range(s) = {e \in Range(handles[k]) : e.req.callback # h.req.callback}
  <2>1. Range(s) = Range(handles[k]) \cap Kept(handles[k], h)
    BY <1>2, SublistRange
  <2> QED
    BY <2>1 DEF Kept
<1>4. handles' = [handles EXCEPT ![k] = s]
  BY DEF UnhookRemoveIf
<1> HIDE DEF s
<1>5. handles'[n] = IF n = k THEN s ELSE handles[n]
  BY <1>1, <1>4 DEF TypeInv, Lists
<1> QED
  BY <1>1, <1>3, <1>5

\* RemovedOnlyByUnhook is inductive over TypeInv.
LEMMA StepRemoved ==
  ASSUME TypeInv, RemovedOnlyByUnhook, [Next]_vars
  PROVE  RemovedOnlyByUnhook'
<1>1. CASE UNCHANGED <<handles, returned, unhooking>>
  BY <1>1 DEF RemovedOnlyByUnhook
<1>2. ASSUME NEW t \in Threads, HookAdd(t) PROVE RemovedOnlyByUnhook'
  <2>1. returned' = returned \cup {cur[t]} /\ unhooking' = unhooking
    BY <1>2 DEF HookAdd
  <2>2. cur[t] \in Range(handles'[cur[t].target])
    <3>1. cur[t].target \in 1..MaxHooks
      BY <1>2 DEF HookAdd, TypeInv, Locals, Handle, None
    <3> QED
      BY <1>2, <3>1, AddRange
  <2>3. \A h \in returned : Range(handles[h.target]) \subseteq Range(handles'[h.target])
    <3>1. \A h \in returned : h.target \in 1..MaxHooks
      BY DEF TypeInv, Lists, Handle, None
    <3> QED
      BY <1>2, <3>1, AddRange
  <2> QED
    BY <2>1, <2>2, <2>3 DEF RemovedOnlyByUnhook
<1>3. ASSUME NEW t \in Threads, NEW u \in returned, UnhookRemoveIf(t, u)
      PROVE  RemovedOnlyByUnhook'
  <2>1. returned' = returned /\ unhooking' = unhooking \cup {u}
    BY <1>3 DEF UnhookRemoveIf
  <2>2. ASSUME NEW h \in returned, h \notin Range(handles'[h.target])
        PROVE  \E v \in unhooking' : v.target = h.target /\ v.req.callback = h.req.callback
    <3>1. h.target \in 1..MaxHooks
      BY DEF TypeInv, Lists, Handle, None
    <3>2. CASE h \in Range(handles[h.target])
      <4>1. h.target = u.target /\ h.req.callback = u.req.callback
        BY <1>3, <2>2, <3>1, <3>2, RemoveRange
      <4> QED
        BY <2>1, <4>1
    <3>3. CASE h \notin Range(handles[h.target])
      BY <2>1, <3>3 DEF RemovedOnlyByUnhook
    <3> QED
      BY <3>2, <3>3
  <2> QED
    BY <2>1, <2>2 DEF RemovedOnlyByUnhook
<1> QED
  BY <1>1, <1>2, <1>3, ListSteps

\* Whatever overlaps, a handle leaves its list only through unhook() of a handle
\* of the same HookedMember with the same callback.  (Xposed.kt 142)
THEOREM RemovalByUnhook == Spec => []RemovedOnlyByUnhook
<1>1. Init => RemovedOnlyByUnhook
  BY DEF Init, RemovedOnlyByUnhook
<1>2. TypeInv /\ RemovedOnlyByUnhook /\ [Next]_vars => RemovedOnlyByUnhook'
  BY StepRemoved
<1> QED
  BY <1>1, <1>2, TypeInvariance, PTL DEF Spec

----
\* What a call may run

\* The numbers of the handles in the making are new.
Fresh ==
  /\ \A t \in Threads, h \in returned : pc[t] \in InHook => cur[t].id # h.id
  /\ \A t, u \in Threads :
       pc[t] \in InHook /\ pc[u] \in InHook /\ t # u => cur[t].id # cur[u].id

\* A handle that unhook() was called on is gone from its list for good.
Gone == \A u \in unhooking : u \notin Range(handles[u.target])

\* A caller starts a phase with nothing left to call.
Rested ==
  \A c \in Callers : pc[c] \in {"idle", "lookBefore", "lookAfter"} => pending[c] = <<>>

\* A step that starts no hook() keeps Fresh, for it makes no handle.
LEMMA KeepFresh ==
  ASSUME TypeInv, Fresh, UNCHANGED returned,
         \A t \in Threads : pc'[t] \in InHook => pc[t] \in InHook /\ cur'[t].id = cur[t].id
  PROVE  Fresh'
BY DEF Fresh

\* A hook() call takes a number that no handle has.
LEMMA StepFresh ==
  ASSUME TypeInv, Fresh, [Next]_vars
  PROVE  Fresh'
<1>1. CASE UNCHANGED vars
  BY <1>1 DEF vars, Fresh
<1>2. ASSUME NEW t \in Threads, NEW m \in Members, NEW r \in Requests, HookLookup(t, m, r)
      PROVE  Fresh'
  <2>1. cur'[t].id = hooks + 1 /\ returned' = returned
    BY <1>2 DEF HookLookup, TypeInv, Locals
  <2>2. \A u \in Threads : u # t => pc'[u] = pc[u] /\ cur'[u] = cur[u]
    BY <1>2 DEF HookLookup, Goto, TypeInv, Locals
  <2>3. \A u \in Threads : pc[u] \in InHook => cur[u].id # hooks + 1
    BY DEF TypeInv, Locals
  <2>4. \A h \in returned : h.id # hooks + 1
    BY DEF TypeInv, Locals, Lists
  <2> QED
    BY <2>1, <2>2, <2>3, <2>4 DEF Fresh
<1>3. ASSUME NEW t \in Threads, HookStep(t), ~HookAdd(t) PROVE Fresh'
  <2>1. returned' = returned /\ pc[t] \in InHook
    BY <1>3 DEF HookStep, HookBridge, HookBridgeThrows, HookPut, HookIndex, HookSize,
                HookAddThrows, ghosts, InHook
  <2>2. \A u \in Threads : u # t => pc'[u] = pc[u] /\ cur'[u] = cur[u]
    BY <1>3 DEF HookStep, HookBridge, HookBridgeThrows, HookPut, HookIndex, HookSize,
                HookAddThrows, Goto, Done, TypeInv, Locals
  <2>3. pc'[t] = "idle" \/ cur'[t].id = cur[t].id
    <3>1. cur[t] \in Handle
      BY <2>1 DEF TypeInv, Locals, InHook
    <3>2. CASE HookPut(t)
      BY <3>1, <3>2 DEF HookPut, TypeInv, Locals, Handle
    <3> QED
      BY <1>3, <3>2 DEF HookStep, HookBridge, HookBridgeThrows, HookIndex, HookSize,
                  HookAddThrows, Goto, Done, TypeInv, Locals
  <2> QED
    BY <2>1, <2>2, <2>3, KeepFresh DEF InHook
<1>4. ASSUME NEW t \in Threads, HookAdd(t) PROVE Fresh'
  <2>1. pc[t] \in InHook /\ pc'[t] = "idle" /\ returned' = returned \cup {cur[t]}
    BY <1>4 DEF HookAdd, Done, Goto, InHook, TypeInv, Locals
  <2>2. \A u \in Threads : u # t => pc'[u] = pc[u] /\ cur'[u] = cur[u]
    BY <1>4 DEF HookAdd, Done, Goto, TypeInv, Locals
  <2>3. "idle" \notin InHook
    BY DEF InHook
  <2> QED
    BY <2>1, <2>2, <2>3 DEF Fresh
<1>5. ASSUME NEW t \in Threads, NEW h \in returned, UnhookRemoveIf(t, h) PROVE Fresh'
  <2>1. pc'[t] \notin InHook /\ returned' = returned
    BY <1>5 DEF UnhookRemoveIf, Goto, InHook, TypeInv, Locals
  <2>2. \A u \in Threads : u # t => pc'[u] = pc[u] /\ cur'[u] = cur[u]
    BY <1>5 DEF UnhookRemoveIf, Goto, TypeInv, Locals
  <2> QED
    BY <2>1, <2>2, KeepFresh
<1>6. ASSUME NEW t \in Threads, UnhookStep(t) PROVE Fresh'
  <2>1. pc'[t] \notin InHook /\ returned' = returned
    BY <1>6 DEF UnhookStep, UnhookIsEmpty, UnhookRemove, UnhookBridge, Goto, Done, InHook,
                ghosts, TypeInv, Locals
  <2>2. \A u \in Threads : u # t => pc'[u] = pc[u] /\ cur'[u] = cur[u]
    BY <1>6 DEF UnhookStep, UnhookIsEmpty, UnhookRemove, UnhookBridge, Goto, Done, TypeInv, Locals
  <2> QED
    BY <2>1, <2>2, KeepFresh
<1>7. ASSUME NEW c \in Callers, (\E m \in Members : CallEnter(c, m)) \/ CallStep(c)
      PROVE  Fresh'
  <2>1. cur' = cur /\ returned' = returned
    BY <1>7 DEF CallEnter, CallStep, CallLookup, CallHandle, ghosts
  <2>2. \A u \in Threads : pc'[u] = pc[u]
    BY <1>7 DEF CallEnter, CallStep, CallLookup, CallHandle, Goto, TypeInv, Locals
  <2> QED
    BY <2>1, <2>2, KeepFresh
<1> QED
  BY <1>1, <1>2, <1>3, <1>4, <1>5, <1>6, <1>7 DEF Next

\* Only handles with new numbers are added, so one that unhook() was called on
\* does not come back.
LEMMA StepGone ==
  ASSUME TypeInv, Fresh, Gone, [Next]_vars
  PROVE  Gone'
<1>0. \A h \in returned : h.target \in 1..MaxHooks
  BY DEF TypeInv, Lists, Handle, None
<1>1. CASE UNCHANGED <<handles, returned, unhooking>>
  BY <1>1 DEF Gone
<1>2. ASSUME NEW t \in Threads, HookAdd(t), NEW u \in unhooking'
      PROVE  u \notin Range(handles'[u.target])
  <2>1. u \in unhooking /\ u \in returned
    BY <1>2 DEF HookAdd, TypeInv, Past
  <2>2. u.id # cur[t].id
    BY <1>2, <2>1 DEF HookAdd, Fresh, InHook
  <2> QED
    BY <1>0, <1>2, <2>1, <2>2, AddRange DEF Gone
<1>3. ASSUME NEW t \in Threads, NEW h \in returned, UnhookRemoveIf(t, h), NEW u \in unhooking'
      PROVE  u \notin Range(handles'[u.target])
  <2>1. u \in unhooking \cup {h} /\ u \in returned
    BY <1>3 DEF UnhookRemoveIf, TypeInv, Past
  <2> QED
    BY <1>0, <1>3, <2>1, RemoveRange DEF Gone
<1> QED
  BY <1>1, <1>2, <1>3, ListSteps DEF Gone

\* A loop over handles ends with nothing left.
LEMMA StepRested ==
  ASSUME TypeInv, Rested, [Next]_vars
  PROVE  Rested'
<1>1. CASE UNCHANGED vars
  BY <1>1 DEF vars, Rested
<1>2. ASSUME NEW t \in Threads, NEW l, Goto(t, l), UNCHANGED caller PROVE Rested'
  <2>1. \A c \in Callers : pc'[c] = pc[c] /\ pending'[c] = pending[c]
    BY <1>2 DEF Goto, caller, TypeInv, Locals
  <2> QED
    BY <2>1 DEF Rested
<1>3. ASSUME NEW t \in Threads,
             \/ \E m \in Members, r \in Requests : HookLookup(t, m, r)
             \/ HookStep(t)
             \/ \E h \in returned : UnhookRemoveIf(t, h)
             \/ UnhookStep(t)
      PROVE  UNCHANGED caller /\ \E l : Goto(t, l)
  BY <1>3 DEF HookLookup, HookStep, HookBridge, HookBridgeThrows, HookPut, HookIndex, HookSize,
              HookAdd, HookAddThrows, UnhookRemoveIf, UnhookStep, UnhookIsEmpty, UnhookRemove,
              UnhookBridge, Done, Goto, caller
<1>4. ASSUME NEW c \in Callers, (\E m \in Members : CallEnter(c, m)) \/ CallStep(c)
      PROVE  Rested'
  <2>1. \A d \in Callers \ {c} : pc'[d] = pc[d] /\ pending'[d] = pending[d]
    BY <1>4 DEF CallEnter, CallStep, CallLookup, CallHandle, Goto, TypeInv, Locals, Calls
  <2>2. pc'[c] \in {"idle", "lookBefore", "lookAfter"} => pending'[c] = <<>>
    <3>1. CASE \E m \in Members : CallEnter(c, m)
      BY <3>1 DEF CallEnter, Rested
    <3>2. ASSUME NEW look, NEW run, NEW next, NEW type,
                 CallLookup(c, look, run, next, type), look \in {"lookBefore", "lookAfter"},
                 run \in {"before", "after"}
          PROVE  pc'[c] \in {"idle", "lookBefore", "lookAfter"} => pending'[c] = <<>>
      BY <3>2 DEF CallLookup, Goto, Rested, TypeInv, Locals
    <3>3. ASSUME NEW run, NEW next, CallHandle(c, run, next), run \in {"before", "after"}
          PROVE  pc'[c] \in {"idle", "lookBefore", "lookAfter"} => pending'[c] = <<>>
      BY <3>3 DEF CallHandle, Goto, Rested, TypeInv, Locals, Calls
    <3> QED
      BY <1>4, <3>1, <3>2, <3>3 DEF CallStep
  <2> QED
    BY <2>1, <2>2 DEF Rested
<1> QED
  BY <1>1, <1>2, <1>3, <1>4 DEF Next

CallInv == TypeInv /\ Fresh /\ Gone /\ Rested

\* What the next theorem rests on holds in every reachable state.
LEMMA CallInvariance == Spec => []CallInv
<1>1. Init => CallInv
  BY InitTypeInv DEF Init, CallInv, Fresh, Gone, Rested, InHook
<1>2. CallInv /\ [Next]_vars => CallInv'
  BY StepTypeInv, StepFresh, StepGone, StepRested DEF CallInv
<1> QED
  BY <1>1, <1>2, PTL DEF Spec

\* A caller that leaves a lookup has looked its member up.
LEMMA LooksUp ==
  ASSUME TypeInv, [Next]_vars, NEW c \in Callers,
         pc[c] \in {"lookBefore", "lookAfter"}, pc'[c] # pc[c]
  PROVE  \/ CallLookup(c, "lookBefore", "before", "lookAfter", "BEFORE")
         \/ CallLookup(c, "lookAfter", "after", "idle", "AFTER")
<1>1. ASSUME NEW t \in Threads,
             \/ \E m \in Members, r \in Requests : HookLookup(t, m, r)
             \/ HookStep(t)
             \/ \E h \in returned : UnhookRemoveIf(t, h)
             \/ UnhookStep(t)
      PROVE  pc'[c] = pc[c]
  BY <1>1 DEF HookLookup, HookStep, HookBridge, HookBridgeThrows, HookPut, HookIndex,
              HookSize, HookAdd, HookAddThrows, UnhookRemoveIf, UnhookStep, UnhookIsEmpty,
              UnhookRemove, UnhookBridge, Done, Goto, TypeInv, Locals
<1>2. ASSUME NEW d \in Callers, (\E m \in Members : CallEnter(d, m)) \/ CallStep(d)
      PROVE  \/ CallLookup(c, "lookBefore", "before", "lookAfter", "BEFORE")
             \/ CallLookup(c, "lookAfter", "after", "idle", "AFTER")
  <2>1. d = c
    BY <1>2 DEF CallEnter, CallStep, CallLookup, CallHandle, Goto, TypeInv, Locals
  <2> QED
    BY <1>2, <2>1 DEF CallEnter, CallStep, CallHandle
<1> QED
  BY <1>1, <1>2 DEF Next, vars

\* Whatever overlaps, a call that looks its member up after unhook() has
\* returned does not run that handle.  (Xposed.kt 79, 88)
THEOREM UnhookedStaysUncalled == Spec => UnhookedNotCalledAnew
<1> DEFINE A == \A c \in Callers :
                  pc[c] \in {"lookBefore", "lookAfter"} /\ pc'[c] # pc[c] =>
                    Range(pending'[c]) \cap unhooked = {}
<1>1. CallInv /\ [Next]_vars => A
  <2> SUFFICES ASSUME CallInv, [Next]_vars, NEW c \in Callers,
                      pc[c] \in {"lookBefore", "lookAfter"}, pc'[c] # pc[c]
               PROVE  Range(pending'[c]) \cap unhooked = {}
    OBVIOUS
  <2> USE DEF CallInv
  <2>1. PICK look, run, next, type : CallLookup(c, look, run, next, type)
    BY LooksUp
  <2> DEFINE m == callee[c]
             s == handles[hookedMembers[m]]
  <2>2. CASE hookedMembers[m] = None
    <3>1. pending'[c] = <<>>
      BY <2>1, <2>2 DEF CallLookup, Rested
    <3> QED
      BY <3>1 DEF Range
  <2>3. CASE hookedMembers[m] # None
    <3>1. m \in Members
      BY DEF TypeInv, Calls
    <3>2. hookedMembers[m] \in 1..MaxHooks
      BY <2>3, <3>1 DEF TypeInv, Lists, None
    <3>3. s \in Seq(Handle) /\ \A h \in Range(s) : h.target = hookedMembers[m]
      BY <3>2 DEF TypeInv, Lists
    <3>4. Range(Sublist(s, OfType(s, type))) \subseteq Range(s)
      BY <3>3, SublistRange
    <3>5. pending'[c] = Sublist(s, OfType(s, type))
      BY <2>1, <2>3 DEF CallLookup, TypeInv, Calls
    <3> HIDE DEF m
    <3>6. \A h \in Range(s) : h \notin unhooked
      BY <3>3 DEF Gone, TypeInv, Past
    <3> QED
      BY <3>4, <3>5, <3>6
  <2> QED
    BY <2>2, <2>3
<1> QED
  BY <1>1, CallInvariance, PTL DEF Spec, UnhookedNotCalledAnew

----
\* Which member a HookedMember is for

\* The step of a thread, or one that leaves the threads and the registry alone
LEMMA ThreadSteps ==
  ASSUME TypeInv, [Next]_vars
  PROVE  \/ /\ UNCHANGED <<hookedMembers, handles, bridged, hooks, cur, returned,
                           unhooking, overlapped, raced>>
            /\ \A t \in Threads : pc'[t] = pc[t]
         \/ \E t \in Threads :
              \/ \E m \in Members, r \in Requests : HookLookup(t, m, r)
              \/ HookStep(t)
              \/ \E h \in returned : UnhookRemoveIf(t, h)
              \/ UnhookStep(t)
<1>1. CASE UNCHANGED vars
  BY <1>1 DEF vars
<1>2. ASSUME NEW c \in Callers, (\E m \in Members : CallEnter(c, m)) \/ CallStep(c)
      PROVE  /\ UNCHANGED <<hookedMembers, handles, bridged, hooks, cur, returned,
                            unhooking, overlapped, raced>>
             /\ \A t \in Threads : pc'[t] = pc[t]
  <2>1. UNCHANGED <<registry, hooks, cur, ghosts>>
    BY <1>2 DEF CallEnter, CallStep, CallLookup, CallHandle
  <2>2. \A t \in Threads : pc'[t] = pc[t]
    BY <1>2 DEF CallEnter, CallStep, CallLookup, CallHandle, Goto, TypeInv, Locals
  <2> QED
    BY <2>1, <2>2 DEF registry, ghosts
<1> QED
  BY <1>1, <1>2 DEF Next

\* The step of a thread leaves the other threads where they are.
LEMMA OtherThreads ==
  ASSUME TypeInv, NEW t \in Threads,
         \/ \E m \in Members, r \in Requests : HookLookup(t, m, r)
         \/ HookStep(t)
         \/ \E h \in returned : UnhookRemoveIf(t, h)
         \/ UnhookStep(t)
  PROVE  \A u \in Threads : u # t => pc'[u] = pc[u] /\ cur'[u] = cur[u]
<1>1. ASSUME NEW m \in Members, NEW r \in Requests, HookLookup(t, m, r)
      PROVE  \A u \in Threads : u # t => pc'[u] = pc[u] /\ cur'[u] = cur[u]
  BY <1>1 DEF HookLookup, Goto, TypeInv, Locals
<1>2. CASE HookStep(t)
  BY <1>2 DEF HookStep, HookBridge, HookBridgeThrows, HookPut, HookIndex, HookSize,
              HookAdd, HookAddThrows, Goto, Done, TypeInv, Locals
<1>3. ASSUME NEW h \in returned, UnhookRemoveIf(t, h)
      PROVE  \A u \in Threads : u # t => pc'[u] = pc[u] /\ cur'[u] = cur[u]
  BY <1>3 DEF UnhookRemoveIf, Goto, TypeInv, Locals
<1>4. CASE UnhookStep(t)
  BY <1>4 DEF UnhookStep, UnhookIsEmpty, UnhookRemove, UnhookBridge, Goto, Done,
              TypeInv, Locals
<1> QED
  BY <1>1, <1>2, <1>3, <1>4

\* own tells which member the HookedMember of a number is, or will be, for.
Owns(own) ==
  /\ \A m \in Members :
       hookedMembers[m] # None => hookedMembers[m] <= hooks /\ own[hookedMembers[m]] = m
  /\ \A h \in returned : h.target <= hooks /\ own[h.target] = h.member
  /\ \A t \in Threads : pc[t] \in InHook =>
       /\ own[cur[t].id] = cur[t].member
       /\ cur[t].target # None =>
            cur[t].target <= hooks /\ own[cur[t].target] = cur[t].member

\* A HookedMember is for one member.
OwnerInv == \E own \in [1..MaxHooks -> Members \cup {None}] : Owns(own)

\* A step that registers, returns and makes nothing keeps the owners.
LEMMA KeepOwns ==
  ASSUME NEW own, Owns(own), UNCHANGED <<hooks, returned>>,
         \A m \in Members : hookedMembers'[m] \in {None, hookedMembers[m]},
         \A t \in Threads : pc'[t] \in InHook => pc[t] \in InHook /\ cur'[t] = cur[t]
  PROVE  Owns(own)'
BY DEF Owns

\* hook() is the only step that names a new HookedMember, with a number that no
\* member has.
LEMMA StepOwner ==
  ASSUME TypeInv, OwnerInv, [Next]_vars
  PROVE  OwnerInv'
<1>0. PICK own \in [1..MaxHooks -> Members \cup {None}] : Owns(own)
  BY DEF OwnerInv
<1>1. CASE /\ UNCHANGED <<hookedMembers, handles, bridged, hooks, cur, returned,
                          unhooking, overlapped, raced>>
           /\ \A t \in Threads : pc'[t] = pc[t]
  <2>1. Owns(own)'
    BY <1>0, <1>1 DEF Owns
  <2> QED
    BY <2>1 DEF OwnerInv
<1>2. ASSUME NEW t \in Threads, NEW m \in Members, NEW r \in Requests, HookLookup(t, m, r)
      PROVE  OwnerInv'
  <2>0. PICK n : n = hooks + 1
    OBVIOUS
  <2> DEFINE new == [own EXCEPT ![n] = m]
  <2>1. hooks \in Nat /\ hooks + 1 \in 1..MaxHooks /\ hooks' = hooks + 1
    BY <1>2 DEF HookLookup, TypeInv, Locals
  <2>2. new \in [1..MaxHooks -> Members \cup {None}] /\ new[hooks + 1] = m
    BY <2>0, <2>1
  <2>3. \A k \in 1..hooks : new[k] = own[k] /\ k <= hooks'
    BY <2>0, <2>1
  <2>4. UNCHANGED <<hookedMembers, returned>>
    BY <1>2 DEF HookLookup, registry
  <2>5. \A u \in Threads : u # t => pc'[u] = pc[u] /\ cur'[u] = cur[u]
    BY <1>2, OtherThreads
  <2>6. /\ cur'[t].id = hooks + 1 /\ cur'[t].member = m
        /\ cur'[t].target = hookedMembers[m]
    BY <1>2 DEF HookLookup, TypeInv, Locals
  <2> HIDE DEF new
  <2>7. \A k \in Members : hookedMembers[k] # None =>
          hookedMembers[k] <= hooks' /\ new[hookedMembers[k]] = k
    <3>1. \A k \in Members : hookedMembers[k] # None => hookedMembers[k] \in 1..hooks
      BY <1>0, <2>1 DEF Owns, TypeInv, Lists, None
    <3> QED
      BY <1>0, <2>3, <3>1 DEF Owns
  <2>8. \A h \in returned : h.target <= hooks' /\ new[h.target] = h.member
    <3>1. \A h \in returned : h.target \in 1..hooks
      BY <1>0, <2>1 DEF Owns, TypeInv, Lists, Handle, None
    <3> QED
      BY <1>0, <2>3, <3>1 DEF Owns
  <2>9. ASSUME NEW u \in Threads, pc'[u] \in InHook
        PROVE  /\ new[cur'[u].id] = cur'[u].member
               /\ cur'[u].target # None =>
                    cur'[u].target <= hooks' /\ new[cur'[u].target] = cur'[u].member
    <3>1. CASE u = t
      BY <2>2, <2>6, <2>7, <3>1
    <3>2. CASE u # t
      <4>1. pc[u] \in InHook /\ cur'[u] = cur[u] /\ cur[u].id \in 1..hooks /\ cur[u] \in Handle
        BY <2>5, <2>9, <3>2 DEF TypeInv, Locals, InHook
      <4>2. cur[u].target # None => cur[u].target \in 1..hooks
        BY <1>0, <2>1, <4>1 DEF Owns, Handle, None
      <4> QED
        BY <1>0, <2>3, <4>1, <4>2 DEF Owns
    <3> QED
      BY <3>1, <3>2
  <2>10. Owns(new)'
    BY <2>4, <2>7, <2>8, <2>9 DEF Owns
  <2> QED
    BY <2>2, <2>10 DEF OwnerInv
<1>3. ASSUME NEW t \in Threads, HookStep(t) PROVE OwnerInv'
  <2>0. \A u \in Threads : u # t => pc'[u] = pc[u] /\ cur'[u] = cur[u]
    BY <1>3, OtherThreads
  <2>1. pc[t] \in InHook /\ cur[t] \in Handle /\ cur[t].id \in 1..hooks
    BY <1>3 DEF HookStep, HookBridge, HookBridgeThrows, HookPut, HookIndex, HookSize,
                HookAdd, HookAddThrows, InHook, TypeInv, Locals
  <2>2. CASE HookPut(t)
    <3>1. hookedMembers' = [hookedMembers EXCEPT ![cur[t].member] = cur[t].id]
      BY <2>2 DEF HookPut
    <3>2. UNCHANGED <<hooks, returned>>
      BY <2>2 DEF HookPut, ghosts
    <3>3. /\ cur'[t].id = cur[t].id /\ cur'[t].member = cur[t].member
          /\ cur'[t].target = cur[t].id
      BY <2>1, <2>2 DEF HookPut, TypeInv, Locals, Handle
    <3>4. \A k \in Members :
            hookedMembers'[k] # None => hookedMembers'[k] <= hooks /\ own[hookedMembers'[k]] = k
      BY <1>0, <2>1, <3>1 DEF Owns, TypeInv, Lists, Locals
    <3>5. cur[t].id <= hooks
      BY <2>1 DEF TypeInv, Locals
    <3>6. Owns(own)'
      BY <1>0, <2>0, <2>1, <3>2, <3>3, <3>4, <3>5 DEF Owns
    <3> QED
      BY <3>6 DEF OwnerInv
  <2>3. CASE HookAdd(t)
    <3>1. returned' = returned \cup {cur[t]} /\ UNCHANGED <<hooks, hookedMembers>>
      BY <2>3 DEF HookAdd
    <3>2. pc'[t] \notin InHook
      BY <2>3 DEF HookAdd, Done, Goto, InHook, TypeInv, Locals
    <3>3. cur[t].target <= hooks /\ own[cur[t].target] = cur[t].member
      BY <1>0, <2>1, <2>3 DEF HookAdd, Owns, TypeInv, Locals
    <3>4. Owns(own)'
      BY <1>0, <2>0, <3>1, <3>2, <3>3 DEF Owns
    <3> QED
      BY <3>4 DEF OwnerInv
  <2>4. CASE ~HookPut(t) /\ ~HookAdd(t)
    <3>1. UNCHANGED <<hooks, returned, hookedMembers>>
      BY <1>3, <2>4 DEF HookStep, HookBridge, HookBridgeThrows, HookIndex, HookSize,
                        HookAddThrows, registry, ghosts
    <3>2. pc'[t] = "idle" \/ cur' = cur
      BY <1>3, <2>4 DEF HookStep, HookBridge, HookBridgeThrows, HookIndex, HookSize,
                        HookAddThrows, Done, Goto, TypeInv, Locals
    <3>3. \A u \in Threads : pc'[u] \in InHook => pc[u] \in InHook /\ cur'[u] = cur[u]
      BY <2>0, <2>1, <3>2 DEF InHook
    <3>4. Owns(own)'
      BY <1>0, <3>1, <3>3, KeepOwns
    <3> QED
      BY <3>4 DEF OwnerInv
  <2> QED
    BY <2>2, <2>3, <2>4
<1>4. ASSUME NEW t \in Threads,
             (\E h \in returned : UnhookRemoveIf(t, h)) \/ UnhookStep(t)
      PROVE  OwnerInv'
  <2>1. \A u \in Threads : u # t => pc'[u] = pc[u] /\ cur'[u] = cur[u]
    BY <1>4, OtherThreads
  <2>2. pc'[t] \notin InHook
    BY <1>4 DEF UnhookRemoveIf, UnhookStep, UnhookIsEmpty, UnhookRemove, UnhookBridge,
                Goto, Done, InHook, TypeInv, Locals
  <2>3. UNCHANGED <<hooks, returned>>
    BY <1>4 DEF UnhookRemoveIf, UnhookStep, UnhookIsEmpty, UnhookRemove, UnhookBridge,
                registry, ghosts
  <2>4. \A m \in Members : hookedMembers'[m] \in {None, hookedMembers[m]}
    BY <1>4 DEF UnhookRemoveIf, UnhookStep, UnhookIsEmpty, UnhookRemove, UnhookBridge,
                registry, TypeInv, Lists
  <2>5. Owns(own)'
    BY <1>0, <2>1, <2>2, <2>3, <2>4, KeepOwns
  <2> QED
    BY <2>5 DEF OwnerInv
<1> QED
  BY <1>1, <1>2, <1>3, <1>4, ThreadSteps

\* No HookedMember has an owner at first.
LEMMA InitOwner == Init => OwnerInv
<1> SUFFICES ASSUME Init PROVE OwnerInv
  OBVIOUS
<1> DEFINE own == [n \in 1..MaxHooks |-> None]
<1>1. Owns(own)
  BY DEF Init, Owns, InHook, None
<1>2. own \in [1..MaxHooks -> Members \cup {None}]
  OBVIOUS
<1> QED
  BY <1>1, <1>2 DEF OwnerInv

----
\* A returned hook stays effective

\* The handles of m that are in a list are in the registered one, and xcallback
\* is on a registered member.
Settled(m) ==
  /\ \A h \in returned :
       h.member = m /\ h \in Range(handles[h.target]) =>
         hookedMembers[m] = h.target /\ m \in bridged
  /\ hookedMembers[m] # None => m \in bridged

\* The thread t in a hook() of m holds the registered HookedMember, or is the
\* only one in a hook() of m and about to register one.
HookOK(t, m) ==
  pc[t] \in InHook /\ cur[t].member = m =>
    IF pc[t] \in {"bridge", "put"}
    THEN /\ hookedMembers[m] = None
         /\ \A u \in Threads : u # t => ~(pc[u] \in InHook /\ cur[u].member = m)
         /\ pc[t] = "put" => m \in bridged
    ELSE hookedMembers[m] = cur[t].target /\ m \in bridged

\* The thread t in an unhook() of m overlaps no hook() of m, no other HookedMember
\* of m has taken its place, and it gives up an empty one only.
UnhookOK(t, m) ==
  pc[t] \in InUnhook /\ cur[t].member = m =>
    /\ ~Hooking(m)
    /\ hookedMembers[m] \in {None, cur[t].target}
    /\ pc[t] \in {"remove", "unbridge"} => Range(handles[cur[t].target]) = {}
    /\ pc[t] = "unbridge" => hookedMembers[m] = None

Effective(m) ==
  /\ Settled(m)
  /\ \A t \in Threads : HookOK(t, m) /\ UnhookOK(t, m)

EffectiveInv == \A m \in Members \ raced : Effective(m)

\* What the steps on other members leave of m
Untouched(m) ==
  /\ hookedMembers'[m] = hookedMembers[m]
  /\ m \in bridged' <=> m \in bridged
  /\ \A h \in returned : h.member = m => Range(handles'[h.target]) = Range(handles[h.target])

\* A step on another member keeps Effective(m).
LEMMA OtherMember ==
  ASSUME TypeInv, NEW t \in Threads, NEW m \in Members, Effective(m), Untouched(m),
         \A u \in Threads : u # t => pc'[u] = pc[u] /\ cur'[u] = cur[u],
         pc[t] \in InHook \cup InUnhook => cur[t].member # m,
         pc'[t] \in InHook \cup InUnhook => cur'[t].member # m,
         \A h \in returned' : h.member = m => h \in returned
  PROVE  Effective(m)'
<1>1. Settled(m)'
  BY DEF Effective, Settled, Untouched
<1>2. ASSUME NEW u \in Threads PROVE HookOK(u, m)'
  BY DEF Effective, HookOK, Untouched
<1>3. ASSUME NEW u \in Threads PROVE UnhookOK(u, m)'
  <2>1. CASE pc'[u] \in InUnhook /\ cur'[u].member = m
    <3>1. u # t /\ pc'[u] = pc[u] /\ cur'[u] = cur[u]
      BY <2>1
    <3>2. cur[u] \in returned
      BY <2>1, <3>1 DEF TypeInv, Locals, Past
    <3>3. ~Hooking(m)'
      BY <2>1, <3>1 DEF Effective, UnhookOK, Hooking
    <3> QED
      BY <2>1, <3>1, <3>2, <3>3 DEF Effective, UnhookOK, Untouched
  <2> QED
    BY <2>1 DEF UnhookOK
<1> QED
  BY <1>1, <1>2, <1>3 DEF Effective

\* The members of two handles bound to one HookedMember are the same.
LEMMA SameOwner ==
  ASSUME TypeInv, OwnerInv, NEW h \in returned
  PROVE  /\ \A u \in returned : u.target = h.target => u.member = h.member
         /\ \A t \in Threads :
              pc[t] \in InHook /\ cur[t].target = h.target => cur[t].member = h.member
<1>1. PICK own \in [1..MaxHooks -> Members \cup {None}] : Owns(own)
  BY DEF OwnerInv
<1>2. h.target # None
  BY DEF TypeInv, Lists
<1> QED
  BY <1>1, <1>2 DEF Owns

\* A hook() that starts, and is not counted as a race, finds no unhook() of its
\* member, nor a hook() that is about to register a HookedMember.
LEMMA LookupEffective ==
  ASSUME TypeInv, NEW t \in Threads, NEW k \in Members, NEW r \in Requests,
         HookLookup(t, k, r), NEW m \in Members, m \notin raced', Effective(m)
  PROVE  Effective(m)'
<1>1. \A u \in Threads : u # t => pc'[u] = pc[u] /\ cur'[u] = cur[u]
  BY OtherThreads
<1>2. UNCHANGED <<hookedMembers, handles, bridged, returned>>
  BY DEF HookLookup, registry
<1>3. /\ pc[t] = "idle" /\ cur'[t].member = k /\ cur'[t].target = hookedMembers[k]
      /\ pc'[t] = IF hookedMembers[k] = None THEN "bridge" ELSE "index"
  BY DEF HookLookup, Goto, TypeInv, Locals
<1>4. CASE k # m
  BY <1>1, <1>2, <1>3, <1>4, OtherMember DEF Untouched, InHook, InUnhook
<1>5. CASE k = m
  <2>1. ~Unhooking(m) /\ ~Allocating(m)
    BY <1>5 DEF HookLookup
  <2>2. Settled(m)'
    BY <1>2 DEF Effective, Settled
  <2>3. ASSUME NEW u \in Threads PROVE UnhookOK(u, m)'
    BY <1>1, <1>3, <2>1 DEF UnhookOK, Unhooking, InUnhook
  <2>4. HookOK(t, m)'
    <3>1. CASE hookedMembers[m] = None
      <4>1. \A u \in Threads : ~(pc[u] \in InHook /\ cur[u].member = m)
        <5> SUFFICES ASSUME NEW u \in Threads, pc[u] \in InHook, cur[u].member = m
                     PROVE FALSE
          OBVIOUS
        <5>1. pc[u] \in {"index", "size", "add"}
          BY <2>1 DEF Allocating, InHook
        <5>2. cur[u].target # None /\ hookedMembers[m] = cur[u].target
          BY <5>1 DEF Effective, HookOK, TypeInv, Locals
        <5> QED
          BY <3>1, <5>2
      <4> QED
        BY <1>1, <1>2, <1>3, <1>5, <3>1, <4>1 DEF HookOK, InHook
    <3>2. CASE hookedMembers[m] # None
      BY <1>2, <1>3, <1>5, <3>2 DEF HookOK, Effective, Settled
    <3> QED
      BY <3>1, <3>2
  <2>5. ASSUME NEW u \in Threads, u # t PROVE HookOK(u, m)'
    <3>1. ~(pc[u] \in {"bridge", "put"} /\ cur[u].member = m)
      BY <2>1 DEF Allocating
    <3> QED
      BY <1>1, <1>2, <2>5, <3>1 DEF HookOK, Effective
  <2> QED
    BY <2>2, <2>3, <2>4, <2>5 DEF Effective
<1> QED
  BY <1>4, <1>5

\* A hook() of m goes on with the registered HookedMember in hand.
LEMMA HookEffective ==
  ASSUME TypeInv, OwnerInv, NEW t \in Threads, HookStep(t),
         NEW m \in Members, Effective(m)
  PROVE  Effective(m)'
<1>1. \A u \in Threads : u # t => pc'[u] = pc[u] /\ cur'[u] = cur[u]
  BY OtherThreads
<1>2. pc[t] \in InHook /\ cur[t] \in Handle
  BY DEF HookStep, HookBridge, HookBridgeThrows, HookPut, HookIndex, HookSize,
         HookAdd, HookAddThrows, InHook, TypeInv, Locals
<1>3. pc'[t] \in {"idle"} \cup InHook /\ (pc'[t] # "idle" => cur'[t].member = cur[t].member)
  BY <1>2 DEF HookStep, HookBridge, HookBridgeThrows, HookPut, HookIndex, HookSize,
         HookAdd, HookAddThrows, Goto, Done, InHook, TypeInv, Locals, Handle
<1>4. cur[t].target # None /\ HookAdd(t) => cur[t].target \in 1..MaxHooks
  BY <1>2 DEF Handle, None
<1>5. CASE cur[t].member # m
  <2>1. hookedMembers'[m] = hookedMembers[m]
    BY <1>5 DEF HookStep, HookBridge, HookBridgeThrows, HookPut, HookIndex, HookSize,
         HookAdd, HookAddThrows, registry, TypeInv, Lists
  <2>2. m \in bridged' <=> m \in bridged
    BY <1>5 DEF HookStep, HookBridge, HookBridgeThrows, HookPut, HookIndex, HookSize,
         HookAdd, HookAddThrows, registry
  <2>3. \A h \in returned' : h.member = m => h \in returned
    BY <1>5 DEF HookStep, HookBridge, HookBridgeThrows, HookPut, HookIndex, HookSize,
         HookAdd, HookAddThrows, ghosts
  <2>4. ASSUME NEW h \in returned, h.member = m
        PROVE  Range(handles'[h.target]) = Range(handles[h.target])
    <3>1. CASE HookAdd(t)
      <4>1. h.target \in 1..MaxHooks
        BY DEF TypeInv, Lists, Handle, None
      <4>2. h.target # cur[t].target
        BY <1>2, <1>5, <2>4, SameOwner
      <4> QED
        BY <3>1, <4>1, <4>2, AddRange
    <3>2. CASE ~HookAdd(t)
      BY <3>2 DEF HookStep, HookBridge, HookBridgeThrows, HookPut, HookIndex, HookSize,
           HookAddThrows, registry
    <3> QED
      BY <3>1, <3>2
  <2> QED
    BY <1>1, <1>3, <1>5, <2>1, <2>2, <2>3, <2>4, OtherMember DEF Untouched, InHook, InUnhook
<1>6. CASE cur[t].member = m
  <2>1. \A u \in Threads : ~(pc[u] \in InUnhook /\ cur[u].member = m)
    BY <1>2, <1>6 DEF Effective, UnhookOK, Hooking
  <2>2. ASSUME NEW u \in Threads PROVE UnhookOK(u, m)'
    BY <1>1, <1>3, <2>1 DEF UnhookOK, InHook, InUnhook
  <2>3. HookOK(t, m)
    BY DEF Effective
  <2>4. CASE HookBridge(t)
    <3>1. /\ UNCHANGED <<hookedMembers, handles, returned, cur>>
          /\ bridged' = bridged \cup {m} /\ pc[t] = "bridge" /\ pc'[t] = "put"
      BY <1>6, <2>4 DEF HookBridge, Goto, ghosts, TypeInv, Locals
    <3>2. Settled(m)'
      BY <3>1 DEF Effective, Settled
    <3>3. ASSUME NEW u \in Threads PROVE HookOK(u, m)'
      BY <1>1, <1>2, <1>6, <2>3, <3>1 DEF Effective, HookOK, InHook
    <3> QED
      BY <2>2, <3>2, <3>3 DEF Effective
  <2>5. CASE HookPut(t)
    <3>1. /\ UNCHANGED <<handles, bridged, returned>>
          /\ hookedMembers' = [hookedMembers EXCEPT ![m] = cur[t].id]
          /\ pc[t] = "put" /\ pc'[t] = "index"
          /\ cur'[t].target = cur[t].id /\ cur'[t].member = m
      BY <1>2, <1>6, <2>5 DEF HookPut, Goto, ghosts, TypeInv, Locals, Handle
    <3>2. hookedMembers'[m] = cur[t].id
      BY <3>1 DEF TypeInv, Lists
    <3>3. /\ hookedMembers[m] = None /\ m \in bridged
          /\ \A u \in Threads : u # t => ~(pc[u] \in InHook /\ cur[u].member = m)
      BY <1>2, <1>6, <2>3, <3>1 DEF HookOK
    <3>4. \A h \in returned : h.member = m => h \notin Range(handles[h.target])
      BY <3>3 DEF Effective, Settled, TypeInv, Lists
    <3>5. Settled(m)'
      BY <3>1, <3>3, <3>4 DEF Settled
    <3>6. ASSUME NEW u \in Threads PROVE HookOK(u, m)'
      BY <1>1, <3>1, <3>2, <3>3 DEF HookOK, InHook
    <3> QED
      BY <2>2, <3>5, <3>6 DEF Effective
  <2>6. CASE HookIndex(t) \/ HookSize(t)
    <3>1. /\ UNCHANGED <<hookedMembers, handles, bridged, returned, cur>>
          /\ pc[t] \in {"index", "size"} /\ pc'[t] \in {"size", "add"}
      BY <2>6 DEF HookIndex, HookSize, Goto, registry, ghosts, TypeInv, Locals
    <3>2. Settled(m)'
      BY <3>1 DEF Effective, Settled
    <3>3. ASSUME NEW u \in Threads PROVE HookOK(u, m)'
      BY <1>1, <1>2, <1>6, <2>3, <3>1 DEF Effective, HookOK, InHook
    <3> QED
      BY <2>2, <3>2, <3>3 DEF Effective
  <2>7. CASE HookAdd(t)
    <3>1. /\ UNCHANGED <<hookedMembers, bridged>> /\ pc[t] = "add" /\ pc'[t] = "idle"
          /\ returned' = returned \cup {cur[t]}
      BY <2>7 DEF HookAdd, Done, Goto, TypeInv, Locals
    <3>2. hookedMembers[m] = cur[t].target /\ m \in bridged
      BY <1>2, <1>6, <2>3, <3>1 DEF HookOK
    <3>3. ASSUME NEW h \in returned', h.member = m, h \in Range(handles'[h.target])
          PROVE  hookedMembers[m] = h.target
      <4>1. CASE h = cur[t]
        BY <3>2, <4>1
      <4>2. CASE h # cur[t]
        <5>1. h \in returned /\ h.target \in 1..MaxHooks
          BY <3>1, <4>2 DEF TypeInv, Lists, Handle, None
        <5>2. h \in Range(handles[h.target])
          BY <2>7, <3>3, <4>2, <5>1, AddRange
        <5> QED
          BY <3>3, <5>1, <5>2 DEF Effective, Settled
      <4> QED
        BY <4>1, <4>2
    <3>4. Settled(m)'
      BY <3>1, <3>2, <3>3 DEF Settled
    <3>5. ASSUME NEW u \in Threads PROVE HookOK(u, m)'
      BY <1>1, <3>1, <3>2, <2>3 DEF Effective, HookOK, InHook
    <3> QED
      BY <2>2, <3>4, <3>5 DEF Effective
  <2>8. CASE HookBridgeThrows(t) \/ HookAddThrows(t)
    <3>1. UNCHANGED <<hookedMembers, handles, bridged, returned>> /\ pc'[t] = "idle"
      BY <2>8 DEF HookBridgeThrows, HookAddThrows, Done, Goto, registry, ghosts, TypeInv, Locals
    <3>2. Settled(m)'
      BY <3>1 DEF Effective, Settled
    <3>3. ASSUME NEW u \in Threads PROVE HookOK(u, m)'
      BY <1>1, <3>1 DEF Effective, HookOK, InHook
    <3> QED
      BY <2>2, <3>2, <3>3 DEF Effective
  <2> QED
    BY <2>4, <2>5, <2>6, <2>7, <2>8 DEF HookStep
<1> QED
  BY <1>5, <1>6

\* An unhook() that starts, and is not counted as a race, takes handles away only.
LEMMA RemoveIfEffective ==
  ASSUME TypeInv, OwnerInv, NEW t \in Threads, NEW h \in returned, UnhookRemoveIf(t, h),
         NEW m \in Members, m \notin raced', Effective(m)
  PROVE  Effective(m)'
<1>1. \A u \in Threads : u # t => pc'[u] = pc[u] /\ cur'[u] = cur[u]
  BY OtherThreads
<1>2. /\ pc[t] = "idle" /\ pc'[t] = "isEmpty" /\ cur'[t] = h
      /\ UNCHANGED <<hookedMembers, bridged, returned>>
  BY DEF UnhookRemoveIf, Goto, TypeInv, Locals
<1>3. \A e \in returned : e.target \in 1..MaxHooks
  BY DEF TypeInv, Lists, Handle, None
<1>4. CASE h.member # m
  <2>1. ASSUME NEW e \in returned, e.member = m
        PROVE  Range(handles'[e.target]) = Range(handles[e.target])
    <3>1. e.target # h.target
      BY <1>4, <2>1, SameOwner
    <3> QED
      BY <1>3, <3>1, RemoveRange
  <2> QED
    BY <1>1, <1>2, <1>4, <2>1, OtherMember DEF Untouched, InHook, InUnhook
<1>5. CASE h.member = m
  <2>1. ~Hooking(m) /\ hookedMembers[m] \in {None, h.target}
    BY <1>5 DEF UnhookRemoveIf
  <2>2. \A e \in returned : Range(handles'[e.target]) \subseteq Range(handles[e.target])
    BY <1>3, RemoveRange
  <2>3. Settled(m)'
    BY <1>2, <2>2 DEF Effective, Settled
  <2>4. ~Hooking(m)'
    BY <1>1, <1>2, <2>1 DEF Hooking, InHook
  <2>5. ASSUME NEW u \in Threads PROVE HookOK(u, m)'
    BY <2>4 DEF HookOK, Hooking
  <2>6. ASSUME NEW u \in Threads PROVE UnhookOK(u, m)'
    <3>1. CASE u = t
      BY <1>2, <2>1, <2>4, <3>1 DEF UnhookOK
    <3>2. CASE u # t
      <4>1. pc[u] \in InUnhook => cur[u] \in returned
        BY DEF TypeInv, Locals, Past
      <4>2. UnhookOK(u, m)
        BY DEF Effective
      <4>3. /\ pc'[u] = pc[u] /\ cur'[u] = cur[u]
            /\ hookedMembers' = hookedMembers
        BY <1>1, <1>2, <3>2
      <4>4. pc[u] \in InUnhook => Range(handles'[cur[u].target]) \subseteq Range(handles[cur[u].target])
        BY <2>2, <4>1
      <4> HIDE DEF Hooking, InUnhook
      <4> QED
        BY <2>4, <4>2, <4>3, <4>4 DEF UnhookOK
    <3> QED
      BY <3>1, <3>2
  <2> QED
    BY <2>3, <2>5, <2>6 DEF Effective
<1> QED
  BY <1>4, <1>5

\* An unhook() of m gives the member up when no handle of m is left.
LEMMA UnhookEffective ==
  ASSUME TypeInv, NEW t \in Threads, UnhookStep(t), NEW m \in Members, Effective(m)
  PROVE  Effective(m)'
<1>1. \A u \in Threads : u # t => pc'[u] = pc[u] /\ cur'[u] = cur[u]
  BY OtherThreads
<1>2. pc[t] \in InUnhook /\ cur[t] \in returned
  BY DEF UnhookStep, UnhookIsEmpty, UnhookRemove, UnhookBridge, InUnhook, TypeInv, Locals, Past
<1>3. UNCHANGED <<handles, returned>>
  BY DEF UnhookStep, UnhookIsEmpty, UnhookRemove, UnhookBridge, registry, ghosts
<1>4. /\ pc'[t] \in {"idle", "remove", "unbridge"}
      /\ pc'[t] # "idle" => cur'[t] = cur[t]
  BY DEF UnhookStep, UnhookIsEmpty, UnhookRemove, UnhookBridge, Goto, Done, TypeInv, Locals
<1>5. CASE cur[t].member # m
  <2>1. hookedMembers'[m] = hookedMembers[m]
    BY <1>5 DEF UnhookStep, UnhookIsEmpty, UnhookRemove, UnhookBridge, registry, TypeInv, Lists
  <2>2. m \in bridged' <=> m \in bridged
    BY <1>5 DEF UnhookStep, UnhookIsEmpty, UnhookRemove, UnhookBridge, registry
  <2> QED
    BY <1>1, <1>3, <1>4, <1>5, <2>1, <2>2, OtherMember DEF Untouched, InHook, InUnhook
<1>6. CASE cur[t].member = m
  <2>1. UnhookOK(t, m) /\ ~Hooking(m)
    BY <1>2, <1>6 DEF Effective, UnhookOK
  <2>2. ~Hooking(m)'
    BY <1>1, <1>4, <2>1 DEF Hooking, InHook
  <2>3. ASSUME NEW u \in Threads PROVE HookOK(u, m)'
    BY <2>2 DEF HookOK, Hooking
  <2>4. hookedMembers'[m] \in {None, hookedMembers[m]}
    BY DEF UnhookStep, UnhookIsEmpty, UnhookRemove, UnhookBridge, registry, TypeInv, Lists
  <2>5. ASSUME NEW u \in Threads, u # t PROVE UnhookOK(u, m)'
    BY <1>1, <1>3, <2>2, <2>4, <2>5 DEF UnhookOK, Effective
  <2>6. CASE UnhookIsEmpty(t)
    <3>1. UNCHANGED <<hookedMembers, bridged>>
      BY <2>6 DEF UnhookIsEmpty, registry
    <3>2. Settled(m)'
      BY <1>3, <3>1 DEF Effective, Settled
    <3>3. UnhookOK(t, m)'
      <4>1. CASE handles[cur[t].target] = <<>>
        <5>1. pc'[t] = "remove" /\ cur'[t] = cur[t]
          BY <2>6, <4>1 DEF UnhookIsEmpty, Goto, TypeInv, Locals
        <5>2. Range(handles'[cur'[t].target]) = {}
          BY <1>3, <4>1, <5>1 DEF Range
        <5> QED
          BY <1>2, <1>6, <2>1, <2>2, <3>1, <5>1, <5>2 DEF UnhookOK
      <4>2. CASE handles[cur[t].target] # <<>>
        <5>1. pc'[t] = "idle"
          BY <2>6, <4>2 DEF UnhookIsEmpty, Goto, Done, TypeInv, Locals
        <5> QED
          BY <5>1 DEF UnhookOK, InUnhook
      <4> QED
        BY <4>1, <4>2
    <3> QED
      BY <2>3, <2>5, <3>2, <3>3 DEF Effective
  <2>7. CASE UnhookRemove(t)
    <3>1. /\ UNCHANGED bridged /\ pc[t] = "remove" /\ pc'[t] = "unbridge"
          /\ cur'[t] = cur[t] /\ hookedMembers'[m] = None
      BY <1>6, <2>7 DEF UnhookRemove, Goto, TypeInv, Locals, Lists
    <3>2. hookedMembers[m] \in {None, cur[t].target} /\ Range(handles[cur[t].target]) = {}
      BY <1>2, <1>6, <2>1, <3>1 DEF UnhookOK
    <3>3. \A h \in returned : h.member = m => h \notin Range(handles[h.target])
      BY <3>2 DEF Effective, Settled, TypeInv, Lists
    <3>4. Settled(m)'
      BY <1>3, <3>1, <3>3 DEF Settled
    <3>5. UnhookOK(t, m)'
      BY <1>3, <2>2, <3>1, <3>2 DEF UnhookOK
    <3> QED
      BY <2>3, <2>5, <3>4, <3>5 DEF Effective
  <2>8. CASE UnhookBridge(t)
    <3>1. /\ UNCHANGED hookedMembers /\ pc[t] = "unbridge" /\ pc'[t] = "idle"
      BY <2>8 DEF UnhookBridge, Goto, Done, TypeInv, Locals
    <3>2. hookedMembers[m] = None
      BY <1>2, <1>6, <2>1, <3>1 DEF UnhookOK
    <3>3. \A h \in returned : h.member = m => h \notin Range(handles[h.target])
      BY <3>2 DEF Effective, Settled, TypeInv, Lists
    <3>4. Settled(m)'
      BY <1>3, <3>1, <3>2, <3>3 DEF Settled
    <3>5. UnhookOK(t, m)'
      BY <3>1 DEF UnhookOK, InUnhook
    <3> QED
      BY <2>3, <2>5, <3>4, <3>5 DEF Effective
  <2> QED
    BY <2>6, <2>7, <2>8 DEF UnhookStep
<1> QED
  BY <1>5, <1>6

\* Every step keeps EffectiveInv for the members that are still not in raced.
LEMMA StepEffective ==
  ASSUME TypeInv, OwnerInv, EffectiveInv, [Next]_vars
  PROVE  EffectiveInv'
<1> SUFFICES ASSUME NEW m \in Members, m \notin raced' PROVE Effective(m)'
  BY DEF EffectiveInv
<1>1. CASE /\ UNCHANGED <<hookedMembers, handles, bridged, hooks, cur, returned,
                          unhooking, overlapped, raced>>
           /\ \A t \in Threads : pc'[t] = pc[t]
  <2>1. Effective(m)
    BY <1>1 DEF EffectiveInv
  <2>2. Settled(m)'
    BY <1>1, <2>1 DEF Effective, Settled
  <2>3. ASSUME NEW t \in Threads PROVE HookOK(t, m)'
    BY <1>1, <2>1 DEF Effective, HookOK
  <2>4. ASSUME NEW t \in Threads PROVE UnhookOK(t, m)'
    BY <1>1, <2>1 DEF Effective, UnhookOK, Hooking
  <2> QED
    BY <2>2, <2>3, <2>4 DEF Effective
<1>2. ASSUME NEW t \in Threads, NEW k \in Members, NEW r \in Requests, HookLookup(t, k, r)
      PROVE  Effective(m)'
  <2>1. m \notin raced
    BY <1>2 DEF HookLookup
  <2> QED
    BY <1>2, <2>1, LookupEffective DEF EffectiveInv
<1>3. ASSUME NEW t \in Threads, HookStep(t) PROVE Effective(m)'
  <2>1. raced' = raced
    BY <1>3 DEF HookStep, HookBridge, HookBridgeThrows, HookPut, HookIndex, HookSize,
                HookAdd, HookAddThrows, ghosts
  <2> QED
    BY <1>3, <2>1, HookEffective DEF EffectiveInv
<1>4. ASSUME NEW t \in Threads, NEW h \in returned, UnhookRemoveIf(t, h)
      PROVE  Effective(m)'
  <2>1. m \notin raced
    BY <1>4 DEF UnhookRemoveIf
  <2> QED
    BY <1>4, <2>1, RemoveIfEffective DEF EffectiveInv
<1>5. ASSUME NEW t \in Threads, UnhookStep(t) PROVE Effective(m)'
  <2>1. raced' = raced
    BY <1>5 DEF UnhookStep, UnhookIsEmpty, UnhookRemove, UnhookBridge, ghosts
  <2> QED
    BY <1>5, <2>1, UnhookEffective DEF EffectiveInv
<1> QED
  BY <1>1, <1>2, <1>3, <1>4, <1>5, ThreadSteps

\* There is nothing to be effective at first.
LEMMA InitEffective == Init => EffectiveInv
BY DEF Init, EffectiveInv, Effective, Settled, HookOK, UnhookOK, InHook, InUnhook

\* A wanted handle is in its list, so in the registered one.
LEMMA EffectiveWanted ==
  ASSUME TypeInv, OwnerInv, RemovedOnlyByUnhook, EffectiveInv
  PROVE  WantedHandleEffective
<1> SUFFICES ASSUME NEW h \in returned, Wanted(h), h.member \notin raced
             PROVE  h \in Registered(h.member) /\ h.member \in bridged
  BY DEF WantedHandleEffective
<1>1. h \in Range(handles[h.target])
  <2> SUFFICES ASSUME h \notin Range(handles[h.target]) PROVE FALSE
    OBVIOUS
  <2>1. PICK u \in unhooking : u.target = h.target /\ u.req.callback = h.req.callback
    BY DEF RemovedOnlyByUnhook
  <2>2. u.member = h.member
    BY <2>1, SameOwner DEF TypeInv, Past
  <2> QED
    BY <2>1, <2>2 DEF Wanted
<1>2. h.member \in Members /\ h.target # None
  BY DEF TypeInv, Lists, Handle
<1>3. hookedMembers[h.member] = h.target /\ h.member \in bridged
  BY <1>1, <1>2 DEF EffectiveInv, Effective, Settled
<1> QED
  BY <1>1, <1>2, <1>3 DEF Registered

\* A hook() that has returned stays effective until it is unhooked, on every
\* member that is not in raced.  (Xposed.kt 127-153)
THEOREM HookStaysEffective == Spec => []WantedHandleEffective
<1>1. Init => OwnerInv /\ EffectiveInv
  BY InitOwner, InitEffective
<1>2. TypeInv /\ OwnerInv /\ EffectiveInv /\ [Next]_vars => (OwnerInv /\ EffectiveInv)'
  BY StepOwner, StepEffective
<1>3. TypeInv /\ OwnerInv /\ RemovedOnlyByUnhook /\ EffectiveInv => WantedHandleEffective
  BY EffectiveWanted
<1> QED
  BY <1>1, <1>2, <1>3, TypeInvariance, RemovalByUnhook, PTL DEF Spec

----
\* What is left behind

\* A handle of m was returned and is still in its list.
Listed(m) == \E h \in returned : h.member = m /\ h \in Range(handles[h.target])

\* The thread t is inside a hook() of m that cannot fail any more: it is not on
\* its way to a place behind others, which may be gone when it gets there.
WillAdd(t, m) ==
  /\ pc[t] \in InHook
  /\ cur[t].member = m
  /\ pc[t] = "add" => idx[t] = 1

\* What the registration of m is for
Needed(m) == Listed(m) \/ \E t \in Threads : WillAdd(t, m)

\* An unhook() of m has yet to look at the list, or to remove the entry.
Checking(m) == \E t \in Threads : pc[t] \in {"isEmpty", "remove"} /\ cur[t].member = m

\* If nothing needs the entry of m, an unhook() is about to remove it, and if
\* nothing needs xcallback on m, one is about to take it off.
Tidy(m) ==
  /\ \A t \in Threads : pc[t] = "put" /\ cur[t].member = m => m \in Hookable
  /\ hookedMembers[m] # None => m \in Hookable /\ (Needed(m) \/ Checking(m))
  /\ m \in bridged => m \in Hookable /\ (Needed(m) \/ Unhooking(m))

TidyInv == \A m \in Members : Tidy(m)

\* A list that is not empty holds a handle of the member it is for.
LEMMA ListHasHandle ==
  ASSUME TypeInv, OwnerInv, NEW t \in Threads,
         pc[t] \in {"index", "size", "add"} \cup InUnhook,
         handles[cur[t].target] # <<>>
  PROVE  Listed(cur[t].member)
<1> DEFINE n == cur[t].target
<1>1. cur[t] \in Handle /\ (pc[t] \in InUnhook => cur[t] \in returned)
  BY DEF TypeInv, Locals, Past, InUnhook
<1>2. n \in 1..MaxHooks
  <2>1. pc[t] \in {"index", "size", "add"} => n # None
    BY DEF TypeInv, Locals
  <2>2. pc[t] \in InUnhook => n # None
    BY <1>1 DEF TypeInv, Lists
  <2> QED
    BY <1>1, <2>1, <2>2 DEF Handle, None
<1>3. handles[n] \in Seq(Handle)
  BY <1>2 DEF TypeInv, Lists
<1>4. PICK e : e \in Range(handles[n])
  <2>1. 1 \in DOMAIN handles[n]
    BY <1>3
  <2> QED
    BY <2>1 DEF Range
<1>5. e \in returned /\ e.target = n
  BY <1>2, <1>4 DEF TypeInv, Lists
<1>6. cur[t].member = e.member
  BY <1>1, <1>5, SameOwner DEF InHook
<1> QED
  BY <1>4, <1>5, <1>6 DEF Listed

\* The step of a thread leaves the place the other threads have found.
LEMMA OtherPlaces ==
  ASSUME TypeInv, NEW t \in Threads,
         \/ \E m \in Members, r \in Requests : HookLookup(t, m, r)
         \/ HookStep(t)
         \/ \E h \in returned : UnhookRemoveIf(t, h)
         \/ UnhookStep(t)
  PROVE  \A u \in Threads : u # t => idx'[u] = idx[u]
BY DEF HookLookup, HookStep, HookBridge, HookBridgeThrows, HookPut, HookIndex, HookSize,
       HookAdd, HookAddThrows, UnhookRemoveIf, UnhookStep, UnhookIsEmpty, UnhookRemove,
       UnhookBridge, Done, TypeInv, Locals

\* A step that takes no entry and nothing that is needed away keeps Tidy(m).
LEMMA KeepTidy ==
  ASSUME NEW m \in Members, Tidy(m),
         hookedMembers'[m] \in {None, hookedMembers[m]},
         m \in bridged' => m \in bridged,
         \A t \in Threads :
           pc'[t] = "put" /\ cur'[t].member = m => pc[t] = "put" /\ cur[t].member = m,
         Needed(m) => Needed(m)',
         hookedMembers'[m] # None /\ Checking(m) => Needed(m)' \/ Checking(m)',
         m \in bridged' /\ Unhooking(m) => Needed(m)' \/ Unhooking(m)'
  PROVE  Tidy(m)'
<1>1. hookedMembers'[m] # None => m \in Hookable /\ (Needed(m) \/ Checking(m))
  BY DEF Tidy
<1>2. m \in bridged' => m \in Hookable /\ (Needed(m) \/ Unhooking(m))
  BY DEF Tidy
<1>3. \A t \in Threads : pc'[t] = "put" /\ cur'[t].member = m => m \in Hookable
  BY DEF Tidy
<1> QED
  BY <1>1, <1>2, <1>3 DEF Tidy

\* When t was in no operation of m, the others that were still are.
LEMMA OthersStay ==
  ASSUME NEW t \in Threads, NEW m \in Members,
         \A u \in Threads : u # t => pc'[u] = pc[u] /\ cur'[u] = cur[u] /\ idx'[u] = idx[u],
         pc[t] \in InHook \cup InUnhook => cur[t].member # m
  PROVE  /\ \A u \in Threads : WillAdd(u, m) => WillAdd(u, m)'
         /\ Checking(m) => Checking(m)'
         /\ Unhooking(m) => Unhooking(m)'
<1>1. \A u \in Threads : WillAdd(u, m) => WillAdd(u, m)'
  BY DEF WillAdd
<1>2. Checking(m) => Checking(m)'
  BY DEF Checking, InUnhook
<1>3. Unhooking(m) => Unhooking(m)'
  BY DEF Unhooking
<1> QED
  BY <1>1, <1>2, <1>3

\* A hook() that starts takes nothing away.
LEMMA LookupTidy ==
  ASSUME TypeInv, NEW t \in Threads, NEW k \in Members, NEW r \in Requests,
         HookLookup(t, k, r), NEW m \in Members, Tidy(m)
  PROVE  Tidy(m)'
<1>1. \A u \in Threads : u # t => pc'[u] = pc[u] /\ cur'[u] = cur[u] /\ idx'[u] = idx[u]
  BY OtherThreads, OtherPlaces
<1>2. UNCHANGED <<hookedMembers, handles, bridged, returned>>
  BY DEF HookLookup, registry
<1>3. pc[t] = "idle" /\ pc'[t] # "put"
  BY DEF HookLookup, Goto, TypeInv, Locals
<1>4. pc[t] \notin InHook \cup InUnhook
  BY <1>3 DEF InHook, InUnhook
<1>5. Listed(m) => Listed(m)'
  BY <1>2 DEF Listed
<1>6. /\ \A u \in Threads : WillAdd(u, m) => WillAdd(u, m)'
      /\ Checking(m) => Checking(m)'
      /\ Unhooking(m) => Unhooking(m)'
  BY <1>1, <1>4, OthersStay
<1>7. Needed(m) => Needed(m)'
  BY <1>5, <1>6 DEF Needed
<1>8. \A u \in Threads : pc'[u] = "put" /\ cur'[u].member = m => pc[u] = "put" /\ cur[u].member = m
  BY <1>1, <1>3
<1> QED
  BY <1>2, <1>6, <1>7, <1>8, KeepTidy

\* A hook() only adds handles to lists.
LEMMA HookListed ==
  ASSUME TypeInv, NEW t \in Threads, HookStep(t), NEW m \in Members
  PROVE  Listed(m) => Listed(m)'
<1> SUFFICES ASSUME NEW h \in returned, h.member = m, h \in Range(handles[h.target])
             PROVE  Listed(m)'
  BY DEF Listed
<1>1. CASE HookAdd(t)
  <2>1. h.target \in 1..MaxHooks
    BY DEF TypeInv, Lists, Handle, None
  <2>2. h \in Range(handles'[h.target])
    BY <1>1, <2>1, AddRange
  <2>3. h \in returned'
    BY <1>1 DEF HookAdd
  <2> QED
    BY <2>2, <2>3 DEF Listed
<1>2. CASE ~HookAdd(t)
  <2>1. UNCHANGED <<handles, returned>>
    BY <1>2 DEF HookStep, HookBridge, HookBridgeThrows, HookPut, HookIndex, HookSize,
                HookAddThrows, registry, ghosts
  <2> QED
    BY <2>1 DEF Listed
<1> QED
  BY <1>1, <1>2

\* A hook() of m that does not fail is what the entry of m is for, and leaves its
\* handle in the list; one that fails is not the only one.
LEMMA HookTidy ==
  ASSUME TypeInv, OwnerInv, NEW t \in Threads, HookStep(t), NEW m \in Members, Tidy(m)
  PROVE  Tidy(m)'
<1>1. \A u \in Threads : u # t => pc'[u] = pc[u] /\ cur'[u] = cur[u] /\ idx'[u] = idx[u]
  BY OtherThreads, OtherPlaces
<1>2. pc[t] \in InHook /\ cur[t] \in Handle
  BY DEF HookStep, HookBridge, HookBridgeThrows, HookPut, HookIndex, HookSize,
         HookAdd, HookAddThrows, InHook, TypeInv, Locals
<1>3. Listed(m) => Listed(m)'
  BY HookListed
<1>4. \A u \in Threads : u # t /\ WillAdd(u, m) => WillAdd(u, m)'
  BY <1>1 DEF WillAdd
<1>5. pc[t] \notin InUnhook
  BY <1>2 DEF InHook, InUnhook
<1>6. Checking(m) => Checking(m)'
  BY <1>1, <1>5 DEF Checking, InUnhook
<1>7. Unhooking(m) => Unhooking(m)'
  BY <1>1, <1>5 DEF Unhooking
<1>8. pc'[t] # "idle" => cur'[t].member = cur[t].member
  BY <1>2 DEF HookStep, HookBridge, HookBridgeThrows, HookPut, HookIndex, HookSize,
         HookAdd, HookAddThrows, Goto, Done, TypeInv, Locals, Handle
<1>9. CASE cur[t].member # m
  <2>1. hookedMembers'[m] = hookedMembers[m]
    BY <1>9 DEF HookStep, HookBridge, HookBridgeThrows, HookPut, HookIndex, HookSize,
         HookAdd, HookAddThrows, registry, TypeInv, Lists
  <2>2. m \in bridged' => m \in bridged
    BY <1>9 DEF HookStep, HookBridge, HookBridgeThrows, HookPut, HookIndex, HookSize,
         HookAdd, HookAddThrows, registry
  <2>3. Needed(m) => Needed(m)'
    <3>1. ~WillAdd(t, m)
      BY <1>9 DEF WillAdd
    <3> QED
      BY <1>3, <1>4, <3>1 DEF Needed
  <2>4. \A u \in Threads :
          pc'[u] = "put" /\ cur'[u].member = m => pc[u] = "put" /\ cur[u].member = m
    BY <1>1, <1>8, <1>9
  <2> QED
    BY <1>6, <1>7, <2>1, <2>2, <2>3, <2>4, KeepTidy
<1>10. CASE cur[t].member = m
  <2>1. CASE HookBridge(t)
    <3>1. pc'[t] = "put" /\ cur' = cur /\ hookedMembers' = hookedMembers /\ m \in Hookable
      BY <1>10, <2>1 DEF HookBridge, Goto, TypeInv, Locals
    <3>2. WillAdd(t, m)'
      BY <1>10, <3>1 DEF WillAdd, InHook
    <3> QED
      BY <3>1, <3>2 DEF Tidy, Needed
  <2>2. CASE HookPut(t)
    <3>1. pc[t] = "put" /\ pc'[t] = "index"
      BY <2>2 DEF HookPut, Goto, TypeInv, Locals
    <3>2. m \in Hookable
      BY <1>10, <3>1 DEF Tidy
    <3>3. cur'[t].member = m
      BY <1>8, <1>10, <3>1
    <3>4. WillAdd(t, m)'
      BY <3>1, <3>3 DEF WillAdd, InHook
    <3> QED
      BY <3>2, <3>4 DEF Tidy, Needed
  <2>3. CASE HookBridgeThrows(t)
    <3>1. hookedMembers' = hookedMembers /\ bridged' = bridged /\ m \notin Hookable /\ pc'[t] = "idle"
      BY <1>10, <2>3 DEF HookBridgeThrows, Done, Goto, registry, TypeInv, Locals
    <3>2. \A u \in Threads : pc'[u] = "put" /\ cur'[u].member = m => m \in Hookable
      BY <1>1, <3>1 DEF Tidy
    <3> QED
      BY <3>1, <3>2 DEF Tidy
  <2>4. CASE HookIndex(t) \/ HookSize(t) \/ HookAdd(t) \/ HookAddThrows(t)
    <3>1. hookedMembers' = hookedMembers /\ bridged' = bridged /\ pc'[t] # "put"
      BY <2>4 DEF HookIndex, HookSize, HookAdd, HookAddThrows, Done, Goto, registry,
                  TypeInv, Locals
    <3>2. WillAdd(t, m) => WillAdd(t, m)' \/ Listed(m)'
      <4>1. CASE HookIndex(t) \/ HookSize(t)
        <5>1. pc'[t] \in {"size", "add"} /\ pc[t] \in {"index", "size"} /\ cur' = cur
          BY <4>1 DEF HookIndex, HookSize, Goto, TypeInv, Locals
        <5> DEFINE n == cur[t].target
        <5>2. n \in 1..MaxHooks
          BY <1>2, <5>1 DEF TypeInv, Locals, Handle, None
        <5>3. handles[n] \in Seq(Handle)
          BY <5>2 DEF TypeInv, Lists
        <5>4. CASE handles[n] = <<>>
          <6>1. LowerThan(handles[n], cur[t].req.priority) = {}
            BY <5>4 DEF LowerThan
          <6>2. HookIndex(t) => pc'[t] = "size"
            BY <6>1 DEF HookIndex, Goto, TypeInv, Locals
          <6>3. HookSize(t) => idx'[t] = 1
            BY <5>4 DEF HookSize, TypeInv, Locals
          <6>4. WillAdd(t, m)'
            BY <1>10, <4>1, <5>1, <6>2, <6>3 DEF WillAdd, InHook
          <6> QED
            BY <6>4
        <5>5. CASE handles[n] # <<>>
          <6>1. Listed(m)
            BY <1>10, <5>1, <5>5, ListHasHandle
          <6> QED
            BY <1>3, <6>1
        <5> QED
          BY <5>4, <5>5
      <4>2. CASE HookAdd(t)
        <5>1. cur[t].target \in 1..MaxHooks
          BY <1>2, <4>2 DEF HookAdd, TypeInv, Locals, Handle, None
        <5>2. cur[t] \in Range(handles'[cur[t].target])
          BY <4>2, <5>1, AddRange
        <5>3. cur[t] \in returned'
          BY <4>2 DEF HookAdd
        <5> QED
          BY <1>10, <5>2, <5>3 DEF Listed
      <4>3. CASE HookAddThrows(t)
        <5>1. cur[t].target \in 1..MaxHooks
          BY <1>2, <4>3 DEF HookAddThrows, TypeInv, Locals, Handle, None
        <5>2. handles[cur[t].target] \in Seq(Handle)
          BY <5>1 DEF TypeInv, Lists
        <5>3. pc[t] = "add" /\ idx[t] # 1
          BY <4>3, <5>2 DEF HookAddThrows
        <5> QED
          BY <5>3 DEF WillAdd
      <4> QED
        BY <2>4, <4>1, <4>2, <4>3
    <3>3. Needed(m) => Needed(m)'
      BY <1>3, <1>4, <3>2 DEF Needed
    <3>4. \A u \in Threads :
            pc'[u] = "put" /\ cur'[u].member = m => pc[u] = "put" /\ cur[u].member = m
      BY <1>1, <3>1
    <3> QED
      BY <1>6, <1>7, <3>1, <3>3, <3>4, KeepTidy
  <2> QED
    BY <2>1, <2>2, <2>3, <2>4 DEF HookStep
<1> QED
  BY <1>9, <1>10

\* An unhook() that has taken the last handle of m looks at the list next.
LEMMA RemoveIfTidy ==
  ASSUME TypeInv, OwnerInv, NEW t \in Threads, NEW h \in returned, UnhookRemoveIf(t, h),
         NEW m \in Members, Tidy(m)
  PROVE  Tidy(m)'
<1>1. \A u \in Threads : u # t => pc'[u] = pc[u] /\ cur'[u] = cur[u] /\ idx'[u] = idx[u]
  BY OtherThreads, OtherPlaces
<1>2. /\ pc[t] = "idle" /\ pc'[t] = "isEmpty" /\ cur'[t] = h
      /\ UNCHANGED <<hookedMembers, bridged, returned>>
  BY DEF UnhookRemoveIf, Goto, TypeInv, Locals
<1>3. \A u \in Threads :
        pc'[u] = "put" /\ cur'[u].member = m => pc[u] = "put" /\ cur[u].member = m
  BY <1>1, <1>2
<1>4. CASE h.member = m
  <2>1. Checking(m)' /\ Unhooking(m)'
    BY <1>2, <1>4 DEF Checking, Unhooking, InUnhook
  <2> QED
    BY <1>2, <1>3, <2>1 DEF Tidy
<1>5. CASE h.member # m
  <2>1. Listed(m) => Listed(m)'
    <3> SUFFICES ASSUME NEW e \in returned, e.member = m, e \in Range(handles[e.target])
                 PROVE  e \in Range(handles'[e.target])
      BY <1>2 DEF Listed
    <3>1. e.target # h.target
      BY <1>5, SameOwner
    <3>2. e.target \in 1..MaxHooks
      BY DEF TypeInv, Lists, Handle, None
    <3> QED
      BY <3>1, <3>2, RemoveRange
  <2>2. /\ \A u \in Threads : WillAdd(u, m) => WillAdd(u, m)'
        /\ Checking(m) => Checking(m)'
        /\ Unhooking(m) => Unhooking(m)'
    BY <1>1, <1>2, OthersStay DEF InHook, InUnhook
  <2>3. Needed(m) => Needed(m)'
    BY <2>1, <2>2 DEF Needed
  <2> QED
    BY <1>2, <1>3, <2>2, <2>3, KeepTidy
<1> QED
  BY <1>4, <1>5

\* An unhook() leaves when it has found a handle in the list, or has taken the
\* entry and xcallback away.
LEMMA UnhookTidy ==
  ASSUME TypeInv, OwnerInv, NEW t \in Threads, UnhookStep(t), NEW m \in Members, Tidy(m)
  PROVE  Tidy(m)'
<1>1. \A u \in Threads : u # t => pc'[u] = pc[u] /\ cur'[u] = cur[u] /\ idx'[u] = idx[u]
  BY OtherThreads, OtherPlaces
<1>2. pc[t] \in InUnhook /\ pc[t] \notin InHook
  BY DEF UnhookStep, UnhookIsEmpty, UnhookRemove, UnhookBridge, InUnhook, InHook
<1>3. UNCHANGED <<handles, returned>>
  BY DEF UnhookStep, UnhookIsEmpty, UnhookRemove, UnhookBridge, registry, ghosts
<1>4. /\ pc'[t] \in {"idle", "remove", "unbridge"}
      /\ pc'[t] # "idle" => cur'[t] = cur[t]
  BY DEF UnhookStep, UnhookIsEmpty, UnhookRemove, UnhookBridge, Goto, Done, TypeInv, Locals
<1>5. Needed(m) => Needed(m)'
  <2>1. \A u \in Threads : WillAdd(u, m) => WillAdd(u, m)'
    BY <1>1, <1>2 DEF WillAdd
  <2>2. Listed(m) => Listed(m)'
    BY <1>3 DEF Listed
  <2> QED
    BY <2>1, <2>2 DEF Needed
<1>6. \A u \in Threads :
        pc'[u] = "put" /\ cur'[u].member = m => pc[u] = "put" /\ cur[u].member = m
  BY <1>1, <1>4
<1>7. hookedMembers'[m] \in {None, hookedMembers[m]}
  BY DEF UnhookStep, UnhookIsEmpty, UnhookRemove, UnhookBridge, registry, TypeInv, Lists
<1>8. m \in bridged' => m \in bridged
  BY DEF UnhookStep, UnhookIsEmpty, UnhookRemove, UnhookBridge, registry
<1>9. CASE cur[t].member # m
  BY <1>1, <1>5, <1>6, <1>7, <1>8, <1>9, OthersStay, KeepTidy
<1>10. CASE cur[t].member = m
  <2>1. CASE UnhookIsEmpty(t)
    <3>1. CASE handles[cur[t].target] # <<>>
      <4>1. Needed(m)
        BY <1>2, <1>10, <3>1, ListHasHandle DEF Needed
      <4> QED
        BY <1>5, <1>6, <1>7, <1>8, <4>1, KeepTidy
    <3>2. CASE handles[cur[t].target] = <<>>
      <4>1. pc'[t] = "remove" /\ cur' = cur
        BY <2>1, <3>2 DEF UnhookIsEmpty, Goto, TypeInv, Locals
      <4>2. Checking(m)' /\ Unhooking(m)'
        BY <1>10, <4>1 DEF Checking, Unhooking, InUnhook
      <4> QED
        BY <1>5, <1>6, <1>7, <1>8, <4>2, KeepTidy
    <3> QED
      BY <3>1, <3>2
  <2>2. CASE UnhookRemove(t)
    <3>1. hookedMembers'[m] = None /\ pc'[t] = "unbridge" /\ cur' = cur
      BY <1>10, <2>2 DEF UnhookRemove, Goto, TypeInv, Locals, Lists
    <3>2. Unhooking(m)'
      BY <1>10, <3>1 DEF Unhooking, InUnhook
    <3> QED
      BY <1>5, <1>6, <1>7, <1>8, <3>1, <3>2, KeepTidy
  <2>3. CASE UnhookBridge(t)
    <3>1. pc[t] = "unbridge" /\ m \notin bridged'
      BY <1>10, <2>3 DEF UnhookBridge
    <3>2. Checking(m) => Checking(m)'
      BY <1>1, <3>1 DEF Checking
    <3> QED
      BY <1>5, <1>6, <1>7, <1>8, <3>1, <3>2, KeepTidy
  <2> QED
    BY <2>1, <2>2, <2>3 DEF UnhookStep
<1> QED
  BY <1>9, <1>10

LEMMA StepTidy ==
  ASSUME TypeInv, OwnerInv, TidyInv, [Next]_vars
  PROVE  TidyInv'
<1> SUFFICES ASSUME NEW m \in Members PROVE Tidy(m)'
  BY DEF TidyInv
<1>0. Tidy(m)
  BY DEF TidyInv
<1>1. CASE /\ UNCHANGED vars
  <2>1. Tidy(m)'
    BY <1>0, <1>1 DEF vars, Tidy, Needed, Listed, WillAdd, Checking, Unhooking
  <2> QED
    BY <2>1
<1>2. ASSUME NEW c \in Callers, (\E k \in Members : CallEnter(c, k)) \/ CallStep(c)
      PROVE  Tidy(m)'
  <2>1. UNCHANGED <<hookedMembers, handles, bridged, returned, cur, idx>>
    BY <1>2 DEF CallEnter, CallStep, CallLookup, CallHandle, registry, ghosts
  <2>2. \A u \in Threads : pc'[u] = pc[u]
    BY <1>2 DEF CallEnter, CallStep, CallLookup, CallHandle, Goto, TypeInv, Locals
  <2> QED
    BY <1>0, <2>1, <2>2 DEF Tidy, Needed, Listed, WillAdd, Checking, Unhooking
<1> QED
  BY <1>0, <1>1, <1>2, LookupTidy, HookTidy, RemoveIfTidy, UnhookTidy DEF Next

\* Whatever overlapped, once nobody is inside hook() or unhook() of a member and
\* every handle it gave out is removed, the registry has forgotten the member
\* and xcallback is off it.  (Xposed.kt 141-147)
THEOREM Forgotten == Spec => []NothingLeftBehind
<1>1. Init => OwnerInv /\ TidyInv
  <2>1. Init => TidyInv
    BY DEF Init, TidyInv, Tidy
  <2> QED
    BY <2>1, InitOwner
<1>2. TypeInv /\ OwnerInv /\ TidyInv /\ [Next]_vars => (OwnerInv /\ TidyInv)'
  BY StepOwner, StepTidy
<1>3. TidyInv => NothingLeftBehind
  <2> SUFFICES ASSUME TidyInv, NEW m \in Members, Quiet(m), ~Listed(m)
               PROVE  hookedMembers[m] = None /\ m \notin bridged
    BY DEF NothingLeftBehind, Listed
  <2>1. ~Needed(m) /\ ~Checking(m) /\ ~Unhooking(m)
    BY DEF Quiet, Hooking, Unhooking, Needed, WillAdd, Checking, InUnhook
  <2> QED
    BY <2>1 DEF TidyInv, Tidy
<1> QED
  BY <1>1, <1>2, <1>3, TypeInvariance, PTL DEF Spec

----
\* The order of the handles

\* The handle a goes before the handle b: its priority is higher, or it is the
\* earlier of the two with the same priority.
Before(a, b) ==
  \/ a.req.priority > b.req.priority
  \/ a.req.priority = b.req.priority /\ a.id < b.id

Ordered(s) == \A i, j \in DOMAIN s : i < j => Before(s[i], s[j])

\* What the thread t has found out about its list s is still so: its handle is
\* the newest, and idx[t] is the place behind the handles of no lower priority.
PlaceOK(t, s) ==
  /\ \A i \in DOMAIN s : s[i].id < cur[t].id
  /\ pc[t] = "size" => \A i \in DOMAIN s : s[i].req.priority >= cur[t].req.priority
  /\ pc[t] = "add" =>
       /\ idx[t] <= Len(s) + 1
       /\ \A i \in DOMAIN s : i < idx[t] => s[i].req.priority >= cur[t].req.priority
       /\ \A i \in DOMAIN s : i >= idx[t] => s[i].req.priority < cur[t].req.priority

\* No thread but t is inside hook() or unhook() of m.
Alone(t, m) ==
  \A u \in Threads : u # t => ~(pc[u] \in InHook \cup InUnhook /\ cur[u].member = m)

\* The registered list is ordered; a thread inside a hook() of m is alone there,
\* and the list it has in hand is the registered one.
InOrder(m) ==
  /\ hookedMembers[m] # None => Ordered(handles[hookedMembers[m]])
  /\ \A t \in Threads : pc[t] \in InHook /\ cur[t].member = m =>
       /\ Alone(t, m)
       /\ pc[t] \in {"index", "size", "add"} =>
            hookedMembers[m] = cur[t].target /\ PlaceOK(t, handles[cur[t].target])

OrderInv == \A m \in Members \ overlapped : InOrder(m)

\* The number that a hook() is about to register is nobody's target yet.
UnusedUntilPut ==
  \A t \in Threads : pc[t] \in {"bridge", "put"} =>
    /\ \A h \in returned : h.target # cur[t].id
    /\ \A u \in Threads : pc[u] \in InHook => cur[u].target # cur[t].id
    /\ \A m \in Members : hookedMembers[m] # cur[t].id

LEMMA StepUnused ==
  ASSUME TypeInv, OwnerInv, Fresh, UnusedUntilPut, [Next]_vars
  PROVE  UnusedUntilPut'
<1>0. PICK own \in [1..MaxHooks -> Members \cup {None}] : Owns(own)
  BY DEF OwnerInv
<1>1. CASE /\ UNCHANGED <<hookedMembers, handles, bridged, hooks, cur, returned,
                          unhooking, overlapped, raced>>
           /\ \A t \in Threads : pc'[t] = pc[t]
  BY <1>1 DEF UnusedUntilPut
<1>2. ASSUME NEW t \in Threads, NEW k \in Members, NEW r \in Requests, HookLookup(t, k, r)
      PROVE  UnusedUntilPut'
  <2>1. \A u \in Threads : u # t => pc'[u] = pc[u] /\ cur'[u] = cur[u]
    BY <1>2, OtherThreads
  <2>2. UNCHANGED <<hookedMembers, returned>>
    BY <1>2 DEF HookLookup, registry
  <2>3. cur'[t].id = hooks + 1 /\ cur'[t].target = hookedMembers[k] /\ hooks \in Nat
    BY <1>2 DEF HookLookup, TypeInv, Locals
  <2>4. \A h \in returned : h.target # hooks + 1
    <3>1. \A h \in returned : h.target <= hooks /\ h.target \in Nat
      BY <1>0 DEF Owns, TypeInv, Lists, Handle
    <3> QED
      BY <2>3, <3>1
  <2>5. \A m \in Members : hookedMembers[m] # hooks + 1
    <3>1. \A m \in Members : hookedMembers[m] <= hooks
      BY <1>0, <2>3 DEF Owns, None
    <3>2. \A m \in Members : hookedMembers[m] \in Nat
      BY DEF TypeInv, Lists
    <3> QED
      BY <2>3, <3>1, <3>2
  <2>6. \A u \in Threads : pc[u] \in InHook => cur[u].target # hooks + 1
    <3>1. \A u \in Threads : pc[u] \in InHook => cur[u].target <= hooks /\ cur[u].target \in Nat
      BY <1>0, <2>3 DEF Owns, TypeInv, Locals, Handle, InHook, None
    <3> QED
      BY <2>3, <3>1
  <2>7. ASSUME NEW u \in Threads, pc'[u] \in {"bridge", "put"}
        PROVE  /\ \A h \in returned' : h.target # cur'[u].id
               /\ \A v \in Threads : pc'[v] \in InHook => cur'[v].target # cur'[u].id
               /\ \A m \in Members : hookedMembers'[m] # cur'[u].id
    <3>1. CASE u = t
      BY <2>1, <2>2, <2>3, <2>4, <2>5, <2>6, <3>1
    <3>2. CASE u # t
      BY <2>1, <2>2, <2>3, <2>7, <3>2 DEF UnusedUntilPut
    <3> QED
      BY <3>1, <3>2
  <2> QED
    BY <2>7 DEF UnusedUntilPut
<1>3. ASSUME NEW t \in Threads, HookStep(t) PROVE UnusedUntilPut'
  <2>1. \A u \in Threads : u # t => pc'[u] = pc[u] /\ cur'[u] = cur[u]
    BY <1>3, OtherThreads
  <2>2. pc[t] \in InHook /\ cur[t] \in Handle
    BY <1>3 DEF HookStep, HookBridge, HookBridgeThrows, HookPut, HookIndex, HookSize,
           HookAdd, HookAddThrows, InHook, TypeInv, Locals
  <2>3. CASE HookPut(t)
    <3>1. /\ returned' = returned /\ pc'[t] = "index" /\ cur'[t].target = cur[t].id
      BY <2>2, <2>3 DEF HookPut, Goto, ghosts, TypeInv, Locals, Handle
    <3>2. \A m \in Members : hookedMembers'[m] \in {hookedMembers[m], cur[t].id}
      BY <2>3 DEF HookPut, TypeInv, Lists
    <3>3. \A u \in Threads : u # t /\ pc[u] \in InHook => cur[t].id # cur[u].id
      BY <2>2 DEF Fresh
    <3> QED
      BY <2>1, <2>2, <3>1, <3>2, <3>3 DEF UnusedUntilPut, InHook
  <2>4. CASE HookAdd(t)
    <3>1. /\ returned' = returned \cup {cur[t]} /\ pc'[t] = "idle"
          /\ hookedMembers' = hookedMembers
      BY <2>4 DEF HookAdd, Done, Goto, TypeInv, Locals
    <3> QED
      BY <2>1, <2>2, <3>1 DEF UnusedUntilPut, InHook
  <2>5. CASE ~HookPut(t) /\ ~HookAdd(t)
    <3>1. UNCHANGED <<returned, hookedMembers>>
      BY <1>3, <2>5 DEF HookStep, HookBridge, HookBridgeThrows, HookIndex, HookSize,
                        HookAddThrows, registry, ghosts
    <3>2. pc'[t] = "idle" \/ (cur'[t] = cur[t] /\ (pc'[t] \in {"bridge", "put"} => pc[t] = "bridge"))
      BY <1>3, <2>5 DEF HookStep, HookBridge, HookBridgeThrows, HookIndex, HookSize,
                        HookAddThrows, Done, Goto, TypeInv, Locals
    <3> QED
      BY <2>1, <2>2, <3>1, <3>2 DEF UnusedUntilPut, InHook
  <2> QED
    BY <2>3, <2>4, <2>5
<1>4. ASSUME NEW t \in Threads, (\E h \in returned : UnhookRemoveIf(t, h)) \/ UnhookStep(t)
      PROVE  UnusedUntilPut'
  <2>1. \A u \in Threads : u # t => pc'[u] = pc[u] /\ cur'[u] = cur[u]
    BY <1>4, OtherThreads
  <2>2. pc'[t] \notin InHook /\ pc'[t] \notin {"bridge", "put"}
    BY <1>4 DEF UnhookRemoveIf, UnhookStep, UnhookIsEmpty, UnhookRemove, UnhookBridge,
                Goto, Done, InHook, TypeInv, Locals
  <2>3. returned' = returned
    BY <1>4 DEF UnhookRemoveIf, UnhookStep, UnhookIsEmpty, UnhookRemove, UnhookBridge, ghosts
  <2>4. \A m \in Members : hookedMembers'[m] \in {None, hookedMembers[m]}
    BY <1>4 DEF UnhookRemoveIf, UnhookStep, UnhookIsEmpty, UnhookRemove, UnhookBridge,
                registry, TypeInv, Lists
  <2>5. \A u \in Threads : pc[u] \in {"bridge", "put"} => cur[u].id # None
    BY DEF TypeInv, Locals, InHook, None
  <2> QED
    BY <2>1, <2>2, <2>3, <2>4, <2>5 DEF UnusedUntilPut
<1> QED
  BY <1>1, <1>2, <1>3, <1>4, ThreadSteps

\* Taking elements out of a list keeps its order.
LEMMA SublistOrdered ==
  ASSUME NEW s \in Seq(Handle), NEW S, Ordered(s)
  PROVE  Ordered(Sublist(s, S))
<1> DEFINE r == Sublist(s, S)
<1>1. r \in Seq(Handle)
  BY SublistPicks
<1>2. PICK g \in [1..Len(r) -> 1..Len(s)] :
        /\ \A k \in 1..Len(r) : r[k] = s[g[k]]
        /\ \A j, k \in 1..Len(r) : j < k => g[j] < g[k]
  BY SublistPicks
<1> HIDE DEF r
<1>3. DOMAIN r = 1..Len(r) /\ DOMAIN s = 1..Len(s)
  BY <1>1
<1>4. ASSUME NEW i \in 1..Len(r), NEW j \in 1..Len(r), i < j PROVE Before(r[i], r[j])
  <2>1. g[i] \in 1..Len(s) /\ g[j] \in 1..Len(s) /\ g[i] < g[j]
    BY <1>2, <1>4
  <2> QED
    BY <1>2, <1>3, <2>1 DEF Ordered
<1>5. Ordered(r)
  BY <1>3, <1>4 DEF Ordered
<1> QED
  BY <1>5 DEF r

\* The elements of InsertAt
LEMMA InsertAtElements ==
  ASSUME NEW D, NEW s \in Seq(D), NEW k \in 1..(Len(s) + 1), NEW e \in D
  PROVE  LET r == InsertAt(s, k, e)
         IN  /\ Len(r) = Len(s) + 1 /\ DOMAIN r = 1..(Len(s) + 1)
             /\ r[k] = e
             /\ \A i \in 1..(k - 1) : r[i] = s[i]
             /\ \A i \in (k + 1)..(Len(s) + 1) : r[i] = s[i - 1]
<1> DEFINE a == SubSeq(s, 1, k - 1)
           b == SubSeq(s, k, Len(s))
           r == a \o <<e>> \o b
<1>1. a \in Seq(D) /\ Len(a) = k - 1 /\ \A j \in 1..(k - 1) : a[j] = s[j]
  OBVIOUS
<1>2. b \in Seq(D) /\ Len(b) = Len(s) - k + 1 /\ \A j \in 1..(Len(s) - k + 1) : b[j] = s[k + j - 1]
  OBVIOUS
<1>3. Len(s) \in Nat
  OBVIOUS
<1> HIDE DEF a, b
<1> DEFINE c == a \o <<e>>
<1>4. c \in Seq(D) /\ Len(c) = k /\ c[k] = e /\ \A j \in 1..(k - 1) : c[j] = s[j]
  BY <1>1
<1> HIDE DEF c
<1>5. r = c \o b
  BY DEF c
<1>6. Len(r) = Len(s) + 1 /\ DOMAIN r = 1..(Len(s) + 1)
  BY <1>2, <1>3, <1>4, <1>5
<1>7. r[k] = e
  BY <1>2, <1>4, <1>5
<1>8. \A i \in 1..(k - 1) : r[i] = s[i]
  BY <1>2, <1>4, <1>5
<1>9. ASSUME NEW i \in (k + 1)..(Len(s) + 1) PROVE r[i] = s[i - 1]
  <2>1. i - k \in 1..(Len(s) - k + 1)
    BY <1>3
  <2>2. r[i] = b[i - k]
    BY <1>2, <1>3, <1>4, <1>5, <2>1
  <2>3. b[i - k] = s[k + (i - k) - 1]
    BY <1>2, <2>1
  <2>4. k + (i - k) - 1 = i - 1
    BY <1>3
  <2> QED
    BY <2>2, <2>3, <2>4
<1> QED
  BY <1>6, <1>7, <1>8, <1>9 DEF InsertAt, a, b

\* A handle put at the place PlaceOK tells keeps the order.
LEMMA InsertOrdered ==
  ASSUME NEW s \in Seq(Handle), Ordered(s), NEW t \in Threads, cur[t] \in Handle,
         pc[t] = "add", PlaceOK(t, s), idx[t] \in 1..(Len(s) + 1)
  PROVE  Ordered(InsertAt(s, idx[t], cur[t]))
<1> DEFINE k == idx[t]
           e == cur[t]
           r == InsertAt(s, k, e)
<1>1. Len(s) \in Nat /\ DOMAIN s = 1..Len(s) /\ k \in 1..(Len(s) + 1)
  OBVIOUS
<1>2. /\ DOMAIN r = 1..(Len(s) + 1)
      /\ r[k] = e
      /\ \A i \in 1..(k - 1) : r[i] = s[i]
      /\ \A i \in (k + 1)..(Len(s) + 1) : r[i] = s[i - 1]
  BY InsertAtElements
<1>3. \A i \in 1..(k - 1) : s[i].req.priority >= e.req.priority /\ s[i].id < e.id
  BY <1>1 DEF PlaceOK
<1>4. \A i \in k..Len(s) : s[i].req.priority < e.req.priority
  BY <1>1 DEF PlaceOK
<1>5. e.req.priority \in Int /\ \A i \in 1..Len(s) : s[i].req.priority \in Int
  <2>1. \A h \in Handle : h.req.priority \in Int
    BY DEF Handle
  <2>2. \A i \in 1..Len(s) : s[i] \in Handle
    OBVIOUS
  <2> QED
    BY <2>1, <2>2
<1> HIDE DEF r, k, e
<1>6. ASSUME NEW i \in 1..(Len(s) + 1), NEW j \in 1..(Len(s) + 1), i < j
      PROVE  Before(r[i], r[j])
  <2>1. CASE j < k
    <3>1. i \in 1..(k - 1) /\ j \in 1..(k - 1) /\ i \in DOMAIN s /\ j \in DOMAIN s
      BY <1>1, <1>6, <2>1
    <3>2. Before(s[i], s[j])
      BY <1>6, <3>1 DEF Ordered
    <3> QED
      BY <1>2, <3>1, <3>2
  <2>2. CASE j = k
    <3>1. i \in 1..(k - 1) /\ i \in 1..Len(s)
      BY <1>1, <1>6, <2>2
    <3>2. Before(s[i], e)
      BY <1>3, <1>5, <3>1 DEF Before
    <3> QED
      BY <1>2, <2>2, <3>1, <3>2
  <2>3. CASE i = k
    <3>1. j \in (k + 1)..(Len(s) + 1) /\ j - 1 \in k..Len(s) /\ j - 1 \in 1..Len(s)
      BY <1>1, <1>6, <2>3
    <3>2. Before(e, s[j - 1])
      BY <1>4, <1>5, <3>1 DEF Before
    <3> QED
      BY <1>2, <2>3, <3>1, <3>2
  <2>4. CASE i < k /\ k < j
    <3>1. /\ i \in 1..(k - 1) /\ i \in DOMAIN s
          /\ j \in (k + 1)..(Len(s) + 1) /\ j - 1 \in DOMAIN s /\ i < j - 1
      BY <1>1, <2>4
    <3>2. Before(s[i], s[j - 1])
      BY <3>1 DEF Ordered
    <3> QED
      BY <1>2, <3>1, <3>2
  <2>5. CASE k < i
    <3>1. /\ i \in (k + 1)..(Len(s) + 1) /\ i - 1 \in DOMAIN s
          /\ j \in (k + 1)..(Len(s) + 1) /\ j - 1 \in DOMAIN s /\ i - 1 < j - 1
      BY <1>1, <1>6, <2>5
    <3>2. Before(s[i - 1], s[j - 1])
      BY <3>1 DEF Ordered
    <3> QED
      BY <1>2, <3>1, <3>2
  <2> QED
    BY <1>1, <1>6, <2>1, <2>2, <2>3, <2>4, <2>5
<1> QED
  BY <1>2, <1>6 DEF Ordered, r, k, e

\* A registered HookedMember is for its member.
LEMMA RegisteredOwner ==
  ASSUME TypeInv, OwnerInv, NEW m \in Members, hookedMembers[m] # None
  PROVE  /\ hookedMembers[m] \in 1..MaxHooks
         /\ \A h \in returned : h.target = hookedMembers[m] => h.member = m
         /\ \A t \in Threads :
              pc[t] \in InHook /\ cur[t].target = hookedMembers[m] => cur[t].member = m
<1>1. PICK own \in [1..MaxHooks -> Members \cup {None}] : Owns(own)
  BY DEF OwnerInv
<1>2. hookedMembers[m] \in 1..MaxHooks
  BY DEF TypeInv, Lists, None
<1> QED
  BY <1>1, <1>2 DEF Owns

\* A step on another member keeps the order of m.
LEMMA OtherInOrder ==
  ASSUME NEW t \in Threads, NEW m \in Members, InOrder(m),
         \A u \in Threads : u # t => pc'[u] = pc[u] /\ cur'[u] = cur[u] /\ idx'[u] = idx[u],
         pc[t] \in InHook \cup InUnhook => cur[t].member # m,
         pc'[t] \in InHook \cup InUnhook => cur'[t].member # m,
         hookedMembers'[m] = hookedMembers[m],
         hookedMembers[m] # None => handles'[hookedMembers[m]] = handles[hookedMembers[m]],
         \A u \in Threads : pc[u] \in {"index", "size", "add"} => cur[u].target # None
  PROVE  InOrder(m)'
<1>1. hookedMembers'[m] # None => Ordered(handles'[hookedMembers'[m]])
  BY DEF InOrder
<1>2. ASSUME NEW u \in Threads, pc'[u] \in InHook, cur'[u].member = m
      PROVE  /\ Alone(u, m)'
             /\ pc'[u] \in {"index", "size", "add"} =>
                  /\ hookedMembers'[m] = cur'[u].target
                  /\ PlaceOK(u, handles[cur[u].target])'
  <2>1. u # t /\ pc'[u] = pc[u] /\ cur'[u] = cur[u] /\ idx'[u] = idx[u]
    BY <1>2
  <2>2. Alone(u, m)
    BY <1>2, <2>1 DEF InOrder
  <2>3. Alone(u, m)'
    BY <2>2 DEF Alone
  <2>4. ASSUME pc'[u] \in {"index", "size", "add"}
        PROVE  hookedMembers'[m] = cur'[u].target /\ PlaceOK(u, handles[cur[u].target])'
    <3>1. hookedMembers[m] = cur[u].target /\ PlaceOK(u, handles[cur[u].target])
      BY <1>2, <2>1, <2>4 DEF InOrder
    <3>2. handles'[cur'[u].target] = handles[cur[u].target]
      BY <2>1, <2>4, <3>1
    <3>3. PlaceOK(u, handles[cur[u].target])'
      BY <2>1, <3>1, <3>2 DEF PlaceOK
    <3> QED
      BY <2>1, <3>1, <3>3
  <2> QED
    BY <2>3, <2>4
<1> QED
  BY <1>1, <1>2 DEF InOrder

\* A hook() that starts, and is not counted as an overlap, is alone and newer than
\* the handles in the list.
LEMMA LookupInOrder ==
  ASSUME TypeInv, NEW t \in Threads, NEW k \in Members, NEW r \in Requests,
         HookLookup(t, k, r), NEW m \in Members, m \notin overlapped', InOrder(m)
  PROVE  InOrder(m)'
<1>1. \A u \in Threads : u # t => pc'[u] = pc[u] /\ cur'[u] = cur[u] /\ idx'[u] = idx[u]
  BY OtherThreads, OtherPlaces
<1>2. UNCHANGED <<hookedMembers, handles>>
  BY DEF HookLookup, registry
<1>3. /\ pc[t] = "idle" /\ cur'[t].member = k /\ cur'[t].target = hookedMembers[k]
      /\ cur'[t].id = hooks + 1
      /\ pc'[t] = IF hookedMembers[k] = None THEN "bridge" ELSE "index"
  BY DEF HookLookup, Goto, TypeInv, Locals
<1>4. CASE k # m
  <2>1. \A u \in Threads : pc[u] \in {"index", "size", "add"} => cur[u].target # None
    BY DEF TypeInv, Locals
  <2> QED
    BY <1>1, <1>2, <1>3, <1>4, <2>1, OtherInOrder DEF InHook, InUnhook
<1>5. CASE k = m
  <2>1. Quiet(m)
    BY <1>5 DEF HookLookup
  <2>2. \A u \in Threads : ~(pc[u] \in InHook \cup InUnhook /\ cur[u].member = m)
    BY <2>1 DEF Quiet, Hooking, Unhooking
  <2>3. Alone(t, m)'
    BY <1>1, <2>2 DEF Alone
  <2>4. pc'[t] \in {"index", "size", "add"} =>
          hookedMembers'[m] = cur'[t].target /\ PlaceOK(t, handles[cur[t].target])'
    <3> SUFFICES ASSUME pc'[t] \in {"index", "size", "add"}
                 PROVE  PlaceOK(t, handles[cur[t].target])'
      BY <1>2, <1>3, <1>5
    <3>1. pc'[t] = "index" /\ hookedMembers[m] # None
      BY <1>3, <1>5
    <3> DEFINE s == handles[hookedMembers[m]]
    <3>2. hookedMembers[m] \in 1..MaxHooks
      BY <3>1 DEF TypeInv, Lists, None
    <3>3. \A i \in DOMAIN s : s[i] \in Range(s)
      BY DEF Range
    <3>4. \A i \in DOMAIN s : s[i] \in returned
      BY <3>2, <3>3 DEF TypeInv, Lists
    <3>5. \A h \in returned : h.id < hooks + 1
      BY DEF TypeInv, Lists, Locals
    <3>6. handles'[cur'[t].target] = s
      BY <1>2, <1>3, <1>5
    <3> HIDE DEF s
    <3>7. \A i \in DOMAIN s : s[i].id < cur'[t].id
      BY <1>3, <3>4, <3>5
    <3> QED
      BY <3>1, <3>6, <3>7 DEF PlaceOK
  <2>5. \A u \in Threads : pc'[u] \in InHook /\ cur'[u].member = m => u = t
    BY <1>1, <2>2
  <2>6. hookedMembers'[m] # None => Ordered(handles'[hookedMembers'[m]])
    BY <1>2 DEF InOrder
  <2> QED
    BY <2>3, <2>4, <2>5, <2>6 DEF InOrder
<1> QED
  BY <1>4, <1>5

\* The place that indexOfFirst finds in an ordered list
LEMMA IndexPlace ==
  ASSUME TypeInv, NEW t \in Threads, HookIndex(t), NEW m \in Members,
         hookedMembers[m] = cur[t].target,
         Ordered(handles[cur[t].target]), PlaceOK(t, handles[cur[t].target])
  PROVE  PlaceOK(t, handles[cur[t].target])'
<1> DEFINE s == handles[cur[t].target]
           p == cur[t].req.priority
           lower == LowerThan(s, p)
<1>1. pc[t] = "index" /\ cur' = cur /\ handles' = handles
  BY DEF HookIndex, registry
<1>2. cur[t] \in Handle /\ cur[t].target \in 1..MaxHooks
  BY <1>1 DEF TypeInv, Locals, Handle, None, InHook
<1>3. s \in Seq(Handle)
  BY <1>2 DEF TypeInv, Lists
<1>4. p \in Int /\ \A i \in DOMAIN s : s[i].req.priority \in Int
  <2>1. \A h \in Handle : h.req.priority \in Int
    BY DEF Handle
  <2>2. \A i \in DOMAIN s : s[i] \in Handle
    BY <1>3
  <2> QED
    BY <1>2, <2>1, <2>2
<1>5. lower \subseteq 1..Len(s) /\ Len(s) \in Nat /\ DOMAIN s = 1..Len(s)
  BY <1>3 DEF LowerThan
<1>6. \A i \in DOMAIN s : i \notin lower => s[i].req.priority >= p
  BY <1>4 DEF LowerThan
<1>7. \A i \in DOMAIN s : s[i].id < cur[t].id
  BY DEF PlaceOK
<1>8. CASE lower = {}
  <2>1. pc'[t] = "size"
    BY <1>8 DEF HookIndex, Goto, TypeInv, Locals
  <2> HIDE DEF lower, s, p
  <2>2. \A i \in DOMAIN s : s[i].req.priority >= p
    BY <1>6, <1>8
  <2> QED
    BY <1>1, <1>7, <2>1, <2>2 DEF PlaceOK, s, p
<1>9. CASE lower # {}
  <2> DEFINE k == CHOOSE i \in lower : \A j \in lower : i <= j
  <2>1. pc'[t] = "add" /\ idx'[t] = k
    BY <1>9 DEF HookIndex, Goto, TypeInv, Locals
  <2>2. \E i \in lower : \A j \in lower : i <= j
    <3>1. lower \in SUBSET Nat
      BY <1>5
    <3> HIDE DEF lower
    <3> QED
      BY <1>9, <3>1, Least
  <2>3. k \in lower /\ \A j \in lower : k <= j
    BY <2>2
  <2>4. k \in 1..Len(s) /\ s[k].req.priority < p
    BY <1>5, <2>3 DEF LowerThan
  <2> HIDE DEF k
  <2>5. \A i \in DOMAIN s : i < k => s[i].req.priority >= p
    <3> SUFFICES ASSUME NEW i \in DOMAIN s, i < k PROVE i \notin lower
      BY <1>6
    <3> HIDE DEF lower
    <3> QED
      BY <1>5, <2>3, <2>4
  <2>6. \A i \in DOMAIN s : i >= k => s[i].req.priority < p
    <3> SUFFICES ASSUME NEW i \in DOMAIN s, i >= k PROVE s[i].req.priority < p
      OBVIOUS
    <3>1. CASE i = k
      BY <2>4, <3>1
    <3>2. CASE k < i
      <4>1. Before(s[k], s[i])
        BY <1>5, <2>4, <3>2 DEF Ordered
      <4>2. s[i].req.priority <= s[k].req.priority
        BY <1>4, <1>5, <2>4, <4>1 DEF Before
      <4> HIDE DEF s, p
      <4> QED
        BY <1>4, <1>5, <2>4, <4>2
    <3> QED
      BY <1>5, <2>4, <3>1, <3>2
  <2>7. k <= Len(s) + 1
    BY <1>5, <2>4
  <2> HIDE DEF lower, s, p
  <2> QED
    BY <1>1, <1>7, <2>1, <2>5, <2>6, <2>7 DEF PlaceOK, s, p
<1> QED
  BY <1>8, <1>9

\* A hook() that is alone puts its handle where it belongs.
LEMMA HookInOrder ==
  ASSUME TypeInv, OwnerInv, UnusedUntilPut, NEW t \in Threads, HookStep(t),
         NEW m \in Members, InOrder(m)
  PROVE  InOrder(m)'
<1>1. \A u \in Threads : u # t => pc'[u] = pc[u] /\ cur'[u] = cur[u] /\ idx'[u] = idx[u]
  BY OtherThreads, OtherPlaces
<1>2. pc[t] \in InHook /\ cur[t] \in Handle
  BY DEF HookStep, HookBridge, HookBridgeThrows, HookPut, HookIndex, HookSize,
         HookAdd, HookAddThrows, InHook, TypeInv, Locals
<1>3. pc'[t] \in {"idle"} \cup InHook /\ (pc'[t] # "idle" => cur'[t].member = cur[t].member)
  BY <1>2 DEF HookStep, HookBridge, HookBridgeThrows, HookPut, HookIndex, HookSize,
         HookAdd, HookAddThrows, Goto, Done, InHook, TypeInv, Locals, Handle
<1>4. CASE cur[t].member # m
  <2>1. hookedMembers'[m] = hookedMembers[m]
    BY <1>4 DEF HookStep, HookBridge, HookBridgeThrows, HookPut, HookIndex, HookSize,
         HookAdd, HookAddThrows, registry, TypeInv, Lists
  <2>2. hookedMembers[m] # None => handles'[hookedMembers[m]] = handles[hookedMembers[m]]
    <3>1. CASE HookAdd(t)
      <4>1. hookedMembers[m] # None => cur[t].target # hookedMembers[m]
        BY <1>2, <1>4, RegisteredOwner
      <4> QED
        BY <3>1, <4>1 DEF HookAdd, TypeInv, Lists, None
    <3>2. CASE ~HookAdd(t)
      BY <3>2 DEF HookStep, HookBridge, HookBridgeThrows, HookPut, HookIndex, HookSize,
           HookAddThrows, registry
    <3> QED
      BY <3>1, <3>2
  <2>3. \A u \in Threads : pc[u] \in {"index", "size", "add"} => cur[u].target # None
    BY DEF TypeInv, Locals
  <2> QED
    BY <1>1, <1>3, <1>4, <2>1, <2>2, <2>3, OtherInOrder DEF InHook, InUnhook
<1>5. CASE cur[t].member = m
  <2>1. Alone(t, m)
    BY <1>2, <1>5 DEF InOrder
  <2>2. Alone(t, m)'
    BY <1>1, <2>1 DEF Alone
  <2>3. \A u \in Threads : pc'[u] \in InHook /\ cur'[u].member = m => u = t
    BY <1>1, <2>1 DEF Alone
  <2>4. pc[t] \in {"index", "size", "add"} =>
          /\ hookedMembers[m] = cur[t].target /\ PlaceOK(t, handles[cur[t].target])
          /\ cur[t].target \in 1..MaxHooks
          /\ Ordered(handles[cur[t].target])
    BY <1>2, <1>5 DEF InOrder, TypeInv, Locals, Handle, None
  <2>5. ASSUME pc'[t] \in {"index", "size", "add"} =>
                 hookedMembers'[m] = cur'[t].target /\ PlaceOK(t, handles[cur[t].target])',
               hookedMembers'[m] # None => Ordered(handles'[hookedMembers'[m]])
        PROVE  InOrder(m)'
    BY <2>2, <2>3, <2>5 DEF InOrder
  <2>6. CASE HookBridge(t) \/ HookBridgeThrows(t) \/ HookAddThrows(t)
    <3>1. UNCHANGED <<hookedMembers, handles>> /\ pc'[t] \in {"put", "idle"}
      BY <2>6 DEF HookBridge, HookBridgeThrows, HookAddThrows, Done, Goto, registry,
                  TypeInv, Locals
    <3>2. hookedMembers'[m] # None => Ordered(handles'[hookedMembers'[m]])
      BY <3>1 DEF InOrder
    <3> QED
      BY <2>5, <3>1, <3>2
  <2>7. CASE HookPut(t)
    <3>1. /\ handles' = handles /\ pc[t] = "put" /\ pc'[t] = "index"
          /\ cur'[t].target = cur[t].id /\ hookedMembers'[m] = cur[t].id
      BY <1>2, <1>5, <2>7 DEF HookPut, Goto, TypeInv, Locals, Lists, Handle
    <3>2. cur[t].id \in 1..MaxHooks
      BY <1>2 DEF TypeInv, Locals
    <3>3. handles[cur[t].id] \in Seq(Handle)
      BY <3>2 DEF TypeInv, Lists
    <3>4. Range(handles[cur[t].id]) = {}
      BY <3>1, <3>2 DEF UnusedUntilPut, TypeInv, Lists
    <3>5. DOMAIN handles[cur[t].id] = {}
      BY <3>4 DEF Range
    <3>6. Ordered(handles'[cur[t].id])
      BY <3>1, <3>5 DEF Ordered
    <3>7. PlaceOK(t, handles[cur[t].target])'
      BY <3>1, <3>5 DEF PlaceOK
    <3> QED
      BY <2>5, <3>1, <3>6, <3>7
  <2>8. CASE HookIndex(t)
    <3>1. /\ UNCHANGED <<hookedMembers, handles, cur>> /\ pc[t] = "index"
      BY <2>8 DEF HookIndex, registry
    <3>2. PlaceOK(t, handles[cur[t].target])'
      BY <2>4, <2>8, <3>1, IndexPlace
    <3> QED
      BY <2>4, <2>5, <3>1, <3>2
  <2>9. CASE HookSize(t)
    <3>1. /\ UNCHANGED <<hookedMembers, handles, cur>> /\ pc[t] = "size" /\ pc'[t] = "add"
          /\ idx'[t] = Len(handles[cur[t].target]) + 1
      BY <2>9 DEF HookSize, Goto, registry, TypeInv, Locals
    <3> DEFINE s == handles[cur[t].target]
    <3>2. s \in Seq(Handle)
      BY <2>4, <3>1 DEF TypeInv, Lists
    <3>3. PlaceOK(t, s)
      BY <2>4, <3>1
    <3>4. Len(s) \in Nat /\ DOMAIN s = 1..Len(s) /\ handles'[cur'[t].target] = s
      BY <3>1, <3>2
    <3> HIDE DEF s
    <3>5. \A i \in DOMAIN s : s[i].req.priority >= cur[t].req.priority
      BY <3>1, <3>3 DEF PlaceOK
    <3>6. \A i \in DOMAIN s : ~(i >= Len(s) + 1)
      BY <3>4
    <3>7. Len(s) + 1 <= Len(s) + 1
      BY <3>4
    <3>8. idx'[t] = Len(s) + 1
      BY <3>1 DEF s
    <3>9. PlaceOK(t, handles[cur[t].target])'
      BY <3>1, <3>3, <3>4, <3>5, <3>6, <3>7, <3>8 DEF PlaceOK
    <3> QED
      BY <2>4, <2>5, <3>1, <3>9
  <2>10. CASE HookAdd(t)
    <3> DEFINE s == handles[cur[t].target]
    <3>1. /\ hookedMembers' = hookedMembers /\ pc[t] = "add" /\ pc'[t] = "idle"
          /\ idx[t] <= Len(s) + 1
      BY <2>10 DEF HookAdd, Done, Goto, TypeInv, Locals
    <3>2. hookedMembers[m] = cur[t].target /\ cur[t].target \in 1..MaxHooks
      BY <2>4, <3>1
    <3>3. handles'[cur[t].target] = InsertAt(s, idx[t], cur[t])
      BY <2>10, <3>2 DEF HookAdd, TypeInv, Lists
    <3>4. s \in Seq(Handle)
      BY <3>2 DEF TypeInv, Lists
    <3>5. idx[t] \in 1..(Len(s) + 1)
      <4>1. idx[t] \in Nat /\ idx[t] # 0
        BY <3>1 DEF TypeInv, Locals
      <4>2. Len(s) \in Nat
        BY <3>4
      <4> QED
        BY <3>1, <4>1, <4>2
    <3>6. Ordered(InsertAt(s, idx[t], cur[t]))
      BY <1>2, <2>4, <3>1, <3>4, <3>5, InsertOrdered
    <3> QED
      BY <2>5, <3>1, <3>2, <3>3, <3>6
  <2> QED
    BY <2>6, <2>7, <2>8, <2>9, <2>10 DEF HookStep
<1> QED
  BY <1>4, <1>5

\* An unhook() takes handles out of the list and keeps the order of the others.
LEMMA RemoveIfInOrder ==
  ASSUME TypeInv, OwnerInv, NEW t \in Threads, NEW h \in returned, UnhookRemoveIf(t, h),
         NEW m \in Members, m \notin overlapped', InOrder(m)
  PROVE  InOrder(m)'
<1>1. \A u \in Threads : u # t => pc'[u] = pc[u] /\ cur'[u] = cur[u] /\ idx'[u] = idx[u]
  BY OtherThreads, OtherPlaces
<1>2. /\ pc[t] = "idle" /\ pc'[t] = "isEmpty" /\ cur'[t] = h
      /\ hookedMembers' = hookedMembers
  BY DEF UnhookRemoveIf, Goto, TypeInv, Locals
<1>3. h.target \in 1..MaxHooks
  BY DEF TypeInv, Lists, Handle, None
<1>4. CASE h.member # m
  <2>1. hookedMembers[m] # None => handles'[hookedMembers[m]] = handles[hookedMembers[m]]
    <3>1. hookedMembers[m] # None => h.target # hookedMembers[m]
      BY <1>4, RegisteredOwner
    <3> QED
      BY <3>1 DEF UnhookRemoveIf, TypeInv, Lists, None
  <2>2. \A u \in Threads : pc[u] \in {"index", "size", "add"} => cur[u].target # None
    BY DEF TypeInv, Locals
  <2> QED
    BY <1>1, <1>2, <1>4, <2>1, <2>2, OtherInOrder DEF InHook, InUnhook
<1>5. CASE h.member = m
  <2>1. ~Hooking(m) /\ hookedMembers[m] \in {None, h.target}
    BY <1>5 DEF UnhookRemoveIf
  <2>2. \A u \in Threads : ~(pc'[u] \in InHook /\ cur'[u].member = m)
    BY <1>1, <1>2, <2>1 DEF Hooking, InHook
  <2>3. hookedMembers[m] # None => Ordered(handles'[h.target])
    <3> SUFFICES ASSUME hookedMembers[m] # None PROVE Ordered(handles'[h.target])
      OBVIOUS
    <3> DEFINE s == handles[h.target]
               keep == Kept(handles[h.target], h)
    <3>1. s \in Seq(Handle) /\ Ordered(s)
      BY <1>3, <2>1 DEF InOrder, TypeInv, Lists
    <3>2. handles'[h.target] = Sublist(s, keep)
      BY <1>3 DEF UnhookRemoveIf, TypeInv, Lists
    <3> HIDE DEF s, keep
    <3> QED
      BY <3>1, <3>2, SublistOrdered
  <2> QED
    BY <1>2, <2>1, <2>2, <2>3 DEF InOrder
<1> QED
  BY <1>4, <1>5

\* The rest of unhook() finds no hook() of the member, and changes no list.
LEMMA UnhookInOrder ==
  ASSUME TypeInv, NEW t \in Threads, UnhookStep(t), NEW m \in Members, InOrder(m)
  PROVE  InOrder(m)'
<1>1. \A u \in Threads : u # t => pc'[u] = pc[u] /\ cur'[u] = cur[u] /\ idx'[u] = idx[u]
  BY OtherThreads, OtherPlaces
<1>2. pc[t] \in InUnhook
  BY DEF UnhookStep, UnhookIsEmpty, UnhookRemove, UnhookBridge, InUnhook
<1>3. handles' = handles
  BY DEF UnhookStep, UnhookIsEmpty, UnhookRemove, UnhookBridge, registry
<1>4. /\ pc'[t] \in {"idle", "remove", "unbridge"}
      /\ pc'[t] # "idle" => cur'[t] = cur[t]
  BY DEF UnhookStep, UnhookIsEmpty, UnhookRemove, UnhookBridge, Goto, Done, TypeInv, Locals
<1>5. CASE cur[t].member # m
  <2>1. hookedMembers'[m] = hookedMembers[m]
    BY <1>5 DEF UnhookStep, UnhookIsEmpty, UnhookRemove, UnhookBridge, registry, TypeInv, Lists
  <2>2. \A u \in Threads : pc[u] \in {"index", "size", "add"} => cur[u].target # None
    BY DEF TypeInv, Locals
  <2> QED
    BY <1>1, <1>3, <1>4, <1>5, <2>1, <2>2, OtherInOrder DEF InHook, InUnhook
<1>6. CASE cur[t].member = m
  <2>1. \A u \in Threads : ~(pc[u] \in InHook /\ cur[u].member = m)
    <3> SUFFICES ASSUME NEW u \in Threads, pc[u] \in InHook, cur[u].member = m PROVE FALSE
      OBVIOUS
    <3>1. Alone(u, m) /\ u # t
      BY <1>2 DEF InOrder, InHook, InUnhook
    <3> QED
      BY <1>2, <1>6, <3>1 DEF Alone
  <2>2. \A u \in Threads : ~(pc'[u] \in InHook /\ cur'[u].member = m)
    BY <1>1, <1>4, <2>1 DEF InHook
  <2>3. hookedMembers'[m] \in {None, hookedMembers[m]}
    BY DEF UnhookStep, UnhookIsEmpty, UnhookRemove, UnhookBridge, registry, TypeInv, Lists
  <2> QED
    BY <1>3, <2>2, <2>3 DEF InOrder
<1> QED
  BY <1>5, <1>6

LEMMA StepOrder ==
  ASSUME TypeInv, OwnerInv, UnusedUntilPut, OrderInv, [Next]_vars
  PROVE  OrderInv'
<1> SUFFICES ASSUME NEW m \in Members, m \notin overlapped' PROVE InOrder(m)'
  BY DEF OrderInv
<1>1. CASE UNCHANGED vars
  BY <1>1 DEF vars, OrderInv, InOrder, Alone, PlaceOK
<1>2. ASSUME NEW c \in Callers, (\E k \in Members : CallEnter(c, k)) \/ CallStep(c)
      PROVE  InOrder(m)'
  <2>1. UNCHANGED <<hookedMembers, handles, cur, idx, overlapped>>
    BY <1>2 DEF CallEnter, CallStep, CallLookup, CallHandle, registry, ghosts
  <2>2. \A u \in Threads : pc'[u] = pc[u]
    BY <1>2 DEF CallEnter, CallStep, CallLookup, CallHandle, Goto, TypeInv, Locals
  <2>3. InOrder(m)
    BY <2>1 DEF OrderInv
  <2>4. ASSUME NEW u \in Threads
        PROVE  PlaceOK(u, handles[cur[u].target]) => PlaceOK(u, handles[cur[u].target])'
    BY <2>1, <2>2 DEF PlaceOK
  <2> QED
    BY <2>1, <2>2, <2>3, <2>4 DEF InOrder, Alone
<1>3. ASSUME NEW t \in Threads, NEW k \in Members, NEW r \in Requests, HookLookup(t, k, r)
      PROVE  InOrder(m)'
  <2>1. m \notin overlapped
    BY <1>3 DEF HookLookup
  <2> QED
    BY <1>3, <2>1, LookupInOrder DEF OrderInv
<1>4. ASSUME NEW t \in Threads, HookStep(t) PROVE InOrder(m)'
  <2>1. overlapped' = overlapped
    BY <1>4 DEF HookStep, HookBridge, HookBridgeThrows, HookPut, HookIndex, HookSize,
                HookAdd, HookAddThrows, ghosts
  <2> QED
    BY <1>4, <2>1, HookInOrder DEF OrderInv
<1>5. ASSUME NEW t \in Threads, NEW h \in returned, UnhookRemoveIf(t, h)
      PROVE  InOrder(m)'
  <2>1. m \notin overlapped
    BY <1>5 DEF UnhookRemoveIf
  <2> QED
    BY <1>5, <2>1, RemoveIfInOrder DEF OrderInv
<1>6. ASSUME NEW t \in Threads, UnhookStep(t) PROVE InOrder(m)'
  <2>1. overlapped' = overlapped
    BY <1>6 DEF UnhookStep, UnhookIsEmpty, UnhookRemove, UnhookBridge, ghosts
  <2> QED
    BY <1>6, <2>1, UnhookInOrder DEF OrderInv
<1> QED
  BY <1>1, <1>2, <1>3, <1>4, <1>5, <1>6 DEF Next

\* The handles of a member are in descending priority, and in the order of their
\* hook() calls within one priority, on every member no hook() of which overlapped
\* another operation.  (Xposed.kt 149-151)
THEOREM DescendingPriority == Spec => []HandlesInOrder
<1>1. Init => OwnerInv /\ Fresh /\ UnusedUntilPut /\ OrderInv
  <2>1. Init => OrderInv
    BY DEF Init, OrderInv, InOrder, InHook, None
  <2>2. Init => Fresh /\ UnusedUntilPut
    BY DEF Init, Fresh, UnusedUntilPut, InHook
  <2> QED
    BY <2>1, <2>2, InitOwner
<1>2. TypeInv /\ OwnerInv /\ Fresh /\ UnusedUntilPut /\ OrderInv /\ [Next]_vars
        => (OwnerInv /\ Fresh /\ UnusedUntilPut /\ OrderInv)'
  BY StepOwner, StepFresh, StepUnused, StepOrder
<1>3. OrderInv => HandlesInOrder
  BY DEF OrderInv, InOrder, Ordered, Before, HandlesInOrder
<1> QED
  BY <1>1, <1>2, <1>3, TypeInvariance, PTL DEF Spec
----
\* A call runs what is wanted

\* No list holds a handle twice.
Distinct(s) == \A i, j \in DOMAIN s : i # j => s[i] # s[j]
DistinctInv == \A n \in 1..MaxHooks : Distinct(handles[n])

\* A loop that skips elements visits none twice.
LEMMA SublistDistinct ==
  ASSUME NEW D, NEW s \in Seq(D), NEW S, Distinct(s)
  PROVE  Distinct(Sublist(s, S))
<1> DEFINE r == Sublist(s, S)
<1>1. r \in Seq(D)
  BY SublistPicks
<1>2. PICK g \in [1..Len(r) -> 1..Len(s)] :
        /\ \A k \in 1..Len(r) : r[k] = s[g[k]]
        /\ \A j, k \in 1..Len(r) : j < k => g[j] < g[k]
  BY SublistPicks
<1> HIDE DEF r
<1>3. DOMAIN r = 1..Len(r) /\ DOMAIN s = 1..Len(s)
  BY <1>1
<1>4. ASSUME NEW i \in 1..Len(r), NEW j \in 1..Len(r), i # j PROVE r[i] # r[j]
  <2>1. i < j \/ j < i
    BY <1>4
  <2>2. g[i] \in 1..Len(s) /\ g[j] \in 1..Len(s) /\ g[i] # g[j]
    BY <1>2, <2>1
  <2> QED
    BY <1>2, <1>3, <2>2 DEF Distinct
<1>5. Distinct(r)
  BY <1>3, <1>4 DEF Distinct
<1> QED
  BY <1>5 DEF r

\* Nor does a list that a new element is put into hold one twice.
LEMMA InsertDistinct ==
  ASSUME NEW s \in Seq(Handle), NEW k \in 1..(Len(s) + 1), NEW e \in Handle
  PROVE  Distinct(s) /\ (\A i \in DOMAIN s : s[i] # e) => Distinct(InsertAt(s, k, e))
<1> DEFINE r == InsertAt(s, k, e)
           old(i) == IF i < k THEN i ELSE i - 1
<1>1. Len(s) \in Nat /\ DOMAIN s = 1..Len(s) /\ k \in Nat
  OBVIOUS
<1>2. /\ DOMAIN r = 1..(Len(s) + 1)
      /\ r[k] = e
      /\ \A i \in 1..(k - 1) : r[i] = s[i]
      /\ \A i \in (k + 1)..(Len(s) + 1) : r[i] = s[i - 1]
  BY InsertAtElements
<1> HIDE DEF r
<1> SUFFICES ASSUME Distinct(s), \A i \in DOMAIN s : s[i] # e PROVE Distinct(r)
  BY DEF r
<1>3. ASSUME NEW i \in 1..(Len(s) + 1), i # k
      PROVE  old(i) \in 1..Len(s) /\ r[i] = s[old(i)]
  <2>1. CASE i < k
    BY <1>1, <1>2, <2>1
  <2>2. CASE i > k
    BY <1>1, <1>2, <2>2
  <2> QED
    BY <1>1, <1>3, <2>1, <2>2
<1>4. ASSUME NEW i \in 1..(Len(s) + 1), NEW j \in 1..(Len(s) + 1), i # j
      PROVE  r[i] # r[j]
  <2>1. CASE i = k
    BY <1>1, <1>2, <1>3, <1>4, <2>1
  <2>2. CASE j = k
    BY <1>1, <1>2, <1>3, <1>4, <2>2
  <2>3. CASE i # k /\ j # k
    <3>1. old(i) # old(j)
      BY <1>1, <1>4, <2>3
    <3> QED
      BY <1>1, <1>3, <2>3, <3>1 DEF Distinct
  <2> QED
    BY <2>1, <2>2, <2>3
<1> QED
  BY <1>2, <1>4 DEF Distinct

\* A handle that is added has a number of its own.
LEMMA StepDistinct ==
  ASSUME TypeInv, Fresh, DistinctInv, [Next]_vars
  PROVE  DistinctInv'
<1>1. CASE UNCHANGED <<handles, returned, unhooking>>
  BY <1>1 DEF DistinctInv
<1>2. ASSUME NEW t \in Threads, HookAdd(t) PROVE DistinctInv'
  <2> DEFINE k == cur[t].target
             s == handles[k]
             r == InsertAt(s, idx[t], cur[t])
  <2>1. k \in 1..MaxHooks
    BY <1>2 DEF HookAdd, TypeInv, Locals, Handle, None
  <2>2. s \in Seq(Handle) /\ cur[t] \in Handle
    BY <1>2, <2>1 DEF HookAdd, TypeInv, Locals, Lists
  <2>3. idx[t] \in 1..(Len(s) + 1)
    <3>1. idx[t] \in Nat /\ idx[t] # 0 /\ idx[t] <= Len(s) + 1
      BY <1>2 DEF HookAdd, TypeInv, Locals
    <3> QED
      BY <2>2, <3>1
  <2>4. \A i \in DOMAIN s : s[i] # cur[t]
    <3>1. \A i \in DOMAIN s : s[i] \in returned
      BY <2>1 DEF TypeInv, Lists, Range
    <3>2. \A h \in returned : h # cur[t]
      BY <1>2 DEF HookAdd, Fresh, InHook
    <3> QED
      BY <3>1, <3>2
  <2>5. Distinct(s)
    BY <2>1 DEF DistinctInv
  <2>6. Distinct(r)
    BY <2>2, <2>3, <2>4, <2>5, InsertDistinct
  <2>7. handles' = [handles EXCEPT ![k] = r]
    BY <1>2 DEF HookAdd
  <2> HIDE DEF r
  <2>8. \A n \in 1..MaxHooks : handles'[n] = IF n = k THEN r ELSE handles[n]
    BY <2>1, <2>7 DEF TypeInv, Lists
  <2>9. ASSUME NEW n \in 1..MaxHooks PROVE Distinct(handles'[n])
    BY <2>6, <2>8 DEF DistinctInv
  <2> QED
    BY <2>9 DEF DistinctInv, Distinct
<1>3. ASSUME NEW t \in Threads, NEW h \in returned, UnhookRemoveIf(t, h)
      PROVE  DistinctInv'
  <2> DEFINE k == h.target
             s == handles[k]
             r == Sublist(s, Kept(s, h))
  <2>1. k \in 1..MaxHooks
    BY DEF TypeInv, Lists, Handle, None
  <2>2. s \in Seq(Handle) /\ Distinct(s)
    BY <2>1 DEF TypeInv, Lists, DistinctInv
  <2>3. Distinct(r)
    BY <2>2, SublistDistinct
  <2>4. handles' = [handles EXCEPT ![k] = r]
    BY <1>3 DEF UnhookRemoveIf
  <2> HIDE DEF r
  <2>5. \A n \in 1..MaxHooks : handles'[n] = IF n = k THEN r ELSE handles[n]
    BY <2>1, <2>4 DEF TypeInv, Lists
  <2>6. ASSUME NEW n \in 1..MaxHooks PROVE Distinct(handles'[n])
    BY <2>3, <2>5 DEF DistinctInv
  <2> QED
    BY <2>6 DEF DistinctInv, Distinct
<1> QED
  BY <1>1, <1>2, <1>3, ListSteps

\* An element of a list without repetitions, visited by a loop that does not skip
\* it, is visited once.
LEMMA VisitedOnce ==
  ASSUME NEW D, NEW s \in Seq(D), NEW S, Distinct(s), NEW h \in Range(s), h \in S
  PROVE  Cardinality({i \in DOMAIN Sublist(s, S) : Sublist(s, S)[i] = h}) = 1
<1> DEFINE r == Sublist(s, S)
<1>1. Distinct(r)
  BY SublistDistinct
<1>2. h \in Range(r)
  BY SublistRange
<1> HIDE DEF r
<1>3. PICK k \in DOMAIN r : r[k] = h
  BY <1>2 DEF Range
<1>4. {i \in DOMAIN r : r[i] = h} = {k}
  BY <1>1, <1>3 DEF Distinct
<1>5. Cardinality({i \in DOMAIN r : r[i] = h}) = 1
  BY <1>4, FS_Singleton
<1> QED
  BY <1>5 DEF r

\* A call of a member not in raced runs, per phase, every wanted handle of that
\* type exactly once: it is in the registered list (WantedHandleEffective), and
\* only there once.  (Xposed.kt 88-91)
THEOREM WantedIsCalled == Spec => WantedHandleCalled
<1> DEFINE A == \A c \in Callers, h \in returned :
                  /\ pc[c] = IF h.req.type = "BEFORE" THEN "lookBefore" ELSE "lookAfter"
                  /\ pc'[c] # pc[c]
                  /\ callee[c] = h.member
                  /\ Wanted(h)
                  /\ h.member \notin raced
                  => Cardinality({i \in DOMAIN pending'[c] : pending'[c][i] = h}) = 1
<1>1. TypeInv /\ DistinctInv /\ WantedHandleEffective /\ [Next]_vars => A
  <2> SUFFICES ASSUME TypeInv, DistinctInv, WantedHandleEffective, [Next]_vars,
                      NEW c \in Callers, NEW h \in returned,
                      pc[c] = IF h.req.type = "BEFORE" THEN "lookBefore" ELSE "lookAfter",
                      pc'[c] # pc[c], callee[c] = h.member, Wanted(h), h.member \notin raced
               PROVE  Cardinality({i \in DOMAIN pending'[c] : pending'[c][i] = h}) = 1
    BY DEF A
  <2> DEFINE n == hookedMembers[h.member]
             s == handles[n]
             S == OfType(s, h.req.type)
  <2>1. h.member \in Members /\ h.req.type \in Types
    BY DEF TypeInv, Lists, Handle
  <2>2. n # None /\ h \in Range(s)
    BY DEF WantedHandleEffective, Registered
  <2>3. n \in 1..MaxHooks
    BY <2>1, <2>2 DEF TypeInv, Lists, None
  <2>4. s \in Seq(Handle) /\ Distinct(s)
    BY <2>3 DEF TypeInv, Lists, DistinctInv
  <2>5. \/ CallLookup(c, "lookBefore", "before", "lookAfter", "BEFORE")
        \/ CallLookup(c, "lookAfter", "after", "idle", "AFTER")
    BY LooksUp
  <2>6. pending' = [pending EXCEPT ![c] = Sublist(s, S)]
    <3>1. CASE h.req.type = "BEFORE"
      BY <2>2, <2>5, <3>1 DEF CallLookup
    <3>2. CASE h.req.type = "AFTER"
      BY <2>2, <2>5, <3>2 DEF CallLookup
    <3> QED
      BY <2>1, <3>1, <3>2 DEF Types
  <2>7. h \in S
    BY <2>2 DEF OfType
  <2>8. Cardinality({i \in DOMAIN Sublist(s, S) : Sublist(s, S)[i] = h}) = 1
    BY <2>2, <2>4, <2>7, VisitedOnce
  <2>9. pending'[c] = Sublist(s, S)
    BY <2>6 DEF TypeInv, Calls
  <2> QED
    BY <2>8, <2>9
<1>2. Init => Fresh /\ DistinctInv
  BY DEF Init, Fresh, DistinctInv, Distinct, InHook
<1>3. TypeInv /\ Fresh /\ DistinctInv /\ [Next]_vars => (Fresh /\ DistinctInv)'
  BY StepFresh, StepDistinct
<1> QED
  BY <1>1, <1>2, <1>3, TypeInvariance, HookStaysEffective, PTL DEF Spec, WantedHandleCalled
====
