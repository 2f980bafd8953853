---- MODULE HotReloadProofs ----
(***************************************************************************)
(* Hot reloads of HotReload for any number of workers, members, requests,  *)
(* packages, hooks and reloads.                                            *)
(***************************************************************************)
EXTENDS HotReload, FiniteSetTheorems, WellFoundedInduction, SequenceTheorems, TLAPS

USE ThreadsAssumption, MembersAssumption, BoundsAssumption

----
\* Where the reload is: what each phase says of the flags, and the generation
\* that the next object will have
PhaseInv ==
  /\ gen \in 0..MaxReloads
  /\ phase \in Phases
  /\ hot \in BOOLEAN /\ nativeLoaded \in BOOLEAN /\ failed \in BOOLEAN
  /\ phase \in {"clear", "cleanup", "handover"} => gen < MaxReloads
  /\ phase \in {"running", "clear", "cleanup", "handover"} => hot = failed
  /\ phase \in {"prepare", "process", "packages"} => hot /\ ~failed
  /\ phase \in {"flatten", "sweep"} => ~hot /\ ~failed
  /\ phase = "unstarted" => ~hot

\* The packages: which set they come from
PackagesTyped ==
  /\ appPackages \subseteq Packages /\ saved \subseteq Packages /\ todo \subseteq Packages
  /\ dead \subseteq Packages /\ ready \subseteq Packages /\ told \subseteq Packages
  /\ missed \subseteq Packages
  /\ phase \in {"clear", "cleanup", "handover"} => todo = {}
  /\ phase \notin {"packages", "process", "prepare"} => todo = {}
  /\ arriving # <<>> => arriving[1] \in Packages /\ arriving[2] \in 0..gen

\* What a hook() call in progress has in its locals
Calling(t) == pc[t] # "idle"

LocalsTyped ==
  /\ pc \in [Threads -> {"idle", "create"} \cup Replacing]
  /\ req \in [Threads -> Requests \cup {AttachRequest, <<>>}]
  /\ num \in [Threads -> 0..MaxHooks]
  /\ idx \in [Threads -> Nat]
  /\ victim \in [Threads -> 0..MaxHooks]
  /\ \A t \in Threads : Calling(t) =>
       req[t] \in Requests \cup {AttachRequest} /\ num[t] \in 1..calls
  /\ \A t \in Threads : pc[t] \in {"shift", "replace"} => victim[t] \in 1..MaxHooks

HooksTyped ==
  /\ live \subseteq LiveHook /\ handles \subseteq LiveHook
  /\ previous \in [Members -> Seq(OldHook)]
  /\ sweep \subseteq 1..MaxHooks
  /\ calls \in 0..MaxHooks
  /\ overlapped \subseteq Members

\* The hooks of a class initializer have no identifier.
Unnamed == \A x \in live : x.member \in Clinits => x.ident = NoIdentifier

TypeInv == PhaseInv /\ PackagesTyped /\ LocalsTyped /\ HooksTyped /\ Unnamed

----
\* Type correctness

\* The request of a hook() call in progress
LEMMA CallTyped ==
  ASSUME TypeInv, NEW t \in Threads, Calling(t)
  PROVE  /\ Member(t) \in Members /\ Ident(t) \in Idents
         /\ Ident(t) = NoIdentifier <=> Member(t) \in Clinits
         /\ num[t] \in 1..MaxHooks /\ num[t] <= calls
         /\ \A n \in 1..MaxHooks : Call(t, n) \in LiveHook
<1>1. req[t] \in Requests \cup {AttachRequest} /\ num[t] \in 1..calls
  BY DEF TypeInv, LocalsTyped
<1>2. Member(t) \in Members
  BY <1>1, RequestsAssumption DEF Member
<1>3. Ident(t) \in Idents
  BY <1>1 DEF Ident, Idents
<1>4. Ident(t) = NoIdentifier <=> Member(t) \in Clinits
  <2>1. \A a, b : <<a, b>> # <<>>
    OBVIOUS
  <2> QED
    BY <2>1 DEF Ident, Identifier, Member, NoIdentifier
<1>5. num[t] \in 1..MaxHooks /\ num[t] <= calls
  BY <1>1 DEF TypeInv, LocalsTyped, HooksTyped
<1>6. gen \in 0..MaxReloads
  BY DEF TypeInv, PhaseInv
<1> QED
  BY <1>2, <1>3, <1>4, <1>5, <1>6 DEF Call, LiveHook

LEMMA InitTypeInv == Init => TypeInv
<1> SUFFICES ASSUME Init PROVE TypeInv
  OBVIOUS
<1> USE DEF Init
<1>1. PhaseInv
  <2>1. gen \in 0..MaxReloads
    OBVIOUS
  <2>2. phase = "running" /\ phase \in Phases
    BY DEF Phases
  <2>3. hot = failed
    BY Zenon
  <2>4. hot \in BOOLEAN /\ nativeLoaded \in BOOLEAN /\ failed \in BOOLEAN
    OBVIOUS
  <2> QED
    BY <2>1, <2>2, <2>3, <2>4 DEF PhaseInv
<1>2. PackagesTyped
  BY DEF PackagesTyped
<1>3. LocalsTyped
  BY DEF LocalsTyped, Calling
<1>4. AttachRequest.member \in Members /\ Identifier(AttachRequest) \in Idents
  BY RequestsAssumption DEF Idents
<1>5. FirstHook \in LiveHook
  BY <1>4 DEF FirstHook, LiveHook
<1>6. HooksTyped
  <2>1. previous \in [Members -> Seq(OldHook)]
    OBVIOUS
  <2> QED
    BY <1>5, <2>1 DEF HooksTyped
<1>7. Unnamed
  BY DEF Unnamed, FirstHook, Identifier
<1> QED
  BY <1>1, <1>2, <1>3, <1>6, <1>7 DEF TypeInv

LEMMA StepPhase == TypeInv /\ [Next]_vars => PhaseInv'
<1> SUFFICES ASSUME TypeInv, [Next]_vars PROVE PhaseInv'
  OBVIOUS
<1>1. PhaseInv
  BY DEF TypeInv
<1>2. CASE UNCHANGED <<gen, phase, hot, nativeLoaded, failed>>
  BY <1>1, <1>2 DEF PhaseInv
<1>3. CASE ModuleStep \/ PackageStep \/ UNCHANGED vars
  BY <1>2, <1>3 DEF ModuleStep, PackageStep, vars
<1>4. CASE ReloadStep
  <2> USE <1>1 DEF PhaseInv, Phases, reloadUnchanged
  <2>1. CASE SavePackages
    BY <2>1 DEF SavePackages
  <2>2. CASE ClearPackages
    BY <2>2 DEF ClearPackages
  <2>3. CASE Cleanup
    BY <2>3 DEF Cleanup
  <2>4. CASE HotReloaded
    <3>1. gen' = gen + 1 /\ gen < MaxReloads /\ gen' \in 0..MaxReloads
      BY <2>4 DEF HotReloaded
    <3>2. phase' = "prepare" /\ hot' = TRUE /\ failed' = FALSE /\ nativeLoaded' \in BOOLEAN
      BY <2>4 DEF HotReloaded
    <3> QED
      BY <3>1, <3>2
  <2>5. CASE Prepare
    BY <2>5 DEF Prepare
  <2>6. CASE ProcessLoaded
    BY <2>6 DEF ProcessLoaded
  <2>7. CASE \E p \in Packages : ReplayPackage(p)
    BY <2>7 DEF ReplayPackage
  <2>8. CASE ModuleThrows
    BY <2>8 DEF ModuleThrows
  <2>9. CASE EndReplacing
    BY <2>9 DEF EndReplacing
  <2>10. CASE Flatten
    BY <2>10 DEF Flatten
  <2>11. CASE \E fw \in sweep : UnhookOld(fw)
    BY <2>11 DEF UnhookOld
  <2>12. CASE EndReload
    BY <2>12 DEF EndReload
  <2>13. CASE InitThrows
    <3>1. gen' = gen + 1 /\ gen < MaxReloads /\ gen' \in 0..MaxReloads
      BY <2>13 DEF InitThrows
    <3>2. phase' = "unstarted" /\ hot' = FALSE /\ failed' = TRUE /\ nativeLoaded' = TRUE
      BY <2>13 DEF InitThrows
    <3> QED
      BY <3>1, <3>2
  <2> QED
    BY <1>4, <2>1, <2>2, <2>3, <2>4, <2>5, <2>6, <2>7, <2>8, <2>9, <2>10, <2>11, <2>12,
       <2>13 DEF ReloadStep
<1> QED
  BY <1>3, <1>4 DEF Next

LEMMA StepPackagesTyped == TypeInv /\ [Next]_vars => PackagesTyped'
<1> SUFFICES ASSUME TypeInv, [Next]_vars PROVE PackagesTyped'
  OBVIOUS
<1>1. PackagesTyped /\ gen \in 0..MaxReloads
  BY DEF TypeInv, PhaseInv
<1>2. CASE UNCHANGED <<gen, phase, packages>>
  BY <1>1, <1>2 DEF PackagesTyped, packages
<1>3. CASE ModuleStep \/ UNCHANGED vars
  BY <1>2, <1>3 DEF ModuleStep, vars
<1>4. CASE PackageStep
  <2> USE <1>1 DEF PackagesTyped
  <2>0. gen' = gen /\ phase' = phase
    BY <1>4 DEF PackageStep
  <2>1. CASE \E p \in Packages : PackageReady(p)
    BY <2>0, <2>1 DEF PackageReady
  <2>2. CASE \E p \in Packages : ClassLoaderDies(p)
    BY <2>0, <2>2 DEF ClassLoaderDies
  <2>3. CASE PackageRegister
    BY <2>0, <2>3 DEF PackageRegister
  <2>4. CASE PackageThrows
    BY <2>0, <2>4 DEF PackageThrows
  <2> QED
    BY <1>4, <2>1, <2>2, <2>3, <2>4 DEF PackageStep
<1>5. CASE ReloadStep
  <2> USE <1>1 DEF PackagesTyped, reloadUnchanged, packages
  <2>1. CASE SavePackages
    BY <2>1 DEF SavePackages
  <2>2. CASE ClearPackages
    BY <2>2 DEF ClearPackages
  <2>3. CASE Cleanup
    BY <2>3 DEF Cleanup
  <2>4. CASE HotReloaded
    BY <2>4 DEF HotReloaded
  <2>5. CASE Prepare
    BY <2>5 DEF Prepare
  <2>6. CASE ProcessLoaded
    BY <2>6 DEF ProcessLoaded
  <2>7. CASE \E p \in Packages : ReplayPackage(p)
    BY <2>7 DEF ReplayPackage
  <2>8. CASE ModuleThrows
    BY <2>8 DEF ModuleThrows
  <2>9. CASE EndReplacing
    BY <2>9 DEF EndReplacing
  <2>10. CASE Flatten
    BY <2>10 DEF Flatten
  <2>11. CASE \E fw \in sweep : UnhookOld(fw)
    BY <2>11 DEF UnhookOld
  <2>12. CASE EndReload
    BY <2>12 DEF EndReload
  <2>13. CASE InitThrows
    BY <2>13 DEF InitThrows
  <2> QED
    BY <1>5, <2>1, <2>2, <2>3, <2>4, <2>5, <2>6, <2>7, <2>8, <2>9, <2>10, <2>11, <2>12,
       <2>13 DEF ReloadStep
<1> QED
  BY <1>3, <1>4, <1>5 DEF Next

\* A hook() call of another thread is left alone by a step of t.
LEMMA StepLocals ==
  ASSUME LocalsTyped, calls \in Nat, calls' \in Nat, calls <= calls', calls' <= MaxHooks,
         NEW t \in Threads,
         NEW l \in {"idle", "create"} \cup Replacing,
         NEW r \in Requests \cup {AttachRequest, <<>>},
         NEW n \in 0..MaxHooks, NEW i \in Nat, NEW v \in 0..MaxHooks,
         l # "idle" => r \in Requests \cup {AttachRequest} /\ n \in 1..calls',
         l \in {"shift", "replace"} => v # 0,
         pc' = [pc EXCEPT ![t] = l], req' = [req EXCEPT ![t] = r],
         num' = [num EXCEPT ![t] = n], idx' = [idx EXCEPT ![t] = i],
         victim' = [victim EXCEPT ![t] = v]
  PROVE  LocalsTyped'
<1>1. /\ pc' \in [Threads -> {"idle", "create"} \cup Replacing]
      /\ req' \in [Threads -> Requests \cup {AttachRequest, <<>>}]
      /\ num' \in [Threads -> 0..MaxHooks]
      /\ idx' \in [Threads -> Nat]
      /\ victim' \in [Threads -> 0..MaxHooks]
  BY DEF LocalsTyped
<1>2. ASSUME NEW u \in Threads, pc'[u] # "idle"
      PROVE  req'[u] \in Requests \cup {AttachRequest} /\ num'[u] \in 1..calls'
  <2>1. CASE u = t
    BY <1>2, <2>1 DEF LocalsTyped
  <2>2. CASE u # t
    BY <1>2, <2>2 DEF LocalsTyped, Calling
  <2> QED
    BY <2>1, <2>2
<1>3. ASSUME NEW u \in Threads, pc'[u] \in {"shift", "replace"}
      PROVE  victim'[u] \in 1..MaxHooks
  <2>1. CASE u = t
    BY <1>3, <2>1 DEF LocalsTyped
  <2>2. CASE u # t
    BY <1>3, <2>2 DEF LocalsTyped
  <2> QED
    BY <2>1, <2>2
<1> QED
  BY <1>1, <1>2, <1>3 DEF LocalsTyped, Calling

\* The same when the call of t goes on, or returns
LEMMA GotoLocals ==
  ASSUME TypeInv, calls' = calls, NEW t \in Threads, Calling(t),
         NEW l \in {"create"} \cup Replacing, Goto(t, l), UNCHANGED <<req, num>>,
         NEW i \in Nat, idx' = [idx EXCEPT ![t] = i],
         NEW v \in 0..MaxHooks, victim' = [victim EXCEPT ![t] = v],
         l \in {"shift", "replace"} => v # 0
  PROVE  LocalsTyped'
<1>1. /\ req[t] \in Requests \cup {AttachRequest} /\ num[t] \in 1..calls
      /\ calls \in 0..MaxHooks /\ LocalsTyped
  BY DEF TypeInv, LocalsTyped, HooksTyped
<1>2. req' = [req EXCEPT ![t] = req[t]] /\ num' = [num EXCEPT ![t] = num[t]]
  BY <1>1 DEF LocalsTyped
<1>3. num[t] \in 0..MaxHooks /\ num[t] \in 1..calls'
  BY <1>1
<1>4. pc' = [pc EXCEPT ![t] = l]
  BY DEF Goto
<1>5. calls \in Nat /\ calls' \in Nat /\ calls <= calls' /\ calls' <= MaxHooks
  BY <1>1
<1>6. l \in {"idle", "create"} \cup Replacing
  OBVIOUS
<1>7. req[t] \in Requests \cup {AttachRequest, <<>>}
  BY <1>1
<1> QED
  BY <1>1, <1>2, <1>3, <1>4, <1>5, <1>6, <1>7, StepLocals

LEMMA DoneLocals ==
  ASSUME TypeInv, calls' = calls, NEW t \in Threads, Done(t)
  PROVE  LocalsTyped'
<1>1. LocalsTyped /\ calls \in Nat /\ calls' \in Nat /\ calls <= calls' /\ calls' <= MaxHooks
  BY DEF TypeInv, HooksTyped
<1>2. /\ pc' = [pc EXCEPT ![t] = "idle"] /\ req' = [req EXCEPT ![t] = <<>>]
      /\ num' = [num EXCEPT ![t] = 0] /\ idx' = [idx EXCEPT ![t] = 0]
      /\ victim' = [victim EXCEPT ![t] = 0]
  BY DEF Done, Goto
<1>3. 0 \in 0..MaxHooks /\ 0 \in Nat /\ <<>> \in Requests \cup {AttachRequest, <<>>}
  OBVIOUS
<1> QED
  BY <1>1, <1>2, <1>3, StepLocals

\* Locals that a step leaves alone
LEMMA SameLocals ==
  ASSUME TypeInv, NEW t \in Threads
  PROVE  /\ [idx EXCEPT ![t] = idx[t]] = idx /\ idx[t] \in Nat
         /\ [victim EXCEPT ![t] = victim[t]] = victim /\ victim[t] \in 0..MaxHooks
  BY DEF TypeInv, LocalsTyped

\* A step that leaves the hooks and the locals alone
LEMMA KeepHooksTyped ==
  ASSUME TypeInv, UNCHANGED <<hooking, previous, sweep, overlapped>>
  PROVE  LocalsTyped' /\ HooksTyped' /\ Unnamed'
<1>1. LocalsTyped'
  BY DEF TypeInv, LocalsTyped, hooking, locals, Calling
<1>2. HooksTyped'
  BY DEF TypeInv, HooksTyped, hooking
<1>3. Unnamed'
  BY DEF TypeInv, Unnamed, hooking
<1> QED
  BY <1>1, <1>2, <1>3

LEMMA HookStartTyped ==
  ASSUME TypeInv, NEW t \in Threads, NEW r \in Requests \cup {AttachRequest},
         HookStart(t, r), sweep' = sweep
  PROVE  LocalsTyped' /\ HooksTyped' /\ Unnamed'
<1> USE DEF HookStart
<1>1. calls \in 0..MaxHooks /\ calls < MaxHooks /\ LocalsTyped /\ HooksTyped /\ Unnamed
  BY DEF TypeInv, HooksTyped
<1>2. calls' \in 1..MaxHooks /\ calls <= calls' /\ calls + 1 = calls'
  BY <1>1
<1>3. LocalsTyped'
  <2>1. PICK l \in {"create", "find"} : pc' = [pc EXCEPT ![t] = l]
    BY DEF Goto
  <2>2. num' = [num EXCEPT ![t] = calls'] /\ req' = [req EXCEPT ![t] = r]
    BY <1>2
  <2>3. idx' = [idx EXCEPT ![t] = idx[t]] /\ victim' = [victim EXCEPT ![t] = victim[t]]
    BY SameLocals
  <2>4. /\ l \in {"idle", "create"} \cup Replacing /\ l \notin {"shift", "replace"}
        /\ r \in Requests \cup {AttachRequest, <<>>}
    BY DEF Replacing
  <2>5. /\ calls \in Nat /\ calls' \in Nat /\ calls <= calls' /\ calls' <= MaxHooks
        /\ calls' \in 0..MaxHooks /\ calls' \in 1..calls'
    BY <1>1, <1>2
  <2> HIDE DEF HookStart
  <2> QED
    BY <1>1, <2>1, <2>2, <2>3, <2>4, <2>5, SameLocals, StepLocals
<1>4. overlapped' \subseteq Members
  BY <1>1, RequestsAssumption DEF HooksTyped
<1>5. HooksTyped'
  <2>1. live' = live /\ handles' = handles /\ previous' = previous
    OBVIOUS
  <2> QED
    BY <1>1, <1>2, <1>4, <2>1 DEF HooksTyped
<1>6. Unnamed'
  BY <1>1 DEF Unnamed
<1> QED
  BY <1>3, <1>5, <1>6

----
\* The lists of old hooks

\* A nonempty set of naturals has a least element.
LEMMA Least ==
  ASSUME NEW T \in SUBSET Nat, T # {}
  PROVE  \E x \in T : \A y \in T : x <= y
<1> DEFINE R == {ss \in Nat \X Nat : ss[1] < ss[2]}
<1>1. IsWellFoundedOn(R, Nat)
  BY NatLessThanWellFounded DEF OpToRel
<1>2. PICK x \in T : \A y \in T : ~(<<y, x>> \in R)
  BY <1>1, WFMin
<1>3. \A y \in T : ~(y < x)
  BY <1>2
<1> QED
  BY <1>3

\* removeAt: the elements behind the index move down by one.
LEMMA RemoveAtElements ==
  ASSUME NEW S, NEW s \in Seq(S), NEW i \in 1..Len(s)
  PROVE  /\ RemoveAt(s, i) \in Seq(S)
         /\ Len(RemoveAt(s, i)) = Len(s) - 1
         /\ DOMAIN RemoveAt(s, i) = 1..(Len(s) - 1)
         /\ \A j \in 1..(Len(s) - 1) :
              RemoveAt(s, i)[j] = s[IF j < i THEN j ELSE j + 1]
<1> DEFINE a == SubSeq(s, 1, i - 1)
           b == SubSeq(s, i + 1, Len(s))
<1>0. Len(s) \in Nat /\ DOMAIN s = 1..Len(s) /\ \A j \in 1..Len(s) : s[j] \in S
  BY LenProperties, ElementOfSeq
<1>1. /\ a \in Seq(S) /\ Len(a) = i - 1
      /\ \A j \in 1..(i - 1) : a[j] = s[j]
  <2>1. i - 1 \in Int /\ \A j \in 1..(i - 1) : s[j] \in S
    BY <1>0
  <2>2. Len(a) = IF 1 <= i - 1 THEN (i - 1) - 1 + 1 ELSE 0
    BY <2>1, SubSeqProperties
  <2>3. /\ a \in Seq(S)
        /\ \A j \in 1..(i - 1) : a[j] = s[1 + j - 1]
    BY <2>1, SubSeqProperties
  <2> HIDE DEF a
  <2> QED
    BY <1>0, <2>2, <2>3
<1>2. /\ b \in Seq(S) /\ Len(b) = Len(s) - i
      /\ \A j \in 1..(Len(s) - i) : b[j] = s[i + j]
  <2>1. i + 1 \in Int /\ Len(s) \in Int /\ \A j \in (i + 1)..Len(s) : s[j] \in S
    BY <1>0
  <2>2. Len(b) = IF i + 1 <= Len(s) THEN Len(s) - (i + 1) + 1 ELSE 0
    BY <2>1, SubSeqProperties
  <2>3. /\ b \in Seq(S)
        /\ \A j \in 1..(Len(s) - (i + 1) + 1) : b[j] = s[(i + 1) + j - 1]
    BY <2>1, SubSeqProperties
  <2> HIDE DEF b
  <2>4. Len(b) = Len(s) - i
    <3>1. Len(s) \in Nat /\ i \in Nat /\ i <= Len(s)
      BY <1>0
    <3>2. CASE i + 1 <= Len(s)
      BY <2>2, <3>1, <3>2
    <3>3. CASE ~(i + 1 <= Len(s))
      BY <2>2, <3>1, <3>3
    <3> QED
      BY <3>2, <3>3
  <2>5. ASSUME NEW j \in 1..(Len(s) - i)
        PROVE  b[j] = s[i + j]
    <3>1. j \in 1..(Len(s) - (i + 1) + 1) /\ (i + 1) + j - 1 = i + j
      BY <1>0
    <3> QED
      BY <2>3, <3>1
  <2> QED
    BY <2>3, <2>4, <2>5
<1>3. RemoveAt(s, i) = a \o b
  BY DEF RemoveAt
<1> HIDE DEF a, b
<1>4. /\ a \o b \in Seq(S) /\ Len(a \o b) = Len(a) + Len(b)
      /\ \A j \in 1..(Len(a) + Len(b)) :
           (a \o b)[j] = IF j <= Len(a) THEN a[j] ELSE b[j - Len(a)]
  <2>1. a \in Seq(S) /\ b \in Seq(S)
    BY <1>1, <1>2
  <2> QED
    BY <2>1, ConcatProperties
<1>5. Len(a) + Len(b) = Len(s) - 1
  BY <1>0, <1>1, <1>2
<1>6. DOMAIN (a \o b) = 1..(Len(s) - 1)
  BY <1>4, <1>5, LenProperties
<1>7. ASSUME NEW j \in 1..(Len(s) - 1)
      PROVE  (a \o b)[j] = s[IF j < i THEN j ELSE j + 1]
  <2>1. CASE j < i
    BY <1>0, <1>1, <1>4, <1>5, <2>1
  <2>2. CASE ~(j < i)
    <3>1. j - (i - 1) \in 1..(Len(s) - i) /\ i + (j - (i - 1)) = j + 1
      BY <1>0, <2>2
    <3>2. (a \o b)[j] = b[j - (i - 1)]
      BY <1>0, <1>1, <1>4, <1>5, <2>2
    <3> QED
      BY <1>2, <2>2, <3>1, <3>2
  <2> QED
    BY <2>1, <2>2
<1> QED
  BY <1>3, <1>4, <1>5, <1>6, <1>7

\* What hook() finds is in the list, and has the identifier when it is compared.
LEMMA FoundCandidate ==
  ASSUME TypeInv, NEW t \in Threads, Calling(t), Candidates(t) # {}
  PROVE  (CHOOSE i \in Candidates(t) : \A j \in Candidates(t) : i <= j) \in Candidates(t)
<1>1. previous[Member(t)] \in Seq(OldHook)
  BY CallTyped DEF TypeInv, HooksTyped
<1>2. /\ Len(previous[Member(t)]) \in Nat
      /\ DOMAIN previous[Member(t)] = 1..Len(previous[Member(t)])
  BY <1>1, LenProperties
<1>3. Candidates(t) \in SUBSET Nat
  BY <1>2 DEF Candidates
<1>4. \E i \in Candidates(t) : \A j \in Candidates(t) : i <= j
  BY <1>3, Least
<1> QED
  BY <1>4

LEMMA CandidatesInList ==
  ASSUME TypeInv, NEW t \in Threads, Calling(t)
  PROVE  /\ previous[Member(t)] \in Seq(OldHook)
         /\ Len(previous[Member(t)]) \in Nat
         /\ DOMAIN previous[Member(t)] = 1..Len(previous[Member(t)])
         /\ Candidates(t) \subseteq 1..Len(previous[Member(t)])
         /\ \A i \in 1..Len(previous[Member(t)]) :
              /\ previous[Member(t)][i] \in OldHook
              /\ previous[Member(t)][i] \in Range(previous[Member(t)])
              /\ previous[Member(t)][i].fw \in 1..MaxHooks
<1> DEFINE s == previous[Member(t)]
<1>1. s \in Seq(OldHook)
  BY CallTyped DEF TypeInv, HooksTyped
<1>2. Len(s) \in Nat /\ DOMAIN s = 1..Len(s)
  BY <1>1, LenProperties
<1>3. Candidates(t) \subseteq 1..Len(s)
  BY <1>2 DEF Candidates
<1>4. \A i \in 1..Len(s) : s[i] \in OldHook
  BY <1>1, ElementOfSeq
<1>5. \A i \in 1..Len(s) : s[i].fw \in 1..MaxHooks
  BY <1>4 DEF OldHook
<1>6. \A i \in 1..Len(s) : s[i] \in Range(s)
  BY <1>2 DEF Range
<1> QED
  BY <1>1, <1>2, <1>3, <1>4, <1>5, <1>6

----
LEMMA HookFindTyped ==
  ASSUME TypeInv, NEW t \in Threads, HookFind(t), sweep' = sweep
  PROVE  LocalsTyped' /\ HooksTyped' /\ Unnamed'
<1>1. Calling(t)
  BY DEF HookFind, Calling
<1>2. /\ calls' = calls /\ live' = live /\ handles' = handles /\ previous' = previous
      /\ overlapped' = overlapped /\ UNCHANGED <<req, num, victim>>
  BY DEF HookFind
<1>3. LocalsTyped'
  <2>1. PICK l \in {"create", "remove"} : Goto(t, l)
    BY DEF HookFind
  <2>2. PICK i \in Nat : idx' = [idx EXCEPT ![t] = i]
    <3>1. CASE Candidates(t) = {}
      BY <3>1, SameLocals DEF HookFind
    <3>2. CASE Candidates(t) # {}
      <4> DEFINE i == CHOOSE i \in Candidates(t) : \A j \in Candidates(t) : i <= j
      <4>1. i \in Candidates(t)
        BY <1>1, <3>2, FoundCandidate
      <4>2. idx' = [idx EXCEPT ![t] = i]
        BY <3>2 DEF HookFind
      <4> HIDE DEF i
      <4>3. i \in Nat
        BY <1>1, <4>1, CandidatesInList
      <4> QED
        BY <4>2, <4>3
    <3> QED
      BY <3>1, <3>2
  <2>3. victim' = [victim EXCEPT ![t] = victim[t]] /\ victim[t] \in 0..MaxHooks
    BY <1>2, SameLocals
  <2>4. l \in {"create"} \cup Replacing /\ l \notin {"shift", "replace"}
    BY DEF Replacing
  <2> QED
    BY <1>1, <1>2, <2>1, <2>2, <2>3, <2>4, GotoLocals
<1> QED
  BY <1>2, <1>3 DEF TypeInv, HooksTyped, Unnamed

LEMMA HookRemoveTyped ==
  ASSUME TypeInv, NEW t \in Threads, HookRemove(t), sweep' = sweep
  PROVE  LocalsTyped' /\ HooksTyped' /\ Unnamed'
<1>1. Calling(t)
  BY DEF HookRemove, Calling
<1>2. /\ calls' = calls /\ live' = live /\ handles' = handles /\ previous' = previous
      /\ overlapped' = overlapped
  BY DEF HookRemove
<1>3. LocalsTyped'
  <2>1. CASE Done(t)
    BY <1>2, <2>1, DoneLocals
  <2>2. CASE ~Done(t)
    <3>1. PICK l \in {"create", "shift"} :
            Goto(t, l) /\ UNCHANGED <<req, num, idx>>
      BY <2>2 DEF HookRemove
    <3>2. \E v \in 0..MaxHooks :
            /\ victim' = [victim EXCEPT ![t] = v]
            /\ Goto(t, "shift") => v # 0
      <4>1. CASE victim' = victim /\ Goto(t, "create")
        <5>1. t \in DOMAIN pc
          BY DEF TypeInv, LocalsTyped
        <5>2. pc'[t] = "create"
          BY <4>1, <5>1 DEF Goto
        <5>3. Goto(t, "shift") => pc'[t] = "shift"
          BY <5>1 DEF Goto
        <5> QED
          BY <4>1, <5>2, <5>3, SameLocals
      <4>2. CASE /\ idx[t] \in DOMAIN previous[Member(t)]
                 /\ victim' = [victim EXCEPT ![t] = previous[Member(t)][idx[t]].fw]
        <5> DEFINE v == previous[Member(t)][idx[t]].fw
        <5>1. v \in 1..MaxHooks
          BY <1>1, <4>2, CandidatesInList
        <5>2. victim' = [victim EXCEPT ![t] = v]
          BY <4>2
        <5> HIDE DEF v
        <5>3. v \in 0..MaxHooks /\ v # 0
          BY <5>1
        <5> QED
          BY <5>2, <5>3
      <4> QED
        BY <2>2, <4>1, <4>2 DEF HookRemove
    <3>3. PICK v \in 0..MaxHooks :
            /\ victim' = [victim EXCEPT ![t] = v]
            /\ Goto(t, "shift") => v # 0
      BY <3>2
    <3>4. l \in {"create"} \cup Replacing /\ (l \in {"shift", "replace"} => v # 0)
      BY <3>1, <3>3 DEF Replacing
    <3>5. idx' = [idx EXCEPT ![t] = idx[t]] /\ idx[t] \in Nat
      BY <3>1, SameLocals
    <3> QED
      BY <1>1, <1>2, <3>1, <3>3, <3>4, <3>5, GotoLocals
  <2> QED
    BY <2>1, <2>2
<1> QED
  BY <1>2, <1>3 DEF TypeInv, HooksTyped, Unnamed

LEMMA HookShiftTyped ==
  ASSUME TypeInv, NEW t \in Threads, HookShift(t), sweep' = sweep
  PROVE  LocalsTyped' /\ HooksTyped' /\ Unnamed'
<1> DEFINE s == previous[Member(t)]
           i == IF idx[t] \in DOMAIN s THEN idx[t] ELSE Len(s)
<1>1. Calling(t) /\ pc[t] = "shift"
  BY DEF HookShift, Calling
<1>2. /\ calls' = calls /\ live' = live /\ handles' = handles
      /\ overlapped' = overlapped
  BY DEF HookShift
<1>3. LocalsTyped'
  <2>1. CASE Done(t)
    BY <1>2, <2>1, DoneLocals
  <2>2. CASE ~Done(t)
    <3>1. Goto(t, "replace") /\ UNCHANGED <<req, num, idx, victim>>
      BY <2>2 DEF HookShift
    <3>2. victim[t] # 0
      BY <1>1 DEF TypeInv, LocalsTyped
    <3>3. "replace" \in {"create"} \cup Replacing
      BY DEF Replacing
    <3> QED
      BY <1>1, <1>2, <3>1, <3>2, <3>3, SameLocals, GotoLocals
  <2> QED
    BY <2>1, <2>2
<1>4. previous' \in [Members -> Seq(OldHook)]
  <2>1. CASE s = <<>>
    BY <2>1 DEF HookShift, TypeInv, HooksTyped
  <2>2. CASE s # <<>>
    <3>1. previous' = [previous EXCEPT ![Member(t)] = RemoveAt(s, i)]
      BY <2>2 DEF HookShift
    <3>2. s \in Seq(OldHook) /\ Len(s) \in Nat /\ DOMAIN s = 1..Len(s)
      BY <1>1, CandidatesInList
    <3>3. Len(s) # 0
      BY <2>2, <3>2, EmptySeq
    <3>4. i \in 1..Len(s)
      BY <3>2, <3>3
    <3>5. RemoveAt(s, i) \in Seq(OldHook)
      BY <3>2, <3>4, RemoveAtElements
    <3> HIDE DEF s, i
    <3> QED
      BY <3>1, <3>5 DEF TypeInv, HooksTyped
  <2> QED
    BY <2>1, <2>2
<1> QED
  BY <1>2, <1>3, <1>4 DEF TypeInv, HooksTyped, Unnamed

LEMMA HookReplaceTyped ==
  ASSUME TypeInv, NEW t \in Threads, HookReplace(t), sweep' = sweep
  PROVE  LocalsTyped' /\ HooksTyped' /\ Unnamed'
<1>1. Calling(t) /\ victim[t] \in 1..MaxHooks
  BY DEF HookReplace, Calling, TypeInv, LocalsTyped
<1>2. LocalsTyped'
  BY DoneLocals DEF HookReplace
<1>3. num[t] \in 1..MaxHooks /\ gen \in 0..MaxReloads
  BY <1>1, CallTyped DEF TypeInv, PhaseInv
<1> DEFINE Map(x) == IF x.fw = victim[t] THEN [x EXCEPT !.by = num[t], !.gen = gen] ELSE x
<1>4. \A x \in live : /\ Map(x) \in LiveHook
                      /\ Map(x).member = x.member /\ Map(x).ident = x.ident
  <2>1. \A x \in live : x \in LiveHook
    BY DEF TypeInv, HooksTyped
  <2> QED
    BY <1>3, <2>1 DEF LiveHook
<1>5. live' = {Map(x) : x \in live}
  BY DEF HookReplace
<1> HIDE DEF Map
<1>6. live' \subseteq LiveHook
  BY <1>4, <1>5
<1>7. handles' \subseteq LiveHook
  BY <1>1, CallTyped DEF HookReplace, TypeInv, HooksTyped
<1>8. HooksTyped'
  BY <1>6, <1>7 DEF HookReplace, TypeInv, HooksTyped
<1>9. Unnamed'
  BY <1>4, <1>5 DEF Unnamed, TypeInv
<1> QED
  BY <1>2, <1>8, <1>9

LEMMA HookCreateTyped ==
  ASSUME TypeInv, NEW t \in Threads, HookCreate(t), sweep' = sweep
  PROVE  LocalsTyped' /\ HooksTyped' /\ Unnamed'
<1>1. Calling(t)
  BY DEF HookCreate, Calling
<1>2. LocalsTyped'
  BY DoneLocals DEF HookCreate
<1>3. Call(t, num[t]) \in LiveHook
  BY <1>1, CallTyped
<1>4. Call(t, num[t]).member = Member(t) /\ Call(t, num[t]).ident = Ident(t)
  BY DEF Call
<1>5. live' = live \cup {Call(t, num[t])} /\ handles' = handles \cup {Call(t, num[t])}
  BY DEF HookCreate
<1>6. HooksTyped'
  BY <1>3, <1>5 DEF HookCreate, TypeInv, HooksTyped
<1>7. Unnamed'
  BY <1>1, <1>4, <1>5, CallTyped DEF Unnamed, TypeInv
<1> QED
  BY <1>2, <1>6, <1>7

LEMMA UnhookTyped ==
  ASSUME TypeInv, NEW h \in handles, Unhook(h), sweep' = sweep
  PROVE  LocalsTyped' /\ HooksTyped' /\ Unnamed'
<1>1. LocalsTyped'
  BY DEF TypeInv, LocalsTyped, Unhook, locals, Calling
<1>2. HooksTyped' /\ Unnamed'
  BY DEF TypeInv, HooksTyped, Unnamed, Unhook
<1> QED
  BY <1>1, <1>2

----
\* What the new code is given: all the old handles of each member, in an order
LEMMA GroupedOld ==
  ASSUME NEW g \in Grouped
  PROVE  /\ g \in [Members -> Seq(OldHook)]
         /\ \A m \in Members : g[m] \in SetToSeqs(Old(m))
  BY DEF Grouped

LEMMA StepHooksTyped == TypeInv /\ [Next]_vars => LocalsTyped' /\ HooksTyped' /\ Unnamed'
<1> SUFFICES ASSUME TypeInv, [Next]_vars PROVE LocalsTyped' /\ HooksTyped' /\ Unnamed'
  OBVIOUS
<1>0. Reloader \in Threads /\ AttachRequest \in Requests \cup {AttachRequest}
      /\ \A w \in Workers : w \in Threads
  BY DEF Threads
<1>1. CASE UNCHANGED vars
  BY <1>1, KeepHooksTyped DEF vars
<1>2. CASE PackageStep
  BY <1>2, KeepHooksTyped DEF PackageStep
<1>3. CASE ModuleStep
  <2>0. sweep' = sweep
    BY <1>3 DEF ModuleStep
  <2>1. CASE \E t \in Threads, r \in Requests : HookStart(t, r)
    BY <2>0, <2>1, HookStartTyped
  <2>2. CASE \E t \in Threads : HookStep(t)
    BY <2>0, <2>2, HookFindTyped, HookRemoveTyped, HookShiftTyped, HookReplaceTyped,
       HookCreateTyped DEF HookStep
  <2>3. CASE \E h \in handles : Unhook(h)
    BY <2>0, <2>3, UnhookTyped
  <2> QED
    BY <1>0, <1>3, <2>1, <2>2, <2>3 DEF ModuleStep
<1>4. CASE ReloadStep
  <2>1. CASE Prepare
    BY <1>0, <2>1, HookStartTyped DEF Prepare
  <2>2. CASE HotReloaded
    <3>1. LocalsTyped' /\ live' = live /\ Unnamed'
      BY <2>2 DEF HotReloaded, TypeInv, LocalsTyped, Calling, Unnamed, locals
    <3>2. previous' \in [Members -> Seq(OldHook)]
      BY <2>2, GroupedOld DEF HotReloaded
    <3>3. HooksTyped'
      BY <2>2, <3>1, <3>2 DEF HotReloaded, TypeInv, HooksTyped
    <3> QED
      BY <3>1, <3>3
  <2>7. CASE InitThrows
    <3>1. LocalsTyped' /\ Unnamed'
      BY <2>7 DEF InitThrows, TypeInv, LocalsTyped, Calling, Unnamed, locals
    <3>2. previous' \in [Members -> Seq(OldHook)]
      BY <2>7 DEF InitThrows
    <3>3. HooksTyped'
      BY <2>7, <3>2 DEF InitThrows, TypeInv, HooksTyped
    <3> QED
      BY <3>1, <3>3
  <2>3. CASE Flatten
    <3>1. UNCHANGED <<locals, live, handles, calls, previous>>
      BY <2>3 DEF Flatten, hooking
    <3>2. LocalsTyped' /\ Unnamed'
      BY <3>1 DEF TypeInv, LocalsTyped, Calling, Unnamed, locals
    <3>3. sweep' \subseteq 1..MaxHooks
      <4>1. ASSUME NEW m \in Members, NEW o \in Range(previous[m])
            PROVE  o.fw \in 1..MaxHooks
        <5>1. previous[m] \in Seq(OldHook)
          BY DEF TypeInv, HooksTyped
        <5>2. o \in OldHook
          BY <5>1, LenProperties, ElementOfSeq DEF Range
        <5> QED
          BY <5>2 DEF OldHook
      <4>2. sweep' = Leftovers
        BY <2>3 DEF Flatten
      <4> QED
        BY <4>1, <4>2 DEF Leftovers
    <3>4. overlapped' \subseteq Members
      <4>1. \A u \in Threads : pc[u] \in Replacing => Calling(u)
        BY DEF Replacing, Calling
      <4>2. \A u \in Threads : pc[u] \in Replacing => Member(u) \in Members
        BY <4>1, CallTyped
      <4>3. overlapped' = overlapped \cup
              {Member(u) : u \in {w \in Threads : pc[w] \in Replacing}}
        BY <2>3 DEF Flatten
      <4> QED
        BY <4>2, <4>3 DEF TypeInv, HooksTyped
    <3>5. HooksTyped'
      BY <3>1, <3>3, <3>4 DEF TypeInv, HooksTyped
    <3> QED
      BY <3>2, <3>5
  <2>4. CASE \E fw \in sweep : UnhookOld(fw)
    <3>1. UNCHANGED <<locals, handles, calls, previous, overlapped>>
      BY <2>4 DEF UnhookOld
    <3>2. LocalsTyped'
      BY <3>1 DEF TypeInv, LocalsTyped, Calling, locals
    <3>3. sweep' \subseteq sweep /\ live' \subseteq live
      BY <2>4 DEF UnhookOld
    <3> QED
      BY <3>1, <3>2, <3>3 DEF TypeInv, HooksTyped, Unnamed
  <2>5. CASE EndReload
    <3>1. UNCHANGED <<locals, live, handles, calls, overlapped, sweep>>
      BY <2>5 DEF EndReload, hooking
    <3>2. LocalsTyped' /\ Unnamed'
      BY <3>1 DEF TypeInv, LocalsTyped, Calling, Unnamed, locals
    <3>3. previous' \in [Members -> Seq(OldHook)]
      BY <2>5 DEF EndReload
    <3>4. HooksTyped'
      BY <3>1, <3>3 DEF TypeInv, HooksTyped
    <3> QED
      BY <3>2, <3>4
  <2>6. CASE \/ SavePackages \/ ClearPackages \/ Cleanup \/ ProcessLoaded
             \/ (\E p \in Packages : ReplayPackage(p)) \/ ModuleThrows \/ EndReplacing
    BY <2>6, KeepHooksTyped DEF SavePackages, ClearPackages, Cleanup, ProcessLoaded,
       ReplayPackage, ModuleThrows, EndReplacing, reloadUnchanged
  <2> QED
    BY <1>4, <2>1, <2>2, <2>3, <2>4, <2>5, <2>6, <2>7 DEF ReloadStep
<1> QED
  BY <1>1, <1>2, <1>3, <1>4 DEF Next

LEMMA StepTypeInv == TypeInv /\ [Next]_vars => TypeInv'
  BY StepPhase, StepPackagesTyped, StepHooksTyped DEF TypeInv

LEMMA TypeInvariance == Spec => []TypeInv
<1>1. Init => TypeInv
  BY InitTypeInv
<1>2. TypeInv /\ [Next]_vars => TypeInv'
  BY StepTypeInv
<1> QED
  BY <1>1, <1>2, PTL DEF Spec

LEMMA TypeInvTypeOK == TypeInv => TypeOK
<1> SUFFICES ASSUME TypeInv PROVE TypeOK
  OBVIOUS
<1>1. PhaseInv /\ PackagesTyped /\ LocalsTyped /\ HooksTyped
  BY DEF TypeInv
<1>2. /\ gen \in 0..MaxReloads /\ phase \in Phases
      /\ hot \in BOOLEAN /\ nativeLoaded \in BOOLEAN /\ failed \in BOOLEAN
  BY <1>1 DEF PhaseInv
<1>3. /\ phase \in {"prepare", "process", "packages"} => hot
      /\ phase = "running" => hot = failed
  BY <1>1 DEF PhaseInv
<1>4. /\ appPackages \cup saved \cup todo \cup dead \cup ready \cup told \cup missed
           \subseteq Packages
      /\ phase \in {"clear", "cleanup", "handover"} => todo = {}
  BY <1>1 DEF PackagesTyped
<1>5. /\ live \subseteq LiveHook /\ previous \in [Members -> Seq(OldHook)]
      /\ sweep \subseteq 1..MaxHooks /\ calls \in 0..MaxHooks /\ overlapped \subseteq Members
  BY <1>1 DEF HooksTyped
<1>6. /\ pc \in [Threads -> {"idle", "create"} \cup Replacing]
      /\ \A t \in Threads : pc[t] # "idle" =>
           req[t] \in Requests \cup {AttachRequest} /\ num[t] \in 1..calls
      /\ idx \in [Threads -> Nat] /\ victim \in [Threads -> 0..MaxHooks]
  BY <1>1 DEF LocalsTyped, Calling
<1> QED
  BY <1>2, <1>3, <1>4, <1>5, <1>6 DEF TypeOK

\* The variables keep their types, and the flags say where a reload is: the state
\* of LSPosed.kt 45-62 in the code.
THEOREM TypeCorrect == Spec => []TypeOK
  BY TypeInvariance, TypeInvTypeOK, PTL

----
\* Packages across reloads

\* The packages that must stay known: they became ready, their class loader is
\* alive and no reload met them at the wrong moment.
Carried == ready \ (dead \cup missed)

\* Where a reload has them: in appPackages, then in savedInstanceState, then some
\* in the new code's appPackages and the others still to be replayed.  An
\* onPackageReady in progress is the current code's only while no reload has
\* handed over, and it has been told the package by then.
PackagesInv ==
  /\ phase \in {"running", "flatten", "sweep", "unstarted"} =>
       Carried \subseteq appPackages \cap told
  /\ phase \in {"clear", "cleanup", "handover"} => Carried \subseteq saved
  /\ phase \in {"prepare", "process", "packages"} =>
       Carried \subseteq todo \cup (appPackages \cap told)
  /\ arriving # <<>> =>
       /\ arriving[2] = gen => arriving[1] \in told
       /\ phase \in {"prepare", "process", "packages", "flatten", "sweep", "unstarted"} =>
            arriving[2] # gen

LEMMA InitPackages == Init => PackagesInv
  BY DEF Init, PackagesInv, Carried

LEMMA PackageStepPackages ==
  ASSUME TypeInv, PackagesInv, PackageStep
  PROVE  PackagesInv'
<1> USE DEF PackagesInv, Carried
<1>0. gen' = gen /\ phase' = phase
  BY DEF PackageStep
<1>1. CASE \E p \in Packages : PackageReady(p)
  <2>1. PICK p \in Packages : PackageReady(p)
    BY <1>1
  <2>2. arriving' # <<>> /\ arriving'[1] = p /\ arriving'[2] = gen
    BY <2>1 DEF PackageReady
  <2>3. told' = told \cup {p} /\ phase = "running"
        /\ UNCHANGED <<appPackages, saved, todo, dead, ready, missed>>
    BY <2>1 DEF PackageReady
  <2> QED
    BY <1>0, <2>2, <2>3
<1>2. CASE \E p \in Packages : ClassLoaderDies(p)
  BY <1>0, <1>2 DEF ClassLoaderDies
<1>3. CASE PackageRegister
  <2> DEFINE p == arriving[1]
  <2>1. /\ arriving # <<>> /\ arriving' = <<>> /\ UNCHANGED <<saved, todo, dead, told>>
        /\ ready' = ready \cup {p}
    BY <1>3 DEF PackageRegister
  <2>2. CASE arriving[2] = gen /\ phase = "running"
    <3>1. appPackages' = appPackages \cup {p} /\ missed \subseteq missed' /\ p \in told
      BY <1>3, <2>1, <2>2 DEF PackageRegister
    <3> QED
      BY <1>0, <2>1, <2>2, <3>1
  <2>3. CASE ~(arriving[2] = gen /\ phase = "running")
    <3>1. phase \in {"clear", "cleanup", "handover"} \/ arriving[2] # gen
      BY <2>1, <2>3 DEF TypeInv, PhaseInv, Phases
    <3>2. missed' = missed \cup {p} /\ appPackages \subseteq appPackages'
      BY <1>3, <3>1 DEF PackageRegister
    <3> QED
      BY <1>0, <2>1, <3>2
  <2> QED
    BY <2>2, <2>3
<1>4. CASE PackageThrows
  BY <1>0, <1>4 DEF PackageThrows
<1> QED
  BY <1>1, <1>2, <1>3, <1>4 DEF PackageStep

LEMMA ReloadStepPackages ==
  ASSUME TypeInv, PackagesInv, ReloadStep
  PROVE  PackagesInv'
<1> USE DEF PackagesInv, Carried, packages
<1>1. CASE SavePackages
  BY <1>1 DEF SavePackages
<1>2. CASE ClearPackages
  BY <1>2 DEF ClearPackages
<1>3. CASE Cleanup
  BY <1>3 DEF Cleanup
<1>4. CASE HotReloaded
  <2>1. arriving # <<>> => arriving[2] \in 0..gen /\ gen \in Nat
    BY DEF TypeInv, PackagesTyped, PhaseInv
  <2>2. arriving # <<>> => arriving[2] # gen + 1
    BY <2>1
  <2> QED
    BY <1>4, <2>2 DEF HotReloaded
<1>5. CASE Prepare
  BY <1>5 DEF Prepare
<1>6. CASE ProcessLoaded
  BY <1>6 DEF ProcessLoaded
<1>7. CASE \E p \in Packages : ReplayPackage(p)
  BY <1>7 DEF ReplayPackage
<1>8. CASE ModuleThrows
  BY <1>8 DEF ModuleThrows
<1>9. CASE EndReplacing
  BY <1>9 DEF EndReplacing
<1>10. CASE Flatten
  BY <1>10 DEF Flatten
<1>11. CASE \E fw \in sweep : UnhookOld(fw)
  BY <1>11 DEF UnhookOld
<1>12. CASE EndReload
  BY <1>12 DEF EndReload
<1>13. CASE InitThrows
  <2>1. arriving # <<>> => arriving[2] \in 0..gen /\ gen \in Nat
    BY DEF TypeInv, PackagesTyped, PhaseInv
  <2>2. arriving # <<>> => arriving[2] # gen + 1
    BY <2>1
  <2> QED
    BY <1>13, <2>2 DEF InitThrows
<1> QED
  BY <1>1, <1>2, <1>3, <1>4, <1>5, <1>6, <1>7, <1>8, <1>9, <1>10, <1>11, <1>12, <1>13
     DEF ReloadStep

LEMMA StepPackages == TypeInv /\ PackagesInv /\ [Next]_vars => PackagesInv'
<1> SUFFICES ASSUME TypeInv, PackagesInv, [Next]_vars PROVE PackagesInv'
  OBVIOUS
<1>1. CASE UNCHANGED <<gen, phase, packages>>
  BY <1>1 DEF PackagesInv, Carried, packages
<1>2. CASE ModuleStep \/ UNCHANGED vars
  BY <1>1, <1>2 DEF ModuleStep, vars
<1> QED
  BY <1>2, PackageStepPackages, ReloadStepPackages DEF Next

\* A package that became ready is in appPackages, and the current code has been
\* given it, whenever no reload is under way: onHotReloading saves it, and
\* onHotReloaded replays it.  (LSPosed.kt 227-245, 272-294, 337-366)
THEOREM PackagesStayKnown == Spec => []PackagesCarriedOver
<1>1. Init => PackagesInv
  BY InitPackages
<1>2. TypeInv /\ PackagesInv /\ [Next]_vars => PackagesInv'
  BY StepPackages
<1>3. PackagesInv => PackagesCarriedOver
  BY DEF PackagesInv, PackagesCarriedOver, Carried
<1> QED
  BY <1>1, <1>2, <1>3, TypeInvariance, PTL DEF Spec

----
\* The numbers of the framework's hooks

\* A number that a hook of the framework has, or had when it was remembered
InUse(n) ==
  \/ \E x \in live : x.fw = n
  \/ \E h \in handles : h.fw = n
  \/ \E m \in Members : \E o \in Range(previous[m]) : o.fw = n
  \/ n \in sweep
  \/ \E t \in Threads : pc[t] \in {"shift", "replace"} /\ victim[t] = n

\* A hook() call has a number of its own until it makes a hook, and no two hooks
\* have the same.
NumbersInv ==
  /\ \A n \in 1..MaxHooks : InUse(n) => n <= calls
  /\ \A t \in Threads : Calling(t) => ~InUse(num[t])
  /\ \A t, u \in Threads : Calling(t) /\ Calling(u) /\ num[t] = num[u] => t = u
  /\ \A x, y \in live : x.fw = y.fw => x = y

\* Where a number stands, it belongs to a hook of one member.
OwnedBy(own) ==
  /\ \A x \in live : own[x.fw] = x.member
  /\ \A m \in Members : \A o \in Range(previous[m]) : own[o.fw] = m
  /\ \A t \in Threads : Calling(t) => own[num[t]] = Member(t)
  /\ \A t \in Threads : pc[t] \in {"shift", "replace"} => own[victim[t]] = Member(t)
  /\ \A h \in handles : own[h.fw] = h.member

OwnerInv == \E own \in [1..MaxHooks -> Members] : OwnedBy(own)

\* The elements of the list of a member
LEMMA ListTyped ==
  ASSUME TypeInv, NEW m \in Members
  PROVE  /\ previous[m] \in Seq(OldHook)
         /\ Len(previous[m]) \in Nat /\ DOMAIN previous[m] = 1..Len(previous[m])
         /\ \A o \in Range(previous[m]) : o \in OldHook /\ o.fw \in 1..MaxHooks
<1>1. previous[m] \in Seq(OldHook)
  BY DEF TypeInv, HooksTyped
<1>2. Len(previous[m]) \in Nat /\ DOMAIN previous[m] = 1..Len(previous[m])
  BY <1>1, LenProperties
<1>3. \A o \in Range(previous[m]) : o \in OldHook
  BY <1>1, <1>2, ElementOfSeq DEF Range
<1>4. \A o \in OldHook : o.fw \in 1..MaxHooks
  BY DEF OldHook
<1> QED
  BY <1>1, <1>2, <1>3, <1>4

\* Every place that remembers a hook has a number in use.
LEMMA InUseTyped ==
  ASSUME TypeInv
  PROVE  /\ \A x \in live : x.fw \in 1..MaxHooks /\ x.member \in Members /\ InUse(x.fw)
         /\ \A h \in handles : h.fw \in 1..MaxHooks /\ h.member \in Members /\ InUse(h.fw)
         /\ \A m \in Members : \A o \in Range(previous[m]) :
              o.fw \in 1..MaxHooks /\ InUse(o.fw)
         /\ \A t \in Threads : pc[t] \in {"shift", "replace"} =>
              victim[t] \in 1..MaxHooks /\ InUse(victim[t])
         /\ \A n \in sweep : n \in 1..MaxHooks /\ InUse(n)
<1>1. \A x \in LiveHook : x.fw \in 1..MaxHooks /\ x.member \in Members
  BY DEF LiveHook
<1>2. live \subseteq LiveHook /\ handles \subseteq LiveHook /\ sweep \subseteq 1..MaxHooks
  BY DEF TypeInv, HooksTyped
<1>3. \A x \in live : x.fw \in 1..MaxHooks /\ x.member \in Members /\ InUse(x.fw)
  BY <1>1, <1>2 DEF InUse
<1>4. \A h \in handles : h.fw \in 1..MaxHooks /\ h.member \in Members /\ InUse(h.fw)
  BY <1>1, <1>2 DEF InUse
<1>5. \A m \in Members : \A o \in Range(previous[m]) : o.fw \in 1..MaxHooks /\ InUse(o.fw)
  BY ListTyped DEF InUse
<1>6. \A t \in Threads : pc[t] \in {"shift", "replace"} =>
        victim[t] \in 1..MaxHooks /\ InUse(victim[t])
  BY DEF InUse, TypeInv, LocalsTyped
<1>7. \A n \in sweep : n \in 1..MaxHooks /\ InUse(n)
  BY <1>2 DEF InUse
<1> QED
  BY <1>3, <1>4, <1>5, <1>6, <1>7

\* Steps that bring no number into use
LEMMA KeepNumbers ==
  ASSUME TypeInv, NumbersInv, calls' = calls,
         \A n \in 1..MaxHooks : InUse(n)' => InUse(n),
         \A t \in Threads : Calling(t)' => Calling(t) /\ num'[t] = num[t],
         \A x, y \in live' : x.fw = y.fw => x = y
  PROVE  NumbersInv'
<1>1. \A n \in 1..MaxHooks : InUse(n)' => n <= calls'
  BY DEF NumbersInv
<1>2. \A t \in Threads : Calling(t) => num[t] \in 1..MaxHooks
  BY CallTyped
<1>3. \A t \in Threads : Calling(t)' => ~InUse(num[t])
  BY DEF NumbersInv
<1>4. \A t \in Threads : Calling(t)' => \A n \in 1..MaxHooks : n = num'[t] => ~InUse(n)'
  BY <1>2, <1>3
<1>5. \A t \in Threads : Calling(t)' => \A n \in 1..MaxHooks : n = num'[t] => ~(InUse(n)')
  BY <1>4
<1>6. \A t \in Threads : Calling(t)' => num'[t] \in 1..MaxHooks
  BY <1>2
<1> QED
  BY <1>1, <1>5, <1>6 DEF NumbersInv

\* Steps that only pass on the numbers the framework's hooks have
LEMMA NothingNew ==
  ASSUME TypeInv, TypeInv', NumbersInv, calls' = calls,
         \A x \in live' : \E y \in live : y.fw = x.fw /\ y.member = x.member,
         \A x, y \in live' : x.fw = y.fw => x = y,
         \A h \in handles' :
           \/ h \in handles
           \/ \E t \in Threads : /\ pc[t] \in {"shift", "replace"}
                                 /\ h.fw = victim[t] /\ h.member = Member(t),
         \A m \in Members : \A o \in Range(previous'[m]) :
           \/ o \in Range(previous[m])
           \/ \E x \in live : x.fw = o.fw /\ x.member = m,
         \A n \in sweep' :
           \/ n \in sweep
           \/ \E m \in Members : \E o \in Range(previous[m]) : o.fw = n,
         \A t \in Threads : Calling(t)' => /\ Calling(t)
                                           /\ num'[t] = num[t] /\ req'[t] = req[t],
         \A t \in Threads : pc'[t] \in {"shift", "replace"} =>
           \/ pc[t] \in {"shift", "replace"} /\ victim'[t] = victim[t]
           \/ \E o \in Range(previous[Member(t)]) : victim'[t] = o.fw
  PROVE  /\ NumbersInv'
         /\ \A own : OwnedBy(own) => OwnedBy(own)'
<1>0. \A t \in Threads : pc'[t] \in {"shift", "replace"} => Calling(t)'
  BY DEF Calling
<1>1. \A t \in Threads : Calling(t) => Member(t) \in Members
  BY CallTyped
<1>2. \A t \in Threads : Calling(t)' => Member(t)' = Member(t)
  BY DEF Member
<1>3. ASSUME NEW n \in 1..MaxHooks, InUse(n)'
      PROVE  InUse(n)
  <2>1. CASE \E x \in live' : x.fw = n
    BY <2>1 DEF InUse
  <2>2. CASE \E h \in handles' : h.fw = n
    BY <2>2 DEF InUse
  <2>3. CASE \E m \in Members : \E o \in Range(previous'[m]) : o.fw = n
    BY <2>3 DEF InUse
  <2>4. CASE n \in sweep'
    BY <2>4 DEF InUse
  <2>5. CASE \E t \in Threads : pc'[t] \in {"shift", "replace"} /\ victim'[t] = n
    BY <2>5, <1>0, <1>1 DEF InUse
  <2> QED
    BY <1>3, <2>1, <2>2, <2>3, <2>4, <2>5 DEF InUse
<1>4. NumbersInv'
  BY <1>3, KeepNumbers
<1>5. ASSUME NEW own, OwnedBy(own)
      PROVE  OwnedBy(own)'
  <2> USE <1>5 DEF OwnedBy
  <2>1. \A x \in live' : own[x.fw] = x.member
    OBVIOUS
  <2>2. \A m \in Members : \A o \in Range(previous'[m]) : own[o.fw] = m
    OBVIOUS
  <2>3. \A t \in Threads : Calling(t)' => own[num'[t]] = Member(t)'
    BY <1>2
  <2>4. \A t \in Threads : pc'[t] \in {"shift", "replace"} => own[victim'[t]] = Member(t)'
    BY <1>0, <1>1, <1>2
  <2>5. \A h \in handles' : own[h.fw] = h.member
    OBVIOUS
  <2> QED
    BY <2>1, <2>2, <2>3, <2>4, <2>5
<1> QED
  BY <1>4, <1>5

\* A step of t in its hook() call leaves the calls of the other threads alone.
LEMMA OthersCall ==
  ASSUME TypeInv, NEW t \in Threads, HookStep(t)
  PROVE  /\ calls' = calls /\ Calling(t)
         /\ \A u \in Threads \ {t} : /\ pc'[u] = pc[u] /\ num'[u] = num[u]
                                     /\ req'[u] = req[u] /\ idx'[u] = idx[u]
                                     /\ victim'[u] = victim[u]
         /\ Calling(t)' => num'[t] = num[t] /\ req'[t] = req[t]
<1> USE DEF HookStep, HookFind, HookRemove, HookShift, HookReplace, HookCreate
<1>1. Calling(t)
  BY DEF Calling
<1>2. calls' = calls
  OBVIOUS
<1>3. \/ Done(t)
      \/ /\ UNCHANGED <<req, num>>
         /\ \E l \in {"create", "remove", "shift", "replace"} : Goto(t, l)
         /\ \E i : idx' = [idx EXCEPT ![t] = i] \/ idx' = idx
         /\ \E v : victim' = [victim EXCEPT ![t] = v] \/ victim' = victim
  OBVIOUS
<1> HIDE DEF HookStep
<1>4. \A u \in Threads \ {t} : /\ pc'[u] = pc[u] /\ num'[u] = num[u]
                               /\ req'[u] = req[u] /\ idx'[u] = idx[u]
                               /\ victim'[u] = victim[u]
  BY <1>3 DEF Done, Goto, TypeInv, LocalsTyped
<1>5. Calling(t)' => num'[t] = num[t] /\ req'[t] = req[t]
  BY <1>3 DEF Done, Goto, Calling, TypeInv, LocalsTyped
<1> QED
  BY <1>1, <1>2, <1>4, <1>5

\* A shift leaves the list of the member its element or an element less.
LEMMA ShiftRange ==
  ASSUME TypeInv, NEW t \in Threads, HookShift(t)
  PROVE  /\ Member(t) \in Members
         /\ \A m \in Members \ {Member(t)} : previous'[m] = previous[m]
         /\ Range(previous'[Member(t)]) \subseteq Range(previous[Member(t)])
<1> DEFINE s == previous[Member(t)]
           i == IF idx[t] \in DOMAIN s THEN idx[t] ELSE Len(s)
<1>1. Calling(t)
  BY DEF HookShift, Calling
<1>2. Member(t) \in Members /\ DOMAIN previous = Members
  BY <1>1, CallTyped DEF TypeInv, HooksTyped
<1>3. s \in Seq(OldHook) /\ Len(s) \in Nat /\ DOMAIN s = 1..Len(s)
  BY <1>1, CandidatesInList
<1>4. CASE s = <<>>
  BY <1>2, <1>4 DEF HookShift
<1>5. CASE s # <<>>
  <2>1. previous' = [previous EXCEPT ![Member(t)] = RemoveAt(s, i)]
    BY <1>5 DEF HookShift
  <2>2. i \in 1..Len(s)
    <3>1. Len(s) # 0
      BY <1>3, <1>5, EmptySeq
    <3> QED
      BY <1>3, <3>1
  <2> HIDE DEF s, i
  <2>3. Range(RemoveAt(s, i)) \subseteq Range(s)
    <3>1. /\ DOMAIN RemoveAt(s, i) = 1..(Len(s) - 1)
          /\ \A j \in 1..(Len(s) - 1) :
               RemoveAt(s, i)[j] = s[IF j < i THEN j ELSE j + 1]
      BY <1>3, <2>2, RemoveAtElements
    <3>2. \A j \in 1..(Len(s) - 1) : (IF j < i THEN j ELSE j + 1) \in 1..Len(s)
      BY <1>3, <2>2
    <3> QED
      BY <1>3, <3>1, <3>2 DEF Range
  <2>4. /\ previous'[Member(t)] = RemoveAt(s, i)
        /\ \A m \in Members \ {Member(t)} : previous'[m] = previous[m]
    BY <1>2, <2>1
  <2> QED
    BY <1>2, <2>3, <2>4 DEF s
<1> QED
  BY <1>4, <1>5

\* A replacement leaves the hooks of the framework their numbers, members and
\* identifiers.
LEMMA ReplaceLive ==
  ASSUME TypeInv, NEW t \in Threads, HookReplace(t)
  PROVE  /\ \A x \in live' : \E y \in live :
              /\ x.fw = y.fw /\ x.member = y.member /\ x.ident = y.ident
              /\ x.fw # victim[t] => x = y
              /\ x.fw = victim[t] => x.by = num[t] /\ x.gen = gen
         /\ \A y \in live : \E x \in live' :
              /\ x.fw = y.fw /\ x.member = y.member /\ x.ident = y.ident
              /\ x.fw # victim[t] => x = y
              /\ x.fw = victim[t] => x.by = num[t] /\ x.gen = gen
<1> DEFINE Map(x) == IF x.fw = victim[t] THEN [x EXCEPT !.by = num[t], !.gen = gen] ELSE x
<1>1. live' = {Map(x) : x \in live}
  BY DEF HookReplace
<1>2. \A y \in LiveHook :
        /\ Map(y).fw = y.fw /\ Map(y).member = y.member /\ Map(y).ident = y.ident
        /\ y.fw # victim[t] => Map(y) = y
        /\ y.fw = victim[t] => Map(y).by = num[t] /\ Map(y).gen = gen
  BY DEF LiveHook
<1>3. live \subseteq LiveHook
  BY DEF TypeInv, HooksTyped
<1> HIDE DEF Map
<1> QED
  BY <1>1, <1>2, <1>3

\* Two hooks with one number are one, after a replacement as before.
LEMMA ReplaceDistinct ==
  ASSUME TypeInv, NumbersInv, NEW t \in Threads, HookReplace(t)
  PROVE  \A x, y \in live' : x.fw = y.fw => x = y
<1> DEFINE Map(x) == IF x.fw = victim[t] THEN [x EXCEPT !.by = num[t], !.gen = gen] ELSE x
<1>1. live' = {Map(x) : x \in live}
  BY DEF HookReplace
<1>2. \A y \in LiveHook : Map(y).fw = y.fw
  BY DEF LiveHook
<1>3. live \subseteq LiveHook /\ \A x, y \in live : x.fw = y.fw => x = y
  BY DEF TypeInv, HooksTyped, NumbersInv
<1> HIDE DEF Map
<1> QED
  BY <1>1, <1>2, <1>3

LEMMA HookStepNumbers ==
  ASSUME TypeInv, TypeInv', NumbersInv, NEW t \in Threads, HookStep(t), sweep' = sweep
  PROVE  /\ NumbersInv'
         /\ \A own : OwnedBy(own) => OwnedBy(own)'
<1>1. /\ calls' = calls /\ Calling(t)
      /\ \A u \in Threads : Calling(u)' => /\ Calling(u)
                                           /\ num'[u] = num[u] /\ req'[u] = req[u]
  BY OthersCall DEF Calling
<1>2. \A u \in Threads \ {t} : pc'[u] = pc[u] /\ victim'[u] = victim[u]
  BY OthersCall
<1>3. Member(t) \in Members
  BY <1>1, CallTyped
<1>4. CASE HookFind(t)
  <2>1. live' = live /\ handles' = handles /\ previous' = previous
    BY <1>4 DEF HookFind
  <2>2. pc'[t] \notin {"shift", "replace"}
    BY <1>4 DEF HookFind, Goto, TypeInv, LocalsTyped
  <2>3. \A x, y \in live' : x.fw = y.fw => x = y
    BY <2>1 DEF NumbersInv
  <2> QED
    BY <1>1, <1>2, <2>1, <2>2, <2>3, NothingNew
<1>5. CASE HookRemove(t)
  <2>1. live' = live /\ handles' = handles /\ previous' = previous
    BY <1>5 DEF HookRemove
  <2>2. pc'[t] \in {"shift", "replace"} =>
          \E o \in Range(previous[Member(t)]) : victim'[t] = o.fw
    <3>1. pc'[t] \in {"shift", "replace"} =>
            /\ idx[t] \in DOMAIN previous[Member(t)]
            /\ victim' = [victim EXCEPT ![t] = previous[Member(t)][idx[t]].fw]
      BY <1>5 DEF HookRemove, Goto, Done, TypeInv, LocalsTyped
    <3>2. idx[t] \in DOMAIN previous[Member(t)] =>
            previous[Member(t)][idx[t]] \in Range(previous[Member(t)])
      BY DEF Range
    <3>3. DOMAIN victim = Threads
      BY DEF TypeInv, LocalsTyped
    <3> QED
      BY <3>1, <3>2, <3>3
  <2>3. \A x, y \in live' : x.fw = y.fw => x = y
    BY <2>1 DEF NumbersInv
  <2> QED
    BY <1>1, <1>2, <2>1, <2>2, <2>3, NothingNew
<1>6. CASE HookShift(t)
  <2>1. live' = live /\ handles' = handles
    BY <1>6 DEF HookShift
  <2>2. pc'[t] \in {"shift", "replace"} =>
          pc[t] \in {"shift", "replace"} /\ victim'[t] = victim[t]
    BY <1>6 DEF HookShift, Goto, Done, TypeInv, LocalsTyped
  <2>3. \A m \in Members : Range(previous'[m]) \subseteq Range(previous[m])
    BY <1>6, ShiftRange
  <2>4. \A x, y \in live' : x.fw = y.fw => x = y
    BY <2>1 DEF NumbersInv
  <2> QED
    BY <1>1, <1>2, <2>1, <2>2, <2>3, <2>4, NothingNew
<1>7. CASE HookReplace(t)
  <2>1. previous' = previous /\ handles' = handles \cup {Call(t, victim[t])}
    BY <1>7 DEF HookReplace
  <2>2. pc'[t] \notin {"shift", "replace"} /\ pc[t] = "replace"
    BY <1>7 DEF HookReplace, Goto, Done, TypeInv, LocalsTyped
  <2>3. \A x \in live' : \E y \in live : y.fw = x.fw /\ y.member = x.member
    BY <1>7, ReplaceLive
  <2>4. \A x, y \in live' : x.fw = y.fw => x = y
    BY <1>7, ReplaceDistinct
  <2>5. Call(t, victim[t]).fw = victim[t] /\ Call(t, victim[t]).member = Member(t)
    BY DEF Call
  <2> QED
    BY <1>1, <1>2, <2>1, <2>2, <2>3, <2>4, <2>5, NothingNew
<1>8. CASE HookCreate(t)
  <2> DEFINE n == num[t]
             c == Call(t, num[t])
  <2>1. c.fw = n /\ c.member = Member(t) /\ n \in 1..MaxHooks /\ n <= calls
    BY <1>1, CallTyped DEF Call
  <2>2. live' = live \cup {c} /\ handles' = handles \cup {c} /\ previous' = previous
    BY <1>8 DEF HookCreate
  <2>3. ~InUse(n)
    BY <1>1 DEF NumbersInv
  <2>4. pc'[t] = "idle" /\ ~(Calling(t)')
    BY <1>8 DEF HookCreate, Done, Goto, Calling, TypeInv, LocalsTyped
  <2> HIDE DEF n, c
  <2>5. ASSUME NEW k \in 1..MaxHooks, InUse(k)'
        PROVE  InUse(k) \/ k = n
    BY <1>2, <2>1, <2>2, <2>4, <2>5 DEF InUse
  <2>6. \A x, y \in live' : x.fw = y.fw => x = y
    BY <2>1, <2>2, <2>3, InUseTyped DEF NumbersInv
  <2>7. NumbersInv'
    <3>1. \A k \in 1..MaxHooks : InUse(k)' => k <= calls'
      BY <1>1, <2>1, <2>5 DEF NumbersInv
    <3>2. \A u \in Threads : Calling(u)' => ~(InUse(num[u])')
      <4>1. \A u \in Threads : Calling(u)' =>
              Calling(u) /\ num[u] \in 1..MaxHooks /\ ~InUse(num[u]) /\ num[u] # n
        BY <1>1, <2>4, CallTyped DEF NumbersInv, n
      <4>2. \A u \in Threads : Calling(u)' => num'[u] = num[u]
        BY <1>1
      <4> QED
        BY <2>5, <4>1, <4>2
    <3>3. \A u, w \in Threads : Calling(u)' /\ Calling(w)' /\ num'[u] = num'[w] => u = w
      BY <1>1 DEF NumbersInv
    <3> QED
      BY <2>6, <3>1, <3>2, <3>3 DEF NumbersInv
  <2>8. ASSUME NEW own, OwnedBy(own)
        PROVE  OwnedBy(own)'
    <3>1. own[n] = Member(t)
      BY <1>1, <2>8 DEF OwnedBy, n
    <3>2. \A u \in Threads : Calling(u)' => Member(u)' = Member(u)
      BY <1>1 DEF Member
    <3>3. \A x \in live' : own[x.fw] = x.member
      BY <2>1, <2>2, <2>8, <3>1 DEF OwnedBy
    <3>4. \A h \in handles' : own[h.fw] = h.member
      BY <2>1, <2>2, <2>8, <3>1 DEF OwnedBy
    <3>5. \A m \in Members : \A o \in Range(previous'[m]) : own[o.fw] = m
      BY <2>2, <2>8 DEF OwnedBy
    <3>6. \A u \in Threads : Calling(u)' => own[num'[u]] = Member(u)'
      BY <1>1, <2>8, <3>2 DEF OwnedBy
    <3>7. \A u \in Threads : pc'[u] \in {"shift", "replace"} =>
            own[victim'[u]] = Member(u)'
      BY <1>2, <2>4, <2>8, <3>2 DEF OwnedBy, Calling
    <3> QED
      BY <3>3, <3>4, <3>5, <3>6, <3>7 DEF OwnedBy
  <2> QED
    BY <2>7, <2>8
<1> QED
  BY <1>4, <1>5, <1>6, <1>7, <1>8 DEF HookStep

LEMMA HookStartNumbers ==
  ASSUME TypeInv, TypeInv', NumbersInv, OwnerInv, NEW t \in Threads,
         NEW r \in Requests \cup {AttachRequest}, HookStart(t, r), sweep' = sweep
  PROVE  NumbersInv' /\ OwnerInv'
<1> DEFINE n == calls + 1
<1>1. /\ calls \in Nat /\ calls' = n /\ n \in 1..MaxHooks /\ ~Calling(t)
      /\ live' = live /\ handles' = handles /\ previous' = previous /\ victim' = victim
  BY DEF HookStart, TypeInv, HooksTyped, Calling
<1>2. /\ num'[t] = n /\ req'[t] = r /\ pc'[t] \notin {"idle", "shift", "replace"}
      /\ \A u \in Threads \ {t} : num'[u] = num[u] /\ req'[u] = req[u] /\ pc'[u] = pc[u]
  BY DEF HookStart, Goto, TypeInv, LocalsTyped
<1>3. pc[t] \notin {"shift", "replace"}
  BY <1>1 DEF Calling
<1>4. ASSUME NEW k \in 1..MaxHooks
      PROVE  InUse(k)' <=> InUse(k)
  BY <1>1, <1>2, <1>3 DEF InUse
<1>5. \A k \in 1..MaxHooks : InUse(k) => k <= calls
  BY DEF NumbersInv
<1>6. ~InUse(n)
  BY <1>1, <1>5
<1>7. \A u \in Threads : Calling(u) => num[u] \in 1..MaxHooks /\ num[u] <= calls /\ num[u] # n
  BY <1>1, CallTyped
<1> HIDE DEF n
<1>8. NumbersInv'
  <2>1. \A k \in 1..MaxHooks : InUse(k)' => k <= calls'
    <3>1. \A k \in 1..MaxHooks : k <= calls => k <= n
      BY <1>1 DEF n
    <3> QED
      BY <1>1, <1>4, <1>5, <3>1
  <2>2. \A u \in Threads : Calling(u)' => ~(InUse(num[u])')
    <3>1. \A u \in Threads : Calling(u)' =>
            num'[u] \in 1..MaxHooks /\ ~InUse(num'[u])
      BY <1>1, <1>2, <1>6, <1>7 DEF NumbersInv, Calling
    <3> QED
      BY <1>4, <3>1
  <2>3. \A u, w \in Threads : Calling(u)' /\ Calling(w)' /\ num'[u] = num'[w] => u = w
    BY <1>2, <1>7 DEF NumbersInv, Calling
  <2>4. \A x, y \in live' : x.fw = y.fw => x = y
    BY <1>1 DEF NumbersInv
  <2> QED
    BY <2>1, <2>2, <2>3, <2>4 DEF NumbersInv
<1>9. OwnerInv'
  <2>1. PICK own \in [1..MaxHooks -> Members] : OwnedBy(own)
    BY DEF OwnerInv
  <2>2. PICK now \in [1..MaxHooks -> Members] :
          /\ now[n] = r.member
          /\ \A k \in 1..MaxHooks : k # n => now[k] = own[k]
    <3> DEFINE f == [own EXCEPT ![n] = r.member]
    <3>1. r.member \in Members
      BY RequestsAssumption
    <3>2. f \in [1..MaxHooks -> Members] /\ f[n] = r.member
      BY <1>1, <3>1
    <3>3. \A k \in 1..MaxHooks : k # n => f[k] = own[k]
      BY <1>1
    <3> HIDE DEF f
    <3> QED
      BY <3>2, <3>3
  <2>5. \A k \in 1..MaxHooks : InUse(k) => now[k] = own[k]
    BY <1>6, <2>2
  <2>6. \A x \in live' : now[x.fw] = x.member
    BY <1>1, <2>1, <2>5, InUseTyped DEF OwnedBy
  <2>7. \A h \in handles' : now[h.fw] = h.member
    BY <1>1, <2>1, <2>5, InUseTyped DEF OwnedBy
  <2>8. \A m \in Members : \A o \in Range(previous'[m]) : now[o.fw] = m
    BY <1>1, <2>1, <2>5, InUseTyped DEF OwnedBy
  <2>9. \A u \in Threads : Calling(u)' => now[num'[u]] = Member(u)'
    <3>1. Member(t)' = r.member /\ \A u \in Threads \ {t} : Member(u)' = Member(u)
      BY <1>2 DEF Member
    <3>2. now[num'[t]] = Member(t)'
      BY <1>2, <2>2, <3>1
    <3>3. ASSUME NEW u \in Threads \ {t}, Calling(u)'
          PROVE  now[num'[u]] = Member(u)'
      <4>1. Calling(u) /\ num'[u] = num[u]
        BY <1>2, <3>3 DEF Calling
      <4>2. own[num[u]] = Member(u) /\ now[num[u]] = own[num[u]]
        BY <1>7, <2>1, <2>2, <4>1 DEF OwnedBy
      <4> QED
        BY <3>1, <4>1, <4>2
    <3> QED
      BY <3>2, <3>3
  <2>10. ASSUME NEW u \in Threads, pc'[u] \in {"shift", "replace"}
         PROVE  now[victim'[u]] = Member(u)'
    <3>1. u # t /\ pc[u] \in {"shift", "replace"} /\ victim'[u] = victim[u]
      BY <1>1, <1>2, <2>10
    <3>2. Member(u)' = Member(u)
      BY <1>2, <3>1 DEF Member
    <3>3. own[victim[u]] = Member(u) /\ now[victim[u]] = own[victim[u]]
      BY <2>1, <2>5, <3>1, InUseTyped DEF OwnedBy
    <3> QED
      BY <3>1, <3>2, <3>3
  <2>11. OwnedBy(now)'
    BY <2>6, <2>7, <2>8, <2>9, <2>10 DEF OwnedBy
  <2> QED
    BY <2>2, <2>11 DEF OwnerInv
<1> QED
  BY <1>8, <1>9

\* What a member's list has after onHotReloaded
LEMMA GroupedElements ==
  ASSUME TypeInv, NEW g \in Grouped, NEW m \in Members
  PROVE  \A o \in Range(g[m]) :
           o \in Old(m) /\ \E x \in live : x.member = m /\ x.fw = o.fw /\ x.ident = o.ident
<1>1. g[m] \in SetToSeqs(Old(m))
  BY GroupedOld
<1>2. Range(g[m]) \subseteq Old(m)
  BY <1>1 DEF SetToSeqs, Range
<1> QED
  BY <1>2 DEF Old

LEMMA StepNumbers ==
  TypeInv /\ TypeInv' /\ NumbersInv /\ OwnerInv /\ [Next]_vars => NumbersInv' /\ OwnerInv'
<1> SUFFICES ASSUME TypeInv, TypeInv', NumbersInv, OwnerInv, [Next]_vars
             PROVE  NumbersInv' /\ OwnerInv'
  OBVIOUS
<1>0. /\ Reloader \in Threads /\ AttachRequest \in Requests \cup {AttachRequest}
      /\ \A w \in Workers : w \in Threads
  BY DEF Threads
<1>1. ASSUME \A own : OwnedBy(own) => OwnedBy(own)'
      PROVE  OwnerInv'
  BY <1>1 DEF OwnerInv
<1>2. \A x, y \in live : x.fw = y.fw => x = y
  BY DEF NumbersInv
<1>3. ASSUME UNCHANGED <<hooking, previous, sweep>>
      PROVE  NumbersInv' /\ OwnerInv'
  BY <1>1, <1>2, <1>3, NothingNew DEF hooking, locals, Calling
<1>4. CASE PackageStep \/ UNCHANGED vars
  BY <1>3, <1>4 DEF PackageStep, vars
<1>5. CASE ModuleStep
  <2>0. sweep' = sweep
    BY <1>5 DEF ModuleStep
  <2>1. CASE \E t \in Threads, r \in Requests : HookStart(t, r)
    BY <2>0, <2>1, HookStartNumbers
  <2>2. CASE \E t \in Threads : HookStep(t)
    BY <1>1, <2>0, <2>2, HookStepNumbers
  <2>3. CASE \E h \in handles : Unhook(h)
    <3>1. live' \subseteq live /\ handles' \subseteq handles
          /\ UNCHANGED <<calls, locals, previous>>
      BY <2>3 DEF Unhook
    <3> QED
      BY <1>1, <1>2, <2>0, <3>1, NothingNew DEF locals, Calling
  <2> QED
    BY <1>0, <1>5, <2>1, <2>2, <2>3 DEF ModuleStep
<1>6. CASE ReloadStep
  <2>1. CASE Prepare
    BY <1>0, <2>1, HookStartNumbers DEF Prepare
  <2>2. CASE HotReloaded
    <3>1. UNCHANGED <<sweep, live, calls, locals>> /\ handles' = {} /\ previous' \in Grouped
      BY <2>2 DEF HotReloaded
    <3>2. \A m \in Members : \A o \in Range(previous'[m]) :
            \E x \in live : x.fw = o.fw /\ x.member = m
      BY <3>1, GroupedElements
    <3>3. /\ calls' = calls /\ live' = live /\ sweep' = sweep
          /\ pc' = pc /\ num' = num /\ req' = req /\ victim' = victim
      BY <3>1 DEF locals
    <3>4. \A t \in Threads : pc'[t] \notin {"shift", "replace"}
      BY <2>2, <3>3 DEF HotReloaded
    <3> QED
      BY <1>1, <1>2, <3>1, <3>2, <3>3, <3>4, NothingNew DEF Calling
  <2>7. CASE InitThrows
    <3>1. UNCHANGED <<sweep, live, calls, locals>> /\ handles' = {}
          /\ previous' = [m \in Members |-> <<>>]
      BY <2>7 DEF InitThrows
    <3>2. \A m \in Members : Range(previous'[m]) = {}
      BY <3>1 DEF Range
    <3>3. /\ calls' = calls /\ live' = live /\ sweep' = sweep
          /\ pc' = pc /\ num' = num /\ req' = req /\ victim' = victim
      BY <3>1 DEF locals
    <3>4. \A t \in Threads : pc'[t] \notin {"shift", "replace"}
      BY <2>7, <3>3 DEF InitThrows
    <3> QED
      BY <1>1, <1>2, <3>1, <3>2, <3>3, <3>4, NothingNew DEF Calling
  <2>3. CASE Flatten
    <3>1. UNCHANGED <<hooking, previous>> /\ sweep' = Leftovers
      BY <2>3 DEF Flatten
    <3>2. \A n \in sweep' : \E m \in Members : \E o \in Range(previous[m]) : o.fw = n
      BY <3>1 DEF Leftovers
    <3> QED
      BY <1>1, <1>2, <3>1, <3>2, NothingNew DEF hooking, locals, Calling
  <2>4. CASE \E fw \in sweep : UnhookOld(fw)
    <3>1. live' \subseteq live /\ sweep' \subseteq sweep
          /\ UNCHANGED <<calls, locals, previous, handles>>
      BY <2>4 DEF UnhookOld
    <3> QED
      BY <1>1, <1>2, <3>1, NothingNew DEF locals, Calling
  <2>5. CASE EndReload
    <3>1. UNCHANGED <<hooking, sweep>> /\ previous' = [m \in Members |-> <<>>]
      BY <2>5 DEF EndReload
    <3>2. \A m \in Members : Range(previous'[m]) = {}
      BY <3>1 DEF Range
    <3> QED
      BY <1>1, <1>2, <3>1, <3>2, NothingNew DEF hooking, locals, Calling
  <2>6. CASE \/ SavePackages \/ ClearPackages \/ Cleanup \/ ProcessLoaded
             \/ (\E p \in Packages : ReplayPackage(p)) \/ ModuleThrows \/ EndReplacing
    BY <1>3, <2>6 DEF SavePackages, ClearPackages, Cleanup, ProcessLoaded,
       ReplayPackage, ModuleThrows, EndReplacing, reloadUnchanged
  <2> QED
    BY <1>6, <2>1, <2>2, <2>3, <2>4, <2>5, <2>6, <2>7 DEF ReloadStep
<1> QED
  BY <1>4, <1>5, <1>6 DEF Next

LEMMA InitNumbers == Init => NumbersInv /\ OwnerInv
<1> SUFFICES ASSUME Init PROVE NumbersInv /\ OwnerInv
  OBVIOUS
<1>1. /\ live = {FirstHook} /\ handles = {FirstHook} /\ sweep = {} /\ calls = 1
      /\ \A t \in Threads : pc[t] = "idle"
      /\ \A m \in Members : previous[m] = <<>>
  BY DEF Init
<1>2. \A m \in Members : Range(previous[m]) = {}
  BY <1>1 DEF Range
<1>3. FirstHook.fw = 1 /\ FirstHook.member = AttachRequest.member
  BY DEF FirstHook
<1>4. NumbersInv
  BY <1>1, <1>2, <1>3 DEF NumbersInv, InUse, Calling
<1>5. OwnerInv
  <2> DEFINE own == [n \in 1..MaxHooks |-> AttachRequest.member]
  <2>1. own \in [1..MaxHooks -> Members] /\ own[1] = AttachRequest.member
    BY RequestsAssumption
  <2>2. OwnedBy(own)
    BY <1>1, <1>2, <1>3, <2>1 DEF OwnedBy, Calling
  <2> QED
    BY <2>1, <2>2 DEF OwnerInv
<1> QED
  BY <1>4, <1>5

LEMMA NumbersInvariance == Spec => [](TypeInv /\ NumbersInv /\ OwnerInv)
<1>1. Init => TypeInv /\ NumbersInv /\ OwnerInv
  BY InitTypeInv, InitNumbers
<1>2. TypeInv /\ NumbersInv /\ OwnerInv /\ [Next]_vars => (TypeInv /\ NumbersInv /\ OwnerInv)'
  BY StepTypeInv, StepNumbers
<1> QED
  BY <1>1, <1>2, PTL DEF Spec

----
\* The hooks of a member that two threads do not hook at once

In(t, m) == Calling(t) /\ Member(t) = m
HeldIn(n, m) == \E h \in handles : h.member = m /\ h.fw = n
LiveIn(n, m, i) == \E x \in live : x.member = m /\ x.fw = n /\ x.ident = i
ReplacedIn(n, m) == \E t \in Threads : In(t, m) /\ pc[t] = "replace" /\ victim[t] = n

\* What is still to be replaced is live, and no handle of the new code's.
ListOK(m) ==
  /\ \A i, j \in DOMAIN previous[m] : previous[m][i].fw = previous[m][j].fw => i = j
  /\ \A o \in Range(previous[m]) :
       /\ ~HeldIn(o.fw, m)
       /\ phase # "sweep" => LiveIn(o.fw, m, o.ident)

\* A handle stands for a live hook, which will not be unhooked as an old one; if
\* the hook is new, no old one of its identifier was left.
HandlesOK(m) ==
  \A h \in handles : h.member = m =>
    /\ h.fw \notin sweep
    /\ \E x \in live : /\ x.member = m /\ x.fw = h.fw
                       /\ x.by = h.by /\ x.ident = h.ident
    /\ \A g \in handles : g.member = m /\ g.fw = h.fw => g = h
    /\ hot /\ h.fw = h.by => \A o \in Range(previous[m]) : o.ident # h.ident

\* A live hook is the current code's, or will be replaced or unhooked.
LiveOK(m) ==
  \A x \in live : x.member = m =>
    \/ \E h \in handles : h.member = m /\ h.fw = x.fw /\ h.by = x.by /\ x.gen = gen
    \/ phase # "sweep" /\ \E o \in Range(previous[m]) : o.fw = x.fw
    \/ x.fw \in sweep
    \/ ReplacedIn(x.fw, m)

\* What a hook() call of the member has found is still there.
CallOK(t, m) ==
  /\ pc[t] \in Replacing => hot \/ phase = "flatten"
  /\ pc[t] = "remove" =>
       idx[t] \in DOMAIN previous[m] /\ previous[m][idx[t]].ident = Ident(t)
  /\ pc[t] = "shift" =>
       idx[t] \in DOMAIN previous[m] /\ previous[m][idx[t]].fw = victim[t]
  /\ pc[t] = "replace" => \A o \in Range(previous[m]) : o.fw # victim[t]
  /\ pc[t] \in {"shift", "replace"} =>
       LiveIn(victim[t], m, Ident(t)) /\ ~HeldIn(victim[t], m)
  /\ pc[t] = "create" /\ hot => \A o \in Range(previous[m]) : o.ident # Ident(t)

\* One thread replaces a hook of the member.
CallsOK(m) ==
  /\ \A t, u \in Threads :
       In(t, m) /\ In(u, m) /\ pc[t] \in Replacing /\ pc[u] \in Replacing => t = u
  /\ \A t \in Threads : In(t, m) => CallOK(t, m)

MemberOK(m) == ListOK(m) /\ HandlesOK(m) /\ LiveOK(m) /\ CallsOK(m)

\* Old hooks are remembered only during a reload that has handed over, or after
\* one that failed, and gathered only at its end.
OnlyInReload ==
  /\ phase # "sweep" => sweep = {}
  /\ ~hot /\ phase \notin {"flatten", "sweep"} => \A m \in Members : previous[m] = <<>>

\* Code whose init threw has no hooks and makes none.
Unstarted ==
  phase = "unstarted" => handles = {} /\ \A t \in Threads : pc[t] = "idle"

ReloadInv ==
  /\ OnlyInReload
  /\ Unstarted
  /\ phase # "unstarted" => \A m \in Members \ overlapped : MemberOK(m)

\* A step that leaves what concerns a member alone
SameMember(m) ==
  /\ previous'[m] = previous[m]
  /\ \A x \in live \cup live' : x.member = m => (x \in live <=> x \in live')
  /\ \A h \in handles \cup handles' : h.member = m => (h \in handles <=> h \in handles')
  /\ \A t \in Threads : In(t, m) <=> In(t, m)'
  /\ \A t \in Threads : In(t, m) => /\ pc'[t] = pc[t] /\ req'[t] = req[t]
                                    /\ idx'[t] = idx[t] /\ victim'[t] = victim[t]
  /\ sweep' = sweep /\ gen' = gen /\ hot' = hot
  /\ phase' = phase \/ {phase, phase'} \cap {"flatten", "sweep"} = {}

LEMMA KeepMember ==
  ASSUME NEW m \in Members, MemberOK(m), SameMember(m)
  PROVE  MemberOK(m)'
<1> USE DEF SameMember
<1>0. /\ phase' = "sweep" <=> phase = "sweep"
      /\ phase' = "flatten" <=> phase = "flatten"
  OBVIOUS
<1>1. \A n : HeldIn(n, m)' <=> HeldIn(n, m)
  BY DEF HeldIn
<1>2. \A n, i : LiveIn(n, m, i)' <=> LiveIn(n, m, i)
  BY DEF LiveIn
<1>3. \A n : ReplacedIn(n, m)' <=> ReplacedIn(n, m)
  BY DEF ReplacedIn
<1>4. ListOK(m)'
  BY <1>0, <1>1, <1>2 DEF MemberOK, ListOK
<1>5. HandlesOK(m)'
  BY DEF MemberOK, HandlesOK
<1>6. LiveOK(m)'
  BY <1>0, <1>3 DEF MemberOK, LiveOK
<1>7. CallsOK(m)'
  <2>1. \A t \in Threads : In(t, m) => Ident(t)' = Ident(t)
    BY DEF Ident
  <2> QED
    BY <1>0, <1>1, <1>2, <2>1 DEF MemberOK, CallsOK, CallOK
<1> QED
  BY <1>4, <1>5, <1>6, <1>7 DEF MemberOK

\* A step of a hook() call concerns its member alone.
LEMMA HookStepOthers ==
  ASSUME TypeInv, TypeInv', OwnerInv, NEW t \in Threads, HookStep(t),
         UNCHANGED <<gen, phase, hot, sweep>>,
         NEW m \in Members, m # Member(t)
  PROVE  SameMember(m)
<1>1. /\ Calling(t)
      /\ \A u \in Threads \ {t} : /\ pc'[u] = pc[u] /\ req'[u] = req[u]
                                  /\ idx'[u] = idx[u] /\ victim'[u] = victim[u]
      /\ Calling(t)' => req'[t] = req[t]
  BY OthersCall
<1>2. \A u \in Threads : In(u, m) <=> In(u, m)'
  <2>1. ~In(t, m) /\ ~In(t, m)'
    BY <1>1 DEF In, Member
  <2>2. \A u \in Threads \ {t} : In(u, m) <=> In(u, m)'
    BY <1>1 DEF In, Calling, Member
  <2> QED
    BY <2>1, <2>2
<1>3. \A u \in Threads : In(u, m) => u # t
  BY DEF In
<1>4. \A n : Call(t, n).member = Member(t)
  BY DEF Call
<1>5. CASE HookFind(t) \/ HookRemove(t)
  <2>1. live' = live /\ handles' = handles /\ previous' = previous
    BY <1>5 DEF HookFind, HookRemove
  <2> QED
    BY <1>1, <1>2, <1>3, <2>1 DEF SameMember
<1>6. CASE HookShift(t)
  <2>1. live' = live /\ handles' = handles /\ previous'[m] = previous[m]
    BY <1>6, ShiftRange DEF HookShift
  <2> QED
    BY <1>1, <1>2, <1>3, <2>1 DEF SameMember
<1>7. CASE HookReplace(t)
  <2>1. previous' = previous /\ handles' = handles \cup {Call(t, victim[t])}
    BY <1>7 DEF HookReplace
  <2>2. PICK own : OwnedBy(own)
    BY DEF OwnerInv
  <2>3. own[victim[t]] = Member(t)
    BY <1>7, <2>2 DEF OwnedBy, HookReplace
  <2>4. \A x \in live : x.member = m => x.fw # victim[t]
    BY <2>2, <2>3 DEF OwnedBy
  <2>5. \A x \in live \cup live' : x.member = m => (x \in live <=> x \in live')
    BY <1>7, <2>4, ReplaceLive
  <2> QED
    BY <1>1, <1>2, <1>3, <1>4, <2>1, <2>5 DEF SameMember
<1>8. CASE HookCreate(t)
  <2>1. /\ previous' = previous /\ handles' = handles \cup {Call(t, num[t])}
        /\ live' = live \cup {Call(t, num[t])}
    BY <1>8 DEF HookCreate
  <2> QED
    BY <1>1, <1>2, <1>3, <1>4, <2>1 DEF SameMember
<1> QED
  BY <1>5, <1>6, <1>7, <1>8 DEF HookStep

\* The threads of the member of t when t takes a step
LEMMA OwnMember ==
  ASSUME TypeInv, NEW t \in Threads, HookStep(t), NEW m \in Members, m = Member(t)
  PROVE  /\ In(t, m) /\ calls' = calls
         /\ \A u \in Threads : In(u, m)' => In(u, m) /\ Ident(u)' = Ident(u)
         /\ \A u \in Threads \ {t} :
              /\ In(u, m)' <=> In(u, m)
              /\ pc'[u] = pc[u] /\ idx'[u] = idx[u] /\ victim'[u] = victim[u]
<1>1. /\ calls' = calls /\ Calling(t)
      /\ \A u \in Threads \ {t} : /\ pc'[u] = pc[u] /\ req'[u] = req[u]
                                  /\ idx'[u] = idx[u] /\ victim'[u] = victim[u]
      /\ Calling(t)' => req'[t] = req[t]
  BY OthersCall
<1>2. \A u \in Threads : Calling(u)' => req'[u] = req[u] /\ Calling(u)
  BY <1>1 DEF Calling
<1> QED
  BY <1>1, <1>2 DEF In, Calling, Member, Ident

LEMMA HookFindMember ==
  ASSUME TypeInv, OnlyInReload, NEW t \in Threads, HookFind(t),
         UNCHANGED <<gen, phase, hot, sweep>>,
         NEW m \in Members, m = Member(t), MemberOK(m)
  PROVE  MemberOK(m)'
<1>1. /\ In(t, m)
      /\ \A u \in Threads : In(u, m)' => In(u, m) /\ Ident(u)' = Ident(u)
      /\ \A u \in Threads \ {t} :
           /\ In(u, m)' <=> In(u, m)
           /\ pc'[u] = pc[u] /\ idx'[u] = idx[u] /\ victim'[u] = victim[u]
  BY OwnMember DEF HookStep
<1>2. /\ live' = live /\ handles' = handles /\ previous' = previous
      /\ pc[t] = "find" /\ pc'[t] \in {"create", "remove"}
  BY DEF HookFind, Goto, TypeInv, LocalsTyped
<1>3. pc[t] \in Replacing /\ (hot \/ phase = "flatten")
  BY <1>1, <1>2 DEF MemberOK, CallsOK, CallOK, Replacing
<1>4. \A n, i : (LiveIn(n, m, i)' <=> LiveIn(n, m, i)) /\ (HeldIn(n, m)' <=> HeldIn(n, m))
  BY <1>2 DEF LiveIn, HeldIn
<1>5. \A n : ReplacedIn(n, m) => ReplacedIn(n, m)'
  BY <1>1, <1>2 DEF ReplacedIn
<1>6. ListOK(m)' /\ HandlesOK(m)' /\ LiveOK(m)'
  BY <1>2, <1>4, <1>5 DEF MemberOK, ListOK, HandlesOK, LiveOK
<1>7. pc'[t] = "remove" =>
        idx'[t] \in DOMAIN previous[m] /\ previous[m][idx'[t]].ident = Ident(t)
  <2>1. SUFFICES ASSUME pc'[t] = "remove"
                 PROVE  idx'[t] \in DOMAIN previous[m] /\ previous[m][idx'[t]].ident = Ident(t)
    OBVIOUS
  <2> DEFINE i == CHOOSE i \in Candidates(t) : \A j \in Candidates(t) : i <= j
  <2>2. Candidates(t) # {} /\ idx'[t] = i
    BY <2>1 DEF HookFind, Goto, TypeInv, LocalsTyped
  <2>3. Calling(t)
    BY <1>1 DEF In
  <2>4. i \in Candidates(t)
    BY <2>2, <2>3, FoundCandidate
  <2> HIDE DEF i
  <2>5. i \in DOMAIN previous[m] /\ previous[m][i] \in Range(previous[m])
    BY <2>3, <2>4, CandidatesInList
  <2>6. CASE Ident(t) # NoIdentifier
    BY <2>2, <2>4, <2>6 DEF Candidates
  <2>7. CASE Ident(t) = NoIdentifier
    <3>1. m \in Clinits
      BY <2>3, <2>7, CallTyped
    <3>2. LiveIn(previous[m][i].fw, m, previous[m][i].ident)
      BY <1>3, <2>5 DEF MemberOK, ListOK, TypeInv, PhaseInv
    <3>3. previous[m][i].ident = NoIdentifier
      BY <3>1, <3>2 DEF LiveIn, TypeInv, Unnamed
    <3> QED
      BY <2>2, <2>5, <2>7, <3>3
  <2> QED
    BY <2>6, <2>7
<1>8. pc'[t] = "create" => \A o \in Range(previous[m]) : o.ident # Ident(t)
  <2>1. SUFFICES ASSUME pc'[t] = "create"
                 PROVE  \A i \in DOMAIN previous[m] : previous[m][i].ident # Ident(t)
    BY DEF Range
  <2>2. Candidates(t) = {}
    BY <2>1 DEF HookFind, Goto, TypeInv, LocalsTyped
  <2>3. Calling(t)
    BY <1>1 DEF In
  <2>4. CASE Ident(t) # NoIdentifier
    BY <2>2, <2>4 DEF Candidates
  <2>5. CASE Ident(t) = NoIdentifier
    <3>1. Len(previous[m]) = 0
      BY <2>2, <2>5 DEF Candidates
    <3>2. DOMAIN previous[m] = {}
      BY <2>3, <3>1, CandidatesInList
    <3> QED
      BY <3>2
  <2> QED
    BY <2>4, <2>5
<1>9. CallsOK(m)'
  <2>1. \A u, w \in Threads :
          In(u, m)' /\ In(w, m)' /\ pc'[u] \in Replacing /\ pc'[w] \in Replacing => u = w
    BY <1>1, <1>3 DEF MemberOK, CallsOK
  <2>2. ASSUME NEW u \in Threads \ {t}, In(u, m)'
        PROVE  CallOK(u, m)'
    BY <1>1, <1>2, <1>4, <2>2 DEF MemberOK, CallsOK, CallOK
  <2>3. ASSUME In(t, m)'
        PROVE  CallOK(t, m)'
    <3>1. Ident(t)' = Ident(t)
      BY <1>1, <2>3
    <3> QED
      BY <1>2, <1>3, <1>4, <1>7, <1>8, <3>1 DEF CallOK
  <2> QED
    BY <2>1, <2>2, <2>3 DEF CallsOK
<1> QED
  BY <1>6, <1>9 DEF MemberOK

LEMMA HookRemoveMember ==
  ASSUME TypeInv, OnlyInReload, NEW t \in Threads, HookRemove(t),
         UNCHANGED <<gen, phase, hot, sweep>>,
         NEW m \in Members, m = Member(t), MemberOK(m)
  PROVE  MemberOK(m)'
<1>1. /\ In(t, m)
      /\ \A u \in Threads : In(u, m)' => In(u, m) /\ Ident(u)' = Ident(u)
      /\ \A u \in Threads \ {t} :
           /\ In(u, m)' <=> In(u, m)
           /\ pc'[u] = pc[u] /\ idx'[u] = idx[u] /\ victim'[u] = victim[u]
  BY OwnMember DEF HookStep
<1>2. live' = live /\ handles' = handles /\ previous' = previous /\ pc[t] = "remove"
  BY DEF HookRemove
<1>3. pc[t] \in Replacing /\ (hot \/ phase = "flatten")
  BY <1>1, <1>2 DEF MemberOK, CallsOK, CallOK, Replacing
<1>4. idx[t] \in DOMAIN previous[m] /\ previous[m][idx[t]].ident = Ident(t)
  BY <1>1, <1>2 DEF MemberOK, CallsOK, CallOK
<1>5. /\ pc'[t] = "shift" /\ idx'[t] = idx[t]
      /\ victim'[t] = previous[m][idx[t]].fw
  BY <1>4 DEF HookRemove, Goto, TypeInv, LocalsTyped
<1>6. \A n, i : (LiveIn(n, m, i)' <=> LiveIn(n, m, i)) /\ (HeldIn(n, m)' <=> HeldIn(n, m))
  BY <1>2 DEF LiveIn, HeldIn
<1>7. \A n : ReplacedIn(n, m) => ReplacedIn(n, m)'
  BY <1>1, <1>2 DEF ReplacedIn
<1>8. ListOK(m)' /\ HandlesOK(m)' /\ LiveOK(m)'
  BY <1>2, <1>6, <1>7 DEF MemberOK, ListOK, HandlesOK, LiveOK
<1>9. LiveIn(victim'[t], m, Ident(t)) /\ ~HeldIn(victim'[t], m)
  <2>1. previous[m][idx[t]] \in Range(previous[m])
    BY <1>4 DEF Range
  <2>2. phase # "sweep"
    BY <1>3 DEF TypeInv, PhaseInv
  <2> QED
    BY <1>4, <1>5, <2>1, <2>2 DEF MemberOK, ListOK
<1>10. CallsOK(m)'
  <2>1. \A u, w \in Threads :
          In(u, m)' /\ In(w, m)' /\ pc'[u] \in Replacing /\ pc'[w] \in Replacing => u = w
    BY <1>1, <1>3 DEF MemberOK, CallsOK
  <2>2. ASSUME NEW u \in Threads \ {t}, In(u, m)'
        PROVE  CallOK(u, m)'
    BY <1>1, <1>2, <1>6, <2>2 DEF MemberOK, CallsOK, CallOK
  <2>3. ASSUME In(t, m)'
        PROVE  CallOK(t, m)'
    <3>1. Ident(t)' = Ident(t)
      BY <1>1, <2>3
    <3> QED
      BY <1>2, <1>3, <1>4, <1>5, <1>6, <1>9, <3>1 DEF CallOK
  <2> QED
    BY <2>1, <2>2, <2>3 DEF CallsOK
<1> QED
  BY <1>8, <1>10 DEF MemberOK

\* The element that was read is the one that leaves the list.
LEMMA ShiftList ==
  ASSUME TypeInv, NEW t \in Threads, HookShift(t), NEW m \in Members, m = Member(t),
         ListOK(m), idx[t] \in DOMAIN previous[m], previous[m][idx[t]].fw = victim[t]
  PROVE  /\ pc'[t] = "replace" /\ victim'[t] = victim[t]
         /\ \A i, j \in DOMAIN previous'[m] :
              previous'[m][i].fw = previous'[m][j].fw => i = j
         /\ \A o \in Range(previous'[m]) : o \in Range(previous[m]) /\ o.fw # victim[t]
         /\ \A o \in Range(previous[m]) :
              o.fw = victim[t] \/ o \in Range(previous'[m])
<1> DEFINE s == previous[m]
           k == idx[t]
           r == RemoveAt(s, k)
<1>1. Calling(t)
  BY DEF HookShift, Calling
<1>2. s \in Seq(OldHook) /\ Len(s) \in Nat /\ DOMAIN s = 1..Len(s)
  BY ListTyped
<1>3. k \in 1..Len(s) /\ s # <<>>
  BY <1>2, EmptySeq
<1>4. previous' = [previous EXCEPT ![m] = r] /\ Goto(t, "replace") /\ UNCHANGED victim
  BY <1>3 DEF HookShift
<1>5. previous'[m] = r
  BY <1>4 DEF TypeInv, HooksTyped
<1>6. pc'[t] = "replace" /\ victim'[t] = victim[t]
  BY <1>4 DEF Goto, TypeInv, LocalsTyped
<1>7. \A i, j \in 1..Len(s) : s[i].fw = s[j].fw => i = j
  BY <1>2 DEF ListOK
<1>8. s[k].fw = victim[t]
  OBVIOUS
<1>9. /\ DOMAIN r = 1..(Len(s) - 1)
      /\ \A j \in 1..(Len(s) - 1) : r[j] = s[IF j < k THEN j ELSE j + 1]
  BY <1>2, <1>3, RemoveAtElements
<1> HIDE DEF s, k, r
<1>10. \A j \in 1..(Len(s) - 1) :
         (IF j < k THEN j ELSE j + 1) \in 1..Len(s) /\ (IF j < k THEN j ELSE j + 1) # k
  BY <1>2, <1>3
<1>11. \A i, j \in DOMAIN r : r[i].fw = r[j].fw => i = j
  <2>1. SUFFICES ASSUME NEW i \in 1..(Len(s) - 1), NEW j \in 1..(Len(s) - 1),
                        r[i].fw = r[j].fw
                 PROVE  i = j
    BY <1>9
  <2>2. (IF i < k THEN i ELSE i + 1) = (IF j < k THEN j ELSE j + 1)
    BY <1>7, <1>9, <1>10, <2>1
  <2> QED
    BY <1>2, <1>3, <2>2
<1>12. \A o \in Range(r) : o \in Range(s) /\ o.fw # victim[t]
  <2>1. SUFFICES ASSUME NEW j \in 1..(Len(s) - 1)
                 PROVE  r[j] \in Range(s) /\ r[j].fw # victim[t]
    BY <1>9 DEF Range
  <2> DEFINE i == IF j < k THEN j ELSE j + 1
  <2>2. r[j] = s[i] /\ i \in 1..Len(s) /\ i # k
    BY <1>9, <1>10
  <2> HIDE DEF i
  <2> QED
    BY <1>2, <1>3, <1>7, <1>8, <2>2 DEF Range
<1>13. \A o \in Range(s) : o.fw = victim[t] \/ o \in Range(r)
  <2>1. SUFFICES ASSUME NEW i \in 1..Len(s), i # k
                 PROVE  s[i] \in Range(r)
    BY <1>2, <1>8 DEF Range
  <2> DEFINE j == IF i < k THEN i ELSE i - 1
  <2>2. j \in 1..(Len(s) - 1) /\ (IF j < k THEN j ELSE j + 1) = i
    BY <1>2, <1>3, <2>1
  <2>3. r[j] = s[i]
    BY <1>9, <2>2
  <2> QED
    BY <1>9, <2>2, <2>3 DEF Range
<1> QED
  BY <1>5, <1>6, <1>11, <1>12, <1>13 DEF s

LEMMA HookShiftMember ==
  ASSUME TypeInv, OnlyInReload, NEW t \in Threads, HookShift(t),
         UNCHANGED <<gen, phase, hot, sweep>>,
         NEW m \in Members, m = Member(t), MemberOK(m)
  PROVE  MemberOK(m)'
<1>1. /\ In(t, m)
      /\ \A u \in Threads : In(u, m)' => In(u, m) /\ Ident(u)' = Ident(u)
      /\ \A u \in Threads \ {t} :
           /\ In(u, m)' <=> In(u, m)
           /\ pc'[u] = pc[u] /\ idx'[u] = idx[u] /\ victim'[u] = victim[u]
  BY OwnMember DEF HookStep
<1>2. live' = live /\ handles' = handles /\ pc[t] = "shift"
  BY DEF HookShift
<1>3. pc[t] \in Replacing /\ (hot \/ phase = "flatten")
  BY <1>1, <1>2 DEF MemberOK, CallsOK, CallOK, Replacing
<1>4. /\ idx[t] \in DOMAIN previous[m] /\ previous[m][idx[t]].fw = victim[t]
      /\ LiveIn(victim[t], m, Ident(t)) /\ ~HeldIn(victim[t], m)
  BY <1>1, <1>2 DEF MemberOK, CallsOK, CallOK
<1>5. /\ pc'[t] = "replace" /\ victim'[t] = victim[t]
      /\ \A i, j \in DOMAIN previous'[m] :
           previous'[m][i].fw = previous'[m][j].fw => i = j
      /\ \A o \in Range(previous'[m]) : o \in Range(previous[m]) /\ o.fw # victim[t]
      /\ \A o \in Range(previous[m]) : o.fw = victim[t] \/ o \in Range(previous'[m])
  BY <1>4, ShiftList DEF MemberOK
<1>6. \A n, i : (LiveIn(n, m, i)' <=> LiveIn(n, m, i)) /\ (HeldIn(n, m)' <=> HeldIn(n, m))
  BY <1>2 DEF LiveIn, HeldIn
<1>7. \A u \in Threads \ {t} : In(u, m) => pc[u] \notin Replacing
  BY <1>1, <1>3 DEF MemberOK, CallsOK
<1>8. In(t, m)'
  <2>1. Calling(t)'
    BY <1>5 DEF Calling
  <2>2. req'[t] = req[t]
    BY <2>1, OthersCall DEF HookStep
  <2> QED
    BY <1>1, <2>1, <2>2 DEF In, Member
<1>9. ListOK(m)'
  BY <1>5, <1>6 DEF MemberOK, ListOK
<1>10. HandlesOK(m)'
  BY <1>2, <1>5 DEF MemberOK, HandlesOK
<1>11. LiveOK(m)'
  <2>1. ReplacedIn(victim[t], m)'
    BY <1>5, <1>8 DEF ReplacedIn
  <2>2. \A n : ReplacedIn(n, m) => ReplacedIn(n, m)'
    BY <1>1, <1>2 DEF ReplacedIn
  <2> QED
    BY <1>2, <1>5, <2>1, <2>2 DEF MemberOK, LiveOK
<1>12. CallsOK(m)'
  <2>1. \A u, w \in Threads :
          In(u, m)' /\ In(w, m)' /\ pc'[u] \in Replacing /\ pc'[w] \in Replacing => u = w
    BY <1>1, <1>7
  <2>2. ASSUME NEW u \in Threads \ {t}, In(u, m)'
        PROVE  CallOK(u, m)'
    <3>1. In(u, m) /\ pc'[u] = pc[u] /\ pc[u] \notin Replacing /\ Ident(u)' = Ident(u)
      BY <1>1, <1>7, <2>2
    <3>2. pc[u] = "create" /\ hot => \A o \in Range(previous'[m]) : o.ident # Ident(u)
      BY <1>5, <3>1 DEF MemberOK, CallsOK, CallOK
    <3> QED
      BY <3>1, <3>2 DEF CallOK, Replacing
  <2>3. CallOK(t, m)'
    BY <1>1, <1>3, <1>4, <1>5, <1>6, <1>8 DEF CallOK
  <2> QED
    BY <2>1, <2>2, <2>3 DEF CallsOK
<1> QED
  BY <1>9, <1>10, <1>11, <1>12 DEF MemberOK

LEMMA HookReplaceMember ==
  ASSUME TypeInv, NumbersInv, OnlyInReload, NEW t \in Threads, HookReplace(t),
         UNCHANGED <<gen, phase, hot, sweep>>,
         NEW m \in Members, m = Member(t), MemberOK(m)
  PROVE  MemberOK(m)'
<1> DEFINE v == victim[t]
           c == Call(t, v)
<1>1. /\ In(t, m)
      /\ \A u \in Threads : In(u, m)' => In(u, m) /\ Ident(u)' = Ident(u)
      /\ \A u \in Threads \ {t} :
           /\ In(u, m)' <=> In(u, m)
           /\ pc'[u] = pc[u] /\ idx'[u] = idx[u] /\ victim'[u] = victim[u]
  BY OwnMember DEF HookStep
<1>2. /\ previous' = previous /\ handles' = handles \cup {c} /\ pc[t] = "replace"
      /\ pc'[t] = "idle"
  BY DEF HookReplace, Done, Goto, TypeInv, LocalsTyped
<1>3. /\ pc[t] \in Replacing /\ (hot \/ phase = "flatten")
      /\ \A o \in Range(previous[m]) : o.fw # v
      /\ LiveIn(v, m, Ident(t)) /\ ~HeldIn(v, m)
  BY <1>1, <1>2 DEF MemberOK, CallsOK, CallOK, Replacing
<1>4. sweep = {} /\ sweep' = {}
  BY <1>3 DEF OnlyInReload, TypeInv, PhaseInv
<1>5. /\ c.fw = v /\ c.by = num[t] /\ c.member = m /\ c.ident = Ident(t)
  BY DEF Call
<1>6. num[t] # v
  <2>1. ~InUse(num[t])
    BY <1>1 DEF NumbersInv, In
  <2>2. InUse(v)
    BY <1>2 DEF InUse
  <2> QED
    BY <2>1, <2>2
<1>7. ~(In(t, m)')
  BY <1>2 DEF In, Calling
<1>8. /\ \A x \in live' : \E y \in live :
           /\ x.fw = y.fw /\ x.member = y.member /\ x.ident = y.ident
           /\ x.fw # v => x = y
           /\ x.fw = v => x.by = num[t] /\ x.gen = gen
      /\ \A y \in live : \E x \in live' :
           /\ x.fw = y.fw /\ x.member = y.member /\ x.ident = y.ident
           /\ x.fw # v => x = y
           /\ x.fw = v => x.by = num[t] /\ x.gen = gen
  BY ReplaceLive
<1> HIDE DEF v, c
<1>9. \A n, i : LiveIn(n, m, i) => LiveIn(n, m, i)'
  BY <1>8 DEF LiveIn
<1>10. \A n : HeldIn(n, m)' <=> HeldIn(n, m) \/ n = v
  BY <1>2, <1>5 DEF HeldIn
<1>11. ListOK(m)'
  BY <1>2, <1>3, <1>9, <1>10 DEF MemberOK, ListOK
<1>12. HandlesOK(m)'
  <2>1. ASSUME NEW h \in handles, h.member = m
        PROVE  /\ h.fw \notin sweep' /\ h.fw # v
               /\ \E x \in live' : /\ x.member = m /\ x.fw = h.fw
                                   /\ x.by = h.by /\ x.ident = h.ident
               /\ \A g \in handles' : g.member = m /\ g.fw = h.fw => g = h
               /\ hot /\ h.fw = h.by => \A o \in Range(previous[m]) : o.ident # h.ident
    <3>1. h.fw # v
      BY <1>3, <2>1 DEF HeldIn
    <3>2. \E x \in live' : /\ x.member = m /\ x.fw = h.fw
                           /\ x.by = h.by /\ x.ident = h.ident
      BY <1>8, <2>1, <3>1 DEF MemberOK, HandlesOK
    <3>3. \A g \in handles' : g.member = m /\ g.fw = h.fw => g = h
      BY <1>2, <1>5, <2>1, <3>1 DEF MemberOK, HandlesOK
    <3>4. hot /\ h.fw = h.by => \A o \in Range(previous[m]) : o.ident # h.ident
      BY <2>1 DEF MemberOK, HandlesOK
    <3> QED
      BY <1>4, <3>1, <3>2, <3>3, <3>4
  <2>2. \E x \in live' : x.member = m /\ x.fw = v /\ x.by = num[t] /\ x.ident = Ident(t)
    BY <1>3, <1>8 DEF LiveIn
  <2>3. \A g \in handles' : g.member = m /\ g.fw = v => g = c
    BY <1>2, <1>3 DEF HeldIn
  <2>4. ASSUME NEW h \in handles', h.member = m
        PROVE  /\ h.fw \notin sweep'
               /\ \E x \in live' : /\ x.member = m /\ x.fw = h.fw
                                   /\ x.by = h.by /\ x.ident = h.ident
               /\ \A g \in handles' : g.member = m /\ g.fw = h.fw => g = h
               /\ hot /\ h.fw = h.by => \A o \in Range(previous[m]) : o.ident # h.ident
    <3>1. CASE h \in handles
      BY <2>1, <2>4, <3>1
    <3>2. CASE h = c
      BY <1>4, <1>5, <1>6, <2>2, <2>3, <3>2
    <3> QED
      BY <1>2, <3>1, <3>2
  <2> QED
    BY <1>2, <2>4 DEF HandlesOK
<1>13. LiveOK(m)'
  <2>1. ASSUME NEW x \in live', x.member = m, x.fw # v
        PROVE  \/ \E h \in handles' : h.member = m /\ h.fw = x.fw /\ h.by = x.by /\ x.gen = gen
               \/ phase # "sweep" /\ \E o \in Range(previous[m]) : o.fw = x.fw
               \/ x.fw \in sweep
               \/ ReplacedIn(x.fw, m)'
    <3>1. x \in live
      BY <1>8, <2>1
    <3>2. ReplacedIn(x.fw, m) => ReplacedIn(x.fw, m)'
      BY <1>1, <1>2, <2>1 DEF ReplacedIn, v
    <3> QED
      BY <1>2, <2>1, <3>1, <3>2 DEF MemberOK, LiveOK
  <2>2. ASSUME NEW x \in live', x.member = m, x.fw = v
        PROVE  \E h \in handles' : h.member = m /\ h.fw = x.fw /\ h.by = x.by /\ x.gen = gen
    BY <1>2, <1>5, <1>8, <2>2
  <2> QED
    BY <1>2, <2>1, <2>2 DEF LiveOK
<1>14. CallsOK(m)'
  <2>1. \A u, w \in Threads :
          In(u, m)' /\ In(w, m)' /\ pc'[u] \in Replacing /\ pc'[w] \in Replacing => u = w
    BY <1>1, <1>7 DEF MemberOK, CallsOK
  <2>2. ASSUME NEW u \in Threads, In(u, m)'
        PROVE  CallOK(u, m)'
    <3>1. /\ u # t /\ In(u, m) /\ pc'[u] = pc[u] /\ idx'[u] = idx[u]
          /\ victim'[u] = victim[u] /\ Ident(u)' = Ident(u)
      BY <1>1, <1>7, <2>2
    <3>2. pc[u] \notin Replacing
      BY <1>1, <1>3, <3>1 DEF MemberOK, CallsOK
    <3>3. pc[u] = "create" /\ hot => \A o \in Range(previous[m]) : o.ident # Ident(u)
      BY <3>1 DEF MemberOK, CallsOK, CallOK
    <3> QED
      BY <1>2, <3>1, <3>2, <3>3 DEF CallOK, Replacing
  <2> QED
    BY <2>1, <2>2 DEF CallsOK
<1> QED
  BY <1>11, <1>12, <1>13, <1>14 DEF MemberOK

LEMMA HookCreateMember ==
  ASSUME TypeInv, NumbersInv, OnlyInReload, NEW t \in Threads, HookCreate(t),
         UNCHANGED <<gen, phase, hot, sweep>>,
         NEW m \in Members, m = Member(t), MemberOK(m)
  PROVE  MemberOK(m)'
<1> DEFINE n == num[t]
           c == Call(t, n)
<1>1. /\ In(t, m)
      /\ \A u \in Threads : In(u, m)' => In(u, m) /\ Ident(u)' = Ident(u)
      /\ \A u \in Threads \ {t} :
           /\ In(u, m)' <=> In(u, m)
           /\ pc'[u] = pc[u] /\ idx'[u] = idx[u] /\ victim'[u] = victim[u]
  BY OwnMember DEF HookStep
<1>2. /\ previous' = previous /\ handles' = handles \cup {c} /\ live' = live \cup {c}
      /\ pc[t] = "create" /\ pc'[t] = "idle"
  BY DEF HookCreate, Done, Goto, TypeInv, LocalsTyped
<1>3. hot => \A o \in Range(previous[m]) : o.ident # Ident(t)
  BY <1>1, <1>2 DEF MemberOK, CallsOK, CallOK
<1>4. /\ c.fw = n /\ c.by = n /\ c.member = m /\ c.ident = Ident(t) /\ c.gen = gen
  BY DEF Call
<1>5. ~InUse(n)
  BY <1>1 DEF NumbersInv, In
<1>6. ~(In(t, m)')
  BY <1>2 DEF In, Calling
<1> HIDE DEF n, c
<1>7. /\ \A x \in live : x.fw # n
      /\ \A h \in handles : h.fw # n
      /\ \A o \in Range(previous[m]) : o.fw # n
      /\ n \notin sweep
      /\ \A u \in Threads : pc[u] \in {"shift", "replace"} => victim[u] # n
  BY <1>5 DEF InUse
<1>8. \A k, i : LiveIn(k, m, i) => LiveIn(k, m, i)'
  BY <1>2 DEF LiveIn
<1>9. \A k : HeldIn(k, m)' <=> HeldIn(k, m) \/ k = n
  BY <1>2, <1>4 DEF HeldIn
<1>10. ListOK(m)'
  BY <1>2, <1>7, <1>8, <1>9 DEF MemberOK, ListOK
<1>11. HandlesOK(m)'
  <2>1. ASSUME NEW h \in handles', h.member = m
        PROVE  /\ h.fw \notin sweep
               /\ \E x \in live' : /\ x.member = m /\ x.fw = h.fw
                                   /\ x.by = h.by /\ x.ident = h.ident
               /\ \A g \in handles' : g.member = m /\ g.fw = h.fw => g = h
               /\ hot /\ h.fw = h.by => \A o \in Range(previous[m]) : o.ident # h.ident
    <3>1. CASE h \in handles
      <4>1. \A g \in handles' : g.member = m /\ g.fw = h.fw => g = h
        BY <1>2, <1>4, <1>7, <2>1, <3>1 DEF MemberOK, HandlesOK
      <4> QED
        BY <1>2, <2>1, <3>1, <4>1 DEF MemberOK, HandlesOK
    <3>2. CASE h = c
      <4>1. \A g \in handles' : g.fw = h.fw => g = h
        BY <1>2, <1>4, <1>7, <3>2
      <4> QED
        BY <1>2, <1>3, <1>4, <1>7, <3>2, <4>1
    <3> QED
      BY <1>2, <2>1, <3>1, <3>2
  <2> QED
    BY <1>2, <2>1 DEF HandlesOK
<1>12. LiveOK(m)'
  <2>1. \A k : ReplacedIn(k, m) => ReplacedIn(k, m)'
    BY <1>1, <1>2 DEF ReplacedIn
  <2>2. ASSUME NEW x \in live', x.member = m
        PROVE  \/ \E h \in handles' : h.member = m /\ h.fw = x.fw /\ h.by = x.by /\ x.gen = gen
               \/ phase # "sweep" /\ \E o \in Range(previous[m]) : o.fw = x.fw
               \/ x.fw \in sweep
               \/ ReplacedIn(x.fw, m)'
    <3>1. CASE x \in live
      BY <1>2, <2>1, <2>2, <3>1 DEF MemberOK, LiveOK
    <3>2. CASE x = c
      BY <1>2, <1>4, <3>2
    <3> QED
      BY <1>2, <3>1, <3>2
  <2> QED
    BY <1>2, <2>2 DEF LiveOK
<1>13. CallsOK(m)'
  <2>1. \A u, w \in Threads :
          In(u, m)' /\ In(w, m)' /\ pc'[u] \in Replacing /\ pc'[w] \in Replacing => u = w
    BY <1>1, <1>6 DEF MemberOK, CallsOK
  <2>2. ASSUME NEW u \in Threads, In(u, m)'
        PROVE  CallOK(u, m)'
    <3>1. /\ u # t /\ In(u, m) /\ pc'[u] = pc[u] /\ idx'[u] = idx[u]
          /\ victim'[u] = victim[u] /\ Ident(u)' = Ident(u)
      BY <1>1, <1>6, <2>2
    <3>2. CallOK(u, m)
      BY <3>1 DEF MemberOK, CallsOK
    <3>3. pc[u] \in {"shift", "replace"} => ~HeldIn(victim[u], m)'
      BY <1>7, <1>9, <3>1, <3>2 DEF CallOK
    <3> QED
      BY <1>2, <1>8, <3>1, <3>2, <3>3 DEF CallOK
  <2> QED
    BY <2>1, <2>2 DEF CallsOK
<1> QED
  BY <1>10, <1>11, <1>12, <1>13 DEF MemberOK

LEMMA HookStepMember ==
  ASSUME TypeInv, TypeInv', NumbersInv, OwnerInv, ReloadInv, NEW t \in Threads, HookStep(t),
         UNCHANGED <<gen, phase, hot, sweep>>, phase # "unstarted",
         NEW m \in Members \ overlapped
  PROVE  MemberOK(m)'
<1>1. MemberOK(m) /\ OnlyInReload
  BY DEF ReloadInv
<1>2. CASE m # Member(t)
  BY <1>1, <1>2, HookStepOthers, KeepMember
<1>3. CASE m = Member(t)
  BY <1>1, <1>3, HookFindMember, HookRemoveMember, HookShiftMember, HookReplaceMember,
     HookCreateMember DEF HookStep
<1> QED
  BY <1>2, <1>3

\* A hook() call that begins on a member that another one replaces a hook of makes
\* the member one that two threads hook at once.
LEMMA HookStartMember ==
  ASSUME TypeInv, NEW t \in Threads, NEW r \in Requests \cup {AttachRequest},
         HookStart(t, r), UNCHANGED <<gen, hot, sweep>>,
         phase' = phase \/ {phase, phase'} \cap {"flatten", "sweep"} = {},
         NEW m \in Members, MemberOK(m), m \notin overlapped'
  PROVE  MemberOK(m)'
<1>1. /\ live' = live /\ handles' = handles /\ previous' = previous
      /\ idx' = idx /\ victim' = victim /\ ~Calling(t)
  BY DEF HookStart, Calling
<1>2. /\ req'[t] = r /\ pc'[t] = IF hot THEN "find" ELSE "create"
      /\ \A u \in Threads \ {t} : req'[u] = req[u] /\ pc'[u] = pc[u]
  BY DEF HookStart, Goto, TypeInv, LocalsTyped
<1>3. /\ \A u \in Threads \ {t} : In(u, m)' <=> In(u, m)
      /\ ~In(t, m)
      /\ In(t, m)' => r.member = m
  BY <1>1, <1>2 DEF In, Calling, Member
<1>4. CASE r.member # m
  <2>1. SameMember(m)
    <3>1. \A u \in Threads : In(u, m) <=> In(u, m)'
      BY <1>3, <1>4
    <3>2. \A u \in Threads : In(u, m) => pc'[u] = pc[u] /\ req'[u] = req[u]
      BY <1>2, <1>3
    <3> QED
      BY <1>1, <3>1, <3>2 DEF SameMember
  <2> QED
    BY <2>1, KeepMember
<1>5. CASE r.member = m
  <2>1. hot => \A u \in Threads \ {t} : In(u, m) => pc[u] \notin Replacing
    BY <1>5 DEF HookStart, In
  <2>2. /\ phase' = "sweep" <=> phase = "sweep"
        /\ phase' = "flatten" <=> phase = "flatten"
    OBVIOUS
  <2>3. \A n, i : (LiveIn(n, m, i)' <=> LiveIn(n, m, i)) /\ (HeldIn(n, m)' <=> HeldIn(n, m))
    BY <1>1 DEF LiveIn, HeldIn
  <2>4. \A n : ReplacedIn(n, m) => ReplacedIn(n, m)'
    BY <1>1, <1>2, <1>3 DEF ReplacedIn
  <2>5. ListOK(m)'
    BY <1>1, <2>2, <2>3 DEF MemberOK, ListOK
  <2>6. HandlesOK(m)'
    BY <1>1 DEF MemberOK, HandlesOK
  <2>7. LiveOK(m)'
    BY <1>1, <2>2, <2>4 DEF MemberOK, LiveOK
  <2>8. ASSUME NEW u \in Threads \ {t}, In(u, m)
        PROVE  CallOK(u, m)'
    <3>1. /\ pc'[u] = pc[u] /\ idx'[u] = idx[u] /\ victim'[u] = victim[u]
          /\ Ident(u)' = Ident(u)
      BY <1>1, <1>2 DEF Ident
    <3>2. CallOK(u, m)
      BY <2>8 DEF MemberOK, CallsOK
    <3> QED
      BY <1>1, <2>2, <2>3, <3>1, <3>2 DEF CallOK
  <2>9. CallOK(t, m)'
    <3>1. \/ pc'[t] = "find" /\ hot'
          \/ pc'[t] = "create" /\ ~hot'
      BY <1>2
    <3> QED
      BY <3>1 DEF CallOK, Replacing
  <2>10. \A u, w \in Threads :
           In(u, m)' /\ In(w, m)' /\ pc'[u] \in Replacing /\ pc'[w] \in Replacing => u = w
    <3>1. pc'[t] \in Replacing => hot
      BY <1>2 DEF Replacing
    <3> QED
      BY <1>2, <1>3, <2>1, <3>1 DEF MemberOK, CallsOK
  <2>11. CallsOK(m)'
    BY <1>3, <2>8, <2>9, <2>10 DEF CallsOK
  <2> QED
    BY <2>5, <2>6, <2>7, <2>11 DEF MemberOK
<1> QED
  BY <1>4, <1>5

LEMMA UnhookMember ==
  ASSUME TypeInv, OwnerInv, NEW h \in handles, Unhook(h),
         UNCHANGED <<gen, phase, hot, sweep>>, NEW m \in Members, MemberOK(m)
  PROVE  MemberOK(m)'
<1>1. /\ live' = {x \in live : x.fw # h.fw} /\ handles' = handles \ {h}
      /\ UNCHANGED <<previous, pc, req, num, idx, victim>>
  BY DEF Unhook, locals
<1>2. \A u \in Threads : (In(u, m)' <=> In(u, m)) /\ Ident(u)' = Ident(u)
  BY <1>1 DEF In, Calling, Member, Ident
<1>3. CASE h.member # m
  <2>1. PICK own : OwnedBy(own)
    BY DEF OwnerInv
  <2>2. \A x \in live : x.member = m => x.fw # h.fw
    BY <1>3, <2>1 DEF OwnedBy
  <2>3. SameMember(m)
    BY <1>1, <1>2, <1>3, <2>2 DEF SameMember
  <2> QED
    BY <2>3, KeepMember
<1>4. CASE h.member = m
  <2>1. \A n, i : LiveIn(n, m, i) /\ n # h.fw => LiveIn(n, m, i)'
    BY <1>1 DEF LiveIn
  <2>2. \A n : HeldIn(n, m)' => HeldIn(n, m)
    BY <1>1 DEF HeldIn
  <2>3. HeldIn(h.fw, m)
    BY <1>4 DEF HeldIn
  <2>4. \A n : ReplacedIn(n, m) => ReplacedIn(n, m)'
    BY <1>1, <1>2 DEF ReplacedIn
  <2>5. ListOK(m)'
    BY <1>1, <2>1, <2>2, <2>3 DEF MemberOK, ListOK
  <2>6. HandlesOK(m)'
    <3>1. \A g \in handles' : g.member = m => g \in handles /\ g.fw # h.fw
      BY <1>1, <1>4 DEF MemberOK, HandlesOK
    <3> QED
      BY <1>1, <3>1 DEF MemberOK, HandlesOK
  <2>7. LiveOK(m)'
    BY <1>1, <2>4 DEF MemberOK, LiveOK
  <2>8. ASSUME NEW u \in Threads, In(u, m)
        PROVE  CallOK(u, m)'
    <3>1. CallOK(u, m)
      BY <2>8 DEF MemberOK, CallsOK
    <3>2. pc[u] \in {"shift", "replace"} => victim[u] # h.fw
      BY <2>3, <3>1 DEF CallOK
    <3> QED
      BY <1>1, <1>2, <2>1, <2>2, <3>1, <3>2 DEF CallOK
  <2>9. CallsOK(m)'
    BY <1>1, <1>2, <2>8 DEF MemberOK, CallsOK
  <2> QED
    BY <2>5, <2>6, <2>7, <2>9 DEF MemberOK
<1> QED
  BY <1>3, <1>4

----
\* The steps of a reload

\* No two old hooks of a member have one number, so there are finitely many ...
LEMMA OldFinite ==
  ASSUME TypeInv, NumbersInv, NEW m \in Members
  PROVE  /\ IsFiniteSet(Old(m)) /\ Old(m) \subseteq OldHook
         /\ \A o, p \in Old(m) : o.fw = p.fw => o = p
<1>1. \A x, y \in live : x.fw = y.fw => x = y
  BY DEF NumbersInv
<1>2. \A o \in Old(m) : \E x \in live : o = [fw |-> x.fw, ident |-> x.ident]
  BY DEF Old
<1>3. \A o, p \in Old(m) : o.fw = p.fw => o = p
  BY <1>1, <1>2
<1>4. Old(m) \subseteq OldHook
  BY <1>2 DEF OldHook, LiveHook, TypeInv, HooksTyped
<1> DEFINE f == [o \in Old(m) |-> o.fw]
<1>5. \A o \in Old(m) : o.fw \in 1..MaxHooks
  BY <1>4 DEF OldHook
<1>6. f \in Injection(Old(m), 1..MaxHooks)
  BY <1>3, <1>5 DEF Injection, IsInjective
<1>7. IsFiniteSet(1..MaxHooks)
  BY FS_Interval
<1>8. IsFiniteSet(Old(m))
  BY <1>6, <1>7, FS_Injection
<1> QED
  BY <1>3, <1>4, <1>8

\* ... and the list of the member has each of them once.
LEMMA GroupedAll ==
  ASSUME TypeInv, NumbersInv, NEW g \in Grouped, NEW m \in Members
  PROVE  /\ Range(g[m]) = Old(m)
         /\ \A i, j \in DOMAIN g[m] : g[m][i].fw = g[m][j].fw => i = j
<1> DEFINE s == g[m]
           D == 1..Cardinality(Old(m))
<1>1. s \in SetToSeqs(Old(m))
  BY GroupedOld
<1>2. s \in [D -> Old(m)] /\ \A i, j \in D : i # j => s[i] # s[j]
  BY <1>1 DEF SetToSeqs
<1>3. IsFiniteSet(Old(m)) /\ \A o, p \in Old(m) : o.fw = p.fw => o = p
  BY OldFinite
<1>4. Cardinality(Old(m)) \in Nat
  BY <1>3, FS_CardinalityType
<1>5. Cardinality(D) = Cardinality(Old(m))
  BY <1>4, FS_Interval
<1> HIDE DEF s, D
<1>6. s \in Injection(D, Old(m))
  BY <1>2 DEF Injection, IsInjective
<1>7. s \in Surjection(D, Old(m))
  BY <1>3, <1>5, <1>6, FS_Injection
<1>8. Range(s) = Old(m)
  BY <1>2, <1>7 DEF Surjection, Range
<1>9. \A i, j \in DOMAIN s : s[i].fw = s[j].fw => i = j
  BY <1>2, <1>3
<1> QED
  BY <1>8, <1>9 DEF s

LEMMA HotReloadedMember ==
  ASSUME TypeInv, NumbersInv, OnlyInReload, HotReloaded, NEW m \in Members
  PROVE  MemberOK(m)'
<1>1. /\ \A t \in Threads : ~In(t, m) /\ ~In(t, m)'
      /\ live' = live /\ handles' = {} /\ sweep' = {} /\ phase' = "prepare"
  BY DEF HotReloaded, locals, In, Calling, OnlyInReload
<1>2. /\ Range(previous'[m]) = Old(m)
      /\ \A i, j \in DOMAIN previous'[m] : previous'[m][i].fw = previous'[m][j].fw => i = j
  <2>1. previous' \in Grouped
    BY DEF HotReloaded
  <2>2. \A g \in Grouped :
          /\ Range(g[m]) = Old(m)
          /\ \A i, j \in DOMAIN g[m] : g[m][i].fw = g[m][j].fw => i = j
    BY GroupedAll
  <2> QED
    BY <2>1, <2>2
<1>3. \A o \in Old(m) : \E x \in live : x.member = m /\ x.fw = o.fw /\ x.ident = o.ident
  BY DEF Old
<1>4. ASSUME NEW x \in live, x.member = m
      PROVE  \E o \in Old(m) : o.fw = x.fw
  <2>1. [fw |-> x.fw, ident |-> x.ident] \in Old(m)
    BY <1>4 DEF Old
  <2>2. [fw |-> x.fw, ident |-> x.ident].fw = x.fw
    OBVIOUS
  <2> QED
    BY <2>1, <2>2
<1>5. ListOK(m)'
  BY <1>1, <1>2, <1>3 DEF ListOK, LiveIn, HeldIn
<1>6. HandlesOK(m)'
  BY <1>1 DEF HandlesOK
<1>7. LiveOK(m)'
  BY <1>1, <1>2, <1>4 DEF LiveOK
<1>8. CallsOK(m)'
  BY <1>1 DEF CallsOK
<1> QED
  BY <1>5, <1>6, <1>7, <1>8 DEF MemberOK

\* A step that leaves the hooks and the calls alone
LEMMA SameCalls ==
  ASSUME UNCHANGED hooking, NEW m
  PROVE  /\ \A t \in Threads : (In(t, m)' <=> In(t, m)) /\ Ident(t)' = Ident(t)
         /\ pc' = pc /\ idx' = idx /\ victim' = victim /\ live' = live /\ handles' = handles
         /\ \A n, i : (LiveIn(n, m, i)' <=> LiveIn(n, m, i)) /\ (HeldIn(n, m)' <=> HeldIn(n, m))
         /\ \A n : ReplacedIn(n, m)' <=> ReplacedIn(n, m)
<1>1. UNCHANGED <<pc, req, num, idx, victim, live, handles>>
  BY DEF hooking, locals
<1> QED
  BY <1>1 DEF In, Calling, Member, Ident, LiveIn, HeldIn, ReplacedIn

LEMMA EndReplacingMember ==
  ASSUME TypeInv, EndReplacing, NEW m \in Members, MemberOK(m)
  PROVE  MemberOK(m)'
<1>1. /\ UNCHANGED <<hooking, previous, sweep, gen>>
      /\ hot' = FALSE /\ phase = "packages" /\ phase' = "flatten"
  BY DEF EndReplacing, reloadUnchanged
<1>2. ListOK(m)' /\ HandlesOK(m)' /\ LiveOK(m)'
  BY <1>1, SameCalls DEF MemberOK, ListOK, HandlesOK, LiveOK
<1>3. CallsOK(m)'
  BY <1>1, SameCalls DEF MemberOK, CallsOK, CallOK
<1> QED
  BY <1>2, <1>3 DEF MemberOK

LEMMA FlattenMember ==
  ASSUME TypeInv, OwnerInv, OnlyInReload, Flatten, NEW m \in Members, MemberOK(m),
         m \notin overlapped'
  PROVE  MemberOK(m)'
<1>1. /\ UNCHANGED <<hooking, previous, gen, hot>> /\ sweep' = Leftovers
      /\ phase = "flatten" /\ phase' = "sweep"
  BY DEF Flatten
<1>2. ~hot
  BY <1>1 DEF TypeInv, PhaseInv
<1>3. \A t \in Threads : In(t, m) => pc[t] \notin Replacing
  BY DEF Flatten, In
<1>4. \A h \in handles : h.member = m => h.fw \notin sweep'
  <2>1. PICK own : OwnedBy(own)
    BY DEF OwnerInv
  <2>2. ASSUME NEW h \in handles, h.member = m, NEW n \in Members,
               NEW o \in Range(previous[n]), o.fw = h.fw
        PROVE  FALSE
    <3>1. n = m
      BY <2>1, <2>2 DEF OwnedBy
    <3> QED
      BY <2>2, <3>1 DEF MemberOK, ListOK, HeldIn
  <2> QED
    BY <1>1, <2>2 DEF Leftovers
<1>5. \A o \in Range(previous[m]) : o.fw \in sweep'
  BY <1>1 DEF Leftovers
<1>6. \A n : ~ReplacedIn(n, m)
  BY <1>3 DEF ReplacedIn, Replacing
<1>7. ListOK(m)'
  BY <1>1, SameCalls DEF MemberOK, ListOK
<1>8. HandlesOK(m)'
  BY <1>1, <1>4, SameCalls DEF MemberOK, HandlesOK
<1>9. LiveOK(m)'
  <2>1. ASSUME NEW x \in live, x.member = m
        PROVE  \/ \E h \in handles : h.member = m /\ h.fw = x.fw /\ h.by = x.by /\ x.gen = gen
               \/ x.fw \in sweep'
    <3>1. x.fw \notin sweep
      BY <1>1 DEF OnlyInReload
    <3> QED
      BY <1>5, <1>6, <2>1, <3>1 DEF MemberOK, LiveOK
  <2> QED
    BY <1>1, <2>1, SameCalls DEF LiveOK
<1>10. CallsOK(m)'
  <2>1. \A t \in Threads : In(t, m) => CallOK(t, m)'
    BY <1>1, <1>2, <1>3, SameCalls DEF CallOK, Replacing
  <2> QED
    BY <1>1, <1>3, <2>1, SameCalls DEF CallsOK
<1> QED
  BY <1>7, <1>8, <1>9, <1>10 DEF MemberOK

LEMMA UnhookOldMember ==
  ASSUME TypeInv, NEW fw \in sweep, UnhookOld(fw), NEW m \in Members, MemberOK(m)
  PROVE  MemberOK(m)'
<1>1. /\ UNCHANGED <<previous, handles, pc, req, num, idx, victim, gen, hot>>
      /\ phase = "sweep" /\ phase' = "sweep"
      /\ sweep' = sweep \ {fw} /\ live' = {x \in live : x.fw # fw}
  BY DEF UnhookOld, locals
<1>2. \A t \in Threads : (In(t, m)' <=> In(t, m)) /\ Ident(t)' = Ident(t)
  BY <1>1 DEF In, Calling, Member, Ident
<1>3. \A t \in Threads : In(t, m) => pc[t] \notin Replacing
  BY <1>1 DEF MemberOK, CallsOK, CallOK, TypeInv, PhaseInv
<1>4. \A n : HeldIn(n, m)' <=> HeldIn(n, m)
  BY <1>1 DEF HeldIn
<1>5. \A n : ~ReplacedIn(n, m)
  BY <1>3 DEF ReplacedIn, Replacing
<1>6. ListOK(m)'
  BY <1>1, <1>4 DEF MemberOK, ListOK
<1>7. HandlesOK(m)'
  BY <1>1 DEF MemberOK, HandlesOK
<1>8. LiveOK(m)'
  BY <1>1, <1>5 DEF MemberOK, LiveOK
<1>9. CallsOK(m)'
  <2>1. \A t \in Threads : In(t, m) => CallOK(t, m)'
    BY <1>1, <1>2, <1>3 DEF CallOK, MemberOK, CallsOK, Replacing
  <2> QED
    BY <1>1, <1>2, <1>3, <2>1 DEF CallsOK
<1> QED
  BY <1>6, <1>7, <1>8, <1>9 DEF MemberOK

LEMMA EndReloadMember ==
  ASSUME TypeInv, EndReload, NEW m \in Members, MemberOK(m)
  PROVE  MemberOK(m)'
<1>1. /\ UNCHANGED <<hooking, sweep, gen, hot>> /\ sweep = {}
      /\ phase = "sweep" /\ phase' = "running" /\ previous' = [k \in Members |-> <<>>]
  BY DEF EndReload
<1>2. Range(previous'[m]) = {} /\ DOMAIN previous'[m] = {}
  BY <1>1 DEF Range
<1>3. \A t \in Threads : In(t, m) => pc[t] \notin Replacing
  BY <1>1 DEF MemberOK, CallsOK, CallOK, TypeInv, PhaseInv
<1>4. \A n : ~ReplacedIn(n, m)
  BY <1>3 DEF ReplacedIn, Replacing
<1>5. ListOK(m)'
  BY <1>2 DEF ListOK
<1>6. HandlesOK(m)'
  BY <1>1, <1>2, SameCalls DEF MemberOK, HandlesOK
<1>7. LiveOK(m)'
  BY <1>1, <1>4, SameCalls DEF MemberOK, LiveOK
<1>8. CallsOK(m)'
  <2>1. \A t \in Threads : In(t, m) => CallOK(t, m)'
    BY <1>1, <1>2, <1>3, SameCalls DEF CallOK, Replacing
  <2> QED
    BY <1>1, <1>3, <2>1, SameCalls DEF CallsOK
<1> QED
  BY <1>5, <1>6, <1>7, <1>8 DEF MemberOK

\* The other steps
LEMMA QuietMember ==
  ASSUME UNCHANGED <<gen, hot, previous, sweep, hooking>>,
         phase' = phase \/ {phase, phase'} \cap {"flatten", "sweep"} = {},
         NEW m \in Members, MemberOK(m)
  PROVE  MemberOK(m)'
<1>1. SameMember(m)
  <2>1. UNCHANGED <<pc, req, idx, victim, live, handles>>
    BY DEF hooking, locals
  <2> QED
    BY <2>1, SameCalls DEF SameMember
<1> QED
  BY <1>1, KeepMember

LEMMA StepOnlyInReload ==
  TypeInv /\ OnlyInReload /\ [Next]_vars => OnlyInReload'
<1> SUFFICES ASSUME TypeInv, OnlyInReload, [Next]_vars PROVE OnlyInReload'
  OBVIOUS
<1> USE DEF OnlyInReload
<1>1. CASE UNCHANGED <<phase, hot, sweep, previous>>
  BY <1>1
<1>2. CASE PackageStep \/ UNCHANGED vars
  BY <1>1, <1>2 DEF PackageStep, vars
<1>3. CASE ModuleStep
  <2>1. UNCHANGED <<phase, hot, sweep>>
    BY <1>3 DEF ModuleStep
  <2>2. CASE previous' = previous
    BY <1>1, <2>1, <2>2
  <2>3. CASE previous' # previous
    <3>1. PICK t \in Threads : HookShift(t)
      BY <1>3, <2>3 DEF ModuleStep, HookStart, HookStep, HookFind, HookRemove, HookReplace,
         HookCreate, Unhook
    <3>2. Calling(t) /\ Member(t) \in Members
      BY <3>1, CallTyped DEF HookShift, Calling
    <3>3. previous[Member(t)] # <<>>
      BY <2>3, <3>1 DEF HookShift
    <3> QED
      BY <2>1, <3>2, <3>3
  <2> QED
    BY <2>2, <2>3
<1>4. CASE ReloadStep
  <2>1. CASE SavePackages
    BY <2>1 DEF SavePackages, reloadUnchanged
  <2>2. CASE ClearPackages
    BY <2>2 DEF ClearPackages, reloadUnchanged
  <2>3. CASE Cleanup
    BY <2>3 DEF Cleanup, reloadUnchanged
  <2>4. CASE HotReloaded
    BY <2>4 DEF HotReloaded
  <2>5. CASE Prepare
    BY <2>5 DEF Prepare, HookStart
  <2>6. CASE ProcessLoaded
    BY <2>6 DEF ProcessLoaded, reloadUnchanged
  <2>7. CASE \E p \in Packages : ReplayPackage(p)
    BY <2>7 DEF ReplayPackage, reloadUnchanged
  <2>8. CASE ModuleThrows
    BY <2>8 DEF ModuleThrows, reloadUnchanged
  <2>9. CASE EndReplacing
    BY <2>9 DEF EndReplacing, reloadUnchanged
  <2>10. CASE Flatten
    BY <2>10 DEF Flatten
  <2>11. CASE \E fw \in sweep : UnhookOld(fw)
    BY <2>11 DEF UnhookOld
  <2>12. CASE EndReload
    BY <2>12 DEF EndReload
  <2>13. CASE InitThrows
    BY <2>13 DEF InitThrows
  <2> QED
    BY <1>4, <2>1, <2>2, <2>3, <2>4, <2>5, <2>6, <2>7, <2>8, <2>9, <2>10, <2>11, <2>12,
       <2>13 DEF ReloadStep
<1> QED
  BY <1>2, <1>3, <1>4 DEF Next

\* No step leads out of "unstarted", and only InitThrows there.
LEMMA StepUnstarted ==
  ASSUME TypeInv, OnlyInReload, Unstarted, [Next]_vars
  PROVE  Unstarted' /\ (phase = "unstarted" => phase' = "unstarted")
<1>1. CASE ReloadStep
  BY <1>1 DEF Unstarted, OnlyInReload, ReloadStep, SavePackages, ClearPackages, Cleanup,
     HotReloaded, InitThrows, Prepare, ProcessLoaded, ReplayPackage, ModuleThrows,
     EndReplacing, Flatten, UnhookOld, EndReload, locals
<1>2. CASE ModuleStep
  <2>1. phase' = phase
    BY <1>2 DEF ModuleStep
  <2>2. phase # "unstarted"
    BY <1>2 DEF ModuleStep, Unstarted, HookStep, HookFind, HookRemove, HookShift,
       HookReplace, HookCreate, Unhook
  <2> QED
    BY <2>1, <2>2 DEF Unstarted
<1>3. CASE PackageStep \/ UNCHANGED vars
  BY <1>3 DEF Unstarted, PackageStep, vars, hooking, locals
<1> QED
  BY <1>1, <1>2, <1>3 DEF Next

LEMMA StepMembers ==
  ASSUME TypeInv, TypeInv', NumbersInv, OwnerInv, ReloadInv, [Next]_vars,
         phase' # "unstarted", NEW m \in Members, m \notin overlapped'
  PROVE  MemberOK(m)'
<1>0. /\ Reloader \in Threads /\ AttachRequest \in Requests \cup {AttachRequest}
      /\ \A w \in Workers : w \in Threads
  BY DEF Threads
<1>1. CASE HotReloaded
  BY <1>1, HotReloadedMember DEF ReloadInv
<1>2. CASE ~HotReloaded
  <2>0. ~InitThrows /\ phase # "unstarted"
    BY StepUnstarted DEF ReloadInv, InitThrows
  <2>1. overlapped \subseteq overlapped'
    BY <1>2, <2>0 DEF Next, ModuleStep, HookStart, HookStep, HookFind, HookRemove, HookShift,
       HookReplace, HookCreate, Unhook, PackageStep, ReloadStep, SavePackages,
       ClearPackages, Cleanup, Prepare, ProcessLoaded, ReplayPackage, ModuleThrows,
       EndReplacing, Flatten, UnhookOld, EndReload, reloadUnchanged, vars
  <2>2. MemberOK(m) /\ OnlyInReload /\ m \in Members \ overlapped
    BY <2>0, <2>1 DEF ReloadInv
  <2>3. CASE PackageStep \/ UNCHANGED vars
    BY <2>2, <2>3, QuietMember DEF PackageStep, vars
  <2>4. CASE ModuleStep
    <3>0. UNCHANGED <<gen, phase, hot, sweep>>
      BY <2>4 DEF ModuleStep
    <3>1. CASE \E t \in Threads, r \in Requests : HookStart(t, r)
      BY <2>2, <3>0, <3>1, HookStartMember
    <3>2. CASE \E t \in Threads : HookStep(t)
      BY <2>0, <2>2, <3>0, <3>2, HookStepMember
    <3>3. CASE \E h \in handles : Unhook(h)
      BY <2>2, <3>0, <3>3, UnhookMember
    <3> QED
      BY <1>0, <2>4, <3>1, <3>2, <3>3 DEF ModuleStep
  <2>5. CASE ReloadStep
    <3>1. CASE Prepare
      <4>1. /\ HookStart(Reloader, AttachRequest) /\ UNCHANGED <<gen, hot, sweep>>
            /\ {phase, phase'} \cap {"flatten", "sweep"} = {}
        BY <3>1 DEF Prepare
      <4> QED
        BY <1>0, <2>2, <4>1, HookStartMember
    <3>2. CASE EndReplacing
      BY <2>2, <3>2, EndReplacingMember
    <3>3. CASE Flatten
      BY <2>2, <3>3, FlattenMember
    <3>4. CASE \E fw \in sweep : UnhookOld(fw)
      BY <2>2, <3>4, UnhookOldMember
    <3>5. CASE EndReload
      BY <2>2, <3>5, EndReloadMember
    <3>6. CASE \/ SavePackages \/ ClearPackages \/ Cleanup \/ ProcessLoaded
               \/ (\E p \in Packages : ReplayPackage(p)) \/ ModuleThrows
      <4>1. /\ UNCHANGED <<gen, hot, previous, sweep, hooking>>
            /\ {phase, phase'} \cap {"flatten", "sweep"} = {}
        BY <3>6 DEF SavePackages, ClearPackages, Cleanup, ProcessLoaded, ReplayPackage,
           ModuleThrows, reloadUnchanged
      <4> QED
        BY <2>2, <4>1, QuietMember
    <3> QED
      BY <1>2, <2>0, <2>5, <3>1, <3>2, <3>3, <3>4, <3>5, <3>6 DEF ReloadStep
  <2> QED
    BY <2>3, <2>4, <2>5 DEF Next
<1> QED
  BY <1>1, <1>2

LEMMA StepReload ==
  TypeInv /\ TypeInv' /\ NumbersInv /\ OwnerInv /\ ReloadInv /\ [Next]_vars => ReloadInv'
<1> SUFFICES ASSUME TypeInv, TypeInv', NumbersInv, OwnerInv, ReloadInv, [Next]_vars
             PROVE  ReloadInv'
  OBVIOUS
<1>1. OnlyInReload'
  BY StepOnlyInReload DEF ReloadInv
<1>2. phase' # "unstarted" => \A m \in Members : m \notin overlapped' => MemberOK(m)'
  BY StepMembers
<1>3. Unstarted'
  BY StepUnstarted DEF ReloadInv
<1> QED
  BY <1>1, <1>2, <1>3 DEF ReloadInv

LEMMA InitReload == Init => ReloadInv
<1> SUFFICES ASSUME Init PROVE ReloadInv
  OBVIOUS
<1>1. /\ live = {FirstHook} /\ handles = {FirstHook} /\ sweep = {} /\ hot = FALSE /\ gen = 0
      /\ \A t \in Threads : pc[t] = "idle"
      /\ \A m \in Members : previous[m] = <<>>
      /\ phase = "running"
  BY DEF Init
<1>2. \A m \in Members : Range(previous[m]) = {} /\ DOMAIN previous[m] = {}
  BY <1>1 DEF Range
<1>3. FirstHook.fw = 1 /\ FirstHook.by = 1 /\ FirstHook.gen = 0
  BY DEF FirstHook
<1>4. OnlyInReload
  BY <1>1 DEF OnlyInReload
<1>5. ASSUME NEW m \in Members
      PROVE  MemberOK(m)
  <2>1. ListOK(m)
    BY <1>2 DEF ListOK
  <2>2. HandlesOK(m)
    BY <1>1 DEF HandlesOK
  <2>3. LiveOK(m)
    BY <1>1, <1>3 DEF LiveOK
  <2>4. CallsOK(m)
    BY <1>1 DEF CallsOK, In, Calling
  <2> QED
    BY <2>1, <2>2, <2>3, <2>4 DEF MemberOK
<1> QED
  BY <1>1, <1>4, <1>5 DEF ReloadInv, Unstarted

LEMMA ReloadInvariance == Spec => [](TypeInv /\ ReloadInv)
<1>1. Init => ReloadInv
  BY InitReload
<1>2. TypeInv /\ TypeInv' /\ NumbersInv /\ OwnerInv /\ ReloadInv /\ [Next]_vars => ReloadInv'
  BY StepReload
<1> QED
  BY <1>1, <1>2, NumbersInvariance, PTL DEF Spec

\* A handle that hook() returned to the current code stands for a live hook that
\* runs the hooker it was given: no thread of the new code replaces that hook
\* again, and the end of the reload does not unhook it.  (LSPosed.kt 125-153)
THEOREM HandlesStayLive == Spec => []HandleIsLive
<1>1. TypeInv /\ ReloadInv => HandleIsLive
  <2>1. SUFFICES ASSUME TypeInv, ReloadInv, NEW h \in handles, h.member \notin overlapped
                 PROVE  \E x \in live : /\ x.fw = h.fw /\ x.by = h.by
                                        /\ x.member = h.member /\ x.ident = h.ident
    BY DEF HandleIsLive
  <2>2. h.member \in Members
    BY <2>1, InUseTyped
  <2> QED
    BY <2>1, <2>2 DEF ReloadInv, Unstarted, MemberOK, HandlesOK
<1> QED
  BY <1>1, ReloadInvariance, PTL

\* After a reload that did not fail the framework runs no hook of the old code and
\* none twice: every live hook is one that the current code holds a handle of,
\* with the hooker it gave.  (LSPosed.kt 126-154, 377-391)
THEOREM OnlyHeldStayLive == Spec => []OnlyHeldHooksLive
<1>1. TypeInv /\ ReloadInv => OnlyHeldHooksLive
  <2>1. SUFFICES ASSUME TypeInv, ReloadInv, phase = "running", ~failed, Idle,
                        NEW x \in live, x.member \notin overlapped
                 PROVE  \E h \in handles : h.fw = x.fw /\ h.by = x.by /\ x.gen = gen
    BY DEF OnlyHeldHooksLive
  <2>2. x.member \in Members /\ ~hot
    BY <2>1, InUseTyped DEF TypeInv, PhaseInv
  <2>3. sweep = {} /\ previous[x.member] = <<>>
    BY <2>1, <2>2 DEF ReloadInv, OnlyInReload
  <2>4. Range(previous[x.member]) = {}
    BY <2>3 DEF Range
  <2>5. ~ReplacedIn(x.fw, x.member)
    BY <2>1 DEF ReplacedIn, Idle
  <2>6. LiveOK(x.member)
    BY <2>1, <2>2 DEF ReloadInv, MemberOK
  <2> QED
    BY <2>3, <2>4, <2>5, <2>6 DEF LiveOK
<1> QED
  BY <1>1, ReloadInvariance, PTL

\* While a reload replaces hooks, the current code makes one of its own only when
\* no old hook of the member with that identifier is left to be replaced.
\* (LSPosed.kt 126-145, 162-170)
THEOREM ReplacedFirst == Spec => []ReplacedBeforeMade
<1>1. TypeInv /\ ReloadInv => ReplacedBeforeMade
  BY DEF TypeInv, PhaseInv, ReloadInv, MemberOK, HandlesOK, ReplacedBeforeMade
<1> QED
  BY <1>1, ReloadInvariance, PTL
====
