---- MODULE HotReload ----
(***************************************************************************)
(* Hot reload in the LSPosed backend (impl/LSPosed.kt).                    *)
(*                                                                         *)
(* The framework keeps the hooks of the module in the process.  When the   *)
(* module is updated it asks the old code (onHotReloading); if that agrees *)
(* it loads the new code with a new LSPosed object and hands it the old    *)
(* handles (onHotReloaded).  The new code replays what happened in the     *)
(* process, so that the module hooks everything again; hook() meanwhile    *)
(* replaces an old hook of the member with the same identifier (type and   *)
(* normalized priority) instead of making a second one, and what was not   *)
(* replaced is unhooked at the end.                                        *)
(*                                                                         *)
(* The thread Reloader runs the lifecycle callbacks, and the module's code *)
(* inside them; the module may also call hook() on Workers.  The lists of  *)
(* previousHookHandles are not synchronized: finding an element, reading   *)
(* it and shifting the rest are steps of their own.                        *)
(*                                                                         *)
(* A framework hook is numbered by the hook() call that made it; `by' is   *)
(* the hook() call whose hooker it runs, of code generation `gen'.         *)
(***************************************************************************)
EXTENDS Integers, FiniteSets, SequencesExt, Priorities

CONSTANTS
  Reloader,        \* the thread of the lifecycle callbacks
  Workers,         \* other threads that run module code
  Members,         \* methods and constructors
  Clinits,         \* the members that are class initializers
  Requests,        \* [member, type, priority] module code may ask for
  AttachRequest,   \* the hook XposedKit.prepare() makes
  Packages,        \* packages the process loads
  MaxHooks,        \* bound: hook() calls in a behaviour
  MaxReloads       \* bound: hot reloads in a behaviour

Threads == {Reloader} \cup Workers

ASSUME ThreadsAssumption == Reloader \notin Workers
ASSUME MembersAssumption == Clinits \subseteq Members
ASSUME RequestsAssumption ==
  \A r \in Requests \cup {AttachRequest} :
    /\ r.member \in Members
    /\ r.type \in Types
    /\ r.priority \in Int /\ IntMin <= r.priority /\ r.priority <= IntMax
\* The first hook() call is prepare's.
ASSUME BoundsAssumption == MaxHooks \in Nat \ {0} /\ MaxReloads \in Nat

----
NoIdentifier == <<>>  \* hookClassInitializer gives its hooks no id

\* HookIdentifier: equal when type and priority are; the random part of the id
\* only keeps the ids of the framework apart.
Identifier(r) ==
  IF r.member \in Clinits THEN NoIdentifier
  ELSE <<r.type, Normalized(r.type, r.priority)>>

----
VARIABLES
  gen,          \* generation of the module's code, 0 at first
  phase,        \* where the lifecycle is; "unstarted" when the new code's
                \*   XposedKit.init threw, and nothing of it is run
  hot,          \* isHotReloading of the current code
  nativeLoaded, \* NativeBridge.isLoaded of the current code
  live,         \* the framework's hooks of this module
  previous,     \* previousHookHandles: [fw, ident] of the old hooks, per member
  sweep,        \* old hooks still to be unhooked at the end of a reload
  calls,        \* number of hook() calls so far
  pc, req, num, \* per thread: step, request and number of its hook() call,
  idx, victim,  \*   the index found and the old hook read there
  handles,      \* handles hook() returned to the current code, not unhooked
  appPackages,  \* keys of appPackages
  saved,        \* packages in savedInstanceState
  todo,         \* packages of savedInstanceState still to be replayed
  arriving,     \* the onPackageReady in progress: <<>> or <<package, gen>>
  dead,         \* packages whose class loader has been collected
  ready,        \* ghost: packages whose onPackageReady has returned
  told,         \* ghost: packages the current code was given
  missed,       \* ghost: packages that met a reload at the wrong moment
  overlapped,   \* ghost: members hooked by two threads at once during a reload
  failed        \* ghost: the last reload ended in an exception

locals == <<pc, req, num, idx, victim>>
hooking == <<live, calls, locals, handles>>
packages == <<appPackages, saved, todo, arriving, dead, ready, told, missed>>
vars == <<gen, phase, hot, nativeLoaded, previous, sweep, hooking, packages,
          overlapped, failed>>

Idents == {Identifier(r) : r \in Requests \cup {AttachRequest}}
LiveHook == [fw : 1..MaxHooks, member : Members, by : 1..MaxHooks,
             gen : 0..MaxReloads, ident : Idents]
OldHook == [fw : 1..MaxHooks, ident : Idents]
Replacing == {"find", "remove", "shift", "replace"}
Phases == {"running", "clear", "cleanup", "handover", "prepare", "process",
           "packages", "flatten", "sweep", "unstarted"}

TypeOK ==
  /\ gen \in 0..MaxReloads
  /\ phase \in Phases
  /\ hot \in BOOLEAN /\ nativeLoaded \in BOOLEAN /\ failed \in BOOLEAN
  /\ live \subseteq LiveHook
  /\ previous \in [Members -> Seq(OldHook)]
  /\ sweep \subseteq 1..MaxHooks
  /\ calls \in 0..MaxHooks
  /\ pc \in [Threads -> {"idle", "create"} \cup Replacing]
  /\ \A t \in Threads : pc[t] # "idle" =>
       req[t] \in Requests \cup {AttachRequest} /\ num[t] \in 1..calls
  /\ idx \in [Threads -> Nat] /\ victim \in [Threads -> 0..MaxHooks]
  /\ appPackages \cup saved \cup todo \cup dead \cup ready \cup told \cup missed
       \subseteq Packages
  /\ overlapped \subseteq Members
  /\ phase \in {"clear", "cleanup", "handover"} => todo = {}
  /\ phase \in {"prepare", "process", "packages"} => hot
  /\ phase = "running" => hot = failed

\* The hook prepare() made in onModuleLoaded.
FirstHook == [fw |-> 1, by |-> 1, member |-> AttachRequest.member,
              ident |-> Identifier(AttachRequest), gen |-> 0]

\* The process after onModuleLoaded, before the module's own hooks.
Init ==
  /\ gen = 0
  /\ phase = "running"
  /\ hot = FALSE
  /\ nativeLoaded \in BOOLEAN
  /\ live = {FirstHook}
  /\ previous = [m \in Members |-> <<>>]
  /\ sweep = {}
  /\ calls = 1
  /\ pc = [t \in Threads |-> "idle"]
  /\ req = [t \in Threads |-> <<>>]
  /\ num = [t \in Threads |-> 0]
  /\ idx = [t \in Threads |-> 0]
  /\ victim = [t \in Threads |-> 0]
  /\ handles = {FirstHook}
  /\ appPackages = {} /\ saved = {} /\ todo = {} /\ dead = {}
  /\ arriving = <<>>
  /\ ready = {} /\ told = {} /\ missed = {}
  /\ overlapped = {}
  /\ failed = FALSE

----
\* hook(member, type, priority, callback)

Goto(t, l) == pc' = [pc EXCEPT ![t] = l]

\* hook() returns or throws; the locals of the call are gone.
Done(t) ==
  /\ Goto(t, "idle")
  /\ req' = [req EXCEPT ![t] = <<>>]
  /\ num' = [num EXCEPT ![t] = 0]
  /\ idx' = [idx EXCEPT ![t] = 0]
  /\ victim' = [victim EXCEPT ![t] = 0]

Member(t) == req[t].member
Ident(t) == Identifier(req[t])

\* The fields of the hook() call of t that a handle or a hooker remembers.
Call(t, fw) == [fw |-> fw, by |-> num[t], member |-> Member(t),
                ident |-> Ident(t), gen |-> gen]

\* The call reads isHotReloading.
HookStart(t, r) ==
  /\ pc[t] = "idle"
  /\ calls < MaxHooks
  /\ calls' = calls + 1
  /\ req' = [req EXCEPT ![t] = r]
  /\ num' = [num EXCEPT ![t] = calls + 1]
  /\ Goto(t, IF hot THEN "find" ELSE "create")
  /\ overlapped' = overlapped \cup
       {m \in {r.member} : hot /\ \E u \in Threads \ {t} :
                              pc[u] \in Replacing /\ Member(u) = m}
  /\ UNCHANGED <<idx, victim, live, handles, previous>>

\* Faulty variant: the ids compared as strings, random part included.
CandidatesById(t) ==
  IF Ident(t) = NoIdentifier THEN {Len(previous[Member(t)])} \ {0} ELSE {}

\* hook: the first old hook of the member with this identifier;
\* hookClassInitializer: the last old hook of the class initializer.
Candidates(t) ==
  LET s == previous[Member(t)]
  IN  IF Ident(t) = NoIdentifier THEN {Len(s)} \ {0}
      ELSE {i \in DOMAIN s : s[i].ident = Ident(t)}

HookFind(t) ==
  /\ pc[t] = "find"
  /\ IF Candidates(t) = {}
     THEN Goto(t, "create") /\ UNCHANGED idx
     ELSE /\ Goto(t, "remove")
          /\ idx' = [idx EXCEPT ![t] =
               CHOOSE i \in Candidates(t) : \A j \in Candidates(t) : i <= j]
  /\ UNCHANGED <<req, num, victim, live, calls, handles, previous, overlapped>>

\* takeIf { idx in it.indices }, and removeAt reads the element: when the list
\* has shrunk meanwhile, the test saw it (a new hook is made) or removeAt does
\* (it throws; the class initializer's removeLastOrNull can only throw).
HookRemove(t) ==
  LET s == previous[Member(t)]
  IN  /\ pc[t] = "remove"
      /\ \/ /\ idx[t] \in DOMAIN s
            /\ victim' = [victim EXCEPT ![t] = s[idx[t]].fw]
            /\ Goto(t, "shift")
            /\ UNCHANGED <<req, num, idx>>
         \/ /\ idx[t] \notin DOMAIN s
            /\ Ident(t) # NoIdentifier
            /\ Goto(t, "create")
            /\ UNCHANGED <<req, num, idx, victim>>
         \/ /\ idx[t] \notin DOMAIN s
            /\ Done(t)
      /\ UNCHANGED <<live, calls, handles, previous, overlapped>>

\* Faulty variant: the element is read and left in the list.
HookNoShift(t) ==
  /\ pc[t] = "shift"
  /\ Goto(t, "replace")
  /\ UNCHANGED <<req, num, idx, victim, live, calls, handles, previous, overlapped>>

\* removeAt moves the rest down over the index.  If another thread has shrunk
\* the list since the element was read, this drops a different element, or
\* throws on an empty list.
HookShift(t) ==
  LET s == previous[Member(t)]
  IN  /\ pc[t] = "shift"
      /\ IF s = <<>>
         THEN Done(t) /\ UNCHANGED previous
         ELSE /\ previous' = [previous EXCEPT ![Member(t)] =
                   RemoveAt(s, IF idx[t] \in DOMAIN s THEN idx[t] ELSE Len(s))]
              /\ Goto(t, "replace")
              /\ UNCHANGED <<req, num, idx, victim>>
      /\ UNCHANGED <<live, calls, handles, overlapped>>

\* previousHandle.replaceHook(hooker): the framework's hook stays where it is,
\* with its id and priority, and runs the new hooker.
HookReplace(t) ==
  /\ pc[t] = "replace"
  /\ live' = {IF x.fw = victim[t] THEN [x EXCEPT !.by = num[t], !.gen = gen] ELSE x
                : x \in live}
  /\ handles' = handles \cup {Call(t, victim[t])}
  /\ Done(t)
  /\ UNCHANGED <<calls, previous, overlapped>>

\* hook(member)....intercept(hooker): a new hook of the framework.
HookCreate(t) ==
  /\ pc[t] = "create"
  /\ live' = live \cup {Call(t, num[t])}
  /\ handles' = handles \cup {Call(t, num[t])}
  /\ Done(t)
  /\ UNCHANGED <<calls, previous, overlapped>>

HookStep(t) ==
  \/ HookFind(t)
  \/ HookRemove(t)
  \/ HookShift(t)
  \/ HookReplace(t)
  \/ HookCreate(t)

\* HookHandle.unhook().  prepare() drops its handle, so nobody unhooks that one.
Unhook(h) ==
  /\ h \in handles
  /\ h.member # AttachRequest.member
  /\ live' = {x \in live : x.fw # h.fw}
  /\ handles' = handles \ {h}
  /\ UNCHANGED <<calls, locals, previous, overlapped>>

\* What module code does to the hooks: on the lifecycle thread inside the
\* callbacks, on the workers at any time once it runs.
ModuleStep ==
  /\ \/ \E r \in Requests :
          \/ phase \in {"running", "process", "packages"} /\ HookStart(Reloader, r)
          \/ phase # "unstarted" /\ \E w \in Workers : HookStart(w, r)
     \/ \E t \in Threads : HookStep(t)
     \/ \E h \in handles : Unhook(h)
  /\ UNCHANGED <<gen, phase, hot, nativeLoaded, sweep, packages, failed>>

----
\* onPackageReady on the process's main thread

\* The module's onPackageLoaded gets the package first ...
PackageReady(p) ==
  /\ phase = "running"
  /\ arriving = <<>>
  /\ p \notin told \cup ready
  /\ arriving' = <<p, gen>>
  /\ told' = told \cup {p}
  /\ UNCHANGED <<appPackages, saved, todo, dead, ready, missed>>

\* ... and if it returns, registerRuntimePackage records the package in the
\* LSPosed object of the code that was called.  Ghost: it is missed when a
\* reload has begun since.
PackageRegister ==
  /\ arriving # <<>>
  /\ LET p == arriving[1]
         current == arriving[2] = gen
     IN  /\ appPackages' = appPackages \cup {x \in {p} : current}
         /\ ready' = ready \cup {p}
         /\ missed' = missed \cup
              {x \in {p} : ~current \/ phase \in {"clear", "cleanup", "handover"}}
  /\ arriving' = <<>>
  /\ UNCHANGED <<saved, todo, dead, told>>

\* If onPackageLoaded throws, the package is not recorded.
PackageThrows ==
  /\ arriving # <<>>
  /\ arriving' = <<>>
  /\ UNCHANGED <<appPackages, saved, todo, dead, ready, told, missed>>

\* The class loader of a package is collected; appPackages holds it weakly,
\* the saved state strongly.
ClassLoaderDies(p) ==
  /\ phase = "running"
  /\ p \in appPackages \ dead
  /\ dead' = dead \cup {p}
  /\ UNCHANGED <<appPackages, saved, todo, arriving, ready, told, missed>>

PackageStep ==
  /\ \/ \E p \in Packages : PackageReady(p) \/ ClassLoaderDies(p)
     \/ PackageRegister
     \/ PackageThrows
  /\ UNCHANGED <<gen, phase, hot, nativeLoaded, previous, sweep, hooking,
                 overlapped, failed>>

----
\* onHotReloading of the old code.  (If the module refuses, it returns false and
\* nothing has changed: a stuttering step.)

reloadUnchanged == <<nativeLoaded, previous, sweep, hooking, overlapped>>

\* The packages whose class loader is alive go into savedInstanceState.
SavePackages ==
  /\ phase = "running"
  /\ pc[Reloader] = "idle"
  /\ gen < MaxReloads
  /\ phase' = "clear"
  /\ saved' = appPackages \ dead
  /\ UNCHANGED <<gen, hot, appPackages, todo, arriving, dead, ready, told, missed,
                 failed, reloadUnchanged>>

ClearPackages ==
  /\ phase = "clear"
  /\ appPackages' = {}
  /\ phase' = "cleanup"
  /\ UNCHANGED <<gen, hot, saved, todo, arriving, dead, ready, told, missed,
                 failed, reloadUnchanged>>

\* NativeBridge.Cleanup() throws UnsatisfiedLinkError when the library is not
\* loaded: the framework keeps the old code, whose packages are gone.
Cleanup ==
  /\ phase = "cleanup"
  /\ IF nativeLoaded
     THEN phase' = "handover" /\ UNCHANGED missed
     ELSE phase' = "running" /\ missed' = missed \cup saved
  /\ UNCHANGED <<gen, hot, appPackages, saved, todo, arriving, dead, ready, told,
                 failed, reloadUnchanged>>

----
\* onHotReloaded of the new code

\* The old hooks of a member
Old(m) == {[fw |-> x.fw, ident |-> x.ident] : x \in {y \in live : y.member = m}}

\* The functions of Grouped, enumerated one member after the other
Orders ==
  LET Add(m, gs) == {[g EXCEPT ![m] = s] : g \in gs, s \in SetToSeqs(Old(m))}
  IN  FoldSet(Add, {[m \in Members |-> <<>>]}, Members)

\* oldHookHandles.groupBy { it.executable }, the old handles in any order:
\* each list has every old hook of its member once.
Grouped ==
  {g \in Orders : /\ g \in [Members -> Seq(OldHook)]
                  /\ \A m \in Members : g[m] \in SetToSeqs(Old(m))}

\* The framework has stopped the old code, and calls a new LSPosed object, whose
\* code has loaded the library anew or not: isHotReloading = true,
\* previousHookHandles filled from oldHookHandles, which may be in any order.
HotReloaded ==
  /\ phase = "handover"
  /\ \A t \in Threads : pc[t] = "idle"
  /\ phase' = "prepare"
  /\ gen' = gen + 1
  /\ hot' = TRUE
  /\ nativeLoaded' \in BOOLEAN
  /\ previous' \in Grouped
  /\ handles' = {}
  /\ appPackages' = {}
  /\ todo' = saved
  /\ told' = {}
  /\ overlapped' = {}
  /\ failed' = FALSE
  /\ UNCHANGED <<sweep, live, calls, locals, saved, arriving, dead, ready, missed>>

\* XposedKit.init(this), the first call of onHotReloaded, throws where the library
\* gets no JVMTI environment.  The new object has no processName then, and each of
\* its lifecycle callbacks throws before it calls the module.
InitThrows ==
  /\ phase = "handover"
  /\ \A t \in Threads : pc[t] = "idle"
  /\ phase' = "unstarted"
  /\ gen' = gen + 1
  /\ hot' = FALSE
  /\ nativeLoaded' = TRUE
  /\ previous' = [m \in Members |-> <<>>]
  /\ handles' = {}
  /\ appPackages' = {}
  /\ told' = {}
  /\ missed' = missed \cup saved
  /\ overlapped' = {}
  /\ failed' = TRUE
  /\ UNCHANGED <<sweep, live, calls, locals, saved, todo, arriving, dead, ready>>

\* XposedKit.prepare() hooks Application.attach.
Prepare ==
  /\ phase = "prepare"
  /\ HookStart(Reloader, AttachRequest)
  /\ phase' = "process"
  /\ UNCHANGED <<gen, hot, nativeLoaded, sweep, packages, failed>>

\* The module's onProcessLoaded has returned.
ProcessLoaded ==
  /\ phase = "process"
  /\ pc[Reloader] = "idle"
  /\ phase' = "packages"
  /\ UNCHANGED <<gen, hot, packages, failed, reloadUnchanged>>

\* Faulty variant: the package is not registered again.
ReplayUnregistered(p) ==
  /\ phase = "packages"
  /\ pc[Reloader] = "idle"
  /\ p \in todo
  /\ todo' = todo \ {p}
  /\ told' = told \cup {p}
  /\ UNCHANGED <<gen, phase, hot, appPackages, saved, arriving, dead, ready, missed,
                 failed, reloadUnchanged>>

\* The next package of the saved state is registered, and the module's
\* onPackageLoaded called.  (onSystemServerStarting is one more such call.)
ReplayPackage(p) ==
  /\ phase = "packages"
  /\ pc[Reloader] = "idle"
  /\ p \in todo
  /\ todo' = todo \ {p}
  /\ appPackages' = appPackages \cup {p}
  /\ told' = told \cup {p}
  /\ UNCHANGED <<gen, phase, hot, saved, arriving, dead, ready, missed, failed,
                 reloadUnchanged>>

\* A callback of the module throws out of onHotReloaded: isHotReloading stays
\* set, the old hooks stay and the remaining packages are never replayed.
ModuleThrows ==
  /\ phase \in {"process", "packages"}
  /\ pc[Reloader] = "idle"
  /\ phase' = "running"
  /\ todo' = {}
  /\ missed' = missed \cup todo
  /\ failed' = TRUE
  /\ UNCHANGED <<gen, hot, appPackages, saved, arriving, dead, ready, told,
                 reloadUnchanged>>

\* Faulty variant: isHotReloading is not reset.
EndReplacingStillHot ==
  /\ phase = "packages"
  /\ pc[Reloader] = "idle"
  /\ todo = {}
  /\ phase' = "flatten"
  /\ UNCHANGED <<gen, hot, packages, failed, reloadUnchanged>>

\* isHotReloading = false
EndReplacing ==
  /\ phase = "packages"
  /\ pc[Reloader] = "idle"
  /\ todo = {}
  /\ hot' = FALSE
  /\ phase' = "flatten"
  /\ UNCHANGED <<gen, packages, failed, reloadUnchanged>>

\* Faulty variant: one leftover per member.
FirstLeftovers == {previous[m][1].fw : m \in {n \in Members : previous[n] # <<>>}}

Leftovers == UNION {{o.fw : o \in Range(previous[m])} : m \in Members}

\* previousHookHandles.values.flatten().  Ghost: a hook() of a worker that has
\* not finished replacing overlaps the end of the reload.
Flatten ==
  /\ phase = "flatten"
  /\ sweep' = Leftovers
  /\ phase' = "sweep"
  /\ overlapped' = overlapped \cup
       {Member(t) : t \in {u \in Threads : pc[u] \in Replacing}}
  /\ UNCHANGED <<gen, hot, nativeLoaded, previous, hooking, packages, failed>>

\* forEach { it.unhook() }
UnhookOld(fw) ==
  /\ phase = "sweep"
  /\ fw \in sweep
  /\ sweep' = sweep \ {fw}
  /\ live' = {x \in live : x.fw # fw}
  /\ UNCHANGED <<gen, phase, hot, nativeLoaded, previous, calls, locals, handles,
                 packages, overlapped, failed>>

\* previousHookHandles.clear()
EndReload ==
  /\ phase = "sweep"
  /\ sweep = {}
  /\ previous' = [m \in Members |-> <<>>]
  /\ phase' = "running"
  /\ UNCHANGED <<gen, hot, nativeLoaded, sweep, hooking, packages, overlapped, failed>>

ReloadStep ==
  \/ SavePackages
  \/ ClearPackages
  \/ Cleanup
  \/ HotReloaded
  \/ InitThrows
  \/ Prepare
  \/ ProcessLoaded
  \/ \E p \in Packages : ReplayPackage(p)
  \/ ModuleThrows
  \/ EndReplacing
  \/ Flatten
  \/ \E fw \in sweep : UnhookOld(fw)
  \/ EndReload

Next == ModuleStep \/ PackageStep \/ ReloadStep

Spec == Init /\ [][Next]_vars

----
Idle == \A t \in Threads : pc[t] = "idle"

\* Once a reload has ended without an exception, the framework runs no hook that
\* the current code does not hold a handle of: no hook of the old code is left,
\* none runs twice.  A member hooked by two threads at once during the reload is
\* excepted.  (LSPosed.kt 126-154, 377-391)
OnlyHeldHooksLive ==
  phase = "running" /\ ~failed /\ Idle =>
    \A x \in live : x.member \notin overlapped =>
      \E h \in handles : h.fw = x.fw /\ h.by = x.by /\ x.gen = gen

\* A handle hook() returned to the current code stands for a live hook of its
\* own: on the member, with the identifier and running the hooker that hook()
\* was given, during a reload and after it, failed or not.  (LSPosed.kt 125-153)
HandleIsLive ==
  \A h \in handles : h.member \notin overlapped =>
    \E x \in live : /\ x.fw = h.fw
                    /\ x.by = h.by
                    /\ x.member = h.member
                    /\ x.ident = h.ident

\* A package that became ready stays known across reloads: it is in appPackages
\* and the current code has been given it, unless its class loader is dead, or
\* it met a reload that failed or that overlapped its onPackageReady.
\* (LSPosed.kt 227-245, 272-294, 337-366)
PackagesCarriedOver ==
  phase \in {"running", "unstarted"} =>
    ready \ (dead \cup missed) \subseteq appPackages \cap told

\* While a reload replaces hooks, the current code makes a hook of its own only
\* when every old hook of the member with that identifier has been replaced, so
\* the end of the reload unhooks nothing that the new code asked for.
\* (LSPosed.kt 126-145, 162-170)
ReplacedBeforeMade ==
  hot =>
    \A m \in Members \ overlapped : \A o \in Range(previous[m]) :
      ~\E h \in handles : h.fw = h.by /\ h.member = m /\ h.ident = o.ident
====
