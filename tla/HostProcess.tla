---- MODULE HostProcess ----
(***************************************************************************)
(* The start of a module (Startup) and its listeners (AppAttach) in one    *)
(* process.  The start decides when code of the module runs, which alone   *)
(* registers listeners, and whether prepare() has hooked                   *)
(* Application.attach, whose callback alone calls those that wait.  Init,  *)
(* Next and vars are AppAttach's.                                          *)
(***************************************************************************)
EXTENDS AppAttach, Startup

VARIABLES
  mounted,      \* mount() was called: code of the module has begun to run
  applications  \* packages whose Application.attach has returned

hostVars == <<vars, startVars, mounted, applications>>

HostInit ==
  /\ Init
  /\ StartInit
  /\ mounted = FALSE
  /\ applications = {}

\* The framework or the module takes a step of the start.
StartStep ==
  /\ StartNext
  /\ mounted' = (mounted \/ todo' # <<>>)
  /\ UNCHANGED <<vars, applications>>

\* Code of the module registers and unregisters, in its callbacks or on threads
\* of its own.
ModuleRegisters ==
  /\ mounted
  /\ \E t \in Threads :
       \/ \E p \in Packages, l \in Listeners : Register(t, p, l)
       \/ \E p \in Packages : Unregister(t, p)
       \/ RegisterStep(t)
  /\ UNCHANGED <<startVars, mounted, applications>>

\* Application.attach of a package returns, and the callback on it is called if
\* there is one.  The first load of a package comes before the first attach.
ApplicationAttaches(a, p) ==
  /\ first # Nothing
  /\ applications' = applications \cup {p}
  /\ IF attachHooked THEN Attach(a, p) ELSE UNCHANGED vars
  /\ UNCHANGED <<startVars, mounted>>

\* The callback goes on.
ListenersCalled ==
  /\ \E a \in AppThreads : AttachStep(a)
  /\ UNCHANGED <<startVars, mounted, applications>>

HostNext ==
  \/ StartStep
  \/ ModuleRegisters
  \/ \E a \in AppThreads, p \in Packages : ApplicationAttaches(a, p)
  \/ ListenersCalled

HostSpec == HostInit /\ [][HostNext]_hostVars

----
\* A listener that code of the module has registered, from whatever callback of
\* its start or later, has been called once the application has attached and
\* nothing is under way, unless RegisteredIsCalled excuses it.  It waits in vain
\* only where Application.attach is not hooked, and that is in the system server
\* and in a process started by the module's own package.  (Xposed.kt 270-301,
\* LSPosed.kt 218-245, XposedKit.kt 49-65, 222-233)
RegisteredIsReached ==
  \A r \in returned \ excused :
    /\ regs[r].pkg \in applications
    /\ \A t \in Threads \cup AppThreads : pc[t] = "idle"
    => \/ r \in served
       \/ ~attachHooked /\ (system \/ StartedByOwnPackage)
====
