---- MODULE Startup ----
(***************************************************************************)
(* How a module is started in a process, under either backend: impl/Xposed *)
(* 34-57 and 261-302, impl/LSPosed 216-253, XposedKit 33-69 and 110-161.   *)
(*                                                                         *)
(* The legacy framework constructs the backend, calls initZygote, and      *)
(* handleLoadPackage for each package loaded into the process.  LSPosed    *)
(* calls onModuleLoaded, then onPackageReady per package, and              *)
(* onSystemServerStarting in the system server.  The backend makes of this *)
(* the module's own callbacks.  Both frameworks catch what a callback      *)
(* throws and go on with the next; a constructor that throws leaves the    *)
(* module out of the process.                                              *)
(***************************************************************************)
EXTENDS HostPackages, Naturals, Sequences, SequencesExt

CONSTANTS
  OwnPackage, \* the module's package
  Nothing,    \* no package
  MaxLoads    \* bound: packages loaded

ASSUME PackagesAssumption == OwnPackage \in Packages /\ Nothing \notin Packages
ASSUME StartBoundsAssumption == MaxLoads \in Nat

Backends == {"legacy", "lsposed"}
Callbacks == [on : {"process", "system"}, package : {Nothing}]
               \cup [on : {"package"}, package : Packages]

VARIABLES
  backend,       \* the framework the process runs under
  system,        \* the process is the system server
  nativeLoaded,  \* NativeBridge.isLoaded
  phase,         \* new, constructed, running, or refused: the module is out
  moduleSource,  \* moduleSource has been set
  processName,   \* LSPosed.processName has been set
  attachHooked,  \* prepare() has hooked Application.attach
  instance,      \* moduleInstance has been computed
  first,         \* the first package loaded, Nothing before
  loads,         \* packages loaded so far
  serverStarted, \* LSPosed has called onSystemServerStarting
  known,         \* LSPosed: keys of appPackages
  todo,          \* callbacks of the module the current one has still to make
  told,          \* callbacks of the module so far, in order
  unmade         \* ghost: moduleInstance threw when onProcessLoaded was due

framework == <<backend, system, nativeLoaded>>
loading == <<first, loads, serverStarted>>
backendState == <<phase, moduleSource, processName, attachHooked, known>>
startVars == <<framework, backendState, loading, instance, todo, told, unmade>>

Process == [on |-> "process", package |-> Nothing]
System == [on |-> "system", package |-> Nothing]
Package(p) == [on |-> "package", package |-> p]

StartTypeOK ==
  /\ backend \in Backends /\ system \in BOOLEAN /\ nativeLoaded \in BOOLEAN
  /\ phase \in {"new", "constructed", "running", "refused"}
  /\ {moduleSource, processName, attachHooked, instance, unmade, serverStarted} \subseteq BOOLEAN
  /\ first \in Packages \cup {Nothing} /\ loads \in 0..MaxLoads
  /\ known \subseteq Packages
  /\ todo \in Seq(Callbacks) /\ told \in Seq(Callbacks)
  /\ phase = "running" /\ backend = "legacy" => moduleSource
  /\ told # <<>> => instance

StartInit ==
  /\ backend \in Backends
  /\ system \in BOOLEAN
  /\ nativeLoaded \in BOOLEAN
  /\ phase = "new"
  /\ moduleSource = FALSE
  /\ processName = FALSE
  /\ attachHooked = FALSE
  /\ instance = FALSE
  /\ first = Nothing
  /\ loads = 0
  /\ serverStarted = FALSE
  /\ known = {}
  /\ todo = <<>>
  /\ told = <<>>
  /\ unmade = FALSE

Idle == todo = <<>>

----
\* printLog of the legacy backend puts the module's package into each line, and
\* modulePackageInfo needs moduleSource, whose getter throws while it is unset.
CanLog == backend = "lsposed" \/ moduleSource

\* XposedKit.init(this): NativeBridge.Init(), or a warning that it is missing;
\* the messages below WARN are hidden at start.
InitSucceeds == nativeLoaded \/ CanLog

\* NativeBridge.Init() throws when there is no JVMTI environment.
InitMayThrow == nativeLoaded \/ ~CanLog

\* init { XposedKit.init(this) }
Construct ==
  /\ backend = "legacy"
  /\ phase = "new"
  /\ \/ InitSucceeds /\ phase' = "constructed"
     \/ InitMayThrow /\ phase' = "refused"
  /\ UNCHANGED <<framework, moduleSource, processName, attachHooked, known,
                 loading, instance, todo, told, unmade>>

\* Faulty variant: the path is not kept.
InitZygoteUnset ==
  /\ backend = "legacy"
  /\ phase = "constructed"
  /\ phase' = "running"
  /\ UNCHANGED <<framework, moduleSource, processName, attachHooked, known,
                 loading, instance, todo, told, unmade>>

\* initZygote(param): moduleSource = param.modulePath
InitZygote ==
  /\ backend = "legacy"
  /\ phase = "constructed"
  /\ phase' = "running"
  /\ moduleSource' = TRUE
  /\ UNCHANGED <<framework, processName, attachHooked, known,
                 loading, instance, todo, told, unmade>>

\* The framework has loaded p into the process.
Load(p) ==
  /\ Idle
  /\ phase = "running"
  /\ loads < MaxLoads
  /\ loads' = loads + 1
  /\ first' = IF first = Nothing THEN p ELSE first
  /\ UNCHANGED serverStarted

LoadUnprepared(p) ==
  IF p = OwnPackage THEN [todo |-> <<>>, prepare |-> FALSE]
  ELSE IF system THEN [todo |-> <<Process, System>>, prepare |-> FALSE]
  ELSE IF first = Nothing THEN [todo |-> <<Process, Package(p)>>, prepare |-> FALSE]
  ELSE [todo |-> <<Package(p)>>, prepare |-> FALSE]

\* handleLoadPackage's early returns, in the order of the code: the module's own
\* package, the system server, then isFirstApplication.
LegacyLoad(p) ==
  IF p = OwnPackage THEN [todo |-> <<>>, prepare |-> FALSE]
  ELSE IF system THEN [todo |-> <<Process, System>>, prepare |-> FALSE]
  ELSE IF first = Nothing THEN [todo |-> <<Process, Package(p)>>, prepare |-> TRUE]
  ELSE [todo |-> <<Package(p)>>, prepare |-> FALSE]

\* handleLoadPackage(param), up to the callbacks of the module
HandleLoadPackage(p) ==
  /\ backend = "legacy"
  /\ Load(p)
  /\ todo' = LegacyLoad(p).todo
  /\ attachHooked' = (attachHooked \/ LegacyLoad(p).prepare)
  /\ UNCHANGED <<framework, phase, moduleSource, processName, known,
                 instance, told, unmade>>

----
\* onModuleLoaded(param): XposedKit.init and prepare(), then the module
OnModuleLoaded ==
  /\ backend = "lsposed"
  /\ phase = "new"
  /\ phase' = "running"
  /\ \/ /\ InitSucceeds
        /\ attachHooked' = TRUE
        /\ processName' = TRUE
        /\ todo' = <<Process>>
     \/ InitMayThrow /\ UNCHANGED <<attachHooked, processName, todo>>
  /\ UNCHANGED <<framework, moduleSource, known, loading, instance, told, unmade>>

\* Faulty variant: nobody asks whether onModuleLoaded got that far.
OnPackageReadyUnchecked(p) ==
  /\ backend = "lsposed"
  /\ Load(p)
  /\ todo' = <<Package(p)>>
  /\ UNCHANGED <<framework, backendState, instance, told, unmade>>

\* onPackageReady(param): reading processName throws if onModuleLoaded did not
\* get to set it.
OnPackageReady(p) ==
  /\ backend = "lsposed"
  /\ Load(p)
  /\ todo' = IF processName THEN <<Package(p)>> ELSE <<>>
  /\ UNCHANGED <<framework, backendState, instance, told, unmade>>

\* onSystemServerStarting(param), once
OnSystemServerStarting ==
  /\ backend = "lsposed"
  /\ system
  /\ phase = "running"
  /\ Idle
  /\ ~serverStarted
  /\ serverStarted' = TRUE
  /\ todo' = <<System>>
  /\ UNCHANGED <<framework, backendState, first, loads, instance, told, unmade>>

----
\* XposedKit.mount { ... }: moduleInstance is computed, unless it was, ...
MountThrows ==
  /\ ~Idle
  /\ ~instance
  /\ unmade' = (unmade \/ Head(todo) = Process)
  /\ todo' = <<>>
  /\ UNCHANGED <<framework, backendState, loading, instance, told>>

\* ... and the module's callback is called.  A package is registered once
\* onPackageLoaded has returned (LSPosed).
CallModule ==
  LET c == Head(todo)
  IN  /\ ~Idle
      /\ instance' = TRUE
      /\ told' = Append(told, c)
      /\ todo' = Tail(todo)
      /\ known' = IF backend = "lsposed" /\ c.on = "package"
                  THEN known \cup {c.package} ELSE known
      /\ UNCHANGED <<framework, phase, moduleSource, processName, attachHooked,
                     loading, unmade>>

\* The callback throws, out of the callback of the framework.
ModuleThrows ==
  /\ ~Idle
  /\ instance' = TRUE
  /\ told' = Append(told, Head(todo))
  /\ todo' = <<>>
  /\ UNCHANGED <<framework, backendState, loading, unmade>>

StartNext ==
  \/ Construct
  \/ InitZygote
  \/ \E p \in Packages : HandleLoadPackage(p) \/ OnPackageReady(p)
  \/ OnModuleLoaded
  \/ OnSystemServerStarting
  \/ MountThrows
  \/ CallModule
  \/ ModuleThrows

StartSpec == StartInit /\ [][StartNext]_startVars

----
\* The first package of the process is the module's own: handleLoadPackage
\* returns before it looks at isFirstApplication, and no later package is first.
StartedByOwnPackage == backend = "legacy" /\ first = OwnPackage

\* The module is told of its process before it is told of a package or of the
\* system server, even if callbacks throw, except where the first package was its
\* own, where the module could not be made in time, and for the system server if
\* onModuleLoaded failed; and it is told once, however many packages follow,
\* except that the legacy system server tells it once per package.
\* (Xposed.kt 270-301, LSPosed.kt 216-253)
ProcessFirstAndOnce ==
  /\ \A i \in DOMAIN told : told[i] # Process =>
       \/ \E j \in 1..(i - 1) : told[j] = Process
       \/ unmade
       \/ StartedByOwnPackage
       \/ told[i] = System /\ backend = "lsposed" /\ ~processName
  /\ \/ \A i, j \in DOMAIN told : told[i] = Process /\ told[j] = Process => i = j
     \/ backend = "legacy" /\ system

\* Application.attach is hooked before the module is told of a package, so that a
\* listener it registers there will be called, except where the first package
\* was the module's own.  (Xposed.kt 286-301, LSPosed.kt 218-245, XposedKit.kt
\* 49-65)
AttachHookedFirst ==
  (\E c \in Range(told) : c.on = "package") => attachHooked \/ StartedByOwnPackage

\* Without the native library some features may not work, but the module is
\* started.  (XposedKit.kt 36-46)
StartsWithoutNative == ~nativeLoaded => phase # "refused"
====
