# XposedKit: TLA+ models, checks and proofs

XposedKit is a Kotlin/Java toolkit with a small native library for writing
Xposed modules. A module is loaded into the process of another app (the host).
XposedKit gives it one API over two hooking frameworks (the legacy Xposed API
and LSPosed's libxposed), lifecycle callbacks, hot reload, a log, listeners for
the host's `Application`, deferred values, reflection helpers and the means to
start its own activities in the host's process.

This directory specifies the parts of XposedKit that keep state and are used by
several threads, in TLA+. TLC checks small instances; the TLA+ proof system
proves the most important results for every value of the constants.

Paths below are relative to `src/xposedkit/src/main/java/cc/meteormc/xposedkit`
unless they start with `src/`.

## 1. Inventory

| Component | State | Operations | Status |
|---|---|---|---|
| Legacy hook registry (`impl/Xposed.kt`, `hook/HookHandle.kt`, `hook/HookType.kt`) | `hookedMembers`, per member a copy-on-write list of handles and the framework's `Unhook` | `hook`, `unhook`, `runCallback`; start-up (`initZygote`, `handleLoadPackage`); `hookClassInitializer`, `invokeSpecial`, `deoptimize` | partly: `HookRegistry`, `LegacyCall`, `Startup`, `NativeBridge` |
| LSPosed backend (`impl/LSPosed.kt`) | `isHotReloading`, `previousHookHandles`, `appPackages` | `hook`, `hookClassInitializer`, `unhook`, `onModuleLoaded`, `onPackageReady`, `onHotReloading`, `onHotReloaded`; `InterceptHooker.intercept` | partly: `HotReload`, `ChainCall`, `Priorities`, `Startup` |
| Start-up (`XposedKit.kt` with both backends) | `impl`, the lazy `moduleInstance`, `moduleSource`, `processName` | the backend's constructor, `init`, `prepare`, `mount`, the frameworks' lifecycle callbacks | modelled: `Startup`, `HostProcess` |
| Application listeners (`XposedKit.kt`) | `attachedApplications`, `appAttachListeners` | `registerAppAttachListener`, `unregisterAppAttachListeners`, the hook on `Application.attach` | modelled: `AppAttach`, `HostProcess` |
| Log (`XLog.kt`) | `level`, `records` | `print`, `updateLevel` | modelled: `XLog` |
| Deferred value (`util/DeferredValue.kt`) | `value`, `callbacks`, `waiters` | the setter, `whenInitialize`, `await` | modelled: `DeferredValue`, `OneShot` |
| Module activities (`support/ModuleContextWrapper.kt`, `support/InstrumentationWrapper.kt`) | `mProxyActivity`, the process's `mInstrumentation` | `startActivity`, `setProxyActivity`, `newActivity`, `callActivityOnCreate` | partly: `ProxyActivity` |
| Module and hooker API (`XposedModule.kt`, `XposedInterface.kt`, `hook/BaseHooker.kt`, `hook/HookerContext.kt`, `hook/InvokeInfo.kt`) | result, exception and arguments of one call | thin layers over the backends | partly: `HookedCall`, `CallContract`, `Dispatch` |
| Reflection helpers (`Reflect.kt`, `util/Primitives.kt`, ...) | lookup caches | `field`, `method`, `constructor`, `findInstances` | partly: `HeapVisit` |
| Native library (`src/native`) | global references, the functions found in libart, `gJvmti`, `gNextTag` and JVMTI's tags | loading and unloading, `Init`, `Cleanup`, `VisitHeapObjects`, `CallNonvirtualMethod`, `FindClassInitializer`, `SetEntryPointsToInterpreter`, `AllocObject` | partly: `HeapVisit`, `NativeLibrary`, `NativeCall`, `NativeBridge` |
| Annotation processor, Gradle plugin, JADX plugin | none at run time | build-time and editor code generation | not modelled |
| Hidden API stubs, xDL, JVMTI headers | | compile-time stubs; vendored code | not modelled |

How they interact:

- The framework makes one backend object (`Xposed` or `LSPosed`) and calls its
  lifecycle callbacks on the process's main thread. The backend calls
  `XposedKit.prepare()`, which uses the backend's own `hook()` to hook
  `Application.attach`, then the module's `onProcessLoaded` and
  `onPackageLoaded`.
- Module code calls `hook()` and `HookHandle.unhook()` from any thread. Hooked
  members are called from any thread of the host.
- `XLog.print` and `updateLevel` are called from any thread and call back into
  the backend's `printLog`.
- On hot reload the framework calls `onHotReloading` of the old code and
  `onHotReloaded` of the new code, which replays the lifecycle; `hook()` then
  takes over the hooks of the old code.
- `ModuleContextWrapper.startActivity` replaces the process-wide
  `Instrumentation`, which the host and other modules may replace too.
- `findInstances()` of both backends and `invokeSpecial`, `deoptimize` and
  `hookClassInitializer` of the legacy one call `NativeBridge`, from any thread.
  The hot reload of LSPosed calls `NativeBridge.Cleanup()`; the new code has a
  class loader of its own and loads its own copy of the library, and the old one
  is unloaded when its class loader has been collected.

What makes the behaviour hard:

- Almost nothing is locked. `hookedMembers` is a plain `HashMap`, a handle list
  is copy-on-write, but `indexOfFirst`, `size` and `add` are three accesses;
  `records` is synchronized but iterated without its lock; the listener tables
  are two maps; `previousHookHandles` are plain `ArrayList`s.
- Module code may throw from every callback, at every point of a lifecycle or a
  loop.
- Hot reload is a hand-over between two generations of code through the
  framework's state, with packages arriving and class loaders dying meanwhile.
- The native library works on tables it does not own: one tag per object for all
  threads that visit the heap, and a table of global references in which a place
  that was given back is given out again. What it finds in libart differs from
  one Android version to the next, and most of it is called untested.

For each component, what makes it correct:

- **Legacy registry**: a returned hook stays registered, bridged, ordered by
  priority and called until it is unhooked; an unhooked one is not called by a
  later call; nothing is left of a member without hooks.
- **LSPosed**: after a reload the framework runs exactly the hooks the new code
  holds, each handle stands for its own hook, and packages stay known.
- **Application listeners**: a listener is called as often as it was registered,
  and a registration is not lost.
- **Log**: no message is printed twice; one the level lets through is printed.
- **Deferred value**: one value, each client given it exactly once.
- **Module activities**: each started activity is the module's class, prepared
  by one wrapper, through a proxy of the right launch mode.
- **Start-up**: the module is told of its process once, before any package, and
  with `Application.attach` hooked by then.
- **Native library**: its references live as long as it is used; a heap visit
  finds instances of its class, and visits that overlap miss none between them;
  it ends the process only for want of what the device lacks, or by deleting
  references twice after a hot reload; `invokeSpecial` comes to what reflection
  would. **Dispatch**:
  where module code may rely on both backends to treat its callbacks alike
  (order, result, exception, arguments), and what each does otherwise.

`PROJECT.json` lists the hazards, each at its line, with the properties that
cover it.

## 2. Modules and how they correspond to the code

Common conventions. A shared access (one map operation, one read or write of a
list, one synchronized block) is one action; what lies between two of them is a
program counter. `pc[t]` is where thread `t` is inside an operation, and an
operation that returns or throws clears the thread's locals (`Done`). Variables
commented *ghost* record history for the properties; no guard reads them.
Definitions commented *Faulty variant* are mutations that show that a property
can fail; no specification uses them.

### `HookRegistry` (`impl/Xposed.kt` 59-153)

`hookedMembers`, `handles` and `bridged` are the map, the handle lists and the
framework's registration of `xcallback`. A handle and a `HookedMember` are
numbered by the `hook()` call that makes them.

| Action | Code |
|---|---|
| `HookLookup` | `getOrPut` reads the map |
| `HookBridge`, `HookBridgeThrows` | its default: `XposedBridge.hookMethod`, which may refuse |
| `HookPut` | `getOrPut` writes the map |
| `HookIndex`, `HookSize` | `indexOfFirst { it.priority < priority }`, `?: handles.size` |
| `HookAdd`, `HookAddThrows` | `handles.add(insertIndex, handle)` |
| `UnhookRemoveIf` | `removeIf { it.callback == callback }` on the list the closure captured |
| `UnhookIsEmpty`, `UnhookRemove`, `UnhookBridge` | the three steps that give a member up |
| `CallEnter`, `CallLookup`, `CallHandle` | a call of the member: `runCallback` for each phase |

`Sublists` holds the one data operator: the elements of a list that pass a test,
in order (a loop with `continue`, and `removeIf`). It is defined without
recursion so that it can be proved about.

What the code promises depends on which operations overlap; the ghosts
`overlapped` and `raced` make that exact. A handle may be lost only on a member
on which a `hook()` overlapped an `unhook()`, two first `hook()` calls
overlapped, or a handle of a replaced `HookedMember` was unhooked again. Two
`hook()` calls of a member that is hooked already never lose a handle; they may
only disturb the order.

### `HotReload` (`impl/LSPosed.kt` 54-182, 216-245, 255-392)

The framework's side is `live`, the hooks it runs; `by` and `gen` tell whose
hooker a hook runs. `HookStart` ... `HookCreate` are `hook()` and
`hookClassInitializer` with every access of the unsynchronized lists a step of
its own (find, read, shift, replace). `Identifier` is the equality of
`HookIdentifier`.
`SavePackages`, `ClearPackages`, `Cleanup` are `onHotReloading`;
`HotReloaded`, `Prepare`, `ProcessLoaded`, `ReplayPackage`, `EndReplacing`,
`Flatten`, `UnhookOld`, `EndReload` are `onHotReloaded`; `ModuleThrows` is an
exception of the module out of it. `InitThrows` is one of `XposedKit.init` (301),
where the new code's library loads and gets no JVMTI environment: `phase` is
`"unstarted"` from then on, since the new object has no `processName` and its
lifecycle callbacks throw before they reach the module; the old hooks stay and
the saved packages are lost. `HotReloaded` covers the other outcomes of `init`:
each generation's library may load or be missing.

`Normalized` is in `Priorities`, with the range of `Int` it must not leave.

### `HookedCall`, `LegacyCall`, `ChainCall`, `CallContract`, `Dispatch`

One call of a hooked member, from the caller to the caller. `HookedCall` is what
both backends are given: the hooks of the member, what their callbacks do
(assign an argument, set `info.result`, throw), whether the original throws, and
whether the member is a class initializer. Values are abstracted to who made
them, which is all the backends can tell apart.

- `LegacyCall` (`impl/Xposed.kt` 66-99, 155-189): `StartPhase`, `RunCallback`,
  `EndPhase` are `runCallback`, run once before and once after the original over
  `param`, whose setters clear each other (`WithResult`, `WithThrowable`).
- `ChainCall` (`impl/LSPosed.kt` 404-450): `pos` walks in and out of the nested
  links; `BeforeProceeds`, `BeforeEnds`, `AfterProceeds`, `AfterReturns` are the
  branches of `intercept`. `passed` is the argument array handed inward.
- `CallContract` is what a module may rely on in a single call, on whichever
  framework it runs: every callback at most once, those of a type in the order
  of the priorities asked for; no BEFORE callback after one that threw; the
  original only if none decided the call, then after all BEFORE callbacks and
  with the argument as the last of them left it; no AFTER callback left out
  after the original, unless one throws; and an outcome that some callback or
  the original wrote and that no later one had to replace. It leaves open where
  the backends differ: which callbacks a decided call leaves out, and which of
  several outcomes wins.
- `Dispatch` instantiates the contract for each backend (`LegacyContract`,
  `ChainContract`), mapping what was called, the argument on its way in, what
  the original was given, and what the caller gets. A step that ends a phase, or
  a link that lets the call pass, is a stutter of the contract or changes
  nothing but the answer. It also composes the two over the same hooks and
  compares them. It makes
  exact what the backends agree on and where they do not: the legacy backend
  drops an exception if a result was set in the same phase, and calls every
  AFTER hook after a BEFORE hook has ended the call; LSPosed keeps an exception
  whatever an AFTER hook sets, and calls only the AFTER hooks further out.

### `AppAttach` (`XposedKit.kt` 30-65, 222-237)

Two maps and listener sets shared by reference: `table[p]` is the number of the
set registered for `p`, `sets[n]` its content, so that a thread may add to a set
that another thread has already taken out of the table.

### `DeferredValue` and `OneShot` (`util/DeferredValue.kt`)

`OneShot` is the abstract promise: the value is set once, clients ask, and each
client that has asked is given the value once. `DeferredValue` is the code: the
locked parts, the copies served outside the lock, and the read of `await`
without the lock, which may miss a value already set. The refinement maps
`asked` to the clients whose call has begun.

### `XLog` (`XLog.kt`)

`UpdateIterate`, `UpdateNext`, `UpdateThrows` model `ArrayList`'s fail-fast
iterator over the list another thread appends to.

### `ProxyActivity` (`support/ModuleContextWrapper.kt`)

`stack` is the nesting of `Instrumentation` objects, outermost first.
`Candidates` and `Valid` are the three queries with `filterVaild`; `Preparing`
tells which of the wrappers on the way prepare an activity.

### `Startup` (`impl/Xposed.kt` 34-57, 261-302; `impl/LSPosed.kt` 216-253; `XposedKit.kt` 33-69, 122-161)

One process under one backend. `Construct`, `InitZygote`, `HandleLoadPackage`
are the callbacks of the legacy framework, `OnModuleLoaded`, `OnPackageReady`,
`OnSystemServerStarting` those of LSPosed. Each leaves in `todo` the callbacks
it makes of the module; `MountThrows`, `CallModule`, `ModuleThrows` are one
`XposedKit.mount` each, and an exception ends the framework's callback but not
the process. `moduleSource` and `processName` are whether the fields are set:
reading them before throws, which is what decides `Construct` without the native
library and `OnPackageReady` after a failed `onModuleLoaded`.
`ProcessFirstAndOnce` names the cases in which a module is told of a package
without its process; the one a module must know is a process whose first package is its own, where the
legacy backend never calls `onProcessLoaded` nor hooks `Application.attach`.

### `HostProcess` (`XposedKit.kt` 49-69, 222-237, with both of its parts)

`Startup` and `AppAttach` in one process; each step is a step of one of them and
leaves the other's variables alone (its definitions have names of their own,
`StartInit` ... `StartSpec`, so that a module may extend both; `HostPackages`
declares the packages the two speak of). They meet in two places. The start
decides when code of the module first runs (`mounted`), and only that code
registers listeners (`ModuleRegisters`); and `prepare()` hooks
`Application.attach` (`attachHooked`), without which `ApplicationAttaches` runs
no callback. `RegisteredIsReached` is what a module gets of the two together: a
listener is reached, except where the legacy backend has left
`Application.attach` unhooked, in the system server and in a process that the
module's own package started.

### `HeapVisit` (`src/native/src/main/cpp/xposedkit.cxx` 201-274)

`VisitHeapObjects`, behind `findInstances()`. Each call of JVMTI is one action:
`Begin` takes a tag, `Tag` marks the instances, `Get` asks for the objects with
the tag, `Array` makes the array, `Store` moves one object into it and takes its
tag off, `Return` hands it over. `Fail` is every early return before the loop;
the one in the loop is a branch of `Store`, and a consequence of
`FindsOnlyInstances` is that it is never taken. `Allocate` and `Collect` are the
program and its garbage collector. A visit that marks over another's mark takes
the object from it, and one that takes a tag off may lose it to another:
`owed` and `InCharge` say who has to return what. A single visit may return too
little; `MarkedIsReturned` says that no object is lost to all of them.

### `NativeLibrary`, `NativeCall`, `NativeBridge` (`xposedkit.cxx`, `jni_helper.cxx`, `java_primitive.cxx`, `art/`)

`NativeLibrary` is the library in its process, one copy per generation of the
module's code.

| Action | Code |
|---|---|
| `Load`, `LoadFails` | `System.loadLibrary`: the static pointers (`symbol_resolver.cxx` and its users), `JNI_OnLoad`, `InstallJniHelper` |
| `Init` | `NativeBridge.Init()`: `ArtMethod::Init`, `EnsurePluginLoaded`, `gJvmti` |
| `Cleanup` | `NativeBridge.Cleanup()` at a hot reload; the next generation takes over |
| `Unload` | `JNI_OnUnload` of a replaced copy, which deletes the references once more, or ends the process in trying |
| `VisitHeapObjects`, `FindClassInitializer`, `SetEntryPointsToInterpreter` | what each asks of pointers and references; `Die` where one is null or stale |
| `Take`, `GiveBack` | other code's global references |

A global reference is a place in the table and a serial number, which JNI counts
up modulo `Serials` whenever the place is given out, so that an old reference
denotes nothing until the number comes round (`Wrapped`). JNI promises nothing of
deleting a reference that is gone. `DeleteAborts` is what ART does: it
overlooks the second deletion while the place is free, takes it for one of the
new reference where the serial numbers agree, and otherwise aborts; with JNI
calls checked it aborts in any case. A platform is what
libart has of the functions the library looks up, whether JVMTI loads, is
refused or has no environment, and whether JNI calls are checked.

`Cleanup` and `JNI_OnUnload` both delete the references, as neither clears the
variables (`xposedkit.cxx` 42-49, 75-77). So after a hot reload a device that lacks
nothing may lose its process when the old code is unloaded: `EndsOnlyForCause`
names this (`LateUnload`) with the other causes, and says that there is no
further one.

`NativeCall` is one `invokeSpecial`: `Start`, `Convert` (once per argument),
`Invoke` and `Box` are `CallNonvirtualMethod`; `InvokeDirectly` is what happens
without the library. A jvalue is abstracted to the field that was written, a
type to how the code tells it apart. `GetPrimitiveType` compares with the boxes'
classes, so an `int` is passed as a reference and an `Integer` as a primitive:
`Confused` names the calls whose outcome depends on that, or on an argument of a
class nobody checks, and `AsReflection` says what holds of all others.

`NativeBridge` composes the two: the call goes through the library while it is
ready, relies on its references, and reflects where it is missing.

## 3. Runs

| Run | Question | Instance |
|---|---|---|
| `hook_registry` | Are returned hooks effective, ordered, called; is nothing left behind? | 2 threads, 1 caller, a hookable and a refused member, 3 requests, 3 `hook()`, 2 `unhook()` |
| `hot_reload` | Which hooks run after a reload, with a worker hooking meanwhile; do packages stay known, even where the new code does not start? | 1 worker, 2 reloads, 6 `hook()`, 3 requests: a class initializer and two priorities; 2 packages, with 3 `hook()` where one arrives (a constraint) |
| `app_attach` | Is a listener called as often as it was registered, and eventually? | 2 + 2 threads, 2 listeners, 3 registrations, 2 attaches, 1 unregistration |
| `deferred_value` | Does `DeferredValue` implement `OneShot`, liveness included? | 2 setters, 2 callbacks, 2 awaiters, 2 values |
| `dispatch` | Does each backend keep the contract of a call, and what do they agree on beyond it? | every call with up to 3 hooks out of 27 kinds, with and without an exception of the original, ordinary members and class initializers |
| `xlog` | Is each message printed once? | 2 threads, 2 levels, 3 messages, 2 updates |
| `proxy_activity` | Who prepares an activity? | 2 wrappers, 3 hosts, 3 targets, 2 starts, 1 foreign wrapper |
| `proxy_launch_mode` | violation, see Findings | the same |
| `startup_no_native` | violation, see Findings | `Startup` alone, with the same packages and loads as `host_process` |
| `host_process` | Is the module told of its process first and once, and is a listener reached that it registered from a callback of its start? | both backends, app and system server, 3 packages (its own and two others), 3 loads; 1 + 1 threads, 1 registration, 1 attach, 1 unregistration |
| `heap_visit` | What do overlapping heap visits find, and what do they leave? | 3 threads, 2 objects, a class and its subclass, 4 visits |
| `native_bridge` | Do references live as long as they are used, what can end the process, and what does `invokeSpecial` come to? | 2 generations, 4 places of the table (symmetric), each given out 4 times, 2 serial numbers; 8 devices, both backends; calls with up to 2 arguments |

Why the bounds are enough. Every race of the code is between two operations, or
between two operations and a call; two threads and a caller reach each. Three
`hook()` calls give a member two handles and a later one that meets what an
`unhook()` left, and a member registered a second time. In the reload runs, a
`hook()` is made in `prepare()` per generation, which leaves enough calls for
the module to hook, to hook again with an identifier that collides, and for one
call more or fewer than before. Two reloads show what the first one left. The
requests include a callback shared by two handles and a class initializer, and
one request made twice gives two hooks of one identifier. In `dispatch` three
hooks are two that write and one that looks on, or two that tie and one between
them; the priorities are the ends of the range, two that become one, and one
below them. In `host_process` three loads put the module's own package first, between or last, and the one
registration may come before, during or after the one attach, and be dropped
by the unregistration; what threads do to each other is `app_attach`'s
question. Three heap visits at once are one in each part of the loop or two
against one, and the fourth meets the tags that a failed one left. In
`native_bridge` a place is given to the old copy, to other code and to the new
copy, and its serial number comes round while the old copy waits to be
unloaded, or the place stays free; two arguments are one before and one after a failed conversion. The
passing runs together fire every action, the throwing ones included.
`CHECK_DEADLOCK FALSE` is set where every behaviour ends when the bounds are
used up; `heap_visit` goes on (objects come and go), and checks deadlock.
The type invariants of `Startup`, `ProxyActivity`, `DeferredValue`,
`HookRegistry`, `HeapVisit` and `Dispatch` are proved for every instance and
not checked again by a run.

Symmetry (threads, objects, the host's packages, places of the table) is used only in runs without
liveness properties, and a constraint in two: the packages of a reload and its hooks meet only in
the order of the replay, so many of both at once show nothing new; and other
code's global references are followed under LSPosed only, whose hot reload is
what deletes some, while the calls of the bridge are the legacy backend's.

### Fairness

`AppAttach` and `DeferredValue` assume weak fairness of the steps *inside* an
operation that has begun: no such step waits for more than a short
`synchronized` block in which nothing blocks, so a thread that is scheduled
goes on. Beginning an operation (`Register`, `Attach`, `Set`, `Await`,
`WhenInitialize`) is never assumed: that is up to module and host. A listener
that never returns is outside the model.

### Findings

- `proxy_launch_mode`: the proxy is chosen by the launch mode of the *first*
  target and reused for all later ones (`ModuleContextWrapper.kt` 177), where
  the comment on the filter (166) says that activities of another launch mode
  are left out.
  It does not show while each wrapper starts targets of one launch mode.

- `startup_no_native`: without the native library the legacy backend's
  constructor throws, since the warning it logs (`XposedKit.kt` 40-45, "some
  features may not work properly!") is formatted with the module's package name,
  which needs `moduleSource` (`impl/Xposed.kt` 54-56) and so `initZygote`, which
  has not run. The module is not started at all. Under LSPosed it is.

The overlaps that `raced`, `overlapped`, `excused` and `missed` except are
races the code allows and no text of the repository denies; they are listed as
hazards and delimited by the properties.

## 4. Proofs

All proofs hold for every value of the constants that meets the modules' named
assumptions (thread sets disjoint, bounds natural numbers, requests well-typed,
`Null` not a value), so for any number of threads, members, calls or clients.
The bounds on the number of operations stay as arbitrary constants; `HotReload`
needs one hook at least, which `prepare()` makes. Where an invariant is not
inductive, the strengthening below was checked by TLC on the run of its module
before it was proved.

**`HookRegistryProofs`.** First the operator the lists are built with: every
finite set of positive integers has an increasing enumeration (by a least
counterexample) that reaches all of it, and so `Sublist(s, S)` picks from `s`,
in order (`SublistPicks`), exactly the elements in `S` (`SublistRange`). Then:

- `TypeCorrect`: `TypeOK` strengthened to `TypeInv`. `TypeOK` alone is not
  inductive: that a handle is bound when it is added needs where the threads
  are, that numbers are those of past `hook()` calls, and that a list holds its
  own handles only.
- `RemovalByUnhook` (`RemovedOnlyByUnhook`): inductive over `TypeInv`, from what
  the two steps that change a list leave in it (`AddRange`, `RemoveRange`).
- `UnhookedStaysUncalled` (`UnhookedNotCalledAnew`): from `Fresh` (numbers of
  handles in the making are new), `Gone` (a handle that `unhook()` was called on
  is in no list, for what is added later has another number) and `Rested` (a
  loop that has ended has nothing left). It holds whatever overlaps.
- `HookStaysEffective` (`WantedHandleEffective`): from `OwnerInv` (a
  `HookedMember` is for one member) and, for each member not in `raced`,
  `Effective`: the handles in a list are in the registered one (`Settled`); a
  thread in `hook()` holds the registered `HookedMember` or is the only one
  about to register one (`HookOK`); a thread in `unhook()` meets no `hook()` and
  gives up an empty member only (`UnhookOK`). A step on another member changes
  none of this (`OtherMember`), which is where `OwnerInv` is needed: two members
  never share a list.
- `WantedIsCalled` (`WantedHandleCalled`): a call starts with the list that
  `HookStaysEffective` says the handle is in, `SublistPicks` says that the phase
  keeps it, and it is there once since a list has no number twice
  (`DistinctInv`, from `Fresh`).
- `DescendingPriority` (`HandlesInOrder`): from `OrderInv`, for the members on
  which no operation overlapped a `hook()`. Their registered list is ordered
  (`InOrder`, ties by number); a thread inside `hook()` is the only one there
  (`Alone`), has the registered list in hand, and the place it has found for its
  handle is still the right one (`PlaceOK`); a list in the making is not used
  until it is put in the map (`UnusedUntilPut`).
- `Forgotten` (`NothingLeftBehind`): from `TidyInv`. What nothing needs, an
  entry of the map or a registration with the framework, is about to be removed
  by an `unhook()` that has found the list empty (`Tidy`), so with all threads
  idle there is none.

**`DispatchProofs`.** About the order the backends are asked for: for every
default and every `Int`, the priority given to the framework stays in range
(`NormalizedInRange`), BEFORE hooks keep their order (`BeforeKeepsOrder`) and
AFTER hooks reverse theirs (`AfterReversesOrder`). About a call, for any set of
hooks:

- `CalledInOrder` (`SameOrder`): over `IInv`. The chain is sorted (`ChainOK`),
  what was called lies on the side of `pos` it must (`CalledOK`), and two
  callbacks of a type were called as their hooks are nested (`NestedOK`); the
  lemmas about `Normalized` turn nesting into the order the module asked for.
- `ExceptionDelivered` (`LegacyExceptionDelivered`) and `ClinitRuns`
  (`ClinitUntouched`): over `LegacyInv`, which says where the legacy call is
  (`CallOK`), that `param` has a result or an exception but not both
  (`ParamOK`), which callback called so far wrote it (`WrittenOK`), and what the
  class loader is given (`ClinitOK`).
- `OnceOrCutOff` (`CalledOnceOrCutOff`): over `ReachInv`. Each place of the
  chain was reached on the way in exactly if it lies outward of where the call
  turned (`InwardOK`, `TurnedAt`); each place of the legacy phase, in its order.
- `SameOriginal` (`SameOriginalCall`): whether the original is called, and with
  which argument (`RanOK`, `ArgsOK`): the last hook that assigns it in either
  order is the same one unless normalizing has made two priorities one.
- `SameOutcomes` (`SameOutcome`): over `OutcomeInv`. With one hook that writes
  (`OneWrites`), both backends have, before and after it, the outcome that it
  and the original decide (`Wrote`, `QuietClinit`).
- `LegacyKeeps` and `ChainKeeps` (`LegacyKeepsContract`, `ChainKeepsContract`):
  each backend refines `CallContract`, from initial state to initial state and
  step to step or stutter. The legacy call needs one more invariant,
  `ClinitRanOK`, since `RanOK` says nothing of a class initializer's callbacks:
  each is called once or still to be called from its phase on. The chained call
  needs `OutcomeFrom`: on its way out, the outcome is one that the callbacks
  called so far or the original wrote (`AnswerIn`, `WroteIt`, `Turned`,
  `Stays`). That a callback may be called where the contract says so
  (`LegacyMayCall`, `ChainMayCall`) rests on the order of the phase and on
  the places in the chain; that the last step has one of the contract's answers
  (`LegacyAnswers`, `ChainAnswers`) on `ReturnedOK` and on `TurnedAt`.
- `DispatchTyped` follows from these; `ExceptionStays` (`ChainExceptionStays`)
  needs no invariant.

`LegacyCall`'s order of hooks is a filter on `SetToSeqs` and not a sort, so that
the proofs can ask of it what it promises: all hooks, none before one it must
follow.

**`DeferredValueProofs`.** `IInv` says for each client which of four situations
it is in (before its lock, value in hand, waiting on exactly one list, served)
and that only the setter that set the value has copies. From it: `TypeCorrect`,
`NoLostWakeup` (`WaitingOnOneList`) and `Refinement`: every step is a step of
`OneShot` or a stutter, so `Spec => Promise!Safety`.

**`XLogProofs`.** `TypeCorrect`, from `TypeInv`. `PrintsOnce`
(`PrintedAtMostOnce`), over `OnceInv`: a hidden record was not printed before and
one about to be printed is no longer hidden (`Unprinted`); while no two
`updateLevel()` overlapped, only one thread replays (`OneUpdate`) and what it has
in hand was not printed (`PrintedOnce`). `PrintsWhatIsLetThrough`
(`LetThroughIsPrinted`), over `KeptInv`: a record that is kept although the level
lets it through is still ahead of the `updateLevel()` that set the level, and one
no longer hidden is printed or about to be (`Kept`); the level has not changed
between the test in `print()` and its `records.add` unless the record is one the
race excuses (`InPrint`).

**`ProcessProofs`**, for the modules about the process of the host.

- `TypeCorrect` of `AppAttach`, from `TypeInv`: in addition, two threads never
  make the same registration.
- `CallsTheRegistered` (`RegisteredIsCalled`): over `KeptInv`. A registration
  under way that no attach has overtaken adds to the set in the table
  (`Waiting`); a listener whose registration returned was called, or is on its
  way (`Kept`, `OnItsWay`): in the set in the table, or in what a thread of the
  application has taken from it and still has to call.
- `CallsOncePerRegistration`: over `SetInv` and `CountInv`. A set is in the
  table or in one thread's hands, never in two places (`SetInv`), so the calls
  made of a listener, the threads that hold it to call it, and one more if it is
  in the table, are together no more than its registrations (`CountInv`), counted
  with the library's theorems on cardinality.
- `ProcessComesFirst` (`ProcessFirstAndOnce`): from the first package (legacy) or
  from `processName` on (LSPosed), the module has been told of its process, is
  about to be, or could not be made, and whatever else is to be told comes after
  (`FirstOK`); the process is to be told of only if it was not (`OnceOK`).
  `HookedBeforeTold` (`AttachHookedFirst`): `Application.attach` is hooked at
  those same points (`HookedOK`). `NewOK` says that nothing is told before.
  `StartTyped` gives the types.
- `HostImplementsParts`: a step of `HostProcess` is a step of `Startup` or a
  stutter, and a step of `AppAttach` or a stutter, so `HostSpec` implies
  `StartSpec` and `AppAttach`'s safety, and each invariant above holds of the
  composition without a second proof.
- `ListenersAreReached` (`RegisteredIsReached`): from `KeptInv` and `HookedOK`
  of the parts, and from what relates them. No application attaches before the
  first load, and from that load on `Application.attach` is hooked for good or
  never, so where it is hooked every application that has attached is in
  `attachedApplications` (`AttachedOK`); nothing is registered before code of the
  module runs, which with LSPosed and outside of the system server means that
  `onModuleLoaded` succeeded (`MountedOK`). `StartEffect` is what a step of the
  start may do to what both parts see.
- `OneWrapperPrepares` (`PreparedByOneWrapper`): from the first start on a
  wrapper is in the stack (`StackOK`); while nothing else is there it is alone
  and that of the first start (`FirstAlone`), and has prepared all that was
  launched meanwhile (`LaunchedOK`). `ProxyTypeCorrect` gives the types. `Preparing`
  picks the first wrapper with `Min`, which `Least` says returns an element.

**`HotReloadProofs`.** A reload of any number of hooks, on any members.

- `TypeCorrect`: what the backends, the framework and the replay hold is typed;
  identifiers are those of requests (`TypeInv`).
- `PackagesStayKnown` (`PackagesCarriedOver`): a package whose class loader lives
  is known to the running code or is in the replay's list (`PackagesInv`).
- `HandlesStayLive` (`HandleIsLive`), `OnlyHeldStayLive` (`OnlyHeldHooksLive`) and
  `ReplacedFirst` (`ReplacedBeforeMade`): over `ReloadInv`. Numbers of hooks are
  new (`NumbersInv`), each hook and each handle is one member's (`OwnerInv`), and
  for each member no two calls overlapped on, `MemberOK`: its list of old handles
  has none twice (`ListOK`), the old and the new handles and those in the making
  are different hooks (`HandlesOK`), these are the hooks that live (`LiveOK`), and
  where a thread in the middle of a replacement is (`CallsOK`). New code that
  `init` left unstarted has no handles and no hook in the making
  (`Unstarted`). A step concerns
  one member and leaves the others as they are, which splits the proof.

**`HeapVisitProofs`.** `HeapVisitTyped`; then `Inv`: no two running visits have
the same tag (`OwnTag`), nothing has the tag of a visit that has not marked yet,
and what has it afterwards is an instance of its class (`TagMeansInstance`).
This gives `VisitsFindOnlyInstances`, and that a store never fails. `Charge` adds
that each tag and each object that is owed is in some visit's charge or was a
failed one's; as an idle visit is in charge of nothing, `VisitsReturnTheMarked`
and `VisitsLeaveNoTag` follow.

**`NativeBridgeProofs`.** `RefsInv` says of each reference at which use of its
place it was made and that the place is free if its library is no longer in use
and nobody has had it since (`Given`), that a place is held only while a
reference denotes it (`Held`), and that a library in use has its references
(`Has`). Two uses no more than `Serials` apart differ in the serial number
(`SerialsDiffer`), so a second deletion that does not end the process takes
nothing from the copy in use unless the number has come round
(`OldDenotesNothing`): `ReferencesLiveExactly`. `EndsForKnownCauses`
(`EndsOnlyForCause`) adds `Found`: the pointers of a library in use are what the
platform has, and only LSPosed's code is replaced. By `Has`, a reference that is
gone in the copy in use is `Lost` (`GoneIsLost`), and an end changes nothing else,
so its cause may be looked for in the state before it (`DiesAccounted`). `CallInv` follows a call of `invokeSpecial` through
its conversions, for any number of parameters; that the library neither comes nor
goes while one runs (`LibraryKept`) needs that hot reload is LSPosed's. From it:
`BridgeTyped` and `PlainCallsAsReflection`.

So every safety property that a run checks is proved. Only model-checked:

- the liveness half of `KeepsPromise` and `RegisteredEventuallyCalled`, as the
  prover does neither liveness under fairness nor ENABLED;
- the two violations, which are counterexamples.

Out of the provers' reach as well, and so avoided where a proof depends on it: the
value of what is defined by recursion (`SelectSeq`, a fold). `HotReload`'s fold
only enumerates the orders; a filter around it (`Grouped`) says which the
framework may give, and the proofs use that filter alone (`GroupedOld`).

## 5. Abstractions

- A single call of a `HashMap`, `ConcurrentHashMap`, `CopyOnWriteArrayList` or
  of one `synchronized` block is atomic. Corruption inside an unsynchronized
  `HashMap` by two writers is not modelled. In `HotReload` the `ArrayList`
  removal is two steps, since there the lists are the point.
- Fields are read and written in program order, except `DeferredValue`'s
  unlocked read, which may be stale.
- Callbacks and listeners are opaque: they return or throw; in `Dispatch` they
  also assign an argument and set a result, the same under both backends
  whatever they are shown. Its hooks do not change during a call (`HookRegistry`
  covers that), and hooks of other modules are left out.
- `HotReload`: a reload the module refuses changes nothing and is a stuttering
  step. The framework stops the old code before it calls the new one.
  `onSystemServerStarting` during a replay is one more package. Failure to read
  the saved state, and a package registered while `savedInstanceState` is being
  written, are left out. So are the parts of the replay that restore the saved
  context and the attached applications (`LSPosed.kt` 343-346) and register the
  attach listener (78-80); no property depends on them.
- `Startup`: both frameworks are taken to catch what a callback throws and to go
  on. A module package that cannot be parsed, and a failure of the hook in
  `prepare()`, are left out.
- `HostProcess`: the first load of a package comes before the first return of
  `Application.attach`, as both frameworks load packages before the host's code
  runs. Hot reload is left out, since it gives the new code tables of its own.
- `AppAttach`: a listener set is a set; the order of its elements is left open.
- `DeferredValue`: the lists of callbacks and waiters are sets.
- `ProxyActivity`: `startActivity` is one step (it runs on the main thread), and
  the preference for exported activities is left open.
- `HeapVisit`: a call of JVMTI is atomic, and the 64-bit counter of tags does not
  come round. `GetErrorName` and the text of errors are left out.
- `NativeLibrary`: the table of global references and what libart holds are
  external, modelled from how the code uses them; that ART meets a stale
  `DeleteGlobalRef` as `DeleteAborts` has it is an assumption. Two classes stand for the
  thirteen, one that `Init` uses and one that every later call does; method and
  field IDs need no reference. The throw out of a static initializer where
  libart cannot be opened ends the process. A collection of environments
  JVMTI hands out (one per generation, never disposed of) is left out.
- `NativeCall`: values are left out. A void method is called through JNI's
  function for objects, which makes null of what comes back. An outcome JNI
  promises nothing of is `"undefined"`, whatever the build makes of it.
- Every bound is a constant named `Max...` and appears in one guard.

## 6. Not modelled

Resource, asset and layout-inflater plumbing, accessors, build tools, stubs and
vendored code: no state that interleaves, or nothing but calls into the
platform. Of the native library, `AllocObject` only hands its class to JNI, and
what ART's functions do inside depends on memory layouts TLA+ says nothing
about. The lookup of members in `Reflect.kt` is a search over class files, which
no module models; its caches hold what the search returned.

## 7. Plan

Done: `HookRegistry`, `HotReload`, `AppAttach`, `DeferredValue`/`OneShot`,
`XLog`, `ProxyActivity`, `Dispatch` with both backends, `Startup`, `HeapVisit`,
`NativeBridge` with the library and the call, `HostProcess`, `CallContract` and
the two backends as implementations of it, their runs, and the proofs of all
their safety properties. Next, in this order:

1. Pure models with reference definitions: method lookup and its caches
   (`Reflect.kt`), boxing tables (`util/Primitives.kt`).
2. Build pipeline: what the annotation processor, the Gradle plugin and the
   backends agree on (entry classes, manifest and resource files).
