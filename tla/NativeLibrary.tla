---- MODULE NativeLibrary ----
(***************************************************************************)
(* The life of libxposedkit.so in a process (xposedkit.cxx 22-89, 182-199, *)
(* 276-293, jni_helper.cxx and art/), and what it needs of the platform.   *)
(*                                                                         *)
(* Each generation of the module's code loads a copy of its own: loading   *)
(* looks up functions of libart and makes global references to classes,    *)
(* Init finds JVMTI, the hot reload of LSPosed has Cleanup delete the      *)
(* references, and when the class loader of the old code has been          *)
(* collected JNI_OnUnload deletes them once more.  Other code makes and    *)
(* deletes global references in the same table.                            *)
(*                                                                         *)
(* The table is external.  A reference is a place in it and how often that *)
(* has been given out, modulo Serials.  JNI leaves undefined what deleting *)
(* one does that is gone already: ART ignores it while its place is free,  *)
(* takes it for the new reference where the numbers are the same, and ends *)
(* the process otherwise; where it checks JNI calls, in debuggable apps,   *)
(* the process ends in the first case too.  The classes are those of       *)
(* Names; each stands for those used in the same places.  Method and field *)
(* IDs need no reference.                                                  *)
(***************************************************************************)
EXTENDS Naturals, FiniteSets

CONSTANTS
  MaxGenerations, \* bound: generations of the module's code
  Slots,          \* places in the table of global references
  Serials,        \* values of a place's serial number
  MaxUses,        \* bound: how often a place is given out
  Platforms,      \* the devices: what libart has, JVMTI does, and JNI checks
  Nobody, Others  \* a free place; other code

Names == {"Class_Throwable", "Class_Executable"}
Generations == 1..MaxGenerations

\* The function for class initializers, of Android 8 and above or of 7 and below
FindClassInitializers ==
  {"FindClassInitializer(PointerSize)", "FindClassInitializer(size_t)"}

RuntimeSymbols == {"instance_", "EnsurePluginLoaded"}
ThreadSymbols == {"CurrentFromGdb", "DecodeJObject"}

\* What the library looks up, of which a platform may lack some
Symbols == RuntimeSymbols \cup ThreadSymbols \cup FindClassInitializers
             \cup {"SetEntryPointsToInterpreter"}

ASSUME BoundsAssumption == MaxGenerations \in Nat \ {0} /\ MaxUses \in Nat
ASSUME SerialsAssumption == Serials \in Nat \ {0}
ASSUME PlatformsAssumption ==
  Platforms \subseteq
    [libart : BOOLEAN, symbols : SUBSET Symbols, jvmti : {"loads", "refused", "noEnv"},
     checkJni : BOOLEAN]
ASSUME HoldersAssumption == Nobody # Others /\ {Nobody, Others} \cap Generations = {}

VARIABLES
  backend, platform,
  gen,       \* the generation that runs
  image,     \* the library of each generation
  functions, \* what its static pointers to functions of libart found
  refs,      \* its references, by name
  gJvmti,    \* its gJvmti is not null
  holder,    \* the table: who a place has been given to
  uses,      \* the table: how often each place has been given out
  crash      \* what ended the process

process == <<backend, platform>>
table == <<holder, uses>>
vars == <<process, gen, image, functions, refs, gJvmti, table, crash>>

References == [slot : Slots, serial : 0..(Serials - 1)]

TypeOK ==
  /\ backend \in {"legacy", "lsposed"} /\ platform \in Platforms
  /\ gen \in Generations
  /\ image \in [Generations ->
       {"absent", "missing", "linked", "ready", "refused", "cleaned", "unloaded"}]
  /\ \A g \in Generations : g < gen <=> image[g] \in {"cleaned", "unloaded"}
  /\ \A g \in Generations : g > gen => image[g] = "absent"
  /\ functions \in [Generations -> SUBSET Symbols]
  /\ refs \in [Generations -> [Names -> References] \cup {<<>>}]
  /\ \A g \in Generations :
       image[g] \notin {"absent", "missing"} => refs[g] \in [Names -> References]
  /\ gJvmti \in [Generations -> BOOLEAN]
  /\ holder \in [Slots -> Generations \cup {Nobody, Others}]
  /\ uses \in [Slots -> 0..MaxUses]
  /\ crash \in
       {"no", "libart", "missingFunction", "noJvmti", "staleReference", "deletedTwice"}

InitLibrary ==
  /\ backend \in {"legacy", "lsposed"}
  /\ platform \in Platforms
  /\ gen = 1
  /\ image = [g \in Generations |-> "absent"]
  /\ functions = [g \in Generations |-> {}]
  /\ refs = [g \in Generations |-> <<>>]
  /\ gJvmti = [g \in Generations |-> FALSE]
  /\ holder = [s \in Slots |-> Nobody]
  /\ uses = [s \in Slots |-> 0]
  /\ crash = "no"

Alive == crash = "no"
Ready == Alive /\ image[gen] = "ready"
Become(i) == image' = [image EXCEPT ![gen] = i]

\* The process ends in native code.
Die(cause) ==
  /\ crash' = cause
  /\ UNCHANGED <<process, gen, image, functions, refs, gJvmti, table>>

Free == {s \in Slots : holder[s] = Nobody /\ uses[s] < MaxUses}
Denotes(r) == holder[r.slot] # Nobody /\ uses[r.slot] % Serials = r.serial

----
\* One free place for each class
Places == {p \in [Names -> Free] : Cardinality({p[n] : n \in Names}) = Cardinality(Names)}

\* FindClass's global reference, which place s is given out for
FindClass(s) == [slot |-> s, serial |-> (uses[s] + 1) % Serials]

\* Faulty variant: the local reference of the class is kept.
InstallLocal(p) ==
  /\ refs' = [refs EXCEPT ![gen] = [n \in Names |-> FindClass(p[n])]]
  /\ UNCHANGED table

\* InstallJniHelper: a NewGlobalRef for each class
InstallJniHelper(p) ==
  LET given == {p[n] : n \in Names}
  IN  /\ holder' = [s \in Slots |-> IF s \in given THEN gen ELSE holder[s]]
      /\ uses' = [s \in Slots |-> IF s \in given THEN uses[s] + 1 ELSE uses[s]]
      /\ refs' = [refs EXCEPT ![gen] = [n \in Names |-> FindClass(p[n])]]

\* Faulty variant: one class is forgotten.
UninstallSome(g) ==
  LET gone == {refs[g][n].slot : n \in {m \in Names \ {"Class_Throwable"} : Denotes(refs[g][m])}}
  IN  /\ holder' = [s \in Slots |-> IF s \in gone THEN Nobody ELSE holder[s]]
      /\ UNCHANGED uses

\* DeleteGlobalRef of r, which is gone, ends the process.
DeleteAborts(r) == ~Denotes(r) /\ (platform.checkJni \/ holder[r.slot] # Nobody)

\* UninstallJniHelper: a DeleteGlobalRef for each class; the variables stay.
UninstallAborts(g) == \E n \in Names : DeleteAborts(refs[g][n])

UninstallJniHelper(g) ==
  LET gone == {refs[g][n].slot : n \in {m \in Names : Denotes(refs[g][m])}}
  IN  /\ holder' = [s \in Slots |-> IF s \in gone THEN Nobody ELSE holder[s]]
      /\ UNCHANGED uses

\* SymbolResolver::Find, for each static pointer: null for what libart lacks
Find == platform.symbols

\* System.loadLibrary: the static pointers, whose initialisers throw where libart
\* cannot be opened, then JNI_OnLoad
Load ==
  /\ Alive
  /\ image[gen] = "absent"
  /\ IF ~platform.libart THEN Die("libart")
     ELSE /\ functions' = [functions EXCEPT ![gen] = Find]
          /\ \E p \in Places : InstallJniHelper(p)
          /\ Become("linked")
          /\ UNCHANGED <<process, gen, gJvmti, crash>>

\* UnsatisfiedLinkError: the library is missing, or JNI_OnLoad answers JNI_ERR.
LoadFails ==
  /\ Alive
  /\ image[gen] = "absent"
  /\ Become("missing")
  /\ UNCHANGED <<process, gen, functions, refs, gJvmti, table, crash>>

\* ArtMethod::Init asks Throwable for its constructors; nobody reads the size it
\* works out.
ArtMethodInit == Denotes(refs[gen]["Class_Throwable"])

\* NativeBridge.Init(): the size of an ArtMethod, then JVMTI.  Where that is
\* refused, gJvmti stays null; where it has no environment, Init throws and the
\* module does not start.
Init ==
  /\ Alive
  /\ image[gen] = "linked"
  /\ IF ~ArtMethodInit THEN Die("staleReference")
     ELSE IF ~(RuntimeSymbols \subseteq functions[gen]) THEN Die("missingFunction")
     ELSE /\ Become(IF platform.jvmti = "noEnv" THEN "refused" ELSE "ready")
          /\ gJvmti' = [gJvmti EXCEPT ![gen] = platform.jvmti = "loads"]
          /\ UNCHANGED <<process, gen, functions, refs, table, crash>>

\* Faulty variant: the old copy stays in use.
CleanupStillReady ==
  /\ Ready
  /\ backend = "lsposed"
  /\ gen < MaxGenerations
  /\ UninstallJniHelper(gen)
  /\ gen' = gen + 1
  /\ UNCHANGED <<process, image, functions, refs, gJvmti, crash>>

\* onHotReloading: NativeBridge.Cleanup(); then the new code takes over.
Cleanup ==
  /\ Ready
  /\ backend = "lsposed"
  /\ gen < MaxGenerations
  /\ IF UninstallAborts(gen) THEN Die("deletedTwice")
     ELSE /\ UninstallJniHelper(gen)
          /\ Become("cleaned")
          /\ gen' = gen + 1
          /\ UNCHANGED <<process, functions, refs, gJvmti, crash>>

\* The class loader of replaced code is collected: JNI_OnUnload
Unload(g) ==
  /\ Alive
  /\ image[g] = "cleaned"
  /\ IF UninstallAborts(g) THEN Die("deletedTwice")
     ELSE /\ UninstallJniHelper(g)
          /\ image' = [image EXCEPT ![g] = "unloaded"]
          /\ UNCHANGED <<process, gen, functions, refs, gJvmti, crash>>

----
\* What module code calls once its library is ready; nothing of the state here
\* changes unless the process ends.  Both backends have findInstances, which asks
\* only isLoaded; the others are the legacy one's.  Without the library each of
\* them throws UnsatisfiedLinkError or has an answer of its own.

VisitHeapObjects ==
  /\ Ready
  /\ IF gJvmti[gen] THEN UNCHANGED vars ELSE Die("noJvmti")

\* The functions that find the class initializer are there
InitializersFindable(symbols) ==
  ThreadSymbols \subseteq symbols /\ symbols \cap FindClassInitializers # {}

\* hookClassInitializer
FindClassInitializer ==
  /\ Ready
  /\ backend = "legacy"
  /\ IF InitializersFindable(functions[gen])
     THEN UNCHANGED vars ELSE Die("missingFunction")

\* deoptimize: false where the platform does not have the function
SetEntryPointsToInterpreter ==
  /\ Ready
  /\ backend = "legacy"
  /\ IF Denotes(refs[gen]["Class_Executable"]) THEN UNCHANGED vars ELSE Die("staleReference")

\* Other code takes and gives back global references.
Take(s) ==
  /\ Alive
  /\ s \in Free
  /\ holder' = [holder EXCEPT ![s] = Others]
  /\ uses' = [uses EXCEPT ![s] = @ + 1]
  /\ UNCHANGED <<process, gen, image, functions, refs, gJvmti, crash>>

GiveBack(s) ==
  /\ Alive
  /\ holder[s] = Others
  /\ holder' = [holder EXCEPT ![s] = Nobody]
  /\ UNCHANGED <<process, gen, image, functions, refs, gJvmti, uses, crash>>

LibraryNext ==
  \/ Load \/ LoadFails \/ Init \/ Cleanup
  \/ \E g \in Generations : Unload(g)
  \/ VisitHeapObjects \/ FindClassInitializer \/ SetEntryPointsToInterpreter
  \/ \E s \in Slots : Take(s) \/ GiveBack(s)

----
\* The serial number of this place has come round.
Wrapped(s) == uses[s] > Serials

InUse(g) == image[g] \in {"linked", "ready", "refused"}

\* The library has a live reference of its own to each class from JNI_OnLoad to
\* Cleanup, and none after, although each reference is deleted twice: where the
\* process goes on, the second time takes none from the copy in use, unless its
\* place has been given out more than Serials times.
\* (jni_helper.cxx 80-137, xposedkit.cxx 42-49, 75-77)
RefsLiveExactly ==
  \A g \in Generations :
    IF InUse(g)
    THEN \A n \in Names :
           LET r == refs[g][n]
           IN  (Denotes(r) /\ holder[r.slot] = g) \/ Wrapped(r.slot)
    ELSE \A s \in Slots : holder[s] # g

\* A reference of the running copy was lost: its place's number has come round.
Lost == \E n \in Names : Wrapped(refs[gen][n].slot)

\* JNI_OnUnload of an old copy meets a reference Cleanup has deleted.
LateUnload ==
  \E g \in 1..(gen - 1) : image[g] = "cleaned" /\ UninstallAborts(g)

\* The library ends the process only so: by a null function where libart, one of the
\* runtime's functions or, under the backend that uses them, those for class
\* initializers are missing, but never for want of deoptimize's; by a null gJvmti
\* where JVMTI is refused; by a reference of the running copy that is gone only if
\* a serial number has come round, be it in use or deleted for the first time; and
\* by JNI_OnUnload's second deletion, after a hot reload of LSPosed.
\* (xposedkit.cxx 42-77, 184-199, 203-220, 278-293, jni_helper.cxx 122-137,
\* class_linker.cxx 18-26, class.cxx 22-38, thread.cxx 14-25)
EndsOnlyForCause ==
  \/ Alive
  \/ crash = "libart" /\ ~platform.libart
  \/ /\ crash = "missingFunction"
     /\ \/ ~(RuntimeSymbols \subseteq platform.symbols)
        \/ backend = "legacy" /\ ~InitializersFindable(platform.symbols)
  \/ crash = "noJvmti" /\ platform.jvmti = "refused"
  \/ crash = "staleReference" /\ Lost
  \/ crash = "deletedTwice" /\ backend = "lsposed" /\ (LateUnload \/ Lost)
====
