---- MODULE MCNativeBridge ----
(***************************************************************************)
(* Two generations of the module's code and other code share four places   *)
(* of the table, no place unlike another, whose serial number has two      *)
(* values: a place can be given out again, or not, and its number can come *)
(* round, while an old image waits to be unloaded. The platforms are those *)
(* the code tells apart: Android 7, with neither JVMTI nor the loader of   *)
(* plugins, 8 to 12, 13 and above, without SetEntryPointsToInterpreter, a  *)
(* later one on which the lookups fail, one that refuses JVMTI or has no   *)
(* environment of it, one that checks JNI calls, and a process without     *)
(* libart. Calls of invokeSpecial have up to two arguments.                *)
(***************************************************************************)
EXTENDS NativeBridge, TLC

CONSTANTS s1, s2, s3, s4

MCSlots == {s1, s2, s3, s4}
MCSymmetry == Permutations(MCSlots)

Device(symbols, jvmti) ==
  [libart |-> TRUE, symbols |-> symbols, jvmti |-> jvmti, checkJni |-> FALSE]

Android12 == RuntimeSymbols \cup ThreadSymbols
               \cup {"FindClassInitializer(PointerSize)", "SetEntryPointsToInterpreter"}
Android13 == Android12 \ {"SetEntryPointsToInterpreter"}

MCPlatforms ==
  { Device((Symbols \ {"EnsurePluginLoaded"}) \ {"FindClassInitializer(PointerSize)"}, "refused"),
    Device(Android12, "loads"), Device(Android12, "noEnv"),
    Device(Android13, "loads"), Device(Android13, "refused"),
    Device(RuntimeSymbols, "loads"),
    [Device(Android13, "loads") EXCEPT !.checkJni = TRUE],
    [Device({}, "refused") EXCEPT !.libart = FALSE] }

\* References come and go under LSPosed, whose hot reload deletes some; the
\* calls are the legacy backend's, which keeps its own.
MCQuietWhileLegacy == backend = "legacy" => \A s \in Slots : holder[s] # Others
====
