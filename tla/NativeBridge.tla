---- MODULE NativeBridge ----
(***************************************************************************)
(* The native library in its process, and a call of invokeSpecial through  *)
(* it: the legacy backend asks NativeBridge.isLoaded, takes reflection     *)
(* where it is false, and relies on the references of the library where it *)
(* is true.                                                                *)
(***************************************************************************)
EXTENDS NativeLibrary, Sequences

CONSTANT MaxArgs

ASSUME MaxArgsAssumption == MaxArgs \in Nat

VARIABLES at, request, cargs, times, outcome, uncaught  \* NativeCall

callVars == <<at, request, cargs, times, outcome, uncaught>>
bridgeVars == <<vars, callVars>>

Calling == INSTANCE NativeCall

BridgeTypeOK == TypeOK /\ Calling!TypeOK

InitBridge == InitLibrary /\ Calling!InitCall

\* A module runs once Init has returned, or without the library.
Legacy == Alive /\ backend = "legacy"

Request ==
  /\ Legacy
  /\ image[gen] \in {"ready", "missing"}
  /\ Calling!Request
  /\ UNCHANGED vars

InvokeDirectly ==
  /\ Legacy
  /\ image[gen] = "missing"
  /\ Calling!InvokeDirectly
  /\ UNCHANGED vars

\* The conversions and the call compare classes and box by way of the references.
CallNonvirtual ==
  /\ Legacy
  /\ image[gen] = "ready"
  /\ at \notin {"idle", "returned"}
  /\ IF Denotes(refs[gen]["Class_Executable"])
     THEN Calling!CallNonvirtual /\ UNCHANGED vars
     ELSE Die("staleReference") /\ UNCHANGED callVars

NextBridge ==
  \/ LibraryNext /\ UNCHANGED callVars
  \/ Request \/ InvokeDirectly \/ CallNonvirtual

Spec == InitBridge /\ [][NextBridge]_bridgeVars

----
\* For a member whose types are all classes that are no boxes, or void, called
\* with arguments they take, invokeSpecial comes to what reflection would: it
\* refuses the same calls, calls the target once in the others, hands on what that
\* threw, and makes no JNI call with an exception pending; only without the
\* library a constructor is not called.
\* (Xposed.kt 195-213, xposedkit.cxx 112-179, java_primitive.cxx 24-122)
AsReflection ==
  at = "returned" /\ ~Calling!Confused(request) =>
    \/ outcome = "instance" /\ image[gen] = "missing" /\ ~request.method
    \/ /\ outcome = Calling!Reflected(request)
       /\ times = IF Calling!Refuses(request) THEN 0 ELSE 1
       /\ ~uncaught
====
