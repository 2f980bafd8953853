---- MODULE NativeCall ----
(***************************************************************************)
(* One call of a member without virtual dispatch, as invokeSpecial of the  *)
(* legacy backend makes it (Xposed.kt 195-213): CallNonvirtualMethod       *)
(* (xposedkit.cxx 91-180) and its conversions (java_primitive.cxx), or     *)
(* reflection where there is no native library.                            *)
(*                                                                         *)
(* A jvalue is a union: what counts is which of its fields is written and  *)
(* which is read, the reference or one of the primitives.  Where the two   *)
(* differ, and where an argument is not of the declared type, which nobody *)
(* tests, anything may happen: the call is undefined.  Of a type it counts *)
(* whether it is primitive, the class of a primitive's box, void, the      *)
(* class Void, or any other class.  The tests for null cannot fail on      *)
(* invokeSpecial's way in.                                                 *)
(***************************************************************************)
EXTENDS Naturals, Sequences

CONSTANT MaxArgs  \* bound: parameters and arguments of a call

Types == {"primitive", "box", "class"}
UpTo(S) == UNION {[1..n -> S] : n \in 0..MaxArgs}

\* An argument is null, fits its parameter, or is of a class that does not.
Calls == [
  method : BOOLEAN,  \* of a method, or of a constructor
  params : UpTo(Types),
  args : UpTo({"null", "fits", "misfit"}),
  returns : Types \cup {"void", "Void"},
  throws : BOOLEAN]

\* What becomes of a call; a refused one never reaches its target.
Outcomes == {"open", "value", "null", "instance", "exception", "refused", "undefined"}

VARIABLES
  at,       \* where the call is
  request,  \* the call
  cargs,    \* the field of each jvalue that has been written
  times,    \* how often the target has been called
  outcome,
  uncaught  \* ghost: JNI was called with an exception pending

vars == <<at, request, cargs, times, outcome, uncaught>>

TypeOK ==
  /\ at \in {"idle", "start", "convert", "box", "returned"}
  /\ request \in Calls
  /\ cargs \in UpTo({"primitive", "reference", "unfit"})
  /\ times \in Nat
  /\ outcome \in Outcomes
  /\ uncaught \in BOOLEAN

\* Stands for no call.
NoRequest ==
  [method |-> FALSE, params |-> <<>>, args |-> <<>>, returns |-> "void", throws |-> FALSE]

InitCall ==
  /\ at = "idle"
  /\ request = NoRequest
  /\ cargs = <<>>
  /\ times = 0
  /\ outcome = "open"
  /\ uncaught = FALSE

End(result) == at' = "returned" /\ outcome' = result

\* The module calls invokeSpecial.
Request ==
  /\ at = "idle"
  /\ at' = "start"
  /\ request' \in {r \in Calls : ~r.method => r.returns = "void"}
  /\ UNCHANGED <<cargs, times, outcome, uncaught>>

----
\* java.lang.reflect refuses arguments of another number or class than declared,
\* and null where a primitive is.
Refuses(r) ==
  \/ Len(r.params) # Len(r.args)
  \/ \E i \in DOMAIN r.args :
       r.args[i] = "misfit" \/ (r.args[i] = "null" /\ r.params[i] = "primitive")

\* What a call by reflection comes to
Reflected(r) ==
  IF Refuses(r) THEN "refused"
  ELSE IF r.throws THEN "exception"
  ELSE IF r.returns \in {"void", "Void"} THEN "null" ELSE "value"

\* invokeSpecial without the native library: a method is invoked directly; for a
\* constructor nothing is, and the instance comes back as it was.
InvokeDirectly ==
  /\ at = "start"
  /\ IF request.method
     THEN /\ End(Reflected(request))
          /\ times' = IF Refuses(request) THEN 0 ELSE 1
     ELSE End("instance") /\ UNCHANGED times
  /\ UNCHANGED <<request, cargs, uncaught>>

----
\* The field of a jvalue in which code keeps a value of a declared type
Field(type) == IF type = "primitive" THEN "primitive" ELSE "reference"

\* Class_Int and the others are the boxes' classes and Class_Void is Void: int and
\* void themselves are none of them.
GetPrimitiveType(type) == IF type \in {"box", "Void"} THEN type ELSE "Object"

\* The field ToPrimitiveType writes; for a box, it unboxes.
ToPrimitiveType(type, arg) ==
  CASE arg = "misfit" -> "unfit"
    [] GetPrimitiveType(type) = "Object" -> "reference"
    [] OTHER -> "primitive"

\* The target reads each argument from the field it was written to.
WellPassed == \A i \in DOMAIN cargs : cargs[i] = Field(request.params[i])

\* CallNonvirtualMethod, as far as the comparison of the lengths
Start ==
  /\ at = "start"
  /\ IF Len(request.params) = Len(request.args)
     THEN at' = "convert" /\ UNCHANGED outcome
     ELSE End("refused")
  /\ UNCHANGED <<request, cargs, times, uncaught>>

\* cargs[i] = ToPrimitiveType(env, paramType, arg); unboxing calls a method of the
\* argument, which ends the process where that is null.
Convert ==
  LET i == Len(cargs) + 1
  IN  /\ at = "convert"
      /\ i <= Len(request.params)
      /\ IF request.params[i] = "box" /\ request.args[i] = "null"
         THEN End("undefined") /\ UNCHANGED cargs
         ELSE /\ cargs' = Append(cargs, ToPrimitiveType(request.params[i], request.args[i]))
              /\ UNCHANGED <<at, outcome>>
      /\ UNCHANGED <<request, times, uncaught>>

\* The type the switch is over; a constructor goes round it.
ReturnType == IF request.method THEN GetPrimitiveType(request.returns) ELSE "Void"

\* What the call has come to where the branch returns what the target returned:
\* the JNI function of objects makes null of what a void method leaves behind.
Plain ==
  IF request.throws THEN "exception"
  ELSE IF request.returns = "void" THEN "null"
  ELSE IF request.returns = "primitive" THEN "undefined"
  ELSE "value"

\* Faulty variant: no branch returns, and the last line calls once more.
InvokeAgain ==
  /\ at = "convert"
  /\ Len(cargs) = Len(request.params)
  /\ times' = times + 2
  /\ End(IF request.throws THEN "exception" ELSE "null")
  /\ UNCHANGED <<request, cargs, uncaught>>

\* The switch, each branch with the JNI function for its type.  The branches of
\* the primitives have a result to box; Void leaves the call to the last line.
Invoke ==
  /\ at = "convert"
  /\ Len(cargs) = Len(request.params)
  /\ times' = times + 1
  /\ IF ~WellPassed THEN End("undefined")
     ELSE CASE ReturnType = "Object" -> End(Plain)
            [] ReturnType = "box" -> at' = "box" /\ UNCHANGED outcome
            [] ReturnType = "Void" -> End(IF request.throws THEN "exception" ELSE "null")
  /\ UNCHANGED <<request, cargs, uncaught>>

\* FromPrimitiveType: what was read as a primitive was a reference; valueOf is
\* called even if the target threw, and then JNI promises nothing.
Box ==
  /\ at = "box"
  /\ uncaught' = request.throws
  /\ \/ End("undefined")
     \/ request.throws /\ End("exception")
  /\ UNCHANGED <<request, cargs, times>>

CallNonvirtual == Start \/ Convert \/ Invoke \/ Box

----
\* The call depends on how a primitive or a box is kept in a jvalue, or hands the
\* target an argument of a class it does not take.
Confused(r) ==
  \/ \E i \in DOMAIN r.params : r.params[i] \in {"primitive", "box"}
  \/ r.returns \in {"primitive", "box"}
  \/ \E i \in DOMAIN r.args : r.args[i] = "misfit"
====
