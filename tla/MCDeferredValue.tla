---- MODULE MCDeferredValue ----
(***************************************************************************)
(* DeferredValue with two setters racing, two callbacks and two awaiters.  *)
(***************************************************************************)
EXTENDS DeferredValue

CONSTANTS s1, s2, cb1, cb2, aw1, aw2, v1, v2
====
