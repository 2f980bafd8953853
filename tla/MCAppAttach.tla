---- MODULE MCAppAttach ----
(***************************************************************************)
(* AppAttach with two threads registering for one package, whose           *)
(* application attaches up to twice on two threads.                        *)
(***************************************************************************)
EXTENDS AppAttach

CONSTANTS t1, t2, a1, a2, l1, l2, p1
====
