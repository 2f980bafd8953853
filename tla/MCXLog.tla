---- MODULE MCXLog ----
(***************************************************************************)
(* XLog with two threads, three messages and two changes of the level.     *)
(***************************************************************************)
EXTENDS XLog, TLC

CONSTANTS t1, t2

MCSymmetry == Permutations({t1, t2})
====
