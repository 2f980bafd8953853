---- MODULE MCHostProcess ----
(***************************************************************************)
(* Both backends, in an app and in the system server, with and without the *)
(* native library; the module's own package is one of those loaded.  A     *)
(* thread of the module registers, one of the host attaches.               *)
(***************************************************************************)
EXTENDS HostProcess, TLC

CONSTANTS own, p1, p2, none, t1, a1, l1

\* The two packages of the host differ in nothing.
HostSymmetry == Permutations({p1, p2})
====
