---- MODULE MCHotReload ----
(***************************************************************************)
(* A small instance of HotReload: one worker beside the lifecycle thread,  *)
(* two hooks of a method with different identifiers and one of a class     *)
(* initializer, over two reloads.                                          *)
(***************************************************************************)
EXTENDS HotReload

CONSTANTS R, w1, attach, foo, clinit, p1, p2

Request(m, type, p) == [member |-> m, type |-> type, priority |-> p]

MCAttach == Request(attach, "AFTER", IntMax)
MCRequests == {Request(clinit, "AFTER", 0), Request(foo, "BEFORE", 7),
               Request(foo, "BEFORE", 60)}

\* Bound: hook() calls of a behaviour in which a package arrives.
MCPackageHooks == 3

\* Packages arrive only beside few hooks.
MCFewHooksWithPackages ==
  \/ arriving = <<>> /\ told \cup ready \cup dead = {}
  \/ calls <= MCPackageHooks
====
