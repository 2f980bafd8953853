---- MODULE HostPackages ----
(***************************************************************************)
(* What the modules about the process of the host have in common.          *)
(***************************************************************************)

CONSTANT Packages \* packages that may be loaded into the process
====
