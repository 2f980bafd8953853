---- MODULE MCStartup ----
(***************************************************************************)
(* Both backends, in an app and in the system server, with and without the *)
(* native library; the module's own package is one of those loaded.        *)
(***************************************************************************)
EXTENDS Startup

CONSTANTS own, p1, p2, none
====
