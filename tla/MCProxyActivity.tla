---- MODULE MCProxyActivity ----
(***************************************************************************)
(* ProxyActivity with two wrappers, two host activities of different       *)
(* launch modes and an alias, and three module activities, one of which    *)
(* has no class.                                                           *)
(***************************************************************************)
EXTENDS ProxyActivity

CONSTANTS w1, w2, hStandard, hSingleTop, hAlias, tStandard, tSingleTop, tMissing

MCLaunchMode ==
  [x \in {hStandard, hSingleTop, hAlias, tStandard, tSingleTop, tMissing} |->
     IF x \in {hSingleTop, tSingleTop} THEN "singleTop" ELSE "standard"]
====
