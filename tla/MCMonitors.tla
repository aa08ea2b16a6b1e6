----------------------------- MODULE MCMonitors -----------------------------
(***************************************************************************)
(* Two service objects: the runnables of the one that is gone and of the   *)
(* one that is bound.                                                      *)
(***************************************************************************)
EXTENDS Monitors

CONSTANTS i1, i2
=============================================================================
