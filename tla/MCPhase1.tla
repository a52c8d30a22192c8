------------------------------- MODULE MCPhase1 -------------------------------
(***************************************************************************)
(* Phase 1 on small instances: the one step bounds the run, so the tools   *)
(* may be called as often as anyone likes; crashes and restarts are capped.*)
(***************************************************************************)
EXTENDS Phase1
=============================================================================
