------------------------------- MODULE MCPhase4 -------------------------------
(***************************************************************************)
(* Phase 4 on small instances: one attempt bounds the run, so the sessions *)
(* may call as often as they like; only crashes are capped.                *)
(***************************************************************************)
EXTENDS Phase4

MCReceipts == [patch : Candidates, tree : Candidates, runner : Runners, passed : BOOLEAN]
=============================================================================
