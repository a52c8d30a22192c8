------------------------------- MODULE MCPhase3 -------------------------------
(***************************************************************************)
(* Phase 3 on small instances: one attempt bounds the run, so the sessions *)
(* may call as often as they like; only crashes are capped.                *)
(***************************************************************************)
EXTENDS Phase3

MCReceipts == [mutation : Mutations, tree : Mutations, passed : BOOLEAN]

MCMutations == Mutations
=============================================================================
