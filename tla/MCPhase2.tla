------------------------------- MODULE MCPhase2 -------------------------------
(***************************************************************************)
(* Phase 2 on small instances.  Attempts bound the run, so the sessions    *)
(* may call as often as they like; only crashes are capped.  Sessions are  *)
(* alike, so any renaming of them is a symmetry of the safety runs.        *)
(***************************************************************************)
EXTENDS Phase2, TLC

Interchangeable == Permutations(Sessions)
=============================================================================
