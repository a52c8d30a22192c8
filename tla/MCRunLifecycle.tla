---------------------------- MODULE MCRunLifecycle ----------------------------
(***************************************************************************)
(* RunLifecycle on a small instance: the revision counter, which pause and *)
(* resume could raise for ever, is capped.                                 *)
(***************************************************************************)
EXTENDS RunLifecycle

CONSTANT MaxRevision    \* bound on the revisions explored

Bounded(event, cand, delta) ==
    state.revision < MaxRevision /\ Transition(event, cand, delta)

MCNext ==
    \E event \in Events, cand \in Candidates \cup {None}, delta \in CostDeltas :
        Bounded(event, cand, delta)

MCSpec == Init /\ [][MCNext]_state
=============================================================================
