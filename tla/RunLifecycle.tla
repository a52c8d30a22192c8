----------------------------- MODULE RunLifecycle -----------------------------
(***************************************************************************)
(* What one run promises, whoever drives it: its state starts as           *)
(* RunState.new and every change of it is one accepted transition.  The    *)
(* ledger (RunStore) and the controllers' modules refine this module.      *)
(***************************************************************************)
EXTENDS StateMachine

CONSTANTS
    Candidates,     \* digests of candidates
    CostDeltas      \* costs a caller may charge for an attempt

ASSUME InputAssumption ==
    /\ None \notin Candidates
    /\ CostDeltas \subseteq Nat

VARIABLE state      \* the RunState of the run

Init == state = NewRun

\* apply_transition, called with any event and any arguments.
Transition(event, cand, delta) ==
    /\ Accepts(state, event, cand, delta)
    /\ state' = Apply(state, event, cand, delta)

Next ==
    \E event \in Events, cand \in Candidates \cup {None}, delta \in CostDeltas :
        Transition(event, cand, delta)

Spec == Init /\ [][Next]_state

-----------------------------------------------------------------------------

\* The state of a run has the types RunState declares.
TypeOK == state \in RunStates(Candidates)

\* The step bound is never overrun, whatever order attempts fail, succeed, are
\* paused or supervised in: a run that is working on an attempt still has a step
\* and money left to pay for it, and steps_used never exceeds max_steps.
BudgetRespected ==
    /\ state.steps_used <= MaxSteps
    /\ state.status \in Active => ~Spent(state.steps_used, state.cost)

\* A run that ends "succeeded" has a candidate to show, and "no_result" is never reported
\* over a promoted one.  (A run may be cancelled, or its budget exhausted, with or without.)
OutcomeHonest ==
    /\ state.status = "succeeded" => state.best # None
    /\ state.status = "no_result" => state.best = None

\* The status a paused run returns to counts as its status.
EffectiveStatus ==
    IF state.status = "paused" THEN state.paused_from ELSE state.status

\* Stagnation cannot be shaken off: a run that may attempt again has its no-progress
\* counter below the limit, and one whose supervision is pending has it there, through
\* pause and resume too.  So no path but supervision leads a stagnated run back to
\* another attempt; it may still end.
StagnationHeld ==
    /\ EffectiveStatus \in {"supervision_required", "supervising"}
           => state.no_progress >= NoProgressLimit
    /\ EffectiveStatus \in {"ready"} \cup Active
           => state.no_progress < NoProgressLimit

\* A promoted candidate is never forgotten: once best is set, a later state has a
\* best too, and it changes only by an attempt that ends, in the same step, the
\* stagnation count.
BestKept ==
    [][state'.best # state.best =>
          /\ state'.best # None
          /\ state.status = "evaluating"
          /\ state'.no_progress = 0
          /\ state'.steps_used = state.steps_used + 1]_state
=============================================================================
