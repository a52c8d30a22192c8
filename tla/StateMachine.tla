----------------------------- MODULE StateMachine -----------------------------
(***************************************************************************)
(* The transition function of a run, as src/state_machine.py computes it:  *)
(* which events a status accepts, and the state an accepted event leads    *)
(* to.  The module has no variables; RunLifecycle, RunStore and the        *)
(* controllers' modules are built from it.                                 *)
(*                                                                         *)
(* The run's immutable RunSpec is the module's constants.  A digest is a   *)
(* value of any set without None; a cost is an integer, and every cost     *)
(* above CostCeiling stands for a float that is no longer finite.          *)
(***************************************************************************)
EXTENDS Integers

CONSTANTS
    MaxSteps,           \* RunSpec.max_steps
    NoProgressLimit,    \* RunSpec.no_progress_limit
    MaxCost,            \* RunSpec.max_cost_usd
    CostCeiling,        \* the largest finite cost
    None                \* Python's None

\* What RunSpec.__post_init__ demands of the bounds it is given.
ASSUME SpecAssumption ==
    /\ MaxSteps \in Nat \ {0}
    /\ NoProgressLimit \in Nat \ {0}
    /\ MaxCost \in Nat
    /\ CostCeiling \in Nat
    /\ MaxCost <= CostCeiling

Terminal == {"succeeded", "no_result", "cancelled", "budget_exhausted", "failed"}

Active == {"running", "evaluating"}

Allowed ==
    [created              |-> {"approve", "cancel"},
     ready                |-> {"start_step", "pause", "cancel", "complete"},
     running              |-> {"candidate_ready", "child_failed", "interrupt", "cancel"},
     evaluating           |-> {"evaluation_eligible", "evaluation_ineligible",
                               "evaluation_missing", "cancel"},
     supervision_required |-> {"start_supervisor", "pause", "cancel", "complete"},
     supervising          |-> {"supervisor_applied", "supervisor_failed", "cancel"},
     paused               |-> {"resume", "cancel"}]

Statuses ==
    {"created", "ready", "running", "evaluating", "supervision_required",
     "supervising", "paused"} \cup Terminal

Events ==
    {"approve", "start_step", "candidate_ready", "child_failed", "interrupt",
     "evaluation_eligible", "evaluation_ineligible", "evaluation_missing",
     "start_supervisor", "supervisor_applied", "supervisor_failed", "pause",
     "resume", "complete", "cancel"}

\* Events that end an attempt: they count a step and charge its cost.
Unproductive == {"child_failed", "interrupt", "evaluation_missing",
                 "evaluation_ineligible"}

AttemptEnd == Unproductive \cup {"evaluation_eligible"}

SafeResume == {"ready", "supervision_required"}

RunStates(Candidates) ==
    [status      : Statuses,
     revision    : Nat,
     steps_used  : Nat,
     no_progress : Nat,
     best        : Candidates \cup {None},
     cost        : 0 .. CostCeiling,
     paused_from : SafeResume \cup {None}]

NewRun ==
    [status |-> "created", revision |-> 0, steps_used |-> 0, no_progress |-> 0,
     best |-> None, cost |-> 0, paused_from |-> None]

-----------------------------------------------------------------------------

\* Mutant of Spent: the budget counts as spent one step, or one unit, too late.
SpentTooLate(steps, cost) == steps > MaxSteps \/ cost > MaxCost

\* Neither another step nor more spending is left in the budget.
Spent(steps, cost) == steps >= MaxSteps \/ cost >= MaxCost

\* Mutant of StatusAfterAttempt: supervision is asked for one failure too late.
SupervisedTooLate(ending, steps, noProgress, cost) ==
    CASE Spent(steps, cost) -> ending
      [] ~Spent(steps, cost) /\ noProgress > NoProgressLimit -> "supervision_required"
      [] OTHER -> "ready"

\* The status after an attempt: ending, if that was the last one the budget paid for.
StatusAfterAttempt(ending, steps, noProgress, cost) ==
    CASE Spent(steps, cost) -> ending
      [] ~Spent(steps, cost) /\ noProgress >= NoProgressLimit -> "supervision_required"
      [] OTHER -> "ready"

\* The state after an attempt that produced no eligible candidate.
AfterFailure(s, delta) ==
    LET steps      == s.steps_used + 1
        noProgress == s.no_progress + 1
        cost       == s.cost + delta
    IN  [status      |-> StatusAfterAttempt("budget_exhausted", steps, noProgress, cost),
         revision    |-> s.revision + 1,
         steps_used  |-> steps,
         no_progress |-> noProgress,
         best        |-> s.best,
         cost        |-> cost,
         paused_from |-> s.paused_from]

\* The state after an attempt whose candidate is promoted to best.
AfterSuccess(s, cand, delta) ==
    LET steps == s.steps_used + 1
        cost  == s.cost + delta
    IN  [status      |-> StatusAfterAttempt("succeeded", steps, 0, cost),
         revision    |-> s.revision + 1,
         steps_used  |-> steps,
         no_progress |-> 0,
         best        |-> cand,
         cost        |-> cost,
         paused_from |-> s.paused_from]

\* Mutant of Conclusion: a concluded run always reports success.
AlwaysSucceeded(s) == "succeeded"

\* Mutant of Conclusion: `best or "no_result"` instead of a status.
BestOrNoResult(s) == IF s.best # None THEN s.best ELSE "no_result"

\* The status that ends a run on what it has found so far.
Conclusion(s) == IF s.best # None THEN "succeeded" ELSE "no_result"

\* Mutant of Accepts: the accumulated cost is not checked to be finite.
AcceptsAnyCost(s, event, cand, delta) ==
    /\ s.status \in DOMAIN Allowed
    /\ event \in Allowed[s.status]
    /\ delta \in 0 .. CostCeiling
    /\ event = "evaluation_eligible" => cand # None
    /\ event = "resume" => s.paused_from \in SafeResume

\* Whether apply_transition accepts the event; otherwise it raises TransitionError.
Accepts(s, event, cand, delta) ==
    /\ s.status \in DOMAIN Allowed
    /\ event \in Allowed[s.status]
    /\ delta \in 0 .. CostCeiling
    /\ event = "evaluation_eligible" => cand # None
    /\ event \in AttemptEnd => s.cost + delta <= CostCeiling
    /\ event = "resume" => s.paused_from \in SafeResume

\* Mutant of Goto: the new state drops the best candidate.
GotoForgetsBest(s, status) ==
    [s EXCEPT !.status = status, !.revision = @ + 1, !.best = None]

Goto(s, status) == [s EXCEPT !.status = status, !.revision = @ + 1]

\* The state an accepted event leads to.
Apply(s, event, cand, delta) ==
    CASE event = "approve"             -> Goto(s, "ready")
      [] event = "start_step"          ->
            Goto(s, IF Spent(s.steps_used, s.cost) THEN "budget_exhausted" ELSE "running")
      [] event = "candidate_ready"     -> Goto(s, "evaluating")
      [] event \in Unproductive        -> AfterFailure(s, delta)
      [] event = "evaluation_eligible" -> AfterSuccess(s, cand, delta)
      [] event = "start_supervisor"    -> Goto(s, "supervising")
      [] event = "supervisor_applied"  -> [Goto(s, "ready") EXCEPT !.no_progress = 0]
      [] event = "pause"               -> [Goto(s, "paused") EXCEPT !.paused_from = s.status]
      [] event = "resume"              -> [Goto(s, s.paused_from) EXCEPT !.paused_from = None]
      [] event = "cancel"              -> Goto(s, "cancelled")
      [] event \in {"supervisor_failed", "complete"} -> Goto(s, Conclusion(s))
=============================================================================
