-------------------------- MODULE StateMachine_proofs --------------------------
(***************************************************************************)
(* What Apply makes of a well-typed state, event by event.  The proofs of  *)
(* the run's lifecycle and of the ledger rest on these lemmas.             *)
(***************************************************************************)
EXTENDS StateMachine, TLAPS

\* An event that charges nothing is within the ceiling's range.
LEMMA NoCharge == 0 \in 0 .. CostCeiling
  BY SpecAssumption DEF SpecAssumption

\* A failed attempt leaves a well-typed state, with its counters moved on.
LEMMA AfterFailureFields ==
    ASSUME NEW Digests, NEW s \in RunStates(Digests), NEW delta \in Nat,
           s.cost + delta <= CostCeiling
    PROVE  LET t == AfterFailure(s, delta)
           IN  /\ t \in RunStates(Digests)
               /\ t.revision = s.revision + 1
               /\ t.steps_used = s.steps_used + 1
               /\ t.cost = s.cost + delta
               /\ t.best = s.best
               /\ t.no_progress = s.no_progress + 1
               /\ t.status = StatusAfterAttempt("budget_exhausted",
                                t.steps_used, t.no_progress, t.cost)
  <1>1. StatusAfterAttempt("budget_exhausted", s.steps_used + 1, s.no_progress + 1,
                           s.cost + delta) \in Statuses
    BY DEF StatusAfterAttempt, Statuses, Terminal
  <1>2. s.cost + delta \in 0 .. CostCeiling
    BY SpecAssumption DEF RunStates, SpecAssumption
  <1> QED
    BY <1>1, <1>2 DEF AfterFailure, RunStates

\* A successful attempt leaves a well-typed state with its candidate as the best one.
LEMMA AfterSuccessFields ==
    ASSUME NEW Digests, NEW s \in RunStates(Digests), NEW cand \in Digests \cup {None},
           NEW delta \in Nat, s.cost + delta <= CostCeiling
    PROVE  LET t == AfterSuccess(s, cand, delta)
           IN  /\ t \in RunStates(Digests)
               /\ t.revision = s.revision + 1
               /\ t.steps_used = s.steps_used + 1
               /\ t.cost = s.cost + delta
               /\ t.best = cand
               /\ t.no_progress = 0
               /\ t.status = StatusAfterAttempt("succeeded", t.steps_used, t.no_progress, t.cost)
  <1>1. StatusAfterAttempt("succeeded", s.steps_used + 1, 0, s.cost + delta) \in Statuses
    BY DEF StatusAfterAttempt, Statuses, Terminal
  <1>2. s.cost + delta \in 0 .. CostCeiling
    BY SpecAssumption DEF RunStates, SpecAssumption
  <1> QED
    BY <1>1, <1>2 DEF AfterSuccess, RunStates

\* Moving a run to another status changes its status and revision alone.
LEMMA GotoType ==
    ASSUME NEW Digests, NEW s \in RunStates(Digests), NEW status \in Statuses
    PROVE  Goto(s, status) \in RunStates(Digests)
  <1>1. s.revision + 1 \in Nat
    BY DEF RunStates
  <1>2. Goto(s, status) = [s EXCEPT !.status = status, !.revision = s.revision + 1]
    BY DEF Goto, RunStates
  <1> QED
    BY <1>1, <1>2 DEF RunStates

\* Every accepted event leads from a well-typed state to a well-typed state.
LEMMA ApplyType ==
    ASSUME NEW Digests, NEW s \in RunStates(Digests), NEW event \in Events,
           NEW cand \in Digests \cup {None}, NEW delta \in Int,
           Accepts(s, event, cand, delta)
    PROVE  Apply(s, event, cand, delta) \in RunStates(Digests)
  <1>0. delta \in Nat
    BY DEF Accepts
  <1>1. CASE event \in Unproductive
    <2>1. s.cost + delta <= CostCeiling
      BY <1>1 DEF Accepts, AttemptEnd
    <2>2. AfterFailure(s, delta) \in RunStates(Digests)
      BY <1>0, <2>1, AfterFailureFields
    <2> QED
      BY <1>1, <2>2 DEF Apply, Unproductive
  <1>2. CASE event = "evaluation_eligible"
    <2>1. s.cost + delta <= CostCeiling
      BY <1>2 DEF Accepts, AttemptEnd
    <2>2. AfterSuccess(s, cand, delta) \in RunStates(Digests)
      BY <1>0, <2>1, AfterSuccessFields
    <2> QED
      BY <1>2, <2>2 DEF Apply, Unproductive
  <1>3. CASE event = "pause"
    <2>1. s.status \in SafeResume
      BY <1>3 DEF Accepts, Allowed, SafeResume
    <2>2. Goto(s, "paused") \in RunStates(Digests)
      BY GotoType DEF Statuses
    <2>3. Apply(s, event, cand, delta) = [Goto(s, "paused") EXCEPT !.paused_from = s.status]
      BY <1>3 DEF Apply, Unproductive
    <2> QED
      BY <2>1, <2>2, <2>3 DEF RunStates
  <1>4. CASE event = "resume"
    <2>1. Goto(s, s.paused_from) \in RunStates(Digests)
      BY <1>4, GotoType DEF Accepts, SafeResume, Statuses
    <2>2. Apply(s, event, cand, delta) = [Goto(s, s.paused_from) EXCEPT !.paused_from = None]
      BY <1>4 DEF Apply, Unproductive
    <2> QED
      BY <2>1, <2>2 DEF RunStates
  <1>5. CASE event = "supervisor_applied"
    <2>1. Goto(s, "ready") \in RunStates(Digests)
      BY GotoType DEF Statuses
    <2>2. Apply(s, event, cand, delta) = [Goto(s, "ready") EXCEPT !.no_progress = 0]
      BY <1>5 DEF Apply, Unproductive
    <2> QED
      BY <2>1, <2>2 DEF RunStates
  <1>6. CASE event \in {"approve", "candidate_ready", "start_supervisor", "cancel",
                        "start_step", "supervisor_failed", "complete"}
    <2>1. \E status \in Statuses : Apply(s, event, cand, delta) = Goto(s, status)
      BY <1>6 DEF Apply, Conclusion, Statuses, Terminal, Unproductive
    <2> QED
      BY <2>1, GotoType
  <1> QED
    BY <1>1, <1>2, <1>3, <1>4, <1>5, <1>6 DEF Events, Unproductive

\* What an event that ends no attempt leaves alone.
LEMMA MoveFields ==
    ASSUME NEW Digests, NEW s \in RunStates(Digests), NEW event \in Events \ AttemptEnd,
           NEW cand, NEW delta, Accepts(s, event, cand, delta)
    PROVE  LET t == Apply(s, event, cand, delta)
           IN  /\ t.revision = s.revision + 1
               /\ t.steps_used = s.steps_used
               /\ t.best = s.best
               /\ t.cost = s.cost
               /\ event # "supervisor_applied" => t.no_progress = s.no_progress
  <1>1. CASE event = "pause"
    BY <1>1 DEF Apply, Goto, RunStates, Unproductive
  <1>2. CASE event = "resume"
    BY <1>2 DEF Apply, Goto, RunStates, Unproductive
  <1>3. CASE event = "supervisor_applied"
    BY <1>3 DEF Apply, Goto, RunStates, Unproductive
  <1>4. CASE event \in {"approve", "candidate_ready", "start_supervisor", "cancel",
                        "start_step", "supervisor_failed", "complete"}
    <2>1. \E status : Apply(s, event, cand, delta) = Goto(s, status)
      BY <1>4 DEF Apply, Unproductive
    <2> QED
      BY <1>4, <2>1 DEF Goto, RunStates
  <1> QED
    BY <1>1, <1>2, <1>3, <1>4 DEF Events, AttemptEnd, Unproductive

\* What an event that ends an attempt makes of the counters and the best candidate.
LEMMA AttemptFields ==
    ASSUME NEW Digests, NEW s \in RunStates(Digests), NEW event \in AttemptEnd,
           NEW cand \in Digests \cup {None}, NEW delta \in Int,
           Accepts(s, event, cand, delta)
    PROVE  LET t == Apply(s, event, cand, delta)
           IN  /\ s.status \in Active
               /\ t.revision = s.revision + 1
               /\ t.steps_used = s.steps_used + 1
               /\ t.cost = s.cost + delta
               /\ event = "evaluation_eligible" =>
                     /\ t.best = cand
                     /\ t.no_progress = 0
                     /\ t.status = StatusAfterAttempt("succeeded",
                                      t.steps_used, t.no_progress, t.cost)
               /\ event # "evaluation_eligible" =>
                     /\ t.best = s.best
                     /\ t.no_progress = s.no_progress + 1
                     /\ t.status = StatusAfterAttempt("budget_exhausted",
                                      t.steps_used, t.no_progress, t.cost)
  <1>1. s.status \in Active
    BY DEF Accepts, Allowed, Active, AttemptEnd, Unproductive
  <1>2. delta \in Nat /\ s.cost + delta <= CostCeiling
    BY DEF Accepts
  <1>3. CASE event = "evaluation_eligible"
    <2>1. Apply(s, event, cand, delta) = AfterSuccess(s, cand, delta)
      BY <1>3 DEF Apply, Unproductive
    <2> QED
      BY <1>1, <1>2, <1>3, <2>1, AfterSuccessFields
  <1>4. CASE event # "evaluation_eligible"
    <2>1. Apply(s, event, cand, delta) = AfterFailure(s, delta)
      BY <1>4 DEF Apply, AttemptEnd, Unproductive
    <2> QED
      BY <1>1, <1>2, <1>4, <2>1, AfterFailureFields
  <1> QED
    BY <1>3, <1>4

\* The status an event that ends no attempt leads to, and the one it leaves.
LEMMA MoveStatus ==
    ASSUME NEW Digests, NEW s \in RunStates(Digests), NEW event \in Events \ AttemptEnd,
           NEW cand, NEW delta, Accepts(s, event, cand, delta)
    PROVE  LET t == Apply(s, event, cand, delta)
           IN  /\ event = "approve" => s.status = "created" /\ t.status = "ready"
               /\ event = "start_step" =>
                      /\ s.status = "ready"
                      /\ t.status = IF Spent(s.steps_used, s.cost) THEN "budget_exhausted"
                                                                  ELSE "running"
               /\ event = "candidate_ready" => s.status = "running" /\ t.status = "evaluating"
               /\ event = "start_supervisor" =>
                      s.status = "supervision_required" /\ t.status = "supervising"
               /\ event = "supervisor_applied" =>
                      s.status = "supervising" /\ t.status = "ready" /\ t.no_progress = 0
               /\ event = "pause" =>
                      s.status \in SafeResume /\ t.status = "paused" /\ t.paused_from = s.status
               /\ event = "resume" => s.status = "paused" /\ t.status = s.paused_from
               /\ event = "resume" => s.paused_from \in SafeResume
               /\ event = "cancel" => t.status = "cancelled"
               /\ event \in {"supervisor_failed", "complete"} => t.status = Conclusion(s)
  <1>1. CASE event = "approve"
    <2>1. s.status = "created"
      BY <1>1 DEF Accepts, Allowed, SafeResume
    <2>2. Apply(s, event, cand, delta).status = "ready"
      BY <1>1 DEF Apply, Goto, RunStates, Unproductive
    <2> QED
      BY <1>1, <2>1, <2>2
  <1>2. CASE event = "start_step"
    <2>1. s.status = "ready"
      BY <1>2 DEF Accepts, Allowed, SafeResume
    <2>2. Apply(s, event, cand, delta).status =
               IF Spent(s.steps_used, s.cost) THEN "budget_exhausted" ELSE "running"
      BY <1>2 DEF Apply, Goto, RunStates, Unproductive
    <2> QED
      BY <1>2, <2>1, <2>2
  <1>3. CASE event = "candidate_ready"
    <2>1. s.status = "running"
      BY <1>3 DEF Accepts, Allowed, SafeResume
    <2>2. Apply(s, event, cand, delta).status = "evaluating"
      BY <1>3 DEF Apply, Goto, RunStates, Unproductive
    <2> QED
      BY <1>3, <2>1, <2>2
  <1>4. CASE event = "start_supervisor"
    <2>1. s.status = "supervision_required"
      BY <1>4 DEF Accepts, Allowed, SafeResume
    <2>2. Apply(s, event, cand, delta).status = "supervising"
      BY <1>4 DEF Apply, Goto, RunStates, Unproductive
    <2> QED
      BY <1>4, <2>1, <2>2
  <1>5. CASE event = "pause"
    <2>1. s.status \in SafeResume
      BY <1>5 DEF Accepts, Allowed, SafeResume
    <2>2. Apply(s, event, cand, delta).status = "paused"
      BY <1>5 DEF Apply, Goto, RunStates, Unproductive
    <2>3. Apply(s, event, cand, delta).paused_from = s.status
      BY <1>5 DEF Apply, Goto, RunStates, Unproductive
    <2> QED
      BY <1>5, <2>1, <2>2, <2>3
  <1>6. CASE event = "resume"
    <2>1. s.status = "paused" /\ s.paused_from \in SafeResume
      BY <1>6 DEF Accepts, Allowed, SafeResume
    <2>2. Apply(s, event, cand, delta).status = s.paused_from
      BY <1>6 DEF Apply, Goto, RunStates, Unproductive
    <2> QED
      BY <1>6, <2>1, <2>2
  <1>7. CASE event = "supervisor_applied"
    <2>1. s.status = "supervising"
      BY <1>7 DEF Accepts, Allowed, SafeResume
    <2>2. Apply(s, event, cand, delta).status = "ready"
      BY <1>7 DEF Apply, Goto, RunStates, Unproductive
    <2>3. Apply(s, event, cand, delta).no_progress = 0
      BY <1>7 DEF Apply, Goto, RunStates, Unproductive
    <2> QED
      BY <1>7, <2>1, <2>2, <2>3
  <1>8. CASE event = "cancel"
    BY <1>8 DEF Apply, Goto, RunStates, Unproductive
  <1>9. CASE event \in {"supervisor_failed", "complete"}
    BY <1>9 DEF Apply, Goto, RunStates, Unproductive
  <1> QED
    BY <1>1, <1>2, <1>3, <1>4, <1>5, <1>6, <1>7, <1>8, <1>9 DEF Events, AttemptEnd, Unproductive
=============================================================================
