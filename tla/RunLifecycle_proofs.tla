------------------------- MODULE RunLifecycle_proofs -------------------------
(***************************************************************************)
(* Every run of RunLifecycle keeps its types, its budget, an honest        *)
(* outcome and its stagnation, and a terminal run never changes: for every *)
(* RunSpec and every caller.                                               *)
(***************************************************************************)
EXTENDS RunLifecycle, StateMachine_proofs

\* The budget, the outcome and the stagnation counter hold together; a run that has
\* not been approved has nothing to count yet.
Inv == /\ TypeOK
       /\ BudgetRespected
       /\ OutcomeHonest
       /\ StagnationHeld
       /\ state.status = "created" => state.no_progress = 0

LEMMA InvInit == Init => Inv
  BY SpecAssumption
  DEF Init, Inv, TypeOK, BudgetRespected, OutcomeHonest, StagnationHeld, EffectiveStatus,
      NewRun, RunStates, Statuses, Active, SpecAssumption

LEMMA InvStep == Inv /\ [Next]_state => Inv'
  <1> SUFFICES ASSUME Inv, [Next]_state PROVE Inv'
    OBVIOUS
  <1>1. CASE UNCHANGED state
    BY <1>1 DEF Inv, TypeOK, BudgetRespected, OutcomeHonest, StagnationHeld, EffectiveStatus
  <1>2. CASE Next
    <2>1. PICK event \in Events, cand \in Candidates \cup {None}, delta \in CostDeltas :
              Transition(event, cand, delta)
      BY <1>2 DEF Next
    <2>2. /\ delta \in Int
          /\ state \in RunStates(Candidates)
          /\ Accepts(state, event, cand, delta)
          /\ state' = Apply(state, event, cand, delta)
      BY <2>1, InputAssumption DEF InputAssumption, Transition, Inv, TypeOK
    <2>3. state' \in RunStates(Candidates)
      BY <2>2, ApplyType
    <2>4. CASE event \in AttemptEnd
      <3>1. /\ state.status \in Active
            /\ state'.steps_used = state.steps_used + 1
        BY <2>2, <2>4, AttemptFields
      <3>2. CASE event = "evaluation_eligible"
        <4>1. /\ state'.best = cand
              /\ state'.no_progress = 0
              /\ state'.status =
                    StatusAfterAttempt("succeeded", state'.steps_used, state'.no_progress, state'.cost)
          BY <2>2, <2>4, <3>2, AttemptFields
        <4>2. cand # None
          BY <2>2, <3>2 DEF Accepts
        <4> QED
          BY <2>3, <3>1, <4>1, <4>2, SpecAssumption
          DEF Inv, TypeOK, BudgetRespected, OutcomeHonest, StagnationHeld, EffectiveStatus,
              StatusAfterAttempt, Spent, Active, RunStates, SpecAssumption
      <3>3. CASE event # "evaluation_eligible"
        <4>1. /\ state'.best = state.best
              /\ state'.no_progress = state.no_progress + 1
              /\ state'.status =
                    StatusAfterAttempt("budget_exhausted",
                                       state'.steps_used, state'.no_progress, state'.cost)
          BY <2>2, <2>4, <3>3, AttemptFields
        <4> QED
          BY <2>3, <3>1, <4>1, SpecAssumption
          DEF Inv, TypeOK, BudgetRespected, OutcomeHonest, StagnationHeld, EffectiveStatus,
              StatusAfterAttempt, Spent, Active, RunStates, SpecAssumption
      <3> QED
        BY <3>2, <3>3
    <2>5. CASE event \notin AttemptEnd
      <3>1. /\ state'.steps_used = state.steps_used
            /\ state'.best = state.best
            /\ state'.cost = state.cost
            /\ event # "supervisor_applied" => state'.no_progress = state.no_progress
        BY <2>2, <2>5, MoveFields
      <3>2. CASE event \in {"approve", "supervisor_applied"}
        BY <2>2, <2>3, <2>5, <3>1, <3>2, MoveStatus, SpecAssumption
        DEF Inv, TypeOK, BudgetRespected, OutcomeHonest, StagnationHeld, EffectiveStatus,
            Active, SpecAssumption
      <3>3. CASE event \in {"start_step", "candidate_ready", "start_supervisor"}
        BY <2>2, <2>3, <2>5, <3>1, <3>3, MoveStatus
        DEF Inv, TypeOK, BudgetRespected, OutcomeHonest, StagnationHeld, EffectiveStatus, Active
      <3>4. CASE event \in {"pause", "resume"}
        BY <2>2, <2>3, <2>5, <3>1, <3>4, MoveStatus
        DEF Inv, TypeOK, BudgetRespected, OutcomeHonest, StagnationHeld, EffectiveStatus,
            Active, SafeResume
      <3>5. CASE event \in {"cancel", "supervisor_failed", "complete"}
        BY <2>2, <2>3, <2>5, <3>1, <3>5, MoveStatus
        DEF Inv, TypeOK, BudgetRespected, OutcomeHonest, StagnationHeld, EffectiveStatus,
            Active, Conclusion
      <3> QED
        BY <2>5, <3>2, <3>3, <3>4, <3>5 DEF Events, AttemptEnd, Unproductive
    <2> QED
      BY <2>4, <2>5
  <1> QED
    BY <1>1, <1>2

LEMMA InvHolds == Spec => []Inv
  BY InvInit, InvStep, PTL DEF Spec

\* The state keeps the types RunState declares under every sequence of events.
THEOREM LifecycleTyped == Spec => []TypeOK
  BY InvHolds, PTL DEF Inv

\* No sequence of events makes a run work on an attempt it has no step or money for.
THEOREM LifecycleBudget == Spec => []BudgetRespected
  BY InvHolds, PTL DEF Inv

\* A promoted candidate is replaced only by another one, by an attempt that ends.
THEOREM LifecycleBestKept == Spec => BestKept
  <1>1. Inv /\ [Next]_state =>
            [state'.best # state.best =>
                /\ state'.best # None
                /\ state.status = "evaluating"
                /\ state'.no_progress = 0
                /\ state'.steps_used = state.steps_used + 1]_state
    <2> SUFFICES ASSUME Inv, Next, state'.best # state.best
                 PROVE  /\ state'.best # None
                        /\ state.status = "evaluating"
                        /\ state'.no_progress = 0
                        /\ state'.steps_used = state.steps_used + 1
      OBVIOUS
    <2>1. PICK event \in Events, cand \in Candidates \cup {None}, delta \in CostDeltas :
              Transition(event, cand, delta)
      BY DEF Next
    <2>2. /\ delta \in Int
          /\ state \in RunStates(Candidates)
          /\ Accepts(state, event, cand, delta)
          /\ state' = Apply(state, event, cand, delta)
      BY <2>1, InputAssumption DEF InputAssumption, Transition, Inv, TypeOK
    <2>3. event = "evaluation_eligible"
      <3>1. event \in AttemptEnd
        BY <2>2, MoveFields
      <3> QED
        BY <2>2, <3>1, AttemptFields
    <2>4. event \in AttemptEnd
      BY <2>3 DEF AttemptEnd
    <2>5. cand # None /\ state.status = "evaluating"
      BY <2>2, <2>3 DEF Accepts, Allowed
    <2> QED
      BY <2>2, <2>3, <2>4, <2>5, AttemptFields
  <1> QED
    BY <1>1, InvHolds, PTL DEF Spec, BestKept

\* A run succeeds only with a promoted candidate and never hides one behind no_result.
THEOREM LifecycleOutcome == Spec => []OutcomeHonest
  BY InvHolds, PTL DEF Inv

\* A stagnated run attempts nothing more until it has been supervised.
THEOREM LifecycleStagnation == Spec => []StagnationHeld
  BY InvHolds, PTL DEF Inv
=============================================================================
