-------------------------------- MODULE Phase2 --------------------------------
(***************************************************************************)
(* The bounded controller of Phase 2 (src/phase2.py over src/controller.py)*)
(* and its calls on one run: create_run, step, reconcile, supervise,       *)
(* cancel.  Any number of sessions call it on one ledger.                  *)
(*                                                                         *)
(* A call holds the RunState it loaded, or its last transition returned,   *)
(* in call[s].state, and stands at a point call[s].pc: the name of the     *)
(* transition it is about to commit, or of its next read, write or child.  *)
(* Between two points any other session may act, and a call may vanish     *)
(* (a crash, a cancelled tool call), leaving what it committed.            *)
(*                                                                         *)
(* The candidate of attempt n is n: candidate_id is <run>-candidate-n.     *)
(***************************************************************************)
EXTENDS RunStore, Evaluator

CONSTANTS
    Sessions,       \* callers of the controller
    BaselineScore,  \* the score the first candidate has to beat
    MaxCrashes,     \* bound on calls that vanish
    Overlap         \* may reconcile run while the attempt's own call is alive?

\* The observations that follow a transition.
Notes ==
    {"child_launch_error", "interrupted", "evaluation_missing", "supervisor_missing",
     "supervisor_failed", "supervisor_result"}

\* create_run asks for a cost bound that a run without costs never reaches.
ASSUME Phase2Assumption ==
    /\ MaxCost > 0
    /\ 1 .. MaxSteps \subseteq Candidates
    /\ BaselineScore \in Nat
    /\ MaxCrashes \in Nat
    /\ Overlap \in BOOLEAN
    /\ Notes \cup {"child_result"} \subseteq Observations

VARIABLES
    call,           \* the call each session is in
    launches,       \* children launched so far, by role
    crashes         \* calls that vanished so far

vars == <<ledger, call, launches, crashes>>

\* What a child that came back brings: a failure, a timeout or no usable payload; a
\* result_hash of 64 characters that is no digest; an answer.
Replies == {"fails", "bad_digest", "answers"}

NoCall ==
    [op |-> "none", pc |-> "idle", state |-> NewRun, reply |-> "none", answer |-> None,
     cand |-> None, evals |-> 0, eligible |-> FALSE, note |-> None, memo |-> NoMemory]

Idle(s) == call[s].pc = "idle"

\* A session is inside the attempt or the supervision its call has begun.
Driving(s) ==
    \/ /\ call[s].op \in {"step", "phase1_step"}
       /\ call[s].pc \notin {"start_step", "refresh", "refresh_memory", "refresh_advice",
                              "save_memory"}
    \/ call[s].op = "supervise" /\ call[s].pc \in {"run_supervisor", "record_advice",
                                                    "supervisor_applied", "supervisor_failed",
                                                    "observe"}

Init ==
    /\ StoreInit
    /\ \E creator \in Sessions :
          call = [s \in Sessions |->
                     IF s = creator THEN [NoCall EXCEPT !.op = "create", !.pc = "approve"]
                                    ELSE NoCall]
    /\ launches = [variation |-> 0, supervisor |-> 0]
    /\ crashes = 0

-----------------------------------------------------------------------------

Advance(s, next) == call' = [call EXCEPT ![s] = next]

At(s, pc) == [call[s] EXCEPT !.pc = pc]

\* Phase1Controller's own create_run, step and cancel, on a run of Phase 1 (module
\* Phase1).  Phase 2's are the same calls, followed by _refresh_memory.
Phase1Ops == {"phase1_create", "phase1_step", "phase1_cancel"}

\* The call's work is committed; what is left is _refresh_memory.
Refresh(s) ==
    IF call[s].op \in Phase1Ops THEN NoCall
    ELSE [NoCall EXCEPT !.op = call[s].op, !.pc = "refresh"]

Return(s) == Advance(s, NoCall)

\* A call begins by loading the run; the run's id is known once create_run returned.
Begin(s, op, pc) ==
    /\ Idle(s)
    /\ \A t \in Sessions : call[t].op # "create"
    /\ Advance(s, [NoCall EXCEPT !.op = op, !.pc = pc, !.state = run])
    /\ UNCHANGED <<ledger, launches, crashes>>

BeginStep(s) == run.status = "ready" /\ Begin(s, "step", "start_step")

\* Mutant of BeginReconcile: a run left "running" counts as nothing to reconcile.
ReconcileSkipsRunning(s) ==
    \/ run.status = "supervising" /\ Begin(s, "reconcile", "read_advice")
    \/ run.status = "evaluating" /\ Begin(s, "reconcile", "read_candidates")

\* In any other status reconcile is a no-op.
BeginReconcile(s) ==
    /\ Overlap \/ \A t \in Sessions \ {s} : ~Driving(t)
    /\ \/ run.status = "supervising" /\ Begin(s, "reconcile", "read_advice")
       \/ run.status \in Active /\ Begin(s, "reconcile", "read_candidates")

BeginSupervise(s) ==
    run.status = "supervision_required" /\ Begin(s, "supervise", "read_advice")

\* Mutant of BeginCancel: an attempt in flight may be cancelled.
CancelAnytime(s) == run.status \notin Terminal /\ Begin(s, "cancel", "cancel")

\* An attempt in flight is not cancelled; a supervision in flight may be.
BeginCancel(s) ==
    run.status \notin Active \cup Terminal /\ Begin(s, "cancel", "cancel")

-----------------------------------------------------------------------------
\* Transitions: store.transition at the revision the call holds.

Promoted(c, event) == IF event = "evaluation_eligible" THEN c.cand ELSE None

\* Mutant of Verdict: whatever was evaluated is promoted.
AlwaysEligible(c) == "evaluation_eligible"

Verdict(c) == IF c.eligible THEN "evaluation_eligible" ELSE "evaluation_ineligible"

\* Where a call goes on after its transition, with the state the transition returned.
\* step does not look at the status start_step returned.
AfterCommit(s) ==
    LET c == [call[s] EXCEPT !.state = run']
    IN  CASE c.pc = "start_step"       -> [c EXCEPT !.pc = "run_child"]
          [] c.pc = "start_supervisor" -> [c EXCEPT !.pc = "run_supervisor"]
          [] c.pc = "candidate_ready"  -> [c EXCEPT !.pc = Verdict(c)]
          [] c.pc \notin {"start_step", "start_supervisor", "candidate_ready"}
               /\ c.note # None        -> [c EXCEPT !.pc = "observe"]
          [] OTHER                     -> Refresh(s)

Commit(s) ==
    /\ call[s].pc \in Events
    /\ Transition(call[s].pc, call[s].state.revision, Promoted(call[s], call[s].pc), 0)
    /\ Advance(s, AfterCommit(s))
    /\ UNCHANGED <<launches, crashes>>

\* Mutant of Refuse: a call that lost the race to start a child runs one all the same.
RefusedRunsChild(s) ==
    /\ call[s].pc \in {"start_step", "start_supervisor"}
    /\ call[s].state.revision # run.revision
    /\ Advance(s, At(s, IF call[s].pc = "start_step" THEN "run_child" ELSE "run_supervisor"))
    /\ UNCHANGED <<ledger, launches, crashes>>

\* Mutant of Refuse: a stale call tries the same revision again.
RefusedRetries(s) ==
    /\ call[s].pc \in Events
    /\ call[s].state.revision # run.revision
    /\ UNCHANGED vars

\* A stale revision or a refused event raises out of the call.
Refuse(s) ==
    /\ call[s].pc \in Events
    /\ \/ call[s].state.revision # run.revision
       \/ ~Accepts(run, call[s].pc, Promoted(call[s], call[s].pc), 0)
    /\ Return(s)
    /\ UNCHANGED <<ledger, launches, crashes>>

\* Mutant of Observe: a failure is observed but the memory is not refreshed.
ObserveOnly(s) ==
    /\ call[s].pc = "observe"
    /\ RecordObservation(call[s].note)
    /\ Return(s)
    /\ UNCHANGED <<launches, crashes>>

\* The observation that follows a failure, an interruption or a supervision.
Observe(s) ==
    /\ call[s].pc = "observe"
    /\ RecordObservation(call[s].note)
    /\ Advance(s, Refresh(s))
    /\ UNCHANGED <<launches, crashes>>

-----------------------------------------------------------------------------
\* step: start_step, the child, its observation, the evaluation, the attempt.

RunChild(s) ==
    /\ call[s].pc = "run_child"
    /\ launches' = [launches EXCEPT !.variation = @ + 1]
    /\ \/ Advance(s, [At(s, "child_failed") EXCEPT !.note = "child_launch_error"])
       \/ \E reply \in {"fails", "bad_digest"} :
             Advance(s, [At(s, "child_result") EXCEPT !.reply = reply])
       \/ \E score \in Scores :
             Advance(s, [At(s, "child_result") EXCEPT !.reply = "answers", !.answer = score])
    /\ UNCHANGED <<ledger, crashes>>

\* The reply is looked at once it is on record; a bad digest makes Candidate raise.
ObserveChild(s) ==
    /\ call[s].pc = "child_result"
    /\ RecordObservation("child_result")
    /\ Advance(s, CASE call[s].reply = "fails" ->
                          [At(s, "child_failed") EXCEPT !.reply = "none"]
                    [] call[s].reply = "bad_digest" -> NoCall
                    [] OTHER -> At(s, "read_baseline"))
    /\ UNCHANGED <<launches, crashes>>

\* Mutant of Baseline: every candidate is compared with the fixture's baseline.
FixedBaseline == BaselineScore

\* The score to beat: that of the last eligible evaluation in the lineage, if any.
Baseline ==
    LET eligible == {i \in DOMAIN evaluations : evaluations[i].eligible}
    IN  IF eligible = {} THEN BaselineScore
        ELSE evaluations[CHOOSE i \in eligible : \A j \in eligible : j <= i].score

\* The fixture's RunSpec; only Phase 2 demands a strict improvement.
Fixture(op) ==
    [predicates |-> {"strategy_allowed", "output_matches"}, keys |-> {"operations"},
     comparison |-> "minimize", strict |-> op \notin Phase1Ops]

\* Whether a strategy with this score is eligible; a strategy that is allowed at all
\* meets both predicates.
Judged(op, score) ==
    Eligible(Fixture(op),
             [correctness |-> [p \in {"strategy_allowed", "output_matches"} |-> TRUE],
              scores      |-> [k \in {"operations"} |-> score]],
             [k \in {"operations"} |-> Baseline])

\* Mutant of ReadBaseline: the attempt is numbered one too high.
ReadBaselineOffByOne(s) ==
    /\ call[s].pc = "read_baseline"
    /\ Advance(s, [At(s, "record_attempt") EXCEPT
                      !.cand = call[s].state.steps_used + 2,
                      !.reply = "none",
                      !.eligible = Judged(call[s].op, call[s].answer)])
    /\ UNCHANGED <<ledger, launches, crashes>>

ReadBaseline(s) ==
    /\ call[s].pc = "read_baseline"
    /\ Advance(s, [At(s, "record_attempt") EXCEPT
                      !.cand = call[s].state.steps_used + 1,
                      !.reply = "none",
                      !.eligible = Judged(call[s].op, call[s].answer)])
    /\ UNCHANGED <<ledger, launches, crashes>>

RecordStepAttempt(s) ==
    /\ call[s].pc = "record_attempt"
    /\ RecordAttempt([candidate |-> call[s].cand, eligible |-> call[s].eligible,
                      score |-> call[s].answer])
    /\ Advance(s, [At(s, "candidate_ready") EXCEPT !.answer = None])
    /\ UNCHANGED <<launches, crashes>>

-----------------------------------------------------------------------------
\* reconcile: what is durable decides how the attempt or the supervision ends.

\* Mutant of ReadCandidates: the first candidate of the lineage is taken.
ReadFirstCandidate(s) ==
    /\ call[s].pc = "read_candidates"
    /\ Advance(s, [At(s, "read_evaluations") EXCEPT
                      !.cand = IF candidates = <<>> THEN None ELSE candidates[1]])
    /\ UNCHANGED <<ledger, launches, crashes>>

\* lineage() reads candidates and evaluations in two statements.
ReadCandidates(s) ==
    /\ call[s].pc = "read_candidates"
    /\ Advance(s, [At(s, "read_evaluations") EXCEPT
                      !.cand = IF candidates = <<>> THEN None ELSE candidates[Len(candidates)]])
    /\ UNCHANGED <<ledger, launches, crashes>>

ReadEvaluations(s) ==
    /\ call[s].pc = "read_evaluations"
    /\ Advance(s, [At(s, "read_events") EXCEPT
                      !.evals = Len(evaluations),
                      !.eligible = /\ evaluations # <<>>
                                   /\ evaluations[Len(evaluations)].eligible])
    /\ UNCHANGED <<ledger, launches, crashes>>

\* Mutant of AppliedEvaluations: attempts that ended without evidence are counted too.
EndedAttempts ==
    Cardinality({i \in DOMAIN journal : journal[i].moves /\ journal[i].event \in AttemptEnd})

AppliedEvaluations ==
    Cardinality({i \in DOMAIN journal :
                    journal[i].event \in {"evaluation_eligible", "evaluation_ineligible"}})

\* More evaluations than verdicts: the last one is taken for the current attempt's.
Decision(c) ==
    IF c.evals > AppliedEvaluations
    THEN [c EXCEPT !.evals = 0,
                   !.pc = IF c.state.status = "running" THEN "candidate_ready" ELSE Verdict(c)]
    ELSE [NoCall EXCEPT
             !.op = c.op, !.state = c.state,
             !.pc = IF c.state.status = "running" THEN "interrupt" ELSE "evaluation_missing",
             !.note = IF c.state.status = "running" THEN "interrupted" ELSE "evaluation_missing"]

\* With no candidate to take, candidates[-1] raises IndexError.
ReadEvents(s) ==
    /\ call[s].pc = "read_events"
    /\ Advance(s, IF call[s].evals > AppliedEvaluations /\ call[s].cand = None
                  THEN NoCall ELSE Decision(call[s]))
    /\ UNCHANGED <<ledger, launches, crashes>>

\* Mutant of ReadAdvice: reconcile fails every supervision it finds.
ReconcileFailsSupervision(s) ==
    /\ call[s].pc = "read_advice"
    /\ Advance(s, IF call[s].op = "reconcile"
                  THEN [At(s, "supervisor_failed") EXCEPT !.note = "supervisor_missing"]
                  ELSE At(s, IF advice # <<>> THEN "complete" ELSE "read_memory"))
    /\ UNCHANGED <<ledger, launches, crashes>>

\* reconcile applies durable advice or fails the supervision; supervise gives the run
\* up when the one advice it may have is already there.
ReadAdvice(s) ==
    /\ call[s].pc = "read_advice"
    /\ Advance(s, CASE call[s].op = "reconcile" /\ advice # <<>> -> At(s, "supervisor_applied")
                    [] call[s].op = "reconcile" /\ advice = <<>> ->
                          [At(s, "supervisor_failed") EXCEPT !.note = "supervisor_missing"]
                    [] call[s].op = "supervise" /\ advice # <<>> -> At(s, "complete")
                    [] OTHER -> At(s, "read_memory"))
    /\ UNCHANGED <<ledger, launches, crashes>>

-----------------------------------------------------------------------------
\* supervise: the memory, start_supervisor, the child, its advice.

\* The memory as it is becomes the supervisor's evidence, and stays in the call until
\* the advice is on record; a missing memory is rebuilt first, within the call.
ReadMemory(s) ==
    /\ call[s].pc = "read_memory"
    /\ Advance(s, IF memory = NoMemory THEN At(s, "refresh")
                  ELSE [At(s, "start_supervisor") EXCEPT !.memo = memory])
    /\ UNCHANGED <<ledger, launches, crashes>>

RunSupervisor(s) ==
    /\ call[s].pc = "run_supervisor"
    /\ launches' = [launches EXCEPT !.supervisor = @ + 1]
    /\ \/ Advance(s, [At(s, "supervisor_failed") EXCEPT !.note = "supervisor_failed",
                                                        !.memo = NoMemory])
       \/ \E artifact \in Advices :
             Advance(s, [At(s, "record_advice") EXCEPT !.answer = artifact])
    /\ UNCHANGED <<ledger, crashes>>

RecordSupervisorAdvice(s) ==
    /\ call[s].pc = "record_advice"
    /\ RecordAdvice(call[s].answer)
    /\ Advance(s, [At(s, "supervisor_applied") EXCEPT !.answer = None, !.memo = NoMemory,
                                                      !.note = "supervisor_result"])
    /\ UNCHANGED <<launches, crashes>>

-----------------------------------------------------------------------------
\* _refresh_memory: the run, the previous memory, the advice, then the swap.

\* Mutant of RefreshRun: the last candidate on record passes for the best.
RefreshLast(s) ==
    /\ call[s].pc = "refresh"
    /\ Advance(s, [At(s, "refresh_memory") EXCEPT
                      !.memo = [Snapshot(run, 0, FALSE) EXCEPT
                                   !.best = IF candidates = <<>> THEN None
                                            ELSE candidates[Len(candidates)]]])
    /\ UNCHANGED <<ledger, launches, crashes>>

RefreshRun(s) ==
    /\ call[s].pc = "refresh"
    /\ Advance(s, [At(s, "refresh_memory") EXCEPT !.memo = Snapshot(run, 0, FALSE)])
    /\ UNCHANGED <<ledger, launches, crashes>>

RefreshMemory(s) ==
    /\ call[s].pc = "refresh_memory"
    /\ Advance(s, [At(s, "refresh_advice") EXCEPT
                      !.memo.memory_revision = memory.memory_revision + 1])
    /\ UNCHANGED <<ledger, launches, crashes>>

\* Mutant of RefreshAdvice: the memory is stamped with the revision current at its end.
RefreshRestamped(s) ==
    /\ call[s].pc = "refresh_advice"
    /\ Advance(s, [At(s, "save_memory") EXCEPT !.memo.advised = advice # <<>>,
                                               !.memo.state_revision = run.revision])
    /\ UNCHANGED <<ledger, launches, crashes>>

RefreshAdvice(s) ==
    /\ call[s].pc = "refresh_advice"
    /\ Advance(s, [At(s, "save_memory") EXCEPT !.memo.advised = advice # <<>>])
    /\ UNCHANGED <<ledger, launches, crashes>>

\* supervise goes on from its own refresh only before it started the supervisor.
SaveRefreshed(s) ==
    /\ call[s].pc = "save_memory"
    /\ SaveMemory(call[s].memo, call[s].memo.memory_revision - 1)
    /\ Advance(s, IF call[s].op = "supervise" /\ call[s].state # NewRun
                  THEN At(s, "start_supervisor")
                  ELSE NoCall)
    /\ UNCHANGED <<launches, crashes>>

\* A write that finds its key taken or its memory moved on raises out of the call.
Conflict(s) ==
    /\ \/ call[s].pc = "save_memory" /\ memory.memory_revision # call[s].memo.memory_revision - 1
       \/ call[s].pc = "record_attempt" /\ call[s].cand \in Rows(candidates)
       \/ call[s].pc = "record_advice" /\ call[s].answer \in Rows(advice)
    /\ Return(s)
    /\ UNCHANGED <<ledger, launches, crashes>>

\* The process dies, or the tool call is dropped, with the call half done.
Vanish(s) ==
    /\ ~Idle(s)
    /\ crashes < MaxCrashes
    /\ crashes' = crashes + 1
    /\ Return(s)
    /\ UNCHANGED <<ledger, launches>>

-----------------------------------------------------------------------------

\* The calls that move a run on; cancel does so only if someone asks for it.
Work(s) == BeginStep(s) \/ BeginReconcile(s) \/ BeginSupervise(s)

\* What a session does inside its call.
Proceed(s) ==
    \/ Commit(s) \/ Refuse(s) \/ Observe(s) \/ Conflict(s)
    \/ RunChild(s) \/ ObserveChild(s) \/ ReadBaseline(s) \/ RecordStepAttempt(s)
    \/ ReadCandidates(s) \/ ReadEvaluations(s) \/ ReadEvents(s) \/ ReadAdvice(s)
    \/ ReadMemory(s) \/ RunSupervisor(s) \/ RecordSupervisorAdvice(s)
    \/ RefreshRun(s) \/ RefreshMemory(s) \/ RefreshAdvice(s) \/ SaveRefreshed(s)

Next == \E s \in Sessions : Work(s) \/ BeginCancel(s) \/ Proceed(s) \/ Vanish(s)

Spec == Init /\ [][Next]_vars

\* A call that is running goes on, and someone drives a run that is not finished.
Fairness == \A s \in Sessions : WF_vars(Proceed(s)) /\ WF_vars(Work(s))

FairSpec == Spec /\ Fairness

-----------------------------------------------------------------------------

CallPoints ==
    Events \cup {"idle", "run_child", "child_result", "observe", "read_baseline",
                 "record_attempt", "read_candidates", "read_evaluations", "read_events",
                 "read_advice", "read_memory", "run_supervisor", "record_advice",
                 "refresh", "refresh_memory", "refresh_advice", "save_memory"}

Calls ==
    [op       : {"none", "create", "step", "reconcile", "supervise", "cancel"} \cup Phase1Ops,
     pc       : CallPoints,
     state    : RunStates(Candidates),
     reply    : Replies \cup {"none"},
     answer   : Scores \cup Advices \cup {None},
     cand     : Candidates \cup {None},
     evals    : Nat,
     eligible : BOOLEAN,
     note     : Notes \cup {None},
     memo     : Memories]

\* Types of the ledger and of the calls: a candidate no attempt may have, a point no
\* call has or a state no RunState allows is never reached.
TypeOK ==
    /\ StoreTypeOK
    /\ call \in [Sessions -> Calls]
    /\ launches \in [variation : Nat, supervisor : Nat]
    /\ crashes \in 0 .. MaxCrashes

MovesBy(event) == {i \in DOMAIN journal : journal[i].moves /\ journal[i].event = event}

\* Attempts are counted once each, whatever sessions race, crash and reconcile: the
\* steps charged to the run and the one it is working on are the steps started, and
\* no step ended twice or was forgotten.
AttemptsCounted ==
    Cardinality(MovesBy("start_step")) =
        run.steps_used + (IF run.status \in Active THEN 1 ELSE 0)

\* No more children run than the RunSpec pays for, and one supervisor: no retry, no
\* lost race and no reconciliation launches a second child for one attempt.  "Exactly one
\* supervisor advice artifact is allowed" rests on this: nothing checks it on record.
LaunchBudget ==
    /\ launches.variation <= Cardinality(MovesBy("start_step"))
    /\ launches.variation <= MaxSteps
    /\ launches.supervisor <= 1

\* A memory that is not stale by its state_revision tells the truth: the status, the
\* best candidate and the advice it names are the run's, however its reads were
\* interleaved with other calls.
FreshMemoryTrue ==
    memory # NoMemory /\ memory.state_revision = run.revision =>
        /\ memory.run_status = run.status
        /\ memory.best = run.best
        /\ MovesBy("supervisor_applied") # {} => memory.advised

\* A transition is never committed on a state its caller has not seen: the state each
\* transition of a call starts from is the one the call loaded or left behind.
CommitsWhatItSaw ==
    [][\A s \in Sessions :
          call[s].pc \in Events /\ call'[s] # call[s] /\ run' # run
              => run = call[s].state]_vars

\* The evaluator, and nobody else, makes a candidate eligible: what a run promotes
\* has an evaluation on record that says so.
BestIsEligible ==
    run.best # None =>
        \E i \in DOMAIN evaluations :
            evaluations[i].candidate = run.best /\ evaluations[i].eligible

\* An attempt is decided by its own evidence: the candidate promoted when attempt n
\* ends is the candidate of attempt n.
PromotesThisAttempt ==
    \A i \in MovesBy("evaluation_eligible") :
        journal[i].candidate = journal[i].state.steps_used

\* Promotion means progress: every candidate promoted scores strictly below the one
\* promoted before it, over crashes and replays.
BestImproves ==
    \A i, j \in MovesBy("evaluation_eligible") :
        i < j => \A a, b \in DOMAIN evaluations :
            /\ evaluations[a].candidate = journal[i].candidate
            /\ evaluations[b].candidate = journal[j].candidate
            => evaluations[b].score < evaluations[a].score

\* Every evaluation on record is applied, once the attempt it belongs to has ended:
\* the transition that ended it is the verdict the evaluation gives.
EvidenceAccounted ==
    \A i \in DOMAIN evaluations :
        evaluations[i].candidate <= run.steps_used =>
            \E j \in MovesBy(Verdict(evaluations[i])) :
                journal[j].state.steps_used = evaluations[i].candidate

\* Durable advice is applied: a supervision is not failed over an advice on record.
AdviceNotDiscarded ==
    [][run.status = "supervising" /\ run'.status \in {"succeeded", "no_result"}
       => advice = <<>>]_vars

\* docs/PHASE2.md: the run stops when its wall bound is reached.  Each child may take
\* wait_seconds, and max_wall_seconds is wait_seconds for every step and no more.
WallBound == launches.variation + launches.supervisor <= MaxSteps

\* "Successful and failed steps refresh memory": with every call returned, memory is
\* that of the run as it is, unless a call was cut off or its attempt still hangs.
MemoryFreshAtRest ==
    (\A s \in Sessions : Idle(s)) /\ crashes = 0 /\ run.status \notin Active
        => memory.state_revision = run.revision

\* "Stagnation evidence": what the supervisor is shown is the run it is asked about, the
\* failure that led to it included, unless some call was cut off before.  Nothing checks
\* it: supervise takes the memory it finds.
EvidenceCurrent ==
    \A s \in Sessions :
        call[s].pc = "start_supervisor" /\ crashes = 0
            => call[s].memo.state_revision = call[s].state.revision

\* A run that was approved is brought to an end: no crash, race or hanging child
\* leaves it where no call can move it on, as long as someone keeps calling.
RunFinishes == (run.status = "ready") ~> (run.status \in Terminal)

\* Every call returns: none waits for another.
CallsReturn == \A s \in Sessions : ~Idle(s) ~> Idle(s)

\* The sessions' steps are the store's steps.
Store == INSTANCE RunStore
StoreSteps == Store!StoreSpec
=============================================================================
