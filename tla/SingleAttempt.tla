----------------------------- MODULE SingleAttempt -----------------------------
(***************************************************************************)
(* What the controllers of Phase 3 (src/phase3.py) and Phase 4             *)
(* (src/phase4.py) share, line for line: a run pays for one attempt, the   *)
(* attempt has effects outside the ledger, and a receipt goes on record    *)
(* with its candidate and evaluation.  Phase3 and Phase4 add the effects.  *)
(*                                                                         *)
(* Calls are those of Phase2: call[s].pc names the transition, read, write *)
(* or effect a session's call is about to make, call[s].state the RunState *)
(* it holds.  Other sessions act between two points.                       *)
(*                                                                         *)
(* A child's usable answer (a mutation, a patch) also names the tree it    *)
(* makes of the baseline, and so the candidate.                            *)
(***************************************************************************)
EXTENDS RunStore, Evaluator

CONSTANTS
    Sessions,       \* callers of the controller
    MaxCrashes      \* bound on calls that vanish

\* create_run asks for one step, and for supervision after one failure.
ASSUME SingleAttemptAssumption ==
    /\ MaxSteps = 1
    /\ NoProgressLimit = 1
    /\ MaxCost > 0
    /\ Scores = {0, 1}
    /\ MaxCrashes \in Nat
    /\ {"prepared", "child_result", "attempt_failed", "interrupted",
        "evaluation_missing"} \subseteq Observations

VARIABLES
    call,           \* the call each session is in
    children,       \* what became of each child that was launched
    crashes,        \* calls that vanished so far
    world           \* what the attempt has done outside the ledger

vars == <<ledger, call, children, crashes, world>>

ChildStates == {"alive", "ended", "cancelled", "lost"}

NoCall ==
    [op |-> "none", pc |-> "idle", state |-> NewRun, child |-> 0, answer |-> None,
     digest |-> TRUE, tree |-> None, passed |-> FALSE, cand |-> None, evals |-> 0,
     receipts |-> 0, eligible |-> FALSE, note |-> None, alone |-> FALSE]

Idle(s) == call[s].pc = "idle"

Advance(s, next) == call' = [call EXCEPT ![s] = next]

At(s, pc) == [call[s] EXCEPT !.pc = pc]

Return(s) == Advance(s, NoCall)

\* _fail_attempt: child_failed, then phase3_failed or phase4_failed.
Failing(s) ==
    [NoCall EXCEPT !.op = call[s].op, !.pc = "child_failed", !.state = call[s].state,
                   !.note = "attempt_failed"]

\* create_run is about to make the baseline repository: its directory, the source, the
\* tests, what git init adds.  Only then does it put the run on record.
Repository == <<"directory", "source", "tests", "git">>

AttemptInit(untouched) ==
    /\ StoreInit
    /\ \E creator \in Sessions :
          call = [s \in Sessions |->
                     IF s = creator
                     THEN [NoCall EXCEPT !.op = "create", !.pc = "build", !.note = "prepared"]
                     ELSE NoCall]
    /\ children = <<>>
    /\ crashes = 0
    /\ world = untouched

\* An effect that fails raises out of the call and leaves the run as it is.
Raise(s) == Return(s) /\ UNCHANGED world

\* Workspace.create: one more part of the repository, whose directory must be new.
Build(s) ==
    LET built == Len(world.repository)
    IN  /\ call[s].pc = "build"
        /\ \/ Raise(s)
           \/ /\ world' = [world EXCEPT !.repository = SubSeq(Repository, 1, built + 1)]
              /\ Advance(s, At(s, IF built + 1 = Len(Repository) THEN "create_run"
                                  ELSE "build"))
        /\ UNCHANGED <<ledger, children, crashes>>

\* Until here the ledger's variables stand for a row that is not there yet; then the run
\* is approved, and repo_created or sandbox_preflight goes on record.
CreateRun(s) ==
    /\ call[s].pc = "create_run"
    /\ \/ Raise(s)
       \/ /\ world' = [world EXCEPT !.recorded = TRUE]
          /\ Advance(s, At(s, "approve"))
    /\ UNCHANGED <<ledger, children, crashes>>

-----------------------------------------------------------------------------
\* Calls, each on the run as it loads it.

\* A call is inside the attempt it has begun.
Attempting(s) == call[s].op = "attempt" /\ call[s].pc # "start_step"

\* The run's id is the name of its repository: a creation that was cut off leaves it
\* for anyone to find.  What the code cannot tell, call[s].alone keeps: whether a
\* reconcile began when no call was inside the attempt.
Begin(s, op, pc) ==
    /\ Idle(s)
    /\ world.recorded
    /\ \A t \in Sessions : call[t].op # "create"
    /\ Advance(s, [NoCall EXCEPT !.op = op, !.pc = pc, !.state = run,
                                 !.alone = /\ op = "reconcile"
                                           /\ \A t \in Sessions : ~Attempting(t)])
    /\ UNCHANGED <<ledger, children, crashes, world>>

BeginAttempt(s) == run.status = "ready" /\ Begin(s, "attempt", "start_step")

\* Mutant of BeginReconcile: a run left in "evaluating" counts as nothing to reconcile.
ReconcileOnlyRunning(s) ==
    run.status = "running" /\ Begin(s, "reconcile", "read_candidates")

\* In any other status reconcile is a no-op.
BeginReconcile(s) == run.status \in Active /\ Begin(s, "reconcile", "read_candidates")

BeginCancel(s) ==
    run.status \notin Active \cup Terminal /\ Begin(s, "cancel", "cancel")

-----------------------------------------------------------------------------
\* Transitions, at the revision the call holds.

Promoted(c, event) == IF event = "evaluation_eligible" THEN c.cand ELSE None

Verdict(c) == IF c.eligible THEN "evaluation_eligible" ELSE "evaluation_ineligible"

\* No call on its way to a child or to a verdict has a note to leave.
AfterCommit(s) ==
    LET c == [call[s] EXCEPT !.state = run']
    IN  CASE c.pc = "start_step"      -> [c EXCEPT !.pc = "run_child"]
          [] c.pc = "candidate_ready" -> [c EXCEPT !.pc = Verdict(c)]
          [] c.pc \notin {"start_step", "candidate_ready"} /\ c.note # None ->
                 [c EXCEPT !.pc = "observe"]
          [] OTHER                    -> NoCall

Commit(s) ==
    /\ call[s].pc \in Events
    /\ Transition(call[s].pc, call[s].state.revision, Promoted(call[s], call[s].pc), 0)
    /\ Advance(s, AfterCommit(s))
    /\ UNCHANGED <<children, crashes, world>>

\* Mutant of Refuse: the call that lost the race to start_step goes on all the same.
RefusedRunsChild(s) ==
    /\ call[s].pc = "start_step"
    /\ call[s].state.revision # run.revision
    /\ Advance(s, At(s, "run_child"))
    /\ UNCHANGED <<ledger, children, crashes, world>>

\* A stale revision raises out of the call: another call has moved the run.
Refuse(s) ==
    /\ call[s].pc \in Events
    /\ \/ call[s].state.revision # run.revision
       \/ ~Accepts(run, call[s].pc, Promoted(call[s], call[s].pc), 0)
    /\ Return(s)
    /\ UNCHANGED <<ledger, children, crashes, world>>

\* The observation that follows a creation, a failure or an interruption.
Observe(s) ==
    /\ call[s].pc = "observe"
    /\ RecordObservation(call[s].note)
    /\ Return(s)
    /\ UNCHANGED <<children, crashes, world>>

-----------------------------------------------------------------------------
\* The attempt up to its effects, and from its record on.

\* The child the call waits for.
Child(s) == children[call[s].child]

\* lifecycle.run: a launch that raises leaves no child.
LaunchChild(s) ==
    /\ call[s].pc = "run_child"
    /\ \/ Advance(s, Failing(s)) /\ UNCHANGED children
       \/ /\ children' = Append(children, "alive")
          /\ Advance(s, [At(s, "await_child") EXCEPT !.child = Len(children')])
    /\ UNCHANGED <<ledger, crashes, world>>

\* wait, cancel and result may raise: nobody has the handle of the child any more.
LoseChild(s) ==
    /\ Advance(s, Failing(s))
    /\ children' = [children EXCEPT ![call[s].child] = IF @ = "alive" THEN "lost" ELSE @]

\* Mutant of AwaitChild: the wait is over, and the child is left to itself.
AwaitChildOnly(s) ==
    /\ call[s].pc = "await_child"
    /\ \/ LoseChild(s)
       \/ /\ Advance(s, At(s, IF Child(s) = "alive" THEN "child_result" ELSE "read_result"))
          /\ UNCHANGED children
    /\ UNCHANGED <<ledger, crashes, world>>

\* wait comes back with the child's end or with its own timeout.
AwaitChild(s) ==
    /\ call[s].pc = "await_child"
    /\ \/ LoseChild(s)
       \/ /\ Advance(s, At(s, IF Child(s) = "alive" THEN "cancel_child" ELSE "read_result"))
          /\ UNCHANGED children
    /\ UNCHANGED <<ledger, crashes, world>>

\* What a child answers after the timeout is not looked at.
CancelChild(s) ==
    /\ call[s].pc = "cancel_child"
    /\ \/ LoseChild(s)
       \/ /\ children' = [children EXCEPT ![call[s].child] =
                                IF @ = "alive" THEN "cancelled" ELSE @]
          /\ Advance(s, At(s, "child_result"))
    /\ UNCHANGED <<ledger, crashes, world>>

\* A child that ended brings nothing usable, or an answer; the result_hash that comes
\* with an answer may be no digest.
ReadResult(s) ==
    /\ call[s].pc = "read_result"
    /\ \/ LoseChild(s)
       \/ /\ \/ Advance(s, At(s, "child_result"))
             \/ \E answer \in Candidates, digest \in BOOLEAN :
                   Advance(s, [At(s, "child_result") EXCEPT !.answer = answer,
                                                            !.digest = digest])
          /\ UNCHANGED children
    /\ UNCHANGED <<ledger, crashes, world>>

\* The service ends a child when it likes, whether or not a call still waits for it.
ChildEnds(i) ==
    /\ children[i] = "alive"
    /\ children' = [children EXCEPT ![i] = "ended"]
    /\ UNCHANGED <<ledger, call, crashes, world>>

RunChild(s) == LaunchChild(s) \/ AwaitChild(s) \/ CancelChild(s) \/ ReadResult(s)

ObserveChild(s, effects) ==
    /\ call[s].pc = "child_result"
    /\ RecordObservation("child_result")
    /\ Advance(s, IF call[s].answer = None THEN Failing(s) ELSE At(s, effects))
    /\ UNCHANGED <<children, crashes, world>>

\* An observation the attempt makes on its way.
Note(s, name, next) ==
    /\ call[s].pc = name
    /\ RecordObservation(name)
    /\ Advance(s, At(s, next))
    /\ UNCHANGED <<children, crashes, world>>

\* The evaluator's judgement under the RunSpec of create_run, on what the attempt found
\* out: one score, the number of failing tests, which is 1 for the baseline.
Judged(s, correctness) ==
    Eligible([predicates |-> DOMAIN correctness, keys |-> {"test_failures"},
              comparison |-> "minimize", strict |-> FALSE],
             [correctness |-> correctness,
              scores      |-> [test_failures |-> IF call[s].passed THEN 0 ELSE 1]],
             [test_failures |-> 1])

\* Candidate, evaluation and receipt are built from what the effects left and go on
\* record at once; without a digest the Candidate is not even built and raises.
Record(s, eligible, receipt, next) ==
    /\ call[s].pc = "record_attempt"
    /\ IF call[s].digest
       THEN /\ RecordAttemptWithReceipt(
                  [candidate |-> call[s].tree, eligible |-> eligible,
                   score |-> IF call[s].passed THEN 0 ELSE 1], receipt)
            /\ Advance(s, [At(s, next) EXCEPT !.cand = call[s].tree, !.eligible = eligible])
       ELSE Return(s) /\ UNCHANGED ledger
    /\ UNCHANGED <<children, crashes, world>>

-----------------------------------------------------------------------------
\* reconcile: lineage() in two statements, the receipts, the events.

ReadCandidates(s) ==
    /\ call[s].pc = "read_candidates"
    /\ Advance(s, [At(s, "read_evaluations") EXCEPT
                      !.cand = IF candidates = <<>> THEN None ELSE candidates[Len(candidates)]])
    /\ UNCHANGED <<ledger, children, crashes, world>>

ReadEvaluations(s) ==
    /\ call[s].pc = "read_evaluations"
    /\ Advance(s, [At(s, "read_receipts") EXCEPT
                      !.evals = Len(evaluations),
                      !.eligible = /\ evaluations # <<>>
                                   /\ evaluations[Len(evaluations)].eligible])
    /\ UNCHANGED <<ledger, children, crashes, world>>

ReadReceipts(s) ==
    /\ call[s].pc = "read_receipts"
    /\ Advance(s, [At(s, "read_events") EXCEPT !.receipts = Len(receipts)])
    /\ UNCHANGED <<ledger, children, crashes, world>>

\* Mutant of Complete: it takes a receipt for one that was already applied.
CompleteOffByOne(c, applied) == c.evals > applied + 1 /\ c.receipts > applied + 1

\* The attempt left its whole evidence, and no verdict has been given on it.
Complete(c, applied) == c.evals > applied /\ c.receipts > applied

Decision(c, applied) ==
    IF Complete(c, applied)
    THEN [c EXCEPT !.evals = 0, !.receipts = 0,
                   !.pc = IF c.state.status = "running" THEN "candidate_ready" ELSE Verdict(c)]
    ELSE LET event == IF c.state.status = "running" THEN "interrupt" ELSE "evaluation_missing"
         IN  [NoCall EXCEPT !.op = c.op, !.state = c.state, !.alone = c.alone, !.pc = event,
                            !.note = IF event = "interrupt" THEN "interrupted" ELSE event]

\* With no candidate to take, candidates[-1] raises IndexError.
ReadEvents(s) ==
    LET applied == Cardinality({i \in DOMAIN journal :
                      journal[i].event \in {"evaluation_eligible", "evaluation_ineligible"}})
    IN  /\ call[s].pc = "read_events"
        /\ Advance(s, IF Complete(call[s], applied) /\ call[s].cand = None
                      THEN NoCall ELSE Decision(call[s], applied))
        /\ UNCHANGED <<ledger, children, crashes, world>>

-----------------------------------------------------------------------------

\* A call has the handle of the child it launched until it has a result.
Holds(s, i) ==
    call[s].child = i /\ call[s].pc \in {"await_child", "cancel_child", "read_result"}

\* The process dies, or the tool call is dropped, with the call half done.
Vanish(s) ==
    /\ ~Idle(s)
    /\ crashes < MaxCrashes
    /\ crashes' = crashes + 1
    /\ Return(s)
    /\ children' = [i \in DOMAIN children |->
                      IF Holds(s, i) /\ children[i] = "alive" THEN "lost" ELSE children[i]]
    /\ UNCHANGED <<ledger, world>>

\* The calls that move a run on; cancel does so only if someone asks for it.
Work(s) == BeginAttempt(s) \/ BeginReconcile(s)

\* What a session does inside its call, but for its effects.
ProceedInLedger(s) ==
    \/ Build(s) \/ CreateRun(s) \/ Commit(s) \/ Refuse(s) \/ Observe(s)
    \/ RunChild(s)
    \/ ReadCandidates(s) \/ ReadEvaluations(s) \/ ReadReceipts(s) \/ ReadEvents(s)

-----------------------------------------------------------------------------

AttemptPoints ==
    Events \cup {"idle", "build", "create_run", "observe", "run_child", "await_child",
                 "cancel_child", "read_result", "child_result", "record_attempt",
                 "read_candidates", "read_evaluations", "read_receipts", "read_events"}

Calls(Points) ==
    [op       : {"none", "create", "attempt", "reconcile", "cancel"},
     pc       : AttemptPoints \cup Points,
     state    : RunStates(Candidates),
     child    : Nat,
     answer   : Candidates \cup {None},
     digest   : BOOLEAN,
     tree     : Candidates \cup {None},
     passed   : BOOLEAN,
     cand     : Candidates \cup {None},
     evals    : Nat,
     receipts : Nat,
     eligible : BOOLEAN,
     note     : Observations \cup {None},
     alone    : BOOLEAN]

MovesBy(event) == {i \in DOMAIN journal : journal[i].moves /\ journal[i].event = event}

Observed(event) == {i \in DOMAIN journal : ~journal[i].moves /\ journal[i].event = event}

\* A child is at work only for a call that waits for it or is about to cancel it: no
\* timeout, refusal or reconciliation leaves one behind.  A crash, and a service that
\* raises, do: the handle is in the call alone, and that child is "lost".
ChildrenOwned ==
    \A i \in DOMAIN children : children[i] = "alive" => \E s \in Sessions : Holds(s, i)

\* docs/PHASE3.md: "complete receipt and candidate/evaluation: replay deterministic
\* evaluation".  A reconcile that began when no call was inside the attempt ends it for
\* lack of evidence only if there is no receipt, whatever else goes on meanwhile.
ReceiptNotDiscarded ==
    [][\A s \in Sessions :
          /\ call[s].alone
          /\ call[s].pc \in {"interrupt", "evaluation_missing"}
          /\ call'[s] # call[s]
          /\ run' # run
          => receipts = <<>>]_vars

\* A run that was approved is brought to an end, as long as someone keeps calling.
RunFinishes == (run.status = "ready") ~> (run.status \in Terminal)
=============================================================================
