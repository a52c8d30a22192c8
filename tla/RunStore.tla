------------------------------- MODULE RunStore -------------------------------
(***************************************************************************)
(* The SQLite ledger of one run (src/storage.py).  Every operation of the  *)
(* store is one SQLite transaction and so one step here; what a caller     *)
(* reads it reads in a step of its own, and what it writes later may be    *)
(* stale by then.  Whatever fails a guard raises in the code and changes   *)
(* nothing.                                                                *)
(*                                                                         *)
(* Rows are kept in insertion order.  A journal row carries the state      *)
(* itself where the code stores its revision and its hash.                 *)
(***************************************************************************)
EXTENDS StateMachine, Sequences, FiniteSets

CONSTANTS
    Candidates,     \* digests of candidates
    Scores,         \* scores an evaluation may hold
    Advices,        \* advice artifacts, by digest
    Receipts,       \* mutation and sandbox receipts, by digest
    Observations    \* names of the observations callers record

ASSUME StoreAssumption ==
    /\ None \notin Candidates
    /\ Scores \subseteq Nat

VARIABLES
    run,            \* the run's state_json
    journal,        \* run_events: transitions and observations
    candidates,     \* rows of candidates
    evaluations,    \* rows of evaluations
    advice,         \* rows of supervisor_advice
    receipts,       \* rows of mutation_receipts and sandbox_receipts
    memory          \* the row of continuation_memory

evidence == <<candidates, evaluations, advice, receipts>>
ledger == <<run, journal, evidence, memory>>

Evaluations == [candidate : Candidates, eligible : BOOLEAN, score : Scores]

Memories ==
    [memory_revision : Nat, state_revision : Nat, run_status : Statuses,
     best : Candidates \cup {None}, advised : BOOLEAN]

\* There is no memory row yet: revision 0 is what the compare-and-swap expects then.
NoMemory ==
    [memory_revision |-> 0, state_revision |-> 0, run_status |-> "created",
     best |-> None, advised |-> FALSE]

\* Mutant of TransitionRow: the event is written with the state before the transition.
TransitionRowBefore(event, cand, delta, state) ==
    [event |-> event, moves |-> TRUE, candidate |-> cand, cost |-> delta, state |-> run]

\* A transition's payload names its candidate and cost; an observation's has neither.
\* Only the payload tells the two apart: both may go by the same event name.
TransitionRow(event, cand, delta, state) ==
    [event |-> event, moves |-> TRUE, candidate |-> cand, cost |-> delta, state |-> state]

ObservationRow(event, state) ==
    [event |-> event, moves |-> FALSE, candidate |-> None, cost |-> 0, state |-> state]

\* create_run has committed: the run's row and the event that says so.
StoreInit ==
    /\ run = NewRun
    /\ journal = <<ObservationRow("run_created", NewRun)>>
    /\ candidates = <<>>
    /\ evaluations = <<>>
    /\ advice = <<>>
    /\ receipts = <<>>
    /\ memory = NoMemory

-----------------------------------------------------------------------------

Rows(table) == {table[i] : i \in DOMAIN table}

\* Mutant of Transition: the expected revision is not compared.
TransitionUnchecked(event, expected, cand, delta) ==
    /\ Accepts(run, event, cand, delta)
    /\ run' = Apply(run, event, cand, delta)
    /\ journal' = Append(journal, TransitionRow(event, cand, delta, run'))
    /\ UNCHANGED <<evidence, memory>>

\* The write lock is held from the read of the state to the commit, so the state the
\* event applies to is the one whose revision the caller expected.
Transition(event, expected, cand, delta) ==
    /\ expected = run.revision
    /\ Accepts(run, event, cand, delta)
    /\ run' = Apply(run, event, cand, delta)
    /\ journal' = Append(journal, TransitionRow(event, cand, delta, run'))
    /\ UNCHANGED <<evidence, memory>>

\* Mutant of RecordObservation: evidence moves the run's revision on.
ObservationMoves(event) ==
    /\ run' = [run EXCEPT !.revision = @ + 1]
    /\ journal' = Append(journal, ObservationRow(event, run))
    /\ UNCHANGED <<evidence, memory>>

\* Evidence that claims no change is stamped with whatever state it finds.
RecordObservation(event) ==
    /\ journal' = Append(journal, ObservationRow(event, run))
    /\ UNCHANGED <<run, evidence, memory>>

RecordCandidate(cand) ==
    /\ cand \notin Rows(candidates)
    /\ candidates' = Append(candidates, cand)
    /\ UNCHANGED <<run, journal, evaluations, advice, receipts, memory>>

\* The evaluation's candidate must exist (foreign key).
RecordEvaluation(eval) ==
    /\ eval \notin Rows(evaluations)
    /\ eval.candidate \in Rows(candidates)
    /\ evaluations' = Append(evaluations, eval)
    /\ UNCHANGED <<run, journal, candidates, advice, receipts, memory>>

\* A candidate and its evaluation, in one transaction.  Neither the run's revision
\* nor its status is looked at.
RecordAttempt(eval) ==
    /\ eval.candidate \notin Rows(candidates)
    /\ eval \notin Rows(evaluations)
    /\ candidates' = Append(candidates, eval.candidate)
    /\ evaluations' = Append(evaluations, eval)
    /\ UNCHANGED <<run, journal, advice, receipts, memory>>

\* record_mutation_attempt and record_sandbox_attempt: the same with a receipt.
RecordAttemptWithReceipt(eval, receipt) ==
    /\ eval.candidate \notin Rows(candidates)
    /\ eval \notin Rows(evaluations)
    /\ receipt \notin Rows(receipts)
    /\ candidates' = Append(candidates, eval.candidate)
    /\ evaluations' = Append(evaluations, eval)
    /\ receipts' = Append(receipts, receipt)
    /\ UNCHANGED <<run, journal, advice, memory>>

RecordReceipt(receipt) ==
    /\ receipt \notin Rows(receipts)
    /\ receipts' = Append(receipts, receipt)
    /\ UNCHANGED <<run, journal, candidates, evaluations, advice, memory>>

RecordAdvice(artifact) ==
    /\ artifact \notin Rows(advice)
    /\ advice' = Append(advice, artifact)
    /\ UNCHANGED <<run, journal, candidates, evaluations, receipts, memory>>

\* Compare-and-swap on the memory's own revision; the run's is not looked at.
SaveMemory(new, expected) ==
    /\ expected = memory.memory_revision
    /\ new.memory_revision = expected + 1
    /\ memory' = new
    /\ UNCHANGED <<run, journal, evidence>>

\* The memory a caller builds from a state it loaded, now or earlier.
Snapshot(state, revision, advised) ==
    [memory_revision |-> revision, state_revision |-> state.revision,
     run_status |-> state.status, best |-> state.best, advised |-> advised]

\* The store under callers that know no protocol, except that what they save as memory
\* describes a state the run has been in.  A cost that is not finite is refused, so the
\* finite ones are all the costs there are to charge.
StoreNext ==
    \/ \E event \in Events, expected \in 0 .. run.revision, cand \in Candidates \cup {None},
          delta \in 0 .. CostCeiling :
          Transition(event, expected, cand, delta)
    \/ \E event \in Observations : RecordObservation(event)
    \/ \E cand \in Candidates : RecordCandidate(cand)
    \/ \E eval \in Evaluations : RecordEvaluation(eval) \/ RecordAttempt(eval)
    \/ \E eval \in Evaluations, receipt \in Receipts : RecordAttemptWithReceipt(eval, receipt)
    \/ \E receipt \in Receipts : RecordReceipt(receipt)
    \/ \E artifact \in Advices : RecordAdvice(artifact)
    \/ \E expected \in 0 .. memory.memory_revision, i \in DOMAIN journal, advised \in BOOLEAN :
          SaveMemory(Snapshot(journal[i].state, expected + 1, advised), expected)

StoreSpec == StoreInit /\ [][StoreNext]_ledger

-----------------------------------------------------------------------------

JournalRows ==
    [event     : Events \cup Observations \cup {"run_created"},
     moves     : BOOLEAN,
     candidate : Candidates \cup {None},
     cost      : Nat,
     state     : RunStates(Candidates)]

\* The rows and the state hold what their columns and their contracts allow.
StoreTypeOK ==
    /\ run \in RunStates(Candidates)
    /\ journal \in Seq(JournalRows)
    /\ candidates \in Seq(Candidates)
    /\ evaluations \in Seq(Evaluations)
    /\ advice \in Seq(Advices)
    /\ receipts \in Seq(Receipts)
    /\ memory \in Memories

\* A row follows from the row before it: a transition was accepted by the state of
\* that row and led to the state it records, an observation found that state.
Follows(row, before) ==
    IF row.moves
    THEN /\ Accepts(before.state, row.event, row.candidate, row.cost)
         /\ row.state = Apply(before.state, row.event, row.candidate, row.cost)
    ELSE row.state = before.state

\* The journal is the run: replaying its transitions from the row of create_run,
\* with observations anywhere between them, goes through every state the journal
\* records and ends in the state the run has.  So no transition commits without its
\* event, no event without its transition, and none was computed from a stale state.
JournalReplays ==
    /\ journal # <<>>
    /\ journal[1] = ObservationRow("run_created", NewRun)
    /\ \A i \in 2 .. Len(journal) : Follows(journal[i], journal[i - 1])
    /\ journal[Len(journal)].state = run

\* The run the ledger keeps is a run of RunLifecycle.
Lifecycle == INSTANCE RunLifecycle WITH state <- run, CostDeltas <- 0 .. CostCeiling
LifecycleSpec == Lifecycle!Spec
=============================================================================
