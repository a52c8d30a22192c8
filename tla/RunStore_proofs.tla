--------------------------- MODULE RunStore_proofs ---------------------------
(***************************************************************************)
(* What the ledger guarantees to callers that follow no protocol at all:   *)
(* its rows keep their types, its journal replays to the run's state, and  *)
(* the run it keeps is a run of RunLifecycle.                              *)
(*                                                                         *)
(* Each operation has its own lemmas, so that a module of callers can cite *)
(* them for the operations it uses.                                        *)
(***************************************************************************)
EXTENDS RunStore, StateMachine_proofs, SequenceTheorems, FiniteSetTheorems

LEMMA NewRunType == NewRun \in RunStates(Candidates)
  BY SpecAssumption DEF NewRun, RunStates, Statuses, SafeResume, SpecAssumption

\* One more row whose state follows from the last row's keeps the journal replaying.
LEMMA JournalGrows ==
    ASSUME journal \in Seq(JournalRows), JournalReplays, NEW row \in JournalRows,
           journal' = Append(journal, row),
           Follows(row, journal[Len(journal)]),
           run' = row.state
    PROVE  journal' \in Seq(JournalRows) /\ JournalReplays'
  <1>1. /\ journal' \in Seq(JournalRows)
        /\ journal' # <<>>
        /\ Len(journal') = Len(journal) + 1
        /\ \A i \in 1 .. Len(journal) : journal'[i] = journal[i]
        /\ journal'[Len(journal) + 1] = row
    BY AppendProperties
  <1>2. Len(journal) \in Nat \ {0}
    BY DEF JournalReplays
  <1>3. journal'[1] = ObservationRow("run_created", NewRun)
    BY <1>1, <1>2 DEF JournalReplays
  <1>4. ASSUME NEW i \in 2 .. Len(journal')
        PROVE  Follows(journal'[i], journal'[i - 1])
    <2>1. CASE i \in 2 .. Len(journal)
      <3>1. journal'[i] = journal[i] /\ journal'[i - 1] = journal[i - 1]
        BY <1>1, <1>2, <2>1
      <3> QED
        BY <2>1, <3>1 DEF JournalReplays
    <2>2. CASE i = Len(journal) + 1
      <3>1. journal'[i] = row /\ journal'[i - 1] = journal[Len(journal)]
        BY <1>1, <1>2, <2>2
      <3> QED
        BY <3>1
    <2> QED
      BY <1>1, <1>2, <2>1, <2>2
  <1> QED
    BY <1>1, <1>2, <1>3, <1>4 DEF JournalReplays

\* A transition keeps the run's type and the journal's account of it.
LEMMA TransitionKeeps ==
    ASSUME StoreTypeOK, JournalReplays, NEW event \in Events, NEW expected,
           NEW cand \in Candidates \cup {None}, NEW delta \in Int,
           Transition(event, expected, cand, delta)
    PROVE  run' \in RunStates(Candidates) /\ journal' \in Seq(JournalRows) /\ JournalReplays'
  <1>1. /\ run \in RunStates(Candidates)
        /\ journal \in Seq(JournalRows)
        /\ Accepts(run, event, cand, delta)
        /\ run' = Apply(run, event, cand, delta)
        /\ journal' = Append(journal, TransitionRow(event, cand, delta, run'))
    BY DEF StoreTypeOK, Transition
  <1>2. run' \in RunStates(Candidates)
    BY <1>1, ApplyType
  <1>3. TransitionRow(event, cand, delta, run') \in JournalRows
    BY <1>1, <1>2 DEF TransitionRow, JournalRows, Accepts
  <1>4. /\ Follows(TransitionRow(event, cand, delta, run'), journal[Len(journal)])
        /\ run' = TransitionRow(event, cand, delta, run').state
    BY <1>1 DEF Follows, TransitionRow, JournalReplays
  <1> QED
    BY <1>1, <1>2, <1>3, <1>4, JournalGrows

\* An observation records the state it finds.
LEMMA ObservationKeeps ==
    ASSUME StoreTypeOK, JournalReplays, NEW event \in Observations, RecordObservation(event)
    PROVE  journal' \in Seq(JournalRows) /\ JournalReplays'
  <1>1. /\ run \in RunStates(Candidates)
        /\ journal \in Seq(JournalRows)
        /\ journal' = Append(journal, ObservationRow(event, run))
        /\ run' = run
    BY DEF StoreTypeOK, RecordObservation
  <1>2. ObservationRow(event, run) \in JournalRows
    BY <1>1 DEF ObservationRow, JournalRows
  <1>3. /\ Follows(ObservationRow(event, run), journal[Len(journal)])
        /\ run' = ObservationRow(event, run).state
    BY <1>1 DEF Follows, ObservationRow, JournalReplays
  <1> QED
    BY <1>1, <1>2, <1>3, JournalGrows

\* A memory built from a state of the journal has its types.
LEMMA SnapshotType ==
    ASSUME NEW s \in RunStates(Candidates), NEW n \in Nat, NEW advised \in BOOLEAN
    PROVE  Snapshot(s, n, advised) \in Memories
  BY DEF Snapshot, Memories, RunStates

-----------------------------------------------------------------------------

Inv == StoreTypeOK /\ JournalReplays

LEMMA InvInit == StoreInit => Inv
  <1> SUFFICES ASSUME StoreInit PROVE Inv
    OBVIOUS
  <1>1. ObservationRow("run_created", NewRun) \in JournalRows
    BY NewRunType DEF ObservationRow, JournalRows
  <1>2. journal \in Seq(JournalRows)
    BY <1>1 DEF StoreInit
  <1>3. memory \in Memories
    BY DEF StoreInit, NoMemory, Memories, Statuses
  <1>4. StoreTypeOK
    BY <1>2, <1>3, NewRunType, EmptySeq DEF StoreInit, StoreTypeOK
  <1>5. JournalReplays
    BY DEF StoreInit, JournalReplays, ObservationRow
  <1> QED
    BY <1>4, <1>5 DEF Inv

LEMMA InvStep == Inv /\ [StoreNext]_ledger => Inv'
  <1> SUFFICES ASSUME Inv, [StoreNext]_ledger PROVE Inv'
    OBVIOUS
  <1> USE DEF Inv
  <1>1. CASE UNCHANGED ledger
    BY <1>1 DEF ledger, evidence, StoreTypeOK, JournalReplays
  <1>2. ASSUME NEW event \in Events, NEW expected \in 0 .. run.revision,
               NEW cand \in Candidates \cup {None}, NEW delta \in 0 .. CostCeiling,
               Transition(event, expected, cand, delta)
        PROVE  Inv'
    <2>1. run' \in RunStates(Candidates) /\ journal' \in Seq(JournalRows) /\ JournalReplays'
      BY <1>2, TransitionKeeps
    <2> QED
      BY <1>2, <2>1 DEF Transition, evidence, StoreTypeOK
  <1>3. ASSUME NEW event \in Observations, RecordObservation(event)
        PROVE  Inv'
    <2>1. journal' \in Seq(JournalRows) /\ JournalReplays'
      BY <1>3, ObservationKeeps
    <2> QED
      BY <1>3, <2>1 DEF RecordObservation, evidence, StoreTypeOK
  <1>4. ASSUME NEW cand \in Candidates, RecordCandidate(cand)
        PROVE  Inv'
    <2>1. candidates' \in Seq(Candidates)
      BY <1>4, AppendProperties DEF RecordCandidate, StoreTypeOK
    <2> QED
      BY <1>4, <2>1 DEF RecordCandidate, StoreTypeOK, JournalReplays
  <1>5. ASSUME NEW eval \in Evaluations, RecordEvaluation(eval)
        PROVE  Inv'
    <2>1. evaluations' \in Seq(Evaluations)
      BY <1>5, AppendProperties DEF RecordEvaluation, StoreTypeOK
    <2> QED
      BY <1>5, <2>1 DEF RecordEvaluation, StoreTypeOK, JournalReplays
  <1>6. ASSUME NEW eval \in Evaluations, RecordAttempt(eval)
        PROVE  Inv'
    <2>1. eval.candidate \in Candidates
      BY DEF Evaluations
    <2>2. candidates' \in Seq(Candidates) /\ evaluations' \in Seq(Evaluations)
      BY <1>6, <2>1, AppendProperties DEF RecordAttempt, StoreTypeOK
    <2> QED
      BY <1>6, <2>2 DEF RecordAttempt, StoreTypeOK, JournalReplays
  <1>7. ASSUME NEW eval \in Evaluations, NEW receipt \in Receipts,
               RecordAttemptWithReceipt(eval, receipt)
        PROVE  Inv'
    <2>1. eval.candidate \in Candidates
      BY DEF Evaluations
    <2>2. /\ candidates' \in Seq(Candidates)
          /\ evaluations' \in Seq(Evaluations)
          /\ receipts' \in Seq(Receipts)
      BY <1>7, <2>1, AppendProperties DEF RecordAttemptWithReceipt, StoreTypeOK
    <2> QED
      BY <1>7, <2>2 DEF RecordAttemptWithReceipt, StoreTypeOK, JournalReplays
  <1>8. ASSUME NEW receipt \in Receipts, RecordReceipt(receipt)
        PROVE  Inv'
    <2>1. receipts' \in Seq(Receipts)
      BY <1>8, AppendProperties DEF RecordReceipt, StoreTypeOK
    <2> QED
      BY <1>8, <2>1 DEF RecordReceipt, StoreTypeOK, JournalReplays
  <1>9. ASSUME NEW artifact \in Advices, RecordAdvice(artifact)
        PROVE  Inv'
    <2>1. advice' \in Seq(Advices)
      BY <1>9, AppendProperties DEF RecordAdvice, StoreTypeOK
    <2> QED
      BY <1>9, <2>1 DEF RecordAdvice, StoreTypeOK, JournalReplays
  <1>10. ASSUME NEW expected \in 0 .. memory.memory_revision, NEW i \in DOMAIN journal,
                NEW advised \in BOOLEAN,
                SaveMemory(Snapshot(journal[i].state, expected + 1, advised), expected)
         PROVE  Inv'
    <2>1. journal[i] \in JournalRows
      BY ElementOfSeq DEF StoreTypeOK
    <2>2. journal[i].state \in RunStates(Candidates)
      BY <2>1 DEF JournalRows
    <2>3. expected + 1 \in Nat
      BY DEF StoreTypeOK, Memories
    <2>4. memory' \in Memories
      BY <1>10, <2>2, <2>3, SnapshotType DEF SaveMemory
    <2> QED
      BY <1>10, <2>4 DEF SaveMemory, evidence, StoreTypeOK, JournalReplays
  <1> QED
    BY <1>1, <1>2, <1>3, <1>4, <1>5, <1>6, <1>7, <1>8, <1>9, <1>10 DEF StoreNext

LEMMA InvHolds == StoreSpec => []Inv
  BY InvInit, InvStep, PTL DEF StoreSpec

\* Under callers that know no protocol, every table of the ledger keeps its types.
THEOREM StoreTyped == StoreSpec => []StoreTypeOK
  BY InvHolds, PTL DEF Inv

\* Replaying the journal always gives the run's state: no update was lost and no
\* transition was computed from a stale state, whatever revisions callers expected.
THEOREM StoreJournal == StoreSpec => []JournalReplays
  BY InvHolds, PTL DEF Inv

-----------------------------------------------------------------------------
\* The refinement: the ledger's run is a run of RunLifecycle.

\* The operators of Lifecycle are those of this module, instance by instance.
LEMMA LifecycleApply ==
    ASSUME NEW s, NEW event, NEW cand, NEW delta
    PROVE  /\ Lifecycle!Accepts(s, event, cand, delta) = Accepts(s, event, cand, delta)
           /\ Lifecycle!Apply(s, event, cand, delta) = Apply(s, event, cand, delta)
  <1>1. Lifecycle!Accepts(s, event, cand, delta) = Accepts(s, event, cand, delta)
    BY DEF Lifecycle!Accepts, Accepts, Lifecycle!Allowed, Allowed, Lifecycle!AttemptEnd,
           AttemptEnd, Lifecycle!Unproductive, Unproductive, Lifecycle!SafeResume, SafeResume
  <1>2. Lifecycle!Apply(s, event, cand, delta) = Apply(s, event, cand, delta)
    BY DEF Lifecycle!Apply, Apply, Lifecycle!Unproductive, Unproductive,
           Lifecycle!Goto, Goto, Lifecycle!Conclusion, Conclusion, Lifecycle!Spent, Spent,
           Lifecycle!AfterFailure, AfterFailure, Lifecycle!AfterSuccess, AfterSuccess,
           Lifecycle!StatusAfterAttempt, StatusAfterAttempt
  <1> QED
    BY <1>1, <1>2

\* Every operation of the ledger is a transition of the run or leaves the run alone:
\* journal, evidence and memory never move it by themselves.
THEOREM StoreImplementsLifecycle == StoreSpec => LifecycleSpec
  <1>1. StoreInit => Lifecycle!Init
    BY DEF StoreInit, Lifecycle!Init, Lifecycle!NewRun, NewRun
  <1>2. [StoreNext]_ledger => [Lifecycle!Next]_run
    <2> SUFFICES ASSUME StoreNext, run' # run PROVE Lifecycle!Next
      BY DEF ledger
    <2>1. PICK event \in Events, expected \in 0 .. run.revision, cand \in Candidates \cup {None},
               delta \in 0 .. CostCeiling :
              Transition(event, expected, cand, delta)
      BY DEF StoreNext, RecordObservation, RecordCandidate, RecordEvaluation, RecordAttempt,
             RecordAttemptWithReceipt, RecordReceipt, RecordAdvice, SaveMemory
    <2>2. Accepts(run, event, cand, delta) /\ run' = Apply(run, event, cand, delta)
      BY <2>1 DEF Transition
    <2>3. Lifecycle!Transition(event, cand, delta)
      BY <2>2, LifecycleApply DEF Lifecycle!Transition
    <2> QED
      BY <2>3 DEF Lifecycle!Next, Lifecycle!Events, Events
  <1> QED
    BY <1>1, <1>2, PTL DEF StoreSpec, LifecycleSpec, Lifecycle!Spec
=============================================================================
