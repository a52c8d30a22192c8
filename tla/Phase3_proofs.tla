----------------------------- MODULE Phase3_proofs -----------------------------
(***************************************************************************)
(* Phase 3's effects happen once, for any number of sessions and crashes.  *)
(* SingleAttempt_proofs shows that one call at most is inside the attempt; *)
(* here its way through the effects is followed: before the write nothing  *)
(* was written, before the tests nothing was tested, and the points from   *)
(* which an effect is still to come are only reached from one another or   *)
(* from a run that was ready, which is a run nothing was done for.         *)
(***************************************************************************)
EXTENDS Phase3, SingleAttempt_proofs

\* The points a call passes before the source is replaced, and before the tests run.
BeforeWrite == Launching \cup {"write_temporary", "replace"}
BeforeTests == BeforeWrite \cup {"hash_tree", "mutation_applied", "run_tests"}

EffectInv ==
    /\ DOMAIN world = DOMAIN Untouched
    /\ world.writes \in {0, 1}
    /\ world.tests \in {0, 1}
    /\ run.status \in {"created", "ready"} => world.writes = 0 /\ world.tests = 0
    /\ \A s \in Sessions : call[s].pc \in BeforeTests =>
                               call[s].op = "attempt" /\ world.tests = 0
    /\ \A s \in Sessions : call[s].pc \in BeforeWrite => world.writes = 0

\* A step that leaves the effects alone.
NoEffect ==
    /\ DOMAIN world' = DOMAIN world
    /\ world'.writes = world.writes
    /\ world'.tests = world.tests
    /\ world'.source = world.source

LEMMA PointsOfTheAttempt ==
    /\ BeforeTests \cap LedgerPoints = Launching
    /\ "start_step" \notin BeforeTests
  BY DEF BeforeTests, BeforeWrite, Launching, LedgerPoints, AttemptPoints, Events

\* What a call does on the ledger or with its child leaves the repository alone, once
\* there is one.
LEMMA LedgerNoEffect ==
    ASSUME EffectInv, NEW s \in Sessions, ProceedInLedger(s)
    PROVE  NoEffect
  <1>1. DOMAIN world = {"repository", "recorded", "source", "temporary", "tests", "writes"}
    BY DEF EffectInv, Untouched
  <1>2. CASE world' = world
    BY <1>2 DEF NoEffect
  <1>3. CASE Build(s) \/ CreateRun(s)
    <2>1. \/ world' = world
          \/ \E v : world' = [world EXCEPT !.repository = v]
          \/ \E v : world' = [world EXCEPT !.recorded = v]
      BY <1>3, Zenon DEF Build, CreateRun, Raise
    <2> QED
      BY <1>1, <2>1 DEF NoEffect
  <1> QED
    BY <1>2, <1>3 DEF ProceedInLedger, Commit, Refuse, Observe, RunChild, LaunchChild,
       AwaitChild, CancelChild, ReadResult, ReadCandidates, ReadEvaluations, ReadReceipts,
       ReadEvents

\* A step of one call on the ledger keeps the effects where they are.
LEMMA StepKeepsEffects ==
    ASSUME AttemptInv, EffectInv, NEW s \in Sessions, StepOf(s), NoEffect
    PROVE  EffectInv'
  <1>1. /\ AttemptInv'
        /\ \A t \in Sessions : t # s => call'[t] = call[t]
        /\ call'[s].pc \in LedgerPoints
        /\ call'[s].pc \in Launching =>
               call[s].pc \in Launching \/ run.status = "ready"
        /\ run'.status \in {"created", "ready"} => run.status \in {"created", "ready"}
    BY DEF StepOf
  <1>2. Launching \subseteq BeforeWrite /\ BeforeWrite \subseteq BeforeTests
    BY DEF BeforeWrite, BeforeTests
  <1>3. call'[s].pc \in BeforeTests =>
            /\ call'[s].pc \in Launching
            /\ call'[s].op = "attempt"
            /\ world.writes = 0
            /\ world.tests = 0
    <2>1. call'[s].pc \in BeforeTests => call'[s].pc \in Launching
      BY <1>1, PointsOfTheAttempt
    <2>2. call'[s].pc \in Launching => call'[s].op = "attempt"
      BY <1>1 DEF AttemptInv, WellFormed
    <2> QED
      BY <1>1, <1>2, <2>1, <2>2 DEF EffectInv
  <1>4. \A t \in Sessions : call'[t].pc \in BeforeTests =>
            call'[t].op = "attempt" /\ world.tests = 0
    BY <1>1, <1>3 DEF EffectInv
  <1>5. \A t \in Sessions : call'[t].pc \in BeforeWrite => world.writes = 0
    BY <1>1, <1>2, <1>3 DEF EffectInv
  <1> QED
    BY <1>1, <1>4, <1>5 DEF EffectInv, NoEffect, BeforeTests, BeforeWrite, Launching, Untouched

\* A step of the one call inside the attempt, which may write or test.
LEMMA EffectKeeps ==
    ASSUME AttemptInv, EffectInv, NEW s \in Sessions, NEW next, Advance(s, next),
           DOMAIN next = DOMAIN NoCall, next.op = call[s].op,
           next.pc \notin {"start_step", "resume", "supervisor_applied"} \cup Launching,
           next.pc \in BeforeTests => call[s].pc \in BeforeTests,
           next.pc \in BeforeWrite => call[s].pc \in BeforeWrite,
           call[s].pc # "start_step",
           run' = run, children' = children, DOMAIN world' = DOMAIN world,
           \/ world'.writes = world.writes
           \/ /\ world'.writes = world.writes + 1
              /\ call[s].pc \in BeforeWrite /\ next.pc \notin BeforeWrite,
           \/ world'.tests = world.tests
           \/ /\ world'.tests = world.tests + 1
              /\ call[s].pc \in BeforeTests /\ next.pc \notin BeforeTests
    PROVE  AttemptInv' /\ EffectInv'
  <1>1. AttemptInv'
    BY QuietMove DEF Launching
  <1>2. \A t \in Sessions : call'[t] = IF t = s THEN next ELSE call[t]
    BY DEF Advance, AttemptInv
  <1>3. BeforeWrite \subseteq BeforeTests
    BY DEF BeforeTests
  <1>4. \A t \in Sessions : call[t].pc \in BeforeTests => Inside(call[t])
    BY PointsOfTheAttempt DEF EffectInv, Inside
  <1>5. world'.writes # world.writes \/ world'.tests # world.tests =>
            /\ call[s].pc \in BeforeTests
            /\ run.status \notin {"created", "ready"}
            /\ \A t \in Sessions : call[t].pc \in BeforeTests => t = s
    BY <1>3, <1>4 DEF AttemptInv
  <1>6. \A t \in Sessions : call'[t].pc \in BeforeTests =>
            call'[t].op = "attempt" /\ world'.tests = 0
    <2> SUFFICES ASSUME NEW t \in Sessions, call'[t].pc \in BeforeTests
                 PROVE  call'[t].op = "attempt" /\ world'.tests = 0
      OBVIOUS
    <2>1. CASE t = s
      BY <1>2, <2>1 DEF EffectInv
    <2>2. CASE t # s
      BY <1>2, <1>5, <2>2 DEF EffectInv
    <2> QED
      BY <2>1, <2>2
  <1>7. \A t \in Sessions : call'[t].pc \in BeforeWrite => world'.writes = 0
    BY <1>2, <1>3, <1>5 DEF EffectInv
  <1>8. world'.writes \in {0, 1} /\ world'.tests \in {0, 1}
    BY DEF EffectInv
  <1> QED
    BY <1>1, <1>5, <1>6, <1>7, <1>8
       DEF EffectInv, BeforeTests, BeforeWrite, Launching, Untouched

\* A call that gives up, and a call that only goes on.
LEMMA ReturnKeepsEffects ==
    ASSUME AttemptInv, EffectInv, NEW s \in Sessions, Return(s), run' = run,
           children' = children, world' = world
    PROVE  AttemptInv' /\ EffectInv'
  BY ReturnStep, StepKeepsEffects DEF StepOf, NoEffect

\* Each effect, and each note or record beside it.
LEMMA MutateKeeps ==
    ASSUME AttemptInv, EffectInv, NEW s \in Sessions, Mutate(s)
    PROVE  AttemptInv' /\ EffectInv'
  <1> USE DEF BeforeTests, BeforeWrite, Launching
  <1>1. DOMAIN world = {"repository", "recorded", "source", "temporary", "tests", "writes"}
    BY DEF EffectInv, Untouched
  <1>2. CASE ObserveChild(s, "write_temporary")
    <2>1. call[s].pc = "child_result" /\ run' = run /\ children' = children /\ world' = world
      BY <1>2 DEF ObserveChild, RecordObservation
    <2>2. Advance(s, Failing(s)) \/ Advance(s, At(s, "write_temporary"))
      BY <1>2 DEF ObserveChild
    <2> QED
      BY <2>1, <2>2, FailingFields, AtFields, EffectKeeps
  <1>3. CASE WriteTemporary(s)
    <2>1. call[s].pc = "write_temporary" /\ run' = run /\ children' = children
      BY <1>3 DEF WriteTemporary, ledger
    <2>2. CASE Raise(s)
      BY <2>1, <2>2, ReturnKeepsEffects DEF Raise
    <2>3. CASE ~Raise(s)
      <3>1. /\ world' = [world EXCEPT !.temporary = TRUE]
            /\ Advance(s, At(s, "replace"))
        BY <1>3, <2>3 DEF WriteTemporary
      <3> QED
        BY <1>1, <2>1, <3>1, AtFields, EffectKeeps
    <2> QED
      BY <2>2, <2>3
  <1>4. CASE Replace(s)
    <2>1. call[s].pc = "replace" /\ run' = run /\ children' = children
      BY <1>4 DEF Replace, ledger
    <2>2. CASE Raise(s)
      BY <2>1, <2>2, ReturnKeepsEffects DEF Raise
    <2>3. CASE ~Raise(s)
      <3>1. PICK source :
              /\ world' = [world EXCEPT !.temporary = FALSE, !.source = source,
                                        !.writes = @ + 1]
              /\ Advance(s, At(s, "hash_tree"))
        BY <1>4, <2>3 DEF Replace
      <3>2. /\ DOMAIN world' = DOMAIN world
            /\ world'.writes = world.writes + 1
            /\ world'.tests = world.tests
        BY <1>1, <3>1
      <3> QED
        BY <2>1, <3>1, <3>2, AtFields, EffectKeeps
    <2> QED
      BY <2>2, <2>3
  <1>5. CASE HashTree(s)
    <2> SUFFICES ASSUME ~Return(s)
                 PROVE  AttemptInv' /\ EffectInv'
      BY <1>5, ReturnKeepsEffects DEF HashTree, ledger
    <2>1. /\ call[s].pc = "hash_tree" /\ run' = run /\ children' = children /\ world' = world
          /\ \E tree : Advance(s, [At(s, "mutation_applied") EXCEPT !.tree = tree])
      BY <1>5 DEF HashTree, ledger
    <2>2. PICK tree : Advance(s, [At(s, "mutation_applied") EXCEPT !.tree = tree])
      BY <2>1
    <2> DEFINE next == [At(s, "mutation_applied") EXCEPT !.tree = tree]
    <2>3. DOMAIN next = DOMAIN NoCall /\ next.op = call[s].op /\ next.pc = "mutation_applied"
      BY AtFields DEF NoCall
    <2> HIDE DEF next
    <2>4. Advance(s, next)
      BY <2>2 DEF next
    <2> QED
      BY <2>1, <2>3, <2>4, EffectKeeps
  <1>6. CASE RunTests(s)
    <2>1. call[s].pc = "run_tests" /\ run' = run /\ children' = children
      BY <1>6 DEF RunTests, ledger
    <2>2. CASE Raise(s)
      BY <2>1, <2>2, ReturnKeepsEffects DEF Raise
    <2>3. CASE ~Raise(s)
      <3>1. /\ world' = [world EXCEPT !.tests = @ + 1]
            /\ \E passed : Advance(s, [At(s, "command_result") EXCEPT !.passed = passed])
        BY <1>6, <2>3, Zenon DEF RunTests
      <3>2. PICK passed : Advance(s, [At(s, "command_result") EXCEPT !.passed = passed])
        BY <3>1
      <3> DEFINE next == [At(s, "command_result") EXCEPT !.passed = passed]
      <3>3. DOMAIN next = DOMAIN NoCall /\ next.op = call[s].op /\ next.pc = "command_result"
        BY AtFields DEF NoCall
      <3>4. /\ DOMAIN world' = DOMAIN world
            /\ world'.writes = world.writes
            /\ world'.tests = world.tests + 1
        BY <1>1, <3>1
      <3> HIDE DEF next
      <3>5. Advance(s, next)
        BY <3>2 DEF next
      <3> QED
        BY <2>1, <3>3, <3>4, <3>5, EffectKeeps
    <2> QED
      BY <2>2, <2>3
  <1>7. CASE MutationApplied(s) \/ CommandResult(s)
    <2>1. /\ run' = run /\ children' = children /\ world' = world
          /\ \/ call[s].pc = "mutation_applied" /\ Advance(s, At(s, "run_tests"))
             \/ call[s].pc = "command_result" /\ Advance(s, At(s, "record_attempt"))
      BY <1>7 DEF MutationApplied, CommandResult, Note, RecordObservation
    <2> QED
      BY <2>1, AtFields, EffectKeeps
  <1>8. CASE RecordMutation(s)
    <2>1. /\ call[s].pc = "record_attempt"
          /\ run' = run /\ children' = children /\ world' = world
      BY <1>8 DEF RecordMutation, Record, RecordAttemptWithReceipt, ledger
    <2>2. \/ Return(s)
          \/ \E cand, eligible :
                Advance(s, [At(s, "candidate_ready") EXCEPT !.cand = cand,
                                                            !.eligible = eligible])
      BY <1>8, Zenon DEF RecordMutation, Record
    <2>3. CASE Return(s)
      BY <2>1, <2>3, ReturnKeepsEffects
    <2>4. CASE ~Return(s)
      <3>1. PICK cand, eligible :
              Advance(s, [At(s, "candidate_ready") EXCEPT !.cand = cand,
                                                          !.eligible = eligible])
        BY <2>2, <2>4
      <3> DEFINE next == [At(s, "candidate_ready") EXCEPT !.cand = cand, !.eligible = eligible]
      <3>2. DOMAIN next = DOMAIN NoCall /\ next.op = call[s].op /\ next.pc = "candidate_ready"
        BY AtFields DEF NoCall
      <3> HIDE DEF next
      <3>3. Advance(s, next)
        BY <3>1 DEF next
      <3> QED
        BY <2>1, <3>2, <3>3, EffectKeeps
    <2> QED
      BY <2>3, <2>4
  <1> QED
    BY <1>2, <1>3, <1>4, <1>5, <1>6, <1>7, <1>8 DEF Mutate

LEMMA BeginKeepsEffects ==
    ASSUME AttemptInv, EffectInv, NEW s \in Sessions, Work(s) \/ BeginCancel(s)
    PROVE  AttemptInv' /\ EffectInv'
  <1>1. AttemptInv'
    BY BeginKeeps DEF Work
  <1>2. PICK op \in {"attempt", "reconcile", "cancel"},
             pc \in {"start_step", "read_candidates", "cancel"} : Begin(s, op, pc)
    BY DEF Work, BeginAttempt, BeginReconcile, BeginCancel
  <1>3. /\ run' = run /\ children' = children /\ world' = world
        /\ \E state, alone : Advance(s, [NoCall EXCEPT !.op = op, !.pc = pc, !.state = state,
                                                       !.alone = alone])
    BY <1>2, Zenon DEF Begin, ledger
  <1>4. PICK state, alone : Advance(s, [NoCall EXCEPT !.op = op, !.pc = pc, !.state = state,
                                                      !.alone = alone])
    BY <1>3
  <1> DEFINE next == [NoCall EXCEPT !.op = op, !.pc = pc, !.state = state, !.alone = alone]
  <1>5. next.pc = pc
    BY DEF NoCall
  <1>6. \A t \in Sessions : call'[t] = IF t = s THEN next ELSE call[t]
    BY <1>4 DEF Advance, AttemptInv
  <1> HIDE DEF next
  <1>7. pc \notin BeforeTests /\ BeforeWrite \subseteq BeforeTests
    BY DEF BeforeTests, BeforeWrite, Launching
  <1> QED
    BY <1>1, <1>3, <1>5, <1>6, <1>7
       DEF EffectInv, BeforeTests, BeforeWrite, Launching, Untouched

\* The effects of the one call inside the attempt, under every step of the system.
LEMMA EffectsStep ==
    ASSUME AttemptInv, EffectInv, [Next]_vars
    PROVE  AttemptInv' /\ EffectInv'
  <1>1. ASSUME NEW i \in DOMAIN children, ChildEnds(i)
        PROVE  AttemptInv' /\ EffectInv'
    <2>1. run' = run /\ call' = call /\ world' = world
      BY <1>1 DEF ChildEnds, ledger
    <2> QED
      BY <1>1, <2>1, ChildEndsKeeps
         DEF EffectInv, BeforeTests, BeforeWrite, Launching, Untouched
  <1>2. ASSUME NEW s \in Sessions, Work(s) \/ BeginCancel(s)
        PROVE  AttemptInv' /\ EffectInv'
    BY <1>2, BeginKeepsEffects
  <1>3. ASSUME NEW s \in Sessions, ProceedInLedger(s)
        PROVE  AttemptInv' /\ EffectInv'
    BY <1>3, LedgerStep, LedgerNoEffect, StepKeepsEffects DEF StepOf
  <1>4. ASSUME NEW s \in Sessions, Mutate(s)
        PROVE  AttemptInv' /\ EffectInv'
    BY <1>4, MutateKeeps
  <1>5. ASSUME NEW s \in Sessions, Vanish(s)
        PROVE  AttemptInv' /\ EffectInv'
    <2>1. Return(s) /\ run' = run /\ world' = world
      BY <1>5 DEF Vanish, ledger
    <2>2. \A t \in Sessions : call'[t] = IF t = s THEN NoCall ELSE call[t]
      BY <2>1 DEF Return, Advance, AttemptInv
    <2>3. NoCall.pc \notin BeforeTests /\ BeforeWrite \subseteq BeforeTests
      BY DEF NoCall, BeforeTests, BeforeWrite, Launching
    <2>4. AttemptInv'
      BY <1>5, VanishKeeps
    <2> QED
      BY <2>1, <2>2, <2>3, <2>4
         DEF EffectInv, BeforeTests, BeforeWrite, Launching, Untouched
  <1>6. ASSUME UNCHANGED vars
        PROVE  AttemptInv' /\ EffectInv'
    BY <1>6 DEF vars, ledger, AttemptInv, EffectInv, WellFormed, Inside, NoCall, NewRun,
       Launching, BeforeTests, BeforeWrite, Untouched
  <1> QED
    BY <1>1, <1>2, <1>3, <1>4, <1>5, <1>6 DEF Next, Proceed

LEMMA EffectsInit == Init => AttemptInv /\ EffectInv
  <1> SUFFICES ASSUME Init PROVE AttemptInv /\ EffectInv
    OBVIOUS
  <1>1. AttemptInv
    BY InitAttempt DEF Init
  <1>2. \A s \in Sessions : call[s].pc \in {"build", "idle"}
    <2>1. PICK creator \in Sessions :
            call = [s \in Sessions |->
                       IF s = creator
                       THEN [NoCall EXCEPT !.op = "create", !.pc = "build",
                                           !.note = "prepared"]
                       ELSE NoCall]
      BY DEF Init, AttemptInit
    <2> QED
      BY <2>1 DEF NoCall
  <1>3. world = Untouched
    BY DEF Init, AttemptInit
  <1> QED
    BY <1>1, <1>2, <1>3 DEF EffectInv, Untouched, BeforeTests, BeforeWrite, Launching

\* docs/PHASE3.md: reconciliation "never reruns effects".  One child, one replacement of
\* calculator.py, one run of the tests, for any number of callers and crashes.
THEOREM Phase3EffectsOnce == Spec => []EffectsOnce
  <1>1. AttemptInv /\ EffectInv => EffectsOnce
    BY DEF AttemptInv, EffectInv, EffectsOnce
  <1>2. AttemptInv /\ EffectInv /\ [Next]_vars => (AttemptInv /\ EffectInv)'
    BY EffectsStep
  <1> QED
    BY <1>1, <1>2, EffectsInit, PTL DEF Spec

-----------------------------------------------------------------------------
(***************************************************************************)
(* Why the repository bears the receipt out: from the write to the record  *)
(* only the call inside the attempt could touch calculator.py, so what it  *)
(* has found out still holds when it goes on record, and afterwards nobody *)
(* is left who could write.                                                *)
(***************************************************************************)

AfterTests == {"command_result", "record_attempt"}
AfterHash == {"mutation_applied", "run_tests"} \cup AfterTests
AfterWrite == {"hash_tree"} \cup AfterHash

Unrecorded == BeforeTests \cup AfterTests

\* What a call has found out, on its way from the write to the record.
Knows(c) ==
    /\ c.pc \in AfterWrite => c.answer = world.source
    /\ c.pc \in AfterHash => c.tree = world.source
    /\ c.pc \in AfterTests => c.passed \in BOOLEAN /\ (c.passed => world.source = "filter_even")

Bears(receipt, evaluation) ==
    /\ receipt.mutation = world.source
    /\ receipt.tree = world.source
    /\ evaluation.candidate = world.source
    /\ evaluation.eligible = (receipt.passed /\ receipt.mutation = "filter_even")
    /\ receipt.passed => world.source = "filter_even"

TruthInv ==
    /\ \/ receipts = <<>> /\ evaluations = <<>>
       \/ \E r, e : receipts = <<r>> /\ evaluations = <<e>> /\ Bears(r, e)
    /\ run.status \in {"created", "ready"} => receipts = <<>>
    /\ \A s \in Sessions : call[s].pc \in Unrecorded =>
                               call[s].op = "attempt" /\ receipts = <<>>
    /\ \A s \in Sessions : Knows(call[s])

\* A step of one call that neither writes nor records.
LEMMA TruthKept ==
    ASSUME TruthInv, NEW s \in Sessions,
           \A t \in Sessions : t # s => call'[t] = call[t],
           world'.source = world.source, receipts' = receipts, evaluations' = evaluations,
           run'.status \in {"created", "ready"} => run.status \in {"created", "ready"},
           call'[s].pc \in Unrecorded => call'[s].op = "attempt" /\ receipts = <<>>,
           Knows(call'[s])
    PROVE  TruthInv'
  <1>1. \A t \in Sessions : Knows(call'[t])
    BY DEF TruthInv
  <1>2. \A t \in Sessions : Knows(call[t])'
    BY <1>1 DEF Knows, AfterWrite, AfterHash, AfterTests
  <1>3. \/ receipts' = <<>> /\ evaluations' = <<>>
        \/ \E r, e : receipts' = <<r>> /\ evaluations' = <<e>> /\ Bears(r, e)'
    BY DEF TruthInv, Bears
  <1>4. \A t \in Sessions : call'[t].pc \in Unrecorded =>
                               call'[t].op = "attempt" /\ receipts' = <<>>
    BY DEF TruthInv
  <1> QED
    BY <1>2, <1>3, <1>4
       DEF TruthInv, Unrecorded, AfterTests, BeforeTests, BeforeWrite, Launching

LEMMA StepKeepsTruth ==
    ASSUME AttemptInv, TruthInv, NEW s \in Sessions, StepOf(s),
           world'.source = world.source, receipts' = receipts, evaluations' = evaluations
    PROVE  TruthInv'
  <1>1. call'[s].pc \notin AfterWrite \cup AfterHash \cup AfterTests
    BY DEF StepOf, AfterWrite, AfterHash, AfterTests, LedgerPoints, AttemptPoints, Events
  <1>2. Knows(call'[s])
    BY <1>1 DEF Knows
  <1>3. ASSUME call'[s].pc \in Unrecorded
        PROVE  call'[s].op = "attempt" /\ receipts = <<>>
    <2>1. call'[s].pc \in Launching
      BY <1>1, <1>3, PointsOfTheAttempt DEF StepOf, Unrecorded
    <2>2. call'[s].op = "attempt"
      BY <2>1 DEF StepOf, AttemptInv, WellFormed
    <2>3. call[s].pc \in Unrecorded \/ run.status = "ready"
      BY <2>1 DEF StepOf, Unrecorded, BeforeTests, BeforeWrite
    <2> QED
      BY <2>2, <2>3 DEF TruthInv
  <1> QED
    BY <1>2, <1>3, TruthKept DEF StepOf

\* A call that goes on without learning anything, and one that gives up.
LEMMA AtKeepsTruth ==
    ASSUME AttemptInv, TruthInv, NEW s \in Sessions, NEW pc, Advance(s, At(s, pc)),
           pc \in AfterWrite => call[s].pc \in AfterWrite,
           pc \in AfterHash => call[s].pc \in AfterHash,
           pc \in AfterTests => call[s].pc \in AfterTests,
           pc \in Unrecorded => call[s].pc \in Unrecorded,
           world'.source = world.source, receipts' = receipts, evaluations' = evaluations,
           run' = run
    PROVE  TruthInv'
  <1>1. \A t \in Sessions : call'[t] = IF t = s THEN At(s, pc) ELSE call[t]
    BY DEF Advance, AttemptInv
  <1>2. DOMAIN call[s] = DOMAIN NoCall
    BY DEF AttemptInv, WellFormed
  <1>3. At(s, pc).pc = pc /\ At(s, pc).op = call[s].op
    BY AtFields
  <1>4. /\ At(s, pc).answer = call[s].answer
        /\ At(s, pc).tree = call[s].tree
        /\ At(s, pc).passed = call[s].passed
    BY <1>2 DEF At, NoCall
  <1>5. Knows(call[s])
    BY DEF TruthInv
  <1>6. Knows(At(s, pc))
    BY <1>3, <1>4, <1>5 DEF Knows
  <1>7. pc \in Unrecorded => At(s, pc).op = "attempt" /\ receipts = <<>>
    BY <1>3 DEF TruthInv
  <1> QED
    BY <1>1, <1>3, <1>6, <1>7, TruthKept

LEMMA LeaveKeepsTruth ==
    ASSUME AttemptInv, TruthInv, NEW s \in Sessions, NEW next, Advance(s, next),
           next.pc \notin Unrecorded \cup AfterWrite,
           world'.source = world.source, receipts' = receipts, evaluations' = evaluations,
           run' = run
    PROVE  TruthInv'
  <1>1. \A t \in Sessions : call'[t] = IF t = s THEN next ELSE call[t]
    BY DEF Advance, AttemptInv
  <1>2. Knows(next)
    BY DEF Knows, AfterWrite, AfterHash
  <1> QED
    BY <1>1, <1>2, TruthKept

LEMMA ReturnKeepsTruth ==
    ASSUME AttemptInv, TruthInv, NEW s \in Sessions, Return(s), UNCHANGED <<ledger, world>>
    PROVE  TruthInv'
  <1>1. NoCall.pc \notin Unrecorded \cup AfterWrite
    BY DEF NoCall, Unrecorded, AfterWrite, AfterHash, AfterTests, BeforeTests, BeforeWrite,
       Launching
  <1> QED
    BY <1>1, LeaveKeepsTruth DEF Return, ledger, evidence

\* While one call is between the start of its attempt and its record, no other is.
LEMMA Alone ==
    ASSUME AttemptInv, TruthInv, NEW s \in Sessions, NEW t \in Sessions,
           call[s].pc \in Unrecorded, call[t].pc \in Unrecorded
    PROVE  s = t
  <1>1. "start_step" \notin Unrecorded
    BY DEF Unrecorded, AfterTests, BeforeTests, BeforeWrite, Launching
  <1> QED
    BY <1>1 DEF AttemptInv, TruthInv, Inside

LEMMA ReplaceKeepsTruth ==
    ASSUME AttemptInv, EffectInv, TruthInv, NEW s \in Sessions, Replace(s)
    PROVE  TruthInv'
  <1>1. /\ call[s].pc = "replace"
        /\ UNCHANGED <<run, receipts, evaluations>>
    BY DEF Replace, ledger, evidence
  <1>2. CASE Raise(s)
    BY <1>2, ReturnKeepsTruth DEF Replace, Raise
  <1>3. CASE ~Raise(s)
    <2>1. /\ world' = [world EXCEPT !.temporary = FALSE, !.source = call[s].answer,
                                    !.writes = @ + 1]
          /\ Advance(s, At(s, "hash_tree"))
      BY <1>3 DEF Replace
    <2>2. world'.source = call[s].answer
      BY <2>1 DEF EffectInv, Untouched
    <2>3. \A t \in Sessions : call'[t] = IF t = s THEN At(s, "hash_tree") ELSE call[t]
      BY <2>1 DEF Advance, AttemptInv
    <2>4. /\ At(s, "hash_tree").pc = "hash_tree"
          /\ At(s, "hash_tree").op = call[s].op
          /\ At(s, "hash_tree").answer = call[s].answer
      BY DEF At, AttemptInv, WellFormed, NoCall
    <2>5. "replace" \in Unrecorded /\ AfterWrite \subseteq Unrecorded
      BY DEF Unrecorded, AfterWrite, AfterHash, AfterTests, BeforeTests, BeforeWrite
    <2>6. \A t \in Sessions : t # s => call'[t].pc \notin Unrecorded
      BY <1>1, <2>3, <2>5, Alone
    <2>7. receipts = <<>> /\ evaluations = <<>> /\ call[s].op = "attempt"
      BY <1>1, <2>5 DEF TruthInv
    <2>8. \A t \in Sessions : Knows(call[t])'
      <3>1. AfterHash \subseteq AfterWrite /\ AfterTests \subseteq AfterHash
        BY DEF AfterWrite, AfterHash
      <3>2. "hash_tree" \notin AfterHash
        BY DEF AfterHash, AfterTests
      <3>3. ASSUME NEW t \in Sessions
            PROVE  Knows(call[t])'
        <4>1. CASE t = s
          BY <2>2, <2>3, <2>4, <3>1, <3>2, <4>1 DEF Knows, AfterWrite, AfterHash, AfterTests
        <4>2. CASE t # s
          BY <2>5, <2>6, <3>1, <4>2 DEF Knows, AfterWrite, AfterHash, AfterTests
        <4> QED
          BY <4>1, <4>2
      <3> QED
        BY <3>3
    <2>9. \A t \in Sessions : call'[t].pc \in Unrecorded =>
                                 call'[t].op = "attempt" /\ receipts' = <<>>
      BY <1>1, <2>3, <2>4, <2>6, <2>7
    <2> QED
      BY <1>1, <2>7, <2>8, <2>9
         DEF TruthInv, Unrecorded, AfterTests, BeforeTests, BeforeWrite, Launching
  <1> QED
    BY <1>2, <1>3

\* The call inside the attempt puts down what it has just seen.
LEMMA LearnKeepsTruth ==
    ASSUME AttemptInv, TruthInv, NEW s \in Sessions, NEW next, Advance(s, next),
           next.op = call[s].op, call[s].pc \in Unrecorded, Knows(next),
           world'.source = world.source, UNCHANGED ledger
    PROVE  TruthInv'
  <1>1. \A t \in Sessions : call'[t] = IF t = s THEN next ELSE call[t]
    BY DEF Advance, AttemptInv
  <1>2. call[s].op = "attempt" /\ receipts = <<>>
    BY DEF TruthInv
  <1> QED
    BY <1>1, <1>2, TruthKept DEF ledger, evidence

LEMMA HashTreeKeepsTruth ==
    ASSUME AttemptInv, TruthInv, NEW s \in Sessions, HashTree(s)
    PROVE  TruthInv'
  <1> DEFINE next == [At(s, "mutation_applied") EXCEPT !.tree = world.source]
  <1>1. call[s].pc = "hash_tree" /\ UNCHANGED <<ledger, world>>
    BY DEF HashTree
  <1> SUFFICES ASSUME Advance(s, next)
               PROVE  TruthInv'
    BY <1>1, ReturnKeepsTruth DEF HashTree
  <1>2. DOMAIN call[s] = DOMAIN NoCall
    BY DEF AttemptInv, WellFormed
  <1>3. /\ next.op = call[s].op /\ next.pc = "mutation_applied"
        /\ next.answer = call[s].answer /\ next.tree = world.source
    BY <1>2 DEF At, NoCall
  <1>4. call[s].answer = world.source
    BY <1>1 DEF TruthInv, Knows, AfterWrite
  <1> HIDE DEF next
  <1>5. Knows(next)
    BY <1>3, <1>4 DEF Knows, AfterTests
  <1> QED
    BY <1>1, <1>3, <1>5, LearnKeepsTruth DEF Unrecorded, BeforeTests

LEMMA RunTestsKeepsTruth ==
    ASSUME AttemptInv, EffectInv, TruthInv, NEW s \in Sessions, RunTests(s)
    PROVE  TruthInv'
  <1>1. call[s].pc = "run_tests" /\ UNCHANGED ledger
    BY DEF RunTests
  <1>2. CASE Raise(s)
    BY <1>1, <1>2, ReturnKeepsTruth DEF Raise
  <1>3. CASE ~Raise(s)
    <2>1. /\ world' = [world EXCEPT !.tests = @ + 1]
          /\ \E passed \in {world.source = "filter_even", FALSE} :
                Advance(s, [At(s, "command_result") EXCEPT !.passed = passed])
      BY <1>3, Zenon DEF RunTests
    <2>2. PICK passed \in {world.source = "filter_even", FALSE} :
             Advance(s, [At(s, "command_result") EXCEPT !.passed = passed])
      BY <2>1
    <2> DEFINE next == [At(s, "command_result") EXCEPT !.passed = passed]
    <2>3. DOMAIN call[s] = DOMAIN NoCall
      BY DEF AttemptInv, WellFormed
    <2>4. /\ next.op = call[s].op /\ next.pc = "command_result"
          /\ next.answer = call[s].answer /\ next.tree = call[s].tree
          /\ next.passed = passed
      BY <2>3 DEF At, NoCall
    <2>5. call[s].answer = world.source /\ call[s].tree = world.source
      BY <1>1 DEF TruthInv, Knows, AfterWrite, AfterHash
    <2>6. passed \in BOOLEAN /\ (passed => world.source = "filter_even")
      BY <2>2
    <2> HIDE DEF next
    <2>7. Knows(next)
      BY <2>4, <2>5, <2>6 DEF Knows
    <2>8. world'.source = world.source
      BY <2>1 DEF EffectInv, Untouched
    <2>9. Advance(s, next)
      BY <2>2 DEF next
    <2> QED
      BY <1>1, <2>4, <2>7, <2>8, <2>9, LearnKeepsTruth DEF Unrecorded, BeforeTests
  <1> QED
    BY <1>2, <1>3

LEMMA RecordKeepsTruth ==
    ASSUME AttemptInv, TruthInv, NEW s \in Sessions, RecordMutation(s)
    PROVE  TruthInv'
  <1> DEFINE receipt == [mutation |-> call[s].answer, tree |-> call[s].tree,
                         passed |-> call[s].passed]
             judged == Judged(s, [tests_pass       |-> call[s].passed,
                                  mutation_matches |-> call[s].answer = "filter_even"])
             evaluation == [candidate |-> call[s].tree, eligible |-> judged,
                            score |-> IF call[s].passed THEN 0 ELSE 1]
  <1>1. call[s].pc = "record_attempt" /\ world' = world
    BY DEF RecordMutation, Record
  <1>2. CASE Return(s) /\ UNCHANGED ledger
    BY <1>1, <1>2, ReturnKeepsTruth
  <1>3. CASE ~(Return(s) /\ UNCHANGED ledger)
    <2>1. /\ RecordAttemptWithReceipt(evaluation, receipt)
          /\ Advance(s, [At(s, "candidate_ready") EXCEPT !.cand = call[s].tree,
                                                         !.eligible = judged])
      BY <1>3, Zenon DEF RecordMutation, Record
    <2>2. \E eligible : Advance(s, [At(s, "candidate_ready") EXCEPT !.cand = call[s].tree,
                                                                   !.eligible = eligible])
      BY <2>1, Zenon
    <2>3. PICK eligible : Advance(s, [At(s, "candidate_ready") EXCEPT !.cand = call[s].tree,
                                                                    !.eligible = eligible])
      BY <2>2
    <2> DEFINE next == [At(s, "candidate_ready") EXCEPT !.cand = call[s].tree,
                                                        !.eligible = eligible]
    <2>4. next.pc = "candidate_ready"
      BY AtFields DEF NoCall
    <2> HIDE DEF next
    <2>5. \A t \in Sessions : call'[t] = IF t = s THEN next ELSE call[t]
      BY <2>3 DEF next, Advance, AttemptInv
    <2>6. /\ receipts = <<>> /\ evaluations = <<>>
          /\ \A t \in Sessions : t # s => call[t].pc \notin Unrecorded
      BY <1>1, Alone DEF TruthInv, Unrecorded, AfterTests
    <2>7. AfterTests \subseteq AfterHash /\ AfterHash \subseteq AfterWrite
      BY DEF AfterHash, AfterWrite
    <2>8. AfterWrite \subseteq Unrecorded /\ "candidate_ready" \notin Unrecorded
      BY DEF AfterWrite, AfterHash, AfterTests, Unrecorded, BeforeTests, BeforeWrite, Launching
    <2>9. \A t \in Sessions : call'[t].pc \notin Unrecorded
      BY <2>4, <2>5, <2>6, <2>8
    <2>10. \A t \in Sessions : Knows(call[t])'
      BY <2>7, <2>8, <2>9 DEF Knows, AfterWrite, AfterHash, AfterTests
    <2>11. receipts' = <<receipt>> /\ evaluations' = <<evaluation>> /\ run' = run
      <3>1. /\ receipts' = Append(receipts, receipt)
            /\ evaluations' = Append(evaluations, evaluation)
            /\ run' = run
        BY <2>1, Zenon DEF RecordAttemptWithReceipt
      <3>2. \A row : Append(<<>>, row) = <<row>>
        OBVIOUS
      <3> HIDE DEF receipt, evaluation
      <3> QED
        BY <2>6, <3>1, <3>2
    <2>12. \E r, e : receipts' = <<r>> /\ evaluations' = <<e>> /\ Bears(r, e)'
      <3>1. /\ call[s].answer = world.source
            /\ call[s].tree = world.source
            /\ call[s].passed \in BOOLEAN
            /\ call[s].passed => world.source = "filter_even"
        BY <1>1 DEF TruthInv, Knows, AfterWrite, AfterHash, AfterTests
      <3>2. judged = (call[s].passed /\ call[s].answer = "filter_even")
        <4>1. PICK p \in BOOLEAN, m \in BOOLEAN :
                 p = call[s].passed /\ m = (call[s].answer = "filter_even")
          BY <3>1
        <4> DEFINE correctness == [tests_pass |-> p, mutation_matches |-> m]
        <4>2. correctness \in [{"tests_pass", "mutation_matches"} -> BOOLEAN]
          OBVIOUS
        <4>3. Judged(s, correctness) =
                 \A k \in {"tests_pass", "mutation_matches"} : correctness[k]
          BY <4>2, JudgedByPredicates
        <4>4. (\A k \in {"tests_pass", "mutation_matches"} : correctness[k]) = (p /\ m)
          <5>1. correctness["tests_pass"] = p /\ correctness["mutation_matches"] = m
            OBVIOUS
          <5> HIDE DEF correctness
          <5> QED
            BY <5>1, Zenon
        <4>5. judged = Judged(s, correctness)
          BY <4>1
        <4> QED
          BY <4>1, <4>3, <4>4, <4>5
      <3>3. PICK passed, verdict : /\ passed = call[s].passed
                                    /\ verdict = judged
        OBVIOUS
      <3>4. receipt = [mutation |-> world.source, tree |-> world.source, passed |-> passed]
        BY <3>1, <3>3
      <3>5. PICK score : evaluation = [candidate |-> world.source, eligible |-> verdict,
                                       score |-> score]
        BY <3>1, <3>3, Zenon
      <3>6. /\ verdict = (passed /\ world.source = "filter_even")
            /\ passed => world.source = "filter_even"
        BY <3>1, <3>2, <3>3
      <3> HIDE DEF receipt, evaluation, judged
      <3>7. /\ receipt.mutation = world.source /\ receipt.tree = world.source
            /\ receipt.passed = passed
            /\ evaluation.candidate = world.source /\ evaluation.eligible = verdict
        BY <3>4, <3>5
      <3>8. PICK r, e : r = receipt /\ e = evaluation
        OBVIOUS
      <3> QED
        BY <1>1, <2>11, <3>6, <3>7, <3>8, Zenon DEF Bears
    <2>13. run'.status \notin {"created", "ready"}
      <3>1. Inside(call[s])
        BY <1>1 DEF TruthInv, Inside, Unrecorded, AfterTests
      <3> QED
        BY <2>11, <3>1 DEF AttemptInv
    <2> QED
      BY <2>9, <2>10, <2>11, <2>12, <2>13
         DEF TruthInv, Unrecorded, AfterTests, BeforeTests, BeforeWrite, Launching, Bears
  <1> QED
    BY <1>2, <1>3

LEMMA MutateKeepsTruth ==
    ASSUME AttemptInv, EffectInv, TruthInv, NEW s \in Sessions, Mutate(s)
    PROVE  TruthInv'
  <1> USE DEF Unrecorded, AfterWrite, AfterHash, AfterTests, BeforeTests, BeforeWrite, Launching
  <1>1. CASE ObserveChild(s, "write_temporary")
    <2>1. /\ call[s].pc = "child_result" /\ world' = world
          /\ UNCHANGED <<run, receipts, evaluations>>
      BY <1>1 DEF ObserveChild, RecordObservation, evidence
    <2>2. Advance(s, Failing(s)) \/ Advance(s, At(s, "write_temporary"))
      BY <1>1 DEF ObserveChild
    <2> QED
      BY <2>1, <2>2, FailingFields, LeaveKeepsTruth, AtKeepsTruth
  <1>2. CASE WriteTemporary(s)
    <2>1. call[s].pc = "write_temporary" /\ UNCHANGED <<run, receipts, evaluations>>
      BY <1>2 DEF WriteTemporary, ledger, evidence
    <2>2. CASE Raise(s)
      BY <1>2, <2>2, ReturnKeepsTruth DEF WriteTemporary, Raise
    <2>3. CASE ~Raise(s)
      <3>1. /\ world' = [world EXCEPT !.temporary = TRUE]
            /\ Advance(s, At(s, "replace"))
        BY <1>2, <2>3 DEF WriteTemporary
      <3>2. world'.source = world.source
        BY <3>1 DEF EffectInv, Untouched
      <3> QED
        BY <2>1, <3>1, <3>2, AtKeepsTruth
    <2> QED
      BY <2>2, <2>3
  <1>3. CASE MutationApplied(s) \/ CommandResult(s)
    <2>1. /\ world' = world /\ UNCHANGED <<run, receipts, evaluations>>
          /\ \/ call[s].pc = "mutation_applied" /\ Advance(s, At(s, "run_tests"))
             \/ call[s].pc = "command_result" /\ Advance(s, At(s, "record_attempt"))
      BY <1>3 DEF MutationApplied, CommandResult, Note, RecordObservation, evidence
    <2> QED
      BY <2>1, AtKeepsTruth
  <1> QED
    BY <1>1, <1>2, <1>3, ReplaceKeepsTruth, HashTreeKeepsTruth, RunTestsKeepsTruth,
       RecordKeepsTruth DEF Mutate

LEMMA LedgerKeepsTruth ==
    ASSUME AttemptInv, EffectInv, TruthInv, NEW s \in Sessions, ProceedInLedger(s)
    PROVE  TruthInv'
  <1>1. StepOf(s) /\ world'.source = world.source
    BY LedgerStep, LedgerNoEffect DEF NoEffect
  <1>2. receipts' = receipts /\ evaluations' = evaluations
    BY DEF ProceedInLedger, Build, CreateRun, Commit, Transition, Refuse, Observe,
       RecordObservation, RunChild, LaunchChild, AwaitChild, CancelChild, ReadResult,
       ReadCandidates, ReadEvaluations, ReadReceipts, ReadEvents, ledger, evidence
  <1> QED
    BY <1>1, <1>2, StepKeepsTruth

LEMMA BeginKeepsTruth ==
    ASSUME AttemptInv, TruthInv, NEW s \in Sessions, Work(s) \/ BeginCancel(s)
    PROVE  TruthInv'
  <1>1. PICK op \in {"attempt", "reconcile", "cancel"},
             pc \in {"start_step", "read_candidates", "cancel"} : Begin(s, op, pc)
    BY DEF Work, BeginAttempt, BeginReconcile, BeginCancel
  <1>2. /\ UNCHANGED <<run, receipts, evaluations, world>>
        /\ \E state, alone : Advance(s, [NoCall EXCEPT !.op = op, !.pc = pc, !.state = state,
                                                       !.alone = alone])
    BY <1>1, Zenon DEF Begin, ledger, evidence
  <1>3. PICK state, alone : Advance(s, [NoCall EXCEPT !.op = op, !.pc = pc, !.state = state,
                                                      !.alone = alone])
    BY <1>2
  <1> DEFINE next == [NoCall EXCEPT !.op = op, !.pc = pc, !.state = state, !.alone = alone]
  <1>4. next.pc \notin Unrecorded \cup AfterWrite
    BY DEF NoCall, Unrecorded, AfterWrite, AfterHash, AfterTests, BeforeTests, BeforeWrite,
       Launching
  <1>5. Advance(s, next)
    BY <1>3
  <1> HIDE DEF next
  <1> QED
    BY <1>2, <1>4, <1>5, LeaveKeepsTruth

LEMMA TruthStep ==
    ASSUME AttemptInv, EffectInv, TruthInv, [Next]_vars
    PROVE  TruthInv'
  <1> USE DEF TruthInv, Knows, Bears, Unrecorded, AfterWrite, AfterHash, AfterTests,
              BeforeTests, BeforeWrite, Launching
  <1>1. ASSUME NEW i \in DOMAIN children, ChildEnds(i)
        PROVE  TruthInv'
    BY <1>1 DEF ChildEnds, ledger, evidence
  <1>2. ASSUME NEW s \in Sessions, Vanish(s)
        PROVE  TruthInv'
    BY <1>2, ReturnKeepsTruth DEF Vanish
  <1>3. ASSUME UNCHANGED vars
        PROVE  TruthInv'
    BY <1>3 DEF vars, ledger, evidence
  <1> QED
    BY <1>1, <1>2, <1>3, BeginKeepsTruth, LedgerKeepsTruth, MutateKeepsTruth DEF Next, Proceed

LEMMA TruthInit == Init => TruthInv
  <1> SUFFICES ASSUME Init PROVE TruthInv
    OBVIOUS
  <1>1. PICK creator \in Sessions :
          call = [s \in Sessions |->
                     IF s = creator
                     THEN [NoCall EXCEPT !.op = "create", !.pc = "build", !.note = "prepared"]
                     ELSE NoCall]
    BY DEF Init, AttemptInit
  <1>2. \A s \in Sessions : call[s].pc \in {"build", "idle"}
    BY <1>1 DEF NoCall
  <1>3. \A s \in Sessions : Knows(call[s]) /\ call[s].pc \notin Unrecorded
    BY <1>2 DEF Knows, Unrecorded, AfterWrite, AfterHash, AfterTests, BeforeTests,
       BeforeWrite, Launching
  <1>4. receipts = <<>> /\ evaluations = <<>>
    BY DEF Init, AttemptInit, StoreInit
  <1> QED
    BY <1>3, <1>4 DEF TruthInv

\* docs/PHASE3.md: the retained repository.  Whatever receipt is on record, the repository
\* and the evaluation beside it bear it out, for any number of callers and crashes.
THEOREM Phase3ReceiptTruthful == Spec => []ReceiptTruthful
  <1>1. TruthInv => ReceiptTruthful
    <2> SUFFICES ASSUME TruthInv, NEW i \in DOMAIN receipts
                 PROVE  Bears(receipts[i], evaluations[i])
      BY DEF ReceiptTruthful, Bears
    <2>1. PICK r, e : receipts = <<r>> /\ evaluations = <<e>> /\ Bears(r, e)
      BY DEF TruthInv
    <2>2. i = 1
      BY <2>1
    <2> QED
      BY <2>1, <2>2
  <1>2. AttemptInv /\ EffectInv /\ TruthInv /\ [Next]_vars
           => (AttemptInv /\ EffectInv /\ TruthInv)'
    BY EffectsStep, TruthStep
  <1> QED
    BY <1>1, <1>2, EffectsInit, TruthInit, PTL DEF Spec

-----------------------------------------------------------------------------
(***************************************************************************)
(* Types, the order of record and effect, whose the child is, and what a   *)
(* reconcile may conclude: SingleAttempt_proofs' CallInv under the effects *)
(* of Phase 3.                                                             *)
(***************************************************************************)

Points3 == {"write_temporary", "replace", "hash_tree", "mutation_applied", "run_tests",
            "command_result"}

\* The points a call comes to with an answer on record, and with the mutation on record.
Answered == {"write_temporary", "replace"} \cup AfterWrite
Noted == {"run_tests"} \cup AfterTests

ShapeInv ==
    /\ world = [field \in DOMAIN Untouched |-> world[field]]
    /\ world.source \in Mutations \cup {"baseline"}
    /\ world.temporary \in BOOLEAN

\* Each effect comes after its record, as the call goes and as the run stands.
EvidenceInv ==
    /\ \A s \in Sessions : call[s].pc \in Answered =>
                               call[s].answer # None /\ Observed("child_result") # {}
    /\ \A s \in Sessions : call[s].pc \in Noted => Observed("mutation_applied") # {}
    /\ world.writes > 0 => Observed("child_result") # {} /\ "ended" \in Rows(children)
    /\ world.tests > 0 => Observed("mutation_applied") # {}

LEMMA PairedByTruth == TruthInv => Paired
  <1>1. \A row : <<row>> # <<>>
    OBVIOUS
  <1> QED
    BY <1>1 DEF TruthInv, Paired

LEMMA AnswerType ==
    ASSUME Typed(Points3), EvidenceInv, NEW s \in Sessions, call[s].pc \in Answered
    PROVE  call[s].answer \in Mutations
  <1>1. call[s].answer \in Candidates \cup {None}
    BY DEF Typed, Calls
  <1> QED
    BY <1>1, Phase3Assumption DEF EvidenceInv

LEMMA OwnPoints3 == Points3 \cap AttemptPoints = {}
  BY DEF Points3, AttemptPoints, Events

\* The two steps on which the call learns something of the repository.
LEMMA MutateLearns ==
    ASSUME AttemptInv, CallInv(Points3), ShapeInv, NEW s \in Sessions,
           \/ HashTree(s) /\ world.source \in Mutations
           \/ RunTests(s)
    PROVE  Moves(s, Points3)
  <1>1. /\ UNCHANGED <<ledger, children, crashes>>
        /\ call[s].pc \in {"hash_tree", "run_tests"}
    BY DEF HashTree, RunTests
  <1>2. call[s].pc \notin Holding \cup {"start_step"}
    BY <1>1 DEF Holding
  <1>3. call[s] \in Calls(Points3)
    BY DEF CallInv, Typed
  <1>4. Standing
    <2>1. world' = world \/ world' = [world EXCEPT !.tests = @ + 1]
      BY DEF HashTree, RunTests, Raise
    <2> QED
      BY <2>1 DEF Standing, CallInv, CreationInv
  <1>5. ASSUME NEW next \in Calls(Points3), Advance(s, next), next.op = call[s].op,
               next.state = call[s].state, next.answer = call[s].answer,
               next.note = call[s].note, next.pc \in {"mutation_applied", "command_result"}
        PROVE  Moves(s, Points3)
    <2>1. next.pc \in Points3
      BY <1>5 DEF Points3
    <2> QED
      BY <1>1, <1>2, <1>4, <1>5, <2>1, EffectMoves, OwnPoints3 DEF CallInv
  <1>6. CASE HashTree(s)
    <2> DEFINE next == [At(s, "mutation_applied") EXCEPT !.tree = world.source]
    <2> SUFFICES ASSUME ~Return(s)
                 PROVE  Moves(s, Points3)
      BY <1>1, <1>2, <1>4, EffectBack DEF CallInv
    <2>1. Advance(s, next) /\ world.source \in Candidates
      <3>1. ~RunTests(s)
        BY <1>6 DEF HashTree, RunTests
      <3> QED
        BY <1>6, <3>1, Phase3Assumption DEF HashTree
    <2>2. PICK tree \in Candidates : tree = world.source
      BY <2>1
    <2>3. /\ next \in Calls(Points3) /\ next.op = call[s].op
          /\ next.state = call[s].state /\ next.answer = call[s].answer
          /\ next.note = call[s].note /\ next.pc = "mutation_applied"
      <3>1. next = [At(s, "mutation_applied") EXCEPT !.tree = tree]
        BY <2>2
      <3> HIDE DEF next
      <3> QED
        BY <1>3, <3>1 DEF At, Calls, Points3
    <2> HIDE DEF next
    <2> QED
      BY <1>5, <2>1, <2>3
  <1>7. CASE RunTests(s)
    <2>1. CASE Raise(s)
      BY <1>1, <1>2, <1>4, <2>1, EffectBack DEF Raise, CallInv
    <2>2. CASE ~Raise(s)
      <3>1. PICK passed \in {world.source = "filter_even", FALSE} :
               Advance(s, [At(s, "command_result") EXCEPT !.passed = passed])
        BY <1>7, <2>2 DEF RunTests
      <3>2. PICK b \in BOOLEAN : b = passed
        OBVIOUS
      <3> DEFINE next == [At(s, "command_result") EXCEPT !.passed = b]
      <3>3. Advance(s, next)
        BY <3>1, <3>2, Zenon
      <3>4. /\ next \in Calls(Points3) /\ next.op = call[s].op
            /\ next.state = call[s].state /\ next.answer = call[s].answer
            /\ next.note = call[s].note /\ next.pc = "command_result"
        BY <1>3 DEF At, Calls, Points3
      <3> HIDE DEF next
      <3> QED
        BY <1>5, <3>3, <3>4
    <2> QED
      BY <2>1, <2>2
  <1> QED
    BY <1>6, <1>7

LEMMA MutateRecords ==
    ASSUME AttemptInv, TruthInv, CallInv(Points3), EvidenceInv, NEW s \in Sessions,
           Inside(call[s]), RecordMutation(s)
    PROVE  Moves(s, Points3)
  <1> DEFINE receipt == [mutation |-> call[s].answer, tree |-> call[s].tree,
                         passed |-> call[s].passed]
             judged == Judged(s, [tests_pass       |-> call[s].passed,
                                  mutation_matches |-> call[s].answer = "filter_even"])
  <1>1. /\ call[s].pc = "record_attempt" /\ Record(s, judged, receipt, "candidate_ready")
        /\ UNCHANGED <<children, crashes, world>>
    BY DEF RecordMutation, Record
  <1>3. call[s].answer \in Mutations /\ call[s].tree = call[s].answer
    <2>1. call[s].pc \in Answered /\ call[s].pc \in AfterHash /\ call[s].pc \in AfterWrite
      BY <1>1 DEF Answered, AfterWrite, AfterHash, AfterTests
    <2> QED
      BY <2>1, AnswerType DEF CallInv, TruthInv, Knows
  <1>4. PICK answer \in Mutations, passed \in BOOLEAN :
           answer = call[s].answer /\ passed = call[s].passed
    BY <1>3 DEF CallInv, Typed, Calls
  <1>5. PICK verdict \in BOOLEAN : verdict = judged
    <2>1. PICK matches \in BOOLEAN : matches = (call[s].answer = "filter_even")
      OBVIOUS
    <2> DEFINE correctness == [tests_pass |-> passed, mutation_matches |-> matches]
    <2>2. correctness \in [{"tests_pass", "mutation_matches"} -> BOOLEAN]
      OBVIOUS
    <2>3. Judged(s, correctness) \in BOOLEAN
      <3> HIDE DEF correctness
      <3>1. Judged(s, correctness) =
               \A p \in {"tests_pass", "mutation_matches"} : correctness[p]
        BY <2>2, JudgedByPredicates
      <3>2. (\A p \in {"tests_pass", "mutation_matches"} : correctness[p]) \in BOOLEAN
        OBVIOUS
      <3> QED
        BY <3>1, <3>2
    <2>4. judged = Judged(s, correctness)
      BY <1>4, <2>1
    <2> HIDE DEF judged, correctness
    <2> QED
      BY <2>3, <2>4
  <1> HIDE DEF judged
  <1>6. receipt \in Receipts
    <2>1. receipt = [mutation |-> answer, tree |-> answer, passed |-> passed]
      BY <1>3, <1>4
    <2> HIDE DEF receipt
    <2> QED
      BY <2>1, Phase3Assumption
  <1>7. Record(s, verdict, receipt, "candidate_ready")
    BY <1>1, <1>5
  <1> HIDE DEF receipt
  <1>8. call[s].tree \in Candidates
    BY <1>3, Phase3Assumption
  <1> QED
    BY <1>6, <1>7, <1>8, RecordMoves, OwnPoints3

\* Each of Phase 3's own steps is typed, and one of a call inside its attempt.
LEMMA MutateGoes ==
    ASSUME AttemptInv, TruthInv, CallInv(Points3), ShapeInv, EvidenceInv,
           NEW s \in Sessions, Mutate(s)
    PROVE  Moves(s, Points3)
  <1>1. CASE ObserveChild(s, "write_temporary")
    BY <1>1, ChildObserved, OwnPoints3 DEF Points3
  <1>2. CASE WriteTemporary(s) \/ Replace(s)
    <2>1. /\ UNCHANGED <<ledger, children, crashes>>
          /\ call[s].pc \notin Holding \cup {"start_step"}
          /\ \/ Return(s)
             \/ \E pc \in {"replace", "hash_tree"} : Advance(s, At(s, pc))
      BY <1>2 DEF WriteTemporary, Replace, Raise, Holding
    <2>2. Standing
      <3>1. \/ world' = world
            \/ world' = [world EXCEPT !.temporary = TRUE]
            \/ world' = [world EXCEPT !.temporary = FALSE, !.source = call[s].answer,
                                      !.writes = @ + 1]
        BY <1>2 DEF WriteTemporary, Replace, Raise
      <3> QED
        BY <3>1 DEF Standing, CallInv, CreationInv
    <2>3. CASE Return(s)
      BY <2>1, <2>2, <2>3, EffectBack DEF CallInv
    <2>4. ASSUME NEW pc \in {"replace", "hash_tree"}, Advance(s, At(s, pc))
          PROVE  Moves(s, Points3)
      BY <2>1, <2>2, <2>4, EffectOn, OwnPoints3 DEF CallInv, Points3
    <2> QED
      BY <2>1, <2>3, <2>4
  <1>3. CASE HashTree(s)
    <2>1. call[s].answer = world.source /\ call[s].answer \in Mutations
      <3>1. call[s].pc = "hash_tree"
        BY <1>3 DEF HashTree
      <3>2. call[s].pc \in AfterWrite /\ call[s].pc \in Answered
        BY <3>1 DEF AfterWrite, Answered
      <3> QED
        BY <3>2, AnswerType DEF TruthInv, Knows, CallInv
    <2> QED
      BY <1>3, <2>1, MutateLearns
  <1>4. CASE MutationApplied(s) \/ CommandResult(s)
    <2>1. PICK event \in {"mutation_applied", "command_result"},
               pc \in {"run_tests", "record_attempt"} : Note(s, event, pc)
      BY <1>4 DEF MutationApplied, CommandResult
    <2>2. event \in Observations \ Verdicts /\ event \notin Holding \cup {"start_step"}
      BY Phase3Assumption DEF Verdicts, Holding
    <2>3. Standing
      BY <2>1 DEF Note, Standing, CallInv, CreationInv
    <2> QED
      BY <2>1, <2>2, <2>3, EffectOn, OwnPoints3 DEF Note, CallInv, Points3
  <1>5. CASE RecordMutation(s)
    <2>1. call[s].pc = "record_attempt"
      BY <1>5 DEF RecordMutation, Record
    <2>2. Inside(call[s])
      BY <2>1 DEF TruthInv, Inside, Unrecorded, BeforeTests, BeforeWrite, Launching, AfterTests
    <2> QED
      BY <1>5, <2>2, MutateRecords
  <1> QED
    BY <1>1, <1>2, <1>3, <1>4, <1>5, MutateLearns DEF Mutate

\* The repository keeps its shape: Build makes it, and the one write is of an answer.
LEMMA ShapeStep ==
    ASSUME EffectInv, CallInv(Points3), ShapeInv, EvidenceInv, [Next]_vars
    PROVE  ShapeInv'
  <1>1. DOMAIN world = {"repository", "recorded", "source", "temporary", "tests", "writes"}
        /\ DOMAIN Untouched = DOMAIN world
    BY DEF EffectInv, Untouched
  <1>2. CASE world' = world
    BY <1>2 DEF ShapeInv, Untouched, Mutations
  <1>3. ASSUME NEW field \in DOMAIN world, NEW v, world' = [world EXCEPT ![field] = v],
               field = "source" => v \in Mutations, field = "temporary" => v \in BOOLEAN
        PROVE  ShapeInv'
    BY <1>1, <1>3 DEF ShapeInv, Untouched, Mutations
  <1>4. ASSUME NEW s \in Sessions, Replace(s), world' # world
        PROVE  ShapeInv'
    <2>1. call[s].answer \in Mutations
      <3>1. call[s].pc \in Answered
        BY <1>4 DEF Replace, Answered
      <3> QED
        BY <3>1, AnswerType DEF CallInv
    <2>2. world' = [world EXCEPT !.temporary = FALSE, !.source = call[s].answer,
                                 !.writes = @ + 1]
      BY <1>4 DEF Replace, Raise
    <2> QED
      BY <1>1, <2>1, <2>2 DEF ShapeInv, Untouched, Mutations
  <1>5. \/ world' = world
        \/ \E s \in Sessions : Replace(s)
        \/ \E v : world' = [world EXCEPT !["repository"] = v]
        \/ \E v : world' = [world EXCEPT !["recorded"] = v]
        \/ world' = [world EXCEPT !["temporary"] = TRUE]
        \/ \E v : world' = [world EXCEPT !["tests"] = v]
    <2>1. ASSUME NEW s \in Sessions, ProceedInLedger(s)
          PROVE  \/ world' = world
                 \/ \E v : world' = [world EXCEPT !["repository"] = v]
                 \/ \E v : world' = [world EXCEPT !["recorded"] = v]
      <3>1. CASE Build(s) \/ CreateRun(s)
        BY <3>1, Zenon DEF Build, CreateRun, Raise
      <3>2. CASE ~(Build(s) \/ CreateRun(s))
        BY <2>1, <3>2 DEF ProceedInLedger, Commit, Refuse, Observe, RunChild, LaunchChild,
           AwaitChild, CancelChild, ReadResult, ReadCandidates, ReadEvaluations, ReadReceipts,
           ReadEvents
      <3> QED
        BY <3>1, <3>2
    <2>2. ASSUME NEW s \in Sessions, Mutate(s), ~Replace(s)
          PROVE  \/ world' = world
                 \/ world' = [world EXCEPT !["temporary"] = TRUE]
                 \/ \E v : world' = [world EXCEPT !["tests"] = v]
      <3>1. CASE RunTests(s)
        BY <3>1, Zenon DEF RunTests, Raise
      <3>2. CASE WriteTemporary(s)
        BY <3>2, Zenon DEF WriteTemporary, Raise
      <3>3. CASE ~(RunTests(s) \/ WriteTemporary(s))
        BY <2>2, <3>3 DEF Mutate, ObserveChild, HashTree, MutationApplied, CommandResult, Note,
           RecordMutation, Record
      <3> QED
        BY <3>1, <3>2, <3>3
    <2>3. ASSUME \/ \E s \in Sessions : Work(s) \/ BeginCancel(s) \/ Vanish(s)
                 \/ \E i \in DOMAIN children : ChildEnds(i)
                 \/ UNCHANGED vars
          PROVE  world' = world
      BY <2>3 DEF Work, BeginAttempt, BeginReconcile, BeginCancel, Begin, Vanish, ChildEnds, vars
    <2> QED
      BY <2>1, <2>2, <2>3 DEF Next, Proceed
  <1> QED
    BY <1>1, <1>2, <1>3, <1>4, <1>5

\* A step of one call: what it found on record stays there, what it does not find it adds.
LEMMA EvidenceKept ==
    ASSUME AttemptInv, EvidenceInv, NEW s \in Sessions, NEW next, Advance(s, next),
           Observed("child_result") # {} => Observed("child_result")' # {},
           Observed("mutation_applied") # {} => Observed("mutation_applied")' # {},
           "ended" \in Rows(children) => "ended" \in Rows(children)',
           next.pc \in Answered => next.answer # None /\ Observed("child_result")' # {},
           next.pc \in Noted => Observed("mutation_applied")' # {},
           \/ world'.writes = world.writes
           \/ Observed("child_result")' # {} /\ "ended" \in Rows(children)',
           world'.tests = world.tests \/ Observed("mutation_applied")' # {}
    PROVE  EvidenceInv'
  <1>1. \A t \in Sessions : call'[t] = IF t = s THEN next ELSE call[t]
    BY DEF Advance, AttemptInv
  <1>2. \A t \in Sessions : call'[t].pc \in Answered =>
                               call'[t].answer # None /\ Observed("child_result")' # {}
    BY <1>1 DEF EvidenceInv
  <1>3. \A t \in Sessions : call'[t].pc \in Noted => Observed("mutation_applied")' # {}
    BY <1>1 DEF EvidenceInv
  <1> QED
    BY <1>2, <1>3 DEF EvidenceInv, Answered, Noted, AfterWrite, AfterHash, AfterTests

LEMMA NothingAnswered ==
    /\ LedgerPoints \cap (Answered \cup Noted) = {"record_attempt"} \cap LedgerPoints
    /\ "record_attempt" \notin LedgerPoints
    /\ NoCall.pc \notin Answered \cup Noted
    /\ {"start_step", "read_candidates", "cancel"} \cap (Answered \cup Noted) = {}
  BY DEF LedgerPoints, AttemptPoints, Events, Answered, Noted, AfterWrite, AfterHash,
     AfterTests, NoCall

LEMMA MutateKeepsEvidence ==
    ASSUME AttemptInv, EffectInv, TruthInv, CallInv(Points3), ShapeInv, EvidenceInv,
           NEW s \in Sessions, Mutate(s)
    PROVE  EvidenceInv'
  <1>1. /\ Observed("child_result") # {} => Observed("child_result")' # {}
        /\ Observed("mutation_applied") # {} => Observed("mutation_applied")' # {}
    <2>1. [StoreNext]_ledger
      BY MutateGoes DEF Moves, TypedStep
    <2> QED
      BY <2>1, ObservedStays DEF CallInv, Typed, Inv, StoreTypeOK
  <1>2. children' = children
    BY DEF Mutate, ObserveChild, WriteTemporary, Replace, HashTree, MutationApplied, RunTests,
       CommandResult, Note, RecordMutation, Record
  <1>3. "ended" \in Rows(children) => "ended" \in Rows(children)'
    BY <1>2 DEF Rows
  <1>4. journal \in Seq(JournalRows)
    BY DEF CallInv, Typed, Inv, StoreTypeOK
  <1>5. call[s].pc \in Answered =>
            /\ call[s].answer # None /\ Observed("child_result")' # {}
            /\ "ended" \in Rows(children)'
    BY <1>1, <1>3 DEF EvidenceInv, CallInv, ChildInv
  <1>6. call[s].pc \in Noted => Observed("mutation_applied")' # {}
    BY <1>1 DEF EvidenceInv
  <1>7. DOMAIN world = {"repository", "recorded", "source", "temporary", "tests", "writes"}
    BY DEF EffectInv, Untouched
  <1>8. ASSUME NEW next, Advance(s, next),
               next.pc \in Answered => next.answer # None /\ Observed("child_result")' # {},
               next.pc \in Noted => Observed("mutation_applied")' # {},
               world'.writes = world.writes \/ call[s].pc \in Answered,
               world'.tests = world.tests \/ call[s].pc \in Noted
        PROVE  EvidenceInv'
    BY <1>1, <1>3, <1>5, <1>6, <1>8, EvidenceKept
  <1>9. ASSUME Return(s), world'.writes = world.writes, world'.tests = world.tests
        PROVE  EvidenceInv'
    BY <1>8, <1>9, NothingAnswered DEF Return
  <1>10. ASSUME NEW pc, Advance(s, At(s, pc)),
               pc \in Answered => call[s].answer # None /\ Observed("child_result")' # {},
               pc \in Noted => Observed("mutation_applied")' # {},
               world'.writes = world.writes \/ call[s].pc \in Answered,
               world'.tests = world.tests \/ call[s].pc \in Noted
        PROVE  EvidenceInv'
    BY <1>8, <1>10, AtFields, AtCarries
  <1> USE DEF Answered, Noted, AfterWrite, AfterHash, AfterTests
  <1>11. CASE ObserveChild(s, "write_temporary")
    <2>1. /\ RecordObservation("child_result") /\ world' = world
          /\ \/ Advance(s, Failing(s))
             \/ Advance(s, At(s, "write_temporary")) /\ call[s].answer # None
      BY <1>11 DEF ObserveChild
    <2>2. Observed("child_result")' # {}
      BY <1>4, <2>1, NowObserved
    <2>3. Failing(s).pc = "child_failed"
      BY FailingFields
    <2> QED
      BY <1>8, <1>10, <2>1, <2>2, <2>3
  <1>12. CASE WriteTemporary(s)
    <2>1. call[s].pc = "write_temporary" /\ (Return(s) \/ Advance(s, At(s, "replace")))
      BY <1>12 DEF WriteTemporary, Raise
    <2>2. world' = world \/ world' = [world EXCEPT !.temporary = TRUE]
      BY <1>12 DEF WriteTemporary, Raise
    <2>3. world'.writes = world.writes /\ world'.tests = world.tests
      BY <1>7, <2>2
    <2> QED
      BY <1>5, <1>9, <1>10, <2>1, <2>3
  <1>13. CASE Replace(s)
    <2>1. call[s].pc = "replace"
      BY <1>13 DEF Replace
    <2>2. CASE Raise(s)
      BY <1>9, <2>2 DEF Raise
    <2>3. CASE ~Raise(s)
      <3>1. /\ world' = [world EXCEPT !.temporary = FALSE, !.source = call[s].answer,
                                      !.writes = @ + 1]
            /\ Advance(s, At(s, "hash_tree"))
        BY <1>13, <2>3 DEF Replace
      <3>2. world'.tests = world.tests
        BY <1>7, <3>1
      <3> QED
        BY <1>5, <1>10, <2>1, <3>1, <3>2
    <2> QED
      BY <2>2, <2>3
  <1>14. CASE HashTree(s)
    <2> DEFINE next == [At(s, "mutation_applied") EXCEPT !.tree = world.source]
    <2>1. call[s].pc = "hash_tree" /\ world' = world
      BY <1>14 DEF HashTree
    <2> SUFFICES ASSUME Advance(s, next)
                 PROVE  EvidenceInv'
      BY <1>9, <1>14, <2>1 DEF HashTree
    <2>2. next.pc = "mutation_applied" /\ next.answer = call[s].answer
      BY DEF At, AttemptInv, WellFormed, NoCall
    <2> HIDE DEF next
    <2> QED
      BY <1>5, <1>8, <2>1, <2>2
  <1>15. CASE MutationApplied(s)
    <2>1. /\ call[s].pc = "mutation_applied" /\ RecordObservation("mutation_applied")
          /\ world' = world /\ Advance(s, At(s, "run_tests"))
      BY <1>15 DEF MutationApplied, Note
    <2>2. Observed("mutation_applied")' # {}
      BY <1>4, <2>1, NowObserved
    <2> QED
      BY <1>5, <1>10, <2>1, <2>2
  <1>16. CASE RunTests(s)
    <2>1. call[s].pc = "run_tests"
      BY <1>16 DEF RunTests
    <2>2. CASE Raise(s)
      BY <1>9, <2>2 DEF Raise
    <2>3. CASE ~Raise(s)
      <3>1. /\ world' = [world EXCEPT !.tests = @ + 1]
            /\ \E passed : Advance(s, [At(s, "command_result") EXCEPT !.passed = passed])
        BY <1>16, <2>3, Zenon DEF RunTests
      <3>2. PICK passed : Advance(s, [At(s, "command_result") EXCEPT !.passed = passed])
        BY <3>1
      <3> DEFINE next == [At(s, "command_result") EXCEPT !.passed = passed]
      <3>3. next.pc = "command_result" /\ next.answer = call[s].answer
        BY DEF At, AttemptInv, WellFormed, NoCall
      <3>4. world'.writes = world.writes
        BY <1>7, <3>1
      <3>5. Advance(s, next)
        BY <3>2
      <3> HIDE DEF next
      <3> QED
        BY <1>5, <1>6, <1>8, <2>1, <3>3, <3>4, <3>5
    <2> QED
      BY <2>2, <2>3
  <1>17. CASE CommandResult(s)
    <2>1. /\ call[s].pc = "command_result" /\ world' = world
          /\ Advance(s, At(s, "record_attempt"))
      BY <1>17 DEF CommandResult, Note
    <2> QED
      BY <1>5, <1>6, <1>10, <2>1
  <1>18. CASE RecordMutation(s)
    <2>1. /\ world' = world
          /\ \/ Return(s)
             \/ \E cand, eligible :
                   Advance(s, [At(s, "candidate_ready") EXCEPT !.cand = cand,
                                                               !.eligible = eligible])
      BY <1>18, Zenon DEF RecordMutation, Record
    <2>2. ASSUME NEW cand, NEW eligible,
                 Advance(s, [At(s, "candidate_ready") EXCEPT !.cand = cand,
                                                             !.eligible = eligible])
          PROVE  EvidenceInv'
      <3> DEFINE next == [At(s, "candidate_ready") EXCEPT !.cand = cand, !.eligible = eligible]
      <3>1. next.pc = "candidate_ready"
        BY DEF At, AttemptInv, WellFormed, NoCall
      <3>2. Advance(s, next)
        BY <2>2
      <3> HIDE DEF next
      <3> QED
        BY <1>8, <2>1, <3>1, <3>2
    <2> QED
      BY <1>9, <2>1, <2>2
  <1> QED
    BY <1>11, <1>12, <1>13, <1>14, <1>15, <1>16, <1>17, <1>18 DEF Mutate

LEMMA LedgerKeepsEvidence ==
    ASSUME AttemptInv, EffectInv, CallInv(Points3), EvidenceInv, NEW s \in Sessions,
           ProceedInLedger(s)
    PROVE  EvidenceInv'
  <1>1. PICK next : Goes(s, next)
    BY LedgerGoes DEF CallInv
  <1>2. Advance(s, next) /\ call'[s] = next
    BY <1>1 DEF Goes, Advance, AttemptInv
  <1>3. next.pc \notin Answered \cup Noted
    BY <1>2, LedgerStep, NothingAnswered DEF StepOf
  <1>4. world'.writes = world.writes /\ world'.tests = world.tests
    BY LedgerNoEffect DEF NoEffect
  <1>5. [StoreNext]_ledger /\ journal \in Seq(JournalRows)
    BY LedgerTyped DEF CallInv, Typed, TypedStep, Inv, StoreTypeOK
  <1>6. "ended" \in Rows(children) => "ended" \in Rows(children)'
    BY <1>1, EndedStays DEF Goes
  <1> QED
    BY <1>2, <1>3, <1>4, <1>5, <1>6, ObservedStays, EvidenceKept

LEMMA OthersKeepEvidence ==
    ASSUME AttemptInv, CallInv(Points3), EvidenceInv,
           \/ \E s \in Sessions : Work(s) \/ BeginCancel(s) \/ Vanish(s)
           \/ \E i \in DOMAIN children : ChildEnds(i)
           \/ UNCHANGED vars
    PROVE  EvidenceInv'
  <1>1. UNCHANGED <<ledger, world>>
    BY DEF Work, BeginAttempt, BeginReconcile, BeginCancel, Begin, Vanish, ChildEnds, vars
  <1>2. \A event : Observed(event)' = Observed(event)
    BY <1>1 DEF ledger, Observed
  <1>3. "ended" \in Rows(children) => "ended" \in Rows(children)'
    BY EndedStays DEF Work, BeginAttempt, BeginReconcile, BeginCancel, Begin, vars
  <1>4. ASSUME NEW s \in Sessions, NEW next, Advance(s, next),
               next.pc \notin Answered \cup Noted
        PROVE  EvidenceInv'
    BY <1>1, <1>2, <1>3, <1>4, EvidenceKept
  <1>5. ASSUME NEW s \in Sessions, Vanish(s)
        PROVE  EvidenceInv'
    BY <1>4, <1>5, NothingAnswered DEF Vanish, Return
  <1>6. ASSUME NEW s \in Sessions, Work(s) \/ BeginCancel(s)
        PROVE  EvidenceInv'
    <2>1. PICK op \in {"attempt", "reconcile", "cancel"},
               pc \in {"start_step", "read_candidates", "cancel"} : Begin(s, op, pc)
      BY <1>6 DEF Work, BeginAttempt, BeginReconcile, BeginCancel
    <2>2. PICK state, alone :
             Advance(s, [NoCall EXCEPT !.op = op, !.pc = pc, !.state = state, !.alone = alone])
      BY <2>1, Zenon DEF Begin
    <2> DEFINE next == [NoCall EXCEPT !.op = op, !.pc = pc, !.state = state, !.alone = alone]
    <2>3. next.pc = pc /\ Advance(s, next)
      BY <2>2 DEF NoCall
    <2> HIDE DEF next
    <2> QED
      BY <1>4, <2>3, NothingAnswered
  <1>7. ASSUME UNCHANGED call
        PROVE  EvidenceInv'
    BY <1>1, <1>2, <1>3, <1>7
       DEF EvidenceInv, Answered, Noted, AfterWrite, AfterHash, AfterTests
  <1> QED
    BY <1>5, <1>6, <1>7 DEF ChildEnds, vars

Phase3Inv ==
    /\ AttemptInv
    /\ EffectInv
    /\ TruthInv
    /\ CallInv(Points3)
    /\ ShapeInv
    /\ EvidenceInv

\* What the two properties of steps say of one.
Kept3 ==
    /\ [StoreNext]_ledger
    /\ \A s \in Sessions :
          /\ call[s].alone
          /\ call[s].pc \in {"interrupt", "evaluation_missing"}
          /\ call'[s] # call[s]
          /\ run' # run
          => receipts = <<>>

LEMMA Phase3Step ==
    ASSUME Phase3Inv, [Next]_vars
    PROVE  Phase3Inv' /\ Kept3
  <1> USE DEF Phase3Inv
  <1>1. AttemptInv' /\ EffectInv' /\ TruthInv' /\ ShapeInv'
    BY EffectsStep, TruthStep, ShapeStep
  <1>2. Paired
    BY PairedByTruth
  <1>3. ASSUME NEW s \in Sessions, Proceed(s)
        PROVE  CallInv(Points3)' /\ EvidenceInv' /\ Kept3
    <2>1. PICK n, next : TypedStep(s, n, Points3) /\ Goes(s, next)
      BY <1>3, LedgerTyped, LedgerGoes, MutateGoes DEF Proceed, CallInv, Moves
    <2>2. ASSUME NEW t \in Sessions, call[t].alone,
                 call[t].pc \in {"interrupt", "evaluation_missing"},
                 call'[t] # call[t], run' # run
          PROVE  receipts = <<>>
      <3>1. t = s
        BY <2>1, <2>2 DEF Goes, Advance, AttemptInv
      <3> QED
        BY <2>1, <2>2, <3>1, NothingDiscarded DEF CallInv
    <2>3. CallInv(Points3)'
      BY <1>2, <2>1, CallInvKept
    <2>4. EvidenceInv'
      BY <1>3, LedgerKeepsEvidence, MutateKeepsEvidence DEF Proceed
    <2> QED
      BY <2>1, <2>2, <2>3, <2>4 DEF Kept3, TypedStep
  <1>4. ASSUME \/ \E s \in Sessions : Work(s) \/ BeginCancel(s) \/ Vanish(s)
               \/ \E i \in DOMAIN children : ChildEnds(i)
               \/ UNCHANGED vars
        PROVE  CallInv(Points3)' /\ EvidenceInv' /\ Kept3
    <2>1. UNCHANGED ledger /\ run' = run
      BY <1>4 DEF Work, BeginAttempt, BeginReconcile, BeginCancel, Begin, Vanish, ChildEnds,
         vars, ledger
    <2>2. CallInv(Points3)'
      <3>1. CASE UNCHANGED vars
        BY <3>1, StillCall DEF vars, Standing, CallInv, CreationInv
      <3> QED
        BY <1>4, <3>1, BeginKeepsCall, VanishKeepsCall, EndKeepsCall DEF Work
    <2> QED
      BY <1>4, <2>1, <2>2, OthersKeepEvidence DEF Kept3
  <1> QED
    BY <1>1, <1>3, <1>4 DEF Next

LEMMA Phase3Start == Init => Phase3Inv
  <1> SUFFICES ASSUME Init PROVE Phase3Inv
    OBVIOUS
  <1>1. world = Untouched
    BY DEF Init, AttemptInit
  <1>2. CallInv(Points3)
    BY InitCall DEF Init, Untouched
  <1>3. ShapeInv
    BY <1>1 DEF ShapeInv, Untouched
  <1>4. \A s \in Sessions : call[s].pc \in {"build", "idle"}
    <2>1. PICK creator \in Sessions :
            call = [s \in Sessions |->
                       IF s = creator
                       THEN [NoCall EXCEPT !.op = "create", !.pc = "build",
                                           !.note = "prepared"]
                       ELSE NoCall]
      BY DEF Init, AttemptInit
    <2> QED
      BY <2>1 DEF NoCall
  <1>5. EvidenceInv
    BY <1>1, <1>4
       DEF EvidenceInv, Untouched, Answered, Noted, AfterWrite, AfterHash, AfterTests
  <1> QED
    BY <1>2, <1>3, <1>5, EffectsInit, TruthInit DEF Phase3Inv

\* Every row, call, child and part of the repository is of its type in every reachable
\* state.
THEOREM Phase3Typed == Spec => []TypeOK
  <1>1. Phase3Inv => TypeOK
    <2> SUFFICES ASSUME Phase3Inv PROVE TypeOK
      OBVIOUS
    <2> USE DEF Phase3Inv, CallInv
    <2>1. world \in [repository : Seq(Rows(Repository)), recorded : BOOLEAN,
                     source : Mutations \cup {"baseline"}, temporary : BOOLEAN,
                     tests : Nat, writes : Nat]
      <3>1. DOMAIN Untouched =
               {"repository", "recorded", "source", "temporary", "tests", "writes"}
        BY DEF Untouched
      <3>2. /\ world.repository \in Seq(Rows(Repository)) /\ world.recorded \in BOOLEAN
            /\ world.source \in Mutations \cup {"baseline"} /\ world.temporary \in BOOLEAN
            /\ world.tests \in Nat /\ world.writes \in Nat
        BY DEF CreationInv, ShapeInv, EffectInv
      <3>3. world = [field \in {"repository", "recorded", "source", "temporary", "tests",
                                "writes"} |-> world[field]]
        BY <3>1 DEF ShapeInv
      <3> DEFINE parts == Seq(Rows(Repository))
                 sources == Mutations \cup {"baseline"}
      <3> HIDE DEF parts, sources
      <3>4. world.repository \in parts /\ world.source \in sources
        BY <3>2 DEF parts, sources
      <3>5. world \in [repository : parts, recorded : BOOLEAN, source : sources,
                       temporary : BOOLEAN, tests : Nat, writes : Nat]
        BY <3>2, <3>3, <3>4
      <3> QED
        BY <3>5 DEF parts, sources
    <2> QED
      BY <2>1 DEF TypeOK, Typed, Inv, Points3
  <1>2. Phase3Inv /\ [Next]_vars => Phase3Inv'
    BY Phase3Step
  <1> QED
    BY <1>1, <1>2, Phase3Start, PTL DEF Spec

\* docs/PHASE3.md: mutation_applied is on record before the tests run, and child_result
\* before the repository is touched, by the answer of a child that came to its end; a run
\* on record has its whole repository.  No crash hides an effect.
THEOREM Phase3EffectsOnRecord == Spec => []EffectsOnRecord
  <1>1. Phase3Inv => EffectsOnRecord
    BY DEF Phase3Inv, CallInv, CreationInv, EvidenceInv, EffectsOnRecord
  <1>2. Phase3Inv /\ [Next]_vars => Phase3Inv'
    BY Phase3Step
  <1> QED
    BY <1>1, <1>2, Phase3Start, PTL DEF Spec

\* A child at work is the child of a call that waits for it: no timeout, refusal or
\* reconciliation leaves one behind, for any number of callers.
THEOREM Phase3ChildrenOwned == Spec => []ChildrenOwned
  <1>1. Phase3Inv => ChildrenOwned
    BY DEF Phase3Inv, CallInv, ChildInv
  <1>2. Phase3Inv /\ [Next]_vars => Phase3Inv'
    BY Phase3Step
  <1> QED
    BY <1>1, <1>2, Phase3Start, PTL DEF Spec

\* docs/PHASE3.md, on reconcile: a complete receipt is replayed.  A reconcile that began
\* with no call inside the attempt never interrupts a run that has a receipt, whatever
\* callers, crashes and other reconciles come between its reads and its transition.
THEOREM Phase3ReceiptNotDiscarded == Spec => ReceiptNotDiscarded
  <1>1. Phase3Inv /\ [Next]_vars
           => \A s \in Sessions :
                 /\ call[s].alone
                 /\ call[s].pc \in {"interrupt", "evaluation_missing"}
                 /\ call'[s] # call[s]
                 /\ run' # run
                 => receipts = <<>>
    BY Phase3Step DEF Kept3
  <1>2. Phase3Inv /\ [Next]_vars => Phase3Inv'
    BY Phase3Step
  <1> QED
    BY <1>1, <1>2, Phase3Start, PTL DEF Spec, ReceiptNotDiscarded

\* Phase 3 uses the store by its operations alone: what RunStore promises of the ledger,
\* the journal's replay and the lineage among it, holds under Phase 3's calls and crashes.
THEOREM Phase3ImplementsStore == Spec => StoreSpec
  <1>1. Init => StoreInit
    BY DEF Init, AttemptInit
  <1>2. Phase3Inv /\ [Next]_vars => [StoreNext]_ledger
    BY Phase3Step DEF Kept3
  <1>3. Phase3Inv /\ [Next]_vars => Phase3Inv'
    BY Phase3Step
  <1> QED
    BY <1>1, <1>2, <1>3, Phase3Start, PTL DEF Spec, StoreSpec

\* And so, through the store, the run Phase 3's calls and crashes drive is a run of the
\* state machine.
THEOREM Phase3ImplementsLifecycle == Spec => LifecycleSpec
  BY Phase3ImplementsStore, StoreImplementsLifecycle, PTL
=============================================================================
