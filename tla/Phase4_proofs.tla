----------------------------- MODULE Phase4_proofs -----------------------------
(***************************************************************************)
(* Phase 4's sandbox runs once, and its receipt says what happened, for    *)
(* any number of sessions and crashes.  SingleAttempt_proofs shows that    *)
(* one call at most is inside the attempt; here its way through the        *)
(* sandbox is followed.  What that call has found out holds of the world   *)
(* as it goes on, because between the launch of the child and the record   *)
(* nobody else lays out a patch, starts a container or writes an artifact, *)
(* and after the record nobody is left who could.                          *)
(***************************************************************************)
EXTENDS Phase4, SingleAttempt_proofs

\* The points of the attempt before its container, and before its record.
BeforeRun == Launching \cup {"lay_out", "execute"}
AfterRun == {"identify", "make_directory", "write_artifact", "record_attempt"}
Unrecorded == BeforeRun \cup {"await_container"} \cup AfterRun

\* What a call inside the attempt can tell of the world w.
Knows(c, w) ==
    /\ c.op = "attempt"
    /\ c.pc \in BeforeRun => w.executions = <<>>
    /\ c.pc \notin BeforeRun => w.executions # <<>> /\ w.executions[1].patch = w.inputs
    /\ c.pc \notin Launching \cup {"lay_out"} => c.answer = w.inputs
    /\ c.pc \in AfterRun =>
           /\ w.executions[1].exited
           /\ c.tree = w.inputs
           /\ c.passed \in BOOLEAN
           /\ c.passed => w.inputs \in Fixes
    /\ c.pc = "record_attempt" => w.artifact = w.inputs

\* What a receipt and the evaluation beside it say is so in the world w.
Bears(receipt, evaluation, w) ==
    /\ w.executions # <<>>
    /\ w.executions[1].patch = receipt.patch
    /\ w.executions[1].exited
    /\ w.artifact = receipt.tree
    /\ receipt.runner = "approved"
    /\ receipt.passed => receipt.patch \in Fixes
    /\ evaluation.candidate = receipt.tree
    /\ evaluation.eligible = receipt.passed

\* One container at most.
Single(executions) ==
    \/ executions = <<>>
    \/ \E patch, runner : \E exited \in BOOLEAN :
          executions = <<[patch |-> patch, runner |-> runner, exited |-> exited]>>

SandboxInv ==
    /\ DOMAIN world = DOMAIN Untouched
    /\ Single(world.executions)
    /\ \/ receipts = <<>> /\ evaluations = <<>>
       \/ \E r, e : receipts = <<r>> /\ evaluations = <<e>> /\ Bears(r, e, world)
    /\ run.status \in {"created", "ready"} => world.executions = <<>> /\ receipts = <<>>
    /\ \A s \in Sessions : call[s].pc \in Unrecorded =>
                               receipts = <<>> /\ Knows(call[s], world)

\* A step that leaves the sandbox and the artifact alone.
NoEffect ==
    /\ DOMAIN world' = DOMAIN world
    /\ UNCHANGED <<world.inputs, world.executions, world.artifact>>

LEMMA PointsOfTheAttempt ==
    /\ Unrecorded \cap LedgerPoints = Launching
    /\ "start_step" \notin Unrecorded
    /\ Launching \subseteq BeforeRun /\ BeforeRun \subseteq Unrecorded
  BY DEF Unrecorded, BeforeRun, AfterRun, Launching, LedgerPoints, AttemptPoints, Events

\* While one call is between the start of its attempt and its record, no other is.
LEMMA Alone ==
    ASSUME AttemptInv, SandboxInv, NEW s \in Sessions, NEW t \in Sessions,
           call[s].pc \in Unrecorded, call[t].pc \in Unrecorded
    PROVE  s = t
  BY PointsOfTheAttempt DEF AttemptInv, SandboxInv, Knows, Inside

\* The invariant is about pairs, points and what a call knows.
LEMMA SandboxInvNext ==
    ASSUME DOMAIN world' = DOMAIN Untouched, Single(world'.executions),
           \/ receipts' = <<>> /\ evaluations' = <<>>
           \/ \E r, e : receipts' = <<r>> /\ evaluations' = <<e>> /\ Bears(r, e, world'),
           run'.status \in {"created", "ready"} => world'.executions = <<>> /\ receipts' = <<>>,
           \A s \in Sessions : call'[s].pc \in Unrecorded =>
                                   receipts' = <<>> /\ Knows(call'[s], world')
    PROVE  SandboxInv'
  BY DEF SandboxInv, Single, Bears, Knows, Unrecorded, BeforeRun, AfterRun, Launching,
         Untouched

\* A step of one call that keeps the ledger's evidence.  If it has an effect, it is the
\* one call that is inside the attempt.
LEMMA Kept ==
    ASSUME AttemptInv, SandboxInv, NEW s \in Sessions,
           \A t \in Sessions : t # s => call'[t] = call[t],
           receipts' = receipts, evaluations' = evaluations,
           run'.status \in {"created", "ready"} => run.status \in {"created", "ready"},
           NoEffect \/ (call[s].pc \in Unrecorded /\ run' = run),
           DOMAIN world' = DOMAIN world, Single(world'.executions),
           call'[s].pc \in Unrecorded => receipts = <<>> /\ Knows(call'[s], world')
    PROVE  SandboxInv'
  <1>1. \A t \in Sessions : call'[t].pc \in Unrecorded =>
                                receipts' = <<>> /\ Knows(call'[t], world')
    <2> SUFFICES ASSUME NEW t \in Sessions, call'[t].pc \in Unrecorded
                 PROVE  receipts' = <<>> /\ Knows(call'[t], world')
      OBVIOUS
    <2>1. CASE t = s
      BY <2>1
    <2>2. CASE t # s
      <3>1. call'[t] = call[t] /\ call[t].pc \in Unrecorded
        BY <2>2
      <3>2. NoEffect
        BY <2>2, <3>1, Alone
      <3> QED
        BY <3>1, <3>2 DEF SandboxInv, NoEffect, Knows
    <2> QED
      BY <2>1, <2>2
  <1>2. \/ receipts' = <<>> /\ evaluations' = <<>>
        \/ \E r, e : receipts' = <<r>> /\ evaluations' = <<e>> /\ Bears(r, e, world')
    <2>1. CASE receipts = <<>>
      <3>1. \A r : receipts # <<r>>
        BY <2>1
      <3> QED
        BY <2>1, <3>1 DEF SandboxInv
    <2>2. CASE receipts # <<>>
      BY <2>2 DEF SandboxInv, NoEffect, Bears
    <2> QED
      BY <2>1, <2>2
  <1>3. run'.status \in {"created", "ready"} => world'.executions = <<>> /\ receipts' = <<>>
    <2>1. CASE NoEffect
      BY <2>1 DEF SandboxInv, NoEffect
    <2>2. CASE call[s].pc \in Unrecorded /\ run' = run
      <3>1. Inside(call[s])
        BY <2>2, PointsOfTheAttempt DEF Inside, SandboxInv, Knows
      <3> QED
        BY <2>2, <3>1 DEF AttemptInv
    <2> QED
      BY <2>1, <2>2
  <1> QED
    BY <1>1, <1>2, <1>3, SandboxInvNext DEF SandboxInv

\* A step of one call on the ledger or with its child.
LEMMA StepKeepsSandbox ==
    ASSUME AttemptInv, SandboxInv, NEW s \in Sessions, StepOf(s), NoEffect,
           receipts' = receipts, evaluations' = evaluations
    PROVE  SandboxInv'
  <1>1. Single(world'.executions)
    BY DEF NoEffect, SandboxInv
  <1>2. ASSUME call'[s].pc \in Unrecorded
        PROVE  receipts = <<>> /\ Knows(call'[s], world')
    <2>1. call'[s].pc \in Launching
      BY <1>2, PointsOfTheAttempt DEF StepOf
    <2>2. call'[s].op = "attempt"
      BY <2>1 DEF StepOf, AttemptInv, WellFormed
    <2>3. receipts = <<>> /\ world.executions = <<>>
      BY <2>1, PointsOfTheAttempt DEF StepOf, SandboxInv, Knows
    <2>4. world'.executions = <<>>
      BY <2>3 DEF NoEffect
    <2> QED
      BY <2>1, <2>2, <2>3, <2>4 DEF Knows, BeforeRun, AfterRun, Launching
  <1> QED
    BY <1>1, <1>2, Kept DEF StepOf, NoEffect

\* A step of a call that is inside the attempt, or has its record behind it.
LEMMA MoveKeeps ==
    ASSUME AttemptInv, SandboxInv, NEW s \in Sessions, NEW next, Advance(s, next),
           DOMAIN next = DOMAIN NoCall, next.op = call[s].op,
           next.pc \notin {"start_step", "resume", "supervisor_applied"} \cup Launching,
           call[s].pc # "start_step",
           UNCHANGED <<run, children, receipts, evaluations>>,
           world' = world \/ call[s].pc \in Unrecorded,
           DOMAIN world' = DOMAIN world, Single(world'.executions),
           next.pc \in Unrecorded => call[s].pc \in Unrecorded /\ Knows(next, world')
    PROVE  AttemptInv' /\ SandboxInv'
  <1>1. \A t \in Sessions : call'[t] = IF t = s THEN next ELSE call[t]
    BY DEF Advance, AttemptInv
  <1>2. AttemptInv'
    BY QuietMove DEF Launching
  <1>3. call'[s].pc \in Unrecorded => receipts = <<>> /\ Knows(call'[s], world')
    BY <1>1 DEF SandboxInv
  <1> QED
    BY <1>1, <1>2, <1>3, Kept DEF NoEffect

LEMMA ReturnKeeps ==
    ASSUME AttemptInv, SandboxInv, NEW s \in Sessions, Return(s),
           UNCHANGED <<run, children, receipts, evaluations, world>>
    PROVE  AttemptInv' /\ SandboxInv'
  BY ReturnStep, StepKeepsSandbox DEF StepOf, NoEffect

\* A call that goes on keeps what it holds.
LEMMA AtHolds ==
    ASSUME AttemptInv, NEW s \in Sessions, NEW pc
    PROVE  /\ At(s, pc).answer = call[s].answer
           /\ At(s, pc).tree = call[s].tree
           /\ At(s, pc).passed = call[s].passed
  BY DEF At, AttemptInv, WellFormed, NoCall

LEMMA LayOutKeeps ==
    ASSUME AttemptInv, SandboxInv, NEW s \in Sessions, LayOut(s)
    PROVE  AttemptInv' /\ SandboxInv'
  <1>1. /\ call[s].pc = "lay_out"
        /\ UNCHANGED <<run, children, receipts, evaluations>>
    BY DEF LayOut, ledger, evidence
  <1>2. CASE Raise(s)
    BY <1>1, <1>2, ReturnKeeps DEF Raise
  <1>3. CASE Advance(s, Failing(s)) /\ world' = world
    BY <1>1, <1>3, FailingFields, MoveKeeps
       DEF SandboxInv, Unrecorded, BeforeRun, AfterRun, Launching
  <1>4. CASE /\ world' = [world EXCEPT !.inputs = call[s].answer]
             /\ Advance(s, At(s, "execute"))
    <2> DEFINE next == At(s, "execute")
    <2>1. /\ DOMAIN next = DOMAIN NoCall /\ next.op = call[s].op /\ next.pc = "execute"
          /\ next.answer = call[s].answer
      BY AtFields, AtHolds
    <2>2. /\ DOMAIN world' = DOMAIN world
          /\ world'.inputs = call[s].answer
          /\ world'.executions = world.executions
      BY <1>4 DEF SandboxInv, Untouched
    <2>3. call[s].pc \in Unrecorded /\ call[s].pc \in BeforeRun
      BY <1>1 DEF Unrecorded, BeforeRun
    <2>4. Knows(call[s], world) /\ Single(world'.executions)
      BY <2>2, <2>3 DEF SandboxInv
    <2> HIDE DEF next
    <2>5. Knows(next, world')
      BY <2>1, <2>2, <2>3, <2>4 DEF Knows, BeforeRun, AfterRun, Launching
    <2>6. Advance(s, next)
      BY <1>4 DEF next
    <2> QED
      BY <1>1, <2>1, <2>2, <2>3, <2>4, <2>5, <2>6, MoveKeeps DEF Launching
  <1> QED
    BY <1>2, <1>3, <1>4 DEF LayOut

LEMMA StartContainerKeeps ==
    ASSUME AttemptInv, SandboxInv, NEW s \in Sessions, StartContainer(s)
    PROVE  AttemptInv' /\ SandboxInv'
  <1>1. /\ call[s].pc = "execute"
        /\ UNCHANGED <<run, children, receipts, evaluations>>
    BY DEF StartContainer, ledger, evidence
  <1>2. CASE Raise(s)
    BY <1>1, <1>2, ReturnKeeps DEF Raise
  <1>3. CASE ~Raise(s)
    <2> DEFINE container == [patch |-> world.inputs, runner |-> world.runner, exited |-> FALSE]
    <2>1. /\ world' = [world EXCEPT !.executions = Append(@, container)]
          /\ Advance(s, At(s, "await_container"))
      BY <1>3 DEF StartContainer
    <2>2. call[s].pc \in Unrecorded /\ call[s].pc \in BeforeRun
      BY <1>1 DEF Unrecorded, BeforeRun
    <2>3. Knows(call[s], world) /\ world.executions = <<>>
      BY <2>2 DEF SandboxInv, Knows
    <2>4. world' = [world EXCEPT !.executions = <<container>>]
      BY <2>1, <2>3
    <2>5. /\ DOMAIN world' = DOMAIN world
          /\ world'.inputs = world.inputs
          /\ world'.executions = <<container>>
      BY <2>4 DEF SandboxInv, Untouched
    <2>6. Single(world'.executions) /\ world'.executions[1].patch = world.inputs
      <3>1. Single(<<container>>)
        BY Zenon DEF Single
      <3>2. <<container>>[1].patch = world.inputs
        OBVIOUS
      <3> QED
        BY <2>5, <3>1, <3>2
    <2>7. world'.executions # <<>>
      BY <2>5
    <2> DEFINE next == At(s, "await_container")
    <2>8. /\ DOMAIN next = DOMAIN NoCall /\ next.op = call[s].op
          /\ next.pc = "await_container" /\ next.answer = call[s].answer
      BY AtFields, AtHolds
    <2> HIDE DEF next, container
    <2>9. Knows(next, world')
      BY <1>1, <2>3, <2>5, <2>6, <2>7, <2>8 DEF Knows, BeforeRun, AfterRun, Launching
    <2>10. Advance(s, next)
      BY <2>1 DEF next
    <2> QED
      BY <1>1, <2>2, <2>5, <2>6, <2>8, <2>9, <2>10, MoveKeeps DEF Launching
  <1> QED
    BY <1>2, <1>3

LEMMA ReadContainerKeeps ==
    ASSUME AttemptInv, SandboxInv, NEW s \in Sessions, ReadContainer(s)
    PROVE  AttemptInv' /\ SandboxInv'
  <1>1. /\ call[s].pc = "await_container"
        /\ UNCHANGED <<run, children, receipts, evaluations, world>>
    BY DEF ReadContainer, ledger, evidence
  <1>2. call[s].pc \in Unrecorded /\ Single(world.executions)
    BY <1>1 DEF Unrecorded, SandboxInv
  <1>3. CASE Advance(s, Failing(s))
    BY <1>1, <1>2, <1>3, FailingFields, MoveKeeps DEF Unrecorded, BeforeRun, AfterRun, Launching
  <1>4. CASE Return(s)
    BY <1>1, <1>4, ReturnKeeps
  <1>5. CASE ~Advance(s, Failing(s)) /\ ~Return(s)
    <2>1. /\ world.executions[Len(world.executions)].exited
          /\ \E passed \in TestResults : Advance(s, SandboxResult(s, passed))
      BY <1>5 DEF ReadContainer
    <2>2. PICK passed \in TestResults : Advance(s, SandboxResult(s, passed))
      BY <2>1
    <2> DEFINE next == SandboxResult(s, passed)
    <2>3. /\ DOMAIN next = DOMAIN NoCall /\ next.op = call[s].op /\ next.pc = "identify"
          /\ next.answer = call[s].answer /\ next.tree = world.inputs /\ next.passed = passed
      BY AtFields, AtHolds DEF SandboxResult, NoCall
    <2>4. Knows(call[s], world)
      BY <1>2 DEF SandboxInv
    <2>5. world.executions[1].exited
      <3>1. world.executions # <<>>
        BY <1>1, <2>4 DEF Knows, BeforeRun, Launching
      <3>2. Len(world.executions) = 1
        <4>1. PICK e : world.executions = <<e>>
          BY <1>2, <3>1 DEF Single
        <4> QED
          BY <4>1
      <3> QED
        BY <2>1, <3>2
    <2>6. passed \in BOOLEAN /\ (passed => world.inputs \in Fixes)
      <3>1. PICK fixed : fixed = (world.inputs \in Fixes)
        OBVIOUS
      <3>2. fixed \in BOOLEAN
        BY <3>1
      <3>3. passed \in {fixed, FALSE}
        BY <3>1, Zenon DEF TestResults
      <3> QED
        BY <3>1, <3>2, <3>3
    <2> HIDE DEF next
    <2>7. Knows(next, world')
      BY <1>1, <2>3, <2>4, <2>5, <2>6 DEF Knows, BeforeRun, AfterRun, Launching
    <2>8. Advance(s, next)
      BY <2>2 DEF next
    <2> QED
      BY <1>1, <1>2, <2>3, <2>7, <2>8, MoveKeeps DEF Launching
  <1> QED
    BY <1>3, <1>4, <1>5

LEMMA IdentifyKeeps ==
    ASSUME AttemptInv, SandboxInv, NEW s \in Sessions, Identify(s)
    PROVE  AttemptInv' /\ SandboxInv'
  <1>1. /\ call[s].pc = "identify"
        /\ UNCHANGED <<run, children, receipts, evaluations, world>>
    BY DEF Identify, ledger, evidence
  <1>2. CASE Return(s)
    BY <1>1, <1>2, ReturnKeeps
  <1>3. CASE Advance(s, At(s, "make_directory"))
    <2> DEFINE next == At(s, "make_directory")
    <2>1. /\ DOMAIN next = DOMAIN NoCall /\ next.op = call[s].op
          /\ next.pc = "make_directory" /\ next.answer = call[s].answer
          /\ next.tree = call[s].tree /\ next.passed = call[s].passed
      BY AtFields, AtHolds
    <2>2. call[s].pc \in Unrecorded /\ Single(world.executions) /\ Knows(call[s], world)
      BY <1>1 DEF Unrecorded, AfterRun, SandboxInv
    <2>3. Advance(s, next)
      BY <1>3
    <2> HIDE DEF next
    <2>4. Knows(next, world')
      BY <1>1, <2>1, <2>2 DEF Knows, BeforeRun, AfterRun, Launching
    <2> QED
      BY <1>1, <2>1, <2>2, <2>3, <2>4, MoveKeeps DEF Launching
  <1> QED
    BY <1>2, <1>3 DEF Identify

LEMMA ArtifactKeeps ==
    ASSUME AttemptInv, SandboxInv, NEW s \in Sessions, MakeDirectory(s) \/ WriteArtifact(s)
    PROVE  AttemptInv' /\ SandboxInv'
  <1>1. /\ call[s].pc \in {"make_directory", "write_artifact"}
        /\ UNCHANGED <<run, children, receipts, evaluations>>
    BY DEF MakeDirectory, WriteArtifact, ledger, evidence
  <1>2. CASE Raise(s)
    BY <1>1, <1>2, ReturnKeeps DEF Raise
  <1>3. CASE ~Raise(s)
    <2>1. PICK artifact, pc :
            /\ world' = [world EXCEPT !.artifact = artifact]
            /\ Advance(s, At(s, pc))
            /\ pc \in {"write_artifact", "record_attempt"}
            /\ pc = "record_attempt" => artifact = call[s].tree
      BY <1>3 DEF MakeDirectory, WriteArtifact
    <2> DEFINE next == At(s, pc)
    <2>2. /\ DOMAIN next = DOMAIN NoCall /\ next.op = call[s].op
          /\ next.pc = pc /\ next.answer = call[s].answer
          /\ next.tree = call[s].tree /\ next.passed = call[s].passed
      BY AtFields, AtHolds
    <2>3. call[s].pc \in Unrecorded /\ Single(world.executions) /\ Knows(call[s], world)
      BY <1>1 DEF Unrecorded, AfterRun, SandboxInv
    <2>4. /\ DOMAIN world' = DOMAIN world
          /\ world'.inputs = world.inputs
          /\ world'.executions = world.executions
          /\ world'.artifact = artifact
      BY <2>1 DEF SandboxInv, Untouched
    <2>5. Advance(s, next)
      BY <2>1
    <2> HIDE DEF next
    <2>6. Knows(next, world')
      BY <1>1, <2>1, <2>2, <2>3, <2>4 DEF Knows, BeforeRun, AfterRun, Launching
    <2> QED
      BY <1>1, <2>1, <2>2, <2>3, <2>4, <2>5, <2>6, MoveKeeps DEF Launching
  <1> QED
    BY <1>2, <1>3

\* The verdict is the tests' own: the output that was taken matches.
LEMMA JudgedByTests ==
    ASSUME NEW s, NEW passed \in BOOLEAN
    PROVE  Judged(s, [tests_pass |-> passed, output_matches |-> TRUE]) = passed
  <1>1. PICK matches \in BOOLEAN : matches = TRUE
    OBVIOUS
  <1> DEFINE correctness == [tests_pass |-> passed, output_matches |-> matches]
  <1>2. correctness \in [{"tests_pass", "output_matches"} -> BOOLEAN]
    OBVIOUS
  <1>3. correctness["tests_pass"] = passed /\ correctness["output_matches"] = matches
    OBVIOUS
  <1>4. Judged(s, correctness) =
           \A k \in {"tests_pass", "output_matches"} : correctness[k]
    BY <1>2, JudgedByPredicates
  <1>5. Judged(s, [tests_pass |-> passed, output_matches |-> TRUE]) = Judged(s, correctness)
    BY <1>1
  <1> HIDE DEF correctness
  <1>6. (\A k \in {"tests_pass", "output_matches"} : correctness[k]) = passed
    BY <1>1, <1>3, Zenon
  <1> QED
    BY <1>4, <1>5, <1>6

LEMMA RecordKeeps ==
    ASSUME AttemptInv, SandboxInv, NEW s \in Sessions, RecordSandbox(s)
    PROVE  AttemptInv' /\ SandboxInv'
  <1> DEFINE judged == Judged(s, [tests_pass |-> call[s].passed, output_matches |-> TRUE])
             receipt == [patch |-> call[s].answer, tree |-> call[s].tree,
                         runner |-> "approved", passed |-> call[s].passed]
             evaluation == [candidate |-> call[s].tree, eligible |-> judged,
                            score |-> IF call[s].passed THEN 0 ELSE 1]
             next == [At(s, "sandbox_result") EXCEPT !.cand = call[s].tree,
                                                     !.eligible = judged]
  <1>1. call[s].pc = "record_attempt" /\ UNCHANGED <<run, children, world>>
    BY DEF RecordSandbox, Record, RecordAttemptWithReceipt, ledger
  <1>2. CASE Return(s) /\ UNCHANGED ledger
    BY <1>1, <1>2, ReturnKeeps DEF ledger, evidence
  <1>3. CASE ~(Return(s) /\ UNCHANGED ledger)
    <2>1. RecordAttemptWithReceipt(evaluation, receipt) /\ Advance(s, next)
      BY <1>3, Zenon DEF RecordSandbox, Record
    <2>2. DOMAIN next = DOMAIN NoCall /\ next.op = call[s].op /\ next.pc = "sandbox_result"
      BY AtFields DEF NoCall
    <2>3. call[s].pc \in Unrecorded
      BY <1>1 DEF Unrecorded, AfterRun
    <2>4. /\ receipts = <<>> /\ evaluations = <<>> /\ Knows(call[s], world)
          /\ Single(world.executions) /\ DOMAIN world = DOMAIN Untouched
      BY <2>3 DEF SandboxInv
    <2>5. receipts' = <<receipt>> /\ evaluations' = <<evaluation>>
      <3>1. /\ receipts' = Append(receipts, receipt)
            /\ evaluations' = Append(evaluations, evaluation)
        BY <2>1, Zenon DEF RecordAttemptWithReceipt
      <3>2. \A row : Append(<<>>, row) = <<row>>
        OBVIOUS
      <3> HIDE DEF receipt, evaluation
      <3> QED
        BY <2>4, <3>1, <3>2
    <2>6. Bears(receipt, evaluation, world')
      <3>1. /\ world.executions # <<>> /\ world.executions[1].exited
            /\ world.executions[1].patch = call[s].answer
            /\ world.artifact = call[s].tree
            /\ call[s].answer = call[s].tree
            /\ call[s].passed \in BOOLEAN
            /\ call[s].passed => call[s].answer \in Fixes
        BY <1>1, <2>4 DEF Knows, BeforeRun, AfterRun, Launching
      <3>2. judged = call[s].passed
        BY <3>1, JudgedByTests
      <3> HIDE DEF judged
      <3> QED
        BY <1>1, <3>1, <3>2 DEF Bears
    <2> HIDE DEF next, receipt, evaluation
    <2>7. \A t \in Sessions : call'[t] = IF t = s THEN next ELSE call[t]
      BY <2>1 DEF Advance, AttemptInv
    <2>8. \A t \in Sessions : call'[t].pc \notin Unrecorded
      BY <2>2, <2>3, <2>7, Alone DEF Unrecorded, BeforeRun, AfterRun, Launching
    <2>9. run'.status \notin {"created", "ready"}
      BY <1>1, <2>3, <2>4, PointsOfTheAttempt DEF AttemptInv, Inside, Knows
    <2>10. \E r, e : receipts' = <<r>> /\ evaluations' = <<e>> /\ Bears(r, e, world')
      BY <2>5, <2>6
    <2>11. SandboxInv'
      BY <1>1, <2>4, <2>8, <2>9, <2>10, SandboxInvNext
    <2>12. AttemptInv'
      BY <1>1, <2>1, <2>2, QuietMove DEF Launching
    <2> QED
      BY <2>11, <2>12
  <1> QED
    BY <1>2, <1>3

LEMMA PatchKeeps ==
    ASSUME AttemptInv, SandboxInv, NEW s \in Sessions, Patch(s)
    PROVE  AttemptInv' /\ SandboxInv'
  <1>1. CASE ObserveChild(s, "lay_out")
    <2>1. /\ call[s].pc = "child_result"
          /\ UNCHANGED <<run, children, receipts, evaluations, world>>
      BY <1>1 DEF ObserveChild, RecordObservation, evidence
    <2>2. PICK next \in {Failing(s), At(s, "lay_out")} : Advance(s, next)
      BY <1>1 DEF ObserveChild
    <2>3. DOMAIN next = DOMAIN NoCall /\ next.op = call[s].op
          /\ next.pc \in {"child_failed", "lay_out"}
      BY AtFields, FailingFields
    <2>4. call[s].pc \in Unrecorded /\ call[s].pc \in BeforeRun
      BY <2>1 DEF Unrecorded, BeforeRun, Launching
    <2>5. Single(world.executions) /\ Knows(call[s], world)
      BY <2>4 DEF SandboxInv
    <2>6. next.pc \in Unrecorded => Knows(next, world)
      BY <2>3, <2>4, <2>5 DEF Knows, Unrecorded, BeforeRun, AfterRun, Launching
    <2>7. next.pc \notin {"start_step", "resume", "supervisor_applied"} \cup Launching
      BY <2>3 DEF Launching
    <2> QED
      BY <2>1, <2>2, <2>3, <2>4, <2>5, <2>6, <2>7, MoveKeeps
  <1>2. CASE SandboxNoted(s)
    <2>1. /\ call[s].pc = "sandbox_result" /\ Advance(s, At(s, "candidate_ready"))
          /\ UNCHANGED <<run, children, receipts, evaluations, world>>
      BY <1>2 DEF SandboxNoted, Note, RecordObservation, evidence
    <2> QED
      BY <2>1, AtFields, MoveKeeps
         DEF SandboxInv, Unrecorded, BeforeRun, AfterRun, Launching
  <1> QED
    BY <1>1, <1>2, LayOutKeeps, StartContainerKeeps, ReadContainerKeeps, IdentifyKeeps,
       ArtifactKeeps, RecordKeeps DEF Patch

\* What a call does on the ledger or with its child leaves the sandbox alone.
LEMMA LedgerNoEffect ==
    ASSUME SandboxInv, NEW s \in Sessions, ProceedInLedger(s)
    PROVE  NoEffect /\ receipts' = receipts /\ evaluations' = evaluations
  <1>1. receipts' = receipts /\ evaluations' = evaluations
    BY DEF ProceedInLedger, Build, CreateRun, Commit, Transition, Refuse, Observe,
       RecordObservation, RunChild, LaunchChild, AwaitChild, CancelChild, ReadResult,
       ReadCandidates, ReadEvaluations, ReadReceipts, ReadEvents, ledger, evidence
  <1>2. CASE world' = world
    BY <1>1, <1>2 DEF NoEffect
  <1>3. CASE Build(s) \/ CreateRun(s)
    <2>1. \/ world' = world
          \/ \E v : world' = [world EXCEPT !.repository = v]
          \/ \E v : world' = [world EXCEPT !.recorded = v]
      BY <1>3, Zenon DEF Build, CreateRun, Raise
    <2> QED
      BY <1>1, <2>1 DEF SandboxInv, Untouched, NoEffect
  <1> QED
    BY <1>1, <1>2, <1>3 DEF ProceedInLedger, Commit, Refuse, Observe, RunChild, LaunchChild,
       AwaitChild, CancelChild, ReadResult, ReadCandidates, ReadEvaluations, ReadReceipts,
       ReadEvents

\* A call that begins is not inside the attempt yet.
LEMMA BeginKeepsSandbox ==
    ASSUME AttemptInv, SandboxInv, NEW s \in Sessions, Work(s) \/ BeginCancel(s)
    PROVE  AttemptInv' /\ SandboxInv'
  <1>1. AttemptInv'
    BY BeginKeeps DEF Work
  <1>2. PICK op \in {"attempt", "reconcile", "cancel"},
             pc \in {"start_step", "read_candidates", "cancel"} : Begin(s, op, pc)
    BY DEF Work, BeginAttempt, BeginReconcile, BeginCancel
  <1>3. /\ UNCHANGED <<run, receipts, evaluations, world>>
        /\ \E state, alone : Advance(s, [NoCall EXCEPT !.op = op, !.pc = pc, !.state = state,
                                                       !.alone = alone])
    BY <1>2, Zenon DEF Begin, ledger, evidence
  <1>4. PICK state, alone : Advance(s, [NoCall EXCEPT !.op = op, !.pc = pc, !.state = state,
                                                      !.alone = alone])
    BY <1>3
  <1> DEFINE next == [NoCall EXCEPT !.op = op, !.pc = pc, !.state = state, !.alone = alone]
  <1>5. next.pc \notin Unrecorded
    BY DEF NoCall, Unrecorded, BeforeRun, AfterRun, Launching
  <1>6. \A t \in Sessions : call'[t] = IF t = s THEN next ELSE call[t]
    BY <1>4 DEF Advance, AttemptInv
  <1> HIDE DEF next
  <1>7. Single(world'.executions)
    BY <1>3 DEF SandboxInv
  <1> QED
    BY <1>1, <1>3, <1>5, <1>6, <1>7, Kept DEF NoEffect

\* What the world does by itself: the plugin's files change, the container ends.
LEMMA WorldKeepsSandbox ==
    ASSUME SandboxInv, Upgrade \/ \E i \in DOMAIN world.executions : ContainerExits(i)
    PROVE  SandboxInv'
  <1>1. call' = call /\ UNCHANGED <<run, receipts, evaluations>>
    BY DEF Upgrade, ContainerExits, ledger, evidence
  <1>2. CASE Upgrade
    <2>1. PICK runner, upgrades :
             world' = [world EXCEPT !.runner = runner, !.upgrades = upgrades]
      BY <1>2 DEF Upgrade
    <2>2. NoEffect
      BY <2>1 DEF SandboxInv, Untouched, NoEffect
    <2> QED
      BY <1>1, <2>2, SandboxInvNext DEF SandboxInv, NoEffect, Knows, Bears
  <1>3. CASE \E i \in DOMAIN world.executions : ContainerExits(i)
    <2>1. PICK i \in DOMAIN world.executions : ContainerExits(i)
      BY <1>3
    <2>2. world.executions # <<>>
      BY <2>1
    <2>3. PICK patch, runner, exited :
             world.executions = <<[patch |-> patch, runner |-> runner, exited |-> exited]>>
      BY <2>2, Zenon DEF SandboxInv, Single
    <2>4. i = 1
      BY <2>1, <2>3
    <2>5. world' = [world EXCEPT !.executions[1].exited = TRUE]
      BY <2>1, <2>4 DEF ContainerExits
    <2>6. /\ DOMAIN world' = DOMAIN world
          /\ world'.inputs = world.inputs /\ world'.artifact = world.artifact
          /\ world'.executions = [world.executions EXCEPT ![1].exited = TRUE]
      BY <2>5 DEF SandboxInv, Untouched
    <2>7. world'.executions = <<[patch |-> patch, runner |-> runner, exited |-> TRUE]>>
      <3>1. ASSUME NEW e, NEW f
            PROVE  [<<e>> EXCEPT ![1] = f] = <<f>>
        <4>1. [<<e>> EXCEPT ![1] = f] \in Seq({e, f})
          BY ExceptSeq
        <4>2. Len([<<e>> EXCEPT ![1] = f]) = 1 /\ [<<e>> EXCEPT ![1] = f][1] = f
          BY ExceptSeq
        <4> QED
          BY <4>1, <4>2
      <3>2. PICK done : done = TRUE
        OBVIOUS
      <3>3. PICK e, f :
              /\ e = [patch |-> patch, runner |-> runner, exited |-> exited]
              /\ f = [patch |-> patch, runner |-> runner, exited |-> done]
        OBVIOUS
      <3>4. f = [e EXCEPT !.exited = done]
        BY <3>3
      <3>5. world.executions = <<e>> /\ e = world.executions[1]
        BY <2>3, <3>3
      <3>6. world'.executions = [<<e>> EXCEPT ![1] = f]
        BY <2>6, <3>2, <3>4, <3>5
      <3> QED
        BY <3>1, <3>2, <3>3, <3>6
    <2>8. /\ Single(world'.executions) /\ world'.executions # <<>>
          /\ world'.executions[1].patch = world.executions[1].patch
          /\ world'.executions[1].exited
      <3>1. Single(world'.executions)
        BY <2>7, Zenon DEF Single
      <3> QED
        BY <2>3, <2>7, <3>1
    <2>9. ASSUME NEW t \in Sessions, call[t].pc \in Unrecorded
          PROVE  receipts = <<>> /\ Knows(call[t], world')
      BY <2>2, <2>6, <2>8, <2>9 DEF SandboxInv, Knows
    <2>10. \/ receipts = <<>> /\ evaluations = <<>>
           \/ \E r, e : receipts = <<r>> /\ evaluations = <<e>> /\ Bears(r, e, world')
      BY <2>6, <2>8 DEF SandboxInv, Bears
    <2> QED
      BY <1>1, <2>2, <2>6, <2>8, <2>9, <2>10, SandboxInvNext DEF SandboxInv
  <1> QED
    BY <1>2, <1>3

\* The invariants under every step of the system.
LEMMA SandboxStep ==
    ASSUME AttemptInv, SandboxInv, [Next]_vars
    PROVE  AttemptInv' /\ SandboxInv'
  <1>1. CASE Upgrade \/ \E i \in DOMAIN world.executions : ContainerExits(i)
    <2>1. UNCHANGED <<run, call, children>>
      BY <1>1 DEF Upgrade, ContainerExits, ledger
    <2>2. AttemptInv'
      BY <2>1 DEF AttemptInv, WellFormed, Inside, NoCall, NewRun, Launching
    <2> QED
      BY <1>1, <2>2, WorldKeepsSandbox
  <1>2. ASSUME NEW i \in DOMAIN children, ChildEnds(i)
        PROVE  AttemptInv' /\ SandboxInv'
    <2>1. call' = call /\ UNCHANGED <<run, receipts, evaluations, world>>
      BY <1>2 DEF ChildEnds, ledger, evidence
    <2> QED
      BY <1>2, <2>1, ChildEndsKeeps, SandboxInvNext DEF SandboxInv
  <1>3. ASSUME NEW s \in Sessions, Work(s) \/ BeginCancel(s)
        PROVE  AttemptInv' /\ SandboxInv'
    BY <1>3, BeginKeepsSandbox
  <1>4. ASSUME NEW s \in Sessions, ProceedInLedger(s)
        PROVE  AttemptInv' /\ SandboxInv'
    BY <1>4, LedgerStep, LedgerNoEffect, StepKeepsSandbox DEF StepOf
  <1>5. ASSUME NEW s \in Sessions, Patch(s)
        PROVE  AttemptInv' /\ SandboxInv'
    BY <1>5, PatchKeeps
  <1>6. ASSUME NEW s \in Sessions, Vanish(s)
        PROVE  AttemptInv' /\ SandboxInv'
    <2>1. Return(s) /\ UNCHANGED <<run, receipts, evaluations, world>>
      BY <1>6 DEF Vanish, ledger, evidence
    <2>2. \A t \in Sessions : call'[t] = IF t = s THEN NoCall ELSE call[t]
      BY <2>1 DEF Return, Advance, AttemptInv
    <2>3. NoCall.pc \notin Unrecorded /\ Single(world'.executions)
      BY <2>1 DEF NoCall, Unrecorded, BeforeRun, AfterRun, Launching, SandboxInv
    <2> QED
      BY <1>6, <2>1, <2>2, <2>3, VanishKeeps, Kept DEF NoEffect
  <1>7. ASSUME UNCHANGED vars
        PROVE  AttemptInv' /\ SandboxInv'
    <2>1. UNCHANGED <<run, call, children, receipts, evaluations, world>>
      BY <1>7 DEF vars, ledger, evidence
    <2>2. AttemptInv'
      BY <2>1 DEF AttemptInv, WellFormed, Inside, NoCall, NewRun, Launching
    <2> QED
      BY <2>1, <2>2, SandboxInvNext DEF SandboxInv
  <1> QED
    BY <1>1, <1>2, <1>3, <1>4, <1>5, <1>6, <1>7 DEF Next, Proceed

LEMMA SandboxInit == Init => AttemptInv /\ SandboxInv
  <1> SUFFICES ASSUME Init PROVE AttemptInv /\ SandboxInv
    OBVIOUS
  <1>1. AttemptInv
    BY InitAttempt DEF Init
  <1>2. PICK creator \in Sessions :
          call = [s \in Sessions |->
                     IF s = creator
                     THEN [NoCall EXCEPT !.op = "create", !.pc = "build", !.note = "prepared"]
                     ELSE NoCall]
    BY DEF Init, AttemptInit
  <1>3. \A s \in Sessions : call[s].pc \in {"build", "idle"}
    BY <1>2 DEF NoCall
  <1>4. receipts = <<>> /\ evaluations = <<>> /\ world = Untouched
    BY DEF Init, AttemptInit, StoreInit
  <1> QED
    BY <1>1, <1>3, <1>4
       DEF SandboxInv, Single, Untouched, Unrecorded, BeforeRun, AfterRun, Launching

\* README.md: "Reconciliation never reruns child, sandbox, patch, or tests".  One child and
\* one container, for any number of callers, crashes and changes of the plugin's files.
THEOREM Phase4EffectsOnce == Spec => []EffectsOnce
  <1>1. AttemptInv /\ SandboxInv => EffectsOnce
    <2> SUFFICES ASSUME AttemptInv, SandboxInv PROVE EffectsOnce
      OBVIOUS
    <2>1. CASE world.executions = <<>>
      BY <2>1 DEF AttemptInv, EffectsOnce
    <2>2. ASSUME NEW e, world.executions = <<e>>
          PROVE  EffectsOnce
      BY <2>2 DEF AttemptInv, EffectsOnce
    <2> QED
      BY <2>1, <2>2, Zenon DEF SandboxInv, Single
  <1>2. AttemptInv /\ SandboxInv /\ [Next]_vars => (AttemptInv /\ SandboxInv)'
    BY SandboxStep
  <1> QED
    BY <1>1, <1>2, SandboxInit, PTL DEF Spec

\* The artifact that a receipt names is there and whole, whatever happened between its
\* directory, its file and the record, and nothing replaces it afterwards.
THEOREM Phase4ArtifactRetained == Spec => []ArtifactRetained
  <1>1. SandboxInv => ArtifactRetained
    <2> SUFFICES ASSUME SandboxInv, NEW i \in DOMAIN receipts
                 PROVE  world.artifact = receipts[i].tree
      BY DEF ArtifactRetained
    <2>1. PICK r, e : receipts = <<r>> /\ Bears(r, e, world)
      BY DEF SandboxInv
    <2> QED
      BY <2>1 DEF Bears
  <1>2. AttemptInv /\ SandboxInv /\ [Next]_vars => (AttemptInv /\ SandboxInv)'
    BY SandboxStep
  <1> QED
    BY <1>1, <1>2, SandboxInit, PTL DEF Spec

-----------------------------------------------------------------------------
(***************************************************************************)
(* Who ran.  The code hashes the runner's files when the container is done *)
(* and takes the hash for what the container read as it started.  As long  *)
(* as the files change once at most, that is right: files that are the     *)
(* approved ones have then never been others.  With a second change they   *)
(* may have been put back in time, and the theorem below is false.         *)
(***************************************************************************)

\* The points behind the hash of the runner's files.
Identified == AfterRun \ {"identify"}

RanApproved(w) == w.executions = <<>> \/ w.executions[1].runner = "approved"

RunnerInv ==
    /\ world.upgrades \in {0, 1}
    /\ world.runner = IF world.upgrades = 0 THEN "approved" ELSE "other"
    /\ world.upgrades = 0 => RanApproved(world)
    /\ receipts # <<>> => RanApproved(world)
    /\ \A s \in Sessions : call[s].pc \in Identified => RanApproved(world)

LEMMA RunnerInvNext ==
    ASSUME world'.upgrades \in {0, 1},
           world'.runner = IF world'.upgrades = 0 THEN "approved" ELSE "other",
           world'.upgrades = 0 => RanApproved(world'),
           receipts' # <<>> => RanApproved(world'),
           \A s \in Sessions : call'[s].pc \in Identified => RanApproved(world')
    PROVE  RunnerInv'
  BY DEF RunnerInv, RanApproved, Identified, AfterRun

\* A step of one call that starts no container.
LEMMA RunnerKept ==
    ASSUME RunnerInv, NEW s \in Sessions,
           \A t \in Sessions : t # s => call'[t] = call[t],
           UNCHANGED <<world.runner, world.upgrades, world.executions>>,
           call'[s].pc \in Identified => call[s].pc \in Identified \/ world.runner = "approved",
           receipts' = receipts \/ call[s].pc \in Identified
    PROVE  RunnerInv'
  <1>1. RanApproved(world') <=> RanApproved(world)
    BY DEF RanApproved
  <1>2. world.runner = "approved" => RanApproved(world)
    BY DEF RunnerInv
  <1>3. \A t \in Sessions : call'[t].pc \in Identified => RanApproved(world)
    BY <1>2 DEF RunnerInv
  <1> QED
    BY <1>1, <1>3, RunnerInvNext DEF RunnerInv

LEMMA Advanced ==
    ASSUME AttemptInv, NEW s \in Sessions, NEW next, Advance(s, next)
    PROVE  /\ \A t \in Sessions : t # s => call'[t] = call[t]
           /\ call'[s] = next
  BY DEF Advance, AttemptInv

LEMMA StartKeepsRunner ==
    ASSUME AttemptInv, SandboxInv, RunnerInv, NEW s \in Sessions, StartContainer(s)
    PROVE  RunnerInv'
  <1>1. call[s].pc = "execute" /\ receipts' = receipts
    BY DEF StartContainer, ledger, evidence
  <1>2. /\ \A t \in Sessions : t # s => call'[t] = call[t]
        /\ call'[s].pc \in {"idle", "await_container"}
    <2>1. PICK next \in {NoCall, At(s, "await_container")} : Advance(s, next)
      BY DEF StartContainer, Raise, Return
    <2>2. NoCall.pc = "idle"
      BY DEF NoCall
    <2> QED
      BY <2>1, <2>2, AtFields, Advanced
  <1>3. CASE world' = world
    BY <1>1, <1>2, <1>3, RunnerKept DEF Identified, AfterRun
  <1>4. CASE world' # world
    <2>1. PICK container :
            /\ container.runner = world.runner
            /\ world' = [world EXCEPT !.executions = Append(@, container)]
      BY <1>4 DEF StartContainer, Raise
    <2>2. call[s].pc \in Unrecorded
      BY <1>1 DEF Unrecorded, BeforeRun
    <2>3. receipts = <<>> /\ world.executions = <<>>
      BY <1>1, <2>2 DEF SandboxInv, Knows, BeforeRun
    <2>4. world'.executions = <<container>>
      BY <2>1, <2>3 DEF SandboxInv, Untouched
    <2>5. UNCHANGED <<world.runner, world.upgrades>>
      BY <2>1 DEF SandboxInv, Untouched
    <2>6. world'.upgrades = 0 => RanApproved(world')
      BY <2>1, <2>4, <2>5 DEF RunnerInv, RanApproved
    <2>7. \A t \in Sessions : call'[t].pc \notin Identified
      BY <1>2, <2>2, Alone DEF Identified, Unrecorded, AfterRun
    <2> QED
      BY <1>1, <2>3, <2>5, <2>6, <2>7, RunnerInvNext DEF RunnerInv
  <1> QED
    BY <1>3, <1>4

LEMMA PatchKeepsRunner ==
    ASSUME AttemptInv, SandboxInv, RunnerInv, NEW s \in Sessions, Patch(s)
    PROVE  RunnerInv'
  <1>1. CASE StartContainer(s)
    BY <1>1, StartKeepsRunner
  <1>2. CASE ~StartContainer(s)
    <2>1. UNCHANGED <<world.runner, world.upgrades, world.executions>>
      <3>1. \/ world' = world
            \/ \E v : world' = [world EXCEPT !.inputs = v]
            \/ \E v : world' = [world EXCEPT !.artifact = v]
        BY <1>2, Zenon DEF Patch, ObserveChild, LayOut, ReadContainer, Identify, MakeDirectory,
           WriteArtifact, RecordSandbox, Record, SandboxNoted, Note, Raise
      <3> QED
        BY <3>1 DEF SandboxInv, Untouched
    <2>2. receipts' = receipts \/ call[s].pc \in Identified
      BY <1>2 DEF Patch, ObserveChild, LayOut, ReadContainer, Identify, MakeDirectory,
         WriteArtifact, RecordSandbox, Record, SandboxNoted, Note, RecordObservation,
         Identified, AfterRun, ledger, evidence
    <2>3. PICK next : /\ Advance(s, next)
                      /\ next.pc \in Identified =>
                             call[s].pc \in Identified \/ world.runner = "approved"
      <3>1. NoCall.pc = "idle" /\ Failing(s).pc = "child_failed"
        BY FailingFields DEF NoCall
      <3>2. \A pc : At(s, pc).pc = pc
        BY AtFields
      <3>3. CASE ObserveChild(s, "lay_out") \/ LayOut(s) \/ SandboxNoted(s)
        <4>1. PICK next \in {NoCall, Failing(s), At(s, "lay_out"), At(s, "execute"),
                             At(s, "candidate_ready")} : Advance(s, next)
          BY <3>3 DEF ObserveChild, LayOut, SandboxNoted, Note, Raise, Return
        <4> QED
          BY <3>1, <3>2, <4>1 DEF Identified, AfterRun
      <3>4. CASE ReadContainer(s)
        <4>1. CASE Advance(s, Failing(s))
          BY <3>1, <4>1 DEF Identified, AfterRun
        <4>2. ASSUME NEW passed, Advance(s, SandboxResult(s, passed))
              PROVE  \E next : /\ Advance(s, next)
                               /\ next.pc \in Identified => call[s].pc \in Identified
          <5>1. SandboxResult(s, passed).pc = "identify"
            BY AtFields DEF SandboxResult, NoCall
          <5> QED
            BY <4>2, <5>1 DEF Identified, AfterRun
        <4>3. CASE Return(s)
          BY <3>1, <4>3 DEF Return, Identified, AfterRun
        <4> QED
          BY <3>4, <4>1, <4>2, <4>3 DEF ReadContainer
      <3>5. CASE Identify(s)
        <4>1. CASE world.runner = "approved"
          BY <3>5, <4>1 DEF Identify
        <4>2. CASE world.runner # "approved"
          BY <3>1, <3>5, <4>2 DEF Identify, Return, Identified, AfterRun
        <4> QED
          BY <4>1, <4>2
      <3>6. CASE MakeDirectory(s) \/ WriteArtifact(s) \/ RecordSandbox(s)
        <4>1. call[s].pc \in Identified
          BY <3>6 DEF MakeDirectory, WriteArtifact, RecordSandbox, Record, Identified, AfterRun
        <4>2. \E next : Advance(s, next)
          BY <3>6, Zenon DEF MakeDirectory, WriteArtifact, RecordSandbox, Record, Raise, Return
        <4> QED
          BY <4>1, <4>2
      <3> QED
        BY <1>2, <3>3, <3>4, <3>5, <3>6 DEF Patch
    <2> QED
      BY <2>1, <2>2, <2>3, Advanced, RunnerKept
  <1> QED
    BY <1>1, <1>2

LEMMA RunnerStep ==
    ASSUME MaxUpgrades <= 1, AttemptInv, SandboxInv, RunnerInv, [Next]_vars
    PROVE  RunnerInv'
  <1>1. CASE Upgrade
    <2>1. PICK runner \in Runners \ {world.runner} :
             world' = [world EXCEPT !.runner = runner, !.upgrades = @ + 1]
      BY <1>1 DEF Upgrade
    <2>2. world.upgrades = 0 /\ world.runner = "approved"
      BY <1>1, Phase4Assumption DEF Upgrade, RunnerInv
    <2>3. /\ world'.runner = "other" /\ world'.upgrades = 1
          /\ world'.executions = world.executions
      BY <2>1, <2>2 DEF SandboxInv, Untouched, Runners
    <2>4. RanApproved(world')
      BY <2>2, <2>3 DEF RunnerInv, RanApproved
    <2> QED
      BY <2>3, <2>4, RunnerInvNext
  <1>2. ASSUME NEW i \in DOMAIN world.executions, ContainerExits(i)
        PROVE  RunnerInv'
    <2>1. call' = call /\ receipts' = receipts
      BY <1>2 DEF ContainerExits, ledger, evidence
    <2>2. world.executions # <<>>
      BY <1>2
    <2>3. PICK patch, runner, exited :
             world.executions = <<[patch |-> patch, runner |-> runner, exited |-> exited]>>
      BY <2>2, Zenon DEF SandboxInv, Single
    <2>4. i = 1 /\ world.executions[1].runner = runner
      BY <1>2, <2>3
    <2>5. world' = [world EXCEPT !.executions[1].exited = TRUE]
      BY <1>2, <2>4 DEF ContainerExits
    <2>6. /\ world'.runner = world.runner /\ world'.upgrades = world.upgrades
          /\ world'.executions = [world.executions EXCEPT ![1].exited = TRUE]
      BY <2>5 DEF SandboxInv, Untouched
    <2>7. /\ DOMAIN world.executions = {1}
          /\ DOMAIN world.executions[1] = {"patch", "runner", "exited"}
      BY <2>3
    <2>8. world'.executions[1].runner = world.executions[1].runner
      BY <2>6, <2>7
    <2>9. RanApproved(world) <=> RanApproved(world')
      <3>1. world'.executions # <<>>
        BY <2>6, <2>7
      <3> QED
        BY <2>2, <2>8, <3>1 DEF RanApproved
    <2> QED
      BY <2>1, <2>6, <2>9, RunnerInvNext DEF RunnerInv
  <1>3. ASSUME UNCHANGED <<call, receipts, world>>
        PROVE  RunnerInv'
    BY <1>3, RunnerInvNext DEF RunnerInv
  <1>4. ASSUME NEW s \in Sessions, ProceedInLedger(s)
        PROVE  RunnerInv'
    <2>1. StepOf(s) /\ receipts' = receipts
      BY <1>4, LedgerStep, LedgerNoEffect
    <2>2. call'[s].pc \notin Identified
      BY <2>1 DEF StepOf, LedgerPoints, AttemptPoints, Events, Identified, AfterRun
    <2>3. UNCHANGED <<world.runner, world.upgrades, world.executions>>
      <3>1. \/ world' = world
            \/ \E v : world' = [world EXCEPT !.repository = v]
            \/ \E v : world' = [world EXCEPT !.recorded = v]
        BY <1>4, Zenon DEF ProceedInLedger, Build, CreateRun, Raise, Commit, Refuse, Observe,
           RunChild, LaunchChild, AwaitChild, CancelChild, ReadResult, ReadCandidates,
           ReadEvaluations, ReadReceipts, ReadEvents
      <3> QED
        BY <3>1 DEF SandboxInv, Untouched
    <2> QED
      BY <2>1, <2>2, <2>3, RunnerKept DEF StepOf
  <1>5. ASSUME NEW s \in Sessions, Work(s) \/ BeginCancel(s)
        PROVE  RunnerInv'
    <2>1. PICK op \in {"attempt", "reconcile", "cancel"},
               pc \in {"start_step", "read_candidates", "cancel"} : Begin(s, op, pc)
      BY <1>5 DEF Work, BeginAttempt, BeginReconcile, BeginCancel
    <2>2. /\ world' = world /\ receipts' = receipts
          /\ \E state, alone : Advance(s, [NoCall EXCEPT !.op = op, !.pc = pc, !.state = state,
                                                         !.alone = alone])
      BY <2>1, Zenon DEF Begin, ledger, evidence
    <2>3. PICK state, alone : Advance(s, [NoCall EXCEPT !.op = op, !.pc = pc, !.state = state,
                                                        !.alone = alone])
      BY <2>2
    <2> DEFINE next == [NoCall EXCEPT !.op = op, !.pc = pc, !.state = state, !.alone = alone]
    <2>4. next.pc \notin Identified
      BY DEF NoCall, Identified, AfterRun
    <2>5. Advance(s, next)
      BY <2>3
    <2> HIDE DEF next
    <2> QED
      BY <2>2, <2>4, <2>5, Advanced, RunnerKept
  <1>6. ASSUME NEW s \in Sessions, Vanish(s)
        PROVE  RunnerInv'
    <2>1. Advance(s, NoCall) /\ world' = world /\ receipts' = receipts
      BY <1>6 DEF Vanish, Return, ledger, evidence
    <2>2. NoCall.pc \notin Identified
      BY DEF NoCall, Identified, AfterRun
    <2> QED
      BY <2>1, <2>2, Advanced, RunnerKept
  <1>7. ASSUME \/ UNCHANGED vars
               \/ \E i \in DOMAIN children : ChildEnds(i)
        PROVE  RunnerInv'
    BY <1>3, <1>7 DEF vars, ChildEnds, ledger, evidence
  <1> QED
    BY <1>1, <1>2, <1>4, <1>5, <1>6, <1>7, PatchKeepsRunner DEF Next, Proceed

\* As long as the plugin's files change once at most, the receipt tells the truth: the
\* approved runner ran the patch it names, to the end, and the evaluation beside it is
\* the judgement of what came out.
THEOREM Phase4ReceiptTruthful ==
    ASSUME MaxUpgrades <= 1
    PROVE  Spec => []ReceiptTruthful
  <1> DEFINE Strong == AttemptInv /\ SandboxInv /\ RunnerInv
  <1>1. Init => Strong
    <2>1. Init => receipts = <<>> /\ world = Untouched
      BY DEF Init, AttemptInit, StoreInit
    <2>2. Init => \A s \in Sessions : call[s].pc \in {"build", "idle"}
      BY DEF Init, AttemptInit, NoCall
    <2> QED
      BY <2>1, <2>2, SandboxInit DEF RunnerInv, RanApproved, Untouched, Identified, AfterRun
  <1>2. Strong /\ [Next]_vars => Strong'
    BY SandboxStep, RunnerStep
  <1>3. Strong => ReceiptTruthful
    <2> SUFFICES ASSUME Strong, NEW i \in DOMAIN receipts
                 PROVE  /\ [patch |-> receipts[i].patch, runner |-> receipts[i].runner,
                             exited |-> TRUE] \in Rows(world.executions)
                        /\ receipts[i].passed => receipts[i].patch \in Fixes
                        /\ evaluations[i].candidate = receipts[i].tree
                        /\ evaluations[i].eligible = receipts[i].passed
      BY DEF ReceiptTruthful
    <2>1. PICK r, e : receipts = <<r>> /\ evaluations = <<e>> /\ Bears(r, e, world)
      BY DEF SandboxInv
    <2>2. i = 1 /\ receipts[i] = r /\ evaluations[i] = e
      BY <2>1
    <2>3. world.executions[1].runner = "approved" /\ world.executions # <<>>
      BY <2>1 DEF RunnerInv, RanApproved, Bears
    <2>4. PICK patch, runner : \E exited \in BOOLEAN :
             world.executions = <<[patch |-> patch, runner |-> runner, exited |-> exited]>>
      BY <2>3, Zenon DEF SandboxInv, Single
    <2>5. PICK exited \in BOOLEAN :
             world.executions = <<[patch |-> patch, runner |-> runner, exited |-> exited]>>
      BY <2>4
    <2>6. world.executions[1] = [patch |-> patch, runner |-> runner, exited |-> exited]
      BY <2>5
    <2>7. patch = r.patch /\ runner = "approved" /\ exited = TRUE
      BY <2>1, <2>3, <2>6 DEF Bears
    <2>8. world.executions[1] = [patch |-> r.patch, runner |-> "approved", exited |-> TRUE]
      BY <2>6, <2>7, Zenon
    <2>9. world.executions[1] \in Rows(world.executions)
      BY <2>5 DEF Rows
    <2> QED
      BY <2>1, <2>2, <2>8, <2>9, Zenon DEF Bears
  <1> QED
    BY <1>1, <1>2, <1>3, PTL DEF Spec

-----------------------------------------------------------------------------
(***************************************************************************)
(* Types, whose the child is, and what a reconcile may conclude:           *)
(* SingleAttempt_proofs' CallInv under the effects of Phase 4.             *)
(***************************************************************************)

Points4 == {"lay_out", "execute", "await_container", "identify", "make_directory",
            "write_artifact", "sandbox_result"}

\* The points a call comes to with an answer.
Answered == {"lay_out", "execute", "await_container"} \cup AfterRun

Executions == [patch : Candidates, runner : Runners, exited : BOOLEAN]

ShapeInv ==
    /\ world.inputs \in Candidates \cup {None}
    /\ world.runner \in Runners
    /\ world.upgrades \in 0 .. MaxUpgrades
    /\ world.executions \in Seq(Executions)
    /\ world.artifact \in Candidates \cup {"empty", None}
    /\ \A s \in Sessions : call[s].pc \in Answered => call[s].answer # None

LEMMA PairedBySandbox == SandboxInv => Paired
  <1>1. \A row : <<row>> # <<>>
    OBVIOUS
  <1> QED
    BY <1>1 DEF SandboxInv, Paired

LEMMA OwnPoints4 == Points4 \cap AttemptPoints = {}
  BY DEF Points4, AttemptPoints, Events

\* A call that has an answer has a patch, which is the one laid out from there on, and
\* which is the tree once the container is read.
LEMMA AnswerType ==
    ASSUME Typed(Points4), SandboxInv, ShapeInv, NEW s \in Sessions, call[s].pc \in Answered
    PROVE  /\ call[s].answer \in Candidates
           /\ call[s].pc # "lay_out" => world.inputs = call[s].answer
           /\ call[s].pc \in AfterRun => call[s].tree = call[s].answer
  <1>1. call[s].answer \in Candidates \cup {None}
    BY DEF Typed, Calls
  <1>2. call[s].pc \in Unrecorded
    BY DEF Answered, Unrecorded, BeforeRun
  <1>3. Knows(call[s], world)
    BY <1>2 DEF SandboxInv
  <1>4. call[s].pc \notin Launching
    BY DEF Answered, AfterRun, Launching
  <1> QED
    BY <1>1, <1>3, <1>4 DEF ShapeInv, Knows, AfterRun

\* The steps on which the call learns of the container, or records what came out.
LEMMA ReadMoves ==
    ASSUME AttemptInv, CallInv(Points4), SandboxInv, ShapeInv, NEW s \in Sessions,
           ReadContainer(s)
    PROVE  Moves(s, Points4)
  <1>1. /\ UNCHANGED <<ledger, children, crashes, world>>
        /\ call[s].pc = "await_container"
    BY DEF ReadContainer
  <1>2. call[s].pc \notin Holding \cup {"start_step"}
    BY <1>1 DEF Holding
  <1>3. Standing
    BY <1>1 DEF Standing, CallInv, CreationInv
  <1>4. CASE Advance(s, Failing(s))
    BY <1>1, <1>2, <1>3, <1>4, EffectFails DEF CallInv
  <1>5. CASE Return(s)
    BY <1>1, <1>2, <1>3, <1>5, EffectBack DEF CallInv
  <1>6. CASE ~Advance(s, Failing(s)) /\ ~Return(s)
    <2>1. PICK result \in TestResults : Advance(s, SandboxResult(s, result))
      BY <1>6 DEF ReadContainer
    <2>2. PICK passed \in BOOLEAN : passed = result
      <3>1. PICK fixed : fixed = (world.inputs \in Fixes)
        OBVIOUS
      <3>2. fixed \in BOOLEAN
        BY <3>1
      <3>3. result \in {fixed, FALSE}
        BY <2>1, <3>1, Zenon DEF TestResults
      <3> QED
        BY <3>2, <3>3
    <2>3. PICK tree \in Candidates : tree = world.inputs
      <3>1. call[s].pc \in Answered /\ call[s].pc # "lay_out"
        BY <1>1 DEF Answered
      <3> QED
        BY <3>1, AnswerType DEF CallInv
    <2> DEFINE next == [At(s, "identify") EXCEPT !.tree = tree, !.passed = passed]
    <2>4. Advance(s, next)
      BY <2>1, <2>2, <2>3, Zenon DEF SandboxResult
    <2>5. call[s] \in Calls(Points4)
      BY DEF CallInv, Typed
    <2>6. /\ next \in Calls(Points4) /\ next.op = call[s].op /\ next.pc = "identify"
          /\ next.state = call[s].state /\ next.answer = call[s].answer
          /\ next.note = call[s].note
      BY <2>5 DEF At, Calls, Points4
    <2>7. next.pc \in Points4
      BY <2>6 DEF Points4
    <2> HIDE DEF next
    <2> QED
      BY <1>1, <1>2, <1>3, <2>4, <2>6, <2>7, EffectMoves, OwnPoints4 DEF CallInv
  <1> QED
    BY <1>4, <1>5, <1>6

LEMMA SandboxRecords ==
    ASSUME AttemptInv, SandboxInv, CallInv(Points4), ShapeInv, NEW s \in Sessions,
           RecordSandbox(s)
    PROVE  Moves(s, Points4)
  <1> DEFINE receipt == [patch |-> call[s].answer, tree |-> call[s].tree,
                         runner |-> "approved", passed |-> call[s].passed]
  <1>1. call[s].pc = "record_attempt"
    BY DEF RecordSandbox, Record
  <1>2. call[s].answer \in Candidates /\ call[s].tree = call[s].answer
    <2>1. call[s].pc \in Answered /\ call[s].pc \in AfterRun
      BY <1>1 DEF Answered, AfterRun
    <2> QED
      BY <2>1, AnswerType DEF CallInv
  <1>3. PICK answer \in Candidates, passed \in BOOLEAN :
           answer = call[s].answer /\ passed = call[s].passed
    BY <1>2 DEF CallInv, Typed, Calls
  <1>4. Judged(s, [tests_pass |-> call[s].passed, output_matches |-> TRUE]) = passed
    BY <1>3, JudgedByTests
  <1>5. Record(s, passed, receipt, "sandbox_result")
    BY <1>4 DEF RecordSandbox
  <1>6. receipt \in Receipts
    <2>1. receipt = [patch |-> answer, tree |-> answer, runner |-> "approved",
                     passed |-> passed]
      BY <1>2, <1>3
    <2>2. "approved" \in Runners
      BY DEF Runners
    <2> HIDE DEF receipt
    <2> QED
      BY <2>1, <2>2, Phase4Assumption
  <1>7. Inside(call[s])
    <2>1. call[s].pc \in Unrecorded /\ call[s].pc # "start_step"
      BY <1>1 DEF Unrecorded, AfterRun
    <2> QED
      BY <2>1 DEF SandboxInv, Knows, Inside
  <1> HIDE DEF receipt
  <1>8. "sandbox_result" \in Points4
    BY DEF Points4
  <1> QED
    BY <1>2, <1>5, <1>6, <1>7, <1>8, RecordMoves, OwnPoints4

\* Each of Phase 4's own steps is typed, and one of a call inside its attempt.
LEMMA PatchMoves ==
    ASSUME AttemptInv, SandboxInv, CallInv(Points4), ShapeInv, NEW s \in Sessions, Patch(s)
    PROVE  Moves(s, Points4)
  <1>1. CASE ObserveChild(s, "lay_out")
    BY <1>1, ChildObserved, OwnPoints4 DEF Points4
  <1>2. CASE LayOut(s) \/ StartContainer(s) \/ Identify(s) \/ MakeDirectory(s)
             \/ WriteArtifact(s)
    <2>1. /\ UNCHANGED <<ledger, children, crashes>>
          /\ call[s].pc \notin Holding \cup {"start_step"}
          /\ \/ Return(s)
             \/ Advance(s, Failing(s))
             \/ \E pc \in (Points4 \ {"sandbox_result"}) \cup {"record_attempt"} :
                   Advance(s, At(s, pc))
      BY <1>2 DEF LayOut, StartContainer, Identify, MakeDirectory, WriteArtifact, Raise,
         Holding, Points4
    <2>2. Standing
      <3>1. \/ world' = world
            \/ \E v : world' = [world EXCEPT !.inputs = v]
            \/ \E v : world' = [world EXCEPT !.executions = v]
            \/ \E v : world' = [world EXCEPT !.artifact = v]
        BY <1>2, Zenon DEF LayOut, StartContainer, Identify, MakeDirectory, WriteArtifact,
           Raise
      <3> QED
        BY <3>1 DEF Standing, CallInv, CreationInv
    <2>3. CASE Return(s)
      BY <2>1, <2>2, <2>3, EffectBack DEF CallInv
    <2>4. CASE Advance(s, Failing(s))
      BY <2>1, <2>2, <2>4, EffectFails DEF CallInv
    <2>5. ASSUME NEW pc \in (Points4 \ {"sandbox_result"}) \cup {"record_attempt"},
                 Advance(s, At(s, pc))
          PROVE  Moves(s, Points4)
      BY <2>1, <2>2, <2>5, EffectOn, OwnPoints4 DEF CallInv
    <2> QED
      BY <2>1, <2>3, <2>4, <2>5
  <1>3. CASE SandboxNoted(s)
    <2>1. Note(s, "sandbox_result", "candidate_ready")
      BY <1>3 DEF SandboxNoted
    <2>2. /\ "sandbox_result" \in Observations \ Verdicts
          /\ "sandbox_result" \notin Holding \cup {"start_step"}
      BY Phase4Assumption DEF Verdicts, Holding
    <2>3. Standing
      BY <2>1 DEF Note, Standing, CallInv, CreationInv
    <2> QED
      BY <2>1, <2>2, <2>3, EffectOn, OwnPoints4 DEF Note, CallInv
  <1> QED
    BY <1>1, <1>2, <1>3, ReadMoves, SandboxRecords DEF Patch

LEMMA NothingAnswered ==
    /\ LedgerPoints \cap Answered = {}
    /\ {"idle", "child_failed", "candidate_ready", "sandbox_result", "start_step",
        "read_candidates", "cancel"} \cap Answered = {}
  BY DEF LedgerPoints, AttemptPoints, Events, Answered, AfterRun

\* A step of one call that changes one part of the world, or nothing of it.
LEMMA ShapeKept ==
    ASSUME AttemptInv, SandboxInv, ShapeInv, NEW s \in Sessions, NEW next, Advance(s, next),
           next.pc \in Answered => next.answer # None,
           \/ world' = world
           \/ \E field \in {"repository", "recorded"} : \E v :
                 world' = [world EXCEPT ![field] = v]
           \/ \E v \in Candidates : world' = [world EXCEPT !.inputs = v]
           \/ \E v \in Seq(Executions) : world' = [world EXCEPT !.executions = v]
           \/ \E v \in Candidates \cup {"empty"} : world' = [world EXCEPT !.artifact = v]
    PROVE  ShapeInv'
  <1>1. \A t \in Sessions : call'[t].pc \in Answered => call'[t].answer # None
    <2>1. \A t \in Sessions : call'[t] = IF t = s THEN next ELSE call[t]
      BY DEF Advance, AttemptInv
    <2> QED
      BY <2>1 DEF ShapeInv
  <1>2. DOMAIN world = {"repository", "recorded", "runner", "upgrades", "inputs", "executions",
                        "artifact"}
    BY DEF SandboxInv, Untouched
  <1>3. /\ world'.inputs \in Candidates \cup {None} /\ world'.runner \in Runners
        /\ world'.upgrades \in 0 .. MaxUpgrades
        /\ world'.executions \in Seq(Executions)
        /\ world'.artifact \in Candidates \cup {"empty", None}
    <2> DEFINE runs == Seq(Executions)
    <2>1. world.executions \in runs
      BY DEF ShapeInv
    <2>2. \/ world' = world
          \/ \E field \in {"repository", "recorded"} : \E v :
                world' = [world EXCEPT ![field] = v]
          \/ \E v \in Candidates : world' = [world EXCEPT !.inputs = v]
          \/ \E v \in runs : world' = [world EXCEPT !.executions = v]
          \/ \E v \in Candidates \cup {"empty"} : world' = [world EXCEPT !.artifact = v]
      OBVIOUS
    <2> HIDE DEF runs
    <2>3. /\ world.inputs \in Candidates \cup {None} /\ world.runner \in Runners
          /\ world.upgrades \in 0 .. MaxUpgrades
          /\ world.artifact \in Candidates \cup {"empty", None}
      BY DEF ShapeInv
    <2>4. world'.executions \in runs
      BY <1>2, <2>1, <2>2
    <2> QED
      BY <1>2, <2>2, <2>3, <2>4 DEF runs
  <1> QED
    BY <1>1, <1>3 DEF ShapeInv, Answered, AfterRun, Executions, Runners

LEMMA ExitsKeepShape ==
    ASSUME SandboxInv, ShapeInv, NEW i \in DOMAIN world.executions, ContainerExits(i)
    PROVE  ShapeInv'
  <1> DEFINE e == [world.executions[i] EXCEPT !.exited = TRUE]
  <1>1. call' = call /\ world' = [world EXCEPT !.executions[i].exited = TRUE]
    BY DEF ContainerExits
  <1>2. /\ world'.executions = [world.executions EXCEPT ![i] = e]
        /\ world'.inputs = world.inputs /\ world'.runner = world.runner
        /\ world'.upgrades = world.upgrades /\ world'.artifact = world.artifact
    BY <1>1 DEF SandboxInv, Untouched
  <1>3. e \in Executions
    <2>1. world.executions[i] \in Executions
      BY DEF ShapeInv
    <2>2. PICK patch \in Candidates, runner \in Runners, exited \in BOOLEAN :
             world.executions[i] = [patch |-> patch, runner |-> runner, exited |-> exited]
      BY <2>1 DEF Executions
    <2>3. PICK done \in BOOLEAN : done = TRUE
      OBVIOUS
    <2>4. e = [patch |-> patch, runner |-> runner, exited |-> done]
      <3>1. e = [[patch |-> patch, runner |-> runner, exited |-> exited] EXCEPT
                    !.exited = done]
        BY <2>2, <2>3
      <3> HIDE DEF e
      <3> QED
        BY <3>1
    <2> HIDE DEF e
    <2> QED
      BY <2>4 DEF Executions
  <1> HIDE DEF e
  <1>4. world'.executions \in Seq(Executions)
    BY <1>2, <1>3, ExceptSeq DEF ShapeInv
  <1> QED
    BY <1>1, <1>2, <1>4 DEF ShapeInv, Answered, AfterRun, Executions, Runners

LEMMA PatchKeepsShape ==
    ASSUME AttemptInv, SandboxInv, CallInv(Points4), ShapeInv, NEW s \in Sessions, Patch(s)
    PROVE  ShapeInv'
  <1>1. ASSUME call[s].pc \in Answered
        PROVE  /\ call[s].answer \in Candidates /\ call[s].answer # None
               /\ call[s].pc # "lay_out" => world.inputs \in Candidates
               /\ call[s].pc \in AfterRun => call[s].tree \in Candidates
    BY <1>1, AnswerType, Phase4Assumption DEF CallInv
  <1>2. ASSUME world' = world, Return(s) \/ Advance(s, Failing(s))
        PROVE  ShapeInv'
    <2>1. PICK next \in {NoCall, Failing(s)} : Advance(s, next)
      BY <1>2 DEF Return
    <2>2. next.pc \in {"idle", "child_failed"}
      BY FailingFields DEF NoCall
    <2> QED
      BY <1>2, <2>1, <2>2, NothingAnswered, ShapeKept
  <1>3. ASSUME NEW next, Advance(s, next), next.answer = call[s].answer,
               next.pc \in Answered => call[s].pc \in Answered \/ call[s].answer # None,
               world' = world
        PROVE  ShapeInv'
    BY <1>1, <1>3, ShapeKept
  <1>4. \A pc : At(s, pc).pc = pc /\ At(s, pc).answer = call[s].answer
    BY AtFields, AtHolds
  <1>5. CASE ObserveChild(s, "lay_out")
    <2>1. /\ world' = world
          /\ \/ Advance(s, Failing(s))
             \/ Advance(s, At(s, "lay_out")) /\ call[s].answer # None
      BY <1>5 DEF ObserveChild
    <2> QED
      BY <1>2, <1>3, <1>4, <2>1
  <1>6. CASE LayOut(s)
    <2>1. call[s].pc = "lay_out" /\ call[s].pc \in Answered
      BY <1>6 DEF LayOut, Answered
    <2>2. CASE /\ world' = [world EXCEPT !.inputs = call[s].answer]
               /\ Advance(s, At(s, "execute"))
      BY <1>1, <1>4, <2>1, <2>2, ShapeKept
    <2> QED
      BY <1>2, <1>6, <2>2 DEF LayOut, Raise
  <1>7. CASE StartContainer(s)
    <2>1. call[s].pc = "execute" /\ call[s].pc \in Answered
      BY <1>7 DEF StartContainer, Answered
    <2>2. CASE Raise(s)
      BY <1>2, <2>2 DEF Raise
    <2>3. CASE ~Raise(s)
      <3> DEFINE e == [patch |-> world.inputs, runner |-> world.runner, exited |-> FALSE]
                 runs == Append(world.executions, e)
      <3>1. world' = [world EXCEPT !.executions = runs] /\ Advance(s, At(s, "await_container"))
        BY <1>7, <2>3 DEF StartContainer
      <3>2. e \in Executions
        <4>1. PICK b \in BOOLEAN : b = FALSE
          OBVIOUS
        <4>2. e = [patch |-> world.inputs, runner |-> world.runner, exited |-> b]
          BY <4>1
        <4> HIDE DEF e
        <4> QED
          BY <1>1, <2>1, <4>2 DEF Executions, ShapeInv
      <3>3. runs \in Seq(Executions)
        BY <3>2 DEF ShapeInv
      <3> HIDE DEF runs
      <3> QED
        BY <1>1, <1>4, <2>1, <3>1, <3>3, ShapeKept
    <2> QED
      BY <2>2, <2>3
  <1>8. CASE ReadContainer(s)
    <2>1. call[s].pc = "await_container" /\ call[s].pc \in Answered /\ world' = world
      BY <1>8 DEF ReadContainer, Answered
    <2>2. ASSUME NEW passed, Advance(s, SandboxResult(s, passed))
          PROVE  ShapeInv'
      <3> DEFINE next == SandboxResult(s, passed)
      <3>1. next.answer = call[s].answer
        BY DEF SandboxResult, At, AttemptInv, WellFormed, NoCall
      <3> HIDE DEF next
      <3>2. Advance(s, next)
        BY <2>2 DEF next
      <3> QED
        BY <1>3, <2>1, <3>1, <3>2
    <2> QED
      BY <1>2, <1>8, <2>1, <2>2 DEF ReadContainer
  <1>9. CASE Identify(s)
    <2>1. call[s].pc \in Answered /\ world' = world
      BY <1>9 DEF Identify, Answered, AfterRun
    <2> QED
      BY <1>2, <1>3, <1>4, <1>9, <2>1 DEF Identify
  <1>10. CASE MakeDirectory(s) \/ WriteArtifact(s)
    <2>1. call[s].pc \in Answered /\ call[s].pc \in AfterRun
      BY <1>10 DEF MakeDirectory, WriteArtifact, Answered, AfterRun
    <2>2. CASE Raise(s)
      BY <1>2, <2>2 DEF Raise
    <2>3. CASE ~Raise(s)
      <3>1. PICK artifact \in Candidates \cup {"empty"},
                 pc \in {"write_artifact", "record_attempt"} :
               world' = [world EXCEPT !.artifact = artifact] /\ Advance(s, At(s, pc))
        BY <1>1, <1>10, <2>1, <2>3 DEF MakeDirectory, WriteArtifact
      <3> QED
        BY <1>1, <1>4, <2>1, <3>1, ShapeKept
    <2> QED
      BY <2>2, <2>3
  <1>11. CASE RecordSandbox(s)
    <2>1. /\ world' = world
          /\ \/ Return(s)
             \/ \E cand, eligible :
                   Advance(s, [At(s, "sandbox_result") EXCEPT !.cand = cand,
                                                              !.eligible = eligible])
      BY <1>11, Zenon DEF RecordSandbox, Record
    <2>2. ASSUME NEW cand, NEW eligible,
                 Advance(s, [At(s, "sandbox_result") EXCEPT !.cand = cand,
                                                            !.eligible = eligible])
          PROVE  ShapeInv'
      <3> DEFINE next == [At(s, "sandbox_result") EXCEPT !.cand = cand, !.eligible = eligible]
      <3>1. next.pc = "sandbox_result" /\ next.answer = call[s].answer
        BY DEF At, AttemptInv, WellFormed, NoCall
      <3>2. Advance(s, next)
        BY <2>2
      <3> HIDE DEF next
      <3> QED
        BY <1>3, <2>1, <3>1, <3>2, NothingAnswered
    <2> QED
      BY <1>2, <2>1, <2>2
  <1>12. CASE SandboxNoted(s)
    <2>1. world' = world /\ Advance(s, At(s, "candidate_ready"))
      BY <1>12 DEF SandboxNoted, Note
    <2> QED
      BY <1>3, <1>4, <2>1, NothingAnswered
  <1> QED
    BY <1>5, <1>6, <1>7, <1>8, <1>9, <1>10, <1>11, <1>12 DEF Patch

LEMMA ShapeStep ==
    ASSUME AttemptInv, SandboxInv, CallInv(Points4), ShapeInv, [Next]_vars
    PROVE  ShapeInv'
  <1>1. CASE Upgrade
    <2>1. PICK runner \in Runners :
             /\ world' = [world EXCEPT !.runner = runner, !.upgrades = @ + 1]
             /\ world.upgrades < MaxUpgrades /\ call' = call
      BY <1>1 DEF Upgrade
    <2>2. /\ world'.runner = runner /\ world'.upgrades = world.upgrades + 1
          /\ world'.inputs = world.inputs /\ world'.executions = world.executions
          /\ world'.artifact = world.artifact
      BY <2>1 DEF SandboxInv, Untouched
    <2>3. world'.upgrades \in 0 .. MaxUpgrades
      BY <2>1, <2>2, Phase4Assumption DEF ShapeInv
    <2> QED
      BY <2>1, <2>2, <2>3 DEF ShapeInv, Answered, AfterRun, Executions, Runners
  <1>2. ASSUME UNCHANGED <<call, world>>
        PROVE  ShapeInv'
    BY <1>2 DEF ShapeInv, Answered, AfterRun, Executions, Runners
  <1>3. ASSUME NEW s \in Sessions, ProceedInLedger(s)
        PROVE  ShapeInv'
    <2>1. PICK next : Goes(s, next)
      BY <1>3, LedgerGoes DEF CallInv
    <2>2. Advance(s, next) /\ call'[s] = next
      BY <2>1 DEF Goes, Advance, AttemptInv
    <2>3. next.pc \notin Answered
      BY <1>3, <2>2, LedgerStep, NothingAnswered DEF StepOf
    <2>4. \/ world' = world
          \/ \E v : world' = [world EXCEPT !["repository"] = v]
          \/ \E v : world' = [world EXCEPT !["recorded"] = v]
      <3>1. CASE Build(s) \/ CreateRun(s)
        BY <3>1, Zenon DEF Build, CreateRun, Raise
      <3>2. CASE ~(Build(s) \/ CreateRun(s))
        BY <1>3, <3>2 DEF ProceedInLedger, Commit, Refuse, Observe, RunChild, LaunchChild,
           AwaitChild, CancelChild, ReadResult, ReadCandidates, ReadEvaluations, ReadReceipts,
           ReadEvents
      <3> QED
        BY <3>1, <3>2
    <2>5. \/ world' = world
          \/ \E field \in {"repository", "recorded"} : \E v :
                world' = [world EXCEPT ![field] = v]
      BY <2>4, Zenon
    <2> QED
      BY <2>2, <2>3, <2>5, ShapeKept
  <1>4. ASSUME NEW s \in Sessions, Work(s) \/ BeginCancel(s)
        PROVE  ShapeInv'
    <2>1. PICK op \in {"attempt", "reconcile", "cancel"},
               pc \in {"start_step", "read_candidates", "cancel"} : Begin(s, op, pc)
      BY <1>4 DEF Work, BeginAttempt, BeginReconcile, BeginCancel
    <2>2. world' = world
      BY <2>1 DEF Begin
    <2>3. PICK state, alone :
             Advance(s, [NoCall EXCEPT !.op = op, !.pc = pc, !.state = state, !.alone = alone])
      BY <2>1, Zenon DEF Begin
    <2> DEFINE next == [NoCall EXCEPT !.op = op, !.pc = pc, !.state = state, !.alone = alone]
    <2>4. next.pc = pc /\ Advance(s, next)
      BY <2>3 DEF NoCall
    <2> HIDE DEF next
    <2> QED
      BY <2>2, <2>4, NothingAnswered, ShapeKept
  <1>5. ASSUME NEW s \in Sessions, Vanish(s)
        PROVE  ShapeInv'
    <2>1. NoCall.pc = "idle" /\ Advance(s, NoCall) /\ world' = world
      BY <1>5 DEF Vanish, Return, NoCall
    <2> QED
      BY <2>1, NothingAnswered, ShapeKept
  <1>6. ASSUME UNCHANGED vars \/ \E i \in DOMAIN children : ChildEnds(i)
        PROVE  ShapeInv'
    BY <1>2, <1>6 DEF vars, ChildEnds
  <1> QED
    BY <1>1, <1>3, <1>4, <1>5, <1>6, ExitsKeepShape, PatchKeepsShape DEF Next, Proceed

Phase4Inv ==
    /\ AttemptInv
    /\ SandboxInv
    /\ CallInv(Points4)
    /\ ShapeInv

\* What the two properties of steps say of one.
Kept4 ==
    /\ [StoreNext]_ledger
    /\ \A s \in Sessions :
          /\ call[s].alone
          /\ call[s].pc \in {"interrupt", "evaluation_missing"}
          /\ call'[s] # call[s]
          /\ run' # run
          => receipts = <<>>

LEMMA Phase4Step ==
    ASSUME Phase4Inv, [Next]_vars
    PROVE  Phase4Inv' /\ Kept4
  <1> USE DEF Phase4Inv
  <1>1. AttemptInv' /\ SandboxInv' /\ ShapeInv'
    BY SandboxStep, ShapeStep
  <1>2. Paired
    BY PairedBySandbox
  <1>3. ASSUME NEW s \in Sessions, Proceed(s)
        PROVE  CallInv(Points4)' /\ Kept4
    <2>1. PICK n, next : TypedStep(s, n, Points4) /\ Goes(s, next)
      BY <1>3, LedgerTyped, LedgerGoes, PatchMoves DEF Proceed, CallInv, Moves
    <2>2. ASSUME NEW t \in Sessions, call[t].alone,
                 call[t].pc \in {"interrupt", "evaluation_missing"},
                 call'[t] # call[t], run' # run
          PROVE  receipts = <<>>
      <3>1. t = s
        BY <2>1, <2>2 DEF Goes, Advance, AttemptInv
      <3> QED
        BY <2>1, <2>2, <3>1, NothingDiscarded DEF CallInv
    <2>3. CallInv(Points4)'
      BY <1>2, <2>1, CallInvKept
    <2> QED
      BY <2>1, <2>2, <2>3 DEF Kept4, TypedStep
  <1>4. ASSUME \/ \E s \in Sessions : Work(s) \/ BeginCancel(s) \/ Vanish(s)
               \/ \E i \in DOMAIN children : ChildEnds(i)
        PROVE  CallInv(Points4)' /\ Kept4
    <2>1. UNCHANGED ledger /\ run' = run
      BY <1>4 DEF Work, BeginAttempt, BeginReconcile, BeginCancel, Begin, Vanish, ChildEnds,
         ledger
    <2>2. CallInv(Points4)'
      BY <1>4, BeginKeepsCall, VanishKeepsCall, EndKeepsCall DEF Work
    <2> QED
      BY <2>1, <2>2 DEF Kept4
  <1>5. ASSUME \/ Upgrade
               \/ \E i \in DOMAIN world.executions : ContainerExits(i)
               \/ UNCHANGED vars
        PROVE  CallInv(Points4)' /\ Kept4
    <2>1. UNCHANGED <<ledger, call, children, crashes>> /\ run' = run
      BY <1>5 DEF Upgrade, ContainerExits, vars, ledger
    <2>2. Standing
      <3>1. \/ world' = world
            \/ \E runner, upgrades :
                  world' = [world EXCEPT !.runner = runner, !.upgrades = upgrades]
            \/ \E i : world' = [world EXCEPT !.executions[i].exited = TRUE]
        BY <1>5, Zenon DEF Upgrade, ContainerExits, vars
      <3> QED
        BY <3>1 DEF Standing, CallInv, CreationInv
    <2> QED
      BY <2>1, <2>2, StillCall DEF Kept4
  <1> QED
    BY <1>1, <1>3, <1>4, <1>5 DEF Next

LEMMA Phase4Start == Init => Phase4Inv
  <1> SUFFICES ASSUME Init PROVE Phase4Inv
    OBVIOUS
  <1>1. world = Untouched
    BY DEF Init, AttemptInit
  <1>2. CallInv(Points4)
    BY InitCall DEF Init, Untouched
  <1>3. \A s \in Sessions : call[s].pc \in {"build", "idle"}
    <2>1. PICK creator \in Sessions :
            call = [s \in Sessions |->
                       IF s = creator
                       THEN [NoCall EXCEPT !.op = "create", !.pc = "build",
                                           !.note = "prepared"]
                       ELSE NoCall]
      BY DEF Init, AttemptInit
    <2> QED
      BY <2>1 DEF NoCall
  <1>4. ShapeInv
    <2>1. <<>> \in Seq(Executions)
      OBVIOUS
    <2> QED
      BY <1>1, <1>3, <2>1, Phase4Assumption
         DEF ShapeInv, Untouched, Answered, AfterRun, Runners
  <1> QED
    BY <1>2, <1>4, SandboxInit DEF Phase4Inv

\* Every row, call, child, container and artifact is of its type in every reachable
\* state: what is laid out, run and retained is a child's patch.
THEOREM Phase4Typed == Spec => []TypeOK
  <1>1. Phase4Inv => TypeOK
    BY DEF Phase4Inv, CallInv, CreationInv, ShapeInv, Executions, TypeOK, Typed, Inv, Points4
  <1>2. Phase4Inv /\ [Next]_vars => Phase4Inv'
    BY Phase4Step
  <1> QED
    BY <1>1, <1>2, Phase4Start, PTL DEF Spec

\* A child at work is the child of a call that waits for it, under Phase 4's effects too.
THEOREM Phase4ChildrenOwned == Spec => []ChildrenOwned
  <1>1. Phase4Inv => ChildrenOwned
    BY DEF Phase4Inv, CallInv, ChildInv
  <1>2. Phase4Inv /\ [Next]_vars => Phase4Inv'
    BY Phase4Step
  <1> QED
    BY <1>1, <1>2, Phase4Start, PTL DEF Spec

\* docs/PHASE4.md: "replay stored eligibility only".  A reconcile that began with no
\* call inside the attempt never interrupts a run that has a receipt.
THEOREM Phase4ReceiptNotDiscarded == Spec => ReceiptNotDiscarded
  <1>1. Phase4Inv /\ [Next]_vars
           => \A s \in Sessions :
                 /\ call[s].alone
                 /\ call[s].pc \in {"interrupt", "evaluation_missing"}
                 /\ call'[s] # call[s]
                 /\ run' # run
                 => receipts = <<>>
    BY Phase4Step DEF Kept4
  <1>2. Phase4Inv /\ [Next]_vars => Phase4Inv'
    BY Phase4Step
  <1> QED
    BY <1>1, <1>2, Phase4Start, PTL DEF Spec, ReceiptNotDiscarded

\* Phase 4 uses the store by its operations alone: what RunStore promises of the ledger
\* holds under Phase 4's calls, crashes and changes of the plugin's files.
THEOREM Phase4ImplementsStore == Spec => StoreSpec
  <1>1. Init => StoreInit
    BY DEF Init, AttemptInit
  <1>2. Phase4Inv /\ [Next]_vars => [StoreNext]_ledger
    BY Phase4Step DEF Kept4
  <1>3. Phase4Inv /\ [Next]_vars => Phase4Inv'
    BY Phase4Step
  <1> QED
    BY <1>1, <1>2, <1>3, Phase4Start, PTL DEF Spec, StoreSpec

\* And so, through the store, the run Phase 4's calls, crashes and edited files meet is a run of the
\* state machine.
THEOREM Phase4ImplementsLifecycle == Spec => LifecycleSpec
  BY Phase4ImplementsStore, StoreImplementsLifecycle, PTL
=============================================================================
