# Agentic Variation in TLA+

This directory specifies the run ledger and the bounded controllers of the Agentic
Variation plugin: what a *run* may do, what the SQLite ledger guarantees about it, and
what the controllers of Phases 1 to 4 make of that when several sessions call them,
children fail, and calls die half-way. TLC checks the modules on small instances, TLAPS
proves the theorems for every value of the constants.

## 1. The system

A Hermes agent calls the plugin's tools. A tool call runs one controller method to its
end; nothing runs in the background. All state that survives a call is in one SQLite
database (all phases share `phase1.db`) and, for Phases 3 and 4, in a repository or an
artifact directory named after the run. Several sessions may call at the same time,
and a call may die anywhere.

| Component | State it keeps | Operations | What makes it hard | What makes it correct |
|---|---|---|---|---|
| State machine (`state_machine.py`) | none; `RunState` is a value | `apply_transition`, 15 events | the order of budget, stagnation and outcome checks; pause/resume | budgets hold, stagnation cannot be shaken off, outcomes are honest, terminal is final |
| Contracts (`contracts.py`) | none; frozen records with a SHA-256 identity | validation in `__post_init__` | validation that raises *after* a child ran | the bounds of a RunSpec |
| Run store (`storage.py`) | runs, events, candidates, evaluations, advice, receipts, memory | `create_run`, `transition`, the `record_*`, `save_memory`, reads | transitions compare revisions, evidence does not; `lineage` is two statements | the journal is the run; what is durable is applied |
| Evaluator (`evaluator.py`) | none | `evaluate` | several scores, strict improvement | eligible exactly when correct and not worse |
| Phase 1 controller (`controller.py`) | none of its own | `create_run`, `step`, `cancel`, `status`, `lineage` | a child between two transactions | one child per paid step |
| Phase 2 controller (`phase2.py`) | none of its own; writes the memory | the above, `reconcile`, `supervise`, `memory` | reads before writes, replay after crashes, refresh after commit | attempts counted once, decided by their own evidence; one supervision |
| Phase 3 controller and workspace (`phase3.py`, `phase3_workspace.py`) | a repository per run | `create_run`, `mutate`, `reconcile`, `cancel`, `receipt` | effects outside the ledger | effects once and on record, receipts truthful |
| Phase 4 controller, sandbox, patch, runner (`phase4*.py`) | inputs and artifact directories | `create_run`, `patch`, `reconcile`, `cancel`, `receipt` | a container, and a runner that may change | the approved runner ran once; the artifact is the receipt's |
| Lifecycle adapter (`runtime.py`) | handles inside the host | `run` = launch, wait, cancel or result | timeout against a late answer; a raise leaves a child | an outcome, or an exception, within `wait_seconds` |
| Tools and registration (`tools.py`, `__init__.py`, `schemas.py`) | lazily built controllers | routing by run id prefix, JSON envelopes | a tool of one phase on a run of another; gates read once | a run is brought to its end by the tools its id lets through |
| Desktop plugin (`desktop/plugin.js`) | planning defaults in local storage | a form | nothing here | nothing of it reaches a run |

How they interact: tools call a controller; a controller calls the store (synchronously,
one transaction per call), the lifecycle adapter (a child, up to `wait_seconds`), the
evaluator (pure), and in Phases 3 and 4 the workspace or the sandbox (effects). The
store calls the state machine inside its write transaction. Controllers never call one
another; they meet only in the database and in the directories of a run.

## 2. The modules

```
StateMachine        operators: what an event does to a RunState
 |- RunLifecycle    abstract: one run under any events          <- MCRunLifecycle
 '- RunStore        the ledger; refines RunLifecycle            <- MCRunStore
     |- Phase2          sessions on one run; refines RunStore   <- MCPhase2
     |   '- Phase1          a Phase 1 run behind the tools      <- MCPhase1
     '- SingleAttempt   what Phases 3 and 4 share, with the child
         |- Phase3          with the repository                 <- MCPhase3
         '- Phase4          with the sandbox and the artifact   <- MCPhase4
Evaluator           operators: what is eligible (used by Phase2 and SingleAttempt)
Patch               a hunk applied line by line                 <- MCPatch
StateMachine_proofs, RunLifecycle_proofs, RunStore_proofs, Phase2_proofs,
SingleAttempt_proofs, Phase3_proofs, Phase4_proofs, Patch_proofs
```

`Phase2_proofs` is about Phase1 as well, whose steps are Phase2's but for the tools and the
restart, and holds the two theorems on the operators of Evaluator; what Phases 3 and 4 have
in common is proved once, in `SingleAttempt_proofs`, for any effects.

**StateMachine** is `apply_transition`. `Accepts` is every way it raises, `Apply` the
state it returns. The immutable RunSpec is the constants. A cost is an integer and
`CostCeiling` stands for the largest finite float: a charge or a sum above it is what
`apply_transition` and `_next_after_attempt` refuse (`state_machine.py:114` and `:74`).

**RunLifecycle** is one run under every event with every argument. It is the abstract
specification of the ledger and the controllers.

**RunStore** is the ledger of one run. Each writing method is one SQLite transaction and
one step; a read is a step of the caller. Tables are sequences in insertion order. A row
of `run_events` carries the state itself where the code stores its revision and hash,
and `moves` says whether its payload is a transition's. `StoreNext` lets callers make any
call the store offers, in any order, with any cost, at any revision up to the run's, so
what it satisfies no controller can break.

**Phase2** adds sessions. `call[s]` is the call session `s` is in: the `RunState` it
holds and the point it has reached, named after the transition, read, write or child it
is about to make. Every store call and every child of `create_run`, `step`, `reconcile`,
`supervise`, `cancel` and `_refresh_memory` is one step. A child raises, fails, answers
with an unusable `result_hash`, or answers with a score (`RunChild`). `Vanish` drops a
call at any point. `Conflict` and `Refuse` are the exceptions of the store: the call is
over and what it committed stays. The candidate of attempt `n` is `n`, as its
`candidate_id` ends in `n`; scores, advice and observations are small sets. `memo` and
`memory` keep the fields of `ContinuationMemory` that can be stale: its revision, the
run's revision and status, the best candidate, and whether it names advice.

**Phase1** is the same calls on a run of Phase 1, which has one step and no memory, with
the tools in front of them. The plugin routes by the prefix of the run id: `avo_step` and
`avo_cancel` reach `Phase1Controller`, but `avo_reconcile` turns away only runs of
Phases 3 and 4 and sends a Phase 1 run to `Phase2Controller`, behind the gate of Phase 2
(`__init__.py:184-201`). `gates` is the configuration `register` read, once; `Restart`
ends every call and registers anew. `call[s].op` tells the calls of Phase 1, which do not
refresh a memory (`Phase1Ops`), from those of Phase 2.

**Evaluator** is `FixtureEvaluator.evaluate`: any set of predicates and score keys,
either comparison, strict or not. Phase2 and SingleAttempt decide by `Eligible`, each
under the RunSpec its `create_run` writes (`Fixture`, `Judged`).

**SingleAttempt** is what `phase3.py` and `phase4.py` have line for line in common: the
baseline repository and the row that is created only when it is complete (`Build`,
`CreateRun`), one paid step, the child, evidence with a receipt, a `reconcile` that reads
lineage, receipts and events. The child is the lifecycle adapter's, call by call:
`LaunchChild`, `AwaitChild`, `CancelChild`, `ReadResult`. `ChildEnds` is the host: a child
ends when it likes, before the wait is over, between the timeout and `cancel`, or when
nobody asks any more. `wait`, `cancel` and `result` may raise; then the handle is gone
and the child is `lost`. `call[s].alone` is the one thing in a call that the code does
not have: it remembers whether a reconcile began when no call was inside the attempt, for
`ReceiptNotDiscarded` to speak of.

**Phase3** adds `world`: what `calculator.py` holds, the temporary file of
`_write_trusted`, how often the source was replaced and the tests ran. **Phase4** adds
the runner the plugin's files hold (`Upgrade` may replace it), the patch laid out, the
containers Docker was made to run and whether each has come to its end (`ContainerExits`,
which a timeout does not bring about), and the artifact. Each effect is a step that may
raise.

**Patch** is `ValidatedPatch.parse` as far as the header's numbers go, and `apply`, one
line of the body a step. A line of text is a model value; that `parse` refuses a body line
which begins like a file header (`phase4_patch.py:72-73`), and a patch that is too large, is
left out, so "if it fits" is of the bodies it takes. `AppliesHunk` compares it with
what applying a unified diff means, stated without an index.

## 3. What is checked

All runs finish well within five minutes on two workers. `CHECK_DEADLOCK FALSE` is in
every configuration because a run ends: in a terminal status with all calls returned,
no step is left, and that is intended.

| Run | Instance | Question |
|---|---|---|
| `lifecycle` | 4 steps, limit 2, costs 0-2 and 4 against a bound and a ceiling of 3, so that a sum and a charge are refused | budgets, stagnation, outcome, best candidate, for every event sequence |
| `store` | 6 journal rows, 7 rows of journal and evidence, 1 memory revision, costs 0-1 | journal replay, refinement of RunLifecycle, without any protocol |
| `phase2_race` | 2 sessions, 2 steps, 2 advices, no crash, reconcile any time | counting of attempts and children; freshness of memory; optimistic concurrency |
| `phase2_recovery` | 2 sessions, 2 steps, 3 scores, 2 crashes, reconcile only when no attempt is alive | evidence decides its own attempt, is never lost and never applied twice; the second of two promotions improves on the first |
| `phase2_sequence` | 1 session, 3 steps (the code's number), 2 crashes, fairness | memory follows the run and is what a supervisor is shown; the run ends; the steps are the store's |
| `phase1` | 2 sessions, 3 crashes or restarts, any gates, reconcile any time, fairness | a cut-off attempt ends once Phase 2's gate stays open, the run once both do; every call returns under races; the attempt is started once and ended once, whichever controller ends it |
| `phase2_orphan` | as `phase2_race` | *violation*: evidence of a dead attempt decides the next |
| `phase2_torn` | as `phase2_race` | *violation*: a torn `lineage()` promotes an ineligible candidate |
| `phase2_wall` | 1 session, 3 steps | *violation*: the wall bound is not enforced |
| `phase3` | 2 sessions, 2 crashes, fairness, reconcile any time | effects once, on record, no child left to itself, receipts truthful and not lost; the run ends |
| `phase4` | the same, and one change of the runner's files | containers once, receipts truthful, the artifact retained; the run ends |
| `patch` | 2 lines, baselines of 1-3, headers 0-4, bodies of 1-3 | a patch is applied if and only if it fits, and changes nothing outside its hunk |

*Bounds.* Attempts bound a run, so sessions call as often as they like and only crashes
(`MaxCrashes`), and in the MC modules of the first two machines revisions or rows, are
capped. Two sessions are the smallest number that races; every race in this code is
between a caller and the one that moved the revision, or recorded evidence, under it,
and the losers do not interact. Two steps give evidence of one attempt a next attempt to
interfere with; three are needed for a second supervision to be asked for. Two crashes
let a recovery die as well. `lifecycle` goes to revision 16, past its fourth step with
pauses and a supervision between attempts. Scores are such that one beats the baseline,
one equals it and (in `phase2_recovery` and `phase2_sequence`) one lies between, so that a
promotion may follow a promotion. Costs are zero in the controllers, which never charge
any; `lifecycle` and `store` have others, the latter where a cost counts, with the end of an
attempt. `Interchangeable` is a
symmetry of the sessions, used where no liveness is checked. `MaxUpgrades` is 1: section
4 says what a second change does. In `patch`, headers count from 0 to one more than the
longest baseline, so every way to be off by one is there, at either end; three body lines
are a removal, an addition and a line of context in any order.

*Fairness.* `Proceed(s)` is weakly fair: a call that has begun is Python code that runs
on, and its only wait, for a child, ends after `wait_seconds`. `Work(s)` is weakly fair:
someone keeps calling `step` (`mutate`, `patch`), `supervise` or `reconcile` on a run that is not finished
(the README of the plugin makes that the operator's part; nothing in the plugin calls
by itself). `cancel`, a crash, an upgrade, the end of a
child and of a container are not fair: a call's waits are bounded by itself. `RunFinishes` then says that
no crash, race or failure leads a run where no call can move it on. It starts from
`ready`: a run whose creation died before `approve` has no tool that would approve it.
In `phase1` the gates are the operator's: `AttemptFinishes` and `RunFinishesGated` assume
that they end up open, and say which.

*Reconcile and live attempts.* docs/PHASE2.md gives a process-local child handle no
authority, so `reconcile` cannot know whether the attempt it finds `running` is alive.
The constant `Overlap` of Phase2 says whether it may be. Counting and concurrency hold
either way (`phase2_race`); the properties about evidence hold only if it is dead
(`phase2_recovery`), and the violation runs show what goes wrong otherwise. Phases 1, 3
and 4 allow one attempt, so what is checked and proved of them holds with `reconcile` at any
time; only `ReceiptNotDiscarded` is stated for a reconcile that began with no call in the
attempt (section 4 has the other case), and `EvidenceAccounted` is not claimed of Phase 1.

## 4. Where code and documentation disagree

The runs show three of them.

1. `phase2_orphan`. `reconcile` interrupts attempt 1 while its step is alive; the step
   then records its candidate and evaluation (`record_attempt` does not look at the
   revision) and fails its transition. When attempt 2 is reconciled, there are more
   evaluations than verdicts (`phase2.py:154`), and attempt 1's is applied to it, where
   docs/PHASE2.md:117 wants evidence *for the current attempt*.
2. `phase2_torn`. `lineage()` (`storage.py:484`) reads candidates, then evaluations. An
   attempt recorded in between gives `reconcile` the last candidate of the old list and
   the last evaluation of the new one.
3. `phase2_wall`. `max_wall_seconds` is `3 * wait_seconds` and nothing reads it; three
   attempts and a supervision may wait four times.

Others were met while modelling and have no run of their own:

- An eligible evaluation on the last step leads to `succeeded` (`state_machine.py:81`);
  docs/PHASE0.md:24 draws `ready | budget_exhausted`.
- What a live call records between `reconcile`'s reads and its transition does not move the
  revision, so the transition goes through and the record is discarded. With
  `Overlap = TRUE`, `EvidenceAccounted` (of Phase 1 too) and `AdviceNotDiscarded` fail:
  `phase2.py:122` reads no advice, the supervision records it, and `reconcile` fails the
  supervision (docs/PHASE2.md:118 and :131). `ReceiptNotDiscarded` without `alone` fails the
  same way at `phase3.py:293`, where docs/PHASE3.md:117 has a complete receipt replayed, and
  in Phase 4. No passing property speaks of these races.
- With two sessions `MemoryFreshAtRest` fails: the memory's compare-and-swap compares
  memory revisions only, so a slow caller that loaded the run early and the memory late
  saves an older state; `phase2_sequence` checks it for one session. The memory is then
  stale and says so (`FreshMemoryTrue` holds in every race).
- `reconcile` applies `interrupt` and then appends its evidence; docs/PHASE2.md:117 has
  the other order. A crash in between loses the evidence.
- Phase 3's `create_run` approves before it records `repo_created` (`phase3.py:112`),
  and `mutate` does not look for it: after a crash in between, the child is launched
  before `repo_created` is on record (docs/PHASE3.md:112).
- docs/PHASE1.md:11 calls its own gate the only one; a Phase 1 step that was cut off can
  be ended only by `avo_reconcile`, which is behind the gate of Phase 2. With that gate
  closed the run stays `running` (`AttemptFinishes` names the gate for this reason).
- Two sessions falsify `EvidenceCurrent`: `supervise` may be called between the
  transition that asks for it and the refresh of the memory it takes as evidence.
- Phase 4 hashes the runner's files when the container is done (`phase4_sandbox.py:245`).
  Files replaced for the run and put back before it ends are not noticed: with
  `MaxUpgrades = 2`, `ReceiptTruthful` of Phase4 fails. No document promises otherwise.
- `ValidatedPatch` refuses a header that counts or starts from 0 with "patch must modify
  existing lines"; a body of context lines alone passes and modifies none.

## 5. What is proved

| Theorem | Module | Statement |
|---|---|---|
| `LifecycleTyped`, `LifecycleBudget`, `LifecycleOutcome`, `LifecycleStagnation`, `LifecycleBestKept` | RunLifecycle_proofs | the properties of `lifecycle` |
| `StoreTyped`, `StoreJournal` | RunStore_proofs | the invariants of `store` |
| `StoreImplementsLifecycle` | RunStore_proofs | `StoreSpec => LifecycleSpec` |
| `Phase2Typed`, `Phase2AttemptsCounted`, `Phase2LaunchBudget`, `Phase2FreshMemoryTrue`, `Phase2CommitsWhatItSaw` | Phase2_proofs | the properties of `phase2_race` |
| `Phase2EvidenceAccounted`, `Phase2PromotesThisAttempt`, `Phase2BestIsEligible`, `Phase2BestImproves`, `Phase2AdviceNotDiscarded` | Phase2_proofs | the properties of `phase2_recovery`, if `Overlap = FALSE` |
| `Phase2MemoryFreshAtRest`, `Phase2EvidenceCurrent` | Phase2_proofs | the invariants of `phase2_sequence`, for one session |
| `Phase1Typed`, `Phase1LaunchBudget`, `Phase1AttemptsCounted`, `Phase1CommitsWhatItSaw`, `Phase1FreshMemoryTrue`, `Phase1BestIsEligible`, `Phase1PromotesThisAttempt` | Phase2_proofs | for a run of Phase 1 behind its tools, what the runs of Phase 2 check; no hypothesis on `Overlap` |
| `Phase1ImplementsStore`, `Phase2ImplementsStore`, `Phase3ImplementsStore`, `Phase4ImplementsStore` | Phase2_proofs, Phase3_proofs, Phase4_proofs | `Spec => StoreSteps`, or `StoreSpec`: the controllers' steps are the store's |
| `Phase1ImplementsLifecycle` to `Phase4ImplementsLifecycle` | Phase2_proofs, Phase3_proofs, Phase4_proofs | `Spec => LifecycleSpec`: the run a controller drives is one of the state machine |
| `Phase3Typed`, `Phase3EffectsOnce`, `Phase3EffectsOnRecord`, `Phase3ReceiptTruthful`, `Phase3ChildrenOwned`, `Phase3ReceiptNotDiscarded` | Phase3_proofs | the safety properties of `phase3` |
| `Phase4Typed`, `Phase4EffectsOnce`, `Phase4ArtifactRetained` | Phase4_proofs | invariants of `phase4` |
| `Phase4ReceiptTruthful` | Phase4_proofs | `Spec => []ReceiptTruthful`, if `MaxUpgrades <= 1` |
| `Phase4ChildrenOwned`, `Phase4ReceiptNotDiscarded` | Phase4_proofs | the properties of SingleAttempt that `phase3` checks, for Phase 4 |
| `PatchAppliesHunk`, `PatchIsLocal` | Patch_proofs | the invariants of `patch`, for texts of any length |
| `EligibleTransitive`, `EligibleAsymmetric` | Phase2_proofs | `Eligible` as a relation on outcomes |

Through the refinements, what is proved of StoreSpec and of LifecycleSpec holds under every
phase.

Assumptions: `SpecAssumption` (the bounds `RunSpec.__post_init__` demands),
`InputAssumption` and `StoreAssumption` (candidates are not `None`, costs and scores are
naturals), `Phase2Assumption` (a cost bound above zero, as `create_run` asks for, and
attempts whose numbers are candidates), `SingleAttemptAssumption`, `Phase3Assumption` and
`Phase4Assumption` (the one step the `create_run` of Phases 3 and 4 asks for, two
mutations, patches that are candidates), `PatchAssumption` (texts are sequences of lines,
a header's numbers are naturals). Nothing is assumed of the number of sessions, crashes,
steps of a Phase 2 run, candidates or rows. That a run of Phase 1 has one step is a conjunct
of `Phase1Init` (`OneStep`), not an assumption, as Phase2 would inherit that.

Three hypotheses are no assumptions on constants but part of the statements, because the
statement is false without them. `Overlap = FALSE`: `reconcile` cannot know whether the
attempt it finds is alive, and if it is, `phase2_orphan` and `phase2_torn` show evidence
that decides the wrong attempt; the theorems say that this is the only way. `MaxUpgrades
<= 1`: a second change of the runner's files can put the approved ones back (section 4).
`Alone`, one session: with two the memory falls behind and `supervise` may come before the
refresh (section 4).

*State machine.* `StateMachine_proofs` has lemmas on `Apply`: its type, and what moves
and ends of attempts do to each field.

*Lifecycle.* The budget is inductive only together with "a run that is ready or active
has budget left"; stagnation together with the status a paused run returns to, which is
why `EffectiveStatus` is in the property itself. Then `best` changes only by
`evaluation_eligible`, which `Accepts` takes only with a candidate.

*Store.* The invariant is type correctness and `JournalReplays`: a transition appends
the row it computed from the state the last row records, an observation repeats it.
`JournalReplays` is its own strengthening, because its last conjunct ties the run to the
journal's end. The refinement is by operation: `Transition` is a step of RunLifecycle
with the same cost, everything else leaves `run` alone and is a stutter.

*Phase 2, its steps.* Some thirty actions would have to be taken through every invariant
again. `StepOutcome` takes them once: every step is a `Commit` or leads a call to a
`next` with an `Outcome`, which says what the step may have written (`Writes`), launched
(`Launches`) and learned. All invariants below are shown for `Commit` and `Outcome`.
`CarriesInv` is the types together with what a point needs of its call, such as a score
in the call that is about to record it; with the store's invariant, `BudgetInv` (a run
that has not ended has budget left) and `DatesInv` (a memory in the making tells of a state
the run has been in) it is `CoreInv`, which gives `TypeOK` and the refinement.

*Phase 2, optimistic concurrency.* The store compares revisions, not states. That this
protects the state takes `SeenInv`: the state a call holds is no newer than the run, and
equals it if it is as new. A commit moves the revision on, so every other call's state
becomes older; every other step leaves the run, and the call keeps its state, drops it
(then it holds `NewRun`, which is the run only if the revision is 0), or loads the run.

*Phase 2, counting.* `AttemptsCounted` is its own invariant on top of `CoreInv`: a
transition adds a start and makes the run active, or adds an end. `LaunchInv` counts the
calls that stand before their child among the children, so that a launch moves one from
the one to the other; only the transition that pays puts a call there. `SupervisionInv`
has the second half of `LaunchBudget`: after `start_supervisor` the run is supervising,
over, or has its advice, and a call that found no advice and still holds the run's
revision found no supervision either. `MemoryInv` says of the memory, and of every memory
in the making, that it is older than the run or agrees with it; `advised` follows because
the advice is read last.

*Phase 2, evidence.* Without overlap, `RecoveryInv` adds three parts to `CoreInv` and
`SeenInv`. `EvidenceInv`: evaluations are of ascending attempts, none later than the
current one, and eligible ones improve. `PromotionInv`: the verdicts in the journal are
those of their evaluations. `AttemptInv`: one call at most is inside the attempt, then no
call that judges it is current, and a call whose revision is the run's knows the evidence
as it is. The last is where the hypothesis is used: evidence does not move the revision,
so only the absence of a live attempt keeps what `reconcile` read true until it commits.
`Applied`, the verdicts in the journal, are as many as the evaluations up to the attempt
before, which is what makes the surplus test of `phase2.py:154` right. `DiscardInv` is
the same for a supervision and its advice.

*Phase 2, the memory of a single session.* `FreshInv` follows the one call: before its first
transition the memory is the run's, unless an attempt hangs; inside an attempt the run is
at work, inside a supervision it is supervising and the call holds its revision, so that the
transition which ends either is accepted; behind that it is on its way through the refresh,
whose memory has the run's revision. A call that raises does so at its opening or inside
an attempt, never between a transition and the refresh. With a crash it may, which is why
`FreshInv` speaks of none.

*Phase 1.* A step behind the tools is a step of some call of Phase2 (`Phase1Called`), for
which `CallKeeps` has been shown, or `Restart`, which empties every call: it takes children
that stand before their launch out of `LaunchInv`, and each other layer is about calls that
are no more. So `Phase2Inv` holds of Phase 1 as it is, gates and restarts included. What
Phase 2 can promise of its evidence only without overlap, Phase 1 has without it, because
one step leaves one candidate to mix up. `SoleInv` says so: every candidate and evaluation
on record is of the one attempt; a call has that candidate before it gives a verdict; and an
eligibility it holds is on record, unless it is about to record it. The reads of a torn
`lineage()` then cannot disagree, whichever controller makes them.

*Phases 3 and 4, the attempt.* `AttemptInv` (SingleAttempt_proofs): one call at most is
inside the attempt, none while the run is `created` or `ready`, and then there is no child
either; a call about to launch finds no child. Only `start_step` leads inside, the store
takes it from a ready run alone, and with one step to pay for no later transition makes
the run ready again (`NeverReadyAgain`). The module then shows, for every step that does
not depend on the effects, and for effects that only move their call from one point to
another, four more layers: `Typed`, the types with the points of the phase as parameter;
`CreationInv`, one call makes the repository and the run comes after it; `WeighInv`, what a
reconcile that began alone has read stays true until it commits; `ChildInv`, the handle is
in the call inside the attempt, and its answer is that of a child that came to its end.
`CallInv` joins them. `ChildrenOwned` and `ReceiptNotDiscarded` follow for both phases.

*Phase 3.* `EffectInv` follows the call through the effects: at a point from which the
write, or the tests, are still to come, nothing has been written, or tested. `TruthInv`
adds what the call inside the attempt has learned: after the write the source is its
answer, after the hash its tree is the source, after the tests a pass means the right
source. Because it is the only one inside, nobody changes the source under it. A receipt
is recorded only from there, with the evaluation computed from the same fields, and with
a receipt on record no call comes to the write. `EvidenceInv` has each effect behind its
record, as the call goes.

*Phase 4.* `SandboxInv`: at most one container, receipt and evaluation on record bear
each other and the container out, and a call inside the attempt knows the container as it
is. A timeout leaves the container running but ends the call's business with it, so a
container that exits late changes nothing a receipt names. `RunnerInv` has the runner: as
long as the hash is still to be taken, the files are the approved ones or a change is on
record, and after it the container ran the approved ones; this is where the number of
changes comes in.

*Patch.* `PatchInv` counts: what was taken is `seen.old` lines from the hunk's start, what
was put out is as much longer than that as `seen.new` says, and agrees with the baseline
before the hunk. Then the header's counts, once they hold, place the rest. That is enough for
`ChangesOnlyTheHunk`.

`AppliesHunk` compares with `Old` and `New`, the lines of the body of one kind or the other,
which `Text` takes from the body by recursion. What a recursive function is for every body
would take an induction over the body, which is out of reach; but the body is a variable of
the machine, and grows by a line with each step. So the induction is over the steps
(`TextInv`): for the body read so far there is a function that satisfies the recursion, and
only one. With the next line, that function takes one more value (`TextGrows`), which the
equation fixes. By the same steps `Old` is what was taken of the baseline and the output is
the lines before the hunk followed by `New` (`LoopText`); a line that does not match shows a
baseline that `Old` does not fit, whatever the rest of the body may be.

*Evaluator.* Eligible outcomes compare by every key; for integer scores the comparison is
transitive, and strictly so if some step is strict. A chain of promotions, such as the
three attempts of a Phase 2 run, is therefore one improvement over the baseline, and no
two outcomes beat each other.

Only model-checked: all liveness, that is `RunFinishes`, `RunFinishesGated`,
`AttemptFinishes` and `CallsReturn`. It needs fairness and ENABLED, which the prover does
not do. Every invariant and every action property of a passing run is a theorem.

## 6. What is not modelled

- Text: validation of strings, digests and paths, canonical JSON, hashing, the layout of
  tool results, how a patch is split into lines. Equal content has equal identity and
  different content different identity.
- The SQLite schema, its migrations and its errors; the store's transactions are taken
  to be atomic and durable, as `BEGIN IMMEDIATE` makes them.
- git, Docker and file-system detail: each call is an effect that happens, or raises.
- More than one run: no operation reads another run's rows.
- The contents of memory beyond what can be stale: `stagnation_evidence_hash` is the memory
  the supervision took, as `EvidenceCurrent` sees it.
- What the host's subagent service and the Docker daemon do beyond a child and a container
  that end at any time. Phase2's children are one step each; only SingleAttempt has the
  handle, as the adapter is the same code for all.
- Schemas and envelopes; the gates of Phases 2 to 4 on their own runs; the desktop plugin;
  Phase 5, which is a document.

## 7. Plan

Done, in the order of importance: StateMachine and RunLifecycle, RunStore, Phase2,
SingleAttempt with Phase3 and Phase4, then the child and the container, the creation of
a repository, Phase1 with routing and gates, Evaluator, Patch, and the proofs above.

What is left is outside the reach of these tools (liveness for any number of sessions) or
of this model (section 6).
