------------------------- MODULE SingleAttempt_proofs -------------------------
(***************************************************************************)
(* Why an attempt happens at most once, for any number of sessions and     *)
(* crashes: one call at most is ever inside the attempt.  Only start_step  *)
(* leads into it, the store takes start_step from a ready run alone, and   *)
(* with one step to pay for a run that was started is never ready again.   *)
(*                                                                         *)
(* Nothing here depends on the effects; Phase3_proofs adds Phase 3's.      *)
(***************************************************************************)
EXTENDS SingleAttempt, RunStore_proofs

\* What Attempting says of a call, whether or not a session is in it.
Inside(c) == c.op = "attempt" /\ c.pc # "start_step"

\* The points from start_step's commit to the child's observation.
Launching == {"run_child", "await_child", "cancel_child", "read_result", "child_result"}

\* Only a call of mutate or patch comes to start_step and to the child, and no call
\* commits an event that could make a run ready again.
WellFormed(c) ==
    /\ DOMAIN c = DOMAIN NoCall
    /\ c.pc \in {"start_step"} \cup Launching => c.op = "attempt"
    /\ c.pc \notin {"resume", "supervisor_applied"}

\* Before a run is started nothing has been done; afterwards one call may go on.
AttemptInv ==
    /\ run \in RunStates({run.best})
    /\ call = [s \in Sessions |-> call[s]]
    /\ \A s \in Sessions : WellFormed(call[s])
    /\ \A s, t \in Sessions : Inside(call[s]) /\ Inside(call[t]) => s = t
    /\ run.status \in {"created", "ready"} =>
           children = <<>> /\ \A s \in Sessions : ~Inside(call[s])
    /\ \A s \in Sessions : call[s].pc = "run_child" => children = <<>>
    /\ children \in Seq(ChildStates)
    /\ Len(children) <= 1

\* With one step to pay for, what follows the approval leads away from ready for good.
LEMMA NeverReadyAgain ==
    ASSUME NEW Digests, NEW s \in RunStates(Digests), NEW cand \in Digests \cup {None},
           NEW event \in Events, event \notin {"approve", "resume", "supervisor_applied"},
           Accepts(s, event, cand, 0)
    PROVE  Apply(s, event, cand, 0).status \notin {"created", "ready"}
  <1>1. CASE event \in AttemptEnd
    <2> DEFINE t == Apply(s, event, cand, 0)
    <2>1. /\ t.steps_used = s.steps_used + 1
          /\ t.status \in {StatusAfterAttempt("succeeded", t.steps_used, t.no_progress, t.cost),
                           StatusAfterAttempt("budget_exhausted", t.steps_used,
                                              t.no_progress, t.cost)}
      BY <1>1, AttemptFields
    <2>2. s.steps_used \in Nat
      BY DEF RunStates
    <2> HIDE DEF t
    <2>3. Spent(t.steps_used, t.cost)
      BY <2>1, <2>2, SingleAttemptAssumption DEF Spent
    <2>4. t.status \in {"succeeded", "budget_exhausted"}
      BY <2>1, <2>3 DEF StatusAfterAttempt
    <2> QED
      BY <2>4 DEF t
  <1>2. CASE event \notin AttemptEnd
    <2>1. event \in {"start_step", "candidate_ready", "start_supervisor", "pause", "cancel",
                     "supervisor_failed", "complete"}
      BY <1>2 DEF Events, AttemptEnd, Unproductive
    <2> QED
      BY <1>2, <2>1, MoveStatus DEF Conclusion
  <1> QED
    BY <1>1, <1>2

LEMMA NoCallWellFormed == WellFormed(NoCall) /\ ~Inside(NoCall)
  BY DEF WellFormed, Inside, NoCall, Launching

\* A step of one call that leaves the run alone; children change only inside the attempt.
LEMMA QuietStep ==
    ASSUME AttemptInv, NEW s \in Sessions, NEW next, Advance(s, next), run' = run,
           WellFormed(next), Inside(next) => Inside(call[s]),
           children' = children \/ Inside(call[s]),
           children' \in Seq(ChildStates), Len(children') <= 1,
           next.pc = "run_child" => children' = <<>>
    PROVE  AttemptInv'
  <1>1. \A t \in Sessions : call'[t] = IF t = s THEN next ELSE call[t]
    BY DEF Advance, AttemptInv
  <1>2. call' = [t \in Sessions |-> call'[t]]
    BY <1>1 DEF Advance, AttemptInv
  <1>3. \A t \in Sessions : WellFormed(call'[t])
    BY <1>1 DEF AttemptInv
  <1>4. \A t \in Sessions : Inside(call'[t]) => Inside(call[t])
    BY <1>1
  <1>5. \A t, u \in Sessions : Inside(call'[t]) /\ Inside(call'[u]) => t = u
    BY <1>4 DEF AttemptInv
  <1>6. run'.status \in {"created", "ready"} =>
            children' = <<>> /\ \A t \in Sessions : ~Inside(call'[t])
    BY <1>4 DEF AttemptInv
  <1>7. ASSUME NEW t \in Sessions, call'[t].pc = "run_child"
        PROVE  children' = <<>>
    <2>1. CASE t = s
      BY <1>1, <1>7, <2>1
    <2>2. CASE t # s
      <3>1. call[t].pc = "run_child" /\ Inside(call[t])
        BY <1>1, <1>7, <2>2 DEF AttemptInv, WellFormed, Inside, Launching
      <3>2. children' = children
        BY <2>2, <3>1 DEF AttemptInv
      <3> QED
        BY <3>1, <3>2 DEF AttemptInv
    <2> QED
      BY <2>1, <2>2
  <1>8. \A t \in Sessions : WellFormed(call[t])' /\ (Inside(call[t])' <=> Inside(call'[t]))
    BY <1>3 DEF WellFormed, Inside, NoCall, NewRun, Launching
  <1> QED
    BY <1>2, <1>5, <1>6, <1>7, <1>8 DEF AttemptInv

LEMMA QuietReturn ==
    ASSUME AttemptInv, NEW s \in Sessions, Return(s), run' = run, children' = children
    PROVE  AttemptInv'
  <1>1. children \in Seq(ChildStates) /\ Len(children) <= 1
    BY DEF AttemptInv
  <1>2. NoCall.pc # "run_child"
    BY DEF NoCall
  <1> QED
    BY <1>1, <1>2, NoCallWellFormed, QuietStep DEF Return

\* A call that moves to another point, and may have learned something, is still itself.
LEMMA Moved ==
    ASSUME AttemptInv, NEW s \in Sessions, NEW pc,
           pc \notin {"start_step", "run_child", "resume", "supervisor_applied"},
           NEW next, DOMAIN next = DOMAIN NoCall, next.op = call[s].op, next.pc = pc,
           pc \in Launching => call[s].pc \in Launching,
           call[s].pc # "start_step"
    PROVE  WellFormed(next) /\ (Inside(next) => Inside(call[s])) /\ next.pc # "run_child"
  BY DEF WellFormed, Inside, AttemptInv

LEMMA AtFields ==
    ASSUME AttemptInv, NEW s \in Sessions, NEW pc
    PROVE  /\ DOMAIN At(s, pc) = DOMAIN NoCall
           /\ At(s, pc).op = call[s].op
           /\ At(s, pc).pc = pc
           /\ At(s, pc).child = call[s].child
  <1>1. DOMAIN call[s] = DOMAIN NoCall
    BY DEF AttemptInv, WellFormed
  <1>2. "pc" \in DOMAIN NoCall /\ "op" \in DOMAIN NoCall /\ "child" \in DOMAIN NoCall
    BY DEF NoCall
  <1> QED
    BY <1>1, <1>2 DEF At

LEMMA FailingFields ==
    ASSUME NEW s
    PROVE  /\ DOMAIN Failing(s) = DOMAIN NoCall
           /\ Failing(s).op = call[s].op
           /\ Failing(s).pc = "child_failed"
  BY DEF Failing, NoCall

LEMMA QuietMove ==
    ASSUME AttemptInv, NEW s \in Sessions, NEW next, Advance(s, next),
           DOMAIN next = DOMAIN NoCall, next.op = call[s].op,
           next.pc \notin {"start_step", "run_child", "resume", "supervisor_applied"},
           next.pc \in Launching => call[s].pc \in Launching,
           call[s].pc # "start_step",
           run' = run, children' = children
    PROVE  AttemptInv'
  <1>1. children \in Seq(ChildStates) /\ Len(children) <= 1
    BY DEF AttemptInv
  <1>2. WellFormed(next) /\ (Inside(next) => Inside(call[s])) /\ next.pc # "run_child"
    BY Moved
  <1> QED
    BY <1>1, <1>2, QuietStep

LEMMA BeginKeeps ==
    ASSUME AttemptInv, NEW s \in Sessions,
           BeginAttempt(s) \/ BeginReconcile(s) \/ BeginCancel(s)
    PROVE  AttemptInv'
  <1>1. PICK op \in {"attempt", "reconcile", "cancel"},
             pc \in {"start_step", "read_candidates", "cancel"} :
           /\ Begin(s, op, pc)
           /\ pc = "start_step" <=> op = "attempt"
    BY DEF BeginAttempt, BeginReconcile, BeginCancel
  <1>2. PICK state, alone :
           Advance(s, [NoCall EXCEPT !.op = op, !.pc = pc, !.state = state, !.alone = alone])
    BY <1>1, Zenon DEF Begin
  <1> DEFINE next == [NoCall EXCEPT !.op = op, !.pc = pc, !.state = state, !.alone = alone]
  <1>3. DOMAIN next = DOMAIN NoCall /\ next.op = op /\ next.pc = pc
    BY DEF NoCall
  <1>4. run' = run /\ children' = children
    BY <1>1 DEF Begin, ledger
  <1>5. WellFormed(next) /\ ~Inside(next) /\ next.pc # "run_child"
    BY <1>1, <1>3 DEF WellFormed, Inside, Launching
  <1>6. children \in Seq(ChildStates) /\ Len(children) <= 1
    BY DEF AttemptInv
  <1> QED
    BY <1>2, <1>4, <1>5, <1>6, QuietStep

\* Where a commit leads a call.
LEMMA AfterCommitFields ==
    ASSUME AttemptInv, NEW s \in Sessions
    PROVE  /\ WellFormed(AfterCommit(s))
           /\ Inside(AfterCommit(s)) => Inside(call[s]) \/ call[s].pc = "start_step"
           /\ AfterCommit(s).pc = "run_child" => call[s].pc = "start_step"
           /\ AfterCommit(s).pc \in AttemptPoints
           /\ AfterCommit(s).pc \notin {"await_child", "cancel_child", "read_result",
                                        "child_result", "record_attempt"}
  <1> DEFINE c == [call[s] EXCEPT !.state = run']
  <1>1. WellFormed(call[s])
    BY DEF AttemptInv
  <1>2. DOMAIN c = DOMAIN NoCall /\ c.pc = call[s].pc /\ c.op = call[s].op
    BY <1>1 DEF WellFormed, NoCall
  <1> HIDE DEF c
  <1>3. Verdict(c) \in {"evaluation_eligible", "evaluation_ineligible"}
    BY DEF Verdict
  <1>4. CASE c.pc = "start_step"
    <2>1. AfterCommit(s) = [c EXCEPT !.pc = "run_child"]
      BY <1>4 DEF AfterCommit, c
    <2>2. /\ DOMAIN AfterCommit(s) = DOMAIN NoCall
          /\ AfterCommit(s).pc = "run_child"
          /\ AfterCommit(s).op = call[s].op
      BY <1>2, <2>1 DEF NoCall
    <2> QED
      BY <1>1, <1>2, <1>4, <2>2 DEF WellFormed, Launching, AttemptPoints
  <1>5. CASE c.pc = "candidate_ready"
    <2>1. AfterCommit(s) = [c EXCEPT !.pc = Verdict(c)]
      BY <1>5 DEF AfterCommit, c
    <2>2. /\ DOMAIN AfterCommit(s) = DOMAIN NoCall
          /\ AfterCommit(s).pc = Verdict(c)
          /\ AfterCommit(s).op = call[s].op
      BY <1>2, <2>1 DEF NoCall
    <2> QED
      BY <1>1, <1>2, <1>3, <1>5, <2>2 DEF WellFormed, Launching, Inside, AttemptPoints, Events
  <1>6. CASE c.pc \notin {"start_step", "candidate_ready"}
    <2>1. AfterCommit(s) \in {[c EXCEPT !.pc = "observe"], NoCall}
      BY <1>6 DEF AfterCommit, c
    <2>2. CASE AfterCommit(s) = NoCall
      <3>1. NoCall.pc = "idle"
        BY DEF NoCall
      <3> QED
        BY <2>2, <3>1, NoCallWellFormed DEF AttemptPoints
    <2>3. CASE AfterCommit(s) = [c EXCEPT !.pc = "observe"]
      <3>1. /\ DOMAIN AfterCommit(s) = DOMAIN NoCall
            /\ AfterCommit(s).pc = "observe"
            /\ AfterCommit(s).op = call[s].op
        BY <1>2, <2>3 DEF NoCall
      <3> QED
        BY <1>1, <1>2, <1>6, <3>1 DEF WellFormed, Launching, Inside, AttemptPoints
    <2> QED
      BY <2>1, <2>2, <2>3
  <1> QED
    BY <1>4, <1>5, <1>6

\* What a commit does to the run: it becomes ready only by the approval of a new one.
LEMMA CommitMoves ==
    ASSUME AttemptInv, NEW s \in Sessions, Commit(s)
    PROVE  /\ run' \in RunStates({run'.best})
           /\ call[s].pc = "start_step" =>
                  run.status = "ready" /\ run'.status \notin {"created", "ready"}
           /\ run'.status \in {"created", "ready"} => run.status \in {"created", "ready"}
  <1> DEFINE event == call[s].pc
             cand  == Promoted(call[s], call[s].pc)
  <1>1. /\ event \in Events
        /\ Accepts(run, event, cand, 0)
        /\ run' = Apply(run, event, cand, 0)
    BY DEF Commit, Transition
  <1>2. run \in RunStates({run.best, cand})
    BY DEF AttemptInv, RunStates
  <1>3. event \notin {"resume", "supervisor_applied"}
    BY DEF AttemptInv, WellFormed
  <1> HIDE DEF event, cand
  <1>4. run' \in RunStates({run.best, cand})
    BY <1>1, <1>2, ApplyType
  <1>5. run' \in RunStates({run'.best})
    BY <1>4 DEF RunStates
  <1>6. CASE event = "approve"
    BY <1>1, <1>2, <1>5, <1>6, MoveStatus DEF event, AttemptEnd, Unproductive
  <1>7. CASE event # "approve"
    <2>1. run'.status \notin {"created", "ready"}
      BY <1>1, <1>2, <1>3, <1>7, NeverReadyAgain
    <2>2. event = "start_step" => run.status = "ready"
      BY <1>1, <1>2, MoveStatus DEF AttemptEnd, Unproductive
    <2> QED
      BY <1>5, <2>1, <2>2 DEF event
  <1> QED
    BY <1>6, <1>7

LEMMA CommitKeeps ==
    ASSUME AttemptInv, NEW s \in Sessions, Commit(s)
    PROVE  AttemptInv'
  <1> DEFINE next == AfterCommit(s)
  <1>1. Advance(s, next) /\ children' = children
    BY DEF Commit
  <1>2. \A t \in Sessions : call'[t] = IF t = s THEN next ELSE call[t]
    BY <1>1 DEF Advance, AttemptInv
  <1>3. call' = [t \in Sessions |-> call'[t]]
    BY <1>1, <1>2 DEF Advance, AttemptInv
  <1>4. /\ WellFormed(next)
        /\ Inside(next) => Inside(call[s]) \/ call[s].pc = "start_step"
        /\ next.pc = "run_child" => call[s].pc = "start_step"
    BY AfterCommitFields
  <1>5. /\ run' \in RunStates({run'.best})
        /\ call[s].pc = "start_step" =>
               run.status = "ready" /\ run'.status \notin {"created", "ready"}
        /\ run'.status \in {"created", "ready"} => run.status \in {"created", "ready"}
    BY CommitMoves
  <1> HIDE DEF next
  <1>6. \A t \in Sessions : WellFormed(call'[t])
    BY <1>2, <1>4 DEF AttemptInv
  <1>7. \A t, u \in Sessions : Inside(call'[t]) /\ Inside(call'[u]) => t = u
    BY <1>2, <1>4, <1>5 DEF AttemptInv
  <1>8. run'.status \in {"created", "ready"} =>
            children' = <<>> /\ \A t \in Sessions : ~Inside(call'[t])
    BY <1>1, <1>2, <1>4, <1>5 DEF AttemptInv
  <1>9. \A t \in Sessions : call'[t].pc = "run_child" => children' = <<>>
    BY <1>1, <1>2, <1>4, <1>5 DEF AttemptInv
  <1>10. \A t \in Sessions : WellFormed(call[t])' /\ (Inside(call[t])' <=> Inside(call'[t]))
    BY <1>6 DEF WellFormed, Inside, NoCall, NewRun, Launching
  <1>11. children' \in Seq(ChildStates) /\ Len(children') <= 1
    BY <1>1 DEF AttemptInv
  <1> QED
    BY <1>3, <1>5, <1>7, <1>8, <1>9, <1>10, <1>11 DEF AttemptInv

\* Where a step on the ledger or with the child can lead.
LedgerPoints == AttemptPoints \ {"record_attempt"}

\* How far a step of one call gets: into the attempt only from a run that is ready.
StepOf(s) ==
    /\ AttemptInv'
    /\ \A t \in Sessions : t # s => call'[t] = call[t]
    /\ call'[s].pc \in LedgerPoints
    /\ call'[s].pc \in Launching =>
           call[s].pc \in Launching \/ (call[s].pc = "start_step" /\ run.status = "ready")
    /\ run'.status \in {"created", "ready"} => run.status \in {"created", "ready"}

LEMMA ReturnStep ==
    ASSUME AttemptInv, NEW s \in Sessions, Return(s), run' = run, children' = children
    PROVE  StepOf(s)
  <1>1. \A t \in Sessions : call'[t] = IF t = s THEN NoCall ELSE call[t]
    BY DEF Return, Advance, AttemptInv
  <1>2. NoCall.pc = "idle"
    BY DEF NoCall
  <1> QED
    BY <1>1, <1>2, QuietReturn DEF StepOf, LedgerPoints, AttemptPoints, Launching

LEMMA MoveStep ==
    ASSUME AttemptInv, NEW s \in Sessions, NEW next, Advance(s, next),
           DOMAIN next = DOMAIN NoCall, next.op = call[s].op,
           next.pc \in LedgerPoints \ {"start_step", "run_child", "resume",
                                        "supervisor_applied"},
           next.pc \in Launching => call[s].pc \in Launching,
           call[s].pc # "start_step",
           run' = run, children' = children
    PROVE  StepOf(s)
  <1>1. \A t \in Sessions : call'[t] = IF t = s THEN next ELSE call[t]
    BY DEF Advance, AttemptInv
  <1>2. AttemptInv'
    BY QuietMove
  <1> QED
    BY <1>1, <1>2 DEF StepOf

\* A step of lifecycle.run, inside the attempt.
LEMMA ChildStep ==
    ASSUME AttemptInv, NEW s \in Sessions, NEW next, Advance(s, next),
           next = Failing(s) \/ \E pc \in Launching \ {"run_child"} :
              DOMAIN next = DOMAIN NoCall /\ next.op = call[s].op /\ next.pc = pc,
           call[s].pc \in Launching, Inside(call[s]), run' = run,
           children' \in Seq(ChildStates), Len(children') <= 1
    PROVE  StepOf(s)
  <1>1. \A t \in Sessions : call'[t] = IF t = s THEN next ELSE call[t]
    BY DEF Advance, AttemptInv
  <1>2. /\ DOMAIN next = DOMAIN NoCall
        /\ next.op = call[s].op
        /\ next.pc \in {"child_failed"} \cup (Launching \ {"run_child"})
    BY FailingFields
  <1>3. WellFormed(next) /\ next.pc # "run_child" /\ next.pc \in LedgerPoints
    BY <1>2 DEF WellFormed, Inside, Launching, LedgerPoints, AttemptPoints, Events
  <1>4. AttemptInv'
    BY <1>3, QuietStep
  <1> QED
    BY <1>1, <1>3, <1>4 DEF StepOf

LEMMA CommitStep ==
    ASSUME AttemptInv, NEW s \in Sessions, Commit(s)
    PROVE  StepOf(s)
  <1>1. \A t \in Sessions : call'[t] = IF t = s THEN AfterCommit(s) ELSE call[t]
    BY DEF Commit, Advance, AttemptInv
  <1>2. AttemptInv'
    BY CommitKeeps
  <1>3. AfterCommit(s).pc \in LedgerPoints
    BY AfterCommitFields DEF LedgerPoints
  <1>4. AfterCommit(s).pc \in Launching => call[s].pc = "start_step"
    BY AfterCommitFields DEF Launching
  <1>5. /\ call[s].pc = "start_step" => run.status = "ready"
        /\ run'.status \in {"created", "ready"} => run.status \in {"created", "ready"}
    BY CommitMoves
  <1> QED
    BY <1>1, <1>2, <1>3, <1>4, <1>5 DEF StepOf

LEMMA CreateSteps ==
    ASSUME AttemptInv, NEW s \in Sessions, Build(s) \/ CreateRun(s)
    PROVE  StepOf(s)
  <1>1. run' = run /\ children' = children /\ call[s].pc # "start_step"
    BY DEF Build, CreateRun, ledger
  <1>2. CASE Return(s)
    BY <1>1, <1>2, ReturnStep
  <1>3. CASE ~Return(s)
    <2>1. PICK pc \in {"build", "create_run", "approve"} : Advance(s, At(s, pc))
      BY <1>3 DEF Build, CreateRun, Raise
    <2>2. pc \in LedgerPoints \ ({"start_step", "run_child", "resume", "supervisor_applied"}
                                     \cup Launching)
      BY DEF LedgerPoints, AttemptPoints, Events, Launching
    <2> QED
      BY <1>1, <2>1, <2>2, AtFields, MoveStep
  <1> QED
    BY <1>2, <1>3

\* What becomes of the children when a handle is dropped.
LEMMA ChildrenType ==
    ASSUME AttemptInv, NEW i, NEW state \in ChildStates
    PROVE  LET after == [children EXCEPT ![i] = IF @ = "alive" THEN state ELSE @]
           IN  after \in Seq(ChildStates) /\ Len(after) <= 1
  <1>1. children \in Seq(ChildStates) /\ Len(children) <= 1
    BY DEF AttemptInv
  <1>2. CASE i \in 1 .. Len(children)
    <2>1. (IF children[i] = "alive" THEN state ELSE children[i]) \in ChildStates
      BY <1>1, <1>2
    <2> QED
      BY <1>1, <1>2, <2>1, ExceptSeq
  <1>3. CASE i \notin 1 .. Len(children)
    <2>1. DOMAIN children = 1 .. Len(children)
      BY <1>1
    <2>2. [children EXCEPT ![i] = IF @ = "alive" THEN state ELSE @]
             = [j \in DOMAIN children |-> children[j]]
      BY <1>3, <2>1
    <2>3. [j \in DOMAIN children |-> children[j]] = children
      BY <1>1
    <2> QED
      BY <1>1, <2>2, <2>3
  <1> QED
    BY <1>2, <1>3

LEMMA LoseChildStep ==
    ASSUME AttemptInv, NEW s \in Sessions, LoseChild(s), call[s].pc \in Launching, run' = run
    PROVE  StepOf(s)
  <1>1. Inside(call[s])
    BY DEF AttemptInv, WellFormed, Inside, Launching
  <1>2. /\ Advance(s, Failing(s))
        /\ children' = [children EXCEPT ![call[s].child] =
                            IF @ = "alive" THEN "lost" ELSE @]
    BY DEF LoseChild
  <1>3. children' \in Seq(ChildStates) /\ Len(children') <= 1
    BY <1>2, ChildrenType DEF ChildStates
  <1> QED
    BY <1>1, <1>2, <1>3, ChildStep

LEMMA LaunchStep ==
    ASSUME AttemptInv, NEW s \in Sessions, LaunchChild(s)
    PROVE  StepOf(s)
  <1>1. call[s].pc = "run_child" /\ run' = run
    BY DEF LaunchChild, ledger
  <1>2. Inside(call[s]) /\ children = <<>>
    BY <1>1 DEF AttemptInv, WellFormed, Inside, Launching
  <1>3. CASE Advance(s, Failing(s)) /\ children' = children
    <2>1. children' \in Seq(ChildStates) /\ Len(children') <= 1
      BY <1>3 DEF AttemptInv
    <2> QED
      BY <1>1, <1>2, <1>3, <2>1, ChildStep DEF Launching
  <1>4. CASE children' = Append(children, "alive")
    <2>1. children' \in Seq(ChildStates) /\ Len(children') <= 1
      BY <1>2, <1>4 DEF ChildStates
    <2>2. CASE Advance(s, Failing(s))
      BY <1>1, <1>2, <2>1, <2>2, ChildStep DEF Launching
    <2>3. CASE ~Advance(s, Failing(s))
      <3>1. PICK n : Advance(s, [At(s, "await_child") EXCEPT !.child = n])
        BY <2>3 DEF LaunchChild
      <3> DEFINE next == [At(s, "await_child") EXCEPT !.child = n]
      <3>2. DOMAIN next = DOMAIN NoCall /\ next.op = call[s].op /\ next.pc = "await_child"
        BY AtFields DEF NoCall
      <3> HIDE DEF next
      <3>3. Advance(s, next)
        BY <3>1 DEF next
      <3> QED
        BY <1>1, <1>2, <2>1, <3>2, <3>3, ChildStep DEF Launching
    <2> QED
      BY <2>2, <2>3
  <1> QED
    BY <1>3, <1>4 DEF LaunchChild

LEMMA AwaitStep ==
    ASSUME AttemptInv, NEW s \in Sessions, AwaitChild(s) \/ CancelChild(s)
    PROVE  StepOf(s)
  <1>1. call[s].pc \in {"await_child", "cancel_child"} /\ run' = run
    BY DEF AwaitChild, CancelChild, ledger
  <1>2. Inside(call[s]) /\ call[s].pc \in Launching
    BY <1>1 DEF AttemptInv, WellFormed, Inside, Launching
  <1>3. CASE LoseChild(s)
    BY <1>1, <1>2, <1>3, LoseChildStep
  <1>4. CASE ~LoseChild(s)
    <2>1. PICK pc \in {"cancel_child", "read_result", "child_result"} : Advance(s, At(s, pc))
      BY <1>4 DEF AwaitChild, CancelChild
    <2>2. \/ children' = children
          \/ children' = [children EXCEPT ![call[s].child] =
                              IF @ = "alive" THEN "cancelled" ELSE @]
      BY <1>4 DEF AwaitChild, CancelChild
    <2>3. children' \in Seq(ChildStates) /\ Len(children') <= 1
      BY <2>2, ChildrenType DEF ChildStates, AttemptInv
    <2>4. /\ DOMAIN At(s, pc) = DOMAIN NoCall
          /\ At(s, pc).op = call[s].op
          /\ At(s, pc).pc = pc
      BY AtFields
    <2>5. pc \in Launching \ {"run_child"}
      BY DEF Launching
    <2> QED
      BY <1>1, <1>2, <2>1, <2>3, <2>4, <2>5, ChildStep
  <1> QED
    BY <1>3, <1>4

LEMMA ReadResultStep ==
    ASSUME AttemptInv, NEW s \in Sessions, ReadResult(s)
    PROVE  StepOf(s)
  <1>1. call[s].pc = "read_result" /\ run' = run
    BY DEF ReadResult, ledger
  <1>2. Inside(call[s]) /\ call[s].pc \in Launching
    BY <1>1 DEF AttemptInv, WellFormed, Inside, Launching
  <1>3. CASE LoseChild(s)
    BY <1>1, <1>2, <1>3, LoseChildStep
  <1>4. CASE ~LoseChild(s)
    <2>1. children' = children /\ children' \in Seq(ChildStates) /\ Len(children') <= 1
      BY <1>4 DEF ReadResult, AttemptInv
    <2>2. \/ Advance(s, At(s, "child_result"))
          \/ \E answer, digest :
                Advance(s, [At(s, "child_result") EXCEPT !.answer = answer,
                                                         !.digest = digest])
      BY <1>4, Zenon DEF ReadResult
    <2>3. PICK next :
            /\ Advance(s, next)
            /\ DOMAIN next = DOMAIN NoCall
            /\ next.op = call[s].op
            /\ next.pc = "child_result"
      <3>1. CASE Advance(s, At(s, "child_result"))
        BY <3>1, AtFields
      <3>2. ASSUME NEW answer, NEW digest,
                   Advance(s, [At(s, "child_result") EXCEPT !.answer = answer,
                                                            !.digest = digest])
            PROVE  \E next :
                      /\ Advance(s, next)
                      /\ DOMAIN next = DOMAIN NoCall
                      /\ next.op = call[s].op
                      /\ next.pc = "child_result"
        <4> DEFINE next == [At(s, "child_result") EXCEPT !.answer = answer,
                                                         !.digest = digest]
        <4>1. /\ DOMAIN next = DOMAIN NoCall
              /\ next.op = call[s].op
              /\ next.pc = "child_result"
          BY AtFields DEF NoCall
        <4> QED
          BY <3>2, <4>1
      <3> QED
        BY <2>2, <3>1, <3>2
    <2> QED
      BY <1>1, <1>2, <2>1, <2>3, ChildStep DEF Launching
  <1> QED
    BY <1>3, <1>4

LEMMA ReadSteps ==
    ASSUME AttemptInv, NEW s \in Sessions,
           ReadCandidates(s) \/ ReadEvaluations(s) \/ ReadReceipts(s)
    PROVE  StepOf(s)
  <1>1. run' = run /\ children' = children /\ call[s].pc # "start_step"
    BY DEF ReadCandidates, ReadEvaluations, ReadReceipts, ledger
  <1>2. \/ \E v : Advance(s, [At(s, "read_evaluations") EXCEPT !.cand = v])
        \/ \E v, w : Advance(s, [At(s, "read_receipts") EXCEPT !.evals = v, !.eligible = w])
        \/ \E v : Advance(s, [At(s, "read_events") EXCEPT !.receipts = v])
    BY Zenon DEF ReadCandidates, ReadEvaluations, ReadReceipts
  <1>3. ASSUME NEW next, Advance(s, next), DOMAIN next = DOMAIN NoCall,
               next.op = call[s].op,
               next.pc \in {"read_evaluations", "read_receipts", "read_events"}
        PROVE  StepOf(s)
    BY <1>1, <1>3, MoveStep DEF LedgerPoints, AttemptPoints, Launching
  <1>4. ASSUME NEW v, Advance(s, [At(s, "read_evaluations") EXCEPT !.cand = v])
        PROVE  StepOf(s)
    <2> DEFINE next == [At(s, "read_evaluations") EXCEPT !.cand = v]
    <2>1. DOMAIN next = DOMAIN NoCall /\ next.op = call[s].op /\ next.pc = "read_evaluations"
      BY AtFields DEF NoCall
    <2> QED
      BY <1>3, <1>4, <2>1
  <1>5. ASSUME NEW v, NEW w,
               Advance(s, [At(s, "read_receipts") EXCEPT !.evals = v, !.eligible = w])
        PROVE  StepOf(s)
    <2> DEFINE next == [At(s, "read_receipts") EXCEPT !.evals = v, !.eligible = w]
    <2>1. DOMAIN next = DOMAIN NoCall /\ next.op = call[s].op /\ next.pc = "read_receipts"
      BY AtFields DEF NoCall
    <2> QED
      BY <1>3, <1>5, <2>1
  <1>6. ASSUME NEW v, Advance(s, [At(s, "read_events") EXCEPT !.receipts = v])
        PROVE  StepOf(s)
    <2> DEFINE next == [At(s, "read_events") EXCEPT !.receipts = v]
    <2>1. DOMAIN next = DOMAIN NoCall /\ next.op = call[s].op /\ next.pc = "read_events"
      BY AtFields DEF NoCall
    <2> QED
      BY <1>3, <1>6, <2>1
  <1> QED
    BY <1>2, <1>4, <1>5, <1>6

LEMMA ReadEventsStep ==
    ASSUME AttemptInv, NEW s \in Sessions, ReadEvents(s)
    PROVE  StepOf(s)
  <1>1. /\ run' = run /\ children' = children
        /\ call[s].pc = "read_events"
    BY DEF ReadEvents, ledger
  <1>2. \/ Return(s)
        \/ \E applied : Advance(s, Decision(call[s], applied))
    BY Zenon DEF ReadEvents, Return
  <1>3. CASE Return(s)
    BY <1>1, <1>3, ReturnStep
  <1>4. ASSUME NEW applied, Advance(s, Decision(call[s], applied))
        PROVE  StepOf(s)
    <2> DEFINE next == Decision(call[s], applied)
    <2>1. WellFormed(call[s])
      BY DEF AttemptInv
    <2>2. /\ DOMAIN next = DOMAIN NoCall
          /\ next.op = call[s].op
          /\ next.pc \in {"candidate_ready", "evaluation_eligible", "evaluation_ineligible",
                          "interrupt", "evaluation_missing"}
      <3>1. CASE Complete(call[s], applied)
        <4>1. Verdict(call[s]) \in {"evaluation_eligible", "evaluation_ineligible"}
          BY DEF Verdict
        <4>2. PICK pc \in {"candidate_ready", "evaluation_eligible", "evaluation_ineligible"} :
                 next = [call[s] EXCEPT !.evals = 0, !.receipts = 0, !.pc = pc]
          BY <3>1, <4>1 DEF Decision
        <4> HIDE DEF next
        <4> QED
          BY <2>1, <4>2 DEF WellFormed, NoCall
      <3>2. CASE ~Complete(call[s], applied)
        <4>1. \E event \in {"interrupt", "evaluation_missing"} : \E alone, note :
                 next = [NoCall EXCEPT !.op = call[s].op, !.state = call[s].state,
                                       !.alone = alone, !.pc = event, !.note = note]
          BY <3>2, Zenon DEF Decision
        <4>2. PICK event \in {"interrupt", "evaluation_missing"} : \E alone, note :
                 next = [NoCall EXCEPT !.op = call[s].op, !.state = call[s].state,
                                       !.alone = alone, !.pc = event, !.note = note]
          BY <4>1
        <4> HIDE DEF next
        <4> QED
          BY <4>2 DEF NoCall
      <3> QED
        BY <3>1, <3>2
    <2>3. /\ next.pc \in LedgerPoints \ {"start_step", "run_child", "resume",
                                          "supervisor_applied"}
          /\ next.pc \notin Launching
      BY <2>2 DEF LedgerPoints, AttemptPoints, Events, Launching
    <2> HIDE DEF next
    <2> QED
      BY <1>1, <1>4, <2>2, <2>3, MoveStep DEF next
  <1> QED
    BY <1>2, <1>3, <1>4

\* Every step a call makes on the ledger or with its child.
LEMMA LedgerStep ==
    ASSUME AttemptInv, NEW s \in Sessions, ProceedInLedger(s)
    PROVE  StepOf(s)
  <1>1. CASE Build(s) \/ CreateRun(s)
    BY <1>1, CreateSteps
  <1>2. CASE Commit(s)
    BY <1>2, CommitStep
  <1>3. CASE Refuse(s)
    BY <1>3, ReturnStep DEF Refuse, ledger
  <1>4. CASE Observe(s)
    BY <1>4, ReturnStep DEF Observe, RecordObservation
  <1>5. CASE LaunchChild(s)
    BY <1>5, LaunchStep
  <1>6. CASE AwaitChild(s) \/ CancelChild(s)
    BY <1>6, AwaitStep
  <1>7. CASE ReadResult(s)
    BY <1>7, ReadResultStep
  <1>8. CASE ReadCandidates(s) \/ ReadEvaluations(s) \/ ReadReceipts(s)
    BY <1>8, ReadSteps
  <1>9. CASE ReadEvents(s)
    BY <1>9, ReadEventsStep
  <1> QED
    BY <1>1, <1>2, <1>3, <1>4, <1>5, <1>6, <1>7, <1>8, <1>9 DEF ProceedInLedger, RunChild

\* A call that dies takes the handle of its child with it.
LEMMA VanishKeeps ==
    ASSUME AttemptInv, NEW s \in Sessions, Vanish(s)
    PROVE  AttemptInv'
  <1>1. /\ Return(s)
        /\ run' = run
        /\ children' = [i \in DOMAIN children |->
                           IF Holds(s, i) /\ children[i] = "alive" THEN "lost"
                                                                   ELSE children[i]]
    BY DEF Vanish, ledger
  <1>2. children \in Seq(ChildStates) /\ Len(children) <= 1
    BY DEF AttemptInv
  <1>3. \A i \in DOMAIN children :
           (IF Holds(s, i) /\ children[i] = "alive" THEN "lost" ELSE children[i])
              \in ChildStates
    BY <1>2 DEF ChildStates
  <1>4. children' \in Seq(ChildStates) /\ Len(children') <= 1
    BY <1>1, <1>2, <1>3
  <1>5. children' = children \/ Inside(call[s])
    <2>1. ASSUME ~Inside(call[s]), NEW i \in DOMAIN children
          PROVE  ~Holds(s, i)
      BY <2>1 DEF Holds, AttemptInv, WellFormed, Inside, Launching
    <2> QED
      BY <1>1, <1>2, <2>1
  <1>6. NoCall.pc # "run_child"
    BY DEF NoCall
  <1> QED
    BY <1>1, <1>4, <1>5, <1>6, NoCallWellFormed, QuietStep DEF Return

\* A child comes to its end under whatever its caller is doing.
LEMMA ChildEndsKeeps ==
    ASSUME AttemptInv, NEW i \in DOMAIN children, ChildEnds(i)
    PROVE  AttemptInv'
  <1>1. /\ children[i] = "alive"
        /\ children' = [children EXCEPT ![i] = "ended"]
        /\ run' = run /\ call' = call
    BY DEF ChildEnds, ledger
  <1>2. children \in Seq(ChildStates) /\ Len(children) <= 1 /\ i \in 1 .. Len(children)
    BY DEF AttemptInv
  <1>3. children' \in Seq(ChildStates) /\ Len(children') <= 1
    BY <1>1, <1>2, ExceptSeq DEF ChildStates
  <1>4. children # <<>>
    BY <1>2
  <1>5. \A s \in Sessions : (WellFormed(call[s])' <=> WellFormed(call[s]))
                             /\ (Inside(call[s])' <=> Inside(call[s]))
    BY <1>1 DEF WellFormed, Inside, NoCall, NewRun, Launching
  <1> QED
    BY <1>1, <1>3, <1>4, <1>5 DEF AttemptInv

LEMMA InitAttempt ==
    ASSUME NEW untouched, AttemptInit(untouched)
    PROVE  AttemptInv
  <1>1. PICK creator \in Sessions :
          call = [s \in Sessions |->
                     IF s = creator
                     THEN [NoCall EXCEPT !.op = "create", !.pc = "build", !.note = "prepared"]
                     ELSE NoCall]
    BY DEF AttemptInit
  <1> DEFINE c == [NoCall EXCEPT !.op = "create", !.pc = "build", !.note = "prepared"]
  <1>2. DOMAIN c = DOMAIN NoCall /\ c.op = "create" /\ c.pc = "build"
    BY DEF NoCall
  <1>3. WellFormed(c) /\ ~Inside(c) /\ c.pc # "run_child"
    BY <1>2 DEF WellFormed, Inside, Launching
  <1>4. NoCall.pc # "run_child"
    BY DEF NoCall
  <1> HIDE DEF c
  <1>5. \A s \in Sessions : call[s] \in {c, NoCall}
    BY <1>1 DEF c
  <1>6. call = [s \in Sessions |-> call[s]]
    BY <1>1
  <1>7. \A s \in Sessions : WellFormed(call[s]) /\ ~Inside(call[s]) /\ call[s].pc # "run_child"
    BY <1>3, <1>4, <1>5, NoCallWellFormed
  <1>8. run = NewRun /\ children = <<>>
    BY DEF AttemptInit, StoreInit
  <1>9. run \in RunStates({run.best})
    BY <1>8, SpecAssumption DEF NewRun, RunStates, Statuses, SafeResume
  <1> QED
    BY <1>6, <1>7, <1>8, <1>9 DEF AttemptInv
\* With one failing test to beat, a verdict is what the predicates say, each of them.
LEMMA JudgedByPredicates ==
    ASSUME NEW s, NEW Predicates, NEW correctness \in [Predicates -> BOOLEAN]
    PROVE  Judged(s, correctness) = \A p \in Predicates : correctness[p]
  <1> DEFINE score == IF call[s].passed THEN 0 ELSE 1
             spec == [predicates |-> DOMAIN correctness, keys |-> {"test_failures"},
                      comparison |-> "minimize", strict |-> FALSE]
             outcome == [correctness |-> correctness, scores |-> [test_failures |-> score]]
             baseline == [test_failures |-> 1]
  <1>1. score \in {0, 1}
    OBVIOUS
  <1>2. Correct(spec, outcome) <=> \A p \in Predicates : correctness[p]
    BY DEF Correct
  <1>3. NonRegressing(spec, outcome.scores, baseline)
    BY <1>1 DEF NonRegressing, Better
  <1>4. ~spec.strict
    OBVIOUS
  <1>5. Eligible(spec, outcome, baseline) <=> \A p \in Predicates : correctness[p]
    BY <1>2, <1>3, <1>4, Zenon DEF Eligible
  <1>6. Judged(s, correctness) <=> \A p \in Predicates : correctness[p]
    BY <1>5, Zenon DEF Judged
  <1>7. Judged(s, correctness) \in BOOLEAN
    BY DEF Judged, Eligible
  <1> QED
    BY <1>6, <1>7

-----------------------------------------------------------------------------
(***************************************************************************)
(* Types.  What a call holds at the point it has reached is what the store *)
(* accepts there, so each step of a call is an operation of the store, and *)
(* the ledger is one that RunStore allows.                                 *)
(***************************************************************************)

\* The notes a call leaves behind the transition it commits.
CallNotes == {"prepared", "attempt_failed", "interrupted", "evaluation_missing"}

Typed(Points) ==
    /\ Inv
    /\ call \in [Sessions -> Calls(Points)]
    /\ \A s \in Sessions : call[s].note \in CallNotes \cup {None}
    /\ \A s \in Sessions : call[s].pc = "observe" => call[s].note # None
    /\ children \in Seq(ChildStates)
    /\ crashes \in 0 .. MaxCrashes

\* A step that takes the call of s to next.
TypedStep(s, next, Points) ==
    /\ Advance(s, next)
    /\ next \in Calls(Points)
    /\ next.note \in CallNotes \cup {None}
    /\ next.pc = "observe" => next.note # None
    /\ [StoreNext]_ledger
    /\ children' \in Seq(ChildStates)
    /\ crashes' \in 0 .. MaxCrashes

LEMMA TypedStepKeeps ==
    ASSUME NEW Points, Typed(Points), NEW s \in Sessions, NEW next,
           TypedStep(s, next, Points)
    PROVE  Typed(Points)'
  <1>1. Inv'
    BY InvStep DEF Typed, TypedStep
  <1>2. call' \in [Sessions -> Calls(Points)]
    BY DEF Typed, TypedStep, Advance
  <1>3. \A t \in Sessions : call'[t] = IF t = s THEN next ELSE call[t]
    BY DEF Typed, TypedStep, Advance
  <1>4. Calls(Points)' = Calls(Points)
    OBVIOUS
  <1> QED
    BY <1>1, <1>2, <1>3 DEF Typed, TypedStep, Calls, CallNotes

LEMMA NoCallType ==
    ASSUME NEW Points
    PROVE  NoCall \in Calls(Points) /\ NoCall.note = None /\ NoCall.pc = "idle"
  <1>1. NewRun \in RunStates(Candidates)
    BY NewRunType
  <1> QED
    BY <1>1 DEF NoCall, Calls, AttemptPoints

\* The call of s, if it is well typed, at another point.
LEMMA AtType ==
    ASSUME NEW Points, NEW s, call[s] \in Calls(Points), NEW pc \in AttemptPoints \cup Points
    PROVE  /\ At(s, pc) \in Calls(Points)
           /\ At(s, pc).pc = pc
           /\ At(s, pc).note = call[s].note
  BY DEF At, Calls

LEMMA FailingType ==
    ASSUME NEW Points, NEW s, call[s] \in Calls(Points)
    PROVE  /\ Failing(s) \in Calls(Points)
           /\ Failing(s).pc = "child_failed"
           /\ Failing(s).note = "attempt_failed"
  <1>1. "child_failed" \in AttemptPoints
    BY DEF AttemptPoints, Events
  <1>2. "attempt_failed" \in Observations
    BY SingleAttemptAssumption
  <1> QED
    BY <1>1, <1>2, NoCallType DEF Failing, Calls

\* A call that leaves the ledger alone, or notes something, and stops where it may.
LEMMA TypedMove ==
    ASSUME NEW Points, Typed(Points), NEW s \in Sessions, NEW next, Advance(s, next),
           next \in Calls(Points), next.note \in CallNotes \cup {None}, next.pc # "observe",
           UNCHANGED ledger \/ \E event \in Observations : RecordObservation(event),
           children' \in Seq(ChildStates), UNCHANGED crashes
    PROVE  TypedStep(s, next, Points)
  BY DEF TypedStep, StoreNext, Typed

LEMMA TypedAt ==
    ASSUME NEW Points, Typed(Points), NEW s \in Sessions,
           NEW pc \in (AttemptPoints \cup Points) \ {"observe"}, Advance(s, At(s, pc)),
           UNCHANGED ledger \/ \E event \in Observations : RecordObservation(event),
           children' \in Seq(ChildStates), UNCHANGED crashes
    PROVE  TypedStep(s, At(s, pc), Points)
  <1>1. call[s] \in Calls(Points) /\ call[s].note \in CallNotes \cup {None}
    BY DEF Typed
  <1> QED
    BY <1>1, AtType, TypedMove

LEMMA TypedReturn ==
    ASSUME NEW Points, Typed(Points), NEW s \in Sessions, Return(s),
           UNCHANGED ledger \/ \E event \in Observations : RecordObservation(event),
           children' \in Seq(ChildStates), crashes' \in 0 .. MaxCrashes
    PROVE  TypedStep(s, NoCall, Points)
  BY NoCallType DEF Return, TypedStep, StoreNext

LEMMA TypedFailing ==
    ASSUME NEW Points, Typed(Points), NEW s \in Sessions, Advance(s, Failing(s)),
           UNCHANGED ledger \/ \E event \in Observations : RecordObservation(event),
           children' \in Seq(ChildStates), UNCHANGED crashes
    PROVE  TypedStep(s, Failing(s), Points)
  <1>1. call[s] \in Calls(Points)
    BY DEF Typed
  <1> QED
    BY <1>1, FailingType, TypedMove DEF CallNotes

LEMMA CreateTyped ==
    ASSUME NEW Points, Typed(Points), NEW s \in Sessions, Build(s) \/ CreateRun(s)
    PROVE  \E next : TypedStep(s, next, Points)
  <1>1. UNCHANGED <<ledger, children, crashes>>
    BY DEF Build, CreateRun
  <1>2. \/ Return(s)
        \/ \E pc \in {"build", "create_run", "approve"} : Advance(s, At(s, pc))
    BY DEF Build, CreateRun, Raise
  <1>3. {"build", "create_run", "approve"} \subseteq AttemptPoints \ {"observe"}
    BY DEF AttemptPoints, Events
  <1> QED
    BY <1>1, <1>2, <1>3, TypedReturn, TypedAt DEF Typed

LEMMA EndTyped ==
    ASSUME NEW Points, Typed(Points), NEW s \in Sessions, Refuse(s) \/ Observe(s)
    PROVE  \E next : TypedStep(s, next, Points)
  <1>1. Return(s) /\ UNCHANGED <<children, crashes>>
    BY DEF Refuse, Observe
  <1>2. UNCHANGED ledger \/ \E event \in Observations : RecordObservation(event)
    <2>1. CASE Refuse(s)
      BY <2>1 DEF Refuse
    <2>2. CASE Observe(s)
      <3>1. call[s].note \in Observations
        BY <2>2 DEF Typed, Observe, Calls
      <3> QED
        BY <2>2, <3>1 DEF Observe
    <2> QED
      BY <2>1, <2>2
  <1> QED
    BY <1>1, <1>2, TypedReturn DEF Typed

LEMMA CommitTyped ==
    ASSUME NEW Points, Typed(Points), NEW s \in Sessions, Commit(s)
    PROVE  TypedStep(s, AfterCommit(s), Points)
  <1> DEFINE event == call[s].pc
             cand == Promoted(call[s], call[s].pc)
             c == [call[s] EXCEPT !.state = run']
  <1>1. call[s] \in Calls(Points) /\ call[s].note \in CallNotes \cup {None}
    BY DEF Typed
  <1>2. /\ event \in Events
        /\ Transition(event, call[s].state.revision, cand, 0)
        /\ Advance(s, AfterCommit(s))
        /\ UNCHANGED <<children, crashes>>
    BY DEF Commit
  <1>3. cand \in Candidates \cup {None}
    BY <1>1 DEF Promoted, Calls
  <1>4. call[s].state.revision \in 0 .. run.revision
    BY <1>2 DEF Transition, Typed, Inv, StoreTypeOK, RunStates
  <1>5. StoreNext
    BY <1>2, <1>3, <1>4, NoCharge DEF StoreNext
  <1>6. run' \in RunStates(Candidates)
    BY <1>5, InvStep DEF Typed, Inv, StoreTypeOK
  <1>7. PICK state \in RunStates(Candidates) : state = run'
    BY <1>6
  <1>8. /\ c \in Calls(Points) /\ c.pc = call[s].pc /\ c.note = call[s].note
    BY <1>1, <1>7 DEF Calls
  <1>9. AfterCommit(s) \in Calls(Points) /\ AfterCommit(s).note \in {c.note, None}
        /\ (AfterCommit(s).pc = "observe" => AfterCommit(s).note # None)
    <2>1. \/ AfterCommit(s) = [c EXCEPT !.pc = "run_child"]
          \/ AfterCommit(s) = [c EXCEPT !.pc = Verdict(c)]
          \/ c.note # None /\ AfterCommit(s) = [c EXCEPT !.pc = "observe"]
          \/ AfterCommit(s) = NoCall
      BY DEF AfterCommit
    <2>2. {"run_child", "observe", Verdict(c)} \subseteq AttemptPoints
          /\ Verdict(c) # "observe"
      BY DEF AttemptPoints, Events, Verdict
    <2> HIDE DEF c
    <2> QED
      BY <1>8, <2>1, <2>2, NoCallType DEF Calls
  <1> QED
    BY <1>1, <1>2, <1>5, <1>8, <1>9 DEF TypedStep, Typed

LEMMA LoseTyped ==
    ASSUME NEW Points, Typed(Points), NEW s \in Sessions, LoseChild(s),
           UNCHANGED <<ledger, crashes>>
    PROVE  TypedStep(s, Failing(s), Points)
  <1>1. children' = [children EXCEPT ![call[s].child] = IF @ = "alive" THEN "lost" ELSE @]
    BY DEF LoseChild
  <1>2. \A i \in DOMAIN children : children[i] \in ChildStates
    BY DEF Typed
  <1>3. children' \in Seq(ChildStates)
    <2>1. \A i \in DOMAIN children' : children'[i] \in ChildStates
      BY <1>1, <1>2 DEF ChildStates
    <2>2. DOMAIN children' = DOMAIN children
      BY <1>1
    <2>3. children \in Seq(ChildStates)
      BY DEF Typed
    <2>4. children' = [i \in DOMAIN children |-> children'[i]]
      BY <1>1, <2>2
    <2> QED
      BY <2>1, <2>2, <2>3, <2>4
  <1> QED
    BY <1>3, TypedFailing DEF LoseChild

LEMMA ChildTyped ==
    ASSUME NEW Points, Typed(Points), NEW s \in Sessions, RunChild(s)
    PROVE  \E next : TypedStep(s, next, Points)
  <1>1. UNCHANGED <<ledger, crashes>>
    BY DEF RunChild, LaunchChild, AwaitChild, CancelChild, ReadResult
  <1>2. children \in Seq(ChildStates) /\ call[s] \in Calls(Points)
        /\ call[s].note \in CallNotes \cup {None}
    BY DEF Typed
  <1>3. {"await_child", "cancel_child", "read_result", "child_result"}
           \subseteq AttemptPoints \ {"observe"}
    BY DEF AttemptPoints
  <1>4. CASE LoseChild(s)
    BY <1>1, <1>4, LoseTyped
  <1>5. CASE LaunchChild(s)
    <2>1. CASE Advance(s, Failing(s)) /\ children' = children
      BY <1>1, <1>2, <2>1, TypedFailing
    <2>2. CASE ~(Advance(s, Failing(s)) /\ children' = children)
      <3> DEFINE next == [At(s, "await_child") EXCEPT !.child = Len(children) + 1]
      <3>1. children' = Append(children, "alive")
        BY <1>5, <2>2 DEF LaunchChild
      <3>2. children' \in Seq(ChildStates) /\ Len(children') = Len(children) + 1
        BY <1>2, <3>1, AppendProperties DEF ChildStates
      <3>3. Advance(s, next)
        BY <1>5, <2>2, <3>2 DEF LaunchChild
      <3>4. At(s, "await_child") \in Calls(Points) /\ Len(children) + 1 \in Nat
            /\ At(s, "await_child").note = call[s].note
            /\ At(s, "await_child").pc = "await_child"
        BY <1>2, <1>3, AtType
      <3>5. next \in Calls(Points) /\ next.note = call[s].note /\ next.pc = "await_child"
        BY <3>4 DEF Calls
      <3> HIDE DEF next
      <3> QED
        BY <1>1, <1>2, <3>2, <3>3, <3>5, TypedMove
    <2> QED
      BY <2>1, <2>2
  <1>6. CASE (AwaitChild(s) \/ CancelChild(s)) /\ ~LoseChild(s)
    <2>1. PICK pc \in {"cancel_child", "read_result", "child_result"} : Advance(s, At(s, pc))
      BY <1>6 DEF AwaitChild, CancelChild
    <2>2. children' \in Seq(ChildStates)
      <3>1. CASE children' = children
        BY <1>2, <3>1
      <3>2. CASE children' # children
        <4>1. children' = [children EXCEPT ![call[s].child] =
                              IF @ = "alive" THEN "cancelled" ELSE @]
          BY <1>6, <3>2 DEF AwaitChild, CancelChild
        <4>2. \A i \in DOMAIN children : children[i] \in ChildStates
          BY <1>2
        <4>3. /\ DOMAIN children' = DOMAIN children
              /\ \A i \in DOMAIN children' : children'[i] \in ChildStates
              /\ children' = [i \in DOMAIN children |-> children'[i]]
          BY <4>1, <4>2 DEF ChildStates
        <4> QED
          BY <1>2, <4>3
      <3> QED
        BY <3>1, <3>2
    <2> QED
      BY <1>1, <1>3, <2>1, <2>2, TypedAt
  <1>7. CASE ReadResult(s) /\ ~LoseChild(s)
    <2>1. children' \in Seq(ChildStates)
      BY <1>2, <1>7 DEF ReadResult
    <2>2. CASE Advance(s, At(s, "child_result"))
      BY <1>1, <1>3, <2>1, <2>2, TypedAt
    <2>3. ASSUME NEW answer \in Candidates, NEW digest \in BOOLEAN,
                 Advance(s, [At(s, "child_result") EXCEPT !.answer = answer,
                                                          !.digest = digest])
          PROVE  \E next : TypedStep(s, next, Points)
      <3> DEFINE next == [At(s, "child_result") EXCEPT !.answer = answer, !.digest = digest]
      <3>1. next \in Calls(Points) /\ next.note = call[s].note /\ next.pc = "child_result"
        BY <1>2, <1>3 DEF At, Calls
      <3>2. Advance(s, next)
        BY <2>3
      <3> HIDE DEF next
      <3> QED
        BY <1>1, <1>2, <2>1, <3>1, <3>2, TypedMove
    <2> QED
      BY <1>7, <2>2, <2>3 DEF ReadResult
  <1> QED
    BY <1>4, <1>5, <1>6, <1>7 DEF RunChild

\* What reconcile reads, and what it makes of it.
LEMMA ReadsTyped ==
    ASSUME NEW Points, Typed(Points), NEW s \in Sessions,
           ReadCandidates(s) \/ ReadEvaluations(s) \/ ReadReceipts(s)
    PROVE  \E next : TypedStep(s, next, Points)
  <1>1. /\ candidates \in Seq(Candidates) /\ evaluations \in Seq(Evaluations)
        /\ receipts \in Seq(Receipts) /\ call[s] \in Calls(Points)
        /\ call[s].note \in CallNotes \cup {None}
    BY DEF Typed, Inv, StoreTypeOK
  <1>2. UNCHANGED <<ledger, children, crashes>> /\ children' \in Seq(ChildStates)
    BY DEF ReadCandidates, ReadEvaluations, ReadReceipts, Typed
  <1>3. {"read_evaluations", "read_receipts", "read_events"} \subseteq AttemptPoints
    BY DEF AttemptPoints
  <1>4. ASSUME NEW next \in Calls(Points), Advance(s, next), next.note = call[s].note,
               next.pc \in {"read_evaluations", "read_receipts", "read_events"}
        PROVE  \E n : TypedStep(s, n, Points)
    BY <1>1, <1>2, <1>4, TypedMove
  <1>5. CASE ReadCandidates(s)
    <2>1. PICK last \in Candidates \cup {None} :
             last = IF candidates = <<>> THEN None ELSE candidates[Len(candidates)]
      BY <1>1
    <2> DEFINE next == [At(s, "read_evaluations") EXCEPT !.cand = last]
    <2>2. next \in Calls(Points) /\ next.note = call[s].note /\ next.pc = "read_evaluations"
      BY <1>1, <1>3 DEF At, Calls
    <2>3. Advance(s, next)
      BY <1>5, <2>1 DEF ReadCandidates
    <2> HIDE DEF next
    <2> QED
      BY <1>4, <2>2, <2>3
  <1>6. CASE ReadEvaluations(s)
    <2>1. PICK eligible \in BOOLEAN :
             eligible = (/\ evaluations # <<>>
                         /\ evaluations[Len(evaluations)].eligible)
      <3>1. CASE evaluations = <<>>
        BY <3>1
      <3>2. CASE evaluations # <<>>
        <4>1. evaluations[Len(evaluations)] \in Evaluations
          BY <1>1, <3>2
        <4> QED
          BY <3>2, <4>1 DEF Evaluations
      <3> QED
        BY <3>1, <3>2
    <2>2. PICK n \in Nat : n = Len(evaluations)
      BY <1>1
    <2> DEFINE next == [At(s, "read_receipts") EXCEPT !.evals = n, !.eligible = eligible]
    <2>3. next \in Calls(Points) /\ next.note = call[s].note /\ next.pc = "read_receipts"
      BY <1>1, <1>3 DEF At, Calls
    <2>4. Advance(s, next)
      BY <1>6, <2>1, <2>2 DEF ReadEvaluations
    <2> HIDE DEF next
    <2> QED
      BY <1>4, <2>3, <2>4
  <1>7. CASE ReadReceipts(s)
    <2>1. PICK n \in Nat : n = Len(receipts)
      BY <1>1
    <2> DEFINE next == [At(s, "read_events") EXCEPT !.receipts = n]
    <2>2. next \in Calls(Points) /\ next.note = call[s].note /\ next.pc = "read_events"
      BY <1>1, <1>3 DEF At, Calls
    <2>3. Advance(s, next)
      BY <1>7, <2>1 DEF ReadReceipts
    <2> HIDE DEF next
    <2> QED
      BY <1>4, <2>2, <2>3
  <1> QED
    BY <1>5, <1>6, <1>7

LEMMA DecisionType ==
    ASSUME NEW Points, NEW c \in Calls(Points), c.note \in CallNotes \cup {None},
           NEW applied, NEW next, next = Decision(c, applied)
    PROVE  /\ next \in Calls(Points)
           /\ next.note \in CallNotes \cup {None}
           /\ next.pc # "observe"
  <1>1. CASE Complete(c, applied)
    <2>1. PICK pc \in {"candidate_ready", "evaluation_eligible", "evaluation_ineligible"} :
             next = [c EXCEPT !.evals = 0, !.receipts = 0, !.pc = pc]
      BY <1>1 DEF Decision, Verdict
    <2>2. pc \in AttemptPoints
      BY DEF AttemptPoints, Events
    <2>3. PICK none \in Nat : none = 0
      OBVIOUS
    <2>4. next = [[c EXCEPT !.evals = none, !.receipts = none] EXCEPT !.pc = pc]
      BY <2>1, <2>3
    <2>5. [c EXCEPT !.evals = none, !.receipts = none] \in Calls(Points)
      BY DEF Calls
    <2>6. \A d \in Calls(Points) :
             /\ [d EXCEPT !.pc = pc] \in Calls(Points)
             /\ [d EXCEPT !.pc = pc].note = d.note
             /\ [d EXCEPT !.pc = pc].pc = pc
      BY <2>2 DEF Calls
    <2>7. [c EXCEPT !.evals = none, !.receipts = none].note = c.note
      BY DEF Calls
    <2> QED
      BY <2>4, <2>5, <2>6, <2>7
  <1>2. CASE ~Complete(c, applied)
    <2>1. PICK event \in {"interrupt", "evaluation_missing"} :
             next = [NoCall EXCEPT !.op = c.op, !.state = c.state, !.alone = c.alone,
                                   !.pc = event,
                                   !.note = IF event = "interrupt" THEN "interrupted"
                                                                   ELSE event]
      BY <1>2 DEF Decision
    <2>2. event \in AttemptPoints
      BY DEF AttemptPoints, Events
    <2>3. (IF event = "interrupt" THEN "interrupted" ELSE event) \in CallNotes \cap Observations
      BY SingleAttemptAssumption DEF CallNotes
    <2>4. PICK note \in CallNotes \cap Observations :
             next = [[[NoCall EXCEPT !.op = c.op, !.state = c.state] EXCEPT
                         !.alone = c.alone, !.pc = event] EXCEPT !.note = note]
      BY <2>1, <2>3
    <2>5. [NoCall EXCEPT !.op = c.op, !.state = c.state] \in Calls(Points)
      BY NoCallType DEF Calls
    <2>6. \A d \in Calls(Points) :
             /\ [d EXCEPT !.alone = c.alone, !.pc = event] \in Calls(Points)
             /\ [d EXCEPT !.alone = c.alone, !.pc = event].pc = event
      <3> SUFFICES ASSUME NEW d \in Calls(Points)
                   PROVE  /\ [d EXCEPT !.alone = c.alone, !.pc = event] \in Calls(Points)
                          /\ [d EXCEPT !.alone = c.alone, !.pc = event].pc = event
        OBVIOUS
      <3> QED
        BY <2>2 DEF Calls
    <2>7. \A d \in Calls(Points) :
             /\ [d EXCEPT !.note = note] \in Calls(Points)
             /\ [d EXCEPT !.note = note].note = note
             /\ [d EXCEPT !.note = note].pc = d.pc
      BY <2>4 DEF Calls
    <2>8. PICK d \in Calls(Points) : next = [d EXCEPT !.note = note] /\ d.pc = event
      BY <2>4, <2>5, <2>6
    <2> QED
      BY <2>4, <2>7, <2>8
  <1> QED
    BY <1>1, <1>2

LEMMA EventsTyped ==
    ASSUME NEW Points, Typed(Points), NEW s \in Sessions, ReadEvents(s)
    PROVE  \E next : TypedStep(s, next, Points)
  <1>1. UNCHANGED <<ledger, children, crashes>> /\ children' \in Seq(ChildStates)
        /\ call[s] \in Calls(Points) /\ call[s].note \in CallNotes \cup {None}
    BY DEF ReadEvents, Typed
  <1>2. Return(s) \/ \E applied : Advance(s, Decision(call[s], applied))
    BY Zenon DEF ReadEvents, Return
  <1>3. CASE Return(s)
    BY <1>1, <1>3, TypedReturn DEF Typed
  <1>4. ASSUME NEW applied, Advance(s, Decision(call[s], applied))
        PROVE  TypedStep(s, Decision(call[s], applied), Points)
    BY <1>1, <1>4, DecisionType, TypedMove
  <1> QED
    BY <1>2, <1>3, <1>4

LEMMA LedgerTyped ==
    ASSUME NEW Points, Typed(Points), NEW s \in Sessions, ProceedInLedger(s)
    PROVE  \E next : TypedStep(s, next, Points)
  BY CreateTyped, CommitTyped, EndTyped, ChildTyped, ReadsTyped, EventsTyped
     DEF ProceedInLedger

LEMMA BeginTyped ==
    ASSUME NEW Points, Typed(Points), NEW s \in Sessions,
           BeginAttempt(s) \/ BeginReconcile(s) \/ BeginCancel(s)
    PROVE  \E next : TypedStep(s, next, Points)
  <1>1. PICK op \in {"attempt", "reconcile", "cancel"},
             pc \in {"start_step", "read_candidates", "cancel"} : Begin(s, op, pc)
    BY DEF BeginAttempt, BeginReconcile, BeginCancel
  <1>2. PICK alone \in BOOLEAN :
           alone = (op = "reconcile" /\ \A t \in Sessions : ~Attempting(t))
    OBVIOUS
  <1> DEFINE next == [NoCall EXCEPT !.op = op, !.pc = pc, !.state = run, !.alone = alone]
  <1>3. Advance(s, next) /\ UNCHANGED <<ledger, children, crashes, world>>
    BY <1>1, <1>2 DEF Begin
  <1>4. run \in RunStates(Candidates) /\ children \in Seq(ChildStates)
    BY DEF Typed, Inv, StoreTypeOK
  <1>5. pc \in AttemptPoints \ {"observe"}
    BY DEF AttemptPoints, Events
  <1>6. next \in Calls(Points) /\ next.note = None /\ next.pc = pc
    BY <1>4, <1>5, NoCallType DEF Calls
  <1> HIDE DEF next
  <1>7. TypedStep(s, next, Points)
    BY <1>3, <1>4, <1>5, <1>6, TypedMove
  <1> QED
    BY <1>7

LEMMA VanishTyped ==
    ASSUME NEW Points, Typed(Points), NEW s \in Sessions, Vanish(s)
    PROVE  TypedStep(s, NoCall, Points)
  <1>1. /\ Return(s) /\ UNCHANGED ledger
        /\ crashes' \in 0 .. MaxCrashes
    BY SingleAttemptAssumption DEF Vanish, Typed
  <1>2. children' \in Seq(ChildStates)
    <2>1. children \in Seq(ChildStates)
      BY DEF Typed
    <2>2. \A i \in DOMAIN children :
             (IF Holds(s, i) /\ children[i] = "alive" THEN "lost" ELSE children[i])
                \in ChildStates
      BY <2>1 DEF ChildStates
    <2> QED
      BY <2>1, <2>2 DEF Vanish
  <1> QED
    BY <1>1, <1>2, TypedReturn

LEMMA ChildEndsTyped ==
    ASSUME NEW Points, Typed(Points), NEW i \in DOMAIN children, ChildEnds(i)
    PROVE  Typed(Points)' /\ UNCHANGED ledger
  <1>1. /\ children' = [children EXCEPT ![i] = "ended"]
        /\ UNCHANGED <<ledger, call, crashes>>
    BY DEF ChildEnds
  <1>2. children' \in Seq(ChildStates)
    BY <1>1, ExceptSeq DEF Typed, ChildStates
  <1>3. Inv'
    BY <1>1, InvStep DEF Typed
  <1> QED
    BY <1>1, <1>2, <1>3 DEF Typed, Calls, CallNotes

\* The ends of the attempt: the child's observation, a note on the way, the record.
LEMMA ObserveTyped ==
    ASSUME NEW Points, Typed(Points), NEW s \in Sessions, NEW effects \in Points \ {"observe"},
           ObserveChild(s, effects)
    PROVE  \E next : TypedStep(s, next, Points)
  <1>1. "child_result" \in Observations
    BY SingleAttemptAssumption
  <1>2. /\ \E event \in Observations : RecordObservation(event)
        /\ UNCHANGED <<children, crashes>> /\ children' \in Seq(ChildStates)
        /\ Advance(s, Failing(s)) \/ Advance(s, At(s, effects))
    BY <1>1 DEF ObserveChild, Typed
  <1> QED
    BY <1>2, TypedAt, TypedFailing

LEMMA NoteTyped ==
    ASSUME NEW Points, Typed(Points), NEW s \in Sessions, NEW name \in Observations,
           NEW next \in (AttemptPoints \cup Points) \ {"observe"}, Note(s, name, next)
    PROVE  TypedStep(s, At(s, next), Points)
  <1>1. /\ \E event \in Observations : RecordObservation(event)
        /\ UNCHANGED <<children, crashes>> /\ children' \in Seq(ChildStates)
        /\ Advance(s, At(s, next))
    BY DEF Note, Typed
  <1> QED
    BY <1>1, TypedAt

LEMMA RecordTyped ==
    ASSUME NEW Points, Typed(Points), NEW s \in Sessions, NEW eligible \in BOOLEAN,
           NEW receipt \in Receipts, NEW next \in (AttemptPoints \cup Points) \ {"observe"},
           call[s].digest => call[s].tree \in Candidates,
           Record(s, eligible, receipt, next)
    PROVE  \E n : TypedStep(s, n, Points)
  <1>1. UNCHANGED <<children, crashes>> /\ children' \in Seq(ChildStates)
        /\ call[s] \in Calls(Points) /\ call[s].note \in CallNotes \cup {None}
    BY DEF Record, Typed
  <1>2. CASE ~call[s].digest
    BY <1>1, <1>2, TypedReturn DEF Record, Typed
  <1>3. CASE call[s].digest
    <2>1. PICK score \in Scores : score = IF call[s].passed THEN 0 ELSE 1
      BY SingleAttemptAssumption
    <2>2. call[s].tree \in Candidates
      BY <1>3
    <2> DEFINE eval == [candidate |-> call[s].tree, eligible |-> eligible, score |-> score]
               n == [At(s, next) EXCEPT !.cand = call[s].tree, !.eligible = eligible]
    <2>3. eval \in Evaluations
      BY <2>2 DEF Evaluations
    <2>4. RecordAttemptWithReceipt(eval, receipt) /\ Advance(s, n)
      BY <1>3, <2>1 DEF Record
    <2>5. n \in Calls(Points) /\ n.note = call[s].note /\ n.pc = next
      BY <1>1, <2>2 DEF At, Calls
    <2> HIDE DEF n, eval
    <2>6. StoreNext
      BY <2>3, <2>4 DEF StoreNext
    <2>7. TypedStep(s, n, Points)
      BY <1>1, <2>4, <2>5, <2>6 DEF TypedStep, Typed
    <2> QED
      BY <2>7
  <1> QED
    BY <1>2, <1>3

LEMMA InitTyped ==
    ASSUME NEW Points, NEW untouched, AttemptInit(untouched)
    PROVE  Typed(Points)
  <1>1. Inv
    BY InvInit DEF AttemptInit
  <1>2. PICK creator \in Sessions :
          call = [s \in Sessions |->
                     IF s = creator
                     THEN [NoCall EXCEPT !.op = "create", !.pc = "build", !.note = "prepared"]
                     ELSE NoCall]
    BY DEF AttemptInit
  <1> DEFINE c == [NoCall EXCEPT !.op = "create", !.pc = "build", !.note = "prepared"]
  <1>3. c \in Calls(Points) /\ c.note = "prepared" /\ c.pc = "build"
    BY NoCallType, SingleAttemptAssumption DEF Calls, AttemptPoints
  <1> HIDE DEF c
  <1>4. call \in [Sessions -> Calls(Points)] /\ \A s \in Sessions : call[s] \in {c, NoCall}
    BY <1>2, <1>3, NoCallType DEF c
  <1>5. /\ \A s \in Sessions : call[s].note \in CallNotes \cup {None}
        /\ \A s \in Sessions : call[s].pc # "observe"
    BY <1>3, <1>4, NoCallType DEF CallNotes
  <1>6. children \in Seq(ChildStates) /\ crashes \in 0 .. MaxCrashes
    BY SingleAttemptAssumption DEF AttemptInit
  <1> QED
    BY <1>1, <1>4, <1>5, <1>6 DEF Typed

-----------------------------------------------------------------------------
(***************************************************************************)
(* Where the steps of a call lead, as far as the invariants below ask: who *)
(* makes the repository, who holds the child, what a reconcile has read.   *)
(***************************************************************************)

\* The points of a call that has the handle of its child.
Holding == {"await_child", "cancel_child", "read_result"}

\* The points of a reconcile up to a verdict that the attempt left no evidence.
Weighing == {"read_candidates", "read_evaluations", "read_receipts", "read_events",
             "interrupt", "evaluation_missing"}

Verdicts == {"evaluation_eligible", "evaluation_ineligible"}

Applied == {i \in DOMAIN journal : journal[i].event \in Verdicts}

\* A reconcile reads on, or decides that there is nothing to replay.
Weighs(s, next) ==
    /\ call[s].pc \in Weighing
    /\ next.alone = call[s].alone
    /\ next.state = call[s].state
    /\ UNCHANGED ledger
    /\ \/ next.pc = "read_evaluations"
       \/ next.pc = "read_receipts" /\ next.evals = Len(evaluations)
       \/ /\ call[s].pc = "read_receipts" /\ next.pc = "read_events"
          /\ next.evals = call[s].evals /\ next.receipts = Len(receipts)
       \/ /\ call[s].pc = "read_events" /\ next.pc \in {"interrupt", "evaluation_missing"}
          /\ ~Complete(call[s], Cardinality(Applied))

\* What a step of a call that has begun writes into the ledger.
WritesOf(s) ==
    /\ \/ UNCHANGED journal
       \/ Commit(s)
       \/ \E event : event \notin Verdicts /\ RecordObservation(event)
    /\ UNCHANGED <<evaluations, receipts>> \/ Inside(call[s])

\* The repository's making and the run's row are left alone.
Standing ==
    /\ {"repository", "recorded"} \subseteq DOMAIN world'
    /\ world'.repository = world.repository
    /\ world'.recorded = world.recorded

\* What every step of a call that has begun keeps to.
Goes(s, next) ==
    /\ Advance(s, next)
    /\ next.op \in {call[s].op, "none"}
    /\ \/ Commit(s) /\ next.state \in {run', NewRun}
       \/ /\ run' = run /\ next.state \in {call[s].state, NewRun}
          /\ next.op = "none" \/ call[s].pc # "start_step"
    /\ Build(s) \/ CreateRun(s) \/ (Standing /\ next.pc \notin {"build", "create_run"})
    /\ next.pc \in Weighing => Weighs(s, next)
    /\ \/ RunChild(s)
       \/ /\ children' = children
          /\ {call[s].pc, next.pc} \cap Holding = {}
          /\ next.answer \in {call[s].answer, None}
    /\ WritesOf(s)

LEMMA AtCarries ==
    ASSUME AttemptInv, NEW s \in Sessions, NEW pc
    PROVE  /\ At(s, pc).state = call[s].state
           /\ At(s, pc).alone = call[s].alone
           /\ At(s, pc).answer = call[s].answer
           /\ At(s, pc).evals = call[s].evals
           /\ At(s, pc).receipts = call[s].receipts
  BY DEF At, AttemptInv, WellFormed, NoCall

\* A step with no commit, no child and nothing weighed.
LEMMA GoesOn ==
    ASSUME NEW s \in Sessions, NEW next, Advance(s, next),
           next.op \in {call[s].op, "none"}, next.state \in {call[s].state, NewRun},
           next.op = "none" \/ call[s].pc # "start_step",
           next.answer \in {call[s].answer, None},
           next.pc \notin Weighing \cup Holding,
           call[s].pc \notin Holding,
           Build(s) \/ CreateRun(s) \/ (Standing /\ next.pc \notin {"build", "create_run"}),
           run' = run, children' = children, WritesOf(s)
    PROVE  Goes(s, next)
  BY DEF Goes

LEMMA GoesAt ==
    ASSUME AttemptInv, NEW s \in Sessions, NEW pc, Advance(s, At(s, pc)),
           pc \notin Weighing \cup Holding,
           call[s].pc \notin Holding \cup {"start_step"},
           Build(s) \/ CreateRun(s) \/ (Standing /\ pc \notin {"build", "create_run"}),
           run' = run, children' = children, WritesOf(s)
    PROVE  Goes(s, At(s, pc))
  BY AtFields, AtCarries, GoesOn

LEMMA GoesBack ==
    ASSUME NEW s \in Sessions, Return(s), call[s].pc \notin Holding,
           Build(s) \/ CreateRun(s) \/ Standing,
           run' = run, children' = children, WritesOf(s)
    PROVE  Goes(s, NoCall)
  <1>1. /\ NoCall.op = "none" /\ NoCall.state = NewRun /\ NoCall.answer = None
        /\ NoCall.pc = "idle"
    BY DEF NoCall
  <1> QED
    BY <1>1, GoesOn DEF Return, Weighing, Holding

LEMMA GoesWrong ==
    ASSUME NEW s \in Sessions, Advance(s, Failing(s)),
           call[s].pc \notin Holding \cup {"start_step"}, Standing,
           run' = run, children' = children, WritesOf(s)
    PROVE  Goes(s, Failing(s))
  <1>1. /\ Failing(s).op = call[s].op /\ Failing(s).state = call[s].state
        /\ Failing(s).answer = None /\ Failing(s).pc = "child_failed"
    BY DEF Failing, NoCall
  <1> QED
    BY <1>1, GoesOn DEF Weighing, Holding

\* Whose step it is, a commit leads to an observation, a child, a verdict or back.
LEMMA CommitGoes ==
    ASSUME NEW Points, AttemptInv, Typed(Points), NEW s \in Sessions, Commit(s), Standing
    PROVE  Goes(s, AfterCommit(s))
  <1> DEFINE c == [call[s] EXCEPT !.state = run']
             next == AfterCommit(s)
  <1>1. /\ call[s].pc \in Events /\ Advance(s, next) /\ UNCHANGED <<children, world>>
        /\ UNCHANGED <<evaluations, receipts>>
    BY DEF Commit, Transition, evidence
  <1>2. DOMAIN call[s] = DOMAIN NoCall
    BY DEF AttemptInv, WellFormed
  <1>3. c.op = call[s].op /\ c.state = run' /\ c.answer = call[s].answer
        /\ DOMAIN c = DOMAIN NoCall
    BY <1>2 DEF NoCall
  <1>4. PICK pc \in {"run_child", "observe"} \cup Verdicts :
           next = [c EXCEPT !.pc = pc] \/ next = NoCall
    BY DEF AfterCommit, Verdict, Verdicts
  <1>5. /\ NoCall.op = "none" /\ NoCall.state = NewRun /\ NoCall.answer = None
        /\ NoCall.pc = "idle"
    BY DEF NoCall
  <1> HIDE DEF c, next
  <1>6. \/ next = NoCall
        \/ /\ next.op = call[s].op /\ next.state = run'
           /\ next.answer = call[s].answer /\ next.pc = pc
    BY <1>3, <1>4 DEF NoCall
  <1>7. /\ next.op \in {call[s].op, "none"} /\ next.state \in {run', NewRun}
        /\ next.answer \in {call[s].answer, None}
        /\ next.pc \notin Weighing \cup Holding \cup {"build", "create_run"}
    BY <1>5, <1>6 DEF Weighing, Holding, Verdicts
  <1>8. call[s].pc \notin Holding
    BY <1>1 DEF Events, Holding
  <1> QED
    BY <1>1, <1>7, <1>8 DEF Goes, WritesOf, next

LEMMA EventsGo ==
    ASSUME NEW Points, AttemptInv, Typed(Points), NEW s \in Sessions, ReadEvents(s), Standing
    PROVE  \E next : Goes(s, next)
  <1>1. UNCHANGED <<ledger, children, crashes>> /\ call[s].pc = "read_events"
    BY DEF ReadEvents
  <1>2. WritesOf(s) /\ run' = run /\ children' = children
    BY <1>1 DEF WritesOf, ledger, evidence
  <1>3. CASE Return(s)
    BY <1>1, <1>2, <1>3, GoesBack DEF Holding
  <1>4. CASE ~Return(s)
    <2> DEFINE next == Decision(call[s], Cardinality(Applied))
    <2>1. Advance(s, next)
      BY <1>4, Zenon DEF ReadEvents, Return, Applied, Verdicts
    <2>2. DOMAIN call[s] = DOMAIN NoCall
      BY DEF AttemptInv, WellFormed
    <2>3. CASE Complete(call[s], Cardinality(Applied))
      <3>1. PICK pc \in {"candidate_ready", "evaluation_eligible", "evaluation_ineligible"} :
               next = [call[s] EXCEPT !.evals = 0, !.receipts = 0, !.pc = pc]
        BY <2>3 DEF Decision, Verdict
      <3> HIDE DEF next
      <3>2. /\ next.op = call[s].op /\ next.state = call[s].state
            /\ next.answer = call[s].answer /\ next.pc = pc
        BY <2>2, <3>1 DEF NoCall
      <3> QED
        BY <1>1, <1>2, <2>1, <3>2, GoesOn DEF Weighing, Holding
    <2>4. CASE ~Complete(call[s], Cardinality(Applied))
      <3>1. PICK event \in {"interrupt", "evaluation_missing"} :
               \E note : next = [NoCall EXCEPT !.op = call[s].op, !.state = call[s].state,
                                              !.alone = call[s].alone, !.pc = event,
                                              !.note = note]
        BY <2>4, Zenon DEF Decision
      <3> HIDE DEF next
      <3>2. /\ next.op = call[s].op /\ next.state = call[s].state
            /\ next.answer = None /\ next.pc = event /\ next.alone = call[s].alone
        BY <3>1 DEF NoCall
      <3>3. Weighs(s, next)
        BY <1>1, <2>4, <3>2 DEF Weighs, Weighing
      <3> QED
        BY <1>1, <1>2, <2>1, <3>2, <3>3 DEF Goes, Holding
    <2> QED
      BY <2>3, <2>4
  <1> QED
    BY <1>3, <1>4

LEMMA ReadsGo ==
    ASSUME AttemptInv, NEW s \in Sessions,
           ReadCandidates(s) \/ ReadEvaluations(s) \/ ReadReceipts(s), Standing
    PROVE  \E next : Goes(s, next)
  <1>1. /\ UNCHANGED <<ledger, children, crashes>>
        /\ call[s].pc \in {"read_candidates", "read_evaluations", "read_receipts"}
    BY DEF ReadCandidates, ReadEvaluations, ReadReceipts
  <1>2. WritesOf(s) /\ run' = run /\ children' = children
    BY <1>1 DEF WritesOf, ledger, evidence
  <1>3. DOMAIN call[s] = DOMAIN NoCall
    BY DEF AttemptInv, WellFormed
  <1>4. ASSUME NEW next, Advance(s, next), next.op = call[s].op,
               next.state = call[s].state, next.answer = call[s].answer,
               next.pc \in {"read_evaluations", "read_receipts", "read_events"},
               Weighs(s, next)
        PROVE  \E n : Goes(s, n)
    <2>1. Goes(s, next)
      BY <1>1, <1>2, <1>4 DEF Goes, Holding
    <2> QED
      BY <2>1
  <1>5. CASE ReadCandidates(s)
    <2>1. PICK last : Advance(s, [At(s, "read_evaluations") EXCEPT !.cand = last])
      BY <1>5, Zenon DEF ReadCandidates
    <2> DEFINE next == [At(s, "read_evaluations") EXCEPT !.cand = last]
    <2>2. /\ next.op = call[s].op /\ next.state = call[s].state /\ next.pc = "read_evaluations"
          /\ next.answer = call[s].answer /\ next.alone = call[s].alone
      BY <1>3 DEF At, NoCall
    <2>3. Advance(s, next)
      BY <2>1
    <2> HIDE DEF next
    <2>4. Weighs(s, next)
      BY <1>1, <2>2 DEF Weighs, Weighing
    <2> QED
      BY <1>4, <2>2, <2>3, <2>4
  <1>6. CASE ReadEvaluations(s)
    <2>1. PICK eligible : Advance(s, [At(s, "read_receipts") EXCEPT !.evals = Len(evaluations),
                                                                    !.eligible = eligible])
      BY <1>6, Zenon DEF ReadEvaluations
    <2> DEFINE next == [At(s, "read_receipts") EXCEPT !.evals = Len(evaluations),
                                                     !.eligible = eligible]
    <2>2. /\ next.op = call[s].op /\ next.state = call[s].state /\ next.pc = "read_receipts"
          /\ next.answer = call[s].answer /\ next.alone = call[s].alone
          /\ next.evals = Len(evaluations)
      BY <1>3 DEF At, NoCall
    <2>3. Advance(s, next)
      BY <2>1
    <2> HIDE DEF next
    <2>4. Weighs(s, next)
      BY <1>1, <2>2 DEF Weighs, Weighing
    <2> QED
      BY <1>4, <2>2, <2>3, <2>4
  <1>7. CASE ReadReceipts(s)
    <2> DEFINE next == [At(s, "read_events") EXCEPT !.receipts = Len(receipts)]
    <2>1. Advance(s, next) /\ call[s].pc = "read_receipts"
      BY <1>7 DEF ReadReceipts
    <2>2. /\ next.op = call[s].op /\ next.state = call[s].state /\ next.pc = "read_events"
          /\ next.answer = call[s].answer /\ next.alone = call[s].alone
          /\ next.evals = call[s].evals /\ next.receipts = Len(receipts)
      BY <1>3 DEF At, NoCall
    <2> HIDE DEF next
    <2>3. Weighs(s, next)
      BY <1>1, <2>1, <2>2 DEF Weighs, Weighing
    <2> QED
      BY <1>4, <2>1, <2>2, <2>3
  <1> QED
    BY <1>5, <1>6, <1>7

\* The steps of lifecycle.run: they only touch the child.
LEMMA ChildGoes ==
    ASSUME AttemptInv, NEW s \in Sessions, RunChild(s), Standing
    PROVE  \E next : Goes(s, next)
  <1>1. /\ UNCHANGED ledger
        /\ call[s].pc \in {"run_child"} \cup Holding
    BY DEF RunChild, LaunchChild, AwaitChild, CancelChild, ReadResult, Holding
  <1>2. WritesOf(s) /\ run' = run
    BY <1>1 DEF WritesOf, ledger, evidence
  <1>3. DOMAIN call[s] = DOMAIN NoCall
    BY DEF AttemptInv, WellFormed
  <1>4. ASSUME NEW next, Advance(s, next), next.op = call[s].op,
               next.state = call[s].state,
               next.pc \in Holding \cup {"child_result", "child_failed"}
        PROVE  \E n : Goes(s, n)
    <2>1. Goes(s, next)
      BY <1>1, <1>2, <1>4 DEF Goes, Holding, Weighing
    <2> QED
      BY <2>1
  <1>5. CASE Advance(s, Failing(s))
    <2>1. /\ Failing(s).op = call[s].op /\ Failing(s).state = call[s].state
          /\ Failing(s).pc = "child_failed"
      BY DEF Failing, NoCall
    <2> QED
      BY <1>4, <1>5, <2>1
  <1>6. ASSUME NEW pc \in Holding \cup {"child_result"}, Advance(s, At(s, pc))
        PROVE  \E n : Goes(s, n)
    BY <1>4, <1>6, AtFields, AtCarries
  <1>7. ASSUME NEW child, Advance(s, [At(s, "await_child") EXCEPT !.child = child])
        PROVE  \E n : Goes(s, n)
    <2> DEFINE next == [At(s, "await_child") EXCEPT !.child = child]
    <2>1. next.op = call[s].op /\ next.state = call[s].state /\ next.pc = "await_child"
      BY <1>3 DEF At, NoCall
    <2>2. Advance(s, next)
      BY <1>7
    <2> HIDE DEF next
    <2> QED
      BY <1>4, <2>1, <2>2 DEF Holding
  <1>8. ASSUME NEW answer, NEW digest,
               Advance(s, [At(s, "child_result") EXCEPT !.answer = answer, !.digest = digest])
        PROVE  \E n : Goes(s, n)
    <2> DEFINE next == [At(s, "child_result") EXCEPT !.answer = answer, !.digest = digest]
    <2>1. next.op = call[s].op /\ next.state = call[s].state /\ next.pc = "child_result"
      BY <1>3 DEF At, NoCall
    <2>2. Advance(s, next)
      BY <1>8
    <2> HIDE DEF next
    <2> QED
      BY <1>4, <2>1, <2>2
  <1>9. \/ Advance(s, Failing(s))
        \/ \E pc \in Holding \cup {"child_result"} : Advance(s, At(s, pc))
        \/ \E child : Advance(s, [At(s, "await_child") EXCEPT !.child = child])
        \/ \E answer, digest :
              Advance(s, [At(s, "child_result") EXCEPT !.answer = answer, !.digest = digest])
    BY DEF RunChild, LaunchChild, AwaitChild, CancelChild, ReadResult, LoseChild, Holding
  <1> QED
    BY <1>5, <1>6, <1>7, <1>8, <1>9

-----------------------------------------------------------------------------
\* The creation: the one call that makes the repository, and until when it does.

CreationInv ==
    /\ {"repository", "recorded"} \subseteq DOMAIN world
    /\ world.repository \in Seq(Rows(Repository))
    /\ world.recorded \in BOOLEAN
    /\ world.recorded => world.repository = Repository
    /\ \A s \in Sessions : call[s].pc \in {"build", "create_run"} => call[s].op = "create"
    /\ \A s, t \in Sessions : call[s].op = "create" /\ call[t].op = "create" => s = t
    /\ \A s \in Sessions : call[s].pc = "build" => Len(world.repository) < Len(Repository)
    /\ \A s \in Sessions : call[s].pc = "create_run" => world.repository = Repository

\* Every step of a call that has begun, but for Build and CreateRun.
LEMMA CreationKept ==
    ASSUME AttemptInv, CreationInv, NEW s \in Sessions, NEW next, Advance(s, next),
           next.op \in {call[s].op, "none", "attempt", "reconcile", "cancel"},
           next.pc \notin {"build", "create_run"}, Standing
    PROVE  CreationInv'
  <1>1. \A t \in Sessions : call'[t] = IF t = s THEN next ELSE call[t]
    BY DEF Advance, AttemptInv
  <1> QED
    BY <1>1 DEF CreationInv, Standing, Repository, Rows

LEMMA RepositoryGrows ==
    /\ Repository \in Seq(Rows(Repository)) /\ Len(Repository) = 4
    /\ \A n \in 1 .. 4 : /\ SubSeq(Repository, 1, n) \in Seq(Rows(Repository))
                         /\ Len(SubSeq(Repository, 1, n)) = n
    /\ SubSeq(Repository, 1, 4) = Repository
  <1>1. Len(Repository) = 4 /\ DOMAIN Repository = 1 .. 4
    BY DEF Repository
  <1>2. \A i \in 1 .. 4 : Repository[i] \in Rows(Repository)
    BY <1>1 DEF Rows
  <1>3. Repository \in Seq(Rows(Repository))
    <2> DEFINE parts == Rows(Repository)
    <2>1. \A i \in 1 .. 4 : Repository[i] \in parts
      BY <1>2
    <2> HIDE DEF parts
    <2>2. Repository = [i \in 1 .. 4 |-> Repository[i]]
      BY DEF Repository
    <2>3. Repository \in Seq(parts)
      BY <2>1, <2>2
    <2> QED
      BY <2>3 DEF parts
  <1>4. ASSUME NEW n \in 1 .. 4
        PROVE  /\ SubSeq(Repository, 1, n) \in Seq(Rows(Repository))
               /\ Len(SubSeq(Repository, 1, n)) = n
    <2> DEFINE parts == Rows(Repository)
    <2>1. \A i \in 1 .. n : Repository[i] \in parts
      BY <1>2
    <2>2. 1 \in Int /\ n \in Int /\ 1 <= n /\ n - 1 + 1 = n
      OBVIOUS
    <2> HIDE DEF parts
    <2>3. SubSeq(Repository, 1, n) \in Seq(parts) /\ Len(SubSeq(Repository, 1, n)) = n
      BY <2>1, <2>2, SubSeqProperties
    <2> QED
      BY <2>3 DEF parts
  <1>5. SubSeq(Repository, 1, 4) = Repository
    BY <1>1, <1>3, SubSeqProperties
  <1> QED
    BY <1>1, <1>3, <1>4, <1>5

LEMMA BuildKeepsCreation ==
    ASSUME AttemptInv, CreationInv, NEW s \in Sessions, Build(s)
    PROVE  CreationInv'
  <1>1. CASE Return(s) /\ UNCHANGED world
    <2>1. NoCall.op = "none" /\ NoCall.pc = "idle"
      BY DEF NoCall
    <2> QED
      BY <1>1, <2>1, CreationKept DEF Return, Standing, CreationInv
  <1>2. CASE ~(Return(s) /\ UNCHANGED world)
    <2> DEFINE built == Len(world.repository)
               pc == IF built + 1 = Len(Repository) THEN "create_run" ELSE "build"
    <2>1. /\ call[s].pc = "build"
          /\ world' = [world EXCEPT !.repository = SubSeq(Repository, 1, built + 1)]
          /\ Advance(s, At(s, pc))
      BY <1>2 DEF Build, Raise
    <2>2. built \in Nat /\ built < 4 /\ built + 1 \in 1 .. 4
      BY <2>1, RepositoryGrows DEF CreationInv
    <2>3. /\ world'.repository = SubSeq(Repository, 1, built + 1)
          /\ world'.recorded = world.recorded
          /\ {"repository", "recorded"} \subseteq DOMAIN world'
      BY <2>1 DEF CreationInv
    <2>4. \A t \in Sessions : call'[t] = IF t = s THEN At(s, pc) ELSE call[t]
      BY <2>1 DEF Advance, AttemptInv
    <2>5. At(s, pc).op = call[s].op /\ At(s, pc).pc = pc /\ call[s].op = "create"
      BY <2>1, AtFields DEF CreationInv
    <2>6. \A t \in Sessions : t # s => call'[t].pc \notin {"build", "create_run"}
      BY <2>4, <2>5 DEF CreationInv
    <2>7. ~world.recorded
      <3>1. Len(Repository) = 4
        BY RepositoryGrows
      <3>2. ASSUME world.repository = Repository
            PROVE  FALSE
        <4>1. built = 4
          BY <3>1, <3>2
        <4> HIDE DEF built
        <4> QED
          BY <2>2, <4>1
      <3> QED
        BY <3>2 DEF CreationInv
    <2>8. /\ world'.repository \in Seq(Rows(Repository))
          /\ Len(world'.repository) = built + 1
          /\ pc = "create_run" => world'.repository = Repository
      BY <2>2, <2>3, RepositoryGrows
    <2>9. pc = "build" => Len(world'.repository) < 4
      BY <2>2, <2>8, RepositoryGrows
    <2>10. pc \in {"build", "create_run"}
      OBVIOUS
    <2> HIDE DEF pc, built
    <2>11. \A t, u \in Sessions : call'[t].op = "create" /\ call'[u].op = "create" => t = u
      BY <2>4, <2>5 DEF CreationInv
    <2>12. \A t \in Sessions : call'[t].pc \in {"build", "create_run"} => t = s
      BY <2>6
    <2>13. call'[s].op = "create" /\ call'[s].pc = pc
      BY <2>4, <2>5
    <2>14. /\ (Rows(Repository) = Rows(Repository)') /\ (Repository = Repository')
      BY DEF Rows, Repository
    <2> QED
      BY <2>3, <2>7, <2>8, <2>9, <2>11, <2>12, <2>13, <2>14, RepositoryGrows DEF CreationInv
  <1> QED
    BY <1>1, <1>2

LEMMA CreateRunKeepsCreation ==
    ASSUME AttemptInv, CreationInv, NEW s \in Sessions, CreateRun(s)
    PROVE  CreationInv'
  <1>1. CASE Return(s) /\ UNCHANGED world
    <2>1. NoCall.op = "none" /\ NoCall.pc = "idle"
      BY DEF NoCall
    <2> QED
      BY <1>1, <2>1, CreationKept DEF Return, Standing, CreationInv
  <1>2. CASE ~(Return(s) /\ UNCHANGED world)
    <2>1. /\ call[s].pc = "create_run"
          /\ world' = [world EXCEPT !.recorded = TRUE]
          /\ Advance(s, At(s, "approve"))
      BY <1>2 DEF CreateRun, Raise
    <2>2. world.repository = Repository
      BY <2>1 DEF CreationInv
    <2>3. /\ world'.repository = world.repository /\ world'.recorded
          /\ {"repository", "recorded"} \subseteq DOMAIN world'
      BY <2>1 DEF CreationInv
    <2>4. \A t \in Sessions : call'[t] = IF t = s THEN At(s, "approve") ELSE call[t]
      BY <2>1 DEF Advance, AttemptInv
    <2>5. At(s, "approve").op = call[s].op /\ At(s, "approve").pc = "approve"
      BY AtFields
    <2>6. world'.recorded \in BOOLEAN
      BY <2>1 DEF CreationInv
    <2>7. /\ (Rows(Repository) = Rows(Repository)') /\ (Repository = Repository')
      BY DEF Rows, Repository
    <2> QED
      BY <2>2, <2>3, <2>4, <2>5, <2>6, <2>7 DEF CreationInv
  <1> QED
    BY <1>1, <1>2

\* What a step of a call on the ledger or with its child keeps to.
LEMMA LedgerGoes ==
    ASSUME NEW Points, AttemptInv, Typed(Points), CreationInv, NEW s \in Sessions,
           ProceedInLedger(s)
    PROVE  \E next : Goes(s, next)
  <1>1. CASE Build(s)
    <2>1. /\ UNCHANGED <<ledger, children, crashes>> /\ call[s].pc = "build"
          /\ Return(s) \/ \E pc \in {"build", "create_run"} : Advance(s, At(s, pc))
      BY <1>1 DEF Build, Raise
    <2>2. WritesOf(s) /\ run' = run /\ children' = children
      BY <2>1 DEF WritesOf, ledger, evidence
    <2>3. CASE Return(s)
      BY <1>1, <2>1, <2>2, <2>3, GoesBack DEF Holding
    <2>4. ASSUME NEW pc \in {"build", "create_run"}, Advance(s, At(s, pc))
          PROVE  Goes(s, At(s, pc))
      BY <1>1, <2>1, <2>2, <2>4, GoesAt DEF Holding, Weighing
    <2> QED
      BY <2>1, <2>3, <2>4
  <1>2. CASE CreateRun(s)
    <2>1. /\ UNCHANGED <<ledger, children, crashes>> /\ call[s].pc = "create_run"
          /\ Return(s) \/ Advance(s, At(s, "approve"))
      BY <1>2 DEF CreateRun, Raise
    <2>2. WritesOf(s) /\ run' = run /\ children' = children
      BY <2>1 DEF WritesOf, ledger, evidence
    <2> QED
      BY <1>2, <2>1, <2>2, GoesBack, GoesAt DEF Holding, Weighing
  <1>3. CASE ~(Build(s) \/ CreateRun(s))
    <2>1. Standing
      BY <1>3 DEF ProceedInLedger, Commit, Refuse, Observe, RunChild, LaunchChild, AwaitChild,
         CancelChild, ReadResult, ReadCandidates, ReadEvaluations, ReadReceipts, ReadEvents,
         Standing, CreationInv
    <2>2. CASE Refuse(s)
      <3>1. Return(s) /\ UNCHANGED <<ledger, children>> /\ call[s].pc \in Events
        BY <2>2 DEF Refuse
      <3> QED
        BY <2>1, <3>1, GoesBack DEF WritesOf, ledger, evidence, Events, Holding
    <2>3. CASE Observe(s)
      <3>1. /\ Return(s) /\ UNCHANGED children /\ call[s].pc = "observe"
            /\ RecordObservation(call[s].note)
        BY <2>3 DEF Observe
      <3>2. call[s].note \in CallNotes
        BY <3>1 DEF Typed
      <3>3. call[s].note \notin Verdicts
        BY <3>2 DEF CallNotes, Verdicts
      <3>4. WritesOf(s) /\ run' = run
        BY <3>1, <3>3 DEF WritesOf, RecordObservation, evidence
      <3> QED
        BY <2>1, <3>1, <3>4, GoesBack DEF Holding
    <2> QED
      BY <1>3, <2>1, <2>2, <2>3, CommitGoes, ChildGoes, ReadsGo, EventsGo
         DEF ProceedInLedger
  <1> QED
    BY <1>1, <1>2, <1>3

LEMMA GoesKeepsCreation ==
    ASSUME AttemptInv, CreationInv, NEW s \in Sessions, NEW next, Goes(s, next)
    PROVE  CreationInv'
  BY BuildKeepsCreation, CreateRunKeepsCreation, CreationKept DEF Goes

LEMMA BackKeepsCreation ==
    ASSUME AttemptInv, CreationInv, NEW s \in Sessions, Vanish(s)
    PROVE  CreationInv'
  <1>1. NoCall.op = "none" /\ NoCall.pc = "idle"
    BY DEF NoCall
  <1>2. Standing /\ Advance(s, NoCall)
    BY DEF Vanish, Return, Standing, CreationInv
  <1> QED
    BY <1>1, <1>2, CreationKept

LEMMA BeginKeepsCreation ==
    ASSUME AttemptInv, CreationInv, NEW s \in Sessions,
           BeginAttempt(s) \/ BeginReconcile(s) \/ BeginCancel(s)
    PROVE  CreationInv'
  <1>1. PICK op \in {"attempt", "reconcile", "cancel"},
             pc \in {"start_step", "read_candidates", "cancel"} : Begin(s, op, pc)
    BY DEF BeginAttempt, BeginReconcile, BeginCancel
  <1>2. Standing
    BY <1>1 DEF Begin, Standing, CreationInv
  <1>3. PICK state, alone :
           Advance(s, [NoCall EXCEPT !.op = op, !.pc = pc, !.state = state, !.alone = alone])
    BY <1>1, Zenon DEF Begin
  <1> DEFINE next == [NoCall EXCEPT !.op = op, !.pc = pc, !.state = state, !.alone = alone]
  <1>4. next.op = op /\ next.pc = pc
    BY DEF NoCall
  <1>5. Advance(s, next)
    BY <1>3
  <1> HIDE DEF next
  <1> QED
    BY <1>2, <1>4, <1>5, CreationKept

\* The creation of an attempt's Init, whatever else the world is made of.
LEMMA InitCreation ==
    ASSUME NEW untouched, AttemptInit(untouched),
           {"repository", "recorded"} \subseteq DOMAIN untouched,
           untouched.repository = <<>>, untouched.recorded = FALSE
    PROVE  CreationInv
  <1>1. PICK creator \in Sessions :
          call = [s \in Sessions |->
                     IF s = creator
                     THEN [NoCall EXCEPT !.op = "create", !.pc = "build", !.note = "prepared"]
                     ELSE NoCall]
    BY DEF AttemptInit
  <1>2. \A s \in Sessions : /\ call[s].op = IF s = creator THEN "create" ELSE "none"
                            /\ call[s].pc = IF s = creator THEN "build" ELSE "idle"
    BY <1>1 DEF NoCall
  <1>3. world = untouched /\ <<>> \in Seq(Rows(Repository)) /\ Len(<<>>) < 4
    BY DEF AttemptInit
  <1>4. \A s \in Sessions : call[s].pc # "create_run"
    BY <1>2
  <1>5. \A s \in Sessions : call[s].pc = "build" => call[s].op = "create"
    BY <1>2
  <1> QED
    BY <1>2, <1>3, <1>4, <1>5, RepositoryGrows DEF CreationInv

-----------------------------------------------------------------------------
(***************************************************************************)
(* Why no receipt is discarded: a reconcile that began when no call was    *)
(* inside the attempt stays alone as long as the revision it holds is the  *)
(* run's, for to get inside a call moves the run.  So what it has read is  *)
(* what there is, and no verdict has been given, or the run were over.     *)
(***************************************************************************)

\* What a reconcile that is alone, and not stale, has found out.
Weighed(s) ==
    /\ run.status \in Active
    /\ \A t \in Sessions : ~Inside(call[t])
    /\ call[s].pc \in {"read_receipts", "read_events"} => call[s].evals = Len(evaluations)
    /\ call[s].pc = "read_events" => call[s].receipts = Len(receipts)
    /\ call[s].pc \in {"interrupt", "evaluation_missing"} => receipts = <<>>

WeighInv ==
    /\ \A s \in Sessions : call[s].state.revision <= run.revision
    /\ Applied # {} => run.status \in Terminal
    /\ \A s \in Sessions :
          call[s].alone /\ call[s].pc \in Weighing /\ call[s].state.revision = run.revision
             => Weighed(s)

\* A receipt never lacks its evaluation, nor an evaluation its receipt.
Paired == receipts = <<>> <=> evaluations = <<>>

\* A run that has its verdict is over, and one that is over takes no event.
LEMMA VerdictEnds ==
    ASSUME NEW Digests, NEW r \in RunStates(Digests), NEW cand \in Digests \cup {None},
           NEW event \in Events, Accepts(r, event, cand, 0)
    PROVE  /\ r.status \notin Terminal
           /\ Apply(r, event, cand, 0).revision = r.revision + 1
           /\ event \in Verdicts => Apply(r, event, cand, 0).status \in Terminal
  <1> DEFINE t == Apply(r, event, cand, 0)
  <1>1. r.status \notin Terminal
    BY DEF Accepts, Allowed, Terminal
  <1>2. CASE event \in AttemptEnd
    <2>1. /\ t.steps_used = r.steps_used + 1 /\ t.revision = r.revision + 1
          /\ t.status \in {StatusAfterAttempt("succeeded", t.steps_used, t.no_progress, t.cost),
                           StatusAfterAttempt("budget_exhausted", t.steps_used,
                                              t.no_progress, t.cost)}
      BY <1>2, AttemptFields
    <2>2. r.steps_used \in Nat
      BY DEF RunStates
    <2> HIDE DEF t
    <2>3. Spent(t.steps_used, t.cost)
      BY <2>1, <2>2, SingleAttemptAssumption DEF Spent
    <2>4. t.status \in Terminal
      BY <2>1, <2>3 DEF StatusAfterAttempt, Terminal
    <2> QED
      BY <1>1, <2>1, <2>4 DEF t
  <1>3. CASE event \notin AttemptEnd
    <2>1. t.revision = r.revision + 1
      BY <1>3, MoveFields
    <2> QED
      BY <1>1, <1>3, <2>1 DEF Verdicts, AttemptEnd, Unproductive
  <1> QED
    BY <1>2, <1>3

\* A row more in the journal.
LEMMA AppliedGrows ==
    ASSUME NEW S, journal \in Seq(S), NEW row, journal' = Append(journal, row)
    PROVE  Applied' # {} => Applied # {} \/ row.event \in Verdicts
  <1>1. /\ DOMAIN journal' = 1 .. (Len(journal) + 1) /\ DOMAIN journal = 1 .. Len(journal)
        /\ \A i \in 1 .. Len(journal) : journal'[i] = journal[i]
        /\ journal'[Len(journal) + 1] = row
        /\ Len(journal) \in Nat
    OBVIOUS
  <1>2. \A i \in DOMAIN journal' : i \in DOMAIN journal \/ i = Len(journal) + 1
    BY <1>1
  <1> QED
    BY <1>1, <1>2 DEF Applied, Verdicts

LEMMA CommitKeepsWeigh ==
    ASSUME NEW Points, AttemptInv, Typed(Points), WeighInv,
           NEW s \in Sessions, NEW next, Commit(s), Goes(s, next)
    PROVE  WeighInv'
  <1> DEFINE cand == Promoted(call[s], call[s].pc)
  <1>1. /\ call[s].pc \in Events
        /\ Accepts(run, call[s].pc, cand, 0)
        /\ run' = Apply(run, call[s].pc, cand, 0)
        /\ journal' = Append(journal, TransitionRow(call[s].pc, cand, 0, run'))
        /\ Advance(s, next)
    BY DEF Commit, Transition, Goes
  <1>2. run \in RunStates(Candidates) /\ journal \in Seq(JournalRows)
        /\ call[s] \in Calls(Points)
    BY DEF Typed, Inv, StoreTypeOK
  <1>3. cand \in Candidates \cup {None}
    BY <1>2 DEF Promoted, Calls
  <1>4. /\ run.status \notin Terminal
        /\ run'.revision = run.revision + 1
        /\ call[s].pc \in Verdicts => run'.status \in Terminal
    BY <1>1, <1>2, <1>3, VerdictEnds
  <1>5. Applied' # {} => run'.status \in Terminal
    <2>1. TransitionRow(call[s].pc, cand, 0, run').event = call[s].pc
      BY DEF TransitionRow
    <2> QED
      BY <1>1, <1>2, <1>4, <2>1, AppliedGrows DEF WeighInv
  <1>6. \A t \in Sessions : call'[t] = IF t = s THEN next ELSE call[t]
    BY <1>1 DEF Advance, AttemptInv
  <1>7. run.revision \in Nat /\ \A t \in Sessions : call[t].state.revision \in Nat
    <2>1. \A t \in Sessions : call[t] \in Calls(Points)
      BY DEF Typed
    <2>2. \A t \in Sessions : call[t].state \in RunStates(Candidates)
      BY <2>1 DEF Calls
    <2> QED
      BY <1>2, <2>2 DEF RunStates
  <1>8. next.pc \notin Weighing
    <2>1. run' # run
      BY <1>4, <1>7
    <2> QED
      BY <2>1 DEF Goes, Weighs, ledger
  <1>9. next.state.revision <= run'.revision
    <2>1. NewRun.revision = 0
      BY DEF NewRun
    <2>2. next.state \in {run', NewRun}
      BY <1>4, <1>7 DEF Goes
    <2> QED
      BY <1>4, <1>7, <2>1, <2>2
  <1>10. \A t \in Sessions : t # s => call'[t].state.revision < run'.revision
    BY <1>4, <1>6, <1>7 DEF WeighInv
  <1>11. \A t \in Sessions : call'[t].state.revision <= run'.revision
    <2> SUFFICES ASSUME NEW t \in Sessions
                 PROVE  call'[t].state.revision <= run'.revision
      OBVIOUS
    <2>1. CASE t = s
      BY <1>6, <1>9, <2>1
    <2>2. CASE t # s
      BY <1>4, <1>6, <1>7, <2>2 DEF WeighInv
    <2> QED
      BY <2>1, <2>2
  <1>12. \A t \in Sessions : call'[t].pc \in Weighing => call'[t].state.revision # run'.revision
    <2> SUFFICES ASSUME NEW t \in Sessions, call'[t].pc \in Weighing
                 PROVE  call'[t].state.revision # run'.revision
      OBVIOUS
    <2>1. t # s
      BY <1>6, <1>8
    <2> QED
      BY <1>4, <1>6, <1>7, <2>1 DEF WeighInv
  <1> QED
    BY <1>5, <1>11, <1>12 DEF WeighInv, Weighing

\* A step that moves no run: the others' readings still hold.
LEMMA QuietKeepsWeigh ==
    ASSUME AttemptInv, WeighInv, NEW s \in Sessions, NEW next, Advance(s, next), run' = run,
           next.state.revision <= run.revision,
           Applied' # {} => Applied # {},
           \/ UNCHANGED <<evaluations, receipts>>
           \/ Inside(call[s]),
           Inside(next) => Inside(call[s]),
           next.alone /\ next.pc \in Weighing /\ next.state.revision = run.revision
              => Weighed(s)'
    PROVE  WeighInv'
  <1>1. \A t \in Sessions : call'[t] = IF t = s THEN next ELSE call[t]
    BY DEF Advance, AttemptInv
  <1>2. \A t \in Sessions : Inside(call'[t]) => Inside(call[t])
    BY <1>1
  <1>3. \A t \in Sessions : Inside(call[t])' <=> Inside(call'[t])
    BY DEF Inside
  <1>4. ASSUME NEW t \in Sessions, t # s, call'[t].alone, call'[t].pc \in Weighing,
               call'[t].state.revision = run'.revision
        PROVE  Weighed(t)'
    <2>1. call'[t] = call[t] /\ Weighed(t)
      BY <1>1, <1>4 DEF WeighInv
    <2>2. \A u \in Sessions : ~Inside(call'[u])
      BY <1>2, <2>1 DEF Weighed
    <2>3. UNCHANGED <<evaluations, receipts>>
      BY <2>1 DEF Weighed
    <2> QED
      BY <1>3, <2>1, <2>2, <2>3 DEF Weighed, Active
  <1>5. ASSUME NEW t \in Sessions, call'[t].alone, call'[t].pc \in Weighing,
               call'[t].state.revision = run'.revision
        PROVE  Weighed(t)'
    BY <1>1, <1>4, <1>5
  <1>6. \A t \in Sessions : call'[t].state.revision <= run'.revision
    BY <1>1 DEF WeighInv
  <1> QED
    BY <1>5, <1>6 DEF WeighInv, Terminal, Weighing

LEMMA GoesKeepsWeigh ==
    ASSUME NEW Points, AttemptInv, Typed(Points), Paired, WeighInv,
           NEW s \in Sessions, NEW next, Goes(s, next)
    PROVE  WeighInv'
  <1>1. CASE Commit(s)
    BY <1>1, CommitKeepsWeigh
  <1>2. CASE ~Commit(s)
    <2>1. /\ run' = run /\ next.state \in {call[s].state, NewRun}
          /\ next.op = "none" \/ call[s].pc # "start_step"
          /\ next.op \in {call[s].op, "none"}
          /\ Advance(s, next)
          /\ \/ UNCHANGED <<evaluations, receipts>>
             \/ Inside(call[s])
      BY <1>2 DEF Goes, WritesOf
    <2>2. Inside(next) => Inside(call[s])
      BY <2>1 DEF Inside
    <2>3. next.state.revision <= run.revision
      <3>1. NewRun.revision = 0 /\ run.revision \in Nat
        BY DEF NewRun, Typed, Inv, StoreTypeOK, RunStates
      <3> QED
        BY <2>1, <3>1 DEF WeighInv
    <2>4. Applied' # {} => Applied # {}
      <3>1. CASE UNCHANGED journal
        BY <3>1 DEF Applied, Verdicts
      <3>2. ASSUME NEW event, event \notin Verdicts, RecordObservation(event)
            PROVE  Applied' # {} => Applied # {}
        <4>1. ObservationRow(event, run).event = event
          BY DEF ObservationRow
        <4>2. journal \in Seq(JournalRows)
          BY DEF Typed, Inv, StoreTypeOK
        <4> QED
          BY <3>2, <4>1, <4>2, AppliedGrows DEF RecordObservation
      <3> QED
        BY <1>2, <3>1, <3>2 DEF Goes, WritesOf
    <2>5. ASSUME next.alone, next.pc \in Weighing, next.state.revision = run.revision
          PROVE  Weighed(s)'
      <3>1. Weighs(s, next) /\ UNCHANGED ledger
        BY <2>5 DEF Goes, Weighs
      <3>2. Weighed(s)
        BY <2>5, <3>1 DEF WeighInv, Weighs
      <3>3. \A t \in Sessions : call'[t] = IF t = s THEN next ELSE call[t]
        BY <2>1 DEF Advance, AttemptInv
      <3>4. \A t \in Sessions : ~Inside(call'[t])
        BY <2>2, <3>2, <3>3 DEF Weighed
      <3>5. UNCHANGED <<run, evaluations, receipts>>
        BY <3>1 DEF ledger, evidence
      <3>6. next.pc \in {"read_receipts", "read_events"} => next.evals = Len(evaluations)
        BY <3>1, <3>2 DEF Weighs, Weighed
      <3>7. next.pc = "read_events" => next.receipts = Len(receipts)
        BY <3>1 DEF Weighs
      <3>8. ASSUME next.pc \in {"interrupt", "evaluation_missing"}
            PROVE  receipts = <<>>
        <4>1. /\ call[s].pc = "read_events" /\ ~Complete(call[s], Cardinality(Applied))
          BY <3>1, <3>8 DEF Weighs
        <4>2. call[s].evals = Len(evaluations) /\ call[s].receipts = Len(receipts)
          BY <3>2, <4>1 DEF Weighed
        <4>3. Applied = {} /\ Cardinality(Applied) = 0
          <5>1. run.status \notin Terminal
            BY <3>2 DEF Weighed, Active, Terminal
          <5> QED
            BY <5>1, FS_EmptySet DEF WeighInv
        <4>4. ~(Len(evaluations) > 0 /\ Len(receipts) > 0)
          BY <4>1, <4>2, <4>3 DEF Complete
        <4>5. receipts \in Seq(Receipts) /\ evaluations \in Seq(Evaluations)
          BY DEF Typed, Inv, StoreTypeOK
        <4>6. evaluations = <<>> \/ receipts = <<>>
          BY <4>4, <4>5
        <4> QED
          BY <4>6 DEF Paired
      <3> QED
        BY <3>2, <3>3, <3>4, <3>5, <3>6, <3>7, <3>8 DEF Weighed, Active, Inside
    <2> QED
      BY <2>1, <2>2, <2>3, <2>4, <2>5, QuietKeepsWeigh
  <1> QED
    BY <1>1, <1>2

LEMMA BackKeepsWeigh ==
    ASSUME NEW Points, AttemptInv, Typed(Points), WeighInv, NEW s \in Sessions, Vanish(s)
    PROVE  WeighInv'
  <1>1. Advance(s, NoCall) /\ UNCHANGED ledger
    BY DEF Vanish, Return
  <1>2. NoCall.state.revision = 0 /\ NoCall.pc = "idle" /\ NoCall.op = "none"
    BY DEF NoCall, NewRun
  <1>3. run.revision \in Nat
    BY DEF Typed, Inv, StoreTypeOK, RunStates
  <1> QED
    BY <1>1, <1>2, <1>3, QuietKeepsWeigh
       DEF ledger, evidence, Inside, Weighing, Applied, Verdicts

LEMMA BeginKeepsWeigh ==
    ASSUME NEW Points, AttemptInv, Typed(Points), WeighInv, NEW s \in Sessions,
           BeginAttempt(s) \/ BeginReconcile(s) \/ BeginCancel(s)
    PROVE  WeighInv'
  <1>1. PICK op \in {"attempt", "reconcile", "cancel"},
             pc \in {"start_step", "read_candidates", "cancel"} :
           /\ Begin(s, op, pc)
           /\ pc = "start_step" <=> op = "attempt"
           /\ pc = "read_candidates" => run.status \in Active
           /\ pc = "read_candidates" <=> op = "reconcile"
    BY DEF BeginAttempt, BeginReconcile, BeginCancel
  <1>2. PICK alone \in BOOLEAN :
           alone = (op = "reconcile" /\ \A t \in Sessions : ~Attempting(t))
    OBVIOUS
  <1> DEFINE next == [NoCall EXCEPT !.op = op, !.pc = pc, !.state = run, !.alone = alone]
  <1>3. Advance(s, next) /\ UNCHANGED ledger
    BY <1>1, <1>2 DEF Begin
  <1>4. next.op = op /\ next.pc = pc /\ next.state = run /\ next.alone = alone
    BY DEF NoCall
  <1> HIDE DEF next
  <1>5. run.revision \in Nat
    BY DEF Typed, Inv, StoreTypeOK, RunStates
  <1>6. ~Inside(next)
    BY <1>1, <1>4 DEF Inside
  <1>7. UNCHANGED <<run, journal, evaluations, receipts>>
    BY <1>3 DEF ledger, evidence
  <1>8. Applied' = Applied
    BY <1>7 DEF Applied, Verdicts
  <1>9. \A t \in Sessions : call'[t] = IF t = s THEN next ELSE call[t]
    BY <1>3 DEF Advance, AttemptInv
  <1>10. ASSUME next.alone, next.pc \in Weighing
         PROVE  Weighed(s)'
    <2>1. pc = "read_candidates"
      BY <1>4, <1>10 DEF Weighing
    <2>2. \A t \in Sessions : ~Inside(call[t])
      BY <1>2, <1>4, <1>10 DEF Attempting, Inside
    <2>3. \A t \in Sessions : ~Inside(call'[t])
      BY <1>6, <1>9, <2>2
    <2> QED
      BY <1>1, <1>4, <1>7, <1>9, <2>1, <2>3 DEF Weighed, Active, Inside
  <1> QED
    BY <1>3, <1>4, <1>5, <1>6, <1>7, <1>8, <1>10, QuietKeepsWeigh

LEMMA StillWeighed ==
    ASSUME WeighInv, UNCHANGED <<ledger, call>>
    PROVE  WeighInv'
  BY DEF WeighInv, Weighed, ledger, evidence, Applied, Verdicts, Inside, Weighing, Active,
     Terminal

LEMMA InitWeigh ==
    ASSUME NEW untouched, AttemptInit(untouched)
    PROVE  WeighInv
  <1>1. PICK creator \in Sessions :
          call = [s \in Sessions |->
                     IF s = creator
                     THEN [NoCall EXCEPT !.op = "create", !.pc = "build", !.note = "prepared"]
                     ELSE NoCall]
    BY DEF AttemptInit
  <1>2. \A s \in Sessions : call[s].state = NewRun /\ call[s].pc \in {"build", "idle"}
    BY <1>1 DEF NoCall
  <1>3. run = NewRun /\ NewRun.revision = 0
    BY DEF AttemptInit, StoreInit, NewRun
  <1>4. Applied = {}
    BY DEF AttemptInit, StoreInit, Applied, Verdicts, ObservationRow
  <1> QED
    BY <1>2, <1>3, <1>4 DEF WeighInv, Weighing

\* The step the property is about.
LEMMA NothingDiscarded ==
    ASSUME AttemptInv, WeighInv, NEW s \in Sessions, NEW next, Goes(s, next),
           call[s].alone, call[s].pc \in {"interrupt", "evaluation_missing"}, run' # run
    PROVE  receipts = <<>>
  <1>1. Commit(s)
    BY DEF Goes
  <1>2. call[s].state.revision = run.revision
    BY <1>1 DEF Commit, Transition
  <1>3. Weighed(s)
    BY <1>2 DEF WeighInv, Weighing
  <1> QED
    BY <1>3 DEF Weighed

-----------------------------------------------------------------------------
(***************************************************************************)
(* Whose the child is: there is one, and only the call inside the attempt  *)
(* has its handle.  Its answer is that of a child that came to its end.    *)
(***************************************************************************)

ChildInv ==
    /\ \A s \in Sessions : call[s].pc \in Holding =>
          /\ call[s].child = 1 /\ Len(children) = 1
          /\ children[1] = "ended" \/ (children[1] = "alive" /\ call[s].pc # "read_result")
    /\ ChildrenOwned
    /\ \A s \in Sessions : call[s].answer # None => "ended" \in Rows(children)

LEMMA HolderAlone ==
    ASSUME AttemptInv, NEW s \in Sessions, NEW t \in Sessions,
           call[s].pc \in Launching, call[t].pc \in Launching
    PROVE  s = t
  BY DEF AttemptInv, WellFormed, Inside, Launching

\* A step with the one child: what it is afterwards, and who has its handle.
LEMMA OneChild ==
    ASSUME AttemptInv, ChildInv, NEW s \in Sessions, NEW next, Advance(s, next),
           \A t \in Sessions : t # s => call[t].pc \notin Holding,
           NEW child, children' = <<child>>,
           next.pc \in Holding =>
              /\ next.child = 1
              /\ child = "ended" \/ (child = "alive" /\ next.pc # "read_result"),
           child = "alive" => next.pc \in Holding,
           "ended" \in Rows(children) => child = "ended",
           next.answer \in {call[s].answer, None} \/ child = "ended"
    PROVE  ChildInv'
  <1>1. \A t \in Sessions : call'[t] = IF t = s THEN next ELSE call[t]
    BY DEF Advance, AttemptInv
  <1>2. Len(children') = 1 /\ children'[1] = child /\ DOMAIN children' = {1}
    <2>1. Len(<<child>>) = 1 /\ <<child>>[1] = child /\ DOMAIN <<child>> = {1}
      OBVIOUS
    <2> QED
      BY <2>1
  <1>3. \A t \in Sessions : call'[t].pc \in Holding => t = s
    BY <1>1
  <1>4. child = "ended" => "ended" \in Rows(children)'
    BY <1>2 DEF Rows
  <1>5. ChildrenOwned'
    <2>1. call'[s] = next
      BY <1>1
    <2>2. child = "alive" => Holds(s, 1)'
      BY <2>1 DEF Holds, Holding
    <2> QED
      BY <1>2, <2>2 DEF ChildrenOwned
  <1>6. ASSUME NEW t \in Sessions, call'[t].answer # None
        PROVE  "ended" \in Rows(children)'
    BY <1>1, <1>4, <1>6 DEF ChildInv
  <1>7. ASSUME NEW t \in Sessions, call'[t].pc \in Holding
        PROVE  /\ call'[t].child = 1 /\ Len(children') = 1
               /\ \/ children'[1] = "ended"
                  \/ children'[1] = "alive" /\ call'[t].pc # "read_result"
    <2>1. call'[t] = next
      BY <1>1, <1>3, <1>7
    <2> QED
      BY <1>2, <1>7, <2>1
  <1> QED
    BY <1>5, <1>6, <1>7 DEF ChildInv, Holding

\* A step that leaves the children alone, of a call that has no handle.
LEMMA NoChild ==
    ASSUME AttemptInv, ChildInv, NEW s \in Sessions, NEW next, Advance(s, next),
           {call[s].pc, next.pc} \cap Holding = {}, children' = children,
           next.answer \in {call[s].answer, None}
    PROVE  ChildInv'
  <1>1. \A t \in Sessions : call'[t] = IF t = s THEN next ELSE call[t]
    BY DEF Advance, AttemptInv
  <1>2. ChildrenOwned'
    <2> SUFFICES ASSUME NEW i \in DOMAIN children, children[i] = "alive"
                 PROVE  \E t \in Sessions : Holds(t, i)'
      BY DEF ChildrenOwned
    <2>1. PICK t \in Sessions : Holds(t, i)
      BY DEF ChildInv, ChildrenOwned
    <2>2. t # s
      BY <2>1 DEF Holds, Holding
    <2> QED
      BY <1>1, <2>1, <2>2 DEF Holds
  <1> QED
    BY <1>1, <1>2 DEF ChildInv, Holding, Rows

LEMMA ChildIs ==
    ASSUME AttemptInv, ChildInv, NEW s \in Sessions, call[s].pc \in Holding
    PROVE  /\ call[s].child = 1
           /\ children = <<children[1]>>
           /\ Rows(children) = {children[1]}
           /\ children[1] = "ended" \/ (children[1] = "alive" /\ call[s].pc # "read_result")
           /\ \A t \in Sessions : t # s => call[t].pc \notin Holding
  <1>1. children \in Seq(ChildStates) /\ Len(children) = 1
    BY DEF AttemptInv, ChildInv
  <1>2. \A t \in Sessions : t # s => call[t].pc \notin Holding
    BY HolderAlone DEF Holding, Launching
  <1>3. children = <<children[1]>> /\ DOMAIN children = {1}
    BY <1>1
  <1> QED
    BY <1>2, <1>3 DEF Rows, ChildInv

LEMMA LoseKeepsChild ==
    ASSUME AttemptInv, ChildInv, NEW s \in Sessions, LoseChild(s), call[s].pc \in Holding
    PROVE  ChildInv'
  <1>1. /\ Advance(s, Failing(s))
        /\ children' = [children EXCEPT ![1] = IF @ = "alive" THEN "lost" ELSE @]
    BY ChildIs DEF LoseChild
  <1> DEFINE child == IF children[1] = "alive" THEN "lost" ELSE children[1]
  <1>2. children' = <<child>>
    BY <1>1, ChildIs
  <1>3. Failing(s).pc = "child_failed" /\ Failing(s).answer = None
    BY DEF Failing, NoCall
  <1>4. child # "alive" /\ ("ended" \in Rows(children) => child = "ended")
    BY ChildIs
  <1> HIDE DEF child
  <1> QED
    BY <1>1, <1>2, <1>3, <1>4, ChildIs, OneChild DEF Holding

LEMMA LaunchKeepsChild ==
    ASSUME AttemptInv, ChildInv, NEW s \in Sessions, LaunchChild(s)
    PROVE  ChildInv'
  <1>1. call[s].pc = "run_child"
    BY DEF LaunchChild
  <1>2. children = <<>> /\ \A t \in Sessions : t # s => call[t].pc \notin Holding
    BY <1>1, HolderAlone DEF AttemptInv, Holding, Launching
  <1>3. CASE Advance(s, Failing(s)) /\ children' = children
    <2>1. Failing(s).pc = "child_failed" /\ Failing(s).answer = None
      BY DEF Failing, NoCall
    <2> QED
      BY <1>1, <1>3, <2>1, NoChild DEF Holding
  <1>4. CASE ~(Advance(s, Failing(s)) /\ children' = children)
    <2>1. /\ children' = Append(children, "alive")
          /\ Advance(s, [At(s, "await_child") EXCEPT !.child = Len(children')])
      BY <1>4 DEF LaunchChild
    <2>2. children' = <<"alive">> /\ Len(children') = 1
      BY <1>2, <2>1
    <2> DEFINE next == [At(s, "await_child") EXCEPT !.child = 1]
    <2>3. next.pc = "await_child" /\ next.child = 1 /\ next.answer = call[s].answer
      BY DEF At, AttemptInv, WellFormed, NoCall
    <2>4. Advance(s, next)
      BY <2>1, <2>2
    <2>5. Rows(children) = {}
      BY <1>2 DEF Rows
    <2> HIDE DEF next
    <2> QED
      BY <1>2, <2>2, <2>3, <2>4, <2>5, OneChild DEF Holding
  <1> QED
    BY <1>3, <1>4

LEMMA AwaitKeepsChild ==
    ASSUME AttemptInv, ChildInv, NEW s \in Sessions, AwaitChild(s)
    PROVE  ChildInv'
  <1>1. call[s].pc = "await_child" /\ call[s].pc \in Holding
    BY DEF AwaitChild, Holding
  <1>2. CASE LoseChild(s)
    BY <1>1, <1>2, LoseKeepsChild
  <1>3. CASE ~LoseChild(s)
    <2>1. PICK pc \in {"cancel_child", "read_result"} :
             pc = IF Child(s) = "alive" THEN "cancel_child" ELSE "read_result"
      OBVIOUS
    <2>2. Advance(s, At(s, pc)) /\ children' = children
      BY <1>3, <2>1 DEF AwaitChild
    <2>3. children[1] = "ended" \/ (children[1] = "alive" /\ pc = "cancel_child")
      BY <1>1, <2>1, ChildIs DEF Child
    <2>4. At(s, pc).pc = pc /\ At(s, pc).child = 1 /\ At(s, pc).answer = call[s].answer
      BY <1>1, AtFields, AtCarries, ChildIs
    <2>5. /\ children' = <<children[1]>> /\ Rows(children) = {children[1]}
          /\ \A t \in Sessions : t # s => call[t].pc \notin Holding
      BY <1>1, <2>2, ChildIs
    <2> QED
      BY <2>2, <2>3, <2>4, <2>5, OneChild DEF Holding
  <1> QED
    BY <1>2, <1>3

LEMMA CancelKeepsChild ==
    ASSUME AttemptInv, ChildInv, NEW s \in Sessions, CancelChild(s)
    PROVE  ChildInv'
  <1>1. call[s].pc = "cancel_child" /\ call[s].pc \in Holding
    BY DEF CancelChild, Holding
  <1>2. CASE LoseChild(s)
    BY <1>1, <1>2, LoseKeepsChild
  <1>3. CASE ~LoseChild(s)
    <2>1. /\ Advance(s, At(s, "child_result"))
          /\ children' = [children EXCEPT ![1] = IF @ = "alive" THEN "cancelled" ELSE @]
      BY <1>1, <1>3, ChildIs DEF CancelChild
    <2> DEFINE child == IF children[1] = "alive" THEN "cancelled" ELSE children[1]
    <2>2. children' = <<child>>
      BY <1>1, <2>1, ChildIs
    <2>3. child # "alive" /\ ("ended" \in Rows(children) => child = "ended")
      BY <1>1, ChildIs
    <2>4. At(s, "child_result").pc = "child_result"
          /\ At(s, "child_result").answer = call[s].answer
      BY AtFields, AtCarries
    <2>5. \A t \in Sessions : t # s => call[t].pc \notin Holding
      BY <1>1, ChildIs
    <2> HIDE DEF child
    <2> QED
      BY <2>1, <2>2, <2>3, <2>4, <2>5, OneChild DEF Holding
  <1> QED
    BY <1>2, <1>3

LEMMA ReadKeepsChild ==
    ASSUME AttemptInv, ChildInv, NEW s \in Sessions, ReadResult(s)
    PROVE  ChildInv'
  <1>1. call[s].pc = "read_result" /\ call[s].pc \in Holding
    BY DEF ReadResult, Holding
  <1>2. CASE LoseChild(s)
    BY <1>1, <1>2, LoseKeepsChild
  <1>3. CASE ~LoseChild(s)
    <2>1. /\ children' = <<"ended">> /\ children' = children
          /\ \A t \in Sessions : t # s => call[t].pc \notin Holding
      BY <1>1, <1>3, ChildIs DEF ReadResult
    <2>2. ASSUME NEW next, Advance(s, next), next.pc = "child_result"
          PROVE  ChildInv'
      BY <2>1, <2>2, OneChild DEF Holding
    <2>3. CASE Advance(s, At(s, "child_result"))
      BY <2>2, <2>3, AtFields
    <2>4. ASSUME NEW answer, NEW digest,
                 Advance(s, [At(s, "child_result") EXCEPT !.answer = answer,
                                                          !.digest = digest])
          PROVE  ChildInv'
      <3> DEFINE next == [At(s, "child_result") EXCEPT !.answer = answer, !.digest = digest]
      <3>1. next.pc = "child_result"
        BY DEF At, AttemptInv, WellFormed, NoCall
      <3>2. Advance(s, next)
        BY <2>4
      <3> HIDE DEF next
      <3> QED
        BY <2>2, <3>1, <3>2
    <2> QED
      BY <1>3, <2>3, <2>4, Zenon DEF ReadResult
  <1> QED
    BY <1>2, <1>3

LEMMA GoesKeepsChild ==
    ASSUME AttemptInv, ChildInv, NEW s \in Sessions, NEW next, Goes(s, next)
    PROVE  ChildInv'
  BY LaunchKeepsChild, AwaitKeepsChild, CancelKeepsChild, ReadKeepsChild, NoChild
     DEF Goes, RunChild

LEMMA BackKeepsChild ==
    ASSUME AttemptInv, ChildInv, NEW s \in Sessions, Vanish(s)
    PROVE  ChildInv'
  <1>1. /\ Advance(s, NoCall)
        /\ children' = [i \in DOMAIN children |->
                           IF Holds(s, i) /\ children[i] = "alive" THEN "lost"
                                                                   ELSE children[i]]
    BY DEF Vanish, Return
  <1>2. NoCall.pc = "idle" /\ NoCall.answer = None
    BY DEF NoCall
  <1>3. CASE call[s].pc \notin Holding
    <2>1. \A i : ~Holds(s, i)
      BY <1>3 DEF Holds, Holding
    <2>2. children' = children
      BY <1>1, <2>1 DEF AttemptInv
    <2> QED
      BY <1>1, <1>2, <1>3, <2>2, NoChild DEF Holding
  <1>4. CASE call[s].pc \in Holding
    <2> DEFINE child == IF children[1] = "alive" THEN "lost" ELSE children[1]
    <2>1. Holds(s, 1)
      BY <1>4, ChildIs DEF Holds, Holding
    <2>2. DOMAIN children = {1}
      BY <1>4 DEF AttemptInv, ChildInv
    <2>3. children' = [i \in {1} |-> child]
      BY <1>1, <2>1, <2>2
    <2>4. [i \in {1} |-> child] = <<child>>
      OBVIOUS
    <2>5. child # "alive" /\ ("ended" \in Rows(children) => child = "ended")
      BY <1>4, ChildIs
    <2>6. \A t \in Sessions : t # s => call[t].pc \notin Holding
      BY <1>4, ChildIs
    <2> HIDE DEF child
    <2> QED
      BY <1>1, <1>2, <2>3, <2>4, <2>5, <2>6, OneChild DEF Holding
  <1> QED
    BY <1>3, <1>4

LEMMA BeginKeepsChild ==
    ASSUME AttemptInv, ChildInv, NEW s \in Sessions,
           BeginAttempt(s) \/ BeginReconcile(s) \/ BeginCancel(s)
    PROVE  ChildInv'
  <1>1. PICK op \in {"attempt", "reconcile", "cancel"},
             pc \in {"start_step", "read_candidates", "cancel"} : Begin(s, op, pc)
    BY DEF BeginAttempt, BeginReconcile, BeginCancel
  <1>2. children' = children /\ call[s].pc = "idle"
    BY <1>1 DEF Begin, Idle
  <1>3. PICK state, alone :
           Advance(s, [NoCall EXCEPT !.op = op, !.pc = pc, !.state = state, !.alone = alone])
    BY <1>1, Zenon DEF Begin
  <1> DEFINE next == [NoCall EXCEPT !.op = op, !.pc = pc, !.state = state, !.alone = alone]
  <1>4. next.answer = None /\ next.pc = pc
    BY DEF NoCall
  <1>5. Advance(s, next)
    BY <1>3
  <1> HIDE DEF next
  <1> QED
    BY <1>2, <1>4, <1>5, NoChild DEF Holding

LEMMA EndKeepsChild ==
    ASSUME AttemptInv, ChildInv, NEW i \in DOMAIN children, ChildEnds(i)
    PROVE  ChildInv'
  <1>1. /\ children[i] = "alive" /\ call' = call
        /\ children' = [children EXCEPT ![i] = "ended"]
    BY DEF ChildEnds
  <1>2. children \in Seq(ChildStates) /\ Len(children) <= 1
    BY DEF AttemptInv
  <1>3. i = 1 /\ Len(children) = 1
    BY <1>2
  <1>4. children' = <<"ended">>
    BY <1>1, <1>2, <1>3
  <1>5. Len(children') = 1 /\ children'[1] = "ended" /\ DOMAIN children' = {1}
    BY <1>4
  <1>6. "ended" \in Rows(children)'
    BY <1>5 DEF Rows
  <1>7. ChildrenOwned'
    BY <1>5 DEF ChildrenOwned
  <1> QED
    BY <1>1, <1>5, <1>6, <1>7 DEF ChildInv, Holding

LEMMA InitChild ==
    ASSUME NEW untouched, AttemptInit(untouched)
    PROVE  ChildInv
  <1>1. PICK creator \in Sessions :
          call = [s \in Sessions |->
                     IF s = creator
                     THEN [NoCall EXCEPT !.op = "create", !.pc = "build", !.note = "prepared"]
                     ELSE NoCall]
    BY DEF AttemptInit
  <1>2. \A s \in Sessions : call[s].answer = None /\ call[s].pc \in {"build", "idle"}
    BY <1>1 DEF NoCall
  <1>3. children = <<>>
    BY DEF AttemptInit
  <1> QED
    BY <1>2, <1>3 DEF ChildInv, ChildrenOwned, Holding

\* What has come to its end is there to stay.
LEMMA EndedStays ==
    ASSUME AttemptInv, "ended" \in Rows(children),
           \/ \E s \in Sessions : RunChild(s) \/ Vanish(s)
           \/ \E i \in DOMAIN children : ChildEnds(i)
           \/ UNCHANGED children
    PROVE  "ended" \in Rows(children)'
  <1>1. children \in Seq(ChildStates)
    BY DEF AttemptInv
  <1>2. PICK i \in DOMAIN children : children[i] = "ended"
    BY DEF Rows
  <1>3. i \in DOMAIN children' /\ children'[i] = "ended"
    <2>1. ASSUME NEW s \in Sessions, LoseChild(s) \/ CancelChild(s)
          PROVE  i \in DOMAIN children' /\ children'[i] = "ended"
      BY <1>1, <1>2, <2>1 DEF LoseChild, CancelChild
    <2>2. ASSUME NEW s \in Sessions, LaunchChild(s)
          PROVE  i \in DOMAIN children' /\ children'[i] = "ended"
      <3>1. children' \in {children, Append(children, "alive")}
        BY <2>2 DEF LaunchChild
      <3> QED
        BY <1>1, <1>2, <3>1
    <2>3. ASSUME NEW s \in Sessions, Vanish(s)
          PROVE  i \in DOMAIN children' /\ children'[i] = "ended"
      BY <1>1, <1>2, <2>3 DEF Vanish
    <2>4. ASSUME NEW j \in DOMAIN children, ChildEnds(j)
          PROVE  i \in DOMAIN children' /\ children'[i] = "ended"
      BY <1>1, <1>2, <2>4 DEF ChildEnds
    <2>5. ASSUME UNCHANGED children
          PROVE  i \in DOMAIN children' /\ children'[i] = "ended"
      BY <1>2, <2>5
    <2> QED
      BY <2>1, <2>2, <2>3, <2>4, <2>5 DEF RunChild, AwaitChild, ReadResult
  <1> QED
    BY <1>3 DEF Rows

\* The journal only grows, so what was observed stays observed.
LEMMA ObservedStays ==
    ASSUME journal \in Seq(JournalRows), [StoreNext]_ledger, NEW event,
           Observed(event) # {}
    PROVE  Observed(event)' # {}
  <1>1. PICK i \in DOMAIN journal : ~journal[i].moves /\ journal[i].event = event
    BY DEF Observed
  <1>2. journal' = journal \/ \E row : journal' = Append(journal, row)
    BY DEF StoreNext, Transition, RecordObservation, RecordCandidate, RecordEvaluation,
       RecordAttempt, RecordAttemptWithReceipt, RecordReceipt, RecordAdvice, SaveMemory, ledger
  <1>3. i \in DOMAIN journal' /\ journal'[i] = journal[i]
    BY <1>2
  <1> QED
    BY <1>1, <1>3 DEF Observed

LEMMA NowObserved ==
    ASSUME journal \in Seq(JournalRows), NEW event, RecordObservation(event)
    PROVE  Observed(event)' # {}
  <1> DEFINE row == ObservationRow(event, run)
  <1>1. ~row.moves /\ row.event = event
    BY DEF ObservationRow
  <1> HIDE DEF row
  <1>2. journal' = Append(journal, row)
    BY DEF RecordObservation, row
  <1>3. Len(journal) + 1 \in DOMAIN journal' /\ journal'[Len(journal) + 1] = row
    BY <1>2
  <1> QED
    BY <1>1, <1>3 DEF Observed

-----------------------------------------------------------------------------
\* All of it together: what Phase 3 and Phase 4 have in common.

CallInv(Points) == Typed(Points) /\ CreationInv /\ WeighInv /\ ChildInv

LEMMA CallInvKept ==
    ASSUME NEW Points, AttemptInv, Paired, CallInv(Points), NEW s \in Sessions,
           NEW n, TypedStep(s, n, Points), NEW next, Goes(s, next)
    PROVE  CallInv(Points)'
  BY TypedStepKeeps, GoesKeepsCreation, GoesKeepsWeigh, GoesKeepsChild DEF CallInv

LEMMA BeginKeepsCall ==
    ASSUME NEW Points, AttemptInv, CallInv(Points), NEW s \in Sessions,
           BeginAttempt(s) \/ BeginReconcile(s) \/ BeginCancel(s)
    PROVE  CallInv(Points)'
  BY BeginTyped, TypedStepKeeps, BeginKeepsCreation, BeginKeepsWeigh, BeginKeepsChild
     DEF CallInv

LEMMA VanishKeepsCall ==
    ASSUME NEW Points, AttemptInv, CallInv(Points), NEW s \in Sessions, Vanish(s)
    PROVE  CallInv(Points)'
  BY VanishTyped, TypedStepKeeps, BackKeepsCreation, BackKeepsWeigh, BackKeepsChild
     DEF CallInv

LEMMA EndKeepsCall ==
    ASSUME NEW Points, AttemptInv, CallInv(Points), NEW i \in DOMAIN children, ChildEnds(i)
    PROVE  CallInv(Points)'
  <1>1. UNCHANGED <<ledger, call, crashes, world>>
    BY DEF ChildEnds
  <1>2. CreationInv'
    BY <1>1 DEF CallInv, CreationInv, Rows, Repository
  <1> QED
    BY <1>1, <1>2, ChildEndsTyped, StillWeighed, EndKeepsChild DEF CallInv

\* The system's own steps and the world's own leave the calls as they are.
LEMMA StillCall ==
    ASSUME NEW Points, CallInv(Points), UNCHANGED <<ledger, call, children, crashes>>, Standing
    PROVE  CallInv(Points)'
  <1>1. Inv'
    BY InvStep DEF CallInv, Typed
  <1>2. Typed(Points)'
    BY <1>1 DEF CallInv, Typed, Calls, CallNotes
  <1>3. CreationInv'
    BY DEF CallInv, CreationInv, Standing, Rows, Repository
  <1>4. ChildInv'
    BY DEF CallInv, ChildInv, ChildrenOwned, Holds, Holding, Rows
  <1> QED
    BY <1>2, <1>3, <1>4, StillWeighed DEF CallInv

LEMMA InitCall ==
    ASSUME NEW Points, NEW untouched, AttemptInit(untouched),
           {"repository", "recorded"} \subseteq DOMAIN untouched,
           untouched.repository = <<>>, untouched.recorded = FALSE
    PROVE  CallInv(Points)
  BY InitTyped, InitCreation, InitWeigh, InitChild DEF CallInv

-----------------------------------------------------------------------------
(***************************************************************************)
(* The steps a phase adds: on to another of its points, which the ledger's *)
(* own steps do not know, or out of the attempt.  Each is typed and Goes.  *)
(***************************************************************************)

Moves(s, Points) == (\E n : TypedStep(s, n, Points)) /\ (\E n : Goes(s, n))

LEMMA EffectMoves ==
    ASSUME NEW Points, Points \cap AttemptPoints = {}, Typed(Points), NEW s \in Sessions,
           call[s].pc \notin Holding \cup {"start_step"}, Standing,
           NEW next \in Calls(Points), Advance(s, next),
           next.pc \in Points \cup {"record_attempt", "candidate_ready"},
           next.op = call[s].op, next.state = call[s].state, next.answer = call[s].answer,
           next.note = call[s].note, children' = children, crashes' = crashes,
           UNCHANGED ledger \/ \E event \in Observations \ Verdicts : RecordObservation(event)
    PROVE  Moves(s, Points)
  <1>1. WritesOf(s) /\ run' = run
    BY DEF WritesOf, ledger, evidence, RecordObservation
  <1>2. next.pc \notin Weighing \cup Holding \cup {"build", "create_run", "observe"}
    BY DEF Weighing, Holding, AttemptPoints, Events
  <1>3. Goes(s, next)
    BY <1>1, <1>2, GoesOn
  <1>4. TypedStep(s, next, Points)
    BY <1>2, TypedMove DEF Typed
  <1> QED
    BY <1>3, <1>4 DEF Moves

LEMMA EffectOn ==
    ASSUME NEW Points, Points \cap AttemptPoints = {}, AttemptInv, Typed(Points),
           NEW s \in Sessions, call[s].pc \notin Holding \cup {"start_step"}, Standing,
           NEW pc \in Points \cup {"record_attempt", "candidate_ready"},
           Advance(s, At(s, pc)), children' = children, crashes' = crashes,
           UNCHANGED ledger \/ \E event \in Observations \ Verdicts : RecordObservation(event)
    PROVE  Moves(s, Points)
  <1>1. WritesOf(s) /\ run' = run
    BY DEF WritesOf, ledger, evidence, RecordObservation
  <1>2. /\ pc \notin Weighing \cup Holding \cup {"build", "create_run", "observe"}
        /\ pc \in AttemptPoints \cup Points
    BY DEF Weighing, Holding, AttemptPoints, Events
  <1>3. Goes(s, At(s, pc))
    BY <1>1, <1>2, GoesAt
  <1>4. TypedStep(s, At(s, pc), Points)
    BY <1>2, TypedAt DEF Typed
  <1> QED
    BY <1>3, <1>4 DEF Moves

LEMMA EffectBack ==
    ASSUME NEW Points, Typed(Points), NEW s \in Sessions, call[s].pc \notin Holding, Standing,
           Return(s), UNCHANGED <<ledger, children, crashes>>
    PROVE  Moves(s, Points)
  <1>1. WritesOf(s) /\ run' = run
    BY DEF WritesOf, ledger, evidence
  <1> QED
    BY <1>1, GoesBack, TypedReturn DEF Typed, Moves

LEMMA EffectFails ==
    ASSUME NEW Points, Typed(Points), NEW s \in Sessions,
           call[s].pc \notin Holding \cup {"start_step"}, Standing,
           Advance(s, Failing(s)), children' = children, crashes' = crashes,
           UNCHANGED ledger \/ \E event \in Observations \ Verdicts : RecordObservation(event)
    PROVE  Moves(s, Points)
  <1>1. WritesOf(s) /\ run' = run
    BY DEF WritesOf, ledger, evidence, RecordObservation
  <1>2. Goes(s, Failing(s))
    BY <1>1, GoesWrong
  <1>3. TypedStep(s, Failing(s), Points)
    BY TypedFailing DEF Typed
  <1> QED
    BY <1>2, <1>3 DEF Moves

LEMMA ChildObserved ==
    ASSUME NEW Points, Points \cap AttemptPoints = {}, AttemptInv, CallInv(Points),
           NEW s \in Sessions, NEW effects \in Points, ObserveChild(s, effects)
    PROVE  Moves(s, Points)
  <1>1. /\ call[s].pc = "child_result" /\ RecordObservation("child_result")
        /\ UNCHANGED <<children, crashes, world>>
        /\ Advance(s, Failing(s)) \/ Advance(s, At(s, effects))
    BY DEF ObserveChild
  <1>2. Standing /\ call[s].pc \notin Holding \cup {"start_step"}
    BY <1>1 DEF Standing, CallInv, CreationInv, Holding
  <1>3. "child_result" \in Observations \ Verdicts
    BY SingleAttemptAssumption DEF Verdicts
  <1> QED
    BY <1>1, <1>2, <1>3, EffectOn, EffectFails DEF CallInv

LEMMA RecordMoves ==
    ASSUME NEW Points, Points \cap AttemptPoints = {}, AttemptInv, CallInv(Points),
           NEW s \in Sessions, Inside(call[s]),
           NEW next \in Points \cup {"candidate_ready"}, NEW receipt \in Receipts,
           NEW verdict \in BOOLEAN, call[s].tree \in Candidates,
           Record(s, verdict, receipt, next)
    PROVE  Moves(s, Points)
  <1>1. call[s].pc = "record_attempt" /\ UNCHANGED <<children, crashes, world>>
    BY DEF Record
  <1>2. Standing /\ call[s].pc \notin Holding
    BY <1>1 DEF Standing, CallInv, CreationInv, Holding
  <1>3. \E n : TypedStep(s, n, Points)
    <2>1. next \in (AttemptPoints \cup Points) \ {"observe"}
      BY DEF AttemptPoints, Events
    <2> QED
      BY <2>1, RecordTyped DEF CallInv
  <1>4. CASE Return(s) /\ UNCHANGED ledger
    BY <1>1, <1>2, <1>4, EffectBack DEF CallInv
  <1>5. CASE ~(Return(s) /\ UNCHANGED ledger)
    <2>1. /\ Advance(s, [At(s, next) EXCEPT !.cand = call[s].tree, !.eligible = verdict])
          /\ UNCHANGED <<run, journal>>
      BY <1>5, Zenon DEF Record, RecordAttemptWithReceipt
    <2> DEFINE n == [At(s, next) EXCEPT !.cand = call[s].tree, !.eligible = verdict]
    <2>2. /\ n.op = call[s].op /\ n.state = call[s].state /\ n.answer = call[s].answer
          /\ n.pc = next
      BY DEF At, AttemptInv, WellFormed, NoCall
    <2>3. Advance(s, n)
      BY <2>1
    <2> HIDE DEF n
    <2>4. next \notin Weighing \cup Holding \cup {"build", "create_run"}
      BY DEF Weighing, Holding, AttemptPoints, Events
    <2>5. Goes(s, n)
      BY <1>1, <1>2, <2>1, <2>2, <2>3, <2>4, GoesOn DEF WritesOf
    <2> QED
      BY <1>3, <2>5 DEF Moves
  <1> QED
    BY <1>4, <1>5
=============================================================================
