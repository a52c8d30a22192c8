---------------------------- MODULE Phase2_proofs ----------------------------
(***************************************************************************)
(* What Phase 2 promises for any number of sessions that race, crash and   *)
(* reconcile on one ledger, and what of it a run of Phase 1 has behind its *)
(* tools (the last two sections).                                          *)
(*                                                                         *)
(* A step of a session commits a transition (Commit) or leaves the run     *)
(* alone (Outcome: what such a step does, whichever action it is).  Each   *)
(* invariant is kept by the one and by the other.                          *)
(***************************************************************************)
EXTENDS Phase1, RunStore_proofs

\* What a call carries at the point it has reached.

\* The points of _refresh_memory that hold the memory to be saved.
Refreshing == {"refresh_memory", "refresh_advice", "save_memory"}

\* supervise on its way to start_supervisor, the refresh of a missing memory included.
Asks(c) ==
    /\ c.op = "supervise"
    /\ c.state # NewRun
    /\ c.pc \in Refreshing \cup {"read_memory", "refresh", "start_supervisor"}

Carries(c) ==
    /\ c.pc \in {"run_child", "child_result", "read_baseline"} => c.state.steps_used < MaxSteps
    /\ c.pc = "child_result" => c.reply \in Replies
    /\ c.pc = "child_result" /\ c.reply = "answers" => c.answer \in Scores
    /\ c.pc \in {"read_baseline", "record_attempt"} => c.answer \in Scores
    /\ c.pc = "record_attempt" => c.cand \in Candidates
    /\ c.pc = "record_advice" => c.answer \in Advices
    /\ c.pc = "observe" => c.note # None
    /\ c.pc = "cancel" => c.state.status \notin Active
    /\ c.pc = "read_advice" => c.op \in {"reconcile", "supervise"}
    /\ c.pc = "read_advice" /\ c.op = "supervise" => c.state.status = "supervision_required"
    /\ c.pc \in {"read_memory", "start_supervisor"} => Asks(c)
    /\ Asks(c) => c.state.status = "supervision_required"

\* The memory a refresh has put together so far.
Rebuilt(s, next) ==
    \/ next.pc = "refresh_memory" /\ next.memo = Snapshot(run, 0, FALSE)
    \/ /\ call[s].pc = "refresh_memory" /\ next.pc = "refresh_advice"
       /\ next.memo = [call[s].memo EXCEPT !.memory_revision = memory.memory_revision + 1]
    \/ /\ call[s].pc = "refresh_advice" /\ next.pc = "save_memory"
       /\ next.memo = [call[s].memo EXCEPT !.advised = (advice # <<>>)]

\* The writes of a call that commits no transition.
Writes(s) ==
    \/ UNCHANGED ledger
    \/ \E event \in Notes \cup {"child_result"} : RecordObservation(event)
    \/ \E eval \in Evaluations : RecordAttempt(eval)
    \/ \E artifact \in Advices : RecordAdvice(artifact)
    \/ /\ call[s].pc = "save_memory"
       /\ SaveMemory(call[s].memo, call[s].memo.memory_revision - 1)

\* The children it launches.
Launches(s) ==
    \/ launches' = launches
    \/ call[s].pc = "run_child" /\ launches' = [launches EXCEPT !.variation = @ + 1]
    \/ call[s].pc = "run_supervisor" /\ launches' = [launches EXCEPT !.supervisor = @ + 1]

\* Where a step of one call that commits no transition leads.
Outcome(s, next) ==
    /\ Advance(s, next)
    /\ next \in Calls
    /\ Carries(next)
    /\ next.pc \notin {"run_child", "run_supervisor"}
    /\ next.state \in {call[s].state, NewRun, run}
    /\ next.pc = "supervisor_applied" => advice' # <<>>
    /\ Asks(next) => next.state = call[s].state /\ (Asks(call[s]) \/ advice = <<>>)
    /\ next.pc \in Refreshing => Rebuilt(s, next)
    /\ Writes(s)
    /\ Launches(s)

LEMMA NoCallType ==
    /\ NoCall \in Calls
    /\ Carries(NoCall)
    /\ NoCall.pc = "idle"
    /\ NoCall.state = NewRun
    /\ ~Asks(NoCall)
  <1>1. NoMemory \in Memories
    BY DEF NoMemory, Memories, Statuses
  <1>2. NoCall \in Calls
    BY <1>1, NewRunType DEF NoCall, Calls, CallPoints
  <1>3. NoCall.pc = "idle" /\ NoCall.op = "none"
    BY DEF NoCall
  <1>4. NoCall.state = NewRun
    BY DEF NoCall
  <1> QED
    BY <1>2, <1>3, <1>4 DEF Carries, Asks

LEMMA ReturnOutcome ==
    ASSUME NEW s \in Sessions, Return(s), UNCHANGED <<ledger, launches>>
    PROVE  Outcome(s, NoCall)
  BY NoCallType DEF Return, Outcome, Refreshing, Writes, Launches, NoCall

\* The call of s, if it is well typed, at another point.
LEMMA AtPoint ==
    ASSUME NEW s \in Sessions, call[s] \in Calls, NEW pc \in CallPoints
    PROVE  /\ At(s, pc) \in Calls
           /\ At(s, pc) = [call[s] EXCEPT !.pc = pc]
           /\ At(s, pc).pc = pc
           /\ At(s, pc).op = call[s].op
           /\ At(s, pc).state = call[s].state
           /\ At(s, pc).reply = call[s].reply
           /\ At(s, pc).answer = call[s].answer
           /\ At(s, pc).cand = call[s].cand
           /\ At(s, pc).note = call[s].note
           /\ At(s, pc).memo = call[s].memo
  BY DEF At, Calls

LEMMA RefreshType ==
    ASSUME NEW s \in Sessions, call[s] \in Calls
    PROVE  /\ Refresh(s) \in Calls
           /\ Carries(Refresh(s))
           /\ Refresh(s).pc \in {"idle", "refresh"}
           /\ Refresh(s).state = NewRun
           /\ ~Asks(Refresh(s))
  <1>1. CASE call[s].op \in Phase1Ops
    <2>1. Refresh(s) = NoCall
      BY <1>1 DEF Refresh
    <2> QED
      BY <2>1, NoCallType DEF NoCall
  <1>2. CASE call[s].op \notin Phase1Ops
    <2> DEFINE next == [NoCall EXCEPT !.op = call[s].op, !.pc = "refresh"]
    <2>1. Refresh(s) = next
      BY <1>2 DEF Refresh
    <2>2. /\ Refresh(s) \in Calls
          /\ Refresh(s).pc = "refresh"
          /\ Refresh(s).state = NewRun
      <3>1. next.pc = "refresh" /\ next.state = NewRun
        BY DEF NoCall
      <3>2. "refresh" \in CallPoints
        BY DEF CallPoints
      <3>3. \A c, d \in Calls : [c EXCEPT !.op = d.op] \in Calls
        BY DEF Calls
      <3>4. \A c \in Calls : [c EXCEPT !.pc = "refresh"] \in Calls
        BY <3>2 DEF Calls
      <3>5. next = [[NoCall EXCEPT !.op = call[s].op] EXCEPT !.pc = "refresh"]
        OBVIOUS
      <3>6. next \in Calls
        <4> HIDE DEF next
        <4> QED
          BY <3>3, <3>4, <3>5, NoCallType
      <3> HIDE DEF next
      <3> QED
        BY <2>1, <3>1, <3>6
    <2>3. ~Asks(Refresh(s))
      BY <2>2 DEF Asks
    <2> QED
      BY <2>2, <2>3 DEF Carries
  <1> QED
    BY <1>1, <1>2
-----------------------------------------------------------------------------
\* Every step but a committed transition has an outcome.

\* What the steps of a call may rely on.
CarriesInv ==
    /\ StoreTypeOK
    /\ call \in [Sessions -> Calls]
    /\ launches \in [variation : Nat, supervisor : Nat]
    /\ \A s \in Sessions : Carries(call[s])

\* A step of a call that neither asks for a supervisor nor rebuilds a memory.
LEMMA PlainOutcome ==
    ASSUME NEW s \in Sessions, NEW next \in Calls, Advance(s, next), Carries(next),
           next.state \in {call[s].state, NewRun, run},
           next.pc \notin {"run_child", "run_supervisor", "supervisor_applied"} \cup Refreshing,
           ~Asks(next), Writes(s), Launches(s)
    PROVE  Outcome(s, next)
  BY DEF Outcome

\* A call begins, for whatever operation of either phase.
LEMMA BegunOutcome ==
    ASSUME CarriesInv, NEW s \in Sessions,
           NEW op \in {"step", "reconcile", "supervise", "cancel"} \cup Phase1Ops,
           NEW pc \in {"start_step", "read_advice", "read_candidates", "cancel"},
           Begin(s, op, pc),
           pc = "cancel" => run.status \notin Active,
           pc = "read_advice" => op \in {"reconcile", "supervise"},
           pc = "read_advice" /\ op = "supervise" => run.status = "supervision_required"
    PROVE  \E next : Outcome(s, next)
  <1> DEFINE next == [NoCall EXCEPT !.op = op, !.pc = pc, !.state = run]
  <1>1. next.op = op /\ next.pc = pc /\ next.state = run
    BY DEF NoCall
  <1>2. next \in Calls
    <2>1. run \in RunStates(Candidates) /\ pc \in CallPoints
      BY DEF CarriesInv, StoreTypeOK, CallPoints, Events
    <2> QED
      BY <2>1, NoCallType DEF Calls
  <1>3. ~Asks(next)
    BY <1>1 DEF Asks, Refreshing
  <1>4. Carries(next)
    BY <1>1, <1>3 DEF Carries
  <1>5. Advance(s, next) /\ Writes(s) /\ Launches(s)
    BY DEF Begin, Writes, Launches
  <1>6. Outcome(s, next)
    BY <1>1, <1>2, <1>3, <1>4, <1>5, PlainOutcome DEF Refreshing
  <1> QED
    BY <1>6

LEMMA BeginOutcome ==
    ASSUME CarriesInv, NEW s \in Sessions, Work(s) \/ BeginCancel(s) \/ Vanish(s)
    PROVE  \E next : Outcome(s, next)
  <1>1. CASE Vanish(s)
    BY <1>1, ReturnOutcome DEF Vanish
  <1>2. CASE BeginStep(s)
    BY <1>2, BegunOutcome DEF BeginStep
  <1>3. CASE BeginReconcile(s)
    BY <1>3, BegunOutcome DEF BeginReconcile
  <1>4. CASE BeginSupervise(s)
    BY <1>4, BegunOutcome DEF BeginSupervise
  <1>5. CASE BeginCancel(s)
    BY <1>5, BegunOutcome DEF BeginCancel
  <1> QED
    BY <1>1, <1>2, <1>3, <1>4, <1>5 DEF Work

LEMMA EndOutcome ==
    ASSUME CarriesInv, NEW s \in Sessions, Refuse(s) \/ Conflict(s) \/ Observe(s)
    PROVE  \E next : Outcome(s, next)
  <1>1. CASE Refuse(s) \/ Conflict(s)
    BY <1>1, ReturnOutcome DEF Refuse, Conflict
  <1>2. CASE Observe(s)
    <2>1. call[s] \in Calls /\ Carries(call[s])
      BY DEF CarriesInv
    <2>2. call[s].note \in Notes
      BY <1>2, <2>1 DEF Observe, Carries, Calls
    <2>3. Advance(s, Refresh(s)) /\ Writes(s) /\ Launches(s)
      BY <1>2, <2>2 DEF Observe, Writes, Launches
    <2>4. Outcome(s, Refresh(s))
      BY <2>1, <2>3, RefreshType, PlainOutcome DEF Refreshing
    <2> QED
      BY <2>4
  <1> QED
    BY <1>1, <1>2

\* The child of an attempt, its observation and its evaluation.
LEMMA ChildOutcome ==
    ASSUME CarriesInv, NEW s \in Sessions, RunChild(s)
    PROVE  \E next : Outcome(s, next)
  <1>1. call[s] \in Calls /\ Carries(call[s]) /\ call[s].pc = "run_child"
    BY DEF CarriesInv, RunChild
  <1>2. Writes(s) /\ Launches(s)
    BY <1>1 DEF RunChild, Writes, Launches
  <1>3. {"child_failed", "child_result"} \subseteq CallPoints
    BY DEF CallPoints, Events
  <1>4. CASE Advance(s, [At(s, "child_failed") EXCEPT !.note = "child_launch_error"])
    <2> DEFINE next == [At(s, "child_failed") EXCEPT !.note = "child_launch_error"]
    <2>1. next \in Calls /\ next.pc = "child_failed" /\ next.state = call[s].state
      BY <1>1, <1>3, AtPoint DEF Calls, Notes
    <2>2. Outcome(s, next)
      BY <1>2, <1>4, <2>1, PlainOutcome DEF Carries, Asks, Refreshing
    <2> QED
      BY <2>2
  <1>5. ASSUME NEW reply \in {"fails", "bad_digest"},
               Advance(s, [At(s, "child_result") EXCEPT !.reply = reply])
        PROVE  \E next : Outcome(s, next)
    <2> DEFINE next == [At(s, "child_result") EXCEPT !.reply = reply]
    <2>1. /\ next \in Calls /\ next.pc = "child_result" /\ next.reply = reply
          /\ next.state = call[s].state
      BY <1>1, <1>3, AtPoint DEF Replies, Calls
    <2>2. Carries(next)
      BY <1>1, <2>1 DEF Carries, Asks, Refreshing, Replies
    <2>3. Outcome(s, next)
      BY <1>2, <1>5, <2>1, <2>2, PlainOutcome DEF Asks, Refreshing
    <2> QED
      BY <2>3
  <1>6. ASSUME NEW score \in Scores,
               Advance(s, [At(s, "child_result") EXCEPT !.reply = "answers", !.answer = score])
        PROVE  \E next : Outcome(s, next)
    <2> DEFINE next == [At(s, "child_result") EXCEPT !.reply = "answers", !.answer = score]
    <2>1. Advance(s, next) /\ next = [At(s, "child_result") EXCEPT !.reply = "answers",
                                                                   !.answer = score]
      BY <1>6
    <2> HIDE DEF next
    <2>2. /\ next \in Calls /\ next.pc = "child_result" /\ next.reply = "answers"
          /\ next.answer = score /\ next.state = call[s].state
      BY <1>1, <2>1 DEF At, Calls, CallPoints, Replies
    <2>3. Carries(next)
      BY <1>1, <2>2 DEF Carries, Asks, Refreshing, Replies
    <2>4. Outcome(s, next)
      BY <1>2, <2>1, <2>2, <2>3, PlainOutcome DEF Asks, Refreshing
    <2> QED
      BY <2>4
  <1> QED
    BY <1>4, <1>5, <1>6 DEF RunChild

LEMMA ResultOutcome ==
    ASSUME CarriesInv, NEW s \in Sessions, ObserveChild(s)
    PROVE  \E next : Outcome(s, next)
  <1>1. call[s] \in Calls /\ Carries(call[s]) /\ call[s].pc = "child_result"
    BY DEF CarriesInv, ObserveChild
  <1>2. Writes(s) /\ Launches(s)
    BY Phase2Assumption DEF ObserveChild, Writes, Launches, Phase2Assumption
  <1>3. {"child_failed", "read_baseline"} \subseteq CallPoints
    BY DEF CallPoints, Events
  <1>4. CASE call[s].reply = "fails"
    <2> DEFINE next == [At(s, "child_failed") EXCEPT !.reply = "none"]
    <2>1. next \in Calls /\ next.pc = "child_failed" /\ next.state = call[s].state
      BY <1>1, <1>3, AtPoint DEF Calls
    <2>2. Advance(s, next)
      BY <1>4 DEF ObserveChild
    <2>3. Outcome(s, next)
      BY <1>2, <2>1, <2>2, PlainOutcome DEF Carries, Asks, Refreshing
    <2> QED
      BY <2>3
  <1>5. CASE call[s].reply = "bad_digest"
    <2>1. Advance(s, NoCall)
      BY <1>5 DEF ObserveChild
    <2>2. Outcome(s, NoCall)
      BY <1>2, <2>1, NoCallType, PlainOutcome DEF Refreshing
    <2> QED
      BY <2>2
  <1>6. CASE call[s].reply = "answers"
    <2> DEFINE next == At(s, "read_baseline")
    <2>1. next \in Calls /\ next.pc = "read_baseline" /\ next.state = call[s].state
          /\ next.answer = call[s].answer
      BY <1>1, <1>3, AtPoint
    <2>2. Advance(s, next)
      BY <1>6 DEF ObserveChild
    <2>3. ~Asks(next)
      BY <2>1 DEF Asks, Refreshing
    <2>4. Carries(next)
      BY <1>1, <1>6, <2>1, <2>3 DEF Carries
    <2>5. Outcome(s, next)
      BY <1>2, <2>1, <2>2, <2>3, <2>4, PlainOutcome DEF Refreshing
    <2> QED
      BY <2>5
  <1> QED
    BY <1>1, <1>4, <1>5, <1>6 DEF Carries, Replies

LEMMA AttemptOutcome ==
    ASSUME CarriesInv, NEW s \in Sessions, ReadBaseline(s) \/ RecordStepAttempt(s)
    PROVE  \E next : Outcome(s, next)
  <1>1. call[s] \in Calls /\ Carries(call[s])
    BY DEF CarriesInv
  <1>2. CASE ReadBaseline(s)
    <2>1. call[s].state.steps_used + 1 \in Candidates
      <3>1. call[s].state.steps_used \in Nat /\ call[s].state.steps_used < MaxSteps
        BY <1>1, <1>2 DEF ReadBaseline, Carries, Calls, RunStates
      <3> QED
        BY <3>1, Phase2Assumption, SpecAssumption DEF Phase2Assumption, SpecAssumption
    <2>2. PICK eligible \in BOOLEAN : eligible = Judged(call[s].op, call[s].answer)
      BY DEF Judged, Eligible
    <2> DEFINE next == [At(s, "record_attempt") EXCEPT
                           !.cand = call[s].state.steps_used + 1,
                           !.reply = "none",
                           !.eligible = eligible]
    <2>3. /\ next = [At(s, "record_attempt") EXCEPT
                           !.cand = call[s].state.steps_used + 1,
                           !.reply = "none",
                           !.eligible = eligible]
          /\ Advance(s, next) /\ Writes(s) /\ Launches(s)
      BY <1>2, <2>2 DEF ReadBaseline, Writes, Launches
    <2> HIDE DEF next
    <2>4. /\ next \in Calls
          /\ next.pc = "record_attempt"
          /\ next.answer = call[s].answer
          /\ next.state = call[s].state
          /\ next.cand \in Candidates
      BY <1>1, <2>1, <2>3 DEF At, Calls, CallPoints
    <2>5. ~Asks(next)
      BY <2>4 DEF Asks, Refreshing
    <2>6. Carries(next)
      BY <1>1, <1>2, <2>4, <2>5 DEF Carries, ReadBaseline
    <2>7. Outcome(s, next)
      BY <2>3, <2>4, <2>5, <2>6, PlainOutcome DEF Refreshing
    <2> QED
      BY <2>7
  <1>3. CASE RecordStepAttempt(s)
    <2> DEFINE next == [At(s, "candidate_ready") EXCEPT !.answer = None]
    <2> DEFINE eval == [candidate |-> call[s].cand, eligible |-> call[s].eligible,
                        score |-> call[s].answer]
    <2>1. "candidate_ready" \in CallPoints
      BY DEF CallPoints, Events
    <2>2. next \in Calls /\ next.pc = "candidate_ready" /\ next.state = call[s].state
      BY <1>1, <2>1, AtPoint DEF Calls
    <2>3. eval \in Evaluations
      BY <1>1, <1>3 DEF RecordStepAttempt, Carries, Calls, Evaluations
    <2>4. Advance(s, next) /\ Writes(s) /\ Launches(s)
      BY <1>3, <2>3 DEF RecordStepAttempt, Writes, Launches
    <2>5. Outcome(s, next)
      BY <2>2, <2>4, PlainOutcome DEF Carries, Asks, Refreshing
    <2> QED
      BY <2>5
  <1> QED
    BY <1>2, <1>3

\* What reconcile reads, and what it makes of it.
LEMMA ReadOutcome ==
    ASSUME CarriesInv, NEW s \in Sessions, ReadCandidates(s) \/ ReadEvaluations(s)
    PROVE  \E next : Outcome(s, next)
  <1>1. /\ call[s] \in Calls
        /\ candidates \in Seq(Candidates)
        /\ evaluations \in Seq(Evaluations)
    BY DEF CarriesInv, StoreTypeOK
  <1>2. CASE ReadCandidates(s)
    <2> DEFINE last == IF candidates = <<>> THEN None ELSE candidates[Len(candidates)]
    <2> DEFINE next == [At(s, "read_evaluations") EXCEPT !.cand = last]
    <2>1. last \in Candidates \cup {None}
      BY <1>1
    <2>2. /\ next = [At(s, "read_evaluations") EXCEPT !.cand = last]
          /\ Advance(s, next) /\ Writes(s) /\ Launches(s)
      BY <1>2 DEF ReadCandidates, Writes, Launches
    <2> HIDE DEF last, next
    <2>3. next \in Calls /\ next.pc = "read_evaluations" /\ next.state = call[s].state
      BY <1>1, <2>1, <2>2 DEF At, Calls, CallPoints
    <2>4. Outcome(s, next)
      BY <2>2, <2>3, PlainOutcome DEF Carries, Asks, Refreshing
    <2> QED
      BY <2>4
  <1>3. CASE ReadEvaluations(s)
    <2>1. PICK eligible \in BOOLEAN :
             eligible = (/\ evaluations # <<>>
                         /\ evaluations[Len(evaluations)].eligible)
      <3>1. CASE evaluations = <<>>
        BY <3>1
      <3>2. CASE evaluations # <<>>
        <4>1. evaluations[Len(evaluations)] \in Evaluations
          BY <1>1, <3>2
        <4> QED
          BY <3>2, <4>1 DEF Evaluations
      <3> QED
        BY <3>1, <3>2
    <2> DEFINE next == [At(s, "read_events") EXCEPT !.evals = Len(evaluations),
                                                    !.eligible = eligible]
    <2>2. Len(evaluations) \in Nat
      BY <1>1
    <2>3. /\ next = [At(s, "read_events") EXCEPT !.evals = Len(evaluations),
                                                 !.eligible = eligible]
          /\ Advance(s, next) /\ Writes(s) /\ Launches(s)
      BY <1>3, <2>1 DEF ReadEvaluations, Writes, Launches
    <2> HIDE DEF next
    <2>4. next \in Calls /\ next.pc = "read_events" /\ next.state = call[s].state
      BY <1>1, <2>2, <2>3 DEF At, Calls, CallPoints
    <2>5. Outcome(s, next)
      BY <2>3, <2>4, PlainOutcome DEF Carries, Asks, Refreshing
    <2> QED
      BY <2>5
  <1> QED
    BY <1>2, <1>3

LEMMA DecisionOutcome ==
    ASSUME CarriesInv, NEW s \in Sessions, ReadEvents(s)
    PROVE  \E next : Outcome(s, next)
  <1>1. call[s] \in Calls
    BY DEF CarriesInv
  <1>2. Writes(s) /\ Launches(s)
    BY DEF ReadEvents, Writes, Launches
  <1>3. CASE Advance(s, NoCall)
    BY <1>2, <1>3, NoCallType, PlainOutcome DEF Refreshing
  <1>4. CASE Advance(s, Decision(call[s]))
    <2> DEFINE next == Decision(call[s])
    <2>1. next.pc \in {"candidate_ready", "evaluation_eligible", "evaluation_ineligible",
                       "interrupt", "evaluation_missing"}
      BY <1>1 DEF Decision, Verdict, NoCall, Calls
    <2>2. next \in Calls
      <3>1. CASE call[s].evals > AppliedEvaluations
        <4> DEFINE pc == IF call[s].state.status = "running" THEN "candidate_ready"
                         ELSE Verdict(call[s])
        <4>1. pc \in CallPoints
          BY DEF Verdict, CallPoints, Events
        <4>2. next = [call[s] EXCEPT !.evals = 0, !.pc = pc]
          BY <3>1 DEF Decision
        <4> HIDE DEF next, pc
        <4> QED
          BY <1>1, <4>1, <4>2 DEF Calls
      <3>2. CASE ~(call[s].evals > AppliedEvaluations)
        <4> DEFINE pc == IF call[s].state.status = "running" THEN "interrupt"
                         ELSE "evaluation_missing"
        <4> DEFINE note == IF call[s].state.status = "running" THEN "interrupted"
                           ELSE "evaluation_missing"
        <4>1. pc \in CallPoints /\ note \in Notes
          BY DEF Notes, CallPoints, Events
        <4>2. next = [NoCall EXCEPT !.op = call[s].op, !.state = call[s].state,
                                    !.pc = pc, !.note = note]
          BY <3>2 DEF Decision
        <4> HIDE DEF next, pc, note
        <4> QED
          BY <1>1, <4>1, <4>2, NoCallType DEF Calls
      <3> QED
        BY <3>1, <3>2
    <2>3. Advance(s, next) /\ next.state = call[s].state
      BY <1>1, <1>4 DEF Decision, NoCall, Calls
    <2> HIDE DEF next
    <2>4. Outcome(s, next)
      BY <1>2, <2>1, <2>2, <2>3, PlainOutcome DEF Carries, Asks, Refreshing
    <2> QED
      BY <2>4
  <1> QED
    BY <1>3, <1>4 DEF ReadEvents

\* The supervision: what is durable, what the supervisor is shown, what it says.
LEMMA AdviceOutcome ==
    ASSUME CarriesInv, NEW s \in Sessions, ReadAdvice(s)
    PROVE  \E next : Outcome(s, next)
  <1>1. call[s] \in Calls /\ Carries(call[s]) /\ call[s].pc = "read_advice"
    BY DEF CarriesInv, ReadAdvice
  <1>2. Writes(s) /\ Launches(s) /\ advice' = advice
    BY DEF ReadAdvice, Writes, Launches, ledger, evidence
  <1>3. {"supervisor_applied", "supervisor_failed", "complete", "read_memory"}
           \subseteq CallPoints
    BY DEF CallPoints, Events
  <1>4. CASE call[s].op = "reconcile" /\ advice # <<>>
    <2> DEFINE next == At(s, "supervisor_applied")
    <2>1. Advance(s, next)
      BY <1>4 DEF ReadAdvice
    <2>2. next \in Calls /\ next.pc = "supervisor_applied" /\ next.state = call[s].state
      BY <1>1, <1>3, AtPoint
    <2>3. ~Asks(next)
      BY <2>2 DEF Asks, Refreshing
    <2>4. Carries(next)
      BY <2>2, <2>3 DEF Carries
    <2>5. Outcome(s, next)
      BY <1>2, <1>4, <2>1, <2>2, <2>3, <2>4 DEF Outcome, Refreshing
    <2> QED
      BY <2>5
  <1>5. CASE call[s].op = "reconcile" /\ advice = <<>>
    <2> DEFINE next == [At(s, "supervisor_failed") EXCEPT !.note = "supervisor_missing"]
    <2>1. Advance(s, next)
      BY <1>5 DEF ReadAdvice
    <2>2. next \in Calls /\ next.pc = "supervisor_failed" /\ next.state = call[s].state
      BY <1>1, <1>3, AtPoint DEF Calls, Notes
    <2>3. Outcome(s, next)
      BY <1>2, <2>1, <2>2, PlainOutcome DEF Carries, Asks, Refreshing
    <2> QED
      BY <2>3
  <1>6. CASE call[s].op = "supervise" /\ advice # <<>>
    <2> DEFINE next == At(s, "complete")
    <2>1. Advance(s, next)
      BY <1>6 DEF ReadAdvice
    <2>2. next \in Calls /\ next.pc = "complete" /\ next.state = call[s].state
      BY <1>1, <1>3, AtPoint
    <2>3. Outcome(s, next)
      BY <1>2, <2>1, <2>2, PlainOutcome DEF Carries, Asks, Refreshing
    <2> QED
      BY <2>3
  <1>7. CASE call[s].op = "supervise" /\ advice = <<>>
    <2> DEFINE next == At(s, "read_memory")
    <2>1. Advance(s, next)
      BY <1>7 DEF ReadAdvice
    <2>2. /\ next \in Calls /\ next.pc = "read_memory"
          /\ next.op = "supervise" /\ next.state = call[s].state
          /\ next.state.status = "supervision_required"
      BY <1>1, <1>3, <1>7, AtPoint DEF Carries
    <2>3. next.state # NewRun
      BY <2>2 DEF NewRun
    <2>4. Carries(next)
      BY <2>2, <2>3 DEF Carries, Asks
    <2>5. Outcome(s, next)
      BY <1>2, <1>7, <2>1, <2>2, <2>4 DEF Outcome, Refreshing
    <2> QED
      BY <2>5
  <1> QED
    BY <1>1, <1>4, <1>5, <1>6, <1>7 DEF Carries

LEMMA MemoryOutcome ==
    ASSUME CarriesInv, NEW s \in Sessions, ReadMemory(s)
    PROVE  \E next : Outcome(s, next)
  <1>1. /\ call[s] \in Calls /\ Carries(call[s]) /\ call[s].pc = "read_memory"
        /\ memory \in Memories
    BY DEF CarriesInv, StoreTypeOK, ReadMemory
  <1>2. Asks(call[s]) /\ call[s].state.status = "supervision_required"
    BY <1>1 DEF Carries
  <1>3. Writes(s) /\ Launches(s)
    BY DEF ReadMemory, Writes, Launches
  <1>4. {"refresh", "start_supervisor"} \subseteq CallPoints
    BY DEF CallPoints, Events
  <1>5. CASE memory = NoMemory
    <2> DEFINE next == At(s, "refresh")
    <2>1. Advance(s, next)
      BY <1>5 DEF ReadMemory
    <2>2. /\ next \in Calls /\ next.pc = "refresh" /\ next.op = call[s].op
          /\ next.state = call[s].state
      BY <1>1, <1>4, AtPoint
    <2>3. Asks(next) /\ Carries(next)
      BY <1>2, <2>2 DEF Asks, Carries
    <2>4. Outcome(s, next)
      BY <1>2, <1>3, <2>1, <2>2, <2>3 DEF Outcome, Refreshing
    <2> QED
      BY <2>4
  <1>6. CASE memory # NoMemory
    <2> DEFINE next == [At(s, "start_supervisor") EXCEPT !.memo = memory]
    <2>1. Advance(s, next) /\ next = [At(s, "start_supervisor") EXCEPT !.memo = memory]
      BY <1>6 DEF ReadMemory
    <2> HIDE DEF next
    <2>2. /\ next \in Calls /\ next.pc = "start_supervisor" /\ next.op = call[s].op
          /\ next.state = call[s].state
      BY <1>1, <1>4, <2>1 DEF At, Calls
    <2>3. Asks(next) /\ Carries(next)
      BY <1>2, <2>2 DEF Asks, Carries
    <2>4. Outcome(s, next)
      BY <1>2, <1>3, <2>1, <2>2, <2>3 DEF Outcome, Refreshing
    <2> QED
      BY <2>4
  <1> QED
    BY <1>5, <1>6

LEMMA SupervisorOutcome ==
    ASSUME CarriesInv, NEW s \in Sessions, RunSupervisor(s) \/ RecordSupervisorAdvice(s)
    PROVE  \E next : Outcome(s, next)
  <1>1. call[s] \in Calls /\ Carries(call[s]) /\ advice \in Seq(Advices)
    BY DEF CarriesInv, StoreTypeOK
  <1>2. NoMemory \in Memories
    BY DEF NoMemory, Memories, Statuses
  <1>3. CASE RunSupervisor(s) /\ Advance(s, [At(s, "supervisor_failed") EXCEPT
                                                !.note = "supervisor_failed",
                                                !.memo = NoMemory])
    <2> DEFINE next == [At(s, "supervisor_failed") EXCEPT !.note = "supervisor_failed",
                                                          !.memo = NoMemory]
    <2>1. /\ next = [At(s, "supervisor_failed") EXCEPT !.note = "supervisor_failed",
                                                       !.memo = NoMemory]
          /\ Advance(s, next) /\ Writes(s) /\ Launches(s)
      BY <1>3 DEF RunSupervisor, Writes, Launches
    <2> HIDE DEF next
    <2>2. "supervisor_failed" \in Notes
      BY DEF Notes
    <2>3. next \in Calls /\ next.pc = "supervisor_failed" /\ next.state = call[s].state
      BY <1>1, <1>2, <2>1, <2>2 DEF At, Calls, CallPoints, Events
    <2>4. Outcome(s, next)
      BY <2>1, <2>3, PlainOutcome DEF Carries, Asks, Refreshing
    <2> QED
      BY <2>4
  <1>4. ASSUME NEW artifact \in Advices, RunSupervisor(s),
               Advance(s, [At(s, "record_advice") EXCEPT !.answer = artifact])
        PROVE  \E next : Outcome(s, next)
    <2> DEFINE next == [At(s, "record_advice") EXCEPT !.answer = artifact]
    <2>1. /\ next = [At(s, "record_advice") EXCEPT !.answer = artifact]
          /\ Advance(s, next) /\ Writes(s) /\ Launches(s)
      BY <1>4 DEF RunSupervisor, Writes, Launches
    <2> HIDE DEF next
    <2>2. /\ next \in Calls /\ next.pc = "record_advice" /\ next.answer = artifact
          /\ next.state = call[s].state
      BY <1>1, <2>1 DEF At, Calls, CallPoints
    <2>3. Outcome(s, next)
      BY <2>1, <2>2, PlainOutcome DEF Carries, Asks, Refreshing
    <2> QED
      BY <2>3
  <1>5. CASE RecordSupervisorAdvice(s)
    <2> DEFINE next == [At(s, "supervisor_applied") EXCEPT
                           !.answer = None, !.memo = NoMemory, !.note = "supervisor_result"]
    <2>1. call[s].answer \in Advices
      BY <1>1, <1>5 DEF RecordSupervisorAdvice, Carries
    <2>2. /\ next = [At(s, "supervisor_applied") EXCEPT
                        !.answer = None, !.memo = NoMemory, !.note = "supervisor_result"]
          /\ Advance(s, next) /\ Writes(s) /\ Launches(s)
      BY <1>5, <2>1 DEF RecordSupervisorAdvice, Writes, Launches
    <2> HIDE DEF next
    <2>3. "supervisor_result" \in Notes
      BY DEF Notes
    <2>4. next \in Calls /\ next.pc = "supervisor_applied" /\ next.state = call[s].state
      BY <1>1, <1>2, <2>2, <2>3 DEF At, Calls, CallPoints, Events
    <2>5. advice' # <<>>
      BY <1>1, <1>5, <2>1, AppendProperties DEF RecordSupervisorAdvice, RecordAdvice
    <2>6. Outcome(s, next)
      BY <2>2, <2>4, <2>5 DEF Outcome, Carries, Asks, Refreshing
    <2> QED
      BY <2>6
  <1> QED
    BY <1>3, <1>4, <1>5 DEF RunSupervisor

\* A refresh keeps what the call is about, whatever it rebuilds.
LEMMA RefreshOutcome ==
    ASSUME CarriesInv, NEW s \in Sessions,
           RefreshRun(s) \/ RefreshMemory(s) \/ RefreshAdvice(s)
    PROVE  \E next : Outcome(s, next)
  <1>1. /\ call[s] \in Calls /\ Carries(call[s])
        /\ run \in RunStates(Candidates) /\ memory \in Memories
    BY DEF CarriesInv, StoreTypeOK
  <1>2. Writes(s) /\ Launches(s)
    BY DEF RefreshRun, RefreshMemory, RefreshAdvice, Writes, Launches
  <1>3. Refreshing \subseteq CallPoints
    BY DEF Refreshing, CallPoints
  <1>4. ASSUME NEW next \in Calls, NEW pc \in Refreshing, NEW memo,
               Advance(s, next), next = [At(s, pc) EXCEPT !.memo = memo],
               call[s].pc \in {"refresh", "refresh_memory", "refresh_advice"},
               Rebuilt(s, next)
        PROVE  Outcome(s, next)
    <2>1. next.pc = pc /\ next.op = call[s].op /\ next.state = call[s].state
      BY <1>1, <1>4 DEF At, Calls
    <2>2. Asks(next) => Asks(call[s])
      BY <1>4, <2>1 DEF Asks, Refreshing
    <2>3. Carries(next)
      BY <1>1, <2>1, <2>2 DEF Carries, Refreshing
    <2> QED
      BY <1>2, <1>4, <2>1, <2>2, <2>3 DEF Outcome, Refreshing
  <1>5. CASE RefreshRun(s)
    <2> DEFINE memo == Snapshot(run, 0, FALSE)
    <2> DEFINE next == [At(s, "refresh_memory") EXCEPT !.memo = memo]
    <2>1. memo \in Memories
      BY <1>1, SnapshotType
    <2>2. Advance(s, next) /\ call[s].pc = "refresh" /\ memo = Snapshot(run, 0, FALSE)
      BY <1>5 DEF RefreshRun
    <2> HIDE DEF memo
    <2>3. next \in Calls /\ next.pc = "refresh_memory" /\ next.memo = memo
      BY <1>1, <2>1 DEF At, Calls, CallPoints
    <2>4. Rebuilt(s, next)
      BY <2>2, <2>3 DEF Rebuilt
    <2>5. Outcome(s, next)
      BY <1>4, <2>2, <2>3, <2>4 DEF Refreshing
    <2> QED
      BY <2>5
  <1>6. CASE RefreshMemory(s)
    <2> DEFINE memo == [call[s].memo EXCEPT !.memory_revision = memory.memory_revision + 1]
    <2> DEFINE next == [At(s, "refresh_advice") EXCEPT !.memo = memo]
    <2>1. memo \in Memories
      BY <1>1 DEF Calls, Memories
    <2>2. Advance(s, next) /\ call[s].pc = "refresh_memory"
      BY <1>1, <1>6 DEF RefreshMemory, At, Calls
    <2>3. memo = [call[s].memo EXCEPT !.memory_revision = memory.memory_revision + 1]
      OBVIOUS
    <2> HIDE DEF memo
    <2>4. next \in Calls /\ next.pc = "refresh_advice" /\ next.memo = memo
      BY <1>1, <2>1 DEF At, Calls, CallPoints
    <2>5. Rebuilt(s, next)
      BY <2>2, <2>3, <2>4 DEF Rebuilt
    <2>6. Outcome(s, next)
      BY <1>4, <2>2, <2>4, <2>5 DEF Refreshing
    <2> QED
      BY <2>6
  <1>7. CASE RefreshAdvice(s)
    <2> DEFINE memo == [call[s].memo EXCEPT !.advised = (advice # <<>>)]
    <2> DEFINE next == [At(s, "save_memory") EXCEPT !.memo = memo]
    <2>1. memo \in Memories
      BY <1>1 DEF Calls, Memories
    <2>2. Advance(s, next) /\ call[s].pc = "refresh_advice"
      BY <1>1, <1>7 DEF RefreshAdvice, At, Calls
    <2>3. memo = [call[s].memo EXCEPT !.advised = (advice # <<>>)]
      OBVIOUS
    <2> HIDE DEF memo
    <2>4. next \in Calls /\ next.pc = "save_memory" /\ next.memo = memo
      BY <1>1, <2>1 DEF At, Calls, CallPoints
    <2>5. Rebuilt(s, next)
      BY <2>2, <2>3, <2>4 DEF Rebuilt
    <2>6. Outcome(s, next)
      BY <1>4, <2>2, <2>4, <2>5 DEF Refreshing
    <2> QED
      BY <2>6
  <1> QED
    BY <1>5, <1>6, <1>7

LEMMA SaveOutcome ==
    ASSUME CarriesInv, NEW s \in Sessions, SaveRefreshed(s)
    PROVE  \E next : Outcome(s, next)
  <1>1. call[s] \in Calls /\ Carries(call[s]) /\ call[s].pc = "save_memory"
    BY DEF CarriesInv, SaveRefreshed
  <1>2. Writes(s) /\ Launches(s)
    BY DEF SaveRefreshed, Writes, Launches
  <1>3. CASE call[s].op = "supervise" /\ call[s].state # NewRun
    <2> DEFINE next == At(s, "start_supervisor")
    <2>1. Advance(s, next) /\ Asks(call[s])
      BY <1>1, <1>3 DEF SaveRefreshed, Asks, Refreshing
    <2>2. "start_supervisor" \in CallPoints
      BY DEF CallPoints, Events
    <2>3. /\ next \in Calls /\ next.pc = "start_supervisor" /\ next.op = call[s].op
          /\ next.state = call[s].state
      BY <1>1, <2>2, AtPoint
    <2>4. Asks(next)
      BY <1>3, <2>3 DEF Asks
    <2>5. Carries(next)
      BY <1>1, <2>1, <2>3, <2>4 DEF Carries
    <2>6. Outcome(s, next)
      BY <1>2, <2>1, <2>3, <2>5 DEF Outcome, Refreshing
    <2> QED
      BY <2>6
  <1>4. CASE ~(call[s].op = "supervise" /\ call[s].state # NewRun)
    <2>1. Advance(s, NoCall)
      BY <1>4 DEF SaveRefreshed
    <2>2. Outcome(s, NoCall)
      BY <1>2, <2>1, NoCallType, PlainOutcome DEF Refreshing
    <2> QED
      BY <2>2
  <1> QED
    BY <1>3, <1>4

LEMMA CallOutcome ==
    ASSUME CarriesInv, NEW s \in Sessions, Work(s) \/ BeginCancel(s) \/ Proceed(s) \/ Vanish(s)
    PROVE  Commit(s) \/ \E next : Outcome(s, next)
  BY BeginOutcome, EndOutcome, ChildOutcome, ResultOutcome, AttemptOutcome, ReadOutcome,
     DecisionOutcome, AdviceOutcome, MemoryOutcome, SupervisorOutcome, RefreshOutcome,
     SaveOutcome
  DEF Proceed

LEMMA StepOutcome ==
    ASSUME CarriesInv, Next
    PROVE  \E s \in Sessions : Commit(s) \/ \E next : Outcome(s, next)
  BY CallOutcome DEF Next

-----------------------------------------------------------------------------
\* The sessions' steps are steps of the ledger, so the ledger's own invariant holds.

\* The run has a budget left, as long as it is not at its end.
BudgetInv ==
    /\ run.steps_used <= MaxSteps
    /\ run.status \notin Terminal => ~Spent(run.steps_used, run.cost)

\* A memory tells of a state the run has been in.
Dates(m) == \E i \in DOMAIN journal : m = Snapshot(journal[i].state, m.memory_revision, m.advised)

DatesInv == \A s \in Sessions : call[s].pc \in Refreshing => Dates(call[s].memo)

CoreInv == Inv /\ CarriesInv /\ BudgetInv /\ DatesInv

\* Where a call goes on after its transition.
CommitPoints ==
    {"run_child", "run_supervisor", "evaluation_eligible", "evaluation_ineligible", "observe",
     "idle", "refresh"}

LEMMA CommitOutcome ==
    ASSUME CarriesInv, BudgetInv, NEW s \in Sessions, Commit(s)
    PROVE  /\ Promoted(call[s], call[s].pc) \in Candidates \cup {None}
           /\ run' \in RunStates(Candidates)
           /\ AfterCommit(s) \in Calls
           /\ Carries(AfterCommit(s))
           /\ AfterCommit(s).pc \in CommitPoints
           /\ AfterCommit(s).pc = "run_child" => call[s].pc = "start_step"
           /\ AfterCommit(s).pc = "run_supervisor" => call[s].pc = "start_supervisor"
           /\ ~Asks(AfterCommit(s))
  <1>1. /\ call[s] \in Calls
        /\ call[s].pc \in Events
        /\ run \in RunStates(Candidates)
        /\ Accepts(run, call[s].pc, Promoted(call[s], call[s].pc), 0)
        /\ run' = Apply(run, call[s].pc, Promoted(call[s], call[s].pc), 0)
    BY DEF CarriesInv, StoreTypeOK, Commit, Transition
  <1>2. Promoted(call[s], call[s].pc) \in Candidates \cup {None}
    BY <1>1 DEF Promoted, Calls
  <1>3. run' \in RunStates(Candidates)
    BY <1>1, <1>2, ApplyType
  <1> DEFINE c == [call[s] EXCEPT !.state = run']
  <1>4. c \in Calls /\ c.state = run' /\ c.pc = call[s].pc /\ c.note = call[s].note
    BY <1>1, <1>3 DEF Calls
  <1>5. AfterCommit(s) =
           CASE c.pc = "start_step"       -> [c EXCEPT !.pc = "run_child"]
             [] c.pc = "start_supervisor" -> [c EXCEPT !.pc = "run_supervisor"]
             [] c.pc = "candidate_ready"  -> [c EXCEPT !.pc = Verdict(c)]
             [] c.pc \notin {"start_step", "start_supervisor", "candidate_ready"}
                  /\ c.note # None        -> [c EXCEPT !.pc = "observe"]
             [] OTHER                     -> Refresh(s)
    BY DEF AfterCommit
  <1> DEFINE next == AfterCommit(s)
  <1> HIDE DEF c, next
  <1>6. CASE call[s].pc = "start_step"
    <2>1. next = [c EXCEPT !.pc = "run_child"]
      BY <1>4, <1>5, <1>6 DEF next
    <2>2. next \in Calls /\ next.pc = "run_child" /\ next.state = run'
      BY <1>4, <2>1 DEF Calls, CallPoints
    <2>3. run.steps_used < MaxSteps
      <3>1. run.status = "ready"
        BY <1>1, <1>6 DEF Accepts, Allowed
      <3> QED
        BY <1>1, <3>1, SpecAssumption DEF BudgetInv, Spent, Terminal, RunStates, SpecAssumption
    <2>4. run'.steps_used = run.steps_used
      BY <1>1, <1>6, MoveFields DEF AttemptEnd, Unproductive
    <2>5. ~Asks(next) /\ Carries(next)
      BY <2>2, <2>3, <2>4 DEF Carries, Asks, Refreshing
    <2> QED
      BY <1>2, <1>3, <1>6, <2>2, <2>5 DEF CommitPoints, next
  <1>7. CASE call[s].pc = "start_supervisor"
    <2>1. next = [c EXCEPT !.pc = "run_supervisor"]
      BY <1>4, <1>5, <1>7 DEF next
    <2>2. next \in Calls /\ next.pc = "run_supervisor"
      BY <1>4, <2>1 DEF Calls, CallPoints
    <2>3. ~Asks(next) /\ Carries(next)
      BY <2>2 DEF Carries, Asks, Refreshing
    <2> QED
      BY <1>2, <1>3, <1>7, <2>2, <2>3 DEF CommitPoints, next
  <1>8. CASE call[s].pc = "candidate_ready"
    <2>1. next = [c EXCEPT !.pc = Verdict(c)]
      BY <1>4, <1>5, <1>8 DEF next
    <2>2. Verdict(c) \in {"evaluation_eligible", "evaluation_ineligible"}
      BY DEF Verdict
    <2>3. next \in Calls /\ next.pc \in {"evaluation_eligible", "evaluation_ineligible"}
      BY <1>4, <2>1, <2>2 DEF Calls, CallPoints, Events
    <2>4. ~Asks(next) /\ Carries(next)
      BY <2>3 DEF Carries, Asks, Refreshing
    <2> QED
      BY <1>2, <1>3, <2>3, <2>4 DEF CommitPoints, next
  <1>9. CASE /\ call[s].pc \notin {"start_step", "start_supervisor", "candidate_ready"}
             /\ call[s].note # None
    <2>1. next = [c EXCEPT !.pc = "observe"]
      BY <1>4, <1>5, <1>9 DEF next
    <2>2. next \in Calls /\ next.pc = "observe" /\ next.note # None
      BY <1>4, <1>9, <2>1 DEF Calls, CallPoints
    <2>3. ~Asks(next) /\ Carries(next)
      BY <2>2 DEF Carries, Asks, Refreshing
    <2> QED
      BY <1>2, <1>3, <2>2, <2>3 DEF CommitPoints, next
  <1>10. CASE /\ call[s].pc \notin {"start_step", "start_supervisor", "candidate_ready"}
              /\ call[s].note = None
    <2>1. next = Refresh(s)
      BY <1>4, <1>5, <1>10 DEF next
    <2> QED
      BY <1>1, <1>2, <1>3, <2>1, RefreshType DEF CommitPoints, next
  <1> QED
    BY <1>6, <1>7, <1>8, <1>9, <1>10

\* A committed transition is one of the ledger's.
LEMMA CommitStore ==
    ASSUME CoreInv, NEW s \in Sessions, Commit(s)
    PROVE  StoreNext
  <1>1. /\ call[s].pc \in Events
        /\ Transition(call[s].pc, call[s].state.revision, Promoted(call[s], call[s].pc), 0)
        /\ call[s].state.revision = run.revision
    BY DEF Commit, Transition
  <1>2. run.revision \in 0 .. run.revision
    BY DEF CoreInv, CarriesInv, StoreTypeOK, RunStates
  <1>3. Promoted(call[s], call[s].pc) \in Candidates \cup {None}
    BY CommitOutcome DEF CoreInv
  <1> QED
    BY <1>1, <1>2, <1>3, NoCharge DEF StoreNext

\* So is every other write of a call: the memory it saves tells of a state of the journal.
LEMMA WritesStore ==
    ASSUME CoreInv, NEW s \in Sessions, Writes(s)
    PROVE  [StoreNext]_ledger
  <1>1. ASSUME call[s].pc = "save_memory",
               SaveMemory(call[s].memo, call[s].memo.memory_revision - 1)
        PROVE  StoreNext
    <2> DEFINE m == call[s].memo
    <2>1. m \in Memories /\ Dates(m) /\ memory \in Memories
      BY <1>1 DEF CoreInv, CarriesInv, StoreTypeOK, DatesInv, Refreshing, Calls
    <2>2. PICK i \in DOMAIN journal :
             m = Snapshot(journal[i].state, m.memory_revision, m.advised)
      BY <2>1 DEF Dates
    <2> DEFINE expected == m.memory_revision - 1
    <2>3. /\ expected \in 0 .. memory.memory_revision
          /\ expected + 1 = m.memory_revision
          /\ m.advised \in BOOLEAN
      BY <1>1, <2>1 DEF SaveMemory, Memories
    <2>4. SaveMemory(Snapshot(journal[i].state, expected + 1, m.advised), expected)
      BY <1>1, <2>2, <2>3
    <2> QED
      BY <2>3, <2>4 DEF StoreNext
  <1> QED
    BY <1>1, Phase2Assumption DEF Writes, StoreNext, Phase2Assumption

LEMMA OutcomeRun ==
    ASSUME NEW s \in Sessions, NEW next, Outcome(s, next)
    PROVE  run' = run
  BY DEF Outcome, Writes, ledger, RecordObservation, RecordAttempt, RecordAdvice, SaveMemory

\* The journal is appended to and never rewritten.
LEMMA JournalKept ==
    ASSUME Inv, [StoreNext]_ledger, NEW i \in DOMAIN journal
    PROVE  i \in DOMAIN journal' /\ journal'[i] = journal[i]
  <1>1. journal \in Seq(JournalRows)
    BY DEF Inv, StoreTypeOK
  <1>2. CASE UNCHANGED journal
    BY <1>2
  <1>3. ASSUME NEW row, journal' = Append(journal, row)
        PROVE  i \in DOMAIN journal' /\ journal'[i] = journal[i]
    BY <1>1, <1>3
  <1> QED
    BY <1>2, <1>3 DEF StoreNext, ledger, Transition, RecordObservation, RecordCandidate,
       RecordEvaluation, RecordAttempt, RecordAttemptWithReceipt, RecordReceipt, RecordAdvice,
       SaveMemory

LEMMA DatesKept ==
    ASSUME Inv, [StoreNext]_ledger, NEW m, Dates(m)
    PROVE  Dates(m)'
  <1>1. PICK i \in DOMAIN journal : m = Snapshot(journal[i].state, m.memory_revision, m.advised)
    BY DEF Dates
  <1>2. i \in DOMAIN journal' /\ journal'[i] = journal[i]
    BY JournalKept
  <1> QED
    BY <1>1, <1>2 DEF Dates, Snapshot

\* What a refresh has put together tells of the run, or of what it told of before.
LEMMA RebuiltDates ==
    ASSUME CoreInv, NEW s \in Sessions, NEW next, Rebuilt(s, next)
    PROVE  Dates(next.memo)
  <1>1. CASE next.memo = Snapshot(run, 0, FALSE)
    <2>1. Len(journal) \in DOMAIN journal /\ journal[Len(journal)].state = run
      BY DEF CoreInv, Inv, StoreTypeOK, JournalReplays
    <2>2. next.memo = Snapshot(journal[Len(journal)].state, next.memo.memory_revision,
                               next.memo.advised)
      BY <1>1, <2>1 DEF Snapshot
    <2> QED
      BY <2>1, <2>2 DEF Dates
  <1>2. ASSUME call[s].pc \in Refreshing, NEW n, NEW b,
               \/ next.memo = [call[s].memo EXCEPT !.memory_revision = n]
               \/ next.memo = [call[s].memo EXCEPT !.advised = b]
        PROVE  Dates(next.memo)
    <2>1. PICK i \in DOMAIN journal :
             call[s].memo = Snapshot(journal[i].state, call[s].memo.memory_revision,
                                     call[s].memo.advised)
      BY <1>2 DEF CoreInv, DatesInv, Dates
    <2>2. next.memo = Snapshot(journal[i].state, next.memo.memory_revision, next.memo.advised)
      BY <1>2, <2>1 DEF Snapshot
    <2> QED
      BY <2>2 DEF Dates
  <1> QED
    BY <1>1, <1>2 DEF Rebuilt, Refreshing

LEMMA BudgetKept ==
    ASSUME CoreInv, NEW s \in Sessions, Commit(s)
    PROVE  BudgetInv'
  <1>1. run \in RunStates(Candidates)
    BY DEF CoreInv, CarriesInv, StoreTypeOK
  <1>2. PICK event \in Events, cand \in Candidates \cup {None} :
           Accepts(run, event, cand, 0) /\ run' = Apply(run, event, cand, 0)
    BY CommitOutcome DEF CoreInv, Commit, Transition
  <1>3. run.status \notin Terminal
    BY <1>2 DEF Accepts, Allowed, Terminal
  <1>4. ~Spent(run.steps_used, run.cost) /\ run.steps_used < MaxSteps
    BY <1>1, <1>3, SpecAssumption DEF CoreInv, BudgetInv, Spent, RunStates, SpecAssumption
  <1>5. CASE event \in AttemptEnd
    <2>1. /\ run'.steps_used = run.steps_used + 1
          /\ \/ run'.status = StatusAfterAttempt("succeeded", run'.steps_used,
                                                 run'.no_progress, run'.cost)
             \/ run'.status = StatusAfterAttempt("budget_exhausted", run'.steps_used,
                                                 run'.no_progress, run'.cost)
      BY <1>1, <1>2, <1>5, AttemptFields
    <2>2. run'.steps_used <= MaxSteps
      BY <1>1, <1>4, <2>1, SpecAssumption DEF RunStates, SpecAssumption
    <2>3. Spent(run'.steps_used, run'.cost) => run'.status \in Terminal
      BY <2>1 DEF StatusAfterAttempt, Terminal
    <2> QED
      BY <2>2, <2>3 DEF BudgetInv, Spent
  <1>6. CASE event \notin AttemptEnd
    <2>1. run'.steps_used = run.steps_used /\ run'.cost = run.cost
      BY <1>1, <1>2, <1>6, MoveFields
    <2> QED
      BY <1>4, <2>1 DEF CoreInv, BudgetInv, Spent
  <1> QED
    BY <1>5, <1>6

\* A call that advances changes no other call.
LEMMA OthersStay ==
    ASSUME CarriesInv, NEW s \in Sessions, NEW next, Advance(s, next)
    PROVE  /\ call'[s] = next
           /\ \A t \in Sessions : t # s => call'[t] = call[t]
           /\ next \in Calls => call' \in [Sessions -> Calls]
  BY DEF CarriesInv, Advance

LEMMA LaunchesType ==
    ASSUME CarriesInv, NEW s \in Sessions, Launches(s)
    PROVE  launches' \in [variation : Nat, supervisor : Nat]
  BY DEF CarriesInv, Launches

LEMMA CoreOutcome ==
    ASSUME CoreInv, NEW s \in Sessions, NEW next, Outcome(s, next)
    PROVE  CoreInv'
  <1>1. [StoreNext]_ledger
    BY WritesStore DEF Outcome
  <1>2. Inv'
    BY <1>1, InvStep DEF CoreInv
  <1>3. Advance(s, next) /\ next \in Calls /\ Carries(next) /\ Launches(s)
    BY DEF Outcome
  <1>4. /\ call'[s] = next
        /\ \A t \in Sessions : t # s => call'[t] = call[t]
        /\ call' \in [Sessions -> Calls]
    BY <1>3, OthersStay DEF CoreInv
  <1>5. CarriesInv'
    <2>1. \A t \in Sessions : Carries(call'[t])
      BY <1>3, <1>4 DEF CoreInv, CarriesInv
    <2>2. \A t \in Sessions : Carries(call[t])'
      BY <2>1 DEF Carries, Asks
    <2>3. launches' \in [variation : Nat, supervisor : Nat]
      BY <1>3, LaunchesType DEF CoreInv
    <2> QED
      BY <1>2, <1>4, <2>2, <2>3 DEF CarriesInv, Inv
  <1>6. BudgetInv'
    BY OutcomeRun DEF CoreInv, BudgetInv
  <1>7. ASSUME NEW t \in Sessions, call'[t].pc \in Refreshing
        PROVE  Dates(call[t].memo)'
    <2>1. PICK m : m = call'[t].memo
      OBVIOUS
    <2>2. Dates(m)
      <3>1. CASE t = s
        BY <1>4, <1>7, <2>1, <3>1, RebuiltDates DEF Outcome
      <3>2. CASE t # s
        BY <1>4, <1>7, <2>1, <3>2 DEF CoreInv, DatesInv
      <3> QED
        BY <3>1, <3>2
    <2>3. Dates(m)'
      BY <1>1, <2>2, DatesKept DEF CoreInv
    <2> QED
      BY <2>1, <2>3 DEF Dates
  <1>8. DatesInv'
    BY <1>7 DEF DatesInv
  <1> QED
    BY <1>2, <1>5, <1>6, <1>8 DEF CoreInv

LEMMA CoreCommit ==
    ASSUME CoreInv, NEW s \in Sessions, Commit(s)
    PROVE  CoreInv'
  <1>1. StoreNext
    BY CommitStore
  <1>2. Inv'
    BY <1>1, InvStep DEF CoreInv
  <1>3. /\ Advance(s, AfterCommit(s))
        /\ AfterCommit(s) \in Calls
        /\ Carries(AfterCommit(s))
        /\ AfterCommit(s).pc \notin Refreshing
        /\ launches' = launches
    BY CommitOutcome DEF CoreInv, Commit, CommitPoints, Refreshing
  <1>4. /\ call'[s] = AfterCommit(s)
        /\ \A t \in Sessions : t # s => call'[t] = call[t]
        /\ call' \in [Sessions -> Calls]
    BY <1>3, OthersStay DEF CoreInv
  <1>5. CarriesInv'
    <2>1. \A t \in Sessions : Carries(call'[t])
      BY <1>3, <1>4 DEF CoreInv, CarriesInv
    <2>2. \A t \in Sessions : Carries(call[t])'
      BY <2>1 DEF Carries, Asks
    <2> QED
      BY <1>2, <1>3, <1>4, <2>2 DEF CoreInv, CarriesInv, Inv
  <1>6. ASSUME NEW t \in Sessions, call'[t].pc \in Refreshing
        PROVE  Dates(call[t].memo)'
    <2>1. t # s /\ call'[t] = call[t]
      BY <1>3, <1>4, <1>6
    <2>2. PICK m : m = call[t].memo
      OBVIOUS
    <2>3. Dates(m)
      BY <1>6, <2>1, <2>2 DEF CoreInv, DatesInv
    <2>4. Dates(m)'
      BY <1>1, <2>3, DatesKept DEF CoreInv
    <2> QED
      BY <2>1, <2>2, <2>4 DEF Dates
  <1>7. DatesInv'
    BY <1>6 DEF DatesInv
  <1> QED
    BY <1>2, <1>5, <1>7, BudgetKept DEF CoreInv

\* A run that its create_run has just made, for one phase or the other.
Opened ==
    /\ StoreInit
    /\ launches = [variation |-> 0, supervisor |-> 0]
    /\ \E op \in {"create", "phase1_create"}, creator \in Sessions :
          call = [s \in Sessions |->
                     IF s = creator THEN [NoCall EXCEPT !.op = op, !.pc = "approve"]
                                    ELSE NoCall]

LEMMA InitOpened == Init => Opened
  BY DEF Init, Opened

LEMMA CoreInit == Opened => CoreInv
  <1> SUFFICES ASSUME Opened
               PROVE  CoreInv
    OBVIOUS
  <1>1. Inv
    BY InvInit DEF Opened
  <1>2. PICK op \in {"create", "phase1_create"}, creator \in Sessions :
           call = [s \in Sessions |->
                      IF s = creator THEN [NoCall EXCEPT !.op = op, !.pc = "approve"]
                                     ELSE NoCall]
    BY DEF Opened
  <1> DEFINE first == [NoCall EXCEPT !.op = op, !.pc = "approve"]
  <1>3. first = [NoCall EXCEPT !.op = op, !.pc = "approve"]
    OBVIOUS
  <1> HIDE DEF first
  <1>4. first \in Calls /\ first.pc = "approve"
    BY <1>3, NoCallType DEF Calls, CallPoints, Events, Phase1Ops
  <1>5. Carries(first)
    BY <1>4 DEF Carries, Asks, Refreshing
  <1>6. \A s \in Sessions : /\ call[s] \in Calls
                            /\ Carries(call[s])
                            /\ call[s].pc \notin Refreshing
    BY <1>2, <1>3, <1>4, <1>5, NoCallType DEF Refreshing
  <1>7. CarriesInv
    BY <1>1, <1>2, <1>6 DEF CarriesInv, Inv, Opened
  <1>8. run.steps_used = 0 /\ run.cost = 0
    BY DEF Opened, StoreInit, NewRun
  <1>9. BudgetInv
    BY <1>8, SpecAssumption, Phase2Assumption
    DEF BudgetInv, Spent, SpecAssumption, Phase2Assumption
  <1> QED
    BY <1>1, <1>6, <1>7, <1>9 DEF CoreInv, DatesInv

LEMMA CoreStutter ==
    ASSUME CoreInv, UNCHANGED vars
    PROVE  CoreInv'
  <1>1. Inv'
    BY InvStep DEF CoreInv, vars
  <1> QED
    BY <1>1 DEF CoreInv, CarriesInv, Carries, Asks, BudgetInv, DatesInv, Dates, Inv, vars,
                ledger, evidence

LEMMA CoreStep == CoreInv /\ [Next]_vars => CoreInv'
  <1>1. ASSUME CoreInv, Next
        PROVE  CoreInv'
    BY <1>1, StepOutcome, CoreCommit, CoreOutcome DEF CoreInv
  <1> QED
    BY <1>1, CoreStutter

LEMMA CoreHolds == Spec => []CoreInv
  BY InitOpened, CoreInit, CoreStep, PTL DEF Spec

LEMMA CrashesStep == crashes \in 0 .. MaxCrashes /\ [Next]_vars => (crashes \in 0 .. MaxCrashes)'
  <1> SUFFICES ASSUME crashes \in 0 .. MaxCrashes, [Next]_vars
               PROVE  crashes' \in 0 .. MaxCrashes
    OBVIOUS
  <1>1. CASE crashes' = crashes
    BY <1>1
  <1>2. CASE \E s \in Sessions : Vanish(s)
    BY <1>2, Phase2Assumption DEF Vanish, Phase2Assumption
  <1>3. CASE \E s \in Sessions : Work(s) \/ BeginCancel(s)
    BY <1>1, <1>3 DEF Work, BeginStep, BeginReconcile, BeginSupervise, BeginCancel, Begin
  <1>4. CASE \E s \in Sessions : Proceed(s)
    BY <1>1, <1>4 DEF Proceed, Commit, Refuse, Observe, Conflict, RunChild, ObserveChild,
       ReadBaseline, RecordStepAttempt, ReadCandidates, ReadEvaluations, ReadEvents, ReadAdvice,
       ReadMemory, RunSupervisor, RecordSupervisorAdvice, RefreshRun, RefreshMemory,
       RefreshAdvice, SaveRefreshed
  <1> QED
    BY <1>1, <1>2, <1>3, <1>4 DEF Next, vars

\* However sessions interleave and crash, no call of step, reconcile, supervise or cancel
\* reaches a point its operation does not have, numbers an attempt beyond the RunSpec's
\* steps, or writes a row or a memory its contract does not allow.
THEOREM Phase2Typed == Spec => []TypeOK
  <1>1. Init => crashes \in 0 .. MaxCrashes
    BY Phase2Assumption DEF Init, Phase2Assumption
  <1>2. CoreInv /\ crashes \in 0 .. MaxCrashes => TypeOK
    BY DEF CoreInv, CarriesInv, TypeOK
  <1> QED
    BY <1>1, <1>2, CoreHolds, CrashesStep, PTL DEF Spec

\* A step of one call is an operation of the ledger, made with the arguments the ledger's
\* own callers could give, or leaves the ledger alone.
LEMMA CallStores ==
    ASSUME CoreInv, NEW s \in Sessions, Commit(s) \/ \E next : Outcome(s, next)
    PROVE  [StoreNext]_ledger
  <1>1. CASE Commit(s)
    BY <1>1, CommitStore
  <1>2. CASE \E next : Outcome(s, next)
    BY <1>2, WritesStore DEF Outcome, CoreInv
  <1> QED
    BY <1>1, <1>2

LEMMA StepsAreStores == Spec => StoreSpec
  <1>1. Init => StoreInit
    BY DEF Init
  <1>2. CoreInv /\ [Next]_vars => [StoreNext]_ledger
    BY StepOutcome, CallStores DEF CoreInv, vars
  <1> QED
    BY <1>1, <1>2, CoreHolds, PTL DEF Spec, StoreSpec

\* The operators of Store are those of this module, instance by instance.
LEMMA StoreApply ==
    ASSUME NEW s, NEW event, NEW cand, NEW delta
    PROVE  /\ Store!Accepts(s, event, cand, delta) = Accepts(s, event, cand, delta)
           /\ Store!Apply(s, event, cand, delta) = Apply(s, event, cand, delta)
  <1>1. Store!Accepts(s, event, cand, delta) = Accepts(s, event, cand, delta)
    BY DEF Store!Accepts, Accepts, Store!Allowed, Allowed, Store!AttemptEnd,
           AttemptEnd, Store!Unproductive, Unproductive, Store!SafeResume, SafeResume
  <1>2. Store!Apply(s, event, cand, delta) = Apply(s, event, cand, delta)
    BY DEF Store!Apply, Apply, Store!Unproductive, Unproductive,
           Store!Goto, Goto, Store!Conclusion, Conclusion, Store!Spent, Spent,
           Store!AfterFailure, AfterFailure, Store!AfterSuccess, AfterSuccess,
           Store!StatusAfterAttempt, StatusAfterAttempt
  <1> QED
    BY <1>1, <1>2

LEMMA StoreTransition ==
    ASSUME NEW event, NEW expected, NEW cand, NEW delta,
           Transition(event, expected, cand, delta)
    PROVE  Store!Transition(event, expected, cand, delta)
  BY StoreApply DEF Transition, Store!Transition, TransitionRow, Store!TransitionRow,
                    evidence, Store!evidence

LEMMA StoreOperations ==
    /\ \A event : RecordObservation(event) => Store!RecordObservation(event)
    /\ \A cand : RecordCandidate(cand) => Store!RecordCandidate(cand)
    /\ \A eval : RecordEvaluation(eval) => Store!RecordEvaluation(eval)
    /\ \A eval : RecordAttempt(eval) => Store!RecordAttempt(eval)
    /\ \A eval, receipt : RecordAttemptWithReceipt(eval, receipt)
                             => Store!RecordAttemptWithReceipt(eval, receipt)
    /\ \A receipt : RecordReceipt(receipt) => Store!RecordReceipt(receipt)
    /\ \A artifact : RecordAdvice(artifact) => Store!RecordAdvice(artifact)
    /\ \A new, expected : SaveMemory(new, expected) => Store!SaveMemory(new, expected)
    /\ \A state, n, advised : Snapshot(state, n, advised) = Store!Snapshot(state, n, advised)
  BY DEF RecordObservation, Store!RecordObservation, ObservationRow, Store!ObservationRow,
         RecordCandidate, Store!RecordCandidate, RecordEvaluation, Store!RecordEvaluation,
         RecordAttempt, Store!RecordAttempt, RecordAttemptWithReceipt,
         Store!RecordAttemptWithReceipt, RecordReceipt, Store!RecordReceipt, RecordAdvice,
         Store!RecordAdvice, SaveMemory, Store!SaveMemory, Snapshot, Store!Snapshot,
         Rows, Store!Rows, evidence, Store!evidence

LEMMA StoreStepsToo == StoreSpec => StoreSteps
  <1>1. StoreInit => Store!StoreInit
    BY DEF StoreInit, Store!StoreInit, NewRun, Store!NewRun, NoMemory, Store!NoMemory,
           ObservationRow, Store!ObservationRow
  <1>2. StoreNext => Store!StoreNext
    <2>1. CASE \E event \in Events, expected \in 0 .. run.revision,
                 cand \in Candidates \cup {None}, delta \in 0 .. CostCeiling :
                 Transition(event, expected, cand, delta)
      <3>1. PICK event \in Events, expected \in 0 .. run.revision,
                 cand \in Candidates \cup {None}, delta \in 0 .. CostCeiling :
                 Transition(event, expected, cand, delta)
        BY <2>1
      <3>2. Store!Transition(event, expected, cand, delta)
        BY <3>1, StoreTransition
      <3>3. event \in Store!Events
        BY DEF Events, Store!Events
      <3> QED
        BY <3>2, <3>3 DEF Store!StoreNext
    <2>2. CASE ~\E event \in Events, expected \in 0 .. run.revision,
                  cand \in Candidates \cup {None}, delta \in 0 .. CostCeiling :
                  Transition(event, expected, cand, delta)
      BY <2>2, StoreOperations DEF StoreNext, Store!StoreNext, Evaluations, Store!Evaluations
    <2> QED
      BY <2>1, <2>2
  <1>3. Store!ledger = ledger
    BY DEF ledger, Store!ledger, evidence, Store!evidence
  <1>4. [StoreNext]_ledger => [Store!StoreNext]_(Store!ledger)
    BY <1>2, <1>3 DEF ledger, Store!ledger, evidence, Store!evidence
  <1> QED
    BY <1>1, <1>4, PTL DEF StoreSpec, StoreSteps, Store!StoreSpec

\* The refinement the runs check: create_run, step, reconcile, supervise and cancel use
\* the store in no way that the store's own specification does not allow.
THEOREM Phase2ImplementsStore == Spec => StoreSteps
  BY StepsAreStores, StoreStepsToo, PTL

\* And so, through the store, the run that Phase 2's racing sessions drive is a run of the
\* state machine: whatever the calls do, its status, budgets and best move by one accepted
\* event at a time.
THEOREM Phase2ImplementsLifecycle == Spec => LifecycleSpec
  BY StepsAreStores, StoreImplementsLifecycle, PTL

-----------------------------------------------------------------------------
\* Optimistic concurrency.  The store compares revisions only.  That this compares states
\* takes an invariant: the state a call holds is one the run has been in, so it is the
\* run's own as long as its revision is.

Sees(c) ==
    /\ c.state.revision <= run.revision
    /\ c.state.revision = run.revision => c.state = run

SeenInv ==
    /\ run.revision = 0 => run = NewRun
    /\ \A s \in Sessions : Sees(call[s])

LEMMA SeenInit == Opened => SeenInv
  <1> SUFFICES ASSUME Opened
               PROVE  SeenInv
    OBVIOUS
  <1>1. run = NewRun /\ \A s \in Sessions : call[s].state = NewRun
    BY DEF Opened, StoreInit, NoCall
  <1>2. NewRun.revision = 0
    BY DEF NewRun
  <1> QED
    BY <1>1, <1>2 DEF SeenInv, Sees

\* A call keeps the state it holds, lets go of it or loads the run's.
LEMMA SeenOutcome ==
    ASSUME CoreInv, SeenInv, NEW s \in Sessions, NEW next, Outcome(s, next)
    PROVE  SeenInv'
  <1>1. /\ call'[s] = next
        /\ \A t \in Sessions : t # s => call'[t] = call[t]
        /\ next.state \in {call[s].state, NewRun, run}
        /\ run' = run
    BY OthersStay, OutcomeRun DEF CoreInv, Outcome
  <1>2. run.revision \in Nat /\ NewRun.revision = 0
    BY DEF CoreInv, CarriesInv, StoreTypeOK, RunStates, NewRun
  <1>3. \A t \in Sessions : Sees(call'[t])
    BY <1>1, <1>2 DEF SeenInv, Sees
  <1> QED
    BY <1>1, <1>3 DEF SeenInv, Sees

\* A transition moves the revision on by one, so no other call's state is as new.
LEMMA SeenCommit ==
    ASSUME CoreInv, SeenInv, NEW s \in Sessions, Commit(s)
    PROVE  SeenInv'
  <1>1. /\ call'[s] = AfterCommit(s)
        /\ \A t \in Sessions : t # s => call'[t] = call[t]
    BY OthersStay DEF CoreInv, Commit
  <1>2. PICK event \in Events, cand \in Candidates \cup {None} :
           /\ event = call[s].pc
           /\ Accepts(run, event, cand, 0)
           /\ run' = Apply(run, event, cand, 0)
    BY CommitOutcome DEF CoreInv, Commit, Transition
  <1>3. run \in RunStates(Candidates) /\ run' \in RunStates(Candidates)
    BY CommitOutcome DEF CoreInv, CarriesInv, StoreTypeOK
  <1>4. run'.revision = run.revision + 1
    <2>1. CASE event \in AttemptEnd
      <3>1. Apply(run, event, cand, 0).revision = run.revision + 1
        <4>1. 0 \in Int /\ Accepts(run, event, cand, 0)
          BY <1>2
        <4> QED
          BY <1>3, <2>1, <4>1, AttemptFields
      <3> QED
        BY <1>2, <3>1
    <2>2. CASE event \notin AttemptEnd
      BY <1>2, <1>3, <2>2, MoveFields
    <2> QED
      BY <2>1, <2>2
  <1>5. run.revision \in Nat /\ NewRun.revision = 0
    BY <1>3 DEF RunStates, NewRun
  <1>6. AfterCommit(s).state = run' \/ AfterCommit(s).state = NewRun
    <2>1. call[s] \in Calls
      BY DEF CoreInv, CarriesInv
    <2> QED
      BY <2>1, RefreshType DEF AfterCommit, Calls
  <1>7. \A t \in Sessions : call[t].state.revision \in Nat
    BY DEF CoreInv, CarriesInv, Calls, RunStates
  <1>8. ASSUME NEW t \in Sessions
        PROVE  /\ call'[t].state.revision <= run'.revision
               /\ call'[t].state.revision = run'.revision => call'[t].state = run'
    BY <1>1, <1>4, <1>5, <1>6, <1>7 DEF SeenInv, Sees
  <1> QED
    BY <1>4, <1>5, <1>8 DEF SeenInv, Sees

LEMMA SeenStep == CoreInv /\ SeenInv /\ [Next]_vars => SeenInv'
  <1> SUFFICES ASSUME CoreInv, SeenInv, [Next]_vars
               PROVE  SeenInv'
    OBVIOUS
  <1>1. CASE UNCHANGED vars
    BY <1>1 DEF vars, ledger, SeenInv, Sees
  <1>2. CASE Next
    BY <1>2, StepOutcome, SeenCommit, SeenOutcome DEF CoreInv
  <1> QED
    BY <1>1, <1>2

\* The step is that of the call that commits, and that call's state is the run's.
LEMMA CallSaw ==
    ASSUME CoreInv, SeenInv, NEW t \in Sessions, Commit(t) \/ \E next : Outcome(t, next),
           NEW s \in Sessions, call'[s] # call[s], run' # run
    PROVE  run = call[s].state
  <1>1. Commit(t)
    BY OutcomeRun DEF CoreInv
  <1>2. t = s
    BY <1>1, OthersStay DEF Commit, CoreInv
  <1>3. call[s].state.revision = run.revision
    BY <1>1, <1>2 DEF Commit, Transition
  <1> QED
    BY <1>3 DEF SeenInv, Sees

\* However the calls of any number of sessions interleave and vanish, the revision the
\* store compares protects the state the call decided on: no transition of step,
\* reconcile, supervise or cancel is committed over a state its caller has not seen.
THEOREM Phase2CommitsWhatItSaw == Spec => CommitsWhatItSaw
  <1>1. CoreInv /\ SeenInv /\ [Next]_vars =>
           [\A s \in Sessions :
               call[s].pc \in Events /\ call'[s] # call[s] /\ run' # run
                   => run = call[s].state]_vars
    BY StepOutcome, CallSaw DEF CoreInv
  <1> QED
    BY <1>1, CoreHolds, InitOpened, SeenInit, SeenStep, PTL DEF Spec, CommitsWhatItSaw

-----------------------------------------------------------------------------
\* Counting the rows of the journal.

LEMMA MovesFinite ==
    ASSUME journal \in Seq(JournalRows), NEW event
    PROVE  IsFiniteSet(MovesBy(event)) /\ Cardinality(MovesBy(event)) \in Nat
  <1>1. MovesBy(event) \subseteq 1 .. Len(journal)
    BY DEF MovesBy
  <1>2. IsFiniteSet(1 .. Len(journal))
    BY FS_Interval
  <1> QED
    BY <1>1, <1>2, FS_Subset, FS_CardinalityType

\* A transition adds itself to the moves by its event, and to no other.
LEMMA MovesCommit ==
    ASSUME CoreInv, NEW s \in Sessions, Commit(s), NEW event
    PROVE  /\ call[s].pc # event => MovesBy(event)' = MovesBy(event)
           /\ call[s].pc = event =>
                 /\ MovesBy(event)' = MovesBy(event) \cup {Len(journal) + 1}
                 /\ Cardinality(MovesBy(event))' = Cardinality(MovesBy(event)) + 1
  <1>1. journal \in Seq(JournalRows)
    BY DEF CoreInv, Inv, StoreTypeOK
  <1> DEFINE row == TransitionRow(call[s].pc, Promoted(call[s], call[s].pc), 0, run')
  <1>2. journal' = Append(journal, row) /\ row.moves /\ row.event = call[s].pc
    BY DEF Commit, Transition, TransitionRow
  <1> HIDE DEF row
  <1>3. /\ DOMAIN journal = 1 .. Len(journal)
        /\ DOMAIN journal' = 1 .. Len(journal) + 1
        /\ Len(journal) \in Nat
        /\ \A i \in 1 .. Len(journal) : journal'[i] = journal[i]
        /\ journal'[Len(journal) + 1] = row
    BY <1>1, <1>2
  <1>4. call[s].pc # event => MovesBy(event)' = MovesBy(event)
    BY <1>2, <1>3 DEF MovesBy
  <1>5. ASSUME call[s].pc = event
        PROVE  MovesBy(event)' = MovesBy(event) \cup {Len(journal) + 1}
    BY <1>2, <1>3, <1>5 DEF MovesBy
  <1>6. Len(journal) + 1 \notin MovesBy(event)
    BY <1>3 DEF MovesBy
  <1>7. ASSUME call[s].pc = event
        PROVE  Cardinality(MovesBy(event))' = Cardinality(MovesBy(event)) + 1
    BY <1>1, <1>5, <1>6, <1>7, MovesFinite, FS_AddElement
  <1> QED
    BY <1>4, <1>5, <1>7

\* Whatever else a call writes is no transition.
LEMMA MovesOutcome ==
    ASSUME CoreInv, NEW s \in Sessions, NEW next, Outcome(s, next), NEW event
    PROVE  MovesBy(event)' = MovesBy(event)
  <1>1. journal \in Seq(JournalRows)
    BY DEF CoreInv, Inv, StoreTypeOK
  <1>2. CASE journal' = journal
    BY <1>2 DEF MovesBy
  <1>3. ASSUME NEW name, RecordObservation(name)
        PROVE  MovesBy(event)' = MovesBy(event)
    <2>1. /\ journal' = Append(journal, ObservationRow(name, run))
          /\ ~ObservationRow(name, run).moves
      BY <1>3 DEF RecordObservation, ObservationRow
    <2>2. /\ DOMAIN journal = 1 .. Len(journal)
          /\ DOMAIN journal' = 1 .. Len(journal) + 1
          /\ Len(journal) \in Nat
          /\ \A i \in 1 .. Len(journal) : journal'[i] = journal[i]
          /\ journal'[Len(journal) + 1] = ObservationRow(name, run)
      BY <1>1, <2>1
    <2> QED
      BY <2>1, <2>2 DEF MovesBy
  <1> QED
    BY <1>2, <1>3 DEF Outcome, Writes, ledger, RecordAttempt, RecordAdvice, SaveMemory

-----------------------------------------------------------------------------
\* Attempts are counted once.

\* What a committed transition does to the status, for the counts of attempts and of
\* supervisions.
LEMMA CommitRun ==
    ASSUME CoreInv, SeenInv, NEW s \in Sessions, Commit(s)
    PROVE  /\ run = call[s].state
           /\ run'.revision = run.revision + 1
           /\ run.status \notin Terminal
           /\ call[s].pc = "start_step" =>
                 /\ run.status \notin Active
                 /\ run'.status = "running"
                 /\ run'.steps_used = run.steps_used
           /\ call[s].pc \in AttemptEnd =>
                 /\ run.status \in Active
                 /\ run'.status \notin Active
                 /\ run'.steps_used = run.steps_used + 1
           /\ call[s].pc \notin AttemptEnd \cup {"start_step"} =>
                 /\ run'.status \in Active <=> run.status \in Active
                 /\ run'.steps_used = run.steps_used
           /\ call[s].pc = "start_supervisor" => run'.status = "supervising"
           /\ run.status = "supervising" =>
                 run'.status \in Terminal \/ call[s].pc = "supervisor_applied"
  <1>1. run \in RunStates(Candidates) /\ Sees(call[s]) /\ Carries(call[s])
    BY DEF CoreInv, CarriesInv, StoreTypeOK, SeenInv
  <1>2. run = call[s].state
    BY <1>1 DEF Commit, Transition, Sees
  <1>3. PICK event \in Events, cand \in Candidates \cup {None} :
           /\ event = call[s].pc
           /\ Accepts(run, event, cand, 0)
           /\ run' = Apply(run, event, cand, 0)
    BY CommitOutcome DEF CoreInv, Commit, Transition
  <1>4. run.status \notin Terminal
    BY <1>3 DEF Accepts, Allowed, Terminal
  <1>5. ~Spent(run.steps_used, run.cost)
    BY <1>4 DEF CoreInv, BudgetInv
  <1>6. CASE event \in AttemptEnd
    <2>1. /\ run.status \in Active
          /\ run'.revision = run.revision + 1
          /\ run'.steps_used = run.steps_used + 1
          /\ \/ run'.status = StatusAfterAttempt("succeeded", run'.steps_used,
                                                 run'.no_progress, run'.cost)
             \/ run'.status = StatusAfterAttempt("budget_exhausted", run'.steps_used,
                                                 run'.no_progress, run'.cost)
      BY <1>1, <1>3, <1>6, AttemptFields
    <2>2. run'.status \notin Active
      BY <2>1 DEF StatusAfterAttempt, Active
    <2>3. event \notin {"start_step", "start_supervisor"} /\ run.status # "supervising"
      BY <1>6, <2>1 DEF AttemptEnd, Unproductive, Active
    <2> QED
      BY <1>2, <1>3, <1>4, <1>6, <2>1, <2>2, <2>3
  <1>7. CASE event \notin AttemptEnd
    <2>1. run'.revision = run.revision + 1 /\ run'.steps_used = run.steps_used
      BY <1>1, <1>3, <1>7, MoveFields
    <2>2. event = "start_step" => run.status = "ready" /\ run'.status = "running"
      BY <1>1, <1>3, <1>5, <1>7, MoveStatus
    <2>3. event = "start_supervisor" =>
             run.status = "supervision_required" /\ run'.status = "supervising"
      BY <1>1, <1>3, <1>7, MoveStatus
    <2>4. event = "cancel" => run.status \notin Active /\ run'.status = "cancelled"
      BY <1>1, <1>2, <1>3, <1>7, MoveStatus DEF Carries
    <2>5. event \in {"supervisor_failed", "complete"} =>
             run.status \notin Active /\ run'.status \in {"succeeded", "no_result"}
      <3>1. event \in {"supervisor_failed", "complete"} => run'.status = Conclusion(run)
        BY <1>1, <1>3, <1>7, MoveStatus
      <3>2. event \in {"supervisor_failed", "complete"} => run.status \notin Active
        BY <1>3 DEF Accepts, Allowed, Active
      <3> QED
        BY <3>1, <3>2 DEF Conclusion
    <2>6. event \in {"approve", "pause", "resume", "supervisor_applied"} =>
             run.status \notin Active /\ run'.status \notin Active
      <3>1. event \in {"approve", "pause", "resume", "supervisor_applied"} =>
               run'.status \notin Active
        BY <1>1, <1>3, <1>7, MoveStatus DEF Active, SafeResume
      <3>2. event \in {"approve", "pause", "resume", "supervisor_applied"} =>
               run.status \notin Active
        BY <1>3 DEF Accepts, Allowed, Active
      <3> QED
        BY <3>1, <3>2
    <2>7. event = "candidate_ready" => run.status = "running" /\ run'.status = "evaluating"
      BY <1>1, <1>3, <1>7, MoveStatus
    <2>8. run.status = "supervising" =>
             event \in {"supervisor_applied", "supervisor_failed", "cancel"}
      BY <1>3 DEF Accepts, Allowed
    <2> QED
      BY <1>2, <1>3, <1>4, <1>7, <2>1, <2>2, <2>3, <2>4, <2>5, <2>6, <2>7, <2>8
      DEF Events, AttemptEnd, Unproductive, Active, Terminal
  <1> QED
    BY <1>6, <1>7

LEMMA CountInit == Opened => AttemptsCounted
  <1> SUFFICES ASSUME Opened
               PROVE  AttemptsCounted
    OBVIOUS
  <1>1. run.steps_used = 0 /\ run.status \notin Active
    BY DEF Opened, StoreInit, NewRun, Active
  <1>2. MovesBy("start_step") = {}
    BY DEF Opened, StoreInit, ObservationRow, MovesBy
  <1> QED
    BY <1>1, <1>2, FS_EmptySet DEF AttemptsCounted

LEMMA CountCommit ==
    ASSUME CoreInv, SeenInv, AttemptsCounted, NEW s \in Sessions, Commit(s)
    PROVE  AttemptsCounted'
  <1>1. run.steps_used \in Nat
    BY DEF CoreInv, CarriesInv, StoreTypeOK, RunStates
  <1>2. Cardinality(MovesBy("start_step")) \in Nat
    BY MovesFinite DEF CoreInv, Inv, StoreTypeOK
  <1>3. CASE call[s].pc = "start_step"
    BY <1>1, <1>2, <1>3, CommitRun, MovesCommit DEF AttemptsCounted, Active
  <1>4. CASE call[s].pc \in AttemptEnd
    <2>1. call[s].pc # "start_step"
      BY <1>4 DEF AttemptEnd, Unproductive
    <2>2. MovesBy("start_step")' = MovesBy("start_step")
      BY <2>1, MovesCommit
    <2> QED
      BY <1>1, <1>2, <1>4, <2>2, CommitRun DEF AttemptsCounted
  <1>5. CASE call[s].pc \notin AttemptEnd \cup {"start_step"}
    <2>1. MovesBy("start_step")' = MovesBy("start_step")
      BY <1>5, MovesCommit
    <2> QED
      BY <1>1, <1>2, <1>5, <2>1, CommitRun DEF AttemptsCounted
  <1> QED
    BY <1>3, <1>4, <1>5

LEMMA CountOutcome ==
    ASSUME CoreInv, AttemptsCounted, NEW s \in Sessions, NEW next, Outcome(s, next)
    PROVE  AttemptsCounted'
  BY OutcomeRun, MovesOutcome DEF AttemptsCounted

-----------------------------------------------------------------------------
\* Children are launched once for the transition that pays for them.

\* The calls that stand before their child.
Standing(pc) == {s \in Sessions : call[s].pc = pc}

\* The children launched, and those about to be, are paid for by transitions.
PaidFor(launched, pc, event) ==
    /\ IsFiniteSet(Standing(pc))
    /\ launched + Cardinality(Standing(pc)) <= Cardinality(MovesBy(event))

LaunchInv ==
    /\ PaidFor(launches.variation, "run_child", "start_step")
    /\ PaidFor(launches.supervisor, "run_supervisor", "start_supervisor")

LEMMA LaunchInit == Opened => LaunchInv
  <1> SUFFICES ASSUME Opened
               PROVE  LaunchInv
    OBVIOUS
  <1>1. \A s \in Sessions : call[s].pc \in {"approve", "idle"}
    BY DEF Opened, NoCall
  <1>2. Standing("run_child") = {} /\ Standing("run_supervisor") = {}
    BY <1>1 DEF Standing
  <1>3. MovesBy("start_step") = {} /\ MovesBy("start_supervisor") = {}
    BY DEF Opened, StoreInit, ObservationRow, MovesBy
  <1>4. launches.variation = 0 /\ launches.supervisor = 0
    BY DEF Opened
  <1> QED
    BY <1>2, <1>3, <1>4, FS_EmptySet DEF LaunchInv, PaidFor

\* A transition that pays for a child puts one more call before its child.
LEMMA PaidCommit ==
    ASSUME CoreInv, NEW s \in Sessions, Commit(s),
           NEW n \in Nat, NEW pc \in {"run_child", "run_supervisor"}, NEW event,
           AfterCommit(s).pc = pc => call[s].pc = event,
           PaidFor(n, pc, event)
    PROVE  IsFiniteSet(Standing(pc))' /\ n + Cardinality(Standing(pc))' <= Cardinality(MovesBy(event))'
  <1>1. /\ call'[s] = AfterCommit(s)
        /\ \A t \in Sessions : t # s => call'[t] = call[t]
    BY OthersStay DEF CoreInv, Commit
  <1>2. call[s].pc \in Events /\ s \notin Standing(pc)
    BY DEF Commit, Events, Standing
  <1>3. /\ Cardinality(Standing(pc)) \in Nat
        /\ Cardinality(MovesBy(event)) \in Nat
    BY MovesFinite, FS_CardinalityType DEF PaidFor, CoreInv, Inv, StoreTypeOK
  <1>4. CASE AfterCommit(s).pc = pc
    <2>1. Standing(pc)' = Standing(pc) \cup {s}
      BY <1>1, <1>4 DEF Standing
    <2>2. /\ IsFiniteSet(Standing(pc) \cup {s})
          /\ Cardinality(Standing(pc) \cup {s}) = Cardinality(Standing(pc)) + 1
      BY <1>2, FS_AddElement DEF PaidFor
    <2>3. Cardinality(MovesBy(event))' = Cardinality(MovesBy(event)) + 1
      BY <1>4, MovesCommit
    <2> QED
      BY <1>3, <2>1, <2>2, <2>3 DEF PaidFor
  <1>5. CASE AfterCommit(s).pc # pc
    <2>1. Standing(pc)' = Standing(pc)
      BY <1>1, <1>2, <1>5 DEF Standing
    <2>2. \/ Cardinality(MovesBy(event))' = Cardinality(MovesBy(event)) + 1
          \/ Cardinality(MovesBy(event))' = Cardinality(MovesBy(event))
      BY MovesCommit
    <2> QED
      BY <1>3, <2>1, <2>2 DEF PaidFor
  <1> QED
    BY <1>4, <1>5

LEMMA LaunchCommit ==
    ASSUME CoreInv, LaunchInv, NEW s \in Sessions, Commit(s)
    PROVE  LaunchInv'
  <1>1. launches' = launches /\ launches.variation \in Nat /\ launches.supervisor \in Nat
    BY DEF Commit, CoreInv, CarriesInv
  <1>2. /\ AfterCommit(s).pc = "run_child" => call[s].pc = "start_step"
        /\ AfterCommit(s).pc = "run_supervisor" => call[s].pc = "start_supervisor"
    BY CommitOutcome DEF CoreInv
  <1>3. PaidFor(launches.variation, "run_child", "start_step")'
    BY <1>1, <1>2, PaidCommit DEF LaunchInv, PaidFor
  <1>4. PaidFor(launches.supervisor, "run_supervisor", "start_supervisor")'
    BY <1>1, <1>2, PaidCommit DEF LaunchInv, PaidFor
  <1> QED
    BY <1>3, <1>4 DEF LaunchInv

\* A call that goes on from before its child has launched it, or never will.
LEMMA PaidOutcome ==
    ASSUME CoreInv, NEW s \in Sessions, NEW next, Outcome(s, next),
           NEW n \in Nat, NEW m \in Nat, NEW pc \in {"run_child", "run_supervisor"}, NEW event,
           m = n \/ (m = n + 1 /\ call[s].pc = pc),
           PaidFor(n, pc, event)
    PROVE  IsFiniteSet(Standing(pc))' /\ m + Cardinality(Standing(pc))' <= Cardinality(MovesBy(event))'
  <1>1. /\ call'[s] = next
        /\ \A t \in Sessions : t # s => call'[t] = call[t]
        /\ next.pc # pc
    BY OthersStay DEF CoreInv, Outcome
  <1>2. Standing(pc)' = Standing(pc) \ {s}
    BY <1>1 DEF Standing
  <1>3. /\ IsFiniteSet(Standing(pc) \ {s})
        /\ Cardinality(Standing(pc) \ {s}) =
              IF s \in Standing(pc) THEN Cardinality(Standing(pc)) - 1
              ELSE Cardinality(Standing(pc))
    BY FS_RemoveElement DEF PaidFor
  <1>4. /\ Cardinality(Standing(pc)) \in Nat
        /\ Cardinality(MovesBy(event)) \in Nat
    BY MovesFinite, FS_CardinalityType DEF PaidFor, CoreInv, Inv, StoreTypeOK
  <1>5. MovesBy(event)' = MovesBy(event)
    BY MovesOutcome
  <1>6. call[s].pc = pc => s \in Standing(pc)
    BY DEF Standing
  <1> QED
    BY <1>2, <1>3, <1>4, <1>5, <1>6 DEF PaidFor

LEMMA LaunchOutcome ==
    ASSUME CoreInv, LaunchInv, NEW s \in Sessions, NEW next, Outcome(s, next)
    PROVE  LaunchInv'
  <1>1. /\ launches.variation \in Nat /\ launches'.variation \in Nat
        /\ launches.supervisor \in Nat /\ launches'.supervisor \in Nat
        /\ \/ launches'.variation = launches.variation
           \/ call[s].pc = "run_child" /\ launches'.variation = launches.variation + 1
        /\ \/ launches'.supervisor = launches.supervisor
           \/ call[s].pc = "run_supervisor" /\ launches'.supervisor = launches.supervisor + 1
    BY DEF CoreInv, CarriesInv, Outcome, Launches
  <1>2. PaidFor(launches.variation, "run_child", "start_step")'
    BY <1>1, PaidOutcome DEF LaunchInv, PaidFor
  <1>3. PaidFor(launches.supervisor, "run_supervisor", "start_supervisor")'
    BY <1>1, PaidOutcome DEF LaunchInv, PaidFor
  <1> QED
    BY <1>2, <1>3 DEF LaunchInv

-----------------------------------------------------------------------------
\* One supervisor.

\* A supervisor was started only if its supervision is going on, the run is over or its
\* advice is on record; and a call that is on its way to start one, holding the run as it
\* is, is the first to do so.
SupervisionInv ==
    /\ Cardinality(MovesBy("start_supervisor")) <= 1
    /\ MovesBy("start_supervisor") # {} =>
          run.status \in {"supervising"} \cup Terminal \/ advice # <<>>
    /\ MovesBy("supervisor_applied") # {} => advice # <<>>
    /\ \A s \in Sessions :
          /\ call[s].pc = "supervisor_applied" => advice # <<>>
          /\ Asks(call[s]) /\ call[s].state.revision = run.revision
                => MovesBy("start_supervisor") = {}

LEMMA SupervisionInit == Opened => SupervisionInv
  <1> SUFFICES ASSUME Opened
               PROVE  SupervisionInv
    OBVIOUS
  <1>1. \A s \in Sessions : call[s].pc \in {"approve", "idle"}
    BY DEF Opened, NoCall
  <1>2. MovesBy("supervisor_applied") = {} /\ MovesBy("start_supervisor") = {}
    BY DEF Opened, StoreInit, ObservationRow, MovesBy
  <1> QED
    BY <1>1, <1>2, FS_EmptySet DEF SupervisionInv

LEMMA SupervisionCommit ==
    ASSUME CoreInv, SeenInv, SupervisionInv, NEW s \in Sessions, Commit(s)
    PROVE  SupervisionInv'
  <1> DEFINE Started == MovesBy("start_supervisor")
  <1>1. /\ call'[s] = AfterCommit(s)
        /\ \A t \in Sessions : t # s => call'[t] = call[t]
    BY OthersStay DEF CoreInv, Commit
  <1>2. AfterCommit(s).pc \in CommitPoints /\ ~Asks(AfterCommit(s))
    BY CommitOutcome DEF CoreInv
  <1>3. advice' = advice /\ call[s].state.revision = run.revision
    BY DEF Commit, Transition, evidence
  <1>4. Carries(call[s])
    BY DEF CoreInv, CarriesInv
  <1>5. run' # run /\ run.revision \in Nat /\ run'.revision = run.revision + 1
    BY CommitRun DEF CoreInv, CarriesInv, StoreTypeOK, RunStates
  <1>6. ASSUME call[s].pc = "start_supervisor"
        PROVE  /\ Cardinality(Started)' <= 1
               /\ run'.status = "supervising"
    <2>1. Started = {}
      BY <1>3, <1>4, <1>6 DEF Carries, SupervisionInv
    <2>2. Cardinality(Started) = 0
      BY <2>1, FS_EmptySet
    <2> QED
      BY <1>6, <2>2, MovesCommit, CommitRun
  <1>7. Cardinality(Started)' <= 1
    BY <1>6, MovesCommit DEF SupervisionInv
  <1>8. ASSUME Started' # {}
        PROVE  run'.status \in {"supervising"} \cup Terminal \/ advice' # <<>>
    <2>1. CASE call[s].pc = "start_supervisor"
      BY <1>6, <2>1
    <2>2. CASE call[s].pc # "start_supervisor"
      <3>1. run.status \in {"supervising"} \cup Terminal \/ advice # <<>>
        BY <1>8, <2>2, MovesCommit DEF SupervisionInv
      <3>2. CASE run.status = "supervising"
        BY <1>3, <3>2, CommitRun DEF SupervisionInv
      <3> QED
        BY <1>3, <3>1, <3>2, CommitRun
    <2> QED
      BY <2>1, <2>2
  <1>9. MovesBy("supervisor_applied")' # {} => advice' # <<>>
    BY <1>3, MovesCommit DEF SupervisionInv
  <1>10. ASSUME NEW t \in Sessions
         PROVE  /\ call'[t].pc = "supervisor_applied" => advice' # <<>>
                /\ ~(Asks(call'[t]) /\ call'[t].state.revision = run'.revision)
    <2>1. CASE t = s
      BY <1>1, <1>2, <2>1 DEF CommitPoints
    <2>2. CASE t # s
      <3>1. call[t].state.revision <= run.revision /\ call[t].state.revision \in Nat
        BY DEF SeenInv, Sees, CoreInv, CarriesInv, Calls, RunStates
      <3> QED
        BY <1>1, <1>3, <1>5, <2>2, <3>1 DEF SupervisionInv
    <2> QED
      BY <2>1, <2>2
  <1> QED
    BY <1>7, <1>8, <1>9, <1>10 DEF SupervisionInv, Asks

\* Advice on record stays on record.
LEMMA AdviceKept ==
    ASSUME CoreInv, NEW s \in Sessions, NEW next, Outcome(s, next), advice # <<>>
    PROVE  advice' # <<>>
  <1>1. advice \in Seq(Advices)
    BY DEF CoreInv, Inv, StoreTypeOK
  <1>2. CASE advice' = advice
    BY <1>2
  <1>3. ASSUME NEW artifact \in Advices, advice' = Append(advice, artifact)
        PROVE  advice' # <<>>
    BY <1>1, <1>3, AppendProperties
  <1> QED
    BY <1>2, <1>3 DEF Outcome, Writes, ledger, evidence, RecordObservation, RecordAttempt,
                      RecordAdvice, SaveMemory

LEMMA SupervisionOutcome ==
    ASSUME CoreInv, SeenInv, SupervisionInv, NEW s \in Sessions, NEW next, Outcome(s, next)
    PROVE  SupervisionInv'
  <1> DEFINE Started == MovesBy("start_supervisor")
  <1>1. /\ call'[s] = next
        /\ \A t \in Sessions : t # s => call'[t] = call[t]
    BY OthersStay DEF CoreInv, Outcome
  <1>2. /\ run' = run
        /\ Started' = Started
        /\ MovesBy("supervisor_applied")' = MovesBy("supervisor_applied")
    BY OutcomeRun, MovesOutcome
  <1>3. advice # <<>> => advice' # <<>>
    BY AdviceKept
  <1>4. ASSUME Asks(next), next.state.revision = run.revision
        PROVE  Started = {}
    <2>1. next.state = call[s].state /\ Carries(next)
      BY <1>4 DEF Outcome
    <2>2. CASE Asks(call[s])
      BY <1>4, <2>1, <2>2 DEF SupervisionInv
    <2>3. CASE advice = <<>>
      <3>1. next.state = run /\ next.state.status = "supervision_required"
        BY <1>4, <2>1 DEF SeenInv, Sees, Carries
      <3> QED
        BY <2>3, <3>1 DEF SupervisionInv, Terminal
    <2> QED
      BY <1>4, <2>2, <2>3 DEF Outcome
  <1>5. ASSUME NEW t \in Sessions
        PROVE  /\ call'[t].pc = "supervisor_applied" => advice' # <<>>
               /\ Asks(call'[t]) /\ call'[t].state.revision = run'.revision => Started' = {}
    <2>1. CASE t = s
      BY <1>1, <1>2, <1>4, <2>1 DEF Outcome
    <2>2. CASE t # s
      BY <1>1, <1>2, <1>3, <2>2 DEF SupervisionInv
    <2> QED
      BY <2>1, <2>2
  <1> QED
    BY <1>2, <1>3, <1>5 DEF SupervisionInv, Asks

-----------------------------------------------------------------------------
\* A memory that is not stale tells the truth.

\* What a memory says of the run, as long as the run has not moved on.
Agrees(m) ==
    /\ m.state_revision <= run.revision
    /\ m.state_revision = run.revision => m.run_status = run.status /\ m.best = run.best

\* It knows of the advice, if that has been applied.
Advised(m) ==
    m.state_revision = run.revision /\ MovesBy("supervisor_applied") # {} => m.advised

MemoryInv ==
    /\ Agrees(memory)
    /\ memory # NoMemory => Advised(memory)
    /\ \A s \in Sessions :
          /\ call[s].pc \in Refreshing => Agrees(call[s].memo)
          /\ call[s].pc = "save_memory" => Advised(call[s].memo)

LEMMA MemoryInit == Opened => MemoryInv
  <1> SUFFICES ASSUME Opened
               PROVE  MemoryInv
    OBVIOUS
  <1>1. \A s \in Sessions : call[s].pc \in {"approve", "idle"}
    BY DEF Opened, NoCall
  <1>2. memory = NoMemory /\ run = NewRun
    BY DEF Opened, StoreInit
  <1>3. Agrees(memory)
    BY <1>2 DEF Agrees, NoMemory, NewRun
  <1> QED
    BY <1>1, <1>2, <1>3 DEF MemoryInv, Refreshing

LEMMA MemoryCommit ==
    ASSUME CoreInv, SeenInv, MemoryInv, NEW s \in Sessions, Commit(s)
    PROVE  MemoryInv'
  <1>1. /\ call'[s] = AfterCommit(s)
        /\ \A t \in Sessions : t # s => call'[t] = call[t]
        /\ AfterCommit(s).pc \notin Refreshing
        /\ memory' = memory
    BY OthersStay, CommitOutcome DEF CoreInv, Commit, Transition, CommitPoints, Refreshing
  <1>2. run.revision \in Nat /\ run'.revision = run.revision + 1
    BY CommitRun DEF CoreInv, CarriesInv, StoreTypeOK, RunStates
  <1>3. ASSUME NEW m \in Memories, Agrees(m)
        PROVE  m.state_revision < run'.revision
    BY <1>2, <1>3 DEF Agrees, Memories
  <1>4. memory'.state_revision < run'.revision
    BY <1>1, <1>3 DEF MemoryInv, CoreInv, CarriesInv, StoreTypeOK
  <1>5. ASSUME NEW t \in Sessions, call'[t].pc \in Refreshing
        PROVE  call'[t].memo.state_revision < run'.revision
    <2>1. call'[t] = call[t] /\ call[t].memo \in Memories
      BY <1>1, <1>5 DEF CoreInv, CarriesInv, Calls
    <2> QED
      BY <1>3, <1>5, <2>1 DEF MemoryInv
  <1>6. "save_memory" \in Refreshing
    BY DEF Refreshing
  <1>7. memory'.state_revision \in Nat /\ run'.revision \in Nat
    BY <1>1, <1>2 DEF CoreInv, CarriesInv, StoreTypeOK, Memories
  <1>8. ASSUME NEW t \in Sessions, call'[t].pc \in Refreshing
        PROVE  call'[t].memo.state_revision \in Nat
    BY <1>1, <1>8 DEF CoreInv, CarriesInv, Calls, Memories
  <1>9. Agrees(memory)' /\ (memory # NoMemory => Advised(memory))'
    BY <1>4, <1>7 DEF Agrees, Advised
  <1>10. ASSUME NEW t \in Sessions
         PROVE  /\ (call[t].pc \in Refreshing => Agrees(call[t].memo))'
                /\ (call[t].pc = "save_memory" => Advised(call[t].memo))'
    BY <1>5, <1>6, <1>7, <1>8 DEF Agrees, Advised
  <1> QED
    BY <1>9, <1>10 DEF MemoryInv

\* What a refresh puts together agrees with the run, whatever happened in between.
LEMMA RebuiltAgrees ==
    ASSUME CoreInv, SupervisionInv, MemoryInv, NEW s \in Sessions, NEW next, Rebuilt(s, next)
    PROVE  /\ Agrees(next.memo)
           /\ next.pc = "save_memory" => Advised(next.memo)
  <1>1. /\ run \in RunStates(Candidates)
        /\ call[s].pc \in Refreshing => Agrees(call[s].memo) /\ call[s].memo \in Memories
    BY DEF CoreInv, CarriesInv, StoreTypeOK, MemoryInv, Calls
  <1>2. CASE next.pc = "refresh_memory" /\ next.memo = Snapshot(run, 0, FALSE)
    BY <1>1, <1>2 DEF Agrees, Snapshot, RunStates
  <1>3. CASE /\ call[s].pc = "refresh_memory" /\ next.pc = "refresh_advice"
             /\ next.memo = [call[s].memo EXCEPT !.memory_revision = memory.memory_revision + 1]
    BY <1>1, <1>3 DEF Agrees, Memories, Refreshing
  <1>4. CASE /\ call[s].pc = "refresh_advice" /\ next.pc = "save_memory"
             /\ next.memo = [call[s].memo EXCEPT !.advised = (advice # <<>>)]
    BY <1>1, <1>4 DEF Agrees, Advised, Memories, Refreshing, SupervisionInv
  <1> QED
    BY <1>2, <1>3, <1>4 DEF Rebuilt

LEMMA MemoryOutcomeKeeps ==
    ASSUME CoreInv, SupervisionInv, MemoryInv, NEW s \in Sessions, NEW next, Outcome(s, next)
    PROVE  MemoryInv'
  <1>1. /\ call'[s] = next
        /\ \A t \in Sessions : t # s => call'[t] = call[t]
    BY OthersStay DEF CoreInv, Outcome
  <1>2. run' = run /\ MovesBy("supervisor_applied")' = MovesBy("supervisor_applied")
    BY OutcomeRun, MovesOutcome
  <1>3. \/ memory' = memory
        \/ call[s].pc = "save_memory" /\ memory' = call[s].memo
    BY DEF Outcome, Writes, ledger, RecordObservation, RecordAttempt, RecordAdvice, SaveMemory
  <1>4. Agrees(memory') /\ (memory' # NoMemory => Advised(memory'))
    BY <1>3 DEF MemoryInv, Refreshing
  <1>5. ASSUME NEW t \in Sessions
        PROVE  /\ call'[t].pc \in Refreshing => Agrees(call'[t].memo)
               /\ call'[t].pc = "save_memory" => Advised(call'[t].memo)
    <2>1. CASE t = s
      <3>1. next.pc \in Refreshing => Rebuilt(s, next)
        BY DEF Outcome
      <3> QED
        BY <1>1, <2>1, <3>1, RebuiltAgrees DEF Refreshing
    <2>2. CASE t # s
      BY <1>1, <2>2 DEF MemoryInv
    <2> QED
      BY <2>1, <2>2
  <1>6. Agrees(memory)' /\ (memory # NoMemory => Advised(memory))'
    BY <1>2, <1>4 DEF Agrees, Advised
  <1>7. ASSUME NEW t \in Sessions
        PROVE  /\ (call[t].pc \in Refreshing => Agrees(call[t].memo))'
               /\ (call[t].pc = "save_memory" => Advised(call[t].memo))'
    BY <1>2, <1>5 DEF Agrees, Advised
  <1> QED
    BY <1>6, <1>7 DEF MemoryInv

-----------------------------------------------------------------------------

\* All there is to know of a state that any number of sessions reach.
Phase2Inv == CoreInv /\ SeenInv /\ AttemptsCounted /\ LaunchInv /\ SupervisionInv /\ MemoryInv

LEMMA Phase2Opened == Opened => Phase2Inv
  BY CoreInit, SeenInit, CountInit, LaunchInit, SupervisionInit, MemoryInit DEF Phase2Inv

\* A step of one call, whoever made the call and when.
LEMMA CallKeeps ==
    ASSUME Phase2Inv, NEW s \in Sessions, Commit(s) \/ \E next : Outcome(s, next)
    PROVE  Phase2Inv'
  <1>1. CASE Commit(s)
    BY <1>1, CoreCommit, SeenCommit, CountCommit, LaunchCommit, SupervisionCommit, MemoryCommit
    DEF Phase2Inv
  <1>2. CASE \E next : Outcome(s, next)
    BY <1>2, CoreOutcome, SeenOutcome, CountOutcome, LaunchOutcome, SupervisionOutcome,
       MemoryOutcomeKeeps DEF Phase2Inv
  <1> QED
    BY <1>1, <1>2

LEMMA Phase2Stutter ==
    ASSUME Phase2Inv, UNCHANGED vars
    PROVE  Phase2Inv'
  BY CoreStutter, SeenStep
  DEF Phase2Inv, AttemptsCounted, LaunchInv, PaidFor, Standing, SupervisionInv, MemoryInv,
      Agrees, Advised, MovesBy, Asks, vars, ledger, evidence

LEMMA Phase2Step == Phase2Inv /\ [Next]_vars => Phase2Inv'
  <1>1. Phase2Inv /\ Next => Phase2Inv'
    BY StepOutcome, CallKeeps DEF Phase2Inv, CoreInv
  <1> QED
    BY <1>1, Phase2Stutter

LEMMA Phase2Holds == Spec => []Phase2Inv
  BY InitOpened, Phase2Opened, Phase2Step, PTL DEF Spec

\* Whatever sessions race, crash and reconcile, the steps charged to the run and the one
\* it is working on are the steps that were started.
THEOREM Phase2AttemptsCounted == Spec => []AttemptsCounted
  BY Phase2Holds, PTL DEF Phase2Inv

LEMMA PaidLaunches == Phase2Inv => LaunchBudget
  <1> SUFFICES ASSUME Phase2Inv
               PROVE  LaunchBudget
    OBVIOUS
  <1>1. /\ launches.variation \in Nat /\ launches.supervisor \in Nat
        /\ run \in RunStates(Candidates)
    BY DEF Phase2Inv, CoreInv, CarriesInv, StoreTypeOK
  <1>2. /\ Cardinality(Standing("run_child")) \in Nat
        /\ Cardinality(Standing("run_supervisor")) \in Nat
        /\ Cardinality(MovesBy("start_step")) \in Nat
        /\ Cardinality(MovesBy("start_supervisor")) \in Nat
    BY FS_CardinalityType, MovesFinite
    DEF Phase2Inv, LaunchInv, PaidFor, CoreInv, Inv, StoreTypeOK
  <1>3. /\ launches.variation <= Cardinality(MovesBy("start_step"))
        /\ launches.supervisor <= Cardinality(MovesBy("start_supervisor"))
    BY <1>1, <1>2 DEF Phase2Inv, LaunchInv, PaidFor
  <1>4. Cardinality(MovesBy("start_step")) <= MaxSteps
    <2>1. run.status \in Active => run.steps_used < MaxSteps
      BY <1>1, SpecAssumption
      DEF Phase2Inv, CoreInv, BudgetInv, Spent, Active, Terminal, RunStates, SpecAssumption
    <2> QED
      BY <1>1, <2>1, SpecAssumption
      DEF Phase2Inv, AttemptsCounted, CoreInv, BudgetInv, RunStates, SpecAssumption
  <1> QED
    BY <1>1, <1>2, <1>3, <1>4, SpecAssumption
    DEF LaunchBudget, Phase2Inv, SupervisionInv, SpecAssumption

\* For any number of sessions no child runs that no transition paid for, the children of
\* attempts stay within max_steps and there is at most one supervisor.
THEOREM Phase2LaunchBudget == Spec => []LaunchBudget
  BY Phase2Holds, PaidLaunches, PTL

LEMMA FreshTells == Phase2Inv => FreshMemoryTrue
  BY DEF Phase2Inv, MemoryInv, Agrees, Advised, FreshMemoryTrue

\* A memory whose state_revision is the run's tells the run's status, its best candidate
\* and the advice that was applied, though its reads are four transactions among others.
THEOREM Phase2FreshMemoryTrue == Spec => []FreshMemoryTrue
  BY Phase2Holds, FreshTells, PTL

-----------------------------------------------------------------------------
\* The evaluator: "better" is transitive, and under strict improvement no sequence of
\* promotions comes back to scores it has left.

\* Scores over keys, as the evaluator is given them.
Scored(spec, scores) == scores \in [spec.keys -> Int]

\* Eligibility composes: what is eligible against the scores of a candidate that was
\* itself eligible is eligible against what that one had to beat.
THEOREM EligibleTransitive ==
    ASSUME NEW spec, NEW a, NEW b, NEW baseline,
           Scored(spec, a.scores), Scored(spec, b.scores), Scored(spec, baseline),
           Eligible(spec, a, b.scores), Eligible(spec, b, baseline)
    PROVE  Eligible(spec, a, baseline)
  <1>1. Correct(spec, a)
    BY DEF Eligible
  <1>2. NonRegressing(spec, a.scores, baseline)
    <2> SUFFICES ASSUME NEW k \in spec.keys
                 PROVE  ~Better(spec.comparison, baseline[k], a.scores[k])
      BY DEF NonRegressing
    <2>1. /\ ~Better(spec.comparison, b.scores[k], a.scores[k])
          /\ ~Better(spec.comparison, baseline[k], b.scores[k])
      BY DEF Eligible, NonRegressing
    <2>2. a.scores[k] \in Int /\ b.scores[k] \in Int /\ baseline[k] \in Int
      BY DEF Scored
    <2> QED
      BY <2>1, <2>2 DEF Better
  <1>3. ASSUME spec.strict PROVE StrictlyBetter(spec, a.scores, baseline)
    <2>1. PICK k \in spec.keys : Better(spec.comparison, a.scores[k], b.scores[k])
      BY <1>3 DEF Eligible, StrictlyBetter
    <2>2. ~Better(spec.comparison, baseline[k], b.scores[k])
      BY DEF Eligible, NonRegressing
    <2>3. a.scores[k] \in Int /\ b.scores[k] \in Int /\ baseline[k] \in Int
      BY DEF Scored
    <2>4. Better(spec.comparison, a.scores[k], baseline[k])
      BY <2>1, <2>2, <2>3 DEF Better
    <2> QED
      BY <2>4 DEF StrictlyBetter
  <1> QED
    BY <1>1, <1>2, <1>3 DEF Eligible

\* Strict improvement is strict: no candidate is eligible against its own scores, so a
\* child that repeats the best candidate is never promoted for it.
LEMMA StrictIrreflexive ==
    ASSUME NEW spec, NEW a, spec.strict, Scored(spec, a.scores)
    PROVE  ~Eligible(spec, a, a.scores)
  <1> SUFFICES ASSUME NEW k \in spec.keys
               PROVE  ~Better(spec.comparison, a.scores[k], a.scores[k])
    BY DEF Eligible, StrictlyBetter
  <1>1. a.scores[k] \in Int
    BY DEF Scored
  <1> QED
    BY <1>1 DEF Better

\* Promotions never go round: under strict improvement, of two candidates at most one
\* is eligible against the other.
THEOREM EligibleAsymmetric ==
    ASSUME NEW spec, NEW a, NEW b, spec.strict,
           Scored(spec, a.scores), Scored(spec, b.scores),
           Eligible(spec, a, b.scores)
    PROVE  ~Eligible(spec, b, a.scores)
  <1> SUFFICES ASSUME Eligible(spec, b, a.scores) PROVE FALSE
    OBVIOUS
  <1>1. Eligible(spec, a, a.scores)
    BY EligibleTransitive
  <1>2. ~Eligible(spec, a, a.scores)
    BY StrictIrreflexive
  <1> QED
    BY <1>1, <1>2

-----------------------------------------------------------------------------
\* The evidence of an attempt decides it, if no reconcile runs beside the attempt's own
\* call (Overlap = FALSE).

Verdicts == {"evaluation_eligible", "evaluation_ineligible"}

\* The rows of the journal that AppliedEvaluations counts.
Applied == {i \in DOMAIN journal : journal[i].event \in Verdicts}

\* The attempt the run is working on has its evaluation on record.
Recorded ==
    /\ evaluations # <<>>
    /\ evaluations[Len(evaluations)].candidate = run.steps_used + 1

\* The lineage: an evaluation for each candidate, at most one per attempt and in their
\* order, each promotable one better than those before it (so that there is a last one);
\* one verdict for each that was applied, and the current attempt's is the only one that
\* may not have been.
EvidenceInv ==
    /\ Len(candidates) = Len(evaluations)
    /\ \A i \in DOMAIN evaluations :
          /\ candidates[i] = evaluations[i].candidate
          /\ evaluations[i].candidate \in 1 .. run.steps_used + 1
    /\ \A i, j \in DOMAIN evaluations :
          i < j => /\ evaluations[i].candidate < evaluations[j].candidate
                   /\ evaluations[i].eligible /\ evaluations[j].eligible
                         => evaluations[j].score < evaluations[i].score
    /\ \A i \in DOMAIN evaluations :
          evaluations[i].eligible =>
              \E last \in DOMAIN evaluations :
                  /\ evaluations[last].eligible
                  /\ \A j \in DOMAIN evaluations : evaluations[j].eligible => j <= last
    /\ Recorded => run.status \in Active
    /\ run.status = "evaluating" => Recorded
    /\ Len(evaluations) = Cardinality(Applied) + (IF Recorded THEN 1 ELSE 0)

\* The promotions on record.
PromotionInv ==
    /\ \A i \in DOMAIN journal : journal[i].state.steps_used <= run.steps_used
    /\ \A i, j \in MovesBy("evaluation_eligible") :
          i < j => journal[i].state.steps_used < journal[j].state.steps_used
    /\ \A i \in MovesBy("evaluation_eligible"), a \in DOMAIN evaluations :
          evaluations[a].candidate = journal[i].candidate => evaluations[a].eligible
    /\ PromotesThisAttempt
    /\ BestIsEligible
    /\ EvidenceAccounted

ChildPoints == {"run_child", "child_result", "read_baseline", "record_attempt", "child_failed"}
VerdictPoints == {"candidate_ready"} \cup Verdicts
JudgePoints ==
    {"read_candidates", "read_evaluations", "read_events", "interrupt", "evaluation_missing"}

\* A call of step that is inside its attempt, and one of reconcile that is to decide it.
InAttempt(c) == c.op = "step" /\ c.pc \in ChildPoints \cup VerdictPoints
Judging(c) == c.op = "reconcile" /\ c.pc \in JudgePoints \cup VerdictPoints

\* The operation a call is of, by the point it has reached.
Belongs(c) ==
    /\ c.pc \in {"start_step"} \cup ChildPoints => c.op = "step"
    /\ c.pc \in VerdictPoints => c.op \in {"step", "reconcile"}
    /\ c.pc \in JudgePoints => c.op = "reconcile"
    /\ c.pc \in Verdicts => c.pc = Verdict(c)

LastCandidate(c) ==
    c.cand = IF candidates = <<>> THEN None ELSE candidates[Len(candidates)]

LastEvaluation(c) == evaluations # <<>> => c.eligible = evaluations[Len(evaluations)].eligible

\* What a call knows of the evidence, as long as the state it holds is the run's.
Knows(c) ==
    /\ c.pc = "read_evaluations" => LastCandidate(c)
    /\ c.pc = "read_events" =>
          LastCandidate(c) /\ LastEvaluation(c) /\ c.evals = Len(evaluations)
    /\ c.pc \in VerdictPoints => Recorded /\ LastCandidate(c) /\ LastEvaluation(c)
    /\ c.pc \in {"interrupt", "evaluation_missing"} \cup ChildPoints => ~Recorded
    /\ c.pc \in ChildPoints => run.status = "running"
    /\ c.pc = "record_attempt" =>
          /\ c.cand = run.steps_used + 1
          /\ c.eligible => \A i \in DOMAIN evaluations :
                              evaluations[i].eligible => c.answer < evaluations[i].score

Current(c) == c.state.revision = run.revision

AttemptInv ==
    /\ \A s \in Sessions :
          /\ Belongs(call[s])
          /\ InAttempt(call[s]) => Current(call[s])
          /\ Current(call[s]) => Knows(call[s])
    /\ \A s, t \in Sessions :
          s # t /\ InAttempt(call[s]) =>
              ~InAttempt(call[t]) /\ (Judging(call[t]) => ~Current(call[t]))

RecoveryInv == CoreInv /\ SeenInv /\ EvidenceInv /\ PromotionInv /\ AttemptInv
\* AppliedEvaluations counts them, and their number is a number.
LEMMA AppliedFinite ==
    ASSUME journal \in Seq(JournalRows)
    PROVE  /\ IsFiniteSet(Applied) /\ Cardinality(Applied) \in Nat
           /\ AppliedEvaluations = Cardinality(Applied)
  <1>1. Applied \subseteq 1 .. Len(journal)
    BY DEF Applied
  <1>2. IsFiniteSet(1 .. Len(journal))
    BY FS_Interval
  <1>3. AppliedEvaluations = Cardinality(Applied)
    BY DEF AppliedEvaluations, Applied, Verdicts
  <1> QED
    BY <1>1, <1>2, <1>3, FS_Subset, FS_CardinalityType

\* A verdict adds one to them, no other transition does.
LEMMA AppliedCommit ==
    ASSUME CoreInv, NEW s \in Sessions, Commit(s)
    PROVE  Cardinality(Applied)' =
              Cardinality(Applied) + (IF call[s].pc \in Verdicts THEN 1 ELSE 0)
  <1>1. journal \in Seq(JournalRows)
    BY DEF CoreInv, Inv, StoreTypeOK
  <1> DEFINE row == TransitionRow(call[s].pc, Promoted(call[s], call[s].pc), 0, run')
  <1>2. journal' = Append(journal, row) /\ row.event = call[s].pc
    BY DEF Commit, Transition, TransitionRow
  <1> HIDE DEF row
  <1>3. /\ DOMAIN journal = 1 .. Len(journal)
        /\ DOMAIN journal' = 1 .. Len(journal) + 1
        /\ Len(journal) \in Nat
        /\ \A i \in 1 .. Len(journal) : journal'[i] = journal[i]
        /\ journal'[Len(journal) + 1] = row
    BY <1>1, <1>2
  <1>4. CASE call[s].pc \in Verdicts
    <2>1. Applied' = Applied \cup {Len(journal) + 1}
      BY <1>2, <1>3, <1>4 DEF Applied
    <2>2. Len(journal) + 1 \notin Applied
      BY <1>3 DEF Applied
    <2> QED
      BY <1>1, <1>4, <2>1, <2>2, AppliedFinite, FS_AddElement
  <1>5. CASE call[s].pc \notin Verdicts
    <2>1. Applied' = Applied
      BY <1>2, <1>3, <1>5 DEF Applied
    <2> QED
      BY <1>1, <1>5, <2>1, AppliedFinite
  <1> QED
    BY <1>4, <1>5

\* No observation passes for a verdict.
LEMMA AppliedOutcome ==
    ASSUME CoreInv, NEW s \in Sessions, NEW next, Outcome(s, next)
    PROVE  Applied' = Applied
  <1>1. journal \in Seq(JournalRows)
    BY DEF CoreInv, Inv, StoreTypeOK
  <1>2. CASE journal' = journal
    BY <1>2 DEF Applied
  <1>3. ASSUME NEW name \in Notes \cup {"child_result"}, RecordObservation(name)
        PROVE  Applied' = Applied
    <2>1. /\ journal' = Append(journal, ObservationRow(name, run))
          /\ ObservationRow(name, run).event \notin Verdicts
      BY <1>3 DEF RecordObservation, ObservationRow, Notes, Verdicts
    <2>2. /\ DOMAIN journal = 1 .. Len(journal)
          /\ DOMAIN journal' = 1 .. Len(journal) + 1
          /\ Len(journal) \in Nat
          /\ \A i \in 1 .. Len(journal) : journal'[i] = journal[i]
          /\ journal'[Len(journal) + 1] = ObservationRow(name, run)
      BY <1>1, <2>1
    <2> QED
      BY <2>1, <2>2 DEF Applied
  <1> QED
    BY <1>2, <1>3 DEF Outcome, Writes, ledger, RecordAttempt, RecordAdvice, SaveMemory

\* At a point that is nobody's there is nothing to know.
LEMMA AttemptPoint ==
    ASSUME NEW c, InAttempt(c) \/ Judging(c)
    PROVE  c.pc \in ChildPoints \cup JudgePoints \cup VerdictPoints
  BY DEF InAttempt, Judging

Elsewhere(c) == c.pc \notin {"start_step"} \cup ChildPoints \cup JudgePoints \cup VerdictPoints

LEMMA ElsewhereKnows ==
    ASSUME NEW c, Elsewhere(c)
    PROVE  Belongs(c) /\ Knows(c) /\ ~InAttempt(c) /\ ~Judging(c)
  BY DEF Elsewhere, Belongs, Knows, InAttempt, Judging, ChildPoints, JudgePoints, VerdictPoints,
         Verdicts

\* A call that knows anything is in its attempt or judges one.
LEMMA KnowsOwn ==
    ASSUME NEW c, Belongs(c), ~InAttempt(c), ~Judging(c)
    PROVE  Knows(c)
  BY DEF Belongs, Knows, InAttempt, Judging, ChildPoints, JudgePoints, VerdictPoints, Verdicts

-----------------------------------------------------------------------------
\* A step that leaves the run and the lineage alone.

\* What the call that takes it may go on to.
Continues(s, next) ==
    /\ Belongs(next)
    /\ InAttempt(next) => InAttempt(call[s]) /\ next.state = call[s].state
    /\ Current(next) => Knows(next)
    /\ Judging(next) /\ Current(next) =>
          \/ Judging(call[s]) /\ Current(call[s])
          \/ \A t \in Sessions \ {s} : ~InAttempt(call[t])

LEMMA QuietJournal ==
    ASSUME RecoveryInv, NEW s \in Sessions, NEW next, Outcome(s, next),
           UNCHANGED <<candidates, evaluations>>
    PROVE  EvidenceInv' /\ PromotionInv'
  <1>1. run' = run /\ Applied' = Applied
    BY OutcomeRun, AppliedOutcome DEF RecoveryInv
  <1>2. EvidenceInv'
    BY <1>1 DEF RecoveryInv, EvidenceInv, Recorded
  <1>3. [StoreNext]_ledger
    BY WritesStore DEF RecoveryInv, Outcome
  <1>4. /\ MovesBy("evaluation_eligible")' = MovesBy("evaluation_eligible")
        /\ \A i \in DOMAIN journal : i \in DOMAIN journal' /\ journal'[i] = journal[i]
    BY <1>3, MovesOutcome, JournalKept DEF RecoveryInv, CoreInv
  <1>5. MovesBy("evaluation_ineligible")' = MovesBy("evaluation_ineligible")
    BY MovesOutcome DEF RecoveryInv
  <1>6. \A event : MovesBy(event) \subseteq DOMAIN journal
    BY DEF MovesBy
  <1>7. ASSUME NEW i \in DOMAIN journal'
        PROVE  journal'[i].state.steps_used <= run.steps_used
    <2>1. journal \in Seq(JournalRows) /\ run.steps_used \in Nat
      BY DEF RecoveryInv, CoreInv, CarriesInv, StoreTypeOK, RunStates
    <2>2. CASE i \in DOMAIN journal
      BY <1>4, <2>2 DEF RecoveryInv, PromotionInv
    <2>3. ASSUME NEW name, i \notin DOMAIN journal, journal' = Append(journal, ObservationRow(name, run))
          PROVE  journal'[i].state = run
      BY <2>1, <2>3 DEF ObservationRow
    <2>4. CASE i \notin DOMAIN journal
      BY <2>1, <2>3, <2>4 DEF Outcome, Writes, ledger, RecordObservation, RecordAttempt, RecordAdvice, SaveMemory
    <2> QED
      BY <2>2, <2>4
  <1>8. PromotesThisAttempt'
    BY <1>4, <1>6 DEF RecoveryInv, PromotionInv, PromotesThisAttempt
  <1>9. BestIsEligible'
    BY <1>1 DEF RecoveryInv, PromotionInv, BestIsEligible
  <1>10. EvidenceAccounted'
    <2>1. \A e : Verdict(e) \in Verdicts
      BY DEF Verdict, Verdicts
    <2> QED
      BY <1>1, <1>4, <1>5, <1>6, <2>1 DEF RecoveryInv, PromotionInv, EvidenceAccounted, Verdicts
  <1> QED
    BY <1>1, <1>2, <1>4, <1>6, <1>7, <1>8, <1>9, <1>10 DEF RecoveryInv, PromotionInv

LEMMA QuietAttempt ==
    ASSUME RecoveryInv, NEW s \in Sessions, NEW next, Outcome(s, next),
           UNCHANGED <<candidates, evaluations>>, Continues(s, next)
    PROVE  AttemptInv'
  <1>1. /\ call'[s] = next
        /\ \A t \in Sessions : t # s => call'[t] = call[t]
        /\ run' = run
    BY OthersStay, OutcomeRun DEF RecoveryInv, CoreInv, Outcome
  <1>2. ASSUME NEW t \in Sessions
        PROVE  /\ Belongs(call'[t])
               /\ InAttempt(call'[t]) => Current(call'[t])
               /\ Current(call'[t]) => Knows(call'[t])
    <2>1. CASE t = s
      BY <1>1, <2>1 DEF RecoveryInv, AttemptInv, Continues, Current
    <2>2. CASE t # s
      BY <1>1, <2>2 DEF RecoveryInv, AttemptInv
    <2> QED
      BY <2>1, <2>2
  <1>3. ASSUME NEW t \in Sessions
        PROVE  (/\ Belongs(call[t])
                /\ InAttempt(call[t]) => Current(call[t])
                /\ Current(call[t]) => Knows(call[t]))'
    <2>1. PICK c : c = call'[t]
      OBVIOUS
    <2>2. /\ Current(c)' <=> Current(c)
          /\ Knows(c)' <=> Knows(c)
      BY <1>1 DEF Current, Knows, LastCandidate, LastEvaluation, Recorded
    <2> QED
      BY <1>2, <2>1, <2>2 DEF Belongs, InAttempt, Current, Knows, LastCandidate,
         LastEvaluation, Recorded
  <1>4. ASSUME NEW u \in Sessions, NEW t \in Sessions, u # t, InAttempt(call'[u])
        PROVE  ~InAttempt(call'[t]) /\ (Judging(call'[t]) => ~Current(call'[t]))
    <2>1. CASE u # s /\ t # s
      BY <1>1, <1>4, <2>1 DEF RecoveryInv, AttemptInv
    <2>2. CASE u = s
      BY <1>1, <1>4, <2>2 DEF RecoveryInv, AttemptInv, Continues
    <2>3. CASE u # s /\ t = s
      BY <1>1, <1>4, <2>3 DEF RecoveryInv, AttemptInv, Continues
    <2> QED
      BY <2>1, <2>2, <2>3
  <1>5. ASSUME NEW u \in Sessions, NEW t \in Sessions
        PROVE  (u # t /\ InAttempt(call[u]) =>
                   ~InAttempt(call[t]) /\ (Judging(call[t]) => ~Current(call[t])))'
    BY <1>1, <1>4 DEF InAttempt, Judging, Current
  <1> QED
    BY <1>3, <1>5 DEF AttemptInv

-----------------------------------------------------------------------------
\* A transition.

\* Nobody but the call in an attempt moves the run on.
LEMMA OnlyAttempt ==
    ASSUME RecoveryInv, NEW s \in Sessions, Commit(s), NEW t \in Sessions, t # s
    PROVE  ~InAttempt(call[t])
  <1> SUFFICES ASSUME InAttempt(call[t])
               PROVE  FALSE
    OBVIOUS
  <1>1. run = call[s].state /\ Accepts(run, call[s].pc, Promoted(call[s], call[s].pc), 0)
    BY CommitRun DEF RecoveryInv, Commit, Transition
  <1>2. Current(call[s]) /\ ~InAttempt(call[s]) /\ ~Judging(call[s]) /\ Belongs(call[s])
    BY <1>1 DEF RecoveryInv, AttemptInv, Current
  <1>3. run.status \in Active
    <2>1. Knows(call[t]) /\ call[t].pc \in ChildPoints \cup VerdictPoints
      BY DEF RecoveryInv, AttemptInv, InAttempt
    <2> QED
      BY <2>1 DEF Knows, RecoveryInv, EvidenceInv, Active
  <1>4. call[s].pc \in {"candidate_ready", "child_failed", "interrupt", "evaluation_eligible",
                         "evaluation_ineligible", "evaluation_missing", "cancel"}
    BY <1>1, <1>3 DEF Accepts, Allowed, Active
  <1>5. call[s].pc # "cancel"
    BY <1>1, <1>3 DEF RecoveryInv, CoreInv, CarriesInv, Carries
  <1> QED
    BY <1>2, <1>4, <1>5
    DEF InAttempt, Judging, Belongs, ChildPoints, VerdictPoints, JudgePoints, Verdicts

\* Only the verdict that promotes moves the best candidate.
LEMMA CommitBest ==
    ASSUME CoreInv, NEW s \in Sessions, Commit(s)
    PROVE  /\ call[s].pc = "evaluation_eligible" => run'.best = call[s].cand
           /\ call[s].pc # "evaluation_eligible" => run'.best = run.best
  <1>1. PICK event \in Events, cand \in Candidates \cup {None} :
           /\ event = call[s].pc
           /\ cand = Promoted(call[s], event)
           /\ Accepts(run, event, cand, 0)
           /\ run' = Apply(run, event, cand, 0)
    BY CommitOutcome DEF CoreInv, Commit, Transition
  <1>2. run \in RunStates(Candidates)
    BY DEF CoreInv, CarriesInv, StoreTypeOK
  <1>3. CASE event \in AttemptEnd
    <2> DEFINE t == Apply(run, event, cand, 0)
    <2>1. 0 \in Int /\ Accepts(run, event, cand, 0) /\ cand \in Candidates \cup {None}
      BY <1>1
    <2>2. /\ event = "evaluation_eligible" => t.best = cand
          /\ event # "evaluation_eligible" => t.best = run.best
      BY <1>2, <1>3, <2>1, AttemptFields
    <2> QED
      BY <1>1, <2>2 DEF Promoted
  <1>4. CASE event \notin AttemptEnd
    BY <1>1, <1>2, <1>4, MoveFields DEF AttemptEnd
  <1> QED
    BY <1>3, <1>4

\* What the transition found and left: the part of the run its verdict rests on.
LEMMA CommitLineage ==
    ASSUME RecoveryInv, NEW s \in Sessions, Commit(s)
    PROVE  /\ Belongs(call[s]) /\ Knows(call[s])
           /\ UNCHANGED <<candidates, evaluations>>
           /\ call[s].pc \in AttemptEnd => run'.status \notin Active
           /\ run'.status = "evaluating" => call[s].pc = "candidate_ready"
           /\ call[s].pc = "evaluation_eligible" => run'.best = call[s].cand
           /\ call[s].pc # "evaluation_eligible" => run'.best = run.best
  <1>1. /\ run = call[s].state
        /\ Accepts(run, call[s].pc, Promoted(call[s], call[s].pc), 0)
        /\ UNCHANGED <<candidates, evaluations>>
    BY CommitRun DEF RecoveryInv, Commit, Transition, evidence
  <1>2. Belongs(call[s]) /\ Knows(call[s]) /\ Carries(call[s])
    BY <1>1 DEF RecoveryInv, AttemptInv, Current, CoreInv, CarriesInv
  <1>3. ASSUME run'.status = "evaluating"
        PROVE  call[s].pc = "candidate_ready"
    <2>1. run'.status \in Active
      BY <1>3 DEF Active
    <2>2. call[s].pc \notin AttemptEnd
      BY <2>1, CommitRun DEF RecoveryInv
    <2>3. call[s].pc # "start_step"
      BY <1>3, CommitRun DEF RecoveryInv
    <2>4. run.status \in Active
      BY <2>1, <2>2, <2>3, CommitRun DEF RecoveryInv
    <2> QED
      BY <1>1, <1>2, <2>2, <2>4 DEF Accepts, Allowed, Active, AttemptEnd, Unproductive, Carries
  <1>4. /\ call[s].pc = "evaluation_eligible" => run'.best = call[s].cand
        /\ call[s].pc # "evaluation_eligible" => run'.best = run.best
    BY CommitBest DEF RecoveryInv
  <1> QED
    BY <1>1, <1>2, <1>3, <1>4, CommitRun DEF RecoveryInv

\* The current attempt's evaluation is the last one.
LEMMA RecordedLast ==
    ASSUME RecoveryInv, NEW i \in DOMAIN evaluations,
           evaluations[i].candidate = run.steps_used + 1
    PROVE  Recorded /\ i = Len(evaluations)
  <1>1. /\ evaluations \in Seq(Evaluations)
        /\ run.steps_used \in Nat
    BY DEF RecoveryInv, CoreInv, CarriesInv, StoreTypeOK, RunStates
  <1>2. /\ DOMAIN evaluations = 1 .. Len(evaluations)
        /\ Len(evaluations) \in Nat
        /\ Len(evaluations) \in DOMAIN evaluations
        /\ i <= Len(evaluations)
        /\ evaluations # <<>>
    BY <1>1
  <1>3. evaluations[Len(evaluations)].candidate \in 1 .. run.steps_used + 1
    BY <1>2 DEF RecoveryInv, EvidenceInv
  <1>4. i < Len(evaluations) => evaluations[i].candidate < evaluations[Len(evaluations)].candidate
    BY <1>2 DEF RecoveryInv, EvidenceInv
  <1>5. i = Len(evaluations)
    BY <1>1, <1>2, <1>3, <1>4
  <1> QED
    BY <1>2, <1>5 DEF Recorded

\* Different evaluations are of different candidates.
LEMMA CandidateOnce ==
    ASSUME RecoveryInv, NEW i \in DOMAIN evaluations, NEW j \in DOMAIN evaluations,
           evaluations[i].candidate = evaluations[j].candidate
    PROVE  i = j
  <1>1. /\ evaluations \in Seq(Evaluations)
        /\ run.steps_used \in Nat
    BY DEF RecoveryInv, CoreInv, CarriesInv, StoreTypeOK, RunStates
  <1>2. i \in Nat /\ j \in Nat
    BY <1>1
  <1>3. evaluations[i].candidate \in Int /\ evaluations[j].candidate \in Int
    BY <1>1 DEF RecoveryInv, EvidenceInv
  <1>4. /\ i < j => evaluations[i].candidate < evaluations[j].candidate
        /\ j < i => evaluations[j].candidate < evaluations[i].candidate
    BY DEF RecoveryInv, EvidenceInv
  <1> QED
    BY <1>2, <1>3, <1>4

LEMMA EvidenceCommit ==
    ASSUME RecoveryInv, NEW s \in Sessions, Commit(s)
    PROVE  EvidenceInv'
  <1>1. /\ Belongs(call[s]) /\ Knows(call[s])
        /\ candidates' = candidates /\ evaluations' = evaluations
        /\ run'.status = "evaluating" => call[s].pc = "candidate_ready"
    BY CommitLineage
  <1>2. /\ run.steps_used \in Nat
        /\ evaluations \in Seq(Evaluations)
        /\ journal \in Seq(JournalRows)
    BY DEF RecoveryInv, CoreInv, CarriesInv, StoreTypeOK, RunStates
  <1>3. Len(evaluations) \in Nat /\ Cardinality(Applied) \in Nat
    BY <1>2, AppliedFinite
  <1>4. Cardinality(Applied)' = Cardinality(Applied) + (IF call[s].pc \in Verdicts THEN 1 ELSE 0)
    BY AppliedCommit DEF RecoveryInv
  <1>5. evaluations # <<>> => /\ Len(evaluations) \in DOMAIN evaluations
                              /\ evaluations[Len(evaluations)].candidate \in 1 .. run.steps_used + 1
    BY <1>2 DEF RecoveryInv, EvidenceInv
  <1>6. CASE call[s].pc \in AttemptEnd
    <2>1. run'.steps_used = run.steps_used + 1 /\ run'.status \notin Active
      BY <1>6, CommitRun DEF RecoveryInv
    <2>2. ~Recorded'
      BY <1>1, <1>2, <1>5, <2>1 DEF Recorded
    <2>3. call[s].pc \in Verdicts <=> Recorded
      BY <1>1, <1>6 DEF Knows, AttemptEnd, Unproductive, Verdicts, VerdictPoints, ChildPoints
    <2>4. Len(evaluations) = Cardinality(Applied)'
      BY <1>3, <1>4, <2>3 DEF RecoveryInv, EvidenceInv
    <2>5. \A i \in DOMAIN evaluations : evaluations[i].candidate \in 1 .. run'.steps_used + 1
      BY <1>2, <2>1 DEF RecoveryInv, EvidenceInv
    <2>6. run'.status # "evaluating"
      BY <2>1 DEF Active
    <2> QED
      BY <1>1, <1>3, <1>4, <2>2, <2>4, <2>5, <2>6 DEF RecoveryInv, EvidenceInv
  <1>7. CASE call[s].pc \notin AttemptEnd
    <2>1. run'.steps_used = run.steps_used
      BY <1>7, CommitRun DEF RecoveryInv
    <2>2. Recorded' <=> Recorded
      BY <1>1, <2>1 DEF Recorded
    <2>3. Recorded => run'.status \in Active
      <3>1. CASE call[s].pc = "start_step"
        BY <3>1, CommitRun DEF RecoveryInv, EvidenceInv
      <3>2. CASE call[s].pc # "start_step"
        BY <1>7, <3>2, CommitRun DEF RecoveryInv, EvidenceInv
      <3> QED
        BY <3>1, <3>2
    <2>4. run'.status = "evaluating" => Recorded
      BY <1>1 DEF Knows, VerdictPoints
    <2>5. call[s].pc \notin Verdicts
      BY <1>7 DEF Verdicts, AttemptEnd, Unproductive
    <2> QED
      BY <1>1, <1>3, <1>4, <2>1, <2>2, <2>3, <2>4, <2>5 DEF RecoveryInv, EvidenceInv
  <1> QED
    BY <1>6, <1>7

\* The row a transition writes is the last of the journal.
LEMMA CommitJournal ==
    ASSUME CoreInv, NEW s \in Sessions, Commit(s)
    PROVE  LET n == Len(journal) + 1
           IN  /\ n \notin DOMAIN journal /\ n \in Nat
               /\ DOMAIN journal' = DOMAIN journal \cup {n}
               /\ \A i \in DOMAIN journal : i \in Nat /\ i < n /\ journal'[i] = journal[i]
               /\ journal'[n].state = run'
               /\ journal'[n].candidate = Promoted(call[s], call[s].pc)
               /\ \A event : MovesBy(event)' = IF call[s].pc = event THEN MovesBy(event) \cup {n}
                                               ELSE MovesBy(event)
               /\ \A event : MovesBy(event) \subseteq DOMAIN journal
  <1>1. journal \in Seq(JournalRows)
    BY DEF CoreInv, Inv, StoreTypeOK
  <1> DEFINE row == TransitionRow(call[s].pc, Promoted(call[s], call[s].pc), 0, run')
  <1>2. /\ journal' = Append(journal, row)
        /\ row.state = run'
        /\ row.candidate = Promoted(call[s], call[s].pc)
    BY DEF Commit, Transition, TransitionRow
  <1> HIDE DEF row
  <1>3. /\ DOMAIN journal = 1 .. Len(journal)
        /\ DOMAIN journal' = 1 .. Len(journal) + 1
        /\ Len(journal) \in Nat
        /\ \A i \in 1 .. Len(journal) : journal'[i] = journal[i]
        /\ journal'[Len(journal) + 1] = row
    BY <1>1, <1>2
  <1>4. \A event : MovesBy(event) \subseteq DOMAIN journal
    BY DEF MovesBy
  <1>5. \A event : MovesBy(event)' = IF call[s].pc = event
                                     THEN MovesBy(event) \cup {Len(journal) + 1}
                                     ELSE MovesBy(event)
    BY MovesCommit
  <1> QED
    BY <1>2, <1>3, <1>4, <1>5

\* The verdict that promotes is on the evaluation of the attempt it ends.
LEMMA VerdictLast ==
    ASSUME RecoveryInv, NEW s \in Sessions, Commit(s), call[s].pc \in Verdicts
    PROVE  /\ evaluations # <<>> /\ Len(evaluations) \in DOMAIN evaluations
           /\ evaluations[Len(evaluations)].candidate = run.steps_used + 1
           /\ call[s].cand = run.steps_used + 1
           /\ call[s].pc = Verdict(evaluations[Len(evaluations)])
           /\ call[s].pc = "evaluation_eligible" <=> evaluations[Len(evaluations)].eligible
  <1>1. Belongs(call[s]) /\ Knows(call[s])
    BY CommitLineage
  <1>2. /\ evaluations \in Seq(Evaluations)
        /\ candidates \in Seq(Candidates)
        /\ Len(candidates) = Len(evaluations)
    BY DEF RecoveryInv, CoreInv, CarriesInv, StoreTypeOK, EvidenceInv
  <1>3. /\ Recorded /\ LastCandidate(call[s]) /\ LastEvaluation(call[s])
        /\ call[s].pc = Verdict(call[s])
    BY <1>1 DEF Knows, Belongs, VerdictPoints
  <1>4. /\ evaluations # <<>> /\ candidates # <<>>
        /\ Len(evaluations) \in DOMAIN evaluations
    BY <1>2, <1>3 DEF Recorded
  <1>5. candidates[Len(evaluations)] = evaluations[Len(evaluations)].candidate
    BY <1>4 DEF RecoveryInv, EvidenceInv
  <1> QED
    BY <1>2, <1>3, <1>4, <1>5 DEF Recorded, LastCandidate, LastEvaluation, Verdict

LEMMA PromotionCommit ==
    ASSUME RecoveryInv, NEW s \in Sessions, Commit(s)
    PROVE  PromotionInv'
  <1> DEFINE n == Len(journal) + 1
  <1> DEFINE Eligibles == MovesBy("evaluation_eligible")
  <1>1. /\ n \notin DOMAIN journal /\ n \in Nat
        /\ DOMAIN journal' = DOMAIN journal \cup {n}
        /\ \A i \in DOMAIN journal : i \in Nat /\ i < n /\ journal'[i] = journal[i]
        /\ journal'[n].state = run'
        /\ journal'[n].candidate = Promoted(call[s], call[s].pc)
        /\ \A event : MovesBy(event)' = IF call[s].pc = event THEN MovesBy(event) \cup {n}
                                        ELSE MovesBy(event)
        /\ \A event : MovesBy(event) \subseteq DOMAIN journal
    BY CommitJournal DEF RecoveryInv
  <1>2. /\ Eligibles' = IF call[s].pc = "evaluation_eligible" THEN Eligibles \cup {n}
                        ELSE Eligibles
        /\ Eligibles \subseteq DOMAIN journal
    BY <1>1
  <1> HIDE DEF n, Eligibles
  <1>3. /\ run.steps_used \in Nat
        /\ \/ run'.steps_used = run.steps_used /\ call[s].pc \notin AttemptEnd
           \/ run'.steps_used = run.steps_used + 1 /\ call[s].pc \in AttemptEnd
    BY CommitRun DEF RecoveryInv, CoreInv, CarriesInv, StoreTypeOK, RunStates
  <1>4. /\ candidates' = candidates /\ evaluations' = evaluations
        /\ call[s].pc = "evaluation_eligible" => run'.best = call[s].cand
        /\ call[s].pc # "evaluation_eligible" => run'.best = run.best
        /\ Knows(call[s])
    BY CommitLineage
  <1>5. ASSUME NEW i \in DOMAIN journal
        PROVE  /\ journal[i].state.steps_used \in Nat
               /\ journal[i].state.steps_used <= run.steps_used
    <2>1. journal \in Seq(JournalRows)
      BY DEF RecoveryInv, CoreInv, CarriesInv, StoreTypeOK
    <2>2. journal[i] \in JournalRows
      BY <2>1
    <2> QED
      BY <2>2 DEF RecoveryInv, PromotionInv, JournalRows, RunStates
  <1>6. call[s].pc = "evaluation_eligible" =>
           /\ journal'[n].candidate = run.steps_used + 1
           /\ run'.steps_used = run.steps_used + 1
    BY <1>1, <1>3, VerdictLast DEF Promoted, Verdicts, AttemptEnd
  <1>7. \A i \in DOMAIN journal' : journal'[i].state.steps_used <= run'.steps_used
    BY <1>1, <1>3, <1>5
  <1>8. \A i, j \in Eligibles' : i < j => journal'[i].state.steps_used < journal'[j].state.steps_used
    <2> SUFFICES ASSUME NEW i \in Eligibles', NEW j \in Eligibles', i < j
                 PROVE  journal'[i].state.steps_used < journal'[j].state.steps_used
      OBVIOUS
    <2>1. i \in DOMAIN journal /\ i \in Eligibles
      BY <1>1, <1>2
    <2>2. CASE j \in DOMAIN journal
      BY <1>1, <1>2, <2>1, <2>2 DEF RecoveryInv, PromotionInv, Eligibles
    <2>3. CASE j = n /\ call[s].pc = "evaluation_eligible"
      BY <1>1, <1>3, <1>5, <1>6, <2>1, <2>3
    <2> QED
      BY <1>1, <1>2, <2>2, <2>3
  <1>9. \A i \in Eligibles', a \in DOMAIN evaluations :
           evaluations[a].candidate = journal'[i].candidate => evaluations[a].eligible
    <2> SUFFICES ASSUME NEW i \in Eligibles', NEW a \in DOMAIN evaluations,
                        evaluations[a].candidate = journal'[i].candidate
                 PROVE  evaluations[a].eligible
      OBVIOUS
    <2>1. CASE i \in Eligibles
      BY <1>1, <1>2, <2>1 DEF RecoveryInv, PromotionInv, Eligibles
    <2>2. CASE i = n /\ call[s].pc = "evaluation_eligible"
      BY <1>6, <2>2, RecordedLast, VerdictLast DEF Verdicts
    <2> QED
      BY <1>2, <2>1, <2>2
  <1>10. \A i \in Eligibles' : journal'[i].candidate = journal'[i].state.steps_used
    BY <1>1, <1>2, <1>6 DEF RecoveryInv, PromotionInv, PromotesThisAttempt, Eligibles
  <1>11. BestIsEligible'
    <2>1. CASE call[s].pc = "evaluation_eligible"
      BY <1>4, <2>1, VerdictLast DEF BestIsEligible, Verdicts
    <2>2. CASE call[s].pc # "evaluation_eligible"
      BY <1>4, <2>2 DEF BestIsEligible, RecoveryInv, PromotionInv
    <2> QED
      BY <2>1, <2>2
  <1>12. EvidenceAccounted'
    <2> SUFFICES ASSUME NEW i \in DOMAIN evaluations,
                        evaluations[i].candidate <= run'.steps_used
                 PROVE  \E e, j : /\ e = Verdict(evaluations[i])
                                 /\ j \in MovesBy(e)'
                                 /\ journal'[j].state.steps_used = evaluations[i].candidate
      BY <1>4 DEF EvidenceAccounted, Verdict, MovesBy
    <2> DEFINE e == Verdict(evaluations[i])
    <2>1. evaluations[i].candidate \in 1 .. run.steps_used + 1
      BY DEF RecoveryInv, EvidenceInv
    <2>2. CASE evaluations[i].candidate <= run.steps_used
      <3>1. PICK j \in MovesBy(e) : journal[j].state.steps_used = evaluations[i].candidate
        BY <2>2 DEF RecoveryInv, PromotionInv, EvidenceAccounted
      <3>2. PICK event : event = e
        OBVIOUS
      <3>3. j \in MovesBy(event)' /\ journal'[j] = journal[j]
        BY <1>1, <3>1, <3>2
      <3> QED
        BY <3>1, <3>2, <3>3
    <2>3. CASE evaluations[i].candidate > run.steps_used
      <3>1. /\ evaluations[i].candidate = run.steps_used + 1
            /\ call[s].pc \in AttemptEnd
            /\ run'.steps_used = run.steps_used + 1
        BY <1>3, <2>1, <2>3
      <3>2. Recorded /\ i = Len(evaluations)
        BY <3>1, RecordedLast
      <3>3. call[s].pc \in Verdicts
        BY <1>4, <3>1, <3>2 DEF Knows, AttemptEnd, Unproductive, Verdicts, ChildPoints
      <3>4. call[s].pc = Verdict(evaluations[i])
        BY <3>2, <3>3, VerdictLast
      <3>5. PICK event : event = e
        OBVIOUS
      <3>6. n \in MovesBy(event)'
        BY <1>1, <3>4, <3>5
      <3> QED
        BY <1>1, <3>1, <3>5, <3>6
    <2> QED
      BY <1>3, <2>1, <2>2, <2>3
  <1> QED
    BY <1>4, <1>7, <1>8, <1>9, <1>10, <1>11, <1>12 DEF PromotionInv, PromotesThisAttempt, Eligibles

\* The call that moved the run on is the only one that holds the run as it is now.
LEMMA AttemptCommit ==
    ASSUME RecoveryInv, NEW s \in Sessions, Commit(s)
    PROVE  AttemptInv'
  <1>1. /\ call'[s] = AfterCommit(s)
        /\ \A t \in Sessions : t # s => call'[t] = call[t]
        /\ candidates' = candidates /\ evaluations' = evaluations
        /\ Belongs(call[s]) /\ Knows(call[s])
    BY CommitLineage, OthersStay DEF RecoveryInv, CoreInv, Commit
  <1>2. run'.revision = run.revision + 1 /\ run.revision \in Nat
    BY CommitRun DEF RecoveryInv, CoreInv, CarriesInv, StoreTypeOK, RunStates
  <1>3. \A t \in Sessions : call[t].state.revision \in Nat /\ call[t].state.revision <= run.revision
    BY DEF RecoveryInv, CoreInv, CarriesInv, Calls, RunStates, SeenInv, Sees
  <1>4. ASSUME NEW t \in Sessions, t # s
        PROVE  /\ Belongs(call'[t]) /\ ~InAttempt(call'[t])
               /\ call'[t].state.revision # run'.revision
    BY <1>1, <1>2, <1>3, <1>4, OnlyAttempt DEF RecoveryInv, AttemptInv
  <1>0. PICK next : next = AfterCommit(s)
    OBVIOUS
  <1> DEFINE c == [call[s] EXCEPT !.state = run']
  <1>5. /\ c.state = run' /\ c.pc = call[s].pc /\ c.op = call[s].op /\ c.cand = call[s].cand
        /\ c.eligible = call[s].eligible /\ c \in Calls
        /\ call[s] \in Calls
    BY CommitOutcome DEF RecoveryInv, CoreInv, CarriesInv, Calls
  <1>6. AfterCommit(s) =
           CASE c.pc = "start_step"       -> [c EXCEPT !.pc = "run_child"]
             [] c.pc = "start_supervisor" -> [c EXCEPT !.pc = "run_supervisor"]
             [] c.pc = "candidate_ready"  -> [c EXCEPT !.pc = Verdict(c)]
             [] c.pc \notin {"start_step", "start_supervisor", "candidate_ready"}
                  /\ c.note # None        -> [c EXCEPT !.pc = "observe"]
             [] OTHER                     -> Refresh(s)
    BY DEF AfterCommit
  <1> HIDE DEF c
  <1>7. /\ Belongs(next)
        /\ InAttempt(next) => next.state = run'
        /\ Knows(next)'
    <2>1. CASE c.pc = "start_step"
      <3>1. next = [c EXCEPT !.pc = "run_child"]
        BY <1>0, <1>6, <2>1
      <3>2. next.pc = "run_child" /\ next.op = "step" /\ next.state = run'
        BY <1>1, <1>5, <2>1, <3>1 DEF Calls, Belongs
      <3>3. run'.status = "running" /\ ~Recorded'
        <4>1. /\ run.status \notin Active /\ run'.status = "running"
              /\ run'.steps_used = run.steps_used
          BY <1>5, <2>1, CommitRun DEF RecoveryInv
        <4> QED
          BY <1>1, <4>1 DEF RecoveryInv, EvidenceInv, Recorded
      <3> QED
        BY <3>2, <3>3 DEF Belongs, Knows, ChildPoints, VerdictPoints, JudgePoints, Verdicts
    <2>2. CASE c.pc = "candidate_ready"
      <3>1. next = [c EXCEPT !.pc = Verdict(c)]
        BY <1>0, <1>6, <2>2
      <3>2. /\ next.pc = Verdict(c) /\ next.op = call[s].op /\ next.state = run'
            /\ next.cand = call[s].cand /\ next.eligible = call[s].eligible
        BY <1>5, <3>1 DEF Calls
      <3>3. /\ next.pc = Verdict(next) /\ next.pc \in Verdicts
        BY <1>5, <3>2 DEF Verdict, Verdicts
      <3>4. call[s].op \in {"step", "reconcile"} /\ Recorded /\ LastCandidate(call[s])
            /\ LastEvaluation(call[s])
        BY <1>1, <1>5, <2>2 DEF Belongs, Knows, VerdictPoints
      <3>5. run'.steps_used = run.steps_used
        BY <1>5, <2>2, CommitRun DEF RecoveryInv, AttemptEnd, Unproductive
      <3>6. Recorded'
        BY <1>1, <3>4, <3>5 DEF Recorded
      <3>7. LastCandidate(next)' /\ LastEvaluation(next)'
        BY <1>1, <3>2, <3>4 DEF LastCandidate, LastEvaluation
      <3>8. Belongs(next)
        BY <3>2, <3>3, <3>4 DEF Belongs, ChildPoints, VerdictPoints, JudgePoints, Verdicts
      <3>9. Knows(next)'
        BY <3>3, <3>6, <3>7 DEF Knows, ChildPoints, VerdictPoints, Verdicts
      <3> QED
        BY <3>2, <3>8, <3>9
    <2>3. CASE c.pc \notin {"start_step", "candidate_ready"}
      <3>1. next.pc \in {"run_supervisor", "observe", "idle", "refresh"}
        BY <1>0, <1>5, <1>6, <2>3, RefreshType DEF Calls
      <3>2. Elsewhere(next)
        BY <3>1 DEF Elsewhere, ChildPoints, JudgePoints, VerdictPoints, Verdicts
      <3> QED
        BY <3>1, <3>2, ElsewhereKnows DEF Knows, ChildPoints, VerdictPoints, Verdicts
    <2> QED
      BY <2>1, <2>2, <2>3
  <1>8. ASSUME NEW t \in Sessions
        PROVE  (/\ Belongs(call[t])
                /\ InAttempt(call[t]) => Current(call[t])
                /\ Current(call[t]) => Knows(call[t]))'
    <2>1. CASE t = s
      BY <1>0, <1>1, <1>7, <2>1 DEF Belongs, InAttempt, Current, Knows, LastCandidate,
         LastEvaluation
    <2>2. CASE t # s
      BY <1>4, <2>2 DEF Belongs, InAttempt, Current
    <2> QED
      BY <2>1, <2>2
  <1>9. ASSUME NEW u \in Sessions, NEW t \in Sessions
        PROVE  (u # t /\ InAttempt(call[u]) =>
                   ~InAttempt(call[t]) /\ (Judging(call[t]) => ~Current(call[t])))'
    BY <1>4 DEF InAttempt, Judging, Current
  <1> QED
    BY <1>8, <1>9 DEF AttemptInv

-----------------------------------------------------------------------------
\* The record of an attempt.

\* What record_attempt appends, and what it finds.
LEMMA RecordAppends ==
    ASSUME RecoveryInv, NEW s \in Sessions, RecordStepAttempt(s)
    PROVE  LET n == Len(evaluations) + 1
           IN  /\ n \in Nat /\ n \notin DOMAIN evaluations
               /\ Len(evaluations') = n /\ Len(candidates') = n
               /\ DOMAIN evaluations = 1 .. Len(evaluations)
               /\ DOMAIN evaluations' = DOMAIN evaluations \cup {n}
               /\ \A i \in DOMAIN evaluations :
                     /\ i \in Nat /\ i < n
                     /\ evaluations'[i] = evaluations[i] /\ candidates'[i] = candidates[i]
                     /\ evaluations[i].candidate \in 1 .. run.steps_used
                     /\ evaluations[i].score \in Nat
               /\ evaluations'[n].candidate = run.steps_used + 1
               /\ evaluations'[n].eligible = call[s].eligible
               /\ evaluations'[n].score = call[s].answer
               /\ evaluations'[n].score \in Nat
               /\ candidates'[n] = run.steps_used + 1
               /\ evaluations' # <<>> /\ candidates' # <<>>
               /\ call[s].cand = run.steps_used + 1
               /\ run.steps_used \in Nat
  <1>1. /\ evaluations \in Seq(Evaluations) /\ candidates \in Seq(Candidates)
        /\ Len(candidates) = Len(evaluations) /\ run.steps_used \in Nat
        /\ Carries(call[s])
    BY DEF RecoveryInv, EvidenceInv, CoreInv, CarriesInv, StoreTypeOK, RunStates
  <1>2. Knows(call[s]) /\ call[s].pc = "record_attempt"
    BY DEF RecoveryInv, AttemptInv, InAttempt, Belongs, RecordStepAttempt, ChildPoints
  <1>3. ~Recorded /\ call[s].cand = run.steps_used + 1 /\ call[s].answer \in Nat
    BY <1>1, <1>2, StoreAssumption DEF Knows, Carries, ChildPoints, StoreAssumption
  <1> DEFINE eval == [candidate |-> call[s].cand, eligible |-> call[s].eligible,
                      score |-> call[s].answer]
  <1>4. /\ candidates' = Append(candidates, eval.candidate)
        /\ evaluations' = Append(evaluations, eval)
    BY DEF RecordStepAttempt, RecordAttempt
  <1>5. ASSUME NEW i \in DOMAIN evaluations
        PROVE  /\ evaluations[i].candidate \in 1 .. run.steps_used
               /\ evaluations[i].score \in Nat
    <2>1. evaluations[i].candidate \in 1 .. run.steps_used + 1
      BY DEF RecoveryInv, EvidenceInv
    <2>2. evaluations[i].candidate # run.steps_used + 1
      BY <1>3, RecordedLast
    <2>3. evaluations[i] \in Evaluations
      BY <1>1
    <2>4. evaluations[i].score \in Nat
      BY <2>3, StoreAssumption DEF Evaluations, StoreAssumption
    <2> QED
      BY <1>1, <2>1, <2>2, <2>4
  <1>6. /\ eval.candidate = run.steps_used + 1 /\ eval.eligible = call[s].eligible
        /\ eval.score = call[s].answer
    BY <1>3
  <1> HIDE DEF eval
  <1> QED
    BY <1>1, <1>3, <1>4, <1>5, <1>6

LEMMA RecordEvidence ==
    ASSUME RecoveryInv, NEW s \in Sessions, RecordStepAttempt(s)
    PROVE  EvidenceInv'
  <1> DEFINE n == Len(evaluations) + 1
  <1>1. /\ n \in Nat /\ n \notin DOMAIN evaluations
        /\ Len(evaluations') = n /\ Len(candidates') = n
        /\ DOMAIN evaluations' = DOMAIN evaluations \cup {n}
        /\ \A i \in DOMAIN evaluations :
              /\ i \in Nat /\ i < n
              /\ evaluations'[i] = evaluations[i] /\ candidates'[i] = candidates[i]
              /\ evaluations[i].candidate \in 1 .. run.steps_used
        /\ evaluations'[n].candidate = run.steps_used + 1
        /\ evaluations'[n].eligible = call[s].eligible
        /\ evaluations'[n].score = call[s].answer
        /\ candidates'[n] = run.steps_used + 1
        /\ evaluations' # <<>>
        /\ run.steps_used \in Nat
    BY RecordAppends
  <1>2. n = Len(evaluations) + 1
    OBVIOUS
  <1> HIDE DEF n
  <1>3. Knows(call[s]) /\ call[s].pc = "record_attempt"
    BY DEF RecoveryInv, AttemptInv, InAttempt, Belongs, RecordStepAttempt, ChildPoints
  <1>4. /\ ~Recorded /\ run.status = "running"
        /\ call[s].eligible => \A i \in DOMAIN evaluations :
                                  evaluations[i].eligible => call[s].answer < evaluations[i].score
    BY <1>3 DEF Knows, ChildPoints
  <1>5. run' = run /\ UNCHANGED journal
    BY DEF RecordStepAttempt, RecordAttempt
  <1>6. Recorded'
    BY <1>1, <1>5 DEF Recorded
  <1>7. Cardinality(Applied)' = Cardinality(Applied)
    BY <1>5 DEF Applied
  <1>8. \A i \in DOMAIN evaluations' :
           /\ candidates'[i] = evaluations'[i].candidate
           /\ evaluations'[i].candidate \in 1 .. run'.steps_used + 1
    BY <1>1, <1>5 DEF RecoveryInv, EvidenceInv
  <1>9. \A i, j \in DOMAIN evaluations' :
           i < j => /\ evaluations'[i].candidate < evaluations'[j].candidate
                    /\ evaluations'[i].eligible /\ evaluations'[j].eligible
                          => evaluations'[j].score < evaluations'[i].score
    <2> SUFFICES ASSUME NEW i \in DOMAIN evaluations', NEW j \in DOMAIN evaluations', i < j
                 PROVE  /\ evaluations'[i].candidate < evaluations'[j].candidate
                        /\ evaluations'[i].eligible /\ evaluations'[j].eligible
                              => evaluations'[j].score < evaluations'[i].score
      OBVIOUS
    <2>1. i \in DOMAIN evaluations
      BY <1>1
    <2>2. CASE j = n
      BY <1>1, <1>4, <2>1, <2>2
    <2>3. CASE j # n
      BY <1>1, <2>1, <2>3 DEF RecoveryInv, EvidenceInv
    <2> QED
      BY <2>2, <2>3
  <1>10. ASSUME NEW i \in DOMAIN evaluations', evaluations'[i].eligible
         PROVE  \E last \in DOMAIN evaluations' :
                   /\ evaluations'[last].eligible
                   /\ \A j \in DOMAIN evaluations' : evaluations'[j].eligible => j <= last
    <2>1. CASE evaluations'[n].eligible
      BY <1>1, <2>1
    <2>2. CASE ~evaluations'[n].eligible
      <3>1. PICK last \in DOMAIN evaluations :
               /\ evaluations[last].eligible
               /\ \A j \in DOMAIN evaluations : evaluations[j].eligible => j <= last
        BY <1>1, <1>10, <2>2 DEF RecoveryInv, EvidenceInv
      <3> QED
        BY <1>1, <2>2, <3>1
    <2> QED
      BY <2>1, <2>2
  <1>11. Len(evaluations') = Cardinality(Applied)' + 1
    BY <1>1, <1>2, <1>4, <1>7, AppliedFinite
    DEF RecoveryInv, EvidenceInv, CoreInv, CarriesInv, StoreTypeOK
  <1> QED
    BY <1>1, <1>4, <1>5, <1>6, <1>8, <1>9, <1>10, <1>11 DEF EvidenceInv, Active

LEMMA RecordPromotion ==
    ASSUME RecoveryInv, NEW s \in Sessions, RecordStepAttempt(s)
    PROVE  PromotionInv'
  <1> DEFINE n == Len(evaluations) + 1
  <1>1. /\ n \notin DOMAIN evaluations
        /\ DOMAIN evaluations' = DOMAIN evaluations \cup {n}
        /\ \A i \in DOMAIN evaluations : evaluations'[i] = evaluations[i]
        /\ evaluations'[n].candidate = run.steps_used + 1
        /\ run.steps_used \in Nat
    BY RecordAppends
  <1> HIDE DEF n
  <1>2. run' = run /\ journal' = journal
    BY DEF RecordStepAttempt, RecordAttempt
  <1>3. \A event : MovesBy(event)' = MovesBy(event) /\ MovesBy(event) \subseteq DOMAIN journal
    BY <1>2 DEF MovesBy
  <1>4. \A i \in DOMAIN journal : journal[i].state.steps_used <= run.steps_used
    BY DEF RecoveryInv, PromotionInv
  <1>5. \A i \in MovesBy("evaluation_eligible") : journal[i].candidate <= run.steps_used
    BY <1>3, <1>4 DEF RecoveryInv, PromotionInv, PromotesThisAttempt
  <1>6. \A i \in MovesBy("evaluation_eligible"), a \in DOMAIN evaluations' :
           evaluations'[a].candidate = journal[i].candidate => evaluations'[a].eligible
    BY <1>1, <1>5 DEF RecoveryInv, PromotionInv
  <1>7. BestIsEligible'
    BY <1>1, <1>2 DEF RecoveryInv, PromotionInv, BestIsEligible
  <1>8. EvidenceAccounted'
    <2> SUFFICES ASSUME NEW i \in DOMAIN evaluations',
                        evaluations'[i].candidate <= run.steps_used
                 PROVE  \E j : /\ j \in MovesBy(Verdict(evaluations[i]))'
                               /\ evaluations'[i] = evaluations[i]
                               /\ journal[j].state.steps_used = evaluations[i].candidate
      BY <1>2 DEF EvidenceAccounted, Verdict, MovesBy
    <2>1. i \in DOMAIN evaluations
      BY <1>1
    <2>2. PICK j \in MovesBy(Verdict(evaluations[i])) :
             journal[j].state.steps_used = evaluations[i].candidate
      BY <1>1, <2>1 DEF RecoveryInv, PromotionInv, EvidenceAccounted
    <2>3. evaluations'[i] = evaluations[i] /\ j \in MovesBy(Verdict(evaluations[i]))'
      BY <1>1, <1>2, <2>1, <2>2 DEF MovesBy, Verdict
    <2> QED
      BY <2>2, <2>3
  <1>9. PromotesThisAttempt'
    BY <1>2, <1>3 DEF RecoveryInv, PromotionInv, PromotesThisAttempt
  <1> QED
    BY <1>2, <1>3, <1>6, <1>7, <1>8, <1>9 DEF RecoveryInv, PromotionInv

LEMMA RecordAttemptInv ==
    ASSUME RecoveryInv, NEW s \in Sessions, RecordStepAttempt(s)
    PROVE  AttemptInv'
  <1>1. /\ call[s] \in Calls /\ call \in [Sessions -> Calls]
        /\ call[s].pc = "record_attempt" /\ run' = run
        /\ Advance(s, [At(s, "candidate_ready") EXCEPT !.answer = None])
    BY DEF RecoveryInv, CoreInv, CarriesInv, RecordStepAttempt, RecordAttempt
  <1>2. PICK next : next = [At(s, "candidate_ready") EXCEPT !.answer = None]
    OBVIOUS
  <1>3. /\ call'[s] = next
        /\ \A t \in Sessions : t # s => call'[t] = call[t]
    BY <1>1, <1>2, OthersStay DEF RecoveryInv, CoreInv
  <1>4. /\ next.pc = "candidate_ready" /\ next.op = call[s].op /\ next.cand = call[s].cand
        /\ next.eligible = call[s].eligible /\ next.state = call[s].state
    BY <1>1, <1>2 DEF At, Calls
  <1>5. call[s].op = "step" /\ InAttempt(call[s]) /\ Current(call[s])
    BY <1>1 DEF RecoveryInv, AttemptInv, Belongs, InAttempt, ChildPoints
  <1>6. Recorded' /\ LastCandidate(next)' /\ LastEvaluation(next)'
    BY <1>1, <1>4, RecordAppends DEF Recorded, LastCandidate, LastEvaluation
  <1>7. Belongs(next) /\ InAttempt(next) /\ Current(next)' /\ Knows(next)'
    BY <1>1, <1>4, <1>5, <1>6 DEF Belongs, InAttempt, Current, Knows, ChildPoints, VerdictPoints,
       JudgePoints, Verdicts
  <1>8. ASSUME NEW t \in Sessions, t # s
        PROVE  /\ Belongs(call[t]) /\ ~InAttempt(call[t])
               /\ Judging(call[t]) => call[t].state.revision # run.revision
    BY <1>5, <1>8 DEF RecoveryInv, AttemptInv, Current
  <1>9. ASSUME NEW t \in Sessions
        PROVE  (/\ Belongs(call[t])
                /\ InAttempt(call[t]) => Current(call[t])
                /\ Current(call[t]) => Knows(call[t]))'
    <2>1. CASE t = s
      BY <1>3, <1>7, <2>1 DEF Belongs, InAttempt, Current, Knows, LastCandidate, LastEvaluation
    <2>2. CASE t # s
      <3>1. PICK c : c = call[t]
        OBVIOUS
      <3>2. Belongs(c) /\ ~InAttempt(c) /\ (Judging(c) => c.state.revision # run.revision)
        BY <1>8, <2>2, <3>1
      <3>3. Current(c)' => ~Judging(c)
        BY <1>1, <3>2 DEF Current
      <3>4. Current(c)' => Knows(c)'
        BY <3>2, <3>3 DEF Belongs, Knows, InAttempt, Judging, ChildPoints, JudgePoints,
           VerdictPoints, Verdicts
      <3> QED
        BY <1>3, <2>2, <3>1, <3>2, <3>4 DEF Belongs, InAttempt, Current, Knows, LastCandidate,
           LastEvaluation
    <2> QED
      BY <2>1, <2>2
  <1>10. ASSUME NEW u \in Sessions, NEW t \in Sessions
         PROVE  (u # t /\ InAttempt(call[u]) =>
                    ~InAttempt(call[t]) /\ (Judging(call[t]) => ~Current(call[t])))'
    <2>1. ASSUME u # t, InAttempt(call'[u])
          PROVE  ~InAttempt(call'[t]) /\ (Judging(call'[t]) => call'[t].state.revision # run'.revision)
      BY <1>1, <1>3, <1>8, <2>1
    <2> QED
      BY <2>1 DEF InAttempt, Judging, Current
  <1> QED
    BY <1>9, <1>10 DEF AttemptInv

-----------------------------------------------------------------------------
\* Every other step goes on as it may.

LEMMA ElsewhereContinues ==
    ASSUME NEW s, NEW next, Elsewhere(next)
    PROVE  Continues(s, next)
  BY ElsewhereKnows DEF Continues

\* Where the steps go that are no part of an attempt.
LEMMA NextPoint ==
    ASSUME CarriesInv, NEW s \in Sessions
    PROVE  /\ Refuse(s) \/ Conflict(s) \/ Vanish(s) \/ Observe(s) => call'[s].pc \in {"idle", "refresh"}
           /\ ReadAdvice(s) =>
                 /\ call'[s].op = call[s].op /\ call'[s].state = call[s].state
                 /\ \/ /\ call[s].op = "reconcile"
                       /\ \/ call'[s].pc = "supervisor_applied"
                          \/ call'[s].pc = "supervisor_failed" /\ advice = <<>>
                    \/ call'[s].pc \in {"complete", "read_memory"}
           /\ ReadMemory(s) => call'[s].pc \in {"refresh", "start_supervisor"}
           /\ RunSupervisor(s) =>
                 /\ call'[s].op = call[s].op /\ call'[s].state = call[s].state
                 /\ call'[s].pc \in {"supervisor_failed", "record_advice"}
           /\ RecordSupervisorAdvice(s) =>
                 /\ call'[s].op = call[s].op /\ call'[s].state = call[s].state
                 /\ call'[s].pc = "supervisor_applied"
           /\ RefreshRun(s) \/ RefreshMemory(s) \/ RefreshAdvice(s) => call'[s].pc \in Refreshing
           /\ SaveRefreshed(s) => call'[s].pc \in {"start_supervisor", "idle"}
  <1>1. call[s] \in Calls /\ call \in [Sessions -> Calls]
    BY DEF CarriesInv
  <1>2. ASSUME Refuse(s) \/ Conflict(s) \/ Vanish(s)
        PROVE  call'[s].pc \in {"idle", "refresh"}
    BY <1>1, <1>2 DEF Refuse, Conflict, Vanish, Return, Advance, NoCall
  <1>3. ASSUME Observe(s)
        PROVE  call'[s].pc \in {"idle", "refresh"}
    <2>1. call'[s] = Refresh(s)
      BY <1>1, <1>3 DEF Observe, Advance
    <2> QED
      BY <1>1, <2>1, RefreshType
  <1>4. ASSUME ReadAdvice(s)
        PROVE  /\ call'[s].op = call[s].op /\ call'[s].state = call[s].state
               /\ \/ /\ call[s].op = "reconcile"
                     /\ \/ call'[s].pc = "supervisor_applied"
                        \/ call'[s].pc = "supervisor_failed" /\ advice = <<>>
                  \/ call'[s].pc \in {"complete", "read_memory"}
    <2>1. \/ /\ call[s].op = "reconcile"
             /\ \/ call'[s] = At(s, "supervisor_applied")
                \/ /\ advice = <<>>
                   /\ call'[s] = [At(s, "supervisor_failed") EXCEPT !.note = "supervisor_missing"]
          \/ \E pc \in {"complete", "read_memory"} : call'[s] = At(s, pc)
      BY <1>1, <1>4 DEF ReadAdvice, Advance
    <2> QED
      BY <1>1, <2>1 DEF At, Calls
  <1>5. ASSUME ReadMemory(s)
        PROVE  call'[s].pc \in {"refresh", "start_supervisor"}
    <2>1. \/ call'[s] = At(s, "refresh")
          \/ call'[s] = [At(s, "start_supervisor") EXCEPT !.memo = memory]
      BY <1>1, <1>5 DEF ReadMemory, Advance
    <2> QED
      BY <1>1, <2>1 DEF At, Calls
  <1>6. ASSUME RunSupervisor(s)
        PROVE  /\ call'[s].op = call[s].op /\ call'[s].state = call[s].state
               /\ call'[s].pc \in {"supervisor_failed", "record_advice"}
    <2>1. \/ call'[s] = [At(s, "supervisor_failed") EXCEPT !.note = "supervisor_failed",
                                                           !.memo = NoMemory]
          \/ \E a \in Advices : call'[s] = [At(s, "record_advice") EXCEPT !.answer = a]
      BY <1>1, <1>6 DEF RunSupervisor, Advance
    <2> QED
      BY <1>1, <2>1 DEF At, Calls
  <1>7. ASSUME RecordSupervisorAdvice(s)
        PROVE  /\ call'[s].op = call[s].op /\ call'[s].state = call[s].state
               /\ call'[s].pc = "supervisor_applied"
    <2>1. call'[s] = [At(s, "supervisor_applied") EXCEPT
                         !.answer = None, !.memo = NoMemory, !.note = "supervisor_result"]
      BY <1>1, <1>7 DEF RecordSupervisorAdvice, Advance
    <2> QED
      BY <1>1, <2>1 DEF At, Calls
  <1>8. ASSUME RefreshRun(s)
        PROVE  call'[s].pc \in Refreshing
    <2>1. call'[s] = [At(s, "refresh_memory") EXCEPT !.memo = Snapshot(run, 0, FALSE)]
      BY <1>1, <1>8 DEF RefreshRun, Advance
    <2> QED
      BY <1>1, <2>1 DEF At, Calls, Refreshing
  <1>9. ASSUME RefreshMemory(s)
        PROVE  call'[s].pc \in Refreshing
    <2>1. call'[s] = [At(s, "refresh_advice") EXCEPT
                         !.memo.memory_revision = memory.memory_revision + 1]
      BY <1>1, <1>9 DEF RefreshMemory, Advance
    <2> QED
      BY <1>1, <2>1 DEF At, Calls, Refreshing
  <1>10. ASSUME RefreshAdvice(s)
         PROVE  call'[s].pc \in Refreshing
    <2>1. call'[s] = [At(s, "save_memory") EXCEPT !.memo.advised = advice # <<>>]
      BY <1>1, <1>10 DEF RefreshAdvice, Advance
    <2> QED
      BY <1>1, <2>1 DEF At, Calls, Refreshing
  <1>11. ASSUME SaveRefreshed(s)
         PROVE  call'[s].pc \in {"start_supervisor", "idle"}
    <2>1. call'[s] = At(s, "start_supervisor") \/ call'[s] = NoCall
      BY <1>1, <1>11 DEF SaveRefreshed, Advance
    <2> QED
      BY <1>1, <2>1 DEF At, Calls, NoCall
  <1>12. RefreshRun(s) \/ RefreshMemory(s) \/ RefreshAdvice(s) => call'[s].pc \in Refreshing
    BY <1>8, <1>9, <1>10
  <1>13. Refuse(s) \/ Conflict(s) \/ Vanish(s) \/ Observe(s) => call'[s].pc \in {"idle", "refresh"}
    BY <1>2, <1>3
  <1> QED
    BY <1>4, <1>5, <1>6, <1>7, <1>11, <1>12, <1>13

\* Steps that lead out of an attempt or never were in one.
LEMMA LeavingContinues ==
    ASSUME RecoveryInv, NEW s \in Sessions,
           \/ Refuse(s) \/ Conflict(s) \/ Vanish(s) \/ Observe(s)
           \/ ReadAdvice(s) \/ ReadMemory(s) \/ RunSupervisor(s) \/ RecordSupervisorAdvice(s)
           \/ RefreshRun(s) \/ RefreshMemory(s) \/ RefreshAdvice(s) \/ SaveRefreshed(s)
    PROVE  /\ Continues(s, call'[s])
           /\ UNCHANGED <<candidates, evaluations>>
  <1>1. UNCHANGED <<candidates, evaluations>>
    BY DEF Refuse, Conflict, Vanish, Observe, ReadAdvice, ReadMemory, RunSupervisor,
       RecordSupervisorAdvice, RefreshRun, RefreshMemory, RefreshAdvice, SaveRefreshed,
       RecordObservation, RecordAdvice, SaveMemory, ledger, evidence
  <1>2. call'[s].pc \in {"idle", "refresh", "supervisor_applied", "supervisor_failed", "complete",
                         "read_memory", "start_supervisor", "record_advice"} \cup Refreshing
    BY NextPoint DEF RecoveryInv, CoreInv
  <1>3. Elsewhere(call'[s])
    BY <1>2 DEF Elsewhere, Refreshing, ChildPoints, JudgePoints, VerdictPoints, Verdicts
  <1> QED
    BY <1>1, <1>3, ElsewhereContinues

\* reconcile is the only call that may begin in the middle of an attempt, and does not begin
\* while the attempt's own call is alive.
LEMMA BeginContinues ==
    ASSUME RecoveryInv, Overlap = FALSE, NEW s \in Sessions, Work(s) \/ BeginCancel(s)
    PROVE  /\ Continues(s, call'[s])
           /\ UNCHANGED <<candidates, evaluations>>
  <1>1. call \in [Sessions -> Calls]
    BY DEF RecoveryInv, CoreInv, CarriesInv
  <1>2. PICK op, pc : /\ Begin(s, op, pc)
                      /\ \/ op = "step" /\ pc = "start_step"
                         \/ op \in {"reconcile", "supervise", "cancel"}
                            /\ pc \in {"read_advice", "cancel"}
                         \/ /\ op = "reconcile" /\ pc = "read_candidates"
                            /\ \A t \in Sessions \ {s} : ~Driving(t)
    BY DEF Work, BeginStep, BeginReconcile, BeginSupervise, BeginCancel
  <1>3. /\ call'[s] = [NoCall EXCEPT !.op = op, !.pc = pc, !.state = run]
        /\ UNCHANGED <<candidates, evaluations>>
    BY <1>1, <1>2 DEF Begin, Advance, ledger, evidence
  <1>4. call'[s].op = op /\ call'[s].pc = pc
    BY <1>3 DEF NoCall
  <1>5. PICK next : next = call'[s]
    OBVIOUS
  <1>6. CASE op = "step" /\ pc = "start_step"
    BY <1>3, <1>4, <1>5, <1>6 DEF Continues, Belongs, Knows, InAttempt, Judging, ChildPoints,
       VerdictPoints, JudgePoints, Verdicts
  <1>7. CASE pc \in {"read_advice", "cancel"}
    <2>1. Elsewhere(next)
      BY <1>4, <1>5, <1>7 DEF Elsewhere, ChildPoints, JudgePoints, VerdictPoints, Verdicts
    <2> QED
      BY <1>3, <1>5, <2>1, ElsewhereContinues
  <1>8. CASE /\ op = "reconcile" /\ pc = "read_candidates"
             /\ \A t \in Sessions \ {s} : ~Driving(t)
    <2>1. \A t \in Sessions \ {s} : ~InAttempt(call[t])
      BY <1>8 DEF Driving, InAttempt, ChildPoints, VerdictPoints, Verdicts
    <2> QED
      BY <1>3, <1>4, <1>5, <1>8, <2>1 DEF Continues, Belongs, Knows, InAttempt, ChildPoints,
         VerdictPoints, JudgePoints, Verdicts
  <1> QED
    BY <1>2, <1>6, <1>7, <1>8

\* A score that the fixture judges eligible beats every promotable one on record.
LEMMA JudgedBeatsAll ==
    ASSUME RecoveryInv, NEW score \in Nat, Judged("step", score)
    PROVE  \A i \in DOMAIN evaluations : evaluations[i].eligible => score < evaluations[i].score
  <1>1. PICK spec : spec = Fixture("step")
    OBVIOUS
  <1>2. spec.keys = {"operations"} /\ spec.comparison = "minimize" /\ spec.strict
    BY <1>1 DEF Fixture, Phase1Ops
  <1>3. score < Baseline
    BY <1>1, <1>2 DEF Judged, Eligible, StrictlyBetter, Better
  <1> DEFINE eligible == {i \in DOMAIN evaluations : evaluations[i].eligible}
  <1> SUFFICES ASSUME NEW i \in eligible
               PROVE  score < evaluations[i].score
    OBVIOUS
  <1>4. PICK last \in eligible : \A j \in eligible : j <= last
    BY DEF RecoveryInv, EvidenceInv
  <1>5. /\ evaluations \in Seq(Evaluations)
        /\ \A j \in eligible : j \in Nat
        /\ \A j \in eligible : evaluations[j] \in Evaluations
    BY DEF RecoveryInv, CoreInv, CarriesInv, StoreTypeOK
  <1>6. \A j \in eligible : evaluations[j].score \in Nat
    BY <1>5, StoreAssumption DEF Evaluations, StoreAssumption
  <1> DEFINE best == CHOOSE j \in eligible : \A k \in eligible : k <= j
  <1>7. best \in eligible /\ \A k \in eligible : k <= best
    BY <1>4
  <1>8. Baseline = evaluations[best].score
    BY <1>4 DEF Baseline
  <1>9. i < best => evaluations[best].score < evaluations[i].score
    BY <1>7 DEF RecoveryInv, EvidenceInv
  <1> HIDE DEF best
  <1>10. i <= best /\ i \in Nat /\ best \in Nat
    BY <1>5, <1>7
  <1>11. evaluations[best].score \in Nat /\ evaluations[i].score \in Nat
    BY <1>6, <1>7
  <1> QED
    BY <1>3, <1>8, <1>9, <1>10, <1>11

\* The child and its observation, and the evaluation against the baseline.
LEMMA ChildContinues ==
    ASSUME RecoveryInv, NEW s \in Sessions, RunChild(s) \/ ObserveChild(s) \/ ReadBaseline(s)
    PROVE  /\ Continues(s, call'[s])
           /\ UNCHANGED <<candidates, evaluations>>
  <1>1. call[s] \in Calls /\ call \in [Sessions -> Calls] /\ Carries(call[s])
    BY DEF RecoveryInv, CoreInv, CarriesInv
  <1>2. UNCHANGED <<candidates, evaluations>>
    BY DEF RunChild, ObserveChild, ReadBaseline, RecordObservation, ledger, evidence
  <1>3. /\ call[s].pc \in ChildPoints /\ call[s].op = "step" /\ InAttempt(call[s])
        /\ Current(call[s]) /\ ~Recorded /\ run.status = "running"
    BY DEF RunChild, ObserveChild, ReadBaseline, ChildPoints, RecoveryInv, AttemptInv, Belongs,
           InAttempt, Knows
  <1>4. run = call[s].state
    BY <1>3 DEF Current, RecoveryInv, SeenInv, Sees
  <1>5. PICK next : next = call'[s]
    OBVIOUS
  <1>6. ASSUME next.op = call[s].op, next.state = call[s].state, next.pc \in ChildPoints,
               next.pc = "record_attempt" =>
                  /\ next.cand = run.steps_used + 1
                  /\ next.eligible => \A i \in DOMAIN evaluations :
                                         evaluations[i].eligible => next.answer < evaluations[i].score
        PROVE  Continues(s, next)
    BY <1>3, <1>6 DEF Continues, Belongs, Knows, InAttempt, Judging, ChildPoints, JudgePoints,
       VerdictPoints, Verdicts
  <1>7. CASE RunChild(s)
    <2>1. \/ next = [At(s, "child_failed") EXCEPT !.note = "child_launch_error"]
          \/ \E reply \in {"fails", "bad_digest"} :
                next = [At(s, "child_result") EXCEPT !.reply = reply]
          \/ \E score \in Scores :
                next = [At(s, "child_result") EXCEPT !.reply = "answers", !.answer = score]
      BY <1>1, <1>5, <1>7 DEF RunChild, Advance
    <2>2. next.op = call[s].op /\ next.state = call[s].state /\ next.pc \in {"child_failed", "child_result"}
      BY <1>1, <2>1 DEF At, Calls
    <2> QED
      BY <1>2, <1>5, <1>6, <2>2 DEF ChildPoints
  <1>8. CASE ObserveChild(s)
    <2>1. \/ next = [At(s, "child_failed") EXCEPT !.reply = "none"]
          \/ next = NoCall
          \/ next = At(s, "read_baseline")
      BY <1>1, <1>5, <1>8 DEF ObserveChild, Advance
    <2>2. CASE next = NoCall
      <3>1. Elsewhere(next)
        BY <2>2 DEF Elsewhere, NoCall, ChildPoints, JudgePoints, VerdictPoints, Verdicts
      <3> QED
        BY <1>2, <1>5, <3>1, ElsewhereContinues
    <2>3. CASE next # NoCall
      <3>1. /\ next.op = call[s].op /\ next.state = call[s].state
            /\ next.pc \in {"child_failed", "read_baseline"}
        BY <1>1, <2>1, <2>3 DEF At, Calls
      <3> QED
        BY <1>2, <1>5, <1>6, <3>1 DEF ChildPoints
    <2> QED
      BY <2>2, <2>3
  <1>9. CASE ReadBaseline(s)
    <2>1. PICK eligible \in BOOLEAN : eligible = Judged(call[s].op, call[s].answer)
      BY DEF Judged, Eligible, Correct, NonRegressing, StrictlyBetter
    <2>2. next = [At(s, "record_attempt") EXCEPT !.cand = call[s].state.steps_used + 1,
                                                 !.reply = "none", !.eligible = eligible]
      BY <1>1, <1>5, <1>9, <2>1 DEF ReadBaseline, Advance
    <2>3. /\ next.op = call[s].op /\ next.state = call[s].state /\ next.pc = "record_attempt"
          /\ next.cand = call[s].state.steps_used + 1 /\ next.eligible = eligible
          /\ next.answer = call[s].answer
      BY <1>1, <2>2 DEF At, Calls
    <2>4. call[s].answer \in Nat
      BY <1>1, <1>9, StoreAssumption DEF ReadBaseline, Carries, StoreAssumption
    <2>5. next.eligible => \A i \in DOMAIN evaluations :
                              evaluations[i].eligible => next.answer < evaluations[i].score
      BY <1>3, <2>1, <2>3, <2>4, JudgedBeatsAll
    <2> QED
      BY <1>2, <1>4, <1>5, <1>6, <2>3, <2>5 DEF ChildPoints
  <1> QED
    BY <1>7, <1>8, <1>9

\* The reads of reconcile, and what it concludes from them.
LEMMA JudgeContinues ==
    ASSUME RecoveryInv, NEW s \in Sessions, ReadCandidates(s) \/ ReadEvaluations(s) \/ ReadEvents(s)
    PROVE  /\ Continues(s, call'[s])
           /\ UNCHANGED <<candidates, evaluations>>
  <1>1. call[s] \in Calls /\ call \in [Sessions -> Calls]
    BY DEF RecoveryInv, CoreInv, CarriesInv
  <1>2. UNCHANGED <<candidates, evaluations>>
    BY DEF ReadCandidates, ReadEvaluations, ReadEvents, ledger, evidence
  <1>3. /\ call[s].op = "reconcile" /\ Judging(call[s])
        /\ Current(call[s]) => Knows(call[s])
    BY DEF ReadCandidates, ReadEvaluations, ReadEvents, JudgePoints, RecoveryInv, AttemptInv,
           Belongs, Judging
  <1>4. PICK next : next = call'[s]
    OBVIOUS
  <1>5. CASE ReadCandidates(s)
    <2>1. next = [At(s, "read_evaluations") EXCEPT
                     !.cand = IF candidates = <<>> THEN None ELSE candidates[Len(candidates)]]
      BY <1>1, <1>4, <1>5 DEF ReadCandidates, Advance
    <2>2. /\ next.op = call[s].op /\ next.state = call[s].state /\ next.pc = "read_evaluations"
          /\ LastCandidate(next)
      BY <1>1, <2>1 DEF At, Calls, LastCandidate
    <2> QED
      BY <1>2, <1>3, <1>4, <2>2 DEF Continues, Belongs, Knows, InAttempt, Judging, Current,
         ChildPoints, JudgePoints, VerdictPoints, Verdicts
  <1>6. CASE ReadEvaluations(s)
    <2>1. PICK eligible \in BOOLEAN :
             eligible = (evaluations # <<>> /\ evaluations[Len(evaluations)].eligible)
      OBVIOUS
    <2>2. next = [At(s, "read_events") EXCEPT !.evals = Len(evaluations), !.eligible = eligible]
      BY <1>1, <1>4, <1>6, <2>1 DEF ReadEvaluations, Advance
    <2>3. /\ next.op = call[s].op /\ next.state = call[s].state /\ next.pc = "read_events"
          /\ next.evals = Len(evaluations) /\ next.cand = call[s].cand
          /\ next.eligible = eligible
      BY <1>1, <2>2 DEF At, Calls
    <2>4. LastEvaluation(next)
      <3>1. evaluations \in Seq(Evaluations)
        BY DEF RecoveryInv, CoreInv, CarriesInv, StoreTypeOK
      <3>2. evaluations # <<>> => evaluations[Len(evaluations)] \in Evaluations
        BY <3>1
      <3> QED
        BY <2>1, <2>3, <3>2 DEF LastEvaluation, Evaluations
    <2>5. Current(next) => LastCandidate(next)
      BY <1>3, <1>6, <2>3 DEF ReadEvaluations, Current, Knows, LastCandidate
    <2> QED
      BY <1>2, <1>3, <1>4, <2>3, <2>4, <2>5 DEF Continues, Belongs, Knows, InAttempt, Judging,
         Current, ChildPoints, JudgePoints, VerdictPoints, Verdicts
  <1>7. CASE ReadEvents(s)
    <2>1. /\ journal \in Seq(JournalRows) /\ evaluations \in Seq(Evaluations)
          /\ call[s].evals \in Nat
      BY <1>1 DEF RecoveryInv, CoreInv, CarriesInv, StoreTypeOK, Calls
    <2>2. /\ Cardinality(Applied) \in Nat /\ AppliedEvaluations = Cardinality(Applied)
          /\ Len(evaluations) \in Nat
      BY <2>1, AppliedFinite
    <2>3. Len(evaluations) = Cardinality(Applied) + (IF Recorded THEN 1 ELSE 0)
      BY DEF RecoveryInv, EvidenceInv
    <2>4. Current(call[s]) => /\ LastCandidate(call[s]) /\ LastEvaluation(call[s])
                              /\ call[s].evals > AppliedEvaluations <=> Recorded
      BY <1>3, <1>7, <2>2, <2>3 DEF ReadEvents, Knows
    <2>5. next = NoCall \/ next = Decision(call[s])
      BY <1>1, <1>4, <1>7 DEF ReadEvents, Advance
    <2>6. CASE next = NoCall
      <3>1. Elsewhere(next)
        BY <2>6 DEF Elsewhere, NoCall, ChildPoints, JudgePoints, VerdictPoints, Verdicts
      <3> QED
        BY <1>2, <1>4, <3>1, ElsewhereContinues
    <2>7. CASE next = Decision(call[s]) /\ call[s].evals > AppliedEvaluations
      <3> DEFINE pc == IF call[s].state.status = "running" THEN "candidate_ready"
                       ELSE Verdict(call[s])
      <3>1. next = [call[s] EXCEPT !.evals = 0, !.pc = pc]
        BY <2>7 DEF Decision
      <3>2. /\ next.op = call[s].op /\ next.state = call[s].state /\ next.pc = pc
            /\ next.cand = call[s].cand /\ next.eligible = call[s].eligible
        BY <1>1, <3>1 DEF Calls
      <3>3. next.pc \in VerdictPoints /\ (next.pc \in Verdicts => next.pc = Verdict(next))
        BY <3>2 DEF Verdict, VerdictPoints, Verdicts
      <3>4. Current(next) => /\ Current(call[s]) /\ Recorded
                             /\ LastCandidate(next) /\ LastEvaluation(next)
        BY <2>4, <2>7, <3>2 DEF Current, LastCandidate, LastEvaluation
      <3> QED
        BY <1>2, <1>3, <1>4, <3>2, <3>3, <3>4 DEF Continues, Belongs, Knows, InAttempt, Judging,
           Current, ChildPoints, JudgePoints, VerdictPoints, Verdicts
    <2>8. CASE next = Decision(call[s]) /\ ~(call[s].evals > AppliedEvaluations)
      <3> DEFINE pc == IF call[s].state.status = "running" THEN "interrupt"
                       ELSE "evaluation_missing"
      <3> DEFINE note == IF call[s].state.status = "running" THEN "interrupted"
                         ELSE "evaluation_missing"
      <3>1. next = [NoCall EXCEPT !.op = call[s].op, !.state = call[s].state, !.pc = pc,
                                  !.note = note]
        BY <2>8 DEF Decision
      <3>2. /\ next.op = call[s].op /\ next.state = call[s].state /\ next.pc = pc
        BY <3>1 DEF NoCall
      <3>3. next.pc \in {"interrupt", "evaluation_missing"}
        BY <3>2
      <3>4. Current(next) => Current(call[s]) /\ ~Recorded
        BY <2>4, <2>8, <3>2 DEF Current
      <3> QED
        BY <1>2, <1>3, <1>4, <3>2, <3>3, <3>4 DEF Continues, Belongs, Knows, InAttempt, Judging,
           Current, ChildPoints, JudgePoints, VerdictPoints, Verdicts
    <2> QED
      BY <2>5, <2>6, <2>7, <2>8
  <1> QED
    BY <1>5, <1>6, <1>7

-----------------------------------------------------------------------------

\* A step that commits nothing has the outcome the call it leaves behind tells of.
LEMMA OutcomeIsNext ==
    ASSUME CarriesInv, NEW s \in Sessions, \E next : Outcome(s, next)
    PROVE  Outcome(s, call'[s])
  BY OthersStay DEF Outcome

LEMMA RecoveryStep == Overlap = FALSE /\ RecoveryInv /\ [Next]_vars => RecoveryInv'
  <1> SUFFICES ASSUME Overlap = FALSE, RecoveryInv, [Next]_vars
               PROVE  RecoveryInv'
    OBVIOUS
  <1>1. CoreInv' /\ SeenInv'
    BY CoreStep, SeenStep DEF RecoveryInv
  <1>2. CASE UNCHANGED vars
    <2>1. EvidenceInv' /\ AttemptInv'
      BY <1>2 DEF vars, ledger, evidence, RecoveryInv, EvidenceInv, AttemptInv, Recorded, Applied,
         Belongs, InAttempt, Judging, Current, Knows, LastCandidate, LastEvaluation
    <2>2. PromotionInv'
      BY <1>2 DEF vars, ledger, evidence, RecoveryInv, PromotionInv, PromotesThisAttempt,
         BestIsEligible, EvidenceAccounted, MovesBy, Verdict
    <2> QED
      BY <1>1, <2>1, <2>2 DEF RecoveryInv
  <1>3. ASSUME NEW s \in Sessions, Commit(s)
        PROVE  RecoveryInv'
    BY <1>1, <1>3, EvidenceCommit, PromotionCommit, AttemptCommit DEF RecoveryInv
  <1>4. ASSUME NEW s \in Sessions, RecordStepAttempt(s)
        PROVE  RecoveryInv'
    BY <1>1, <1>4, RecordEvidence, RecordPromotion, RecordAttemptInv DEF RecoveryInv
  <1>5. ASSUME NEW s \in Sessions, \E next : Outcome(s, next),
               Continues(s, call'[s]), UNCHANGED <<candidates, evaluations>>
        PROVE  RecoveryInv'
    <2>1. PICK next : next = call'[s] /\ Outcome(s, next)
      BY <1>5, OutcomeIsNext DEF RecoveryInv, CoreInv
    <2>2. EvidenceInv' /\ PromotionInv'
      BY <1>5, <2>1, QuietJournal
    <2>3. AttemptInv'
      BY <1>5, <2>1, QuietAttempt
    <2> QED
      BY <1>1, <2>2, <2>3 DEF RecoveryInv
  <1>6. ASSUME NEW s \in Sessions, Work(s) \/ BeginCancel(s) \/ Vanish(s)
        PROVE  RecoveryInv'
    BY <1>5, <1>6, BeginOutcome, BeginContinues, LeavingContinues DEF RecoveryInv, CoreInv
  <1>7. ASSUME NEW s \in Sessions, Refuse(s) \/ Conflict(s) \/ Observe(s)
        PROVE  RecoveryInv'
    BY <1>5, <1>7, EndOutcome, LeavingContinues DEF RecoveryInv, CoreInv
  <1>8. ASSUME NEW s \in Sessions, RunChild(s) \/ ObserveChild(s) \/ ReadBaseline(s)
        PROVE  RecoveryInv'
    BY <1>5, <1>8, ChildOutcome, ResultOutcome, AttemptOutcome, ChildContinues
    DEF RecoveryInv, CoreInv
  <1>9. ASSUME NEW s \in Sessions, ReadCandidates(s) \/ ReadEvaluations(s) \/ ReadEvents(s)
        PROVE  RecoveryInv'
    BY <1>5, <1>9, ReadOutcome, DecisionOutcome, JudgeContinues DEF RecoveryInv, CoreInv
  <1>10. ASSUME NEW s \in Sessions,
                \/ ReadAdvice(s) \/ ReadMemory(s) \/ RunSupervisor(s) \/ RecordSupervisorAdvice(s)
                \/ RefreshRun(s) \/ RefreshMemory(s) \/ RefreshAdvice(s) \/ SaveRefreshed(s)
         PROVE  RecoveryInv'
    BY <1>5, <1>10, AdviceOutcome, MemoryOutcome, SupervisorOutcome, RefreshOutcome, SaveOutcome,
       LeavingContinues DEF RecoveryInv, CoreInv
  <1> QED
    BY <1>2, <1>3, <1>4, <1>6, <1>7, <1>8, <1>9, <1>10 DEF Next, Proceed

LEMMA RecoveryInit == Init => RecoveryInv
  <1> SUFFICES ASSUME Init
               PROVE  RecoveryInv
    OBVIOUS
  <1>1. CoreInv /\ SeenInv
    BY InitOpened, CoreInit, SeenInit
  <1>2. \A s \in Sessions : call[s].pc \in {"approve", "idle"}
    BY DEF Init, NoCall
  <1>3. /\ candidates = <<>> /\ evaluations = <<>> /\ Len(journal) = 1
        /\ journal = <<ObservationRow("run_created", NewRun)>>
        /\ run = NewRun
    BY DEF Init, StoreInit
  <1>4. /\ run.status = "created" /\ run.best = None /\ run.steps_used = 0
        /\ \A i \in DOMAIN journal : /\ journal[i].event = "run_created" /\ ~journal[i].moves
                                     /\ journal[i].state = run
    BY <1>3 DEF NewRun, ObservationRow
  <1>5. Applied = {} /\ \A event : MovesBy(event) = {}
    BY <1>4 DEF Applied, MovesBy, Verdicts
  <1>6. EvidenceInv
    BY <1>3, <1>4, <1>5, FS_EmptySet DEF EvidenceInv, Recorded
  <1>7. PromotionInv
    BY <1>3, <1>4, <1>5 DEF PromotionInv, PromotesThisAttempt, BestIsEligible, EvidenceAccounted
  <1>8. ASSUME NEW s \in Sessions
        PROVE  Belongs(call[s]) /\ ~InAttempt(call[s]) /\ Knows(call[s])
    <2>1. Elsewhere(call[s])
      BY <1>2, <1>8 DEF Elsewhere, ChildPoints, JudgePoints, VerdictPoints, Verdicts
    <2> QED
      BY <2>1, ElsewhereKnows
  <1>9. AttemptInv
    BY <1>8 DEF AttemptInv
  <1> QED
    BY <1>1, <1>6, <1>7, <1>9 DEF RecoveryInv

LEMMA RecoveryHolds == ASSUME Overlap = FALSE PROVE Spec => []RecoveryInv
  <1>1. RecoveryInv /\ [Next]_vars => RecoveryInv'
    BY RecoveryStep
  <1> QED
    BY <1>1, RecoveryInit, PTL DEF Spec

\* Whatever sessions race, crash and replay, what a run promotes has an evaluation on
\* record that found it eligible, as long as no reconcile overlaps a live attempt.
THEOREM Phase2BestIsEligible == ASSUME Overlap = FALSE PROVE Spec => []BestIsEligible
  <1>1. RecoveryInv => BestIsEligible
    BY DEF RecoveryInv, PromotionInv
  <1> QED
    BY <1>1, RecoveryHolds, PTL

\* An attempt that step or reconcile ends with a promotion promotes its own candidate, not
\* that of an earlier attempt.
THEOREM Phase2PromotesThisAttempt == ASSUME Overlap = FALSE PROVE Spec => []PromotesThisAttempt
  <1>1. RecoveryInv => PromotesThisAttempt
    BY DEF RecoveryInv, PromotionInv
  <1> QED
    BY <1>1, RecoveryHolds, PTL

\* Each candidate that step or reconcile promotes scores strictly below those promoted
\* before it, also when its verdict is replayed after a crash.
THEOREM Phase2BestImproves == ASSUME Overlap = FALSE PROVE Spec => []BestImproves
  <1>1. RecoveryInv => BestImproves
    <2> SUFFICES ASSUME RecoveryInv,
                        NEW i \in MovesBy("evaluation_eligible"),
                        NEW j \in MovesBy("evaluation_eligible"), i < j,
                        NEW a \in DOMAIN evaluations, NEW b \in DOMAIN evaluations,
                        evaluations[a].candidate = journal[i].candidate,
                        evaluations[b].candidate = journal[j].candidate
                 PROVE  evaluations[b].score < evaluations[a].score
      BY DEF BestImproves
    <2>1. evaluations[a].eligible /\ evaluations[b].eligible
      BY DEF RecoveryInv, PromotionInv
    <2>2. evaluations[a].candidate < evaluations[b].candidate
      BY DEF RecoveryInv, PromotionInv, PromotesThisAttempt
    <2>3. /\ evaluations[a].candidate \in Int /\ evaluations[b].candidate \in Int
          /\ a \in Nat /\ b \in Nat
      <3>1. evaluations \in Seq(Evaluations) /\ run.steps_used \in Nat
        BY DEF RecoveryInv, EvidenceInv, CoreInv, CarriesInv, StoreTypeOK, RunStates
      <3>2. /\ evaluations[a].candidate \in 1 .. run.steps_used + 1
            /\ evaluations[b].candidate \in 1 .. run.steps_used + 1
        BY DEF RecoveryInv, EvidenceInv
      <3> QED
        BY <3>1, <3>2
    <2>4. a < b
      BY <2>2, <2>3 DEF RecoveryInv, EvidenceInv
    <2> QED
      BY <2>1, <2>4 DEF RecoveryInv, EvidenceInv
  <1> QED
    BY <1>1, RecoveryHolds, PTL

\* No evaluation that record_attempt put on record is lost by a crash or applied to another
\* attempt: the attempt it belongs to ended with its verdict.
THEOREM Phase2EvidenceAccounted == ASSUME Overlap = FALSE PROVE Spec => []EvidenceAccounted
  <1>1. RecoveryInv => EvidenceAccounted
    BY DEF RecoveryInv, PromotionInv
  <1> QED
    BY <1>1, RecoveryHolds, PTL

-----------------------------------------------------------------------------
\* Advice on record is applied.

\* A call of supervise that has started its supervisor.
InSupervision(c) ==
    /\ c.op = "supervise"
    /\ c.pc \in {"run_supervisor", "record_advice", "supervisor_applied", "supervisor_failed"}

\* A call of reconcile that is to decide a supervision.
Settling(c) ==
    /\ c.op = "reconcile"
    /\ c.pc \in {"read_advice", "supervisor_applied", "supervisor_failed"}

\* Advice is on record only from the one supervision, and no call that is about to fail it
\* does so over its advice.
DiscardInv ==
    /\ advice # <<>> => MovesBy("start_supervisor") # {}
    /\ \A s \in Sessions :
          /\ call[s].pc \in {"run_supervisor", "record_advice"} => call[s].op = "supervise"
          /\ call[s].pc \in {"supervisor_applied", "supervisor_failed"} =>
                call[s].op \in {"supervise", "reconcile"}
          /\ InSupervision(call[s]) => MovesBy("start_supervisor") # {}
          /\ InSupervision(call[s]) /\ call[s].pc # "supervisor_applied" => advice = <<>>
          /\ call[s].pc = "supervisor_failed" /\ Current(call[s]) => advice = <<>>
    /\ \A s, t \in Sessions :
          s # t /\ InSupervision(call[s]) =>
              ~InSupervision(call[t]) /\ (Settling(call[t]) => ~Current(call[t]))

LEMMA DiscardInit == Init => DiscardInv
  <1> SUFFICES ASSUME Init
               PROVE  DiscardInv
    OBVIOUS
  <1>1. \A s \in Sessions : call[s].pc \in {"approve", "idle"}
    BY DEF Init, NoCall
  <1>2. advice = <<>>
    BY DEF Init, StoreInit
  <1> QED
    BY <1>1, <1>2 DEF DiscardInv, InSupervision, Settling

\* Points that are no part of a supervision.
Apart(c) ==
    c.pc \notin {"read_advice", "run_supervisor", "record_advice", "supervisor_applied",
                 "supervisor_failed"}

LEMMA DiscardCommit ==
    ASSUME CoreInv, SeenInv, SupervisionInv, DiscardInv, NEW s \in Sessions, Commit(s)
    PROVE  DiscardInv'
  <1>1. /\ call'[s] = AfterCommit(s)
        /\ \A t \in Sessions : t # s => call'[t] = call[t]
        /\ call[s] \in Calls
        /\ advice' = advice
    BY OthersStay DEF CoreInv, CarriesInv, Commit, Transition, evidence
  <1>2. /\ run = call[s].state
        /\ run'.revision = run.revision + 1 /\ run.revision \in Nat
    BY CommitRun DEF CoreInv, CarriesInv, StoreTypeOK, RunStates
  <1>3. \A t \in Sessions : /\ call[t].state.revision \in Nat
                            /\ call[t].state.revision <= run.revision
    BY DEF CoreInv, CarriesInv, Calls, RunStates, SeenInv, Sees
  <1>4. \A t \in Sessions : t # s => call'[t].state.revision # run'.revision
    BY <1>1, <1>2, <1>3
  <1>5. MovesBy("start_supervisor") # {} => MovesBy("start_supervisor")' # {}
    BY MovesCommit
  <1>6. CASE call[s].pc = "start_supervisor"
    <2>1. Asks(call[s]) /\ call[s].op = "supervise"
      BY <1>6 DEF CoreInv, CarriesInv, Carries, Asks
    <2>2. MovesBy("start_supervisor") = {} /\ MovesBy("start_supervisor")' # {}
      BY <1>2, <1>6, <2>1, MovesCommit DEF SupervisionInv
    <2>3. advice = <<>> /\ \A t \in Sessions : ~InSupervision(call[t])
      BY <2>2 DEF DiscardInv
    <2>4. call'[s].pc = "run_supervisor" /\ call'[s].op = "supervise"
      <3>1. PICK c : c = [call[s] EXCEPT !.state = run']
        OBVIOUS
      <3>2. c.pc = call[s].pc /\ c.op = call[s].op /\ c \in Calls
        BY <1>1, <3>1, CommitOutcome DEF CoreInv, Calls
      <3>3. AfterCommit(s) = [c EXCEPT !.pc = "run_supervisor"]
        BY <1>6, <3>1, <3>2 DEF AfterCommit
      <3> QED
        BY <1>1, <2>1, <3>2, <3>3 DEF Calls
    <2> QED
      BY <1>1, <1>4, <2>2, <2>3, <2>4 DEF DiscardInv, InSupervision, Settling, Current
  <1>7. CASE call[s].pc # "start_supervisor"
    <2>1. call'[s].pc \notin {"read_advice", "run_supervisor", "record_advice",
                              "supervisor_applied", "supervisor_failed"}
      BY <1>1, <1>7, CommitOutcome DEF CoreInv, CommitPoints
    <2> QED
      BY <1>1, <1>4, <1>5, <2>1 DEF DiscardInv, InSupervision, Settling, Current
  <1> QED
    BY <1>6, <1>7

\* What a call that commits nothing may go on to, for the supervision's sake.
Supervises(s, next) ==
    \/ Apart(next)
    \/ next.op = "supervise" /\ next.pc = "read_advice"
    \/ /\ InSupervision(call[s]) /\ call[s].pc # "supervisor_applied"
       /\ InSupervision(next)
    \/ /\ Settling(next)
       /\ next.pc = "supervisor_failed" => advice = <<>>
       /\ Current(next) => \A t \in Sessions \ {s} : ~InSupervision(call[t])

LEMMA DiscardOutcome ==
    ASSUME CoreInv, DiscardInv, NEW s \in Sessions, NEW next, Outcome(s, next),
           Supervises(s, next), advice' = advice
    PROVE  DiscardInv'
  <1>1. /\ call'[s] = next
        /\ \A t \in Sessions : t # s => call'[t] = call[t]
        /\ run' = run
        /\ MovesBy("start_supervisor")' = MovesBy("start_supervisor")
    BY OthersStay, OutcomeRun, MovesOutcome DEF CoreInv, Outcome
  <1>2. CASE Apart(next)
    BY <1>1, <1>2 DEF Apart, DiscardInv, InSupervision, Settling, Current
  <1>3. CASE next.op = "supervise" /\ next.pc = "read_advice"
    BY <1>1, <1>3 DEF DiscardInv, InSupervision, Settling, Current
  <1>4. CASE InSupervision(call[s]) /\ call[s].pc # "supervisor_applied" /\ InSupervision(next)
    BY <1>1, <1>4 DEF DiscardInv, InSupervision, Settling, Current
  <1>5. CASE /\ Settling(next)
             /\ next.pc = "supervisor_failed" => advice = <<>>
             /\ Current(next) => \A t \in Sessions \ {s} : ~InSupervision(call[t])
    BY <1>1, <1>5 DEF DiscardInv, InSupervision, Settling, Current
  <1> QED
    BY <1>2, <1>3, <1>4, <1>5 DEF Supervises

\* Only the supervision's own call is there when its advice is recorded.
LEMMA DiscardRecord ==
    ASSUME CoreInv, DiscardInv, NEW s \in Sessions, RecordSupervisorAdvice(s)
    PROVE  DiscardInv'
  <1>1. \E next : Outcome(s, next)
    BY SupervisorOutcome DEF CoreInv
  <1>2. /\ \A t \in Sessions : t # s => call'[t] = call[t]
        /\ run' = run
        /\ MovesBy("start_supervisor")' = MovesBy("start_supervisor")
    BY <1>1, OthersStay, OutcomeRun, MovesOutcome DEF CoreInv, Outcome
  <1>3. InSupervision(call[s])
    BY DEF RecordSupervisorAdvice, DiscardInv, InSupervision
  <1>4. call'[s].op = "supervise" /\ call'[s].pc = "supervisor_applied"
    BY <1>3, NextPoint DEF CoreInv, InSupervision
  <1>5. \A t \in Sessions : t # s => ~InSupervision(call[t]) /\ (Settling(call[t]) => ~Current(call[t]))
    BY <1>3 DEF DiscardInv
  <1>6. MovesBy("start_supervisor") # {}
    BY <1>3 DEF DiscardInv
  <1> QED
    BY <1>2, <1>4, <1>5, <1>6 DEF DiscardInv, InSupervision, Settling, Current

LEMMA BeginSupervises ==
    ASSUME CoreInv, Overlap = FALSE, NEW s \in Sessions, Work(s) \/ BeginCancel(s)
    PROVE  Supervises(s, call'[s]) /\ advice' = advice
  <1>1. call \in [Sessions -> Calls]
    BY DEF CoreInv, CarriesInv
  <1>2. PICK op, pc : /\ Begin(s, op, pc)
                      /\ \/ pc \in {"start_step", "read_candidates", "cancel"}
                         \/ op = "supervise" /\ pc = "read_advice"
                         \/ /\ op = "reconcile" /\ pc = "read_advice"
                            /\ \A t \in Sessions \ {s} : ~Driving(t)
    BY DEF Work, BeginStep, BeginReconcile, BeginSupervise, BeginCancel
  <1>3. call'[s] = [NoCall EXCEPT !.op = op, !.pc = pc, !.state = run] /\ advice' = advice
    BY <1>1, <1>2 DEF Begin, Advance, ledger, evidence
  <1>4. call'[s].op = op /\ call'[s].pc = pc
    BY <1>3 DEF NoCall
  <1>5. (\A t \in Sessions \ {s} : ~Driving(t)) => \A t \in Sessions \ {s} : ~InSupervision(call[t])
    BY DEF Driving, InSupervision
  <1> QED
    BY <1>2, <1>3, <1>4, <1>5 DEF Supervises, Apart, Settling

LEMMA StepSupervises ==
    ASSUME CoreInv, DiscardInv, NEW s \in Sessions,
           \/ Refuse(s) \/ Conflict(s) \/ Vanish(s) \/ Observe(s)
           \/ ReadAdvice(s) \/ ReadMemory(s) \/ RunSupervisor(s)
           \/ RefreshRun(s) \/ RefreshMemory(s) \/ RefreshAdvice(s) \/ SaveRefreshed(s)
    PROVE  Supervises(s, call'[s]) /\ advice' = advice
  <1>1. advice' = advice
    BY DEF Refuse, Conflict, Vanish, Observe, ReadAdvice, ReadMemory, RunSupervisor,
       RefreshRun, RefreshMemory, RefreshAdvice, SaveRefreshed,
       RecordObservation, SaveMemory, ledger, evidence
  <1>2. CASE ReadAdvice(s)
    <2>1. call[s].pc = "read_advice"
      BY <1>2 DEF ReadAdvice
    <2>2. /\ call'[s].op = call[s].op /\ call'[s].state = call[s].state
          /\ \/ /\ call[s].op = "reconcile"
                /\ \/ call'[s].pc = "supervisor_applied"
                   \/ call'[s].pc = "supervisor_failed" /\ advice = <<>>
             \/ call'[s].pc \in {"complete", "read_memory"}
      BY <1>2, NextPoint DEF CoreInv
    <2>3. ASSUME Settling(call[s]), Current(call[s])
          PROVE  \A t \in Sessions \ {s} : ~InSupervision(call[t])
      BY <2>3 DEF DiscardInv
    <2> QED
      BY <1>1, <2>1, <2>2, <2>3 DEF Supervises, Apart, Settling, Current
  <1>3. CASE RunSupervisor(s)
    <2>1. InSupervision(call[s]) /\ call[s].pc = "run_supervisor"
      BY <1>3 DEF RunSupervisor, DiscardInv, InSupervision
    <2>2. InSupervision(call'[s])
      BY <1>3, <2>1, NextPoint DEF CoreInv, InSupervision
    <2> QED
      BY <1>1, <2>1, <2>2 DEF Supervises
  <1>4. CASE ~ReadAdvice(s) /\ ~RunSupervisor(s)
    <2>1. call'[s].pc \in {"idle", "refresh", "start_supervisor"} \cup Refreshing
      BY <1>4, NextPoint DEF CoreInv
    <2>2. Apart(call'[s])
      BY <2>1 DEF Apart, Refreshing
    <2> QED
      BY <1>1, <2>2 DEF Supervises
  <1> QED
    BY <1>2, <1>3, <1>4

\* An attempt's steps stay within attempts.
LEMMA AttemptSupervises ==
    ASSUME CoreInv, NEW s \in Sessions,
           \/ RunChild(s) \/ ObserveChild(s) \/ ReadBaseline(s) \/ RecordStepAttempt(s)
           \/ ReadCandidates(s) \/ ReadEvaluations(s) \/ ReadEvents(s)
    PROVE  Supervises(s, call'[s]) /\ advice' = advice
  <1>1. advice' = advice
    BY DEF RunChild, ObserveChild, ReadBaseline, RecordStepAttempt, ReadCandidates,
       ReadEvaluations, ReadEvents, RecordObservation, RecordAttempt, ledger, evidence
  <1>2. call[s] \in Calls /\ call \in [Sessions -> Calls]
    BY DEF CoreInv, CarriesInv
  <1> DEFINE Pcs == {"idle", "read_evaluations", "read_events", "interrupt", "evaluation_missing",
                     "child_failed", "child_result", "read_baseline", "record_attempt",
                     "candidate_ready", "evaluation_eligible", "evaluation_ineligible"}
  <1>3. CASE RunChild(s)
    <2>1. \/ call'[s] = [At(s, "child_failed") EXCEPT !.note = "child_launch_error"]
          \/ \E reply \in {"fails", "bad_digest"} :
                call'[s] = [At(s, "child_result") EXCEPT !.reply = reply]
          \/ \E score \in Scores :
                call'[s] = [At(s, "child_result") EXCEPT !.reply = "answers", !.answer = score]
      BY <1>2, <1>3 DEF RunChild, Advance
    <2>2. call'[s].pc \in Pcs
      BY <1>2, <2>1 DEF At, Calls
    <2> QED
      BY <1>1, <2>2 DEF Supervises, Apart
  <1>4. CASE ObserveChild(s)
    <2>1. \/ call'[s] = [At(s, "child_failed") EXCEPT !.reply = "none"]
          \/ call'[s] = NoCall
          \/ call'[s] = At(s, "read_baseline")
      BY <1>2, <1>4 DEF ObserveChild, Advance
    <2>2. NoCall.pc \in Pcs
      BY DEF NoCall
    <2>3. call'[s] # NoCall => call'[s].pc \in Pcs
      BY <1>2, <2>1 DEF At, Calls
    <2> QED
      BY <1>1, <2>2, <2>3 DEF Supervises, Apart
  <1>5. CASE ReadBaseline(s) \/ RecordStepAttempt(s) \/ ReadCandidates(s) \/ ReadEvaluations(s)
    <2>1. \A cand, reply, eligible :
             [At(s, "record_attempt") EXCEPT !.cand = cand, !.reply = reply,
                                             !.eligible = eligible].pc = "record_attempt"
      BY <1>2 DEF At, Calls
    <2>2. \A cand, evals, eligible, answer :
             /\ [At(s, "read_evaluations") EXCEPT !.cand = cand].pc = "read_evaluations"
             /\ [At(s, "read_events") EXCEPT !.evals = evals,
                                             !.eligible = eligible].pc = "read_events"
             /\ [At(s, "candidate_ready") EXCEPT !.answer = answer].pc = "candidate_ready"
      BY <1>2 DEF At, Calls
    <2>3. call'[s].pc \in {"record_attempt", "read_evaluations", "read_events",
                           "candidate_ready"}
      <3>1. ASSUME ReadBaseline(s)
            PROVE  \E next : Advance(s, next) /\ next.pc = "record_attempt"
        <4> DEFINE next == [At(s, "record_attempt") EXCEPT
                               !.cand = call[s].state.steps_used + 1, !.reply = "none",
                               !.eligible = Judged(call[s].op, call[s].answer)]
        <4>1. Advance(s, next)
          BY <3>1 DEF ReadBaseline
        <4>2. next.pc = "record_attempt"
          BY <2>1
        <4> QED
          BY <4>1, <4>2
      <3>2. RecordStepAttempt(s) =>
               \E next : Advance(s, next) /\ next.pc = "candidate_ready"
        BY <2>2, Zenon DEF RecordStepAttempt
      <3>3. ReadCandidates(s) => \E next : Advance(s, next) /\ next.pc = "read_evaluations"
        BY <2>2, Zenon DEF ReadCandidates
      <3>4. ReadEvaluations(s) => \E next : Advance(s, next) /\ next.pc = "read_events"
        BY <2>2, Zenon DEF ReadEvaluations
      <3>5. \A next : Advance(s, next) => call'[s] = next
        BY <1>2 DEF Advance
      <3> QED
        BY <1>5, <3>1, <3>2, <3>3, <3>4, <3>5, Zenon
    <2> QED
      BY <1>1, <2>3 DEF Supervises, Apart
  <1>6. CASE ReadEvents(s)
    <2>1. call'[s] = NoCall \/ call'[s] = Decision(call[s])
      BY <1>2, <1>6 DEF ReadEvents, Advance
    <2>2. NoCall.pc \in Pcs
      BY DEF NoCall
    <2>3. Verdict(call[s]) \in Pcs
      BY DEF Verdict
    <2>4. Decision(call[s]).pc \in Pcs
      BY <1>2, <2>3 DEF Decision, NoCall, Calls
    <2> QED
      BY <1>1, <2>1, <2>2, <2>4 DEF Supervises, Apart
  <1> QED
    BY <1>3, <1>4, <1>5, <1>6

DiscardCore == CoreInv /\ SeenInv /\ SupervisionInv /\ DiscardInv

LEMMA DiscardStep == Overlap = FALSE /\ DiscardCore /\ [Next]_vars => DiscardInv'
  <1> SUFFICES ASSUME Overlap = FALSE, DiscardCore, [Next]_vars
               PROVE  DiscardInv'
    OBVIOUS
  <1>1. CASE UNCHANGED vars
    BY <1>1 DEF vars, ledger, evidence, DiscardCore, DiscardInv, InSupervision, Settling, Current,
       MovesBy
  <1>2. ASSUME NEW s \in Sessions, Commit(s)
        PROVE  DiscardInv'
    BY <1>2, DiscardCommit DEF DiscardCore
  <1>3. ASSUME NEW s \in Sessions, RecordSupervisorAdvice(s)
        PROVE  DiscardInv'
    BY <1>3, DiscardRecord DEF DiscardCore
  <1>4. ASSUME NEW s \in Sessions, \E next : Outcome(s, next),
               Supervises(s, call'[s]) /\ advice' = advice
        PROVE  DiscardInv'
    <2>1. PICK next : next = call'[s] /\ Outcome(s, next)
      BY <1>4, OutcomeIsNext DEF DiscardCore, CoreInv
    <2> QED
      BY <1>4, <2>1, DiscardOutcome DEF DiscardCore
  <1>5. ASSUME NEW s \in Sessions, Work(s) \/ BeginCancel(s)
        PROVE  DiscardInv'
    BY <1>4, <1>5, BeginOutcome, BeginSupervises DEF DiscardCore, CoreInv
  <1>6. ASSUME NEW s \in Sessions, Refuse(s) \/ Conflict(s) \/ Vanish(s) \/ Observe(s)
        PROVE  DiscardInv'
    BY <1>4, <1>6, BeginOutcome, EndOutcome, StepSupervises DEF DiscardCore, CoreInv
  <1>7. ASSUME NEW s \in Sessions,
               \/ ReadAdvice(s) \/ ReadMemory(s) \/ RunSupervisor(s)
               \/ RefreshRun(s) \/ RefreshMemory(s) \/ RefreshAdvice(s) \/ SaveRefreshed(s)
        PROVE  DiscardInv'
    BY <1>4, <1>7, AdviceOutcome, MemoryOutcome, SupervisorOutcome, RefreshOutcome, SaveOutcome,
       StepSupervises DEF DiscardCore, CoreInv
  <1>8. ASSUME NEW s \in Sessions,
               \/ RunChild(s) \/ ObserveChild(s) \/ ReadBaseline(s) \/ RecordStepAttempt(s)
               \/ ReadCandidates(s) \/ ReadEvaluations(s) \/ ReadEvents(s)
        PROVE  DiscardInv'
    BY <1>4, <1>8, ChildOutcome, ResultOutcome, AttemptOutcome, ReadOutcome, DecisionOutcome,
       AttemptSupervises DEF DiscardCore, CoreInv
  <1> QED
    BY <1>1, <1>2, <1>3, <1>5, <1>6, <1>7, <1>8 DEF Next, Proceed

\* Neither supervise nor reconcile fails a supervision whose advice is on record, whatever
\* crash came between the record and the transition that applies it.
THEOREM Phase2AdviceNotDiscarded == ASSUME Overlap = FALSE PROVE Spec => AdviceNotDiscarded
  <1>1. DiscardCore /\ [Next]_vars =>
           [run.status = "supervising" /\ run'.status \in {"succeeded", "no_result"}
            => advice = <<>>]_vars
    <2> SUFFICES ASSUME DiscardCore, Next, run.status = "supervising",
                        run'.status \in {"succeeded", "no_result"}
                 PROVE  advice = <<>>
      OBVIOUS
    <2>1. PICK s \in Sessions : Commit(s)
      BY StepOutcome, OutcomeRun DEF DiscardCore, CoreInv
    <2>2. PICK event \in Events, cand \in Candidates \cup {None} :
             /\ event = call[s].pc
             /\ Accepts(run, event, cand, 0)
             /\ run' = Apply(run, event, cand, 0)
      BY <2>1, CommitOutcome DEF DiscardCore, CoreInv, Commit, Transition
    <2>3. event \in {"supervisor_applied", "supervisor_failed", "cancel"}
      BY <2>2 DEF Accepts, Allowed
    <2>4. run \in RunStates(Candidates)
      BY DEF DiscardCore, CoreInv, CarriesInv, StoreTypeOK
    <2>5. /\ event = "supervisor_applied" => run'.status = "ready"
          /\ event = "cancel" => run'.status = "cancelled"
      BY <2>2, <2>4, MoveStatus DEF AttemptEnd, Unproductive
    <2>6. call[s].pc = "supervisor_failed" /\ Current(call[s])
      BY <2>1, <2>2, <2>3, <2>5 DEF Commit, Transition, Current
    <2> QED
      BY <2>6 DEF DiscardCore, DiscardInv
  <1>2. DiscardCore /\ [Next]_vars => DiscardInv'
    BY DiscardStep
  <1>3. Spec => []DiscardInv
    BY <1>2, DiscardInit, Phase2Holds, PTL DEF Spec, DiscardCore, Phase2Inv
  <1> QED
    BY <1>1, <1>3, Phase2Holds, PTL DEF Spec, DiscardCore, Phase2Inv, AdviceNotDiscarded
-----------------------------------------------------------------------------
(***************************************************************************)
(* One session, and no crash: the memory follows the run.  A call moves the*)
(* run only behind the point where it is sure to refresh the memory, unless*)
(* it leaves an attempt hanging.                                           *)
(***************************************************************************)

Alone == \A s, t \in Sessions : s = t

\* A call that has moved nothing yet.
Opening ==
    {"idle", "approve", "start_step", "cancel", "complete", "read_advice", "read_memory",
     "start_supervisor"}

Attempting ==
    {"run_child", "child_result", "read_baseline", "record_attempt", "child_failed",
     "candidate_ready", "read_candidates", "read_evaluations", "read_events", "interrupt",
     "evaluation_missing"} \cup Verdicts

Supervising == {"run_supervisor", "record_advice", "supervisor_applied", "supervisor_failed"}

Closing == {"observe", "refresh"} \cup Refreshing

Fresh(c) ==
    /\ c.op \notin Phase1Ops
    /\ c.pc \in Opening \cup Attempting \cup Supervising \cup Closing
    /\ c.pc \in Opening \cup Closing => run.status # "supervising"
    /\ c.pc \in Opening /\ run.status \notin Active => memory.state_revision = run.revision
    /\ c.pc \in Attempting => run.status \in Active
    /\ c.pc \in Supervising => run.status = "supervising"
    /\ c.pc \in Supervising \cup {"read_advice"} => c.state.revision = run.revision
    /\ c.pc = "read_advice" => c.op = "supervise"
    /\ c.pc \in {"run_supervisor", "record_advice"} => advice = <<>>
    /\ Asks(c) => c.state.revision = run.revision /\ advice = <<>>
    /\ c.pc \in Refreshing \cup {"start_supervisor"} => c.memo.state_revision = run.revision
    /\ c.pc \in {"refresh_advice", "save_memory"} =>
          c.memo.memory_revision = memory.memory_revision + 1

FreshInv == crashes = 0 => \A s \in Sessions : Fresh(call[s])

\* A lone session's step keeps the invariant if its own call does.
LEMMA FreshIsOwn ==
    ASSUME Alone, NEW s \in Sessions, Fresh(call[s])'
    PROVE  FreshInv'
  <1>1. \A t \in Sessions : t = s
    BY DEF Alone
  <1> QED
    BY <1>1 DEF FreshInv

LEMMA FreshBegin ==
    ASSUME CarriesInv, SeenInv, NEW s \in Sessions, Fresh(call[s]),
           Work(s) \/ BeginCancel(s)
    PROVE  Fresh(call[s])'
  <1>1. ASSUME NEW op \in {"step", "reconcile", "supervise", "cancel"}, NEW pc, Begin(s, op, pc),
               \/ pc \in {"start_step", "cancel"} /\ run.status \notin Active
               \/ pc = "read_candidates" /\ run.status \in Active
               \/ pc = "read_advice" /\ op = "supervise" /\ run.status = "supervision_required"
        PROVE  Fresh(call[s])'
    <2>1. /\ call[s].pc = "idle"
          /\ UNCHANGED ledger
          /\ call'[s] = [NoCall EXCEPT !.op = op, !.pc = pc, !.state = run]
      BY <1>1, OthersStay DEF Begin, Idle
    <2>2. call'[s].op = op /\ call'[s].pc = pc /\ call'[s].state = run
      BY <2>1 DEF NoCall
    <2>3. ~Asks(call[s])'
      BY <1>1, <2>2 DEF Asks, Refreshing
    <2> QED
      BY <1>1, <2>1, <2>2, <2>3
      DEF Fresh, Opening, Attempting, Verdicts, Supervising, Closing, Refreshing, ledger, evidence,
          Phase1Ops
  <1>2. CASE BeginStep(s)
    BY <1>1, <1>2 DEF BeginStep, Active
  <1>3. CASE BeginReconcile(s)
    <2>1. run.status # "supervising"
      BY <1>3 DEF Fresh, Opening, BeginReconcile, Begin, Idle
    <2> QED
      BY <1>1, <1>3, <2>1 DEF BeginReconcile
  <1>4. CASE BeginSupervise(s)
    BY <1>1, <1>4 DEF BeginSupervise
  <1>5. CASE BeginCancel(s)
    BY <1>1, <1>5 DEF BeginCancel
  <1> QED
    BY <1>2, <1>3, <1>4, <1>5 DEF Work

\* A call that returns, and left the run behind at work, or as it found it.
LEMMA FreshReturn ==
    ASSUME CarriesInv, NEW s \in Sessions, Fresh(call[s]), Return(s),
           UNCHANGED <<run, memory>>, call[s].pc \in Opening \cup Attempting
    PROVE  Fresh(call[s])'
  <1>1. call'[s] = NoCall
    BY OthersStay DEF Return
  <1>2. call'[s].op = "none" /\ call'[s].pc = "idle"
    BY <1>1 DEF NoCall
  <1>3. ~Asks(call[s])'
    BY <1>2 DEF Asks
  <1> QED
    BY <1>2, <1>3
    DEF Fresh, Opening, Attempting, Verdicts, Supervising, Closing, Refreshing, Phase1Ops, Active

\* What happens inside an attempt leaves it, or the run at work behind.
LEMMA FreshAttempt ==
    ASSUME CarriesInv, NEW s \in Sessions, Fresh(call[s]),
           \/ RunChild(s) \/ ObserveChild(s) \/ ReadBaseline(s) \/ RecordStepAttempt(s)
           \/ ReadCandidates(s) \/ ReadEvaluations(s) \/ ReadEvents(s)
    PROVE  Fresh(call[s])'
  <1>1. call[s] \in Calls
    BY DEF CarriesInv
  <1>2. ASSUME NEW next, Advance(s, next), UNCHANGED <<run, memory>>,
               call[s].pc \in Attempting,
               next.op \in {call[s].op, "none"}, next.pc \in Attempting \cup {"idle"}
        PROVE  Fresh(call[s])'
    <2>1. call'[s].op \in {call[s].op, "none"} /\ call'[s].pc \in Attempting \cup {"idle"}
      BY <1>2, OthersStay
    <2>2. ~Asks(call[s])'
      BY <2>1 DEF Asks, Attempting, Verdicts, Refreshing
    <2> QED
      BY <1>2, <2>1, <2>2
      DEF Fresh, Opening, Attempting, Verdicts, Supervising, Closing, Refreshing, Phase1Ops, Active
  <1>3. CASE RunChild(s)
    BY <1>1, <1>2, <1>3 DEF RunChild, At, Calls, Attempting, ledger
  <1>4. CASE ObserveChild(s)
    <2>1. ASSUME NEW next, Advance(s, next),
                 \/ next = [At(s, "child_failed") EXCEPT !.reply = "none"]
                 \/ next = NoCall
                 \/ next = At(s, "read_baseline")
          PROVE  Fresh(call[s])'
      <3>1. next.op \in {call[s].op, "none"} /\ next.pc \in {"child_failed", "read_baseline", "idle"}
        <4>1. CASE next = NoCall
          BY <4>1 DEF NoCall
        <4>2. CASE next # NoCall
          BY <1>1, <2>1, <4>2 DEF At, Calls
        <4> QED
          BY <4>1, <4>2
      <3>2. UNCHANGED <<run, memory>> /\ call[s].pc \in Attempting
        BY <1>4 DEF ObserveChild, RecordObservation, Attempting
      <3>3. next.pc \in Attempting \cup {"idle"}
        BY <3>1 DEF Attempting
      <3> QED
        BY <1>2, <2>1, <3>1, <3>2, <3>3
    <2> QED
      BY <1>4, <2>1 DEF ObserveChild
  <1>5. CASE ReadBaseline(s)
    BY <1>1, <1>2, <1>5 DEF ReadBaseline, At, Calls, Attempting, ledger
  <1>6. CASE RecordStepAttempt(s)
    BY <1>1, <1>2, <1>6 DEF RecordStepAttempt, RecordAttempt, At, Calls, Attempting
  <1>7. CASE ReadCandidates(s)
    BY <1>1, <1>2, <1>7 DEF ReadCandidates, At, Calls, Attempting, ledger
  <1>8. CASE ReadEvaluations(s)
    BY <1>1, <1>2, <1>8 DEF ReadEvaluations, At, Calls, Attempting, ledger
  <1>9. CASE ReadEvents(s)
    <2>1. Decision(call[s]).op = call[s].op /\ Decision(call[s]).pc \in Attempting
      BY <1>1 DEF Decision, Calls, NoCall, Attempting, Verdicts, Verdict
    <2>2. NoCall.op = "none" /\ NoCall.pc = "idle"
      BY DEF NoCall
    <2>3. UNCHANGED <<run, memory>> /\ call[s].pc \in Attempting
      BY <1>9 DEF ReadEvents, ledger, Attempting
    <2> QED
      BY <1>2, <1>9, <2>1, <2>2, <2>3 DEF ReadEvents
  <1> QED
    BY <1>3, <1>4, <1>5, <1>6, <1>7, <1>8, <1>9

\* The reads of supervise and what it does with its supervisor.
LEMMA FreshSupervise ==
    ASSUME CarriesInv, SeenInv, NEW s \in Sessions, Fresh(call[s]),
           ReadAdvice(s) \/ ReadMemory(s) \/ RunSupervisor(s) \/ RecordSupervisorAdvice(s)
    PROVE  Fresh(call[s])'
  <1> DEFINE c == call[s]
  <1>1. c \in Calls /\ Carries(c) /\ Sees(c)
    BY DEF CarriesInv, SeenInv
  <1>2. CASE ReadAdvice(s)
    <2>1. /\ c.pc = "read_advice" /\ c.op = "supervise"
          /\ c.state.status = "supervision_required" /\ c.state.revision = run.revision
          /\ UNCHANGED ledger
      BY <1>1, <1>2 DEF ReadAdvice, Carries, Fresh
    <2>2. \/ call'[s] = At(s, "complete")
          \/ call'[s] = At(s, "read_memory") /\ advice = <<>>
      BY <1>2, <2>1, OthersStay DEF ReadAdvice
    <2>3. /\ call'[s].op = c.op /\ call'[s].state = c.state
          /\ \/ call'[s].pc = "complete"
             \/ call'[s].pc = "read_memory" /\ advice = <<>>
      BY <1>1, <2>2 DEF At, Calls
    <2> QED
      BY <2>1, <2>3
      DEF Fresh, Opening, Attempting, Verdicts, Supervising, Closing, Refreshing, Asks, ledger,
          evidence
  <1>3. CASE ReadMemory(s)
    <2>1. /\ c.pc = "read_memory" /\ Asks(c) /\ UNCHANGED ledger
          /\ c.state.revision = run.revision /\ advice = <<>>
          /\ run.status = "supervision_required"
      BY <1>1, <1>3 DEF ReadMemory, Carries, Fresh, Sees
    <2>2. memory.state_revision = run.revision
      BY <2>1 DEF Fresh, Opening, Active
    <2>3. \/ call'[s] = At(s, "refresh")
          \/ call'[s] = [At(s, "start_supervisor") EXCEPT !.memo = memory]
      BY <1>3, OthersStay DEF ReadMemory
    <2>4. /\ call'[s].op = c.op /\ call'[s].state = c.state
          /\ \/ call'[s].pc = "refresh"
             \/ call'[s].pc = "start_supervisor" /\ call'[s].memo = memory
      BY <1>1, <2>3 DEF At, Calls
    <2> QED
      BY <2>1, <2>2, <2>4
      DEF Fresh, Opening, Attempting, Verdicts, Supervising, Closing, Refreshing, Asks, ledger,
          evidence
  <1>4. CASE RunSupervisor(s)
    <2>1. c.pc = "run_supervisor" /\ UNCHANGED ledger
      BY <1>4 DEF RunSupervisor
    <2>2. \/ call'[s] = [At(s, "supervisor_failed") EXCEPT !.note = "supervisor_failed",
                                                           !.memo = NoMemory]
          \/ \E artifact \in Advices :
                call'[s] = [At(s, "record_advice") EXCEPT !.answer = artifact]
      BY <1>4, OthersStay DEF RunSupervisor
    <2>3. /\ call'[s].op = c.op /\ call'[s].state = c.state
          /\ call'[s].pc \in {"supervisor_failed", "record_advice"}
      BY <1>1, <2>2 DEF At, Calls
    <2> QED
      BY <2>1, <2>3
      DEF Fresh, Opening, Attempting, Verdicts, Supervising, Closing, Refreshing, Asks, ledger,
          evidence
  <1>5. CASE RecordSupervisorAdvice(s)
    <2>1. c.pc = "record_advice" /\ UNCHANGED <<run, memory>>
      BY <1>5 DEF RecordSupervisorAdvice, RecordAdvice
    <2>2. call'[s] = [At(s, "supervisor_applied") EXCEPT !.answer = None, !.memo = NoMemory,
                                                         !.note = "supervisor_result"]
      BY <1>5, OthersStay DEF RecordSupervisorAdvice
    <2>3. /\ call'[s].op = c.op /\ call'[s].state = c.state
          /\ call'[s].pc = "supervisor_applied"
      BY <1>1, <2>2 DEF At, Calls
    <2> QED
      BY <2>1, <2>3
      DEF Fresh, Opening, Attempting, Verdicts, Supervising, Closing, Refreshing, Asks
  <1> QED
    BY <1>2, <1>3, <1>4, <1>5

\* _refresh_memory: what it has put together is of the run as it is.
LEMMA FreshRefresh ==
    ASSUME CarriesInv, NEW s \in Sessions, Fresh(call[s]),
           \/ Observe(s) \/ RefreshRun(s) \/ RefreshMemory(s) \/ RefreshAdvice(s)
           \/ SaveRefreshed(s)
    PROVE  Fresh(call[s])'
  <1> DEFINE c == call[s]
  <1>1. c \in Calls /\ memory \in Memories /\ run \in RunStates(Candidates)
    BY DEF CarriesInv, StoreTypeOK
  <1>2. CASE Observe(s)
    <2>1. c.pc = "observe" /\ UNCHANGED <<run, memory>>
      BY <1>2 DEF Observe, RecordObservation
    <2>2. call'[s] = [NoCall EXCEPT !.op = c.op, !.pc = "refresh"]
      BY <1>2, OthersStay DEF Observe, Refresh, Fresh
    <2>3. call'[s].op = c.op /\ call'[s].pc = "refresh" /\ call'[s].state = NewRun
      BY <2>2 DEF NoCall
    <2> QED
      BY <2>1, <2>3
      DEF Fresh, Opening, Attempting, Verdicts, Supervising, Closing, Refreshing, Asks
  <1>3. ASSUME NEW memo \in Memories, NEW pc \in Refreshing,
               call'[s] = [At(s, pc) EXCEPT !.memo = memo], UNCHANGED ledger,
               c.pc \in {"refresh"} \cup Refreshing,
               memo.state_revision = run.revision,
               pc # "refresh_memory" => memo.memory_revision = memory.memory_revision + 1
        PROVE  Fresh(call[s])'
    <2>1. /\ call'[s].op = c.op /\ call'[s].state = c.state
          /\ call'[s].pc = pc /\ call'[s].memo = memo
      BY <1>1, <1>3 DEF At, Calls
    <2> QED
      BY <1>3, <2>1
      DEF Fresh, Opening, Attempting, Verdicts, Supervising, Closing, Refreshing, Asks, ledger,
          evidence
  <1>4. CASE RefreshRun(s)
    <2>1. Snapshot(run, 0, FALSE) \in Memories /\ Snapshot(run, 0, FALSE).state_revision = run.revision
      BY <1>1 DEF Snapshot, Memories, RunStates
    <2> QED
      BY <1>3, <1>4, <2>1, OthersStay DEF RefreshRun, Refreshing
  <1>5. CASE RefreshMemory(s)
    <2> DEFINE memo == [c.memo EXCEPT !.memory_revision = memory.memory_revision + 1]
    <2>1. /\ memo \in Memories
          /\ memo.state_revision = c.memo.state_revision
          /\ memo.memory_revision = memory.memory_revision + 1
      BY <1>1 DEF Calls, Memories
    <2>2. call'[s] = [At(s, "refresh_advice") EXCEPT !.memo = memo]
      BY <1>1, <1>5, OthersStay DEF RefreshMemory, At, Calls
    <2>3. c.pc = "refresh_memory" /\ UNCHANGED ledger /\ c.memo.state_revision = run.revision
      BY <1>5 DEF RefreshMemory, Fresh, Refreshing
    <2> HIDE DEF memo
    <2> QED
      BY <1>3, <2>1, <2>2, <2>3 DEF Refreshing
  <1>6. CASE RefreshAdvice(s)
    <2> DEFINE memo == [c.memo EXCEPT !.advised = (advice # <<>>)]
    <2>1. /\ memo \in Memories
          /\ memo.state_revision = c.memo.state_revision
          /\ memo.memory_revision = c.memo.memory_revision
      BY <1>1 DEF Calls, Memories
    <2>2. call'[s] = [At(s, "save_memory") EXCEPT !.memo = memo]
      BY <1>1, <1>6, OthersStay DEF RefreshAdvice, At, Calls
    <2>3. /\ c.pc = "refresh_advice" /\ UNCHANGED ledger /\ c.memo.state_revision = run.revision
          /\ c.memo.memory_revision = memory.memory_revision + 1
      BY <1>6 DEF RefreshAdvice, Fresh, Refreshing
    <2> HIDE DEF memo
    <2> QED
      BY <1>3, <2>1, <2>2, <2>3 DEF Refreshing
  <1>7. CASE SaveRefreshed(s)
    <2>1. /\ c.pc = "save_memory" /\ memory' = c.memo /\ UNCHANGED <<run, advice>>
          /\ c.memo.state_revision = run.revision
      BY <1>7 DEF SaveRefreshed, SaveMemory, Fresh, Refreshing, evidence
    <2>2. \/ Asks(c) /\ call'[s] = At(s, "start_supervisor")
          \/ call'[s] = NoCall
      BY <1>7, <2>1, OthersStay DEF SaveRefreshed, Asks, Refreshing
    <2>3. \/ /\ Asks(c) /\ call'[s].pc = "start_supervisor"
             /\ call'[s].op = c.op /\ call'[s].state = c.state /\ call'[s].memo = c.memo
          \/ call'[s].pc = "idle" /\ call'[s].op = "none"
      BY <1>1, <2>2 DEF At, Calls, NoCall
    <2> QED
      BY <2>1, <2>3
      DEF Fresh, Opening, Attempting, Verdicts, Supervising, Closing, Refreshing, Asks, Phase1Ops
  <1> QED
    BY <1>2, <1>4, <1>5, <1>6, <1>7

\* A lone call meets no conflict of its memory or its advice: it raises at its opening or
\* leaves an attempt behind.
LEMMA FreshRaises ==
    ASSUME CarriesInv, NEW s \in Sessions, Fresh(call[s]), Conflict(s) \/ Refuse(s)
    PROVE  Fresh(call[s])'
  <1> DEFINE c == call[s]
  <1>1. c \in Calls /\ memory \in Memories /\ run \in RunStates(Candidates)
    BY DEF CarriesInv, StoreTypeOK
  <1>2. CASE Conflict(s)
    <2>1. c.pc # "save_memory" \/ memory.memory_revision = c.memo.memory_revision - 1
      BY <1>1 DEF Fresh, Memories, Calls
    <2>2. c.pc # "record_advice" \/ Rows(advice) = {}
      BY DEF Fresh, Rows
    <2>3. c.pc = "record_attempt" /\ Return(s) /\ UNCHANGED ledger
      BY <1>2, <2>1, <2>2 DEF Conflict
    <2> QED
      BY <2>3, FreshReturn DEF Attempting, ledger
  <1>3. CASE Refuse(s)
    <2>1. c.pc \in Events /\ Return(s) /\ UNCHANGED ledger
      BY <1>3 DEF Refuse
    <2>2. ASSUME c.pc \in {"supervisor_applied", "supervisor_failed"}
          PROVE  FALSE
      <3>1. run.status = "supervising" /\ c.state.revision = run.revision
        BY <2>2 DEF Fresh, Supervising
      <3>2. Accepts(run, c.pc, Promoted(c, c.pc), 0)
        BY <2>2, <3>1, NoCharge DEF Accepts, Allowed, AttemptEnd, Unproductive
      <3> QED
        BY <1>3, <3>1, <3>2 DEF Refuse
    <2>3. c.pc \in Opening \cup Attempting
      BY <2>1, <2>2 DEF Fresh, Supervising, Closing, Refreshing, Events
    <2> QED
      BY <2>1, <2>3, FreshReturn DEF ledger
  <1> QED
    BY <1>2, <1>3

LEMMA FreshCommit ==
    ASSUME CoreInv, NEW s \in Sessions, Fresh(call[s]), Commit(s)
    PROVE  Fresh(call[s])'
  <1> DEFINE c == call[s]
             event == c.pc
             cand == Promoted(c, c.pc)
             next == [c EXCEPT !.state = run']
  <1>1. /\ c \in Calls /\ event \in Events /\ cand \in Candidates \cup {None}
        /\ run \in RunStates(Candidates) /\ run' \in RunStates(Candidates)
        /\ Accepts(run, event, cand, 0) /\ run' = Apply(run, event, cand, 0)
        /\ UNCHANGED <<memory, advice>>
    BY CommitOutcome DEF CoreInv, CarriesInv, StoreTypeOK, Commit, Transition, evidence
  <1>2. call'[s] = AfterCommit(s)
    BY OthersStay DEF CoreInv, Commit
  <1>3. next \in Calls /\ next.op = c.op /\ next.pc = event /\ next.state = run' /\ next.note = c.note
    BY <1>1 DEF Calls
  <1>4. c.op \notin Phase1Ops
    BY DEF Fresh
  <1>5. CASE event = "start_step"
    <2>1. run.status = "ready" /\ run'.status =
             IF Spent(run.steps_used, run.cost) THEN "budget_exhausted" ELSE "running"
      BY <1>1, <1>5, MoveStatus DEF AttemptEnd, Unproductive
    <2>2. run'.status = "running"
      BY <2>1 DEF CoreInv, BudgetInv, Terminal
    <2>3. call'[s] = [next EXCEPT !.pc = "run_child"]
      BY <1>2, <1>5, <1>3 DEF AfterCommit
    <2>4. call'[s].op = c.op /\ call'[s].pc = "run_child"
      BY <1>3, <2>3 DEF Calls
    <2> QED
      BY <1>4, <2>2, <2>4
      DEF Fresh, Opening, Attempting, Verdicts, Supervising, Closing, Refreshing, Asks, Active
  <1>6. CASE event = "start_supervisor"
    <2>1. run'.status = "supervising"
      BY <1>1, <1>6, MoveStatus DEF AttemptEnd, Unproductive
    <2>2. call'[s] = [next EXCEPT !.pc = "run_supervisor"]
      BY <1>2, <1>6, <1>3 DEF AfterCommit
    <2>3. call'[s].op = c.op /\ call'[s].pc = "run_supervisor" /\ call'[s].state = run'
      BY <1>3, <2>2 DEF Calls
    <2>4. Asks(c)
      BY <1>6 DEF CoreInv, CarriesInv, Carries
    <2>5. advice = <<>>
      BY <2>4 DEF Fresh
    <2> QED
      BY <1>1, <1>4, <2>1, <2>3, <2>5
      DEF Fresh, Opening, Attempting, Verdicts, Supervising, Closing, Refreshing, Asks
  <1>7. CASE event = "candidate_ready"
    <2>1. run'.status = "evaluating"
      BY <1>1, <1>7, MoveStatus DEF AttemptEnd, Unproductive
    <2>2. call'[s] = [next EXCEPT !.pc = Verdict(next)]
      BY <1>2, <1>7, <1>3 DEF AfterCommit
    <2>3. call'[s].op = c.op /\ call'[s].pc \in Verdicts
      BY <1>3, <2>2 DEF Calls, Verdict, Verdicts
    <2> QED
      BY <1>4, <2>1, <2>3
      DEF Fresh, Opening, Attempting, Verdicts, Supervising, Closing, Refreshing, Asks, Active
  <1>8. CASE event \notin {"start_step", "start_supervisor", "candidate_ready"}
    <2>1. run'.status # "supervising"
      <3>1. event \notin {"pause", "resume"}
        BY DEF Fresh, Opening, Attempting, Verdicts, Supervising, Closing, Refreshing
      <3>2. CASE event \in AttemptEnd
        BY <1>1, <3>2, AttemptFields DEF StatusAfterAttempt
      <3>3. CASE event \notin AttemptEnd
        BY <1>1, <1>8, <3>1, <3>3, MoveStatus DEF Events, AttemptEnd, Unproductive, Conclusion
      <3> QED
        BY <3>2, <3>3
    <2>2. \/ call'[s] = [next EXCEPT !.pc = "observe"]
          \/ call'[s] = [NoCall EXCEPT !.op = c.op, !.pc = "refresh"]
      BY <1>2, <1>3, <1>4, <1>8 DEF AfterCommit, Refresh
    <2>3. \/ call'[s].op = c.op /\ call'[s].pc = "observe"
          \/ call'[s].op = c.op /\ call'[s].pc = "refresh" /\ call'[s].state = NewRun
      BY <1>3, <2>2 DEF Calls, NoCall
    <2> QED
      BY <1>4, <2>1, <2>3
      DEF Fresh, Opening, Attempting, Verdicts, Supervising, Closing, Refreshing, Asks
  <1> QED
    BY <1>5, <1>6, <1>7, <1>8

FreshCore == CoreInv /\ SeenInv /\ crashes \in Nat /\ (\E s \in Sessions : TRUE) /\ FreshInv

LEMMA FreshInit == Init => FreshCore
  <1> SUFFICES ASSUME Init
               PROVE  FreshCore
    OBVIOUS
  <1>1. run.revision = 0 /\ run.status = "created" /\ memory.state_revision = 0
    BY DEF Init, StoreInit, NewRun, NoMemory
  <1>2. \A s \in Sessions :
            /\ call[s].op \in {"create", "none"}
            /\ call[s].pc \in {"approve", "idle"}
    BY DEF Init, NoCall
  <1>3. \A s \in Sessions : Fresh(call[s])
    BY <1>1, <1>2
    DEF Fresh, Opening, Attempting, Verdicts, Supervising, Closing, Refreshing, Asks, Phase1Ops
  <1>4. crashes \in Nat /\ \E s \in Sessions : TRUE
    BY DEF Init
  <1> QED
    BY <1>3, <1>4, InitOpened, CoreInit, SeenInit DEF FreshCore, FreshInv

LEMMA FreshStep == Alone /\ FreshCore /\ [Next]_vars => FreshCore'
  <1> SUFFICES ASSUME Alone, FreshCore, [Next]_vars
               PROVE  FreshCore'
    OBVIOUS
  <1>1. CoreInv' /\ SeenInv'
    BY CoreStep, SeenStep DEF FreshCore
  <1>2. CASE UNCHANGED vars
    BY <1>1, <1>2 DEF FreshCore, FreshInv, Fresh, Asks, vars, ledger, evidence
  <1>3. ASSUME NEW s \in Sessions, Vanish(s)
        PROVE  FreshCore'
    <2>1. crashes' = crashes + 1
      BY <1>3 DEF Vanish
    <2> QED
      BY <1>1, <2>1 DEF FreshCore, FreshInv
  <1>4. ASSUME NEW s \in Sessions, Work(s) \/ BeginCancel(s) \/ Proceed(s)
        PROVE  FreshCore'
    <2>1. crashes' = crashes
      <3>1. CASE Work(s) \/ BeginCancel(s)
        BY <3>1 DEF Work, BeginStep, BeginReconcile, BeginSupervise, BeginCancel, Begin
      <3>2. CASE Proceed(s)
        BY <3>2 DEF Proceed, Commit, Refuse, Observe, Conflict, RunChild, ObserveChild,
           ReadBaseline, RecordStepAttempt, ReadCandidates, ReadEvaluations, ReadEvents,
           ReadAdvice, ReadMemory, RunSupervisor, RecordSupervisorAdvice, RefreshRun,
           RefreshMemory, RefreshAdvice, SaveRefreshed
      <3> QED
        BY <1>4, <3>1, <3>2
    <2>2. ASSUME crashes = 0
          PROVE  FreshInv'
      <3>1. Fresh(call[s])
        BY <2>2 DEF FreshCore, FreshInv
      <3>2. Fresh(call[s])'
        BY <1>4, <3>1, FreshBegin, FreshRaises, FreshCommit, FreshAttempt, FreshSupervise,
           FreshRefresh DEF FreshCore, CoreInv, Proceed
      <3> QED
        BY <3>2, FreshIsOwn
    <2>3. FreshInv'
      BY <2>1, <2>2 DEF FreshInv
    <2> QED
      BY <1>1, <2>1, <2>3 DEF FreshCore
  <1> QED
    BY <1>2, <1>3, <1>4 DEF Next

LEMMA FreshHolds == ASSUME Alone PROVE Spec => []FreshCore
  <1>1. FreshCore /\ [Next]_vars => FreshCore'
    BY FreshStep
  <1> QED
    BY <1>1, FreshInit, PTL DEF Spec

\* With one session and no crash every call of step, reconcile, supervise and cancel that
\* moved the run has brought the memory after it when it returns, or it leaves an attempt
\* to be reconciled: no failure on the way skips _refresh_memory.
THEOREM Phase2MemoryFreshAtRest == ASSUME Alone PROVE Spec => []MemoryFreshAtRest
  <1>1. FreshCore => MemoryFreshAtRest
    BY DEF FreshCore, FreshInv, Fresh, Opening, MemoryFreshAtRest, Idle
  <1> QED
    BY <1>1, FreshHolds, PTL

\* With one session and no crash what supervise takes for the evidence of a stagnation is
\* the memory of the run as it stagnated, though nothing in supervise looks at its revision.
THEOREM Phase2EvidenceCurrent == ASSUME Alone PROVE Spec => []EvidenceCurrent
  <1>1. FreshCore => EvidenceCurrent
    BY DEF FreshCore, FreshInv, Fresh, Asks, CoreInv, CarriesInv, Carries, EvidenceCurrent
  <1> QED
    BY <1>1, FreshHolds, PTL

-----------------------------------------------------------------------------
\* A run of Phase 1: the same calls by two controllers, and a process that may restart.

LEMMA Phase1Opened == Phase1Init => Opened
  BY DEF Phase1Init, Opened

\* A step that is no restart is a step of one call.
Called == \E s \in Sessions : Commit(s) \/ \E next : Outcome(s, next)

LEMMA Phase1Called ==
    ASSUME CarriesInv, Phase1Next
    PROVE  Restart \/ Called
  <1>1. ASSUME NEW s \in Sessions, AvoStep(s) \/ AvoCancel(s)
        PROVE  \E next : Outcome(s, next)
    BY <1>1, BegunOutcome DEF AvoStep, AvoCancel, Phase1Ops
  <1>2. ASSUME NEW s \in Sessions, AvoReconcile(s) \/ Proceed(s) \/ Vanish(s)
        PROVE  Called
    BY <1>2, StepOutcome DEF AvoReconcile, Work, Next, Called
  <1> QED
    BY <1>1, <1>2 DEF Phase1Next, Tool, GoOn, Called

\* Every call ends with the process, and the ledger stays as it is.
LEMMA RestartKeeps ==
    ASSUME Phase2Inv, Restart
    PROVE  Phase2Inv'
  <1>1. /\ UNCHANGED <<ledger, launches>>
        /\ \A s \in Sessions : call'[s] = NoCall
        /\ call' \in [Sessions -> Calls]
    BY NoCallType DEF Restart
  <1>2. run' = run /\ journal' = journal /\ memory' = memory /\ advice' = advice
    BY <1>1 DEF ledger, evidence
  <1>3. CoreInv'
    <2>1. Inv'
      BY <1>1, InvStep DEF Phase2Inv, CoreInv
    <2>2. \A s \in Sessions : Carries(call[s])' /\ call'[s].pc \notin Refreshing
      BY <1>1, NoCallType DEF Carries, Asks, Refreshing
    <2>3. CarriesInv'
      BY <1>1, <2>1, <2>2 DEF Phase2Inv, CoreInv, CarriesInv, Inv
    <2> QED
      BY <1>2, <2>1, <2>2, <2>3 DEF Phase2Inv, CoreInv, BudgetInv, DatesInv
  <1>4. SeenInv'
    <2>1. run.revision \in Nat /\ NewRun.revision = 0
      BY DEF Phase2Inv, CoreInv, CarriesInv, StoreTypeOK, RunStates, NewRun
    <2> QED
      BY <1>1, <1>2, <2>1, NoCallType DEF Phase2Inv, SeenInv, Sees
  <1>5. \A event : MovesBy(event)' = MovesBy(event)
    BY <1>2 DEF MovesBy
  <1>6. AttemptsCounted'
    BY <1>2, <1>5 DEF Phase2Inv, AttemptsCounted
  <1>7. LaunchInv'
    <2>1. ASSUME NEW n \in Nat, NEW pc \in {"run_child", "run_supervisor"}, NEW event,
                 PaidFor(n, pc, event)
          PROVE  PaidFor(n, pc, event)'
      <3>1. /\ Cardinality(Standing(pc)) \in Nat
            /\ Cardinality(MovesBy(event)) \in Nat
            /\ n + Cardinality(Standing(pc)) <= Cardinality(MovesBy(event))
        BY <2>1, FS_CardinalityType, MovesFinite
        DEF PaidFor, Phase2Inv, CoreInv, Inv, StoreTypeOK
      <3>2. Standing(pc)' = {}
        BY <1>1, NoCallType DEF Standing
      <3>3. IsFiniteSet({}) /\ Cardinality({}) = 0
        BY FS_EmptySet
      <3>4. n + 0 <= Cardinality(MovesBy(event))
        BY <3>1
      <3> QED
        BY <1>5, <3>2, <3>3, <3>4 DEF PaidFor
    <2>2. launches' = launches /\ launches.variation \in Nat /\ launches.supervisor \in Nat
      BY <1>1 DEF Phase2Inv, CoreInv, CarriesInv
    <2> QED
      BY <2>1, <2>2 DEF Phase2Inv, LaunchInv
  <1>8. SupervisionInv'
    BY <1>1, <1>2, <1>5, NoCallType DEF Phase2Inv, SupervisionInv, Asks
  <1>9. MemoryInv'
    BY <1>1, <1>2, <1>5, NoCallType DEF Phase2Inv, MemoryInv, Agrees, Advised, Refreshing
  <1> QED
    BY <1>3, <1>4, <1>6, <1>7, <1>8, <1>9 DEF Phase2Inv

LEMMA Phase1Step == Phase2Inv /\ [Phase1Next]_allVars => Phase2Inv'
  <1>1. Phase2Inv /\ Phase1Next => Phase2Inv'
    BY Phase1Called, RestartKeeps, CallKeeps DEF Phase2Inv, CoreInv, Called
  <1> QED
    BY <1>1, Phase2Stutter DEF allVars

LEMMA Phase1Holds == Phase1Spec => []Phase2Inv
  <1>1. Phase1Init => Phase2Inv
    BY Phase1Opened, Phase2Opened
  <1> QED
    BY <1>1, Phase1Step, PTL DEF Phase1Spec

\* No call of either controller, before or after any restart, reaches a point its operation
\* does not have or writes what its contract does not allow.
THEOREM Phase1Typed == Phase1Spec => []TypeOK
  <1>1. Phase1Init => crashes \in 0 .. MaxCrashes
    BY Phase2Assumption DEF Phase1Init, Phase2Assumption
  <1>2. crashes \in 0 .. MaxCrashes /\ [Phase1Next]_allVars => (crashes \in 0 .. MaxCrashes)'
    <2>1. ASSUME crashes \in 0 .. MaxCrashes, Restart
          PROVE  crashes' \in 0 .. MaxCrashes
      BY <2>1, Phase2Assumption DEF Restart, Phase2Assumption
    <2>2. ASSUME NEW s \in Sessions, AvoStep(s) \/ AvoCancel(s)
          PROVE  crashes' = crashes
      BY <2>2 DEF AvoStep, AvoCancel, Begin
    <2>3. ASSUME NEW s \in Sessions, AvoReconcile(s) \/ Proceed(s) \/ Vanish(s)
          PROVE  Next
      BY <2>3 DEF AvoReconcile, Work, Next
    <2> QED
      BY <2>1, <2>2, <2>3, CrashesStep DEF Phase1Next, Tool, GoOn, allVars, vars
  <1>3. Phase2Inv /\ crashes \in 0 .. MaxCrashes => TypeOK
    BY DEF Phase2Inv, CoreInv, CarriesInv, TypeOK
  <1> QED
    BY <1>1, <1>2, <1>3, Phase1Holds, PTL DEF Phase1Spec

\* The one step of a run of Phase 1 pays for one child, whoever steps, reconciles with the
\* other controller while the child is alive, or starts the process anew.
THEOREM Phase1LaunchBudget == Phase1Spec => []LaunchBudget
  BY Phase1Holds, PaidLaunches, PTL

\* Nor is the one attempt charged twice or forgotten between the two controllers.
THEOREM Phase1AttemptsCounted == Phase1Spec => []AttemptsCounted
  BY Phase1Holds, PTL DEF Phase2Inv

\* The revision protects a call of the one controller from those of the other: neither
\* commits a transition over a state it has not seen.
THEOREM Phase1CommitsWhatItSaw == Phase1Spec => CommitsWhatItSaw
  <1>1. Phase2Inv /\ [Phase1Next]_allVars =>
           [\A s \in Sessions :
               call[s].pc \in Events /\ call'[s] # call[s] /\ run' # run
                   => run = call[s].state]_vars
    <2>1. Restart => run' = run
      BY DEF Restart, ledger
    <2> QED
      BY <2>1, Phase1Called, CallSaw DEF Phase2Inv, CoreInv, Called, allVars
  <1> QED
    BY <1>1, Phase1Holds, PTL DEF Phase1Spec, CommitsWhatItSaw

\* Phase 1 has no memory, but reconcile saves one of its runs as of any other; so long as its
\* state_revision is the run's, it tells of the run as it is.
THEOREM Phase1FreshMemoryTrue == Phase1Spec => []FreshMemoryTrue
  BY Phase1Holds, FreshTells, PTL

LEMMA Phase1Stores == Phase1Spec => StoreSpec
  <1>1. Phase1Init => StoreInit
    BY DEF Phase1Init
  <1>2. Phase2Inv /\ [Phase1Next]_allVars => [StoreNext]_ledger
    <2>1. Restart => UNCHANGED ledger
      BY DEF Restart
    <2> QED
      BY <2>1, Phase1Called, CallStores DEF Phase2Inv, CoreInv, Called, allVars, vars
  <1> QED
    BY <1>1, <1>2, Phase1Holds, PTL DEF Phase1Spec, StoreSpec

\* Both controllers use the ledger by its operations alone, and a restart leaves it be.
THEOREM Phase1ImplementsStore == Phase1Spec => StoreSteps
  BY Phase1Stores, StoreStepsToo, PTL

\* The run that two controllers drive over restarts is a run of the state machine.
THEOREM Phase1ImplementsLifecycle == Phase1Spec => LifecycleSpec
  BY Phase1Stores, StoreImplementsLifecycle, PTL

-----------------------------------------------------------------------------
\* The one attempt of a run of Phase 1.  Two controllers may be at it at once, and reconcile
\* reads its evidence while step still writes it; but there is one candidate to be written,
\* so whatever the two took for the last candidate and its evaluation belong together.

\* An evaluation on record lets its candidate be promoted.
Found == \E i \in DOMAIN evaluations : evaluations[i].eligible

\* What a call may hold: the candidate of the one attempt, which it has before it gives a
\* verdict, and an eligibility that is on record unless the call is about to record it.
Sole(c) ==
    /\ c.cand \in {None, 1}
    /\ c.pc \in VerdictPoints \cup {"record_attempt"} => c.cand = 1
    /\ c.pc = "evaluation_eligible" => c.eligible
    /\ c.eligible /\ c.pc # "record_attempt" => Found

SoleInv ==
    /\ OneStep
    /\ \A i \in DOMAIN candidates : candidates[i] = 1
    /\ \A i \in DOMAIN evaluations : evaluations[i].candidate = 1
    /\ \A s \in Sessions : Sole(call[s])
    /\ \A i \in MovesBy("evaluation_eligible") :
          journal[i].candidate = 1 /\ journal[i].state.steps_used = 1
    /\ run.best # None => run.best = 1 /\ Found

LEMMA SoleNoCall == Sole(NoCall)
  BY DEF Sole, NoCall, VerdictPoints, Verdicts

LEMMA SoleInit == Phase1Init => SoleInv
  <1> SUFFICES ASSUME Phase1Init
               PROVE  SoleInv
    OBVIOUS
  <1>1. candidates = <<>> /\ evaluations = <<>> /\ run.best = None
    BY DEF Phase1Init, StoreInit, NewRun
  <1>2. MovesBy("evaluation_eligible") = {}
    <2>1. journal = <<ObservationRow("run_created", NewRun)>>
      BY DEF Phase1Init, StoreInit
    <2> QED
      BY <2>1 DEF MovesBy, ObservationRow
  <1>3. Sole([NoCall EXCEPT !.op = "phase1_create", !.pc = "approve"])
    BY DEF Sole, NoCall, VerdictPoints, Verdicts
  <1>4. \A s \in Sessions : Sole(call[s])
    BY <1>3, SoleNoCall DEF Phase1Init
  <1> QED
    BY <1>1, <1>2, <1>4 DEF Phase1Init, SoleInv

\* A call that goes on with no more than it had, and not to a verdict.
Plain(s, next) ==
    /\ next.cand \in {None, call[s].cand}
    /\ next.eligible => call[s].eligible /\ call[s].pc # "record_attempt"
    /\ next.pc \notin VerdictPoints \cup {"record_attempt"}

LEMMA PlainSole ==
    ASSUME SoleInv, NEW s \in Sessions, NEW next, Plain(s, next)
    PROVE  Sole(next)
  BY DEF SoleInv, Sole, Plain, VerdictPoints, Verdicts

LEMMA RefreshPlain ==
    ASSUME NEW s \in Sessions
    PROVE  Plain(s, NoCall) /\ Plain(s, Refresh(s))
  BY DEF Plain, Refresh, NoCall, VerdictPoints, Verdicts

LEMMA BegunPlain ==
    ASSUME call \in [Sessions -> Calls], NEW s \in Sessions, NEW op,
           NEW pc \in {"start_step", "read_advice", "read_candidates", "cancel"},
           Begin(s, op, pc)
    PROVE  Plain(s, call'[s]) /\ UNCHANGED <<candidates, evaluations>>
  <1> DEFINE next == [NoCall EXCEPT !.op = op, !.pc = pc, !.state = run]
  <1>1. next.cand = None /\ next.eligible = FALSE /\ next.pc = pc
    BY DEF NoCall
  <1>2. call'[s] = next
    BY DEF Begin, Advance
  <1> HIDE DEF next
  <1> QED
    BY <1>1, <1>2 DEF Plain, VerdictPoints, Verdicts, Begin, ledger, evidence

\* The calls' steps that bring no evidence.
LEMMA PlainStep ==
    ASSUME call \in [Sessions -> Calls], NEW s \in Sessions,
           \/ Refuse(s) \/ Conflict(s) \/ Vanish(s) \/ Observe(s)
           \/ RunChild(s) \/ ObserveChild(s)
           \/ ReadAdvice(s) \/ ReadMemory(s) \/ RunSupervisor(s) \/ RecordSupervisorAdvice(s)
           \/ RefreshRun(s) \/ RefreshMemory(s) \/ RefreshAdvice(s) \/ SaveRefreshed(s)
    PROVE  Plain(s, call'[s]) /\ UNCHANGED <<candidates, evaluations>>
  <1>1. call[s] \in Calls /\ \A next : Advance(s, next) => call'[s] = next
    BY DEF Advance
  <1>2. CASE Refuse(s) \/ Conflict(s) \/ Vanish(s) \/ Observe(s)
    BY <1>1, <1>2, RefreshPlain
    DEF Refuse, Conflict, Vanish, Observe, Return, RecordObservation, ledger, evidence
  <1>3. CASE RunChild(s)
    <2>1. /\ call'[s].cand = call[s].cand /\ call'[s].eligible = call[s].eligible
          /\ call[s].pc = "run_child"
          /\ call'[s].pc \in {"child_failed", "child_result"}
      <3>1. /\ call[s].pc = "run_child"
            /\ \/ call'[s] = [At(s, "child_failed") EXCEPT !.note = "child_launch_error"]
               \/ \E reply : call'[s] = [At(s, "child_result") EXCEPT !.reply = reply]
               \/ \E score : call'[s] = [At(s, "child_result") EXCEPT !.reply = "answers",
                                                                      !.answer = score]
        BY <1>1, <1>3, Zenon DEF RunChild
      <3>2. CASE call'[s] = [At(s, "child_failed") EXCEPT !.note = "child_launch_error"]
        BY <1>1, <3>1, <3>2 DEF At, Calls
      <3>3. CASE \E reply : call'[s] = [At(s, "child_result") EXCEPT !.reply = reply]
        BY <1>1, <3>1, <3>3 DEF At, Calls
      <3>4. CASE \E score : call'[s] = [At(s, "child_result") EXCEPT !.reply = "answers",
                                                                   !.answer = score]
        BY <1>1, <3>1, <3>4 DEF At, Calls
      <3> QED
        BY <3>1, <3>2, <3>3, <3>4
    <2>2. UNCHANGED <<candidates, evaluations>>
      BY <1>3 DEF RunChild, ledger, evidence
    <2> QED
      BY <2>1, <2>2 DEF Plain, VerdictPoints, Verdicts
  <1>4. CASE ObserveChild(s)
    <2>1. UNCHANGED <<candidates, evaluations>> /\ call[s].pc = "child_result"
      BY <1>4 DEF ObserveChild, RecordObservation, evidence
    <2>2. CASE call'[s] = NoCall
      BY <2>1, <2>2, RefreshPlain
    <2>3. CASE call'[s] = [At(s, "child_failed") EXCEPT !.reply = "none"]
      BY <1>1, <2>1, <2>3 DEF At, Calls, Plain, VerdictPoints, Verdicts
    <2>4. CASE call'[s] = At(s, "read_baseline")
      BY <1>1, <2>1, <2>4 DEF At, Calls, Plain, VerdictPoints, Verdicts
    <2> QED
      BY <1>1, <1>4, <2>2, <2>3, <2>4, <2>1 DEF ObserveChild
  <1>5. CASE ReadAdvice(s)
    <2>1. /\ call'[s].cand = call[s].cand /\ call'[s].eligible = call[s].eligible
          /\ call[s].pc = "read_advice"
          /\ call'[s].pc \in {"supervisor_applied", "supervisor_failed", "complete", "read_memory"}
      BY <1>1, <1>5 DEF ReadAdvice, At, Calls
    <2>2. UNCHANGED <<candidates, evaluations>>
      BY <1>5 DEF ReadAdvice, ledger, evidence
    <2> QED
      BY <2>1, <2>2 DEF Plain, VerdictPoints, Verdicts
  <1>6. CASE ReadMemory(s)
    <2>1. /\ call'[s].cand = call[s].cand /\ call'[s].eligible = call[s].eligible
          /\ call[s].pc = "read_memory"
          /\ call'[s].pc \in {"refresh", "start_supervisor"}
      BY <1>1, <1>6 DEF ReadMemory, At, Calls
    <2>2. UNCHANGED <<candidates, evaluations>>
      BY <1>6 DEF ReadMemory, ledger, evidence
    <2> QED
      BY <2>1, <2>2 DEF Plain, VerdictPoints, Verdicts
  <1>7. CASE RunSupervisor(s)
    <2>1. /\ call'[s].cand = call[s].cand /\ call'[s].eligible = call[s].eligible
          /\ call[s].pc = "run_supervisor"
          /\ call'[s].pc \in {"supervisor_failed", "record_advice"}
      BY <1>1, <1>7 DEF RunSupervisor, At, Calls
    <2>2. UNCHANGED <<candidates, evaluations>>
      BY <1>7 DEF RunSupervisor, ledger, evidence
    <2> QED
      BY <2>1, <2>2 DEF Plain, VerdictPoints, Verdicts
  <1>8. CASE RecordSupervisorAdvice(s)
    <2>1. /\ call'[s].cand = call[s].cand /\ call'[s].eligible = call[s].eligible
          /\ call[s].pc = "record_advice"
          /\ call'[s].pc \in {"supervisor_applied"}
      BY <1>1, <1>8 DEF RecordSupervisorAdvice, At, Calls
    <2>2. UNCHANGED <<candidates, evaluations>>
      BY <1>8 DEF RecordSupervisorAdvice, RecordAdvice
    <2> QED
      BY <2>1, <2>2 DEF Plain, VerdictPoints, Verdicts
  <1>9. CASE RefreshRun(s)
    <2>1. /\ call'[s].cand = call[s].cand /\ call'[s].eligible = call[s].eligible
          /\ call[s].pc = "refresh"
          /\ call'[s].pc \in {"refresh_memory"}
      BY <1>1, <1>9 DEF RefreshRun, At, Calls
    <2>2. UNCHANGED <<candidates, evaluations>>
      BY <1>9 DEF RefreshRun, ledger, evidence
    <2> QED
      BY <2>1, <2>2 DEF Plain, VerdictPoints, Verdicts
  <1>10. CASE RefreshMemory(s)
    <2>1. /\ call'[s].cand = call[s].cand /\ call'[s].eligible = call[s].eligible
          /\ call[s].pc = "refresh_memory"
          /\ call'[s].pc \in {"refresh_advice"}
      BY <1>1, <1>10 DEF RefreshMemory, At, Calls
    <2>2. UNCHANGED <<candidates, evaluations>>
      BY <1>10 DEF RefreshMemory, ledger, evidence
    <2> QED
      BY <2>1, <2>2 DEF Plain, VerdictPoints, Verdicts
  <1>11. CASE RefreshAdvice(s)
    <2>1. /\ call'[s].cand = call[s].cand /\ call'[s].eligible = call[s].eligible
          /\ call[s].pc = "refresh_advice"
          /\ call'[s].pc \in {"save_memory"}
      BY <1>1, <1>11 DEF RefreshAdvice, At, Calls
    <2>2. UNCHANGED <<candidates, evaluations>>
      BY <1>11 DEF RefreshAdvice, ledger, evidence
    <2> QED
      BY <2>1, <2>2 DEF Plain, VerdictPoints, Verdicts
  <1>12. CASE SaveRefreshed(s)
    BY <1>1, <1>12, RefreshPlain
    DEF SaveRefreshed, SaveMemory, At, Calls, Plain, VerdictPoints, Verdicts, evidence
  <1> QED
    BY <1>2, <1>3, <1>4, <1>5, <1>6, <1>7, <1>8, <1>9, <1>10, <1>11, <1>12

\* The reads of the evidence: what reconcile puts together from two reads of the lineage,
\* and what step is about to record.
LEMMA EvidenceStep ==
    ASSUME CarriesInv, SoleInv, NEW s \in Sessions,
           ReadBaseline(s) \/ ReadCandidates(s) \/ ReadEvaluations(s) \/ ReadEvents(s)
    PROVE  Sole(call'[s]) /\ UNCHANGED <<candidates, evaluations>>
  <1>1. /\ call[s] \in Calls /\ Carries(call[s]) /\ Sole(call[s])
        /\ \A next : Advance(s, next) => call'[s] = next
    BY DEF CarriesInv, Advance, SoleInv
  <1>2. CASE ReadBaseline(s)
    <2>1. call[s].state.steps_used = 0
      BY <1>1, <1>2 DEF ReadBaseline, Carries, SoleInv, OneStep, Calls, RunStates
    <2>2. PICK eligible : call'[s] = [At(s, "record_attempt") EXCEPT
                                         !.cand = call[s].state.steps_used + 1,
                                         !.reply = "none",
                                         !.eligible = eligible]
      BY <1>1, <1>2 DEF ReadBaseline
    <2>3. call'[s].cand = 1 /\ call'[s].pc = "record_attempt"
      BY <1>1, <2>1, <2>2 DEF At, Calls
    <2> QED
      BY <1>2, <2>3 DEF Sole, ReadBaseline, ledger, evidence
  <1>3. CASE ReadCandidates(s)
    <2>1. candidates # <<>> => candidates[Len(candidates)] = 1
      BY DEF SoleInv, CarriesInv, StoreTypeOK
    <2>2. /\ call'[s].cand \in {None, 1} /\ call'[s].eligible = call[s].eligible
          /\ call'[s].pc = "read_evaluations" /\ call[s].pc = "read_candidates"
      BY <1>1, <1>3, <2>1 DEF ReadCandidates, At, Calls
    <2> QED
      BY <1>1, <1>3, <2>2
      DEF ReadCandidates, Sole, Found, VerdictPoints, Verdicts, ledger, evidence
  <1>4. CASE ReadEvaluations(s)
    <2> DEFINE last == evaluations # <<>> /\ evaluations[Len(evaluations)].eligible
    <2>1. last => Found
      BY DEF CarriesInv, StoreTypeOK, Found
    <2>2. /\ call'[s].cand = call[s].cand /\ call'[s].eligible = last
          /\ call'[s].pc = "read_events"
      BY <1>1, <1>4 DEF ReadEvaluations, At, Calls
    <2> HIDE DEF last
    <2> QED
      BY <1>1, <1>4, <2>1, <2>2
      DEF ReadEvaluations, Sole, Found, VerdictPoints, Verdicts, ledger, evidence
  <1>5. CASE ReadEvents(s)
    <2>1. UNCHANGED <<candidates, evaluations>> /\ call[s].pc = "read_events"
      BY <1>5 DEF ReadEvents, ledger, evidence
    <2>2. CASE call'[s] = NoCall
      BY <2>1, <2>2, SoleNoCall DEF Sole, Found
    <2>3. CASE /\ call[s].evals > AppliedEvaluations /\ call[s].cand # None
               /\ call'[s] = Decision(call[s])
      <3>1. /\ call'[s].cand = 1 /\ call'[s].eligible = call[s].eligible
            /\ call'[s].pc \in {"candidate_ready", Verdict(call[s])}
        BY <1>1, <2>3 DEF Decision, Calls, Sole
      <3> QED
        BY <1>1, <2>1, <3>1 DEF Sole, Found, Verdict, VerdictPoints
    <2>4. CASE ~(call[s].evals > AppliedEvaluations) /\ call'[s] = Decision(call[s])
      <3>1. /\ call'[s].cand = None /\ call'[s].eligible = FALSE
            /\ call'[s].pc \in {"interrupt", "evaluation_missing"}
        BY <2>4 DEF Decision, NoCall
      <3> QED
        BY <3>1, <2>1 DEF Sole, VerdictPoints, Verdicts
    <2> QED
      BY <1>1, <1>5, <2>2, <2>3, <2>4 DEF ReadEvents
  <1> QED
    BY <1>2, <1>3, <1>4, <1>5

\* A step that leaves the run and the lineage alone.
LEMMA SoleOutcome ==
    ASSUME CoreInv, SoleInv, NEW s \in Sessions, NEW next, Outcome(s, next),
           UNCHANGED <<candidates, evaluations>>, Sole(call'[s])
    PROVE  SoleInv'
  <1>1. /\ run' = run
        /\ \A t \in Sessions : t # s => call'[t] = call[t]
        /\ MovesBy("evaluation_eligible")' = MovesBy("evaluation_eligible")
    BY OutcomeRun, OthersStay, MovesOutcome DEF CoreInv, Outcome
  <1>2. \A i \in DOMAIN journal : i \in DOMAIN journal' /\ journal'[i] = journal[i]
    BY WritesStore, JournalKept DEF Outcome, CoreInv
  <1>3. \A t \in Sessions : Sole(call'[t])
    BY <1>1 DEF SoleInv
  <1>4. \A t \in Sessions : Sole(call[t])'
    BY <1>3 DEF Sole, Found
  <1>5. MovesBy("evaluation_eligible") \subseteq DOMAIN journal
    BY DEF MovesBy
  <1> QED
    BY <1>1, <1>2, <1>4, <1>5 DEF SoleInv, Found, OneStep

\* The record of the attempt puts its eligibility on record.
LEMMA SoleRecord ==
    ASSUME CoreInv, SoleInv, NEW s \in Sessions, RecordStepAttempt(s)
    PROVE  SoleInv'
  <1>1. /\ call[s] \in Calls /\ Sole(call[s])
        /\ candidates \in Seq(Candidates) /\ evaluations \in Seq(Evaluations)
    BY DEF CoreInv, CarriesInv, StoreTypeOK, SoleInv
  <1> DEFINE eval == [candidate |-> call[s].cand, eligible |-> call[s].eligible,
                      score |-> call[s].answer]
  <1>2. /\ candidates' = Append(candidates, eval.candidate)
        /\ evaluations' = Append(evaluations, eval)
        /\ run' = run /\ journal' = journal
        /\ eval.candidate = 1 /\ eval.eligible = call[s].eligible
    BY <1>1 DEF RecordStepAttempt, RecordAttempt, Sole
  <1> HIDE DEF eval
  <1>3. /\ \A i \in DOMAIN candidates' : candidates'[i] = 1
        /\ \A i \in DOMAIN evaluations' : evaluations'[i].candidate = 1
        /\ Found \/ call[s].eligible => Found'
    <2>1. /\ DOMAIN evaluations' = DOMAIN evaluations \cup {Len(evaluations) + 1}
          /\ \A i \in DOMAIN evaluations : evaluations'[i] = evaluations[i]
          /\ evaluations'[Len(evaluations) + 1] = eval
      BY <1>1, <1>2
    <2>2. \A i \in DOMAIN candidates' : candidates'[i] = 1
      BY <1>1, <1>2 DEF SoleInv
    <2>3. \A i \in DOMAIN evaluations' : evaluations'[i].candidate = 1
      BY <1>2, <2>1 DEF SoleInv
    <2>4. Found \/ call[s].eligible => Found'
      BY <1>2, <2>1 DEF Found
    <2> QED
      BY <2>2, <2>3, <2>4
  <1>4. /\ call'[s] = [At(s, "candidate_ready") EXCEPT !.answer = None]
        /\ \A t \in Sessions : t # s => call'[t] = call[t]
    BY OthersStay DEF CoreInv, CarriesInv, RecordStepAttempt, Advance
  <1>5. call'[s].cand = 1 /\ call'[s].eligible = call[s].eligible /\ call'[s].pc = "candidate_ready"
    BY <1>1, <1>4 DEF At, Calls, Sole, RecordStepAttempt
  <1>6. ASSUME NEW t \in Sessions
        PROVE  Sole(call[t])'
    <2>1. CASE t = s
      BY <1>3, <1>5, <2>1 DEF Sole, VerdictPoints, Verdicts
    <2>2. CASE t # s
      <3>1. Sole(call[t]) /\ call'[t] = call[t]
        BY <1>4, <2>2 DEF SoleInv
      <3> QED
        BY <1>3, <3>1 DEF Sole
    <2> QED
      BY <2>1, <2>2
  <1> QED
    BY <1>2, <1>3, <1>6 DEF SoleInv, MovesBy, OneStep

\* A verdict promotes the one candidate and ends the one attempt.
LEMMA SoleCommit ==
    ASSUME CoreInv, SeenInv, SoleInv, NEW s \in Sessions, Commit(s)
    PROVE  SoleInv'
  <1> DEFINE n == Len(journal) + 1
  <1>1. /\ call[s] \in Calls /\ Sole(call[s])
        /\ UNCHANGED <<candidates, evaluations>>
        /\ call'[s] = AfterCommit(s)
        /\ \A t \in Sessions : t # s => call'[t] = call[t]
    BY OthersStay DEF CoreInv, CarriesInv, SoleInv, Commit, Transition, evidence
  <1>2. Sole(call'[s])
    <2> DEFINE c == [call[s] EXCEPT !.state = run']
    <2>1. /\ c.pc = call[s].pc /\ c.cand = call[s].cand /\ c.eligible = call[s].eligible
          /\ c.note = call[s].note
          /\ \A pc : /\ [c EXCEPT !.pc = pc].pc = pc /\ [c EXCEPT !.pc = pc].cand = c.cand
                     /\ [c EXCEPT !.pc = pc].eligible = c.eligible
      BY <1>1 DEF Calls
    <2>2. \/ c.pc = "start_step" /\ call'[s] = [c EXCEPT !.pc = "run_child"]
          \/ c.pc = "start_supervisor" /\ call'[s] = [c EXCEPT !.pc = "run_supervisor"]
          \/ c.pc = "candidate_ready" /\ call'[s] = [c EXCEPT !.pc = Verdict(c)]
          \/ c.pc \in Events /\ call'[s] = [c EXCEPT !.pc = "observe"]
          \/ call'[s] = Refresh(s)
      BY <1>1, <2>1 DEF AfterCommit, Commit
    <2> HIDE DEF c
    <2>3. CASE c.pc = "candidate_ready" /\ call'[s] = [c EXCEPT !.pc = Verdict(c)]
      BY <1>1, <2>1, <2>3 DEF Sole, Verdict, VerdictPoints
    <2>4. CASE \E pc \in {"run_child", "run_supervisor", "observe"} :
                  c.pc \in Events /\ call'[s] = [c EXCEPT !.pc = pc]
      <3>1. PICK pc \in {"run_child", "run_supervisor", "observe"} :
               call'[s] = [c EXCEPT !.pc = pc]
        BY <2>4
      <3>2. /\ call'[s].pc = pc /\ call'[s].cand = call[s].cand
            /\ call'[s].eligible = call[s].eligible
        BY <2>1, <3>1
      <3>3. call[s].pc # "record_attempt"
        BY <2>1, <2>4 DEF Events
      <3>4. Plain(s, call'[s])
        BY <3>1, <3>2, <3>3 DEF Plain, VerdictPoints, Verdicts
      <3> QED
        BY <3>4, PlainSole
    <2>5. CASE call'[s] = Refresh(s)
      BY <2>5, RefreshPlain, PlainSole
    <2> QED
      BY <2>2, <2>3, <2>4, <2>5 DEF Events
  <1>3. \A t \in Sessions : Sole(call'[t])
    BY <1>1, <1>2 DEF SoleInv
  <1>4. \A t \in Sessions : Sole(call[t])'
    BY <1>1, <1>3 DEF Sole, Found
  <1>5. call[s].pc = "evaluation_eligible" => run'.steps_used = 1 /\ call[s].cand = 1 /\ Found
    <2> SUFFICES ASSUME call[s].pc = "evaluation_eligible"
                 PROVE  run'.steps_used = 1 /\ call[s].cand = 1 /\ Found
      OBVIOUS
    <2>1. run'.steps_used = run.steps_used + 1
      BY CommitRun DEF AttemptEnd
    <2>2. /\ run.steps_used \in Nat /\ run'.steps_used <= MaxSteps
      BY CoreCommit DEF CoreInv, CarriesInv, StoreTypeOK, RunStates, BudgetInv
    <2> QED
      BY <1>1, <2>1, <2>2 DEF SoleInv, OneStep, Sole, VerdictPoints, Verdicts
  <1>6. /\ n \notin DOMAIN journal
        /\ \A i \in DOMAIN journal : journal'[i] = journal[i]
        /\ journal'[n].state = run'
        /\ journal'[n].candidate = Promoted(call[s], call[s].pc)
        /\ MovesBy("evaluation_eligible")' =
              IF call[s].pc = "evaluation_eligible" THEN MovesBy("evaluation_eligible") \cup {n}
              ELSE MovesBy("evaluation_eligible")
        /\ MovesBy("evaluation_eligible") \subseteq DOMAIN journal
    BY CommitJournal
  <1> HIDE DEF n
  <1>7. \A i \in MovesBy("evaluation_eligible")' :
           journal'[i].candidate = 1 /\ journal'[i].state.steps_used = 1
    BY <1>5, <1>6 DEF SoleInv, Promoted
  <1>8. run'.best # None => run'.best = 1 /\ Found
    BY <1>5, CommitBest DEF SoleInv
  <1> QED
    BY <1>1, <1>4, <1>7, <1>8 DEF SoleInv, Found, OneStep

LEMMA SoleStep == Phase2Inv /\ SoleInv /\ [Phase1Next]_allVars => SoleInv'
  <1> SUFFICES ASSUME Phase2Inv, SoleInv, [Phase1Next]_allVars
               PROVE  SoleInv'
    OBVIOUS
  <1>1. CoreInv /\ SeenInv /\ CarriesInv /\ call \in [Sessions -> Calls]
    BY DEF Phase2Inv, CoreInv, CarriesInv
  <1>2. ASSUME NEW s \in Sessions, AvoStep(s) \/ AvoReconcile(s) \/ AvoCancel(s)
        PROVE  SoleInv'
    <2>1. PICK op \in {"phase1_step", "phase1_cancel", "reconcile"},
               pc \in {"start_step", "read_advice", "read_candidates", "cancel"} :
             Begin(s, op, pc)
      <3>1. AvoStep(s) => Begin(s, "phase1_step", "start_step")
        BY DEF AvoStep
      <3>2. AvoCancel(s) => Begin(s, "phase1_cancel", "cancel")
        BY DEF AvoCancel
      <3>3. AvoReconcile(s) => \/ Begin(s, "reconcile", "read_advice")
                               \/ Begin(s, "reconcile", "read_candidates")
        BY DEF AvoReconcile, BeginReconcile
      <3> QED
        BY <1>2, <3>1, <3>2, <3>3
    <2>2. Sole(call'[s]) /\ UNCHANGED <<candidates, evaluations>>
      BY <1>1, <2>1, BegunPlain, PlainSole DEF Sole, Found
    <2>3. \E next : Outcome(s, next)
      BY <1>1, <1>2, BegunOutcome, BeginOutcome DEF AvoStep, AvoReconcile, Work, AvoCancel, Phase1Ops
    <2> QED
      BY <1>1, <2>2, <2>3, SoleOutcome
  <1>3. ASSUME NEW s \in Sessions, Proceed(s) \/ Vanish(s)
        PROVE  SoleInv'
    <2>1. CASE Commit(s)
      BY <1>1, <2>1, SoleCommit
    <2>2. CASE RecordStepAttempt(s)
      BY <1>1, <2>2, SoleRecord
    <2>3. CASE ~Commit(s) /\ ~RecordStepAttempt(s)
      <3>1. Sole(call'[s]) /\ UNCHANGED <<candidates, evaluations>>
        BY <1>1, <1>3, <2>3, PlainStep, EvidenceStep, PlainSole DEF Proceed
      <3>2. \E next : Outcome(s, next)
        BY <1>1, <1>3, <2>3, CallOutcome
      <3> QED
        BY <1>1, <3>1, <3>2, SoleOutcome
    <2> QED
      BY <2>1, <2>2, <2>3
  <1>4. CASE Restart
    <2>1. /\ run' = run /\ journal' = journal /\ UNCHANGED <<candidates, evaluations>>
          /\ \A s \in Sessions : call'[s] = NoCall
      BY <1>4 DEF Restart, ledger, evidence
    <2> QED
      BY <2>1, SoleNoCall DEF SoleInv, Sole, Found, MovesBy, OneStep
  <1>5. CASE UNCHANGED allVars
    BY <1>5 DEF allVars, vars, ledger, evidence, SoleInv, Sole, Found, MovesBy, OneStep
  <1> QED
    BY <1>2, <1>3, <1>4, <1>5 DEF Phase1Next, Tool, GoOn

LEMMA SoleHolds == Phase1Spec => []SoleInv
  BY SoleInit, SoleStep, Phase1Holds, PTL DEF Phase1Spec

\* In a run of Phase 1 the evaluator alone makes a candidate eligible though reconcile may
\* run while step does: what the two controllers read and write of one attempt, in whatever
\* order, is about one candidate.
THEOREM Phase1BestIsEligible == Phase1Spec => []BestIsEligible
  <1>1. SoleInv => BestIsEligible
    BY DEF SoleInv, Found, BestIsEligible
  <1> QED
    BY <1>1, SoleHolds, PTL

\* And the candidate either of them promotes is that of the attempt it ends.
THEOREM Phase1PromotesThisAttempt == Phase1Spec => []PromotesThisAttempt
  <1>1. SoleInv => PromotesThisAttempt
    BY DEF SoleInv, PromotesThisAttempt
  <1> QED
    BY <1>1, SoleHolds, PTL
=============================================================================
