-------------------------------- MODULE Phase3 --------------------------------
(***************************************************************************)
(* Phase 3 (src/phase3.py, src/phase3_workspace.py): the attempt replaces  *)
(* calculator.py in a repository of its own by one of two trusted sources, *)
(* runs the fixed tests on it and puts a MutationReceipt on record.        *)
(*                                                                         *)
(* world.source is what calculator.py holds, world.temporary whether       *)
(* _write_trusted's temporary file is there, world.tests how often the     *)
(* tests ran, world.writes how often the source was replaced.              *)
(***************************************************************************)
EXTENDS SingleAttempt

\* The mutations a child may choose; the second is the right one.
Mutations == {"filter_odd", "filter_even"}

ASSUME Phase3Assumption ==
    /\ Candidates = Mutations
    /\ Receipts = [mutation : Mutations, tree : Mutations, passed : BOOLEAN]
    /\ {"mutation_applied", "command_result"} \subseteq Observations

Untouched ==
    [repository |-> <<>>, recorded |-> FALSE, source |-> "baseline",
     temporary |-> FALSE, tests |-> 0, writes |-> 0]

Init == AttemptInit(Untouched)

\* apply: the new source is written beside the old one, if nothing is there yet.
WriteTemporary(s) ==
    /\ call[s].pc = "write_temporary"
    /\ \/ Raise(s)
       \/ /\ ~world.temporary
          /\ world' = [world EXCEPT !.temporary = TRUE]
          /\ Advance(s, At(s, "replace"))
    /\ UNCHANGED <<ledger, children, crashes>>

\* os.replace
Replace(s) ==
    /\ call[s].pc = "replace"
    /\ \/ Raise(s)
       \/ /\ world' = [world EXCEPT !.temporary = FALSE, !.source = call[s].answer,
                                    !.writes = @ + 1]
          /\ Advance(s, At(s, "hash_tree"))
    /\ UNCHANGED <<ledger, children, crashes>>

\* Mutant of HashTree: the baseline's hash is taken, from before the write.
HashBaseline(s) ==
    /\ call[s].pc = "hash_tree"
    /\ Advance(s, [At(s, "mutation_applied") EXCEPT !.tree = "baseline"])
    /\ UNCHANGED <<ledger, children, crashes, world>>

\* tree_hash raises when a file of the repository cannot be read.
HashTree(s) ==
    /\ call[s].pc = "hash_tree"
    /\ \/ Return(s)
       \/ Advance(s, [At(s, "mutation_applied") EXCEPT !.tree = world.source])
    /\ UNCHANGED <<ledger, children, crashes, world>>

\* Mutant of RunTests: the call's own mutation is judged, not the repository.
RunTestsUnread(s) ==
    /\ call[s].pc = "run_tests"
    /\ world' = [world EXCEPT !.tests = @ + 1]
    /\ Advance(s, [At(s, "command_result") EXCEPT !.passed = TRUE])
    /\ UNCHANGED <<ledger, children, crashes>>

\* evaluate: the tests pass on the right source, unless they time out.
RunTests(s) ==
    /\ call[s].pc = "run_tests"
    /\ \/ Raise(s)
       \/ /\ world' = [world EXCEPT !.tests = @ + 1]
          /\ \E passed \in {world.source = "filter_even", FALSE} :
                Advance(s, [At(s, "command_result") EXCEPT !.passed = passed])
    /\ UNCHANGED <<ledger, children, crashes>>

\* Mutant of MutationApplied: it is recorded with the attempt, once the tests are done.
NoteAfterTests(s) ==
    /\ call[s].pc = "mutation_applied"
    /\ Advance(s, At(s, "run_tests"))
    /\ UNCHANGED <<ledger, children, crashes, world>>

MutationApplied(s) == Note(s, "mutation_applied", "run_tests")

CommandResult(s) == Note(s, "command_result", "record_attempt")

RecordMutation(s) ==
    Record(s, Judged(s, [tests_pass       |-> call[s].passed,
                         mutation_matches |-> call[s].answer = "filter_even"]),
           [mutation |-> call[s].answer, tree |-> call[s].tree, passed |-> call[s].passed],
           "candidate_ready")

Mutate(s) ==
    \/ ObserveChild(s, "write_temporary")
    \/ WriteTemporary(s) \/ Replace(s) \/ HashTree(s) \/ MutationApplied(s)
    \/ RunTests(s) \/ CommandResult(s) \/ RecordMutation(s)

Proceed(s) == ProceedInLedger(s) \/ Mutate(s)

Next ==
    \/ \E i \in DOMAIN children : ChildEnds(i)
    \/ \E s \in Sessions : Work(s) \/ BeginCancel(s) \/ Proceed(s) \/ Vanish(s)

Spec == Init /\ [][Next]_vars

\* A call that is running goes on, and someone drives a run that is not finished.
Fairness == \A s \in Sessions : WF_vars(Proceed(s)) /\ WF_vars(Work(s))

FairSpec == Spec /\ Fairness

-----------------------------------------------------------------------------

\* Types of the ledger, of the calls and of the repository.
TypeOK ==
    /\ StoreTypeOK
    /\ call \in [Sessions -> Calls({"write_temporary", "replace", "hash_tree",
                                    "mutation_applied", "run_tests", "command_result"})]
    /\ children \in Seq(ChildStates)
    /\ crashes \in 0 .. MaxCrashes
    /\ world \in [repository : Seq(Rows(Repository)), recorded : BOOLEAN,
                  source : Mutations \cup {"baseline"}, temporary : BOOLEAN,
                  tests : Nat, writes : Nat]

\* "More than one mutation per run" is deferred, and an interrupted one "never reruns
\* effects": one child, one write, one run of the tests, whoever crashes or reconciles.
EffectsOnce == Len(children) <= 1 /\ world.writes <= 1 /\ world.tests <= 1

\* The run records mutation_applied before the tests are executed, and child_result
\* before the repository is touched: no crash leaves an effect without the record that
\* goes before it.  What is applied is the answer of a child that came to its end, not of
\* one the call gave up on.  And a run on record has its whole repository, whatever
\* stopped other creations.
EffectsOnRecord ==
    /\ world.recorded => world.repository = Repository
    /\ world.tests > 0 => Observed("mutation_applied") # {}
    /\ world.writes > 0 => Observed("child_result") # {} /\ "ended" \in Rows(children)

\* The retained repository bears the receipt out: what it says was applied, hashed and
\* tested is what calculator.py holds, and the evaluation beside it judged just that.
ReceiptTruthful ==
    \A i \in DOMAIN receipts :
        /\ receipts[i].mutation = world.source
        /\ receipts[i].tree = world.source
        /\ evaluations[i].candidate = world.source
        /\ evaluations[i].eligible =
              (receipts[i].passed /\ receipts[i].mutation = "filter_even")
        /\ receipts[i].passed => world.source = "filter_even"
=============================================================================
