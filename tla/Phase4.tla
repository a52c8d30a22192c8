-------------------------------- MODULE Phase4 --------------------------------
(***************************************************************************)
(* Phase 4 (src/phase4.py, src/phase4_sandbox.py): the attempt has a       *)
(* child's patch applied and tested in a Docker sandbox, retains what came *)
(* out as an artifact, and puts a SandboxReceipt on record.                *)
(*                                                                         *)
(* world.runner is the runner the plugin's files hold: the one create_run  *)
(* had approved, or another after an upgrade.  world.inputs is the patch   *)
(* laid out for the sandbox, world.executions the containers Docker was    *)
(* made to run, world.artifact what the artifact's directory holds.        *)
(***************************************************************************)
EXTENDS SingleAttempt

CONSTANTS
    Fixes,          \* the patches that make the fixed tests pass
    MaxUpgrades     \* bound on changes of the plugin's files

Runners == {"approved", "other"}

ASSUME Phase4Assumption ==
    /\ Fixes \subseteq Candidates
    /\ {"empty", None} \cap Candidates = {}
    /\ Receipts = [patch : Candidates, tree : Candidates, runner : Runners, passed : BOOLEAN]
    /\ "sandbox_result" \in Observations
    /\ MaxUpgrades \in Nat

Untouched ==
    [repository |-> <<>>, recorded |-> FALSE, runner |-> "approved", upgrades |-> 0,
     inputs |-> None, executions |-> <<>>, artifact |-> None]

Init == AttemptInit(Untouched)

\* The plugin is upgraded, or put back, under a run that is already approved.
Upgrade ==
    /\ world.upgrades < MaxUpgrades
    /\ \E runner \in Runners \ {world.runner} :
          world' = [world EXCEPT !.runner = runner, !.upgrades = @ + 1]
    /\ UNCHANGED <<ledger, call, children, crashes>>

\* run, first half: the baseline and the image are verified, then the patch is laid
\* out in a directory that must be new; what the file system refuses raises.
LayOut(s) ==
    /\ call[s].pc = "lay_out"
    /\ \/ Advance(s, Failing(s)) /\ UNCHANGED world
       \/ Raise(s)
       \/ /\ world.inputs = None
          /\ world' = [world EXCEPT !.inputs = call[s].answer]
          /\ Advance(s, At(s, "execute"))
    /\ UNCHANGED <<ledger, children, crashes>>

\* run, second half: Docker cannot be called, or starts a container, which reads the
\* patch and the runner through its mounts.
StartContainer(s) ==
    /\ call[s].pc = "execute"
    /\ \/ Raise(s)
       \/ /\ world' = [world EXCEPT !.executions =
                          Append(@, [patch |-> world.inputs, runner |-> world.runner,
                                     exited |-> FALSE])]
          /\ Advance(s, At(s, "await_container"))
    /\ UNCHANGED <<ledger, children, crashes>>

\* The container works in its own file system: all that it does is to come to an end.
ContainerExits(i) ==
    /\ ~world.executions[i].exited
    /\ world' = [world EXCEPT !.executions[i].exited = TRUE]
    /\ UNCHANGED <<ledger, call, children, crashes>>

\* The runner applied the patch and ran the tests, which may fail for want of resources too.
TestResults == {world.inputs \in Fixes, FALSE}

\* Mutant of SandboxResult: the hash of the tree is not read out of the output.
ResultUnhashed(s, passed) == [At(s, "identify") EXCEPT !.passed = passed]

\* _validate_output: what was printed is the approved patch applied to the baseline.
SandboxResult(s, passed) ==
    [At(s, "identify") EXCEPT !.tree = world.inputs, !.passed = passed]

\* The wait for the container is over before the container is, or the container failed
\* or printed what is not its contract; or the patch no longer fits the baseline, or that
\* cannot be read, which raises; or its result is taken.  A timeout ends the docker client
\* alone.
ReadContainer(s) ==
    /\ call[s].pc = "await_container"
    /\ \/ Advance(s, Failing(s))
       \/ Return(s)
       \/ /\ world.executions[Len(world.executions)].exited
          /\ \E passed \in TestResults : Advance(s, SandboxResult(s, passed))
    /\ UNCHANGED <<ledger, children, crashes, world>>

\* Mutant of Identify: the runner's hash is not compared with the RunSpec's.
IdentifyAny(s) ==
    /\ call[s].pc = "identify"
    /\ Advance(s, At(s, "make_directory"))
    /\ UNCHANGED <<ledger, children, crashes, world>>

\* The runner's files are hashed when the container is done; a runner that is not the
\* approved one raises, and the run stays running.
Identify(s) ==
    /\ call[s].pc = "identify"
    /\ IF world.runner = "approved" THEN Advance(s, At(s, "make_directory")) ELSE Return(s)
    /\ UNCHANGED <<ledger, children, crashes, world>>

\* _write_artifact, first half: a directory that must be new.
MakeDirectory(s) ==
    /\ call[s].pc = "make_directory"
    /\ \/ Raise(s)
       \/ /\ world.artifact = None
          /\ world' = [world EXCEPT !.artifact = "empty"]
          /\ Advance(s, At(s, "write_artifact"))
    /\ UNCHANGED <<ledger, children, crashes>>

\* Mutant of WriteArtifact: the write may fail and the attempt go on.
WriteArtifactLater(s) ==
    /\ call[s].pc = "write_artifact"
    /\ Advance(s, At(s, "record_attempt"))
    /\ UNCHANGED <<ledger, children, crashes, world>>

\* _write_artifact, second half: the temporary file is moved into place.
WriteArtifact(s) ==
    /\ call[s].pc = "write_artifact"
    /\ \/ Raise(s)
       \/ /\ world' = [world EXCEPT !.artifact = call[s].tree]
          /\ Advance(s, At(s, "record_attempt"))
    /\ UNCHANGED <<ledger, children, crashes>>

\* The receipt's runner is the hash that Identify compared with the approved one: a call
\* that found another did not come this far.
RecordSandbox(s) ==
    Record(s, Judged(s, [tests_pass |-> call[s].passed, output_matches |-> TRUE]),
           [patch |-> call[s].answer, tree |-> call[s].tree, runner |-> "approved",
            passed |-> call[s].passed],
           "sandbox_result")

SandboxNoted(s) == Note(s, "sandbox_result", "candidate_ready")

Patch(s) ==
    \/ ObserveChild(s, "lay_out")
    \/ LayOut(s) \/ StartContainer(s) \/ ReadContainer(s) \/ Identify(s)
    \/ MakeDirectory(s) \/ WriteArtifact(s) \/ RecordSandbox(s) \/ SandboxNoted(s)

Proceed(s) == ProceedInLedger(s) \/ Patch(s)

Next ==
    \/ Upgrade
    \/ \E i \in DOMAIN children : ChildEnds(i)
    \/ \E i \in DOMAIN world.executions : ContainerExits(i)
    \/ \E s \in Sessions : Work(s) \/ BeginCancel(s) \/ Proceed(s) \/ Vanish(s)

Spec == Init /\ [][Next]_vars

\* A call that is running goes on, and someone drives a run that is not finished.
Fairness == \A s \in Sessions : WF_vars(Proceed(s)) /\ WF_vars(Work(s))

FairSpec == Spec /\ Fairness

-----------------------------------------------------------------------------

\* Types of the ledger, of the calls and of what lies outside the ledger.
TypeOK ==
    /\ StoreTypeOK
    /\ call \in [Sessions -> Calls({"lay_out", "execute", "await_container", "identify",
                                    "make_directory", "write_artifact", "sandbox_result"})]
    /\ children \in Seq(ChildStates)
    /\ crashes \in 0 .. MaxCrashes
    /\ world.repository \in Seq(Rows(Repository))
    /\ world.recorded \in BOOLEAN
    /\ world.runner \in Runners
    /\ world.upgrades \in 0 .. MaxUpgrades
    /\ world.inputs \in Candidates \cup {None}
    /\ world.executions \in Seq([patch : Candidates, runner : Runners, exited : BOOLEAN])
    /\ world.artifact \in Candidates \cup {"empty", None}

\* "Reconciliation never reruns child, sandbox, patch, or tests": one child, one
\* execution, of one patch, whoever crashes or reconciles.
EffectsOnce == Len(children) <= 1 /\ Len(world.executions) <= 1

\* A receipt says what happened: the runner it names executed the patch it names, in a
\* container that came to its end, and the evaluation beside it judged what came out.
ReceiptTruthful ==
    \A i \in DOMAIN receipts :
        /\ [patch |-> receipts[i].patch, runner |-> receipts[i].runner, exited |-> TRUE]
              \in Rows(world.executions)
        /\ receipts[i].passed => receipts[i].patch \in Fixes
        /\ evaluations[i].candidate = receipts[i].tree
        /\ evaluations[i].eligible = receipts[i].passed

\* "The retained artifact": whenever a receipt names it, it is there, whole, and it is
\* the tree the receipt is about.
ArtifactRetained == \A i \in DOMAIN receipts : world.artifact = receipts[i].tree
=============================================================================
