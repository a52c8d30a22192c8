-------------------------------- MODULE Phase1 --------------------------------
(***************************************************************************)
(* A run of Phase 1 (src/controller.py) behind the plugin's tools          *)
(* (src/__init__.py, src/tools.py).  It has one step and no memory, and two*)
(* controllers act on it: avo_create_run, avo_step and avo_cancel go to    *)
(* Phase1Controller, avo_reconcile to Phase2Controller, each behind the    *)
(* gate of its own phase.  avo_status, avo_lineage and avo_memory only     *)
(* read; avo_supervise finds the run never in supervision_required, as its *)
(* one step spends the budget, and raises.                                 *)
(*                                                                         *)
(* A call is one of Phase2's, which Phase1Controller shares but for the    *)
(* memory: call[s].op says whose it is.                                    *)
(***************************************************************************)
EXTENDS Phase2

VARIABLE
    gates           \* the gates that were open when register read the configuration

allVars == <<vars, gates>>

\* The RunSpec of create_run: one step, and supervision after one failure.
OneStep == MaxSteps = 1 /\ NoProgressLimit = 1

Gates == {"phase1_enabled", "phase2_enabled"}

\* avo_create_run has got past its gate and made the run; it is about to approve it.
Phase1Init ==
    /\ OneStep
    /\ StoreInit
    /\ \E creator \in Sessions :
          call = [s \in Sessions |->
                     IF s = creator THEN [NoCall EXCEPT !.op = "phase1_create", !.pc = "approve"]
                                    ELSE NoCall]
    /\ launches = [variation |-> 0, supervisor |-> 0]
    /\ crashes = 0
    /\ gates \in {g \in SUBSET Gates : "phase1_enabled" \in g}

-----------------------------------------------------------------------------
\* The tools, on a run whose id starts with "phase1-".

AvoStep(s) ==
    /\ "phase1_enabled" \in gates
    /\ run.status = "ready"
    /\ Begin(s, "phase1_step", "start_step")

\* Mutant of AvoCancel: an attempt in flight may be cancelled.
AvoCancelAnytime(s) ==
    /\ "phase1_enabled" \in gates
    /\ run.status \notin Terminal
    /\ Begin(s, "phase1_cancel", "cancel")

AvoCancel(s) ==
    /\ "phase1_enabled" \in gates
    /\ run.status \notin Active \cup Terminal
    /\ Begin(s, "phase1_cancel", "cancel")

\* Mutant of AvoReconcile: only runs of Phase 2 are let through to their controller.
AvoReconcileOwn(s) == FALSE /\ BeginReconcile(s)

\* phase2_only_handler turns the runs of Phases 3 and 4 away, and no others.
AvoReconcile(s) ==
    /\ "phase2_enabled" \in gates
    /\ BeginReconcile(s)

\* The process ends, with every call it was in; the next one registers the plugin anew,
\* and reads a configuration that may have changed.
Restart ==
    /\ crashes < MaxCrashes
    /\ crashes' = crashes + 1
    /\ call' = [s \in Sessions |-> NoCall]
    /\ gates' \in SUBSET Gates
    /\ UNCHANGED <<ledger, launches>>

-----------------------------------------------------------------------------

Tool(s) == (AvoStep(s) \/ AvoReconcile(s)) /\ UNCHANGED gates

GoOn(s) == Proceed(s) /\ UNCHANGED gates

Phase1Next ==
    \/ \E s \in Sessions :
          \/ Tool(s) \/ GoOn(s)
          \/ (AvoCancel(s) \/ Vanish(s)) /\ UNCHANGED gates
    \/ Restart

\* A call that is running goes on, and someone drives a run that is not finished.
Phase1Spec ==
    /\ Phase1Init
    /\ [][Phase1Next]_allVars
    /\ \A s \in Sessions : WF_allVars(GoOn(s)) /\ WF_allVars(Tool(s))

-----------------------------------------------------------------------------

\* A step that was cut off is Phase 2's to finish: with that gate open for good, an
\* attempt ends whoever dies, restarts or reconciles, be Phase 1's own gate closed by
\* then.  With Phase 2's closed no tool ends it.
AttemptFinishes ==
    <>[]("phase2_enabled" \in gates) =>
        ((run.status \in Active) ~> (run.status \in Terminal))

\* The run is worked on to its end once both gates stay open.
RunFinishesGated == <>[](gates = Gates) => RunFinishes
=============================================================================
