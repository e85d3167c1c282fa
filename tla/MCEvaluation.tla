----------------------------- MODULE MCEvaluation -----------------------------
(* The way of a benchmark result, instantiated for TLC: the run that stores   *)
(* it, the container that executes its code, and the files its evaluation     *)
(* leaves.  The three share no state, so their interleavings add nothing: a   *)
(* behaviour is one of `part`, and the others stay as they began.             *)
EXTENDS BenchmarkRun

CONSTANTS Results, Kinds, Evaluators, Equipped,
          MaxInterrupts   \* MaxCancels of the sandbox

VARIABLES
    part,
    \* Sandbox
    sandboxPc, after, verdict, client, code, container, orphan, ran, rmFailed,
    hit, interrupts,
    \* EvaluationRuns
    run, stored, evaluator, made, spent, lost, written, files, summary, reader,
    dataset

Docker == INSTANCE Sandbox WITH
    pc <- sandboxPc, result <- verdict, cancels <- interrupts, MaxCancels <- MaxInterrupts

Evaluation == INSTANCE EvaluationRuns WITH
    pc <- evaluator

ASSUME DockerAssumption == Docker!SandboxAssumption
ASSUME DirectoryAssumption == Evaluation!EvaluationAssumption

sandbox == <<sandboxPc, after, verdict, client, code, container, orphan, ran,
             rmFailed, hit, interrupts>>
evaluation == <<run, stored, evaluator, made, spent, lost, written, files,
                summary, reader, dataset>>
allVars == <<part, vars, sandbox, evaluation>>

Moves(p) == part = p /\ UNCHANGED part

PartsInit ==
    /\ part \in {"run", "sandbox", "evaluation"}
    /\ Init /\ Docker!Init /\ Evaluation!Init

PartsNext ==
    \/ Moves("run") /\ Next /\ UNCHANGED <<sandbox, evaluation>>
    \/ Moves("sandbox") /\ Docker!Next /\ UNCHANGED <<vars, evaluation>>
    \/ Moves("evaluation") /\ Evaluation!Next /\ UNCHANGED <<vars, sandbox>>

\* The fairness of each component, where it is the one that moves.
PartsSpec ==
    /\ PartsInit /\ [][PartsNext]_allVars
    /\ WF_vars(part = "run" /\ Runner) /\ WF_vars(part = "run" /\ Workers)
    /\ WF_sandbox(part = "sandbox" /\ Docker!Timed)
    /\ \A e \in Evaluators :
          WF_evaluation(part = "evaluation" /\ Evaluation!Evaluate(e))

-----------------------------------------------------------------------------
(* Properties; the safety of the run itself is stated in BenchmarkRun.       *)

\* The type invariants of the components.
PartsTypeOK == TypeOK /\ Docker!TypeOK /\ Evaluation!TypeOK

\* When evaluate has ended with its removals successful, and no cancellation
\* struck while the client was being started or reaped, no container of it
\* runs on; and a candidate that was scored, other than by the wall clock, was
\* really run (sandbox.py 257-303).
OutcomeIsHonest == Docker!OutcomeIsHonest

\* A summary is never older than the files it summarises and agrees with them
\* when nobody else wrote; its rate is over what was judged, its costs are what
\* was spent; an exported label was earned (evaluation/repository.py,
\* aggregation.py; benchmarks/routing_export.py).
EvaluationsAreSound == Evaluation!EvaluationsAreSound

\* The run and its threads end, whatever fails and whoever cancels; evaluate
\* ends, even if the candidate or the daemon never does; an evaluation that
\* starts comes to an end, whatever its judge does.
EverythingEnds ==
    /\ part = "run" => Ends
    /\ part = "sandbox" => Docker!EvaluateEnds
    /\ Evaluation!EvaluationEnds
=============================================================================
