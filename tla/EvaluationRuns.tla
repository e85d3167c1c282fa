--------------------------- MODULE EvaluationRuns ---------------------------
(***************************************************************************)
(* Offline evaluation of one stored benchmark run: EvaluationService       *)
(* (evaluation/service.py), its file repository (evaluation/repository.py), *)
(* the summary it aggregates (evaluation/aggregation.py) and the routing   *)
(* dataset exported from the files (benchmarks/routing_export.py).         *)
(*                                                                         *)
(* The run is still being produced while it is evaluated; evaluators are   *)
(* separate processes that share nothing but the run's directory and may   *)
(* stop between any two writes; the exporter reads the files one by one.   *)
(* Each file is replaced atomically (_write), the set of files is not.     *)
(***************************************************************************)
EXTENDS Integers, FiniteSets

CONSTANTS
    Results,    \* 1..n: the run's task/model pairs, in file-name order
    Kinds,      \* what a pair may turn out to be
    Evaluators, \* processes that evaluate the run
    Equipped    \* those started with a semantic judge and a sandbox

EvaluationAssumption ==
    /\ Equipped \subseteq Evaluators
    /\ Results \subseteq Int /\ IsFiniteSet(Results) /\ Results # {}

VARIABLES
    run,     \* status.json: "running", "completed", "aborted"
    stored,  \* stored[r]: the BenchmarkResult, by kind
    pc,      \* pc[e]: what an evaluator is doing
    made,    \* made[e][r]: the EvaluationResult it computed
    spent,   \* spent[e]: what judge providers charged it
    lost,    \* lost[e]: the part of it charged for calls that failed
    written, \* written[e]: the evaluation files it has replaced
    files,   \* evaluations/<result>.json
    summary, \* evaluation-summary.json
    reader,  \* the exporter: what it has read
    dataset  \* routing-dataset.jsonl

vars == <<run, stored, pc, made, spent, lost, written, files, summary, reader, dataset>>
inputs == <<run, stored>>
disk == <<files, summary>>

None == [by |-> "none"]
Failed == {"failed_unpriced", "failed_priced"}

Init ==
    /\ run = "running"
    /\ stored = [r \in Results |-> "none"]
    /\ pc = [e \in Evaluators |-> "idle"]
    /\ made = [e \in Evaluators |-> [r \in Results |-> None]]
    /\ spent = [e \in Evaluators |-> 0]
    /\ lost = [e \in Evaluators |-> 0]
    /\ written = [e \in Evaluators |-> {}]
    /\ files = [r \in Results |-> None]
    /\ summary = None
    /\ reader = [stage |-> "idle", listed |-> {}, read |-> [r \in Results |-> None]]
    /\ dataset = [r \in Results |-> None]

-----------------------------------------------------------------------------
(* The benchmark runner, as BenchmarkRun.tla models it: results are stored *)
(* one at a time and the final status is written last.                     *)
StoreResult(r) ==
    /\ run = "running" /\ stored[r] = "none"
    /\ \A q \in Results : q < r => stored[q] # "none"
    /\ \E k \in Kinds : stored' = [stored EXCEPT ![r] = k]
    /\ UNCHANGED <<run, pc, made, spent, lost, written, disk, reader, dataset>>

FinishRun ==
    /\ run = "running"
    /\ run' = IF \A r \in Results : stored[r] # "none" THEN "completed" ELSE "aborted"
    /\ UNCHANGED <<stored, pc, made, spent, lost, written, disk, reader, dataset>>

(* FileEvaluationRepository.load_run accepts a run that is marked          *)
(* completed and holds exactly one result per selected pair.               *)
Loadable == run = "completed" /\ \A r \in Results : stored[r] # "none"

Load(e) ==
    /\ pc[e] = "idle"
    /\ pc' = [pc EXCEPT ![e] = IF Loadable THEN "evaluating" ELSE "refused"]
    /\ UNCHANGED <<inputs, made, spent, lost, written, disk, reader, dataset>>

-----------------------------------------------------------------------------
(* One iteration of EvaluationService.evaluate.  charged is what a judge   *)
(* provider took; forgone is what it took for a call that then failed,     *)
(* which leaves no usage to report.                                        *)
Record(e, status, acceptable, call, cost) ==
    [by |-> e, status |-> status, acceptable |-> acceptable, call |-> call, cost |-> cost]

NextResult(e, r) ==
    pc[e] = "evaluating" /\ made[e][r] = None /\ \A q \in Results : q < r => made[e][q] # None

Keep(e, r, record, charged, forgone) ==
    /\ made' = [made EXCEPT ![e][r] = record]
    /\ spent' = [spent EXCEPT ![e] = @ + charged]
    /\ lost' = [lost EXCEPT ![e] = @ + forgone]
    /\ UNCHANGED <<inputs, pc, written, disk, reader, dataset>>

(* Evaluator.evaluate on a call that failed: nothing to score.             *)
CallFailure(e, r) ==
    /\ NextResult(e, r) /\ stored[r] \in Failed
    /\ Keep(e, r, Record(e, "partial", "none", FALSE, 0), 0, 0)

(* The category evaluators that need no help.                              *)
ScoreDirectly(e, r) ==
    /\ NextResult(e, r) /\ stored[r] = "exact"
    /\ \E v \in {"yes", "no"} : Keep(e, r, Record(e, "evaluated", v, FALSE, 0), 0, 0)

(* CodingEvaluator, then _evaluate_functionally when a sandbox is there; a *)
(* sandbox that fails leaves the static record as it was.                  *)
ScoreFunctionally(e, r) ==
    /\ NextResult(e, r) /\ stored[r] = "coding"
    /\ \/ Keep(e, r, Record(e, "requires_functional_execution", "none", FALSE, 0), 0, 0)
       \/ /\ e \in Equipped
          /\ \E v \in {"yes", "no"} : Keep(e, r, Record(e, "evaluated", v, FALSE, 0), 0, 0)

(* A summary and no judge: the record keeps waiting for one.               *)
JudgeUnequipped(e, r) ==
    /\ NextResult(e, r) /\ stored[r] = "summary" /\ e \notin Equipped
    /\ Keep(e, r, Record(e, "requires_semantic_judge", "none", FALSE, 0), 0, 0)

(* _evaluate_semantically: a verdict, an unusable answer that was paid for, *)
(* or a failed call that may have been charged.                            *)
Judge(e, r) ==
    /\ NextResult(e, r) /\ stored[r] = "summary" /\ e \in Equipped
    /\ \/ \E v \in {"yes", "no"} : Keep(e, r, Record(e, "evaluated", v, TRUE, 1), 1, 0)
       \/ Keep(e, r, Record(e, "requires_semantic_judge", "none", TRUE, 1), 1, 0)
       \/ \E c \in 0..1 : Keep(e, r, Record(e, "requires_semantic_judge", "none", TRUE, 0), c, c)

(* A KeyError, TypeError or ValueError from a task's metadata ends the     *)
(* whole evaluation; what was judged so far is dropped.                    *)
AbortEvaluation(e, r) ==
    /\ NextResult(e, r) /\ stored[r] \notin Failed
    /\ pc' = [pc EXCEPT ![e] = "failed"]
    /\ UNCHANGED <<inputs, made, spent, lost, written, disk, reader, dataset>>

-----------------------------------------------------------------------------
(* aggregate: what got no verdict is counted as incomplete, a call that    *)
(* failed included (its record is "partial", evaluators.py 45-55); a failed *)
(* call's cost counts when its error recorded one.                         *)
KnownCost(kind) == IF kind = "failed_unpriced" THEN 0 ELSE 1

Evaluated(e) == {r \in Results : made[e][r].status = "evaluated"}

(* A cost is one unit or nothing, so that a sum of costs is a count.       *)
Total(f) == Cardinality({r \in DOMAIN f : f[r] = 1})

aggregate(e) ==
    [by |-> e,
     fully |-> Cardinality(Evaluated(e)),
     incomplete |-> Cardinality(Results \ Evaluated(e)),
     acceptable |-> Cardinality({r \in Evaluated(e) : made[e][r].acceptable = "yes"}),
     candidate |-> Total([r \in Results |-> KnownCost(stored[r])]),
     judge |-> Total([r \in Results |-> made[e][r].cost]),
     calls |-> Cardinality({r \in Results : made[e][r].call})]

StartSaving(e) ==
    /\ pc[e] = "evaluating" /\ \A r \in Results : made[e][r] # None
    /\ pc' = [pc EXCEPT ![e] = "saving"]
    /\ UNCHANGED <<inputs, made, spent, lost, written, disk, reader, dataset>>

(* FileEvaluationRepository.save: one evaluation file after another ...    *)
WriteEvaluation(e, r) ==
    /\ pc[e] = "saving" /\ r \notin written[e]
    /\ \A q \in Results : q < r => q \in written[e]
    /\ files' = [files EXCEPT ![r] = made[e][r]]
    /\ written' = [written EXCEPT ![e] = @ \cup {r}]
    /\ UNCHANGED <<inputs, pc, made, spent, lost, summary, reader, dataset>>

(* ... and the summary last.                                               *)
WriteSummary(e) ==
    /\ pc[e] = "saving" /\ written[e] = Results
    /\ summary' = aggregate(e)
    /\ pc' = [pc EXCEPT ![e] = "done"]
    /\ UNCHANGED <<inputs, made, spent, lost, written, files, reader, dataset>>

(* The process dies, or a write raises and save gives up where it is.      *)
Stop(e) ==
    /\ pc[e] \in {"evaluating", "saving"}
    /\ pc' = [pc EXCEPT ![e] = "stopped"]
    /\ UNCHANGED <<inputs, made, spent, lost, written, disk, reader, dataset>>

-----------------------------------------------------------------------------
(* export_routing_dataset: load_run, list the evaluation files, read them  *)
(* one at a time, refuse if any result had none.                           *)
StartExport ==
    /\ reader.stage = "idle"
    /\ reader' = [reader EXCEPT !.stage = IF Loadable THEN "reading" ELSE "refused",
                                !.listed = {r \in Results : files[r] # None}]
    /\ UNCHANGED <<inputs, pc, made, spent, lost, written, disk, dataset>>

Unread == {r \in reader.listed : reader.read[r] = None}

ReadEvaluation(r) ==
    /\ reader.stage = "reading" /\ r \in Unread /\ \A q \in Unread : r <= q
    /\ reader' = [reader EXCEPT !.read[r] = files[r]]
    /\ UNCHANGED <<inputs, pc, made, spent, lost, written, disk, dataset>>

ExportRefused ==
    /\ reader.stage = "reading" /\ Unread = {} /\ reader.listed # Results
    /\ reader' = [reader EXCEPT !.stage = "refused"]
    /\ UNCHANGED <<inputs, pc, made, spent, lost, written, disk, dataset>>

Row_Unguarded(r) ==
    [by |-> reader.read[r].by, label |-> IF reader.read[r].acceptable = "yes" THEN "yes" ELSE "no"]

(* A row's label; RoutingDatasetRow refuses any other combination.         *)
Row(r) ==
    [by |-> reader.read[r].by,
     label |-> IF stored[r] \in Failed THEN "missing"
               ELSE IF reader.read[r].status # "evaluated" THEN "missing"
               ELSE reader.read[r].acceptable]

WriteDataset ==
    /\ reader.stage = "reading" /\ Unread = {} /\ reader.listed = Results
    /\ dataset' = [r \in Results |-> Row(r)]
    /\ reader' = [reader EXCEPT !.stage = "done"]
    /\ UNCHANGED <<inputs, pc, made, spent, lost, written, disk>>

-----------------------------------------------------------------------------
Evaluate(e) ==
    \/ \E r \in Results :
          \/ CallFailure(e, r) \/ ScoreDirectly(e, r) \/ ScoreFunctionally(e, r)
          \/ JudgeUnequipped(e, r) \/ Judge(e, r) \/ WriteEvaluation(e, r)
    \/ StartSaving(e) \/ WriteSummary(e)

Next ==
    \/ \E r \in Results : StoreResult(r)
    \/ FinishRun
    \/ \E e \in Evaluators :
          Load(e) \/ Evaluate(e) \/ Stop(e) \/ \E r \in Results : AbortEvaluation(e, r)
    \/ StartExport \/ ExportRefused \/ WriteDataset
    \/ \E r \in Results : ReadEvaluation(r)

Spec == Init /\ [][Next]_vars

(* An evaluator is one coroutine that is never blocked on another.         *)
FairSpec == Spec /\ \A e \in Evaluators : WF_vars(Evaluate(e))

-----------------------------------------------------------------------------
TypeOK ==
    /\ run \in {"running", "completed", "aborted"}
    /\ stored \in [Results -> Kinds \cup {"none"}]
    /\ pc \in [Evaluators -> {"idle", "refused", "evaluating", "saving", "done", "failed", "stopped"}]
    /\ \A e \in Evaluators : /\ lost[e] \in 0..spent[e]
                             /\ written[e] \subseteq Results
                             /\ pc[e] # "idle" /\ pc[e] # "refused" => run = "completed"
    /\ \A r \in Results : files[r] # None =>
          (files[r].status = "evaluated") <=> (files[r].acceptable # "none")

(* A summary is on disk only once every evaluation file it summarises has  *)
(* been replaced by the same evaluator: a reader who finds the summary     *)
(* finds no evaluation older than it (repository.py save).                 *)
SummaryFollowsFiles ==
    summary # None =>
        /\ written[summary.by] = Results
        /\ \A r \in Results : files[r] # None

(* The rate's denominator is the responses that were given a verdict by    *)
(* the evaluator whose summary it is: every result is either one of them   *)
(* or reported incomplete, so a judge or a sandbox that failed moves no    *)
(* response from one side of the rate to the other.                        *)
RateIsOverJudged ==
    summary # None =>
        /\ summary.fully = Cardinality({r \in Results : made[summary.by][r].acceptable # "none"})
        /\ summary.fully + summary.incomplete = Cardinality(Results)
        /\ summary.acceptable <= summary.fully

(* What the summary reports of the judges is what they charged, but for    *)
(* calls that failed; what it reports of the candidates is a lower bound   *)
(* of what they charged: it leaves out no call that answered and counts    *)
(* none whose cost nobody knows (README.md 586-587, "a lower bound rather  *)
(* than an invoice").                                                      *)
SpendingIsReported ==
    summary # None =>
        /\ summary.judge + lost[summary.by] = spent[summary.by]
        /\ Cardinality({r \in Results : stored[r] \notin Failed}) <= summary.candidate
        /\ summary.candidate <= Cardinality({r \in Results : stored[r] # "failed_unpriced"})

(* README.md 586-587: "Failed calls have unknown cost and contribute zero  *)
(* to the known-cost total"; _known_candidate_cost (aggregation.py 11-19)  *)
(* adds the cost a failed call's error details carry.                      *)
FailedCallsCostNothing ==
    summary # None =>
        summary.candidate = Cardinality({r \in Results : stored[r] \notin Failed})

(* A label exported for training is a verdict that some evaluator gave on  *)
(* a response that arrived, and the one its file held.                     *)
LabelsAreEarned ==
    \A r \in Results : dataset[r] # None =>
        IF dataset[r].label = "missing"
        THEN stored[r] \in Failed \/ made[dataset[r].by][r].acceptable = "none"
        ELSE stored[r] \notin Failed /\ made[dataset[r].by][r].acceptable = dataset[r].label

(* An evaluation that had the directory to itself and finished left a      *)
(* summary and files that tell the same story.                             *)
UndisturbedIsConsistent ==
    \A e \in Evaluators :
        (pc[e] = "done" /\ \A d \in Evaluators \ {e} : written[d] = {}) =>
            summary.by = e /\ \A r \in Results : files[r] = made[e][r]

(* The files, the summary and the exported labels tell what was judged and *)
(* spent, whoever else writes to the directory and wherever an evaluator   *)
(* stops; all of them agree when it had the directory to itself.           *)
EvaluationsAreSound ==
    /\ UndisturbedIsConsistent /\ SummaryFollowsFiles
    /\ RateIsOverJudged /\ SpendingIsReported /\ LabelsAreEarned

(* An evaluation that starts comes to an end, whatever its judge does.     *)
EvaluationEnds ==
    \A e \in Evaluators :
        pc[e] = "evaluating" ~> pc[e] \in {"done", "failed", "stopped"}
=============================================================================
