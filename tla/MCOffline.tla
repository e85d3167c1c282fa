------------------------------ MODULE MCOffline ------------------------------
(* What is decided, judged and bought away from a user's request, instantiated *)
(* for TLC: the routing decision, the folds and policies it was studied with,  *)
(* the predictor artifact it is shipped as, the gates of the paid commands and *)
(* the dry runs before them, the judges of summaries and the evaluators of     *)
(* JSON.  The eight share no state: a behaviour is one of `part`, and the      *)
(* others stay as they began.                                                  *)
EXTENDS RoutingRequests

CONSTANTS NumFolds, NumCategories, PerFold, Profiles,       \* GroupedFolds
          Requests, FoldOf, NumCandidates, Projected, Realizations, Predictions,
          CostScore, Rule, Labels, Thresholds,              \* OfflinePolicies
          Builders, Approved, Identifiers, Known,           \* PredictorArtifact
          MaxEdits, Selections,                             \* PaidExecution
          MaxReplacements, \* bound: how often a file is replaced during a dry run
          Props, Weight, Equivalences, Derivations, Passing, \* Judging
          Grades,                                           \* SummaryJudging
          Segments, Keys, KeyLists, InnerLists, Leaves       \* StaticScoring

VARIABLES
    part,
    \* GroupedFolds
    builder, label, category, queue, fold, phase, current, oof, platt,
    \* OfflinePolicies
    verdict, probability, realized,
    \* PredictorArtifact
    model, metadata, build, expected, app, wanted, loaded, refusal, configured,
    prediction,
    \* PaidExecution
    disk, edits, args, stage, read, ran, judged,
    \* PilotReadiness
    inputs, replacements, dirty, kind, reads, report,
    \* SummaryJudging
    judging, passed, deterministic, judge, judgeReply, outcome, kept,
    \* StaticScoring
    reference, predicted, scores

Dealing == INSTANCE GroupedFolds

Offline == INSTANCE OfflinePolicies WITH label <- verdict, Tasks <- Requests

Artifact == INSTANCE PredictorArtifact WITH
    candidates <- configured, Candidates <- Identifiers

Gates == INSTANCE PaidExecution

Pilot == INSTANCE PilotReadiness WITH
    disk <- inputs, edits <- replacements, seen <- reads, MaxEdits <- MaxReplacements

Judges == INSTANCE SummaryJudging WITH
    stage <- judging, reply <- judgeReply, result <- kept,
    Levels <- Grades, Threshold <- Passing

Scoring == INSTANCE StaticScoring WITH expected <- reference

ASSUME QuestionAssumption == RoutingAssumption
ASSUME StudyAssumption == Offline!DatasetAssumption
ASSUME DealAssumption == Dealing!FoldsAssumption
ASSUME InstalledAssumption == Artifact!ArtifactAssumption
ASSUME PaidAssumption == Gates!GatesAssumption
ASSUME JudgesAssumption == Judges!SpecificationIsValid /\ Judges!LevelsAssumption
ASSUME ScoringAssumption == Scoring!DocumentsAssumption

-----------------------------------------------------------------------------
(* The values of the constants that TLC checks.                              *)

\* What two candidates' labels of one task come to.
Profile(p, n, m) == [positive |-> p, negative |-> n, missing |-> m]
MCProfiles == {Profile(1, 1, 0), Profile(2, 0, 0), Profile(0, 0, 2)}

\* Two tasks in folds of their own and three candidates; the second task's
\* probabilities mirror the first's.
MCRequests == 1..2
MCFoldOf == <<1, 2>>
MCProjected == << <<1, 2, 3>>, <<2, 2, 1>> >>
MCRealizations == {<< <<1, 2, 3>>, <<2, 3, 1>> >>, << <<3, 1, 1>>, <<1, 1, 2>> >>}
MCPredictions == {<< <<a, b, c>>, <<c, b, a>> >> : a, b, c \in 1..3}
MCCostScore == <<2, 1, 2>>
MCRule == <<3, 2>>
MCLabels == {[status |-> "missing", acceptable |-> FALSE, quality |-> 0],
             [status |-> "valid", acceptable |-> FALSE, quality |-> 1],
             [status |-> "valid", acceptable |-> TRUE, quality |-> 2]}

\* Two propositions of unequal weight.  "a" has a listed equivalence; "b" may
\* be derived once "a" is entailed, and has a rule that is listed as never
\* usable and one that always is.
MCProps == {"a", "b"}
MCWeight == [a |-> 4, b |-> 1]
MCEquivalences == [a |-> {"eq"}, b |-> {}]
MCDerivations ==
    [a |-> <<>>,
     b |-> [d \in {"cond", "never", "always"} |->
        [policy |-> CASE d = "cond" -> "CONDITIONAL" [] d = "never" -> "NOT_ALLOWED"
                      [] OTHER -> "ALLOWED",
         requires |-> IF d = "cond" THEN {"a"} ELSE {}]]]
MCPassing == <<4, 5>>
MCGrades == {<<0, 1>>, <<3, 4>>, <<4, 5>>, <<1, 1>>}

\* The keys "a", "b" and "a.b", which joins to the path of "b" within "a".  The
\* values are strings that agree when normalised, and a number and a truth value
\* that are written alike.
MCKeys == {<<"a">>, <<"b">>, <<"a", "b">>}
MCKeyLists == {<<>>, << <<"a">> >>, << <<"a", "b">> >>, << <<"a">>, <<"b">> >>,
             << <<"a">>, <<"a", "b">> >>, << <<"a", "b">>, <<"a">> >>}
MCInnerLists == {<<>>, << <<"b">> >>}
MCLeaves == {<<"str", "x">>, <<"str", "X">>, <<"int", "1">>, <<"bool", "1">>}

-----------------------------------------------------------------------------
dealing == <<builder, label, category, queue, fold, phase, current, oof, platt>>
offline == <<verdict, probability, realized>>
artifact == <<model, metadata, build, expected, app, wanted, loaded, refusal,
              configured, prediction>>
gates == <<disk, edits, args, stage, read, ran, judged>>
pilot == <<inputs, replacements, dirty, kind, reads, report>>
summaries == <<judging, passed, deterministic, judge, judgeReply, outcome, kept>>
documents == <<reference, predicted, scores>>
allVars == <<part, vars, dealing, offline, artifact, gates, pilot, summaries, documents>>

\* One initial state of each, for when it does not move.
FoldsRest ==
    /\ builder = "grouped"
    /\ label = [t \in Dealing!Tasks |-> CHOOSE p \in Profiles : TRUE]
    /\ Dealing!Init
DecisionRests ==
    /\ candidates = <<>>
    /\ cost = [m \in Models |-> CHOOSE c \in Costs : TRUE]
    /\ threshold = (CHOOSE l \in Levels : TRUE)
    /\ Init
OfflineRests ==
    /\ verdict = [t \in Requests |-> [c \in 1..NumCandidates |-> CHOOSE l \in Labels : TRUE]]
    /\ probability = (CHOOSE p \in Predictions : TRUE)
    /\ realized = (CHOOSE r \in Realizations : TRUE)
    /\ Offline!Init
ArtifactRests ==
    model = "none" /\ configured = <<CHOOSE i \in Identifiers : TRUE>> /\ Artifact!Init
GatesRest ==
    /\ disk = [dataset |-> "v12", protocol |-> "p12", pricing |-> "ready", split |-> "frozen"]
    /\ args = [key |-> TRUE, models |-> CHOOSE s \in Selections : TRUE, allow |-> TRUE,
               limit |-> TRUE, protocol |-> TRUE, split |-> "train", gate |-> FALSE,
               identities |-> FALSE]
    /\ Gates!Init
PilotRests == inputs = [f \in Pilot!Names |-> "frozen"] /\ kind = "pilot" /\ Pilot!Init
JudgesRest == judge = "hybrid" /\ Judges!Init
ScoringRests == reference = Scoring!Node(<<>>, <<>>) /\ Scoring!Init

PartsInit ==
    \/ /\ part = "folds"
       /\ DecisionRests /\ OfflineRests /\ ArtifactRests /\ GatesRest
       /\ PilotRests /\ JudgesRest /\ ScoringRests
       /\ Dealing!Init
    \/ /\ part = "decision"
       /\ FoldsRest /\ OfflineRests /\ ArtifactRests /\ GatesRest
       /\ PilotRests /\ JudgesRest /\ ScoringRests
       /\ Init
    \/ /\ part = "offline"
       /\ FoldsRest /\ DecisionRests /\ ArtifactRests /\ GatesRest
       /\ PilotRests /\ JudgesRest /\ ScoringRests
       /\ Offline!Init
    \/ /\ part = "artifact"
       /\ FoldsRest /\ DecisionRests /\ OfflineRests /\ GatesRest
       /\ PilotRests /\ JudgesRest /\ ScoringRests
       /\ Artifact!Init
    \/ /\ part = "gates"
       /\ FoldsRest /\ DecisionRests /\ OfflineRests /\ ArtifactRests
       /\ PilotRests /\ JudgesRest /\ ScoringRests
       /\ Gates!Init
    \/ /\ part = "pilot"
       /\ FoldsRest /\ DecisionRests /\ OfflineRests /\ ArtifactRests
       /\ GatesRest /\ JudgesRest /\ ScoringRests
       /\ Pilot!Init
    \/ /\ part = "judges"
       /\ FoldsRest /\ DecisionRests /\ OfflineRests /\ ArtifactRests
       /\ GatesRest /\ PilotRests /\ ScoringRests
       /\ Judges!Init
    \/ /\ part = "scoring"
       /\ FoldsRest /\ DecisionRests /\ OfflineRests /\ ArtifactRests
       /\ GatesRest /\ PilotRests /\ JudgesRest
       /\ Scoring!Init

Moves(p) == part = p /\ UNCHANGED part

PartsNext ==
    \/ /\ Moves("folds") /\ Dealing!Next
       /\ UNCHANGED <<vars, offline, artifact, gates, pilot, summaries, documents>>
    \/ /\ Moves("decision") /\ Next
       /\ UNCHANGED <<dealing, offline, artifact, gates, pilot, summaries, documents>>
    \/ /\ Moves("offline") /\ Offline!Next
       /\ UNCHANGED <<vars, dealing, artifact, gates, pilot, summaries, documents>>
    \/ /\ Moves("artifact") /\ Artifact!Next
       /\ UNCHANGED <<vars, dealing, offline, gates, pilot, summaries, documents>>
    \/ /\ Moves("gates") /\ Gates!Next
       /\ UNCHANGED <<vars, dealing, offline, artifact, pilot, summaries, documents>>
    \/ /\ Moves("pilot") /\ Pilot!Next
       /\ UNCHANGED <<vars, dealing, offline, artifact, gates, summaries, documents>>
    \/ /\ Moves("judges") /\ Judges!Next
       /\ UNCHANGED <<vars, dealing, offline, artifact, gates, pilot, documents>>
    \/ /\ Moves("scoring") /\ Scoring!Next
       /\ UNCHANGED <<vars, dealing, offline, artifact, gates, pilot, summaries>>

PartsSpec == PartsInit /\ [][PartsNext]_allVars

-----------------------------------------------------------------------------
(* Properties; DecisionIsJustified is stated in RoutingRequests.  Costly ones *)
(* are not asked again of a component that stays as it began.                 *)

\* The type invariants of the components.
PartsTypeOK ==
    /\ part = "folds" => Dealing!TypeOK
    /\ Artifact!TypeOK /\ Gates!TypeOK /\ Pilot!TypeOK /\ Judges!TypeOK

\* Labels go into balanced folds, and never into the prediction of their own task
\* (routing/ml_features.py, phase9_retraining.py).
LabelsGoWhereDealt == part = "folds" => Dealing!LabelsGoWhereDealt

\* What docs/routing-policy.md claims of the exploratory calibration of
\* routing/calibration_analysis.py: no calibrated probability rests on a label of
\* its own fold.
CalibrationIsOutOfFold == Dealing!CalibrationIsOutOfFold

\* No policy beats the oracle on what has been observed, the studied rule chooses
\* what the serving one does, dominance and frontiers order the policies, and
\* disagreements account for every difference (routing/analysis.py,
\* ml_policy_validation.py, calibration_analysis.py, ml_diagnostics.py).
ComparisonsAreSound == part = "offline" => Offline!ComparisonsAreSound

\* A mixed pair of artifact files is noticed, what serves is what its metadata
\* vouched for, and a serving application never refuses its own candidates
\* (routing/predictor.py, adaptive.py).
ArtifactIsWhole == Artifact!ArtifactIsWhole

\* No paid call without consent; under a protocol the frozen dataset, evidence and
\* configuration of every candidate it lists; a family the split manifest holds
\* out only through the gate; and a pilot is declared ready only on frozen files,
\* as far as nobody replaces them between two reads (benchmarks/__main__.py,
\* benchmarks/execution_readiness.py).
PaidPathIsGuarded ==
    Gates!GatesHold /\ Pilot!ReadyMeansFrozen /\ Pilot!PinnedInputsAreFrozen

\* A summary is accepted when the judge's reply grounds it and not without, only a
\* usable rubric without doubt decides, and an answer that arrived is paid for in
\* the record (evaluation/hybrid_judge.py, evaluation/service.py).
JudgementIsJustified == Judges!JudgementIsJustified

\* What README.md claims of the flat rubric: the threshold applies to the average
\* of its three dimensions.
DimensionsAreAveraged == Judges!DimensionsAreAveraged

\* Extraction and JSON scores lie between zero and one, and full marks mean that
\* the flattened values agree, value by value and type by type, and the documents
\* do where no key has a "." or a "[" (evaluators.py, normalization.py).
ScoresMeasureAgreement == part = "scoring" => Scoring!ScoresMeasureAgreement

\* What a change may do: a higher threshold never makes the routed model cheaper
\* while some model meets it, a reordered list changes no decision, a new label
\* steers no selection within its own fold, and a startup goes on only with sound
\* metadata, which in production vouches for the approved build.
ChangesAreSound ==
    [][/\ part = "decision" => DearerWithThreshold /\ OrderIndependent
       /\ part = "offline" => Offline!HeldOutStep
       /\ Artifact!OnlySoundArtifactsServe]_allVars
=============================================================================
