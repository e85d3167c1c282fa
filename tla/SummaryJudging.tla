--------------------------- MODULE SummaryJudging ---------------------------
(***************************************************************************)
(* One stored summary, from its deterministic checks through a judge call  *)
(* to its EvaluationResult, over every reply the judge's provider can give: *)
(* failed calls that were or were not charged, text that is not JSON, a    *)
(* rubric that skips, repeats or misuses something, and every rubric the   *)
(* contract admits.                                                        *)
(***************************************************************************)
EXTENDS Judging

CONSTANTS
    Levels \* the scores a flat rubric reports

(* Scores are fractions between 0 and 1.  The threshold is 0.8              *)
(* unless the task states its own; at a threshold of zero every evaluated   *)
(* summary is acceptable, vetoed or not, and there is nothing to ground.    *)
LevelsAssumption ==
    /\ Levels \subseteq Nat \X (Nat \ {0}) /\ \A level \in Levels : level[1] <= level[2]
    /\ Threshold \in (Nat \ {0}) \X (Nat \ {0}) /\ Threshold[1] <= Threshold[2]

VARIABLES
    stage,         \* "static", "judge", "score", "done"
    passed,        \* every deterministic component scored 1
    deterministic, \* the category evaluator's EvaluationResult
    judge,         \* which judge EvaluationService was built with
    reply,         \* what the provider call came to
    outcome,       \* the judge's result
    result         \* the EvaluationResult that is kept

vars == <<stage, passed, deterministic, judge, reply, outcome, result>>

NoReply == [kind |-> "none"]
NoOutcome == [status |-> "none"]
Pending == EvaluationResult("constraints", "requires_semantic_judge", One, "none")

Init ==
    /\ stage = "static"
    /\ passed = TRUE
    /\ deterministic = Pending
    /\ judge \in {"hybrid", "semantic"}
    /\ reply = NoReply
    /\ outcome = NoOutcome
    /\ result = Pending

(* SummarizationEvaluator: two of the constraint checks, each met or not;  *)
(* the score is their mean and the status waits for a judge.               *)
CheckConstraints ==
    /\ stage = "static"
    /\ \E met \in 0..2 :
          /\ passed' = (met = 2)
          /\ deterministic' = [Pending EXCEPT !.quality = <<met, 2>>]
    /\ stage' = "judge"
    /\ UNCHANGED <<judge, reply, outcome, result>>

Judgments ==
    [id : Props \cup {"unlisted"}, verdict : {"ENTAILED", "NOT_ENTAILED", "AMBIGUOUS"},
     used : {NoRule, "unlisted"} \cup UNION {Equivalences[p] \cup DOMAIN Derivations[p] : p \in Props}]

Findings == {<<>>, <<"material">>, <<"borderline">>, <<"material", "borderline">>,
             <<"material", "material">>}

Unusable == {"timeout", "provider_error", "malformed_json", "invalid_schema"}

AskHybrid ==
    /\ stage = "judge" /\ judge = "hybrid"
    /\ \/ \E k \in Unusable, c \in 0..1 : reply' = [kind |-> k, charged |-> c]
       \/ \E n \in 1..Cardinality(Props), f \in Findings : \E js \in [1..n -> Judgments] :
             reply' = [kind |-> "rubric", charged |-> 1,
                       rubric |-> [judgments |-> js, findings |-> f]]
    /\ outcome' = hybrid_judge(reply')
    /\ stage' = "score"
    /\ UNCHANGED <<passed, deterministic, judge, result>>

AskSemantic ==
    /\ stage = "judge" /\ judge = "semantic"
    /\ \/ \E k \in Unusable, c \in 0..1 : reply' = [kind |-> k, charged |-> c]
       \/ \E a, b \in Levels, e \in BOOLEAN :
             reply' = [kind |-> "rubric", charged |-> 1,
                       rubric |-> [coverage |-> a, compliance |-> b, errors |-> e]]
    /\ outcome' = semantic_judge(reply')
    /\ stage' = "score"
    /\ UNCHANGED <<passed, deterministic, judge, result>>

Score ==
    /\ stage = "score"
    /\ result' = IF judge = "hybrid" THEN evaluate_hybrid(deterministic, passed, outcome)
                 ELSE evaluate_semantic(deterministic, passed, outcome)
    /\ stage' = "done"
    /\ UNCHANGED <<passed, deterministic, judge, reply, outcome>>

Next == CheckConstraints \/ AskHybrid \/ AskSemantic \/ Score

Spec == Init /\ [][Next]_vars

-----------------------------------------------------------------------------
(* The kept record is one EvaluationResult accepts, at every stage.        *)
TypeOK ==
    /\ stage \in {"static", "judge", "score", "done"}
    /\ passed \in BOOLEAN
    /\ consistent_acceptability(deterministic)
    /\ consistent_acceptability(result)
    /\ result.cost \in 0..1

(* What an accepted summary rests on, said of the raw reply and not of the *)
(* scorer's intermediate values: every proposition judged exactly once,    *)
(* none left ambiguous, every rule that was invoked one the specification  *)
(* lists for that proposition, the entailed weight reaching the threshold, *)
(* nothing found wrong and every format constraint met.                    *)
GroundedHybrid ==
    LET js == reply.rubric.judgments
        entailed == {p \in Props : \E i \in DOMAIN js : js[i].id = p /\ js[i].verdict = "ENTAILED"}
    IN  /\ passed
        /\ reply.rubric.findings = <<>>
        /\ \A p \in Props : Cardinality({i \in DOMAIN js : js[i].id = p}) = 1
        /\ \A i \in DOMAIN js :
              /\ js[i].verdict # "AMBIGUOUS"
              /\ js[i].used # NoRule =>
                    /\ js[i].id \in entailed
                    /\ \/ js[i].used \in Equivalences[js[i].id]
                       \/ /\ js[i].used \in DOMAIN Derivations[js[i].id]
                          /\ Derivations[js[i].id][js[i].used].policy # "NOT_ALLOWED"
                          /\ Derivations[js[i].id][js[i].used].requires \subseteq entailed
        /\ WeightOf(entailed) * Threshold[2] >= Threshold[1] * WeightOf(Props)

(* The average of coverage, factual consistency and compliance, the second *)
(* of which is 1 where no error was found.                                 *)
Mean(coverage, compliance) ==
    <<coverage[1] * compliance[2] + compliance[1] * coverage[2] + coverage[2] * compliance[2],
      3 * coverage[2] * compliance[2]>>

(* Of a flat rubric the code takes the lower dimension and README.md the   *)
(* average.  What follows is claimed by either reading: nothing wrong was  *)
(* found, and the average reaches the threshold, in all that is accepted;  *)
(* and what has both dimensions at the threshold is accepted.              *)
Flawless == passed /\ ~reply.rubric.errors

MeanReaches == AtLeast(Mean(reply.rubric.coverage, reply.rubric.compliance), Threshold)

BothReach ==
    AtLeast(reply.rubric.coverage, Threshold) /\ AtLeast(reply.rubric.compliance, Threshold)

(* A summary is accepted exactly when the reply of the hybrid judge grounds *)
(* it; by the flat judge never without grounds, and never refused without. *)
AcceptedIsGrounded ==
    (result.status = "evaluated" /\ reply.kind = "rubric") =>
        IF judge = "hybrid" THEN (result.acceptable = "yes") <=> GroundedHybrid
        ELSE /\ result.acceptable = "yes" => Flawless /\ MeanReaches
             /\ Flawless /\ BothReach => result.acceptable = "yes"

(* README.md 644-646: "The three semantic dimensions are then averaged ... *)
(* Acceptance applies the dataset threshold to that final score."          *)
(* _evaluate_semantically takes min(required_fact_coverage,                *)
(* instruction_compliance) (service.py 146-148).                           *)
DimensionsAreAveraged ==
    (judge = "semantic" /\ result.status = "evaluated" /\ reply.kind = "rubric") =>
        ((result.acceptable = "yes") <=> Flawless /\ MeanReaches)

(* "Malformed JSON, invalid ranges, provider failures, and judge timeouts  *)
(* remain judge-infrastructure failures rather than candidate failures"    *)
(* (README.md): only a usable rubric without doubt in it decides.          *)
UndecidedIsNotFailed ==
    stage = "done" =>
        ((result.status = "evaluated") <=>
            /\ outcome.status = "evaluated"
            /\ judge = "hybrid" => ~\E i \in DOMAIN reply.rubric.judgments :
                                       reply.rubric.judgments[i].verdict = "AMBIGUOUS"
            /\ judge = "hybrid" => "borderline" \notin Range(reply.rubric.findings))

(* A judge answer that arrived is paid for in the record, usable or not.   *)
AnsweredCallsArePriced ==
    (stage = "done" /\ reply.kind \notin {"timeout", "provider_error"}) =>
        result.call /\ result.cost = reply.charged

(* The record kept of a judgement is justified by the judge's raw reply:   *)
(* its verdict, its refusal to give one, and its cost.                     *)
JudgementIsJustified ==
    AcceptedIsGrounded /\ UndecidedIsNotFailed /\ AnsweredCallsArePriced
=============================================================================
