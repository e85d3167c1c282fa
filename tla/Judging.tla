------------------------------ MODULE Judging ------------------------------
(***************************************************************************)
(* How one response becomes an EvaluationResult (evaluation/service.py,    *)
(* evaluation/models.py, evaluation/hybrid_judge.py, evaluation/judge.py   *)
(* and benchmarks/summarization_spec.py).                                  *)
(*                                                                         *)
(* Scores are exact fractions <<numerator, denominator>>: the code compares *)
(* exact Fractions and correctly rounded quotients of small integers with  *)
(* a decimal threshold, which order the same way.  Explanations, evidence  *)
(* and token counts are left out; a cost is a number of units.             *)
(***************************************************************************)
EXTENDS Integers, FiniteSets, Sequences, Functions

CONSTANTS
    Props,        \* the propositions of the task's specification
    Weight,       \* Weight[p]: RationalWeight.numerator over one common denominator
    Equivalences, \* Equivalences[p]: the listed alternatives of p
    Derivations,  \* Derivations[p]: rule |-> [policy, requires]
    Threshold     \* acceptable_threshold, or its 0.8 default

(* SemanticProposition, RationalWeight and DerivationRule refuse anything  *)
(* else at construction.                                                   *)
SpecificationIsValid ==
    /\ IsFiniteSet(Props)
    /\ \A p \in Props : Weight[p] \in Nat \ {0}
    /\ \A p \in Props : \A d \in DOMAIN Derivations[p] :
          (Derivations[p][d].policy = "CONDITIONAL") <=> (Derivations[p][d].requires # {})

NoRule == "none"
NoScore == <<>>
Zero == <<0, 1>>
One == <<1, 1>>

AtLeast(a, b) == a[1] * b[2] >= b[1] * a[2]

Lower(a, b) == IF AtLeast(a, b) THEN b ELSE a

(***************************************************************************)
(* EvaluationResult.  Whoever builds one passes "acceptable" explicitly;   *)
(* consistent_acceptability is what the class refuses.                     *)
(***************************************************************************)
EvaluationResult(name, status, quality, acceptable) ==
    [name |-> name, status |-> status, quality |-> quality, acceptable |-> acceptable,
     call |-> FALSE, cost |-> 0, failure |-> "none"]

Acceptable(quality) == IF AtLeast(quality, Threshold) THEN "yes" ELSE "no"

consistent_acceptability(e) ==
    IF e.status = "evaluated"
    THEN e.quality # NoScore /\ e.acceptable = Acceptable(e.quality)
    ELSE e.acceptable = "none"

(***************************************************************************)
(* The judges.  A reply is what the provider call came to: "timeout",      *)
(* "provider_error", "malformed_json", "invalid_schema" or "rubric".       *)
(***************************************************************************)
InfrastructureFailure(category, usage) ==
    [status |-> "infrastructure_failure", error |-> category, usage |-> usage]

RulePermitted(j, verdict) ==
    \/ j.used = NoRule
    \/ /\ j.verdict = "ENTAILED"
       /\ \/ j.used \in Equivalences[j.id]
          \/ /\ j.used \in DOMAIN Derivations[j.id]
             /\ LET rule == Derivations[j.id][j.used]
                IN  /\ rule.policy # "NOT_ALLOWED"
                    /\ rule.policy = "CONDITIONAL" =>
                          \A p \in rule.requires : p \in DOMAIN verdict /\ verdict[p] = "ENTAILED"

VerdictOf(judgments) ==
    [p \in {judgments[i].id : i \in DOMAIN judgments} |->
        (CHOOSE j \in Range(judgments) : j.id = p).verdict]

validate_rubric_RulesUnchecked(judgments) ==
    IF {judgments[i].id : i \in DOMAIN judgments} # Props THEN "proposition_id_mismatch" ELSE "none"

validate_rubric(judgments) ==
    IF \/ {judgments[i].id : i \in DOMAIN judgments} # Props
       \/ Len(judgments) # Cardinality(Props)
    THEN "proposition_id_mismatch"
    ELSE IF \A i \in DOMAIN judgments : RulePermitted(judgments[i], VerdictOf(judgments)) THEN "none"
    ELSE "invalid_rule_use"

(* HybridSemanticRubric refuses a proposition judged twice and a finding   *)
(* reported twice.                                                         *)
reject_duplicate_entries(rubric) ==
    \/ \E i, k \in DOMAIN rubric.judgments :
          i # k /\ rubric.judgments[i].id = rubric.judgments[k].id
    \/ \E i, k \in DOMAIN rubric.findings : i # k /\ rubric.findings[i] = rubric.findings[k]

(* VercelHybridSemanticJudge.judge.  A failed call is reported without     *)
(* usage, whatever the provider charged for it.                            *)
hybrid_judge(reply) ==
    IF reply.kind \in {"timeout", "provider_error"} THEN InfrastructureFailure(reply.kind, 0)
    ELSE IF reply.kind # "rubric" THEN InfrastructureFailure(reply.kind, reply.charged)
    ELSE IF reject_duplicate_entries(reply.rubric) THEN InfrastructureFailure("invalid_schema", reply.charged)
    ELSE LET error == validate_rubric(reply.rubric.judgments)
         IN  IF error # "none" THEN InfrastructureFailure(error, reply.charged)
             ELSE [status |-> "evaluated", rubric |-> reply.rubric, usage |-> reply.charged]

(* VercelSemanticJudge.judge: the same contract with one flat rubric.      *)
semantic_judge(reply) ==
    IF reply.kind \in {"timeout", "provider_error"} THEN InfrastructureFailure(reply.kind, 0)
    ELSE IF reply.kind # "rubric" THEN InfrastructureFailure(reply.kind, reply.charged)
    ELSE [status |-> "evaluated", rubric |-> reply.rubric, usage |-> reply.charged]

(***************************************************************************)
(* Scoring.                                                                *)
(***************************************************************************)
WeightOf(ps) == FoldFunctionOnSet(+, 0, Weight, ps)

weighted_coverage(verdict) ==
    IF \E p \in DOMAIN verdict : verdict[p] = "AMBIGUOUS" THEN NoScore
    ELSE <<WeightOf({p \in DOMAIN verdict : verdict[p] = "ENTAILED"}), WeightOf(Props)>>

Charged(e, outcome) == [e EXCEPT !.call = TRUE, !.cost = outcome.usage]

Partial(deterministic, outcome, failure) ==
    [Charged(deterministic, outcome) EXCEPT
        !.name = "hybrid", !.status = "partial", !.quality = NoScore,
        !.acceptable = "none", !.failure = failure]

(* The vetoes, in the code's order.                                        *)
HybridScore(passed, material, coverage) ==
    IF ~passed THEN [quality |-> Zero, failure |-> "DETERMINISTIC_TASK_FAILURE"]
    ELSE IF material THEN [quality |-> Zero, failure |-> "MATERIAL_SEMANTIC_FAILURE"]
    ELSE IF ~AtLeast(coverage, Threshold) THEN [quality |-> coverage, failure |-> "COVERAGE_FAILURE"]
    ELSE [quality |-> coverage, failure |-> "COMPLETE_SEMANTIC_RESULT"]

(* EvaluationService._evaluate_hybrid_semantically                         *)
evaluate_hybrid(deterministic, passed, outcome) ==
    IF outcome.status = "infrastructure_failure"
    THEN Partial(deterministic, outcome,
            IF outcome.error \in {"timeout", "provider_error"} THEN "PROVIDER_FAILURE"
            ELSE "MALFORMED_JUDGMENT")
    ELSE LET coverage == weighted_coverage(VerdictOf(outcome.rubric.judgments))
             found == Range(outcome.rubric.findings)
             score == HybridScore(passed, "material" \in found, coverage)
         IN  IF coverage = NoScore \/ "borderline" \in found
             THEN Partial(deterministic, outcome, "AMBIGUOUS_SEMANTIC_RESULT")
             ELSE Charged([EvaluationResult("hybrid", "evaluated", score.quality,
                              Acceptable(score.quality)) EXCEPT !.failure = score.failure], outcome)

(* EvaluationService._evaluate_semantically.  rubric.errors stands for the *)
(* six error lists of SemanticRubric.material_errors.                      *)
evaluate_semantic(deterministic, passed, outcome) ==
    IF outcome.status = "infrastructure_failure" THEN Charged(deterministic, outcome)
    ELSE LET quality == IF passed /\ ~outcome.rubric.errors
                        THEN Lower(outcome.rubric.coverage, outcome.rubric.compliance)
                        ELSE Zero
         IN  Charged(EvaluationResult("semantic", "evaluated", quality, Acceptable(quality)), outcome)
=============================================================================
