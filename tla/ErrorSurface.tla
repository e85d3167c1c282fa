---------------------------- MODULE ErrorSurface ----------------------------
(***************************************************************************)
(* How an exception becomes an HTTP answer: the classes of errors.py, the  *)
(* ordered table _ERRORS and application_error of api/app.py.  An error is *)
(* a record [class, category]; the category only matters for gateway       *)
(* errors.  An answer is [status, code].                                   *)
(***************************************************************************)
EXTENDS Sequences, FiniteSets, FiniteSetsExt

\* The project's base classes of each class that has one.
Bases ==
    [GatewayError |-> {"ProviderFailureError"},
     CompletionRejectedError |-> {"GatewayError"},
     NoEligibleCandidatesError |-> {"RoutingPolicyError"},
     InvalidQualityThresholdError |-> {"RoutingPolicyError"},
     DuplicateCandidatePredictionError |-> {"RoutingPolicyError"},
     PredictorInputCompatibilityError |-> {"QualityPredictorError"},
     MissingRoutingCategoryError |-> {"PredictorInputCompatibilityError"},
     UnsupportedPredictorCandidateError |-> {"PredictorInputCompatibilityError"},
     PredictorArtifactError |-> {"QualityPredictorError"},
     PredictorArtifactNotFoundError |-> {"PredictorArtifactError"},
     CorruptPredictorArtifactError |-> {"PredictorArtifactError"},
     PredictorArtifactChecksumError |-> {"PredictorArtifactError"}]

\* A class and its ancestors; no class is more than two levels below another.
Ancestors(c) ==
    LET Up(S) == S \cup UNION {Bases[x] : x \in S \cap DOMAIN Bases}
    IN  Up(Up({c}))

IsInstance(error, c) == c \in Ancestors(error.class)

Row(class, status, code) == [class |-> class, answer |-> [status |-> status, code |-> code]]

\* _ERRORS, in its order.
ERRORS == <<
    Row("InferenceDeadlineExceededError", 504, "inference_deadline_exceeded"),
    Row("RateLimitExceededError", 429, "rate_limit_exceeded"),
    Row("RateLimitUnavailableError", 503, "rate_limit_unavailable"),
    Row("ResponseValidationError", 502, "response_validation_failed"),
    Row("AdaptiveRoutingUnavailableError", 503, "adaptive_routing_unavailable"),
    Row("PredictorArtifactError", 503, "adaptive_routing_unavailable"),
    Row("UnsupportedPredictorCandidateError", 503, "adaptive_routing_unavailable"),
    Row("NoEligibleCandidatesError", 503, "adaptive_routing_unavailable"),
    Row("InvalidQualityThresholdError", 422, "invalid_adaptive_request"),
    Row("RequestLimitExceededError", 422, "invalid_request"),
    Row("InvalidActivityCursorError", 422, "invalid_activity_cursor"),
    Row("MissingRoutingCategoryError", 422, "invalid_adaptive_request"),
    Row("EvaluationNotFoundError", 404, "evaluation_not_found"),
    Row("EvaluationArtifactError", 422, "evaluation_artifact_invalid"),
    Row("TelemetryUnavailableError", 503, "telemetry_unavailable"),
    Row("ModelNotFoundError", 404, "model_not_found"),
    Row("ModelDisabledError", 403, "model_disabled"),
    Row("ContextLimitError", 422, "context_limit_exceeded"),
    Row("ProviderUnavailableError", 503, "provider_unavailable"),
    Row("ProviderFailureError", 502, "provider_failure")>>

GatewayStatus(category) ==
    CASE category = "gateway_not_configured" -> 503
      [] category = "gateway_rate_limit" -> 429
      [] category = "gateway_timeout" -> 504
      [] category \in {"context_limit_exceeded", "gateway_invalid_request"} -> 422
      [] OTHER -> 502

\* Gateway errors by category, then the first class of the table the error is
\* an instance of.  What is in no row of the table is answered by the handler
\* of Exception, with the same words.
application_error(error) ==
    LET found == {i \in DOMAIN ERRORS : IsInstance(error, ERRORS[i].class)}
    IN  IF IsInstance(error, "GatewayError")
        THEN [status |-> GatewayStatus(error.category), code |-> error.category]
        ELSE IF found # {}
             THEN ERRORS[Min(found)].answer
             ELSE [status |-> 500, code |-> "internal_error"]
=============================================================================
