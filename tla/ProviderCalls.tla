---------------------------- MODULE ProviderCalls ----------------------------
(***************************************************************************)
(* One call of POST /v1/inference from the model registry through the      *)
(* adapters (providers/vercel.py, providers/fake.py) to the telemetry      *)
(* event and the HTTP answer: what becomes of every kind of answer the     *)
(* upstream gateway may give.  The upstream is external: it may be silent, *)
(* break the connection, or answer any status with any body.               *)
(***************************************************************************)
EXTENDS ErrorSurface, Integers

CONSTANTS
    Statuses,   \* HTTP statuses the upstream may answer
    Codes,      \* error.code of a body that says why
    Endings     \* what a choice may say of how it ended, under the three keys

\* A value under a key: a word, in lower case or not.  What is missing, null or
\* empty is Falsy; "unsafe" stands for what is no string, too long, or admitted
\* by no pattern.
Spelled(word) == [word |-> word, upper |-> FALSE]
Falsy == Spelled("")

\* FakeProvider says COMPLETE, which is what "stop" is read as.
FakeEnding == [finish_reason |-> Spelled("stop"), finishReason |-> Falsy,
               stop_reason |-> Falsy]

ProviderAssumption ==
    /\ Statuses \subseteq 100 .. 599
    /\ FakeEnding \in Endings
    /\ \A choice \in Endings :
          DOMAIN choice = {"finish_reason", "finishReason", "stop_reason"}

VARIABLES
    pc,        \* "registry", "adapter", "posted", "raised", "returned", "done"
    adapter,   \* "vercel", "fake", or "none" before one is resolved
    error,     \* the exception in hand
    answer,    \* history: what the upstream or the fake adapter answered
    event,     \* the TelemetryEvent handed to _record
    reply      \* the HTTP answer

vars == <<pc, adapter, error, answer, event, reply>>

\* Answers: nothing, a status with a code, a body that is no completion, or a
\* completion whose usage can be read, which is a completion that was billed.
NoAnswer == [kind |-> "none"]
StatusAnswer(s, c) == [kind |-> "status", status |-> s, code |-> c]
Unusable == [kind |-> "unusable"]
Billed(t, choice) == [kind |-> "billed", text |-> t, choice |-> choice]

NoError == [class |-> "none", category |-> "none"]
NoEvent == [category |-> "none", success |-> FALSE, priced |-> FALSE]
NoReply == [status |-> 0, code |-> "none"]

Raise(class, category) ==
    /\ error' = [class |-> class, category |-> category]
    /\ pc' = "raised"

RaiseGateway(category) == Raise("GatewayError", category)

Init ==
    /\ pc = "registry" /\ adapter = "none" /\ error = NoError
    /\ answer = NoAnswer /\ event = NoEvent /\ reply = NoReply

-----------------------------------------------------------------------------
(* The model registry and the resolver.                                    *)

\* registry.get of an unknown model: no inference attempt, so no event.
UnknownModel ==
    /\ pc = "registry"
    /\ error' = [class |-> "ModelNotFoundError", category |-> "none"]
    /\ reply' = application_error(error') /\ pc' = "done"
    /\ UNCHANGED <<adapter, answer, event>>

\* A disabled model, a provider without an adapter, an adapter that refuses
\* the model or cannot be built.
NotResolved ==
    /\ pc = "registry"
    /\ \/ Raise("ModelDisabledError", "none")
       \/ Raise("ProviderUnavailableError", "none")
       \/ RaiseGateway("gateway_invalid_model")
       \/ Raise("ProviderFailureError", "none")
    /\ UNCHANGED <<adapter, answer, event, reply>>

Resolve ==
    /\ pc = "registry"
    /\ adapter' \in {"vercel", "fake"}
    /\ pc' = "adapter"
    /\ UNCHANGED <<error, answer, event, reply>>

-----------------------------------------------------------------------------
(* The adapters.                                                           *)

\* FakeProvider echoes the prompt unless it does not fit the context window.
FakeAnswers ==
    /\ pc = "adapter" /\ adapter = "fake"
    /\ \/ Raise("ContextLimitError", "none") /\ UNCHANGED answer
       \/ /\ answer' = Billed("text", FakeEnding)
          /\ pc' = "returned" /\ UNCHANGED error
    /\ UNCHANGED <<adapter, event, reply>>

Post ==
    /\ pc = "adapter" /\ adapter = "vercel"
    /\ \/ pc' = "posted" /\ UNCHANGED error
       \/ RaiseGateway("gateway_not_configured")
    /\ UNCHANGED <<adapter, answer, event, reply>>

\* No answer: the adapter's timeout, the request's deadline, or the transport.
Silence ==
    /\ pc = "posted"
    /\ \/ RaiseGateway("gateway_timeout")
       \/ Raise("InferenceDeadlineExceededError", "none")
       \/ RaiseGateway("gateway_upstream")
       \/ Raise("ProviderFailureError", "none")   \* any other exception, wrapped
    /\ UNCHANGED <<adapter, answer, event, reply>>

\* The values of errors.py, GatewayErrorCategory.
GatewayErrorCategory ==
    {"gateway_not_configured", "gateway_authentication", "gateway_invalid_model",
     "gateway_invalid_request", "context_limit_exceeded", "gateway_rate_limit",
     "gateway_timeout", "gateway_upstream", "gateway_malformed_response",
     "gateway_missing_usage", "gateway_empty_response", "output_budget_exhaustion"}

\* Mutant: a code of the upstream that is not known is passed on as it came.
StatusCategory_PassesCode(status, code) ==
    CASE status \in {401, 403} -> "gateway_authentication"
      [] status = 404 -> "gateway_invalid_model"
      [] status = 429 -> "gateway_rate_limit"
      [] status \in {408, 504} -> "gateway_timeout"
      [] status \in {400, 422} ->
            CASE code = "none" -> "gateway_invalid_request"
              [] code \in {"model_not_found", "invalid_model"} -> "gateway_invalid_model"
              [] code \in {"context_length_exceeded", "context_window_exceeded"} ->
                    "context_limit_exceeded"
              [] OTHER -> code
      [] OTHER -> "gateway_upstream"

\* The category of an answer that is not a success.
StatusCategory(status, code) ==
    CASE status \in {401, 403} -> "gateway_authentication"
      [] status = 404 -> "gateway_invalid_model"
      [] status = 429 -> "gateway_rate_limit"
      [] status \in {408, 504} -> "gateway_timeout"
      [] status \in {400, 422} ->
            CASE code \in {"model_not_found", "invalid_model"} -> "gateway_invalid_model"
              [] code \in {"context_length_exceeded", "context_window_exceeded"} ->
                    "context_limit_exceeded"
              [] OTHER -> "gateway_invalid_request"
      [] OTHER -> "gateway_upstream"

ErrorStatus(status, code) ==
    /\ pc = "posted" /\ status \notin 200 .. 299
    /\ answer' = StatusAnswer(status, code)
    /\ RaiseGateway(StatusCategory(status, code))
    /\ UNCHANGED <<adapter, event, reply>>

\* Mutant: only the usual spelling of the key is looked at.
RawEnding_OneKey(choice) == choice.finish_reason

\* The first key with a truthy value; a later key does not replace an unsafe one.
RawEnding(choice) ==
    CASE choice.finish_reason # Falsy -> choice.finish_reason
      [] choice.finish_reason = Falsy /\ choice.finishReason # Falsy -> choice.finishReason
      [] OTHER -> choice.stop_reason

casefold(value) == value.word

\* _termination
Termination(choice) ==
    LET normalized == casefold(RawEnding(choice))
    IN  CASE normalized \in {"", "unsafe"} -> "unknown"
          [] normalized \in {"stop", "end_turn", "end", "complete", "completed"} -> "complete"
          [] normalized \in {"length", "max_tokens", "max_output_tokens", "token_limit"} ->
                "length"
          [] normalized \in {"tool_call", "tool_calls", "function_call"} -> "tool_call"
          [] normalized \in {"content_filter", "content_filtered", "safety", "blocked"} ->
                "content_filter"
          [] OTHER -> "other"

\* A success whose body is not a completion: no choice, a content that is no
\* string, a usage that is missing or counts no tokens.
BodyUnusable ==
    /\ pc = "posted"
    /\ answer' = Unusable
    /\ RaiseGateway("gateway_malformed_response") \/ RaiseGateway("gateway_missing_usage")
    /\ UNCHANGED <<adapter, event, reply>>

\* Why a completion is rejected, "none" if it is not: the emptiness first.
Verdict(content, choice) ==
    CASE content = "blank" -> "gateway_empty_response"
      [] content # "blank" /\ Termination(choice) = "length" -> "output_budget_exhaustion"
      [] OTHER -> "none"

\* A readable completion is billed; it is returned or carried by the error.
Completion(content, choice) ==
    /\ pc = "posted"
    /\ answer' = Billed(content, choice)
    /\ IF Verdict(content, choice) = "none"
       THEN pc' = "returned" /\ UNCHANGED error
       ELSE Raise("CompletionRejectedError", Verdict(content, choice))
    /\ UNCHANGED <<adapter, event, reply>>

-----------------------------------------------------------------------------
(* The service and the HTTP layer.                                         *)

\* The categories of InferenceService.generate.
Category(err) ==
    CASE IsInstance(err, "GatewayError") -> err.category
      [] IsInstance(err, "ContextLimitError") -> "context_limit_exceeded"
      [] IsInstance(err, "ModelDisabledError") -> "model_disabled"
      [] IsInstance(err, "ProviderUnavailableError") -> "provider_unavailable"
      [] IsInstance(err, "InferenceDeadlineExceededError") -> "inference_deadline_exceeded"
      [] OTHER -> "provider_failure"

\* The exception: one event, with the price of a rejected completion, and the
\* answer of the error table.
Failed ==
    /\ pc = "raised"
    /\ event' = [category |-> Category(error), success |-> FALSE,
                 priced |-> IsInstance(error, "CompletionRejectedError")]
    /\ reply' = application_error(error)
    /\ pc' = "done"
    /\ UNCHANGED <<adapter, error, answer>>

Succeeded ==
    /\ pc = "returned"
    /\ event' = [category |-> "none", success |-> TRUE, priced |-> TRUE]
    /\ reply' = [status |-> 200, code |-> "ok"]
    /\ pc' = "done"
    /\ UNCHANGED <<adapter, error, answer>>

Next ==
    \/ UnknownModel \/ NotResolved \/ Resolve
    \/ FakeAnswers \/ Post \/ Silence \/ BodyUnusable
    \/ \E s \in Statuses, c \in Codes : ErrorStatus(s, c)
    \/ \E t \in {"text", "blank"}, choice \in Endings : Completion(t, choice)
    \/ Failed \/ Succeeded

Spec == Init /\ [][Next]_vars

-----------------------------------------------------------------------------
(* Properties.                                                             *)

\* The variables hold what the code can put there: a category is one of the
\* project's own, never a word of the upstream, and every error that is raised
\* on this path has a row in the table.
TypeOK ==
    /\ pc \in {"registry", "adapter", "posted", "raised", "returned", "done"}
    /\ adapter \in {"none", "vercel", "fake"}
    /\ \/ answer \in {NoAnswer, Unusable}
       \/ answer.kind = "status" /\ answer.status \in Statuses /\ answer.code \in Codes
       \/ /\ answer.kind = "billed" /\ answer.text \in {"text", "blank"}
          /\ answer.choice \in Endings
    /\ DOMAIN error = DOMAIN NoError /\ DOMAIN event = DOMAIN NoEvent
    /\ error.category \in {"none"} \cup GatewayErrorCategory
    /\ reply.status \in {0, 200} \cup {ERRORS[i].answer.status : i \in DOMAIN ERRORS}

\* Money is never lost on the way: if the upstream billed a readable
\* completion, returned or rejected, the event has its price, and an event has
\* a price only then (service.py: completion.estimated_cost_usd).
PaidCostKept == pc = "done" => (event.priced <=> answer.kind = "billed")

\* The choice was cut off: some key says so, in upper or lower case, and every
\* key that is looked at before it says nothing.
SaysCutOff(choice) ==
    LET keys == <<"finish_reason", "finishReason", "stop_reason">>
    IN  \E k \in DOMAIN keys :
           /\ choice[keys[k]].word \in
                 {"length", "max_tokens", "max_output_tokens", "token_limit"}
           /\ \A j \in 1 .. (k - 1) : choice[keys[j]] = Falsy

\* What is returned is a text that is not blank and was not cut off, whichever
\* word the upstream has for it, under whichever key; everything else it says is
\* an error, for the event and for the client alike (generate_with_timeout).
ReturnedIsUsable ==
    pc = "done" =>
        /\ (reply.status = 200) <=> event.success
        /\ (reply.status = 200) <=>
              /\ answer.kind = "billed" /\ answer.text = "text"
              /\ ~ SaysCutOff(answer.choice)

\* The two tables agree: the code the client reads is the error_category of
\* the event (api/app.py: _ERRORS against service.py: categories).
CodeIsCategory ==
    pc = "done" /\ ~event.success /\ event # NoEvent => reply.code = event.category

\* A client is told 403 and 404 for its own choice of model only, and 422 when
\* the upstream refused the request itself; what the upstream says of the
\* gateway's credentials and models, or of its own failure, is a bad gateway
\* (status_categories against application_error).
UpstreamStatusIsNotOurs ==
    pc = "done" =>
        /\ reply.status \in {403, 404} => adapter = "none"
        /\ answer.kind = "status" =>
              /\ answer.status \in {401, 403, 404, 500, 503} => reply.status = 502
              /\ reply.status = 422 => answer.status \in {400, 422}
              /\ reply.status = 429 => answer.status = 429

\* Whatever the upstream says, the event, the price and the HTTP answer tell what
\* happened: paid is priced, returned is usable, and each error has the category
\* and the status of the party whose error it is.
AnswersTellWhatHappened ==
    PaidCostKept /\ ReturnedIsUsable /\ CodeIsCategory /\ UpstreamStatusIsNotOurs
=============================================================================
