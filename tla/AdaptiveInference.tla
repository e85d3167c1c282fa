-------------------------- MODULE AdaptiveInference --------------------------
(***************************************************************************)
(* One inference request inside the gateway, from the service call to its  *)
(* answer: InferenceService.generate (application/service.py) and, above   *)
(* it, AdaptiveInferenceService.generate (application/adaptive.py) with    *)
(* and without a validation contract.                                      *)
(*                                                                         *)
(* The request is one coroutine.  It gives up control at three awaits (the *)
(* provider call and the two telemetry writes), and it reads the clock     *)
(* against its whole-request deadline at many places; the deadline may     *)
(* pass between any two of them.  Each step below is the code between two  *)
(* consecutive clock reads or awaits.                                      *)
(***************************************************************************)
EXTENDS Routing

CONSTANTS
    Models,       \* model identifiers, numbers in identifier order
    Modes,        \* subset of {"explicit", "legacy", "validated"}
    Questions,    \* routing inputs: [list, acc, cost, threshold, registry]
    Costs,        \* estimated_cost_usd of a completion
    MaxAttempts   \* max_validation_attempts

ASSUME AdaptiveAssumption ==
    /\ Models \subseteq Nat \ {0}
    /\ Modes \subseteq {"explicit", "legacy", "validated"}
    /\ Costs \subseteq Nat
    /\ MaxAttempts \in 1 .. 3
    /\ \A q \in Questions :
          /\ q.list \in Seq(Models) /\ q.list # <<>> /\ IsInjective(q.list)
          /\ q.registry \in [Models -> {"enabled", "disabled", "unknown",
                                        "unsupported"}]
          /\ q.acc \in [Models -> Nat] /\ q.cost \in [Models -> Nat]
          /\ q.threshold \in Nat

VARIABLES
    mode,        \* the entry point used
    question,    \* registry, predictions and prices this request meets
    telemetry,   \* whether a telemetry repository is configured
    expired,     \* deadline.expired(); the clock never goes back
    pc,          \* where the coroutine is
    plan,        \* model_ids: the models to try, in order
    number,      \* attempt_number
    calls,       \* models whose provider was called, in order
    response,    \* the completion in hand
    exc,         \* the exception in hand, "none" if there is none
    attempts,    \* the list of AdaptiveAttempt
    metered,     \* provider_attempt metrics emitted
    rows,        \* inference telemetry rows committed
    terminal,    \* adaptive_request metrics emitted
    summaries,   \* adaptive execution rows committed
    outcome      \* what the caller got, "pending" until then

vars == <<mode, question, telemetry, expired, pc, plan, number, calls,
          response, exc, attempts, metered, rows, terminal, summaries, outcome>>

inputs  == <<mode, question, telemetry>>
records == <<metered, rows, terminal, summaries>>
work    == <<plan, number, calls, response, attempts>>

NoModel == 0

\* Texts a provider may produce, told apart by what validation makes of them.
Texts == {"acceptable", "unacceptable", "empty", "truncated", "pathological"}

\* Empty and length-terminated completions are the ones adapters reject.
Rejectable == {"empty", "truncated"}

NoResponse == [model |-> NoModel, cost |-> 0, text |-> "empty",
               rejected |-> FALSE]

ProviderErrors == {"provider_failure", "provider_unavailable", "context_limit"}

Awaiting == {"calling", "writing", "writing_summary"}

Decided == Decision(question.list, question.acc, question.cost,
                    question.threshold)

\* Mutant: every attempt goes to the model that routing selected.
Current_First == plan[1]

Current == plan[number]

KnownCost_LastOnly(list) == IF list = <<>> THEN 0 ELSE Last(list).cost

\* _known_cost: the sum of the costs, as the number of units they are made of.
KnownCost(list) ==
    Cardinality(UNION {{i} \X (1 .. list[i].cost) : i \in DOMAIN list})

\* DeterministicResponseValidator.validate: truncated and empty outputs fail
\* like any unmet contract; an exception inside the validator is an error.
Status(text) ==
    CASE text = "acceptable" -> "passed"
      [] text \in {"unacceptable", "empty", "truncated"} -> "failed"
      [] text = "pathological" -> "error"

\* Every failure code but validator_error is recoverable by escalation.
Recoverable_Always(status) == status # "passed"

Recoverable(status) == status = "failed"

(***************************************************************************)
(* Ends of the request.                                                    *)
(***************************************************************************)
Finish(what) == pc' = "done" /\ outcome' = what

RegistryError(state) ==
    IF state = "unsupported" THEN "provider_unavailable" ELSE state

PublicError_Raw(e) == e

\* The error a caller sees: a rejected completion is a ProviderFailureError.
PublicError(e) == IF e = "rejected" THEN "provider_failure" ELSE e

(***************************************************************************)
(* AdaptiveInferenceService                                                *)
(***************************************************************************)
\* generate(): deadline, then the registry, then one routing decision, unless
\* the feature extractor, the predictor or the policy raises.
Begin ==
    /\ pc = "start"
    /\ \/ /\ expired
          /\ Finish("deadline")
          /\ UNCHANGED plan
       \/ /\ ~expired
          /\ \E i \in DOMAIN question.list :
                /\ question.registry[question.list[i]] # "enabled"
                /\ \A j \in 1 .. (i - 1) :
                      question.registry[question.list[j]] = "enabled"
                /\ Finish(RegistryError(question.registry[question.list[i]]))
          /\ UNCHANGED plan
       \/ /\ ~expired
          /\ \A m \in ToSet(question.list) : question.registry[m] = "enabled"
          /\ \/ Finish("routing_error") /\ UNCHANGED plan
             \/ /\ IF mode = "legacy"
                   THEN plan' = <<Decided.selected>> /\ pc' = "enter"
                   ELSE /\ plan' = AttemptOrder(Decided, question.cost,
                                               MaxAttempts)
                        /\ pc' = "loop"
                /\ UNCHANGED outcome
    /\ UNCHANGED <<inputs, expired, number, calls, response, attempts, exc,
                   records>>

\* Head of the attempt loop: an expired deadline leaves at once, with neither
\* an execution row nor a terminal metric.
LoopHead ==
    /\ pc = "loop"
    /\ IF expired THEN Finish("deadline")
                  ELSE pc' = "enter" /\ UNCHANGED outcome
    /\ UNCHANGED <<inputs, expired, work, exc, records>>

(***************************************************************************)
(* InferenceService                                                        *)
(***************************************************************************)
\* generate() up to the provider: an expired deadline or an unknown model is
\* no attempt and is not recorded; a disabled model or an adapter that cannot
\* be built is recorded as a failed attempt, without a provider metric.
Enter ==
    /\ pc = "enter"
    /\ \/ expired /\ exc' = "deadline" /\ pc' = "caught"
       \/ /\ ~expired /\ question.registry[Current] = "unknown"
          /\ exc' = "unknown" /\ pc' = "caught"
       \/ /\ ~expired
          /\ question.registry[Current] \in {"disabled", "unsupported"}
          /\ exc' = RegistryError(question.registry[Current])
          /\ pc' = "record"
       \/ /\ ~expired /\ question.registry[Current] = "enabled"
          /\ \/ exc' = "none" /\ pc' = "ready"
             \/ exc' \in {"provider_unavailable", "provider_failure"}
                /\ pc' = "record"
    /\ UNCHANGED <<inputs, expired, work, records, outcome>>

Metric(what, cost) == [model |-> Current, outcome |-> what, cost |-> cost]

\* _generate(): the remaining time is read once more, then the adapter is
\* called under it.
Call ==
    /\ pc = "ready"
    /\ IF expired
       THEN /\ exc' = "deadline" /\ pc' = "record"
            /\ metered' = Append(metered, Metric("error", 0))
            /\ UNCHANGED calls
       ELSE /\ calls' = Append(calls, Current) /\ pc' = "calling"
            /\ UNCHANGED <<exc, metered>>
    /\ UNCHANGED <<inputs, expired, plan, number, response, attempts, rows,
                   terminal, summaries, outcome>>

\* The adapter returns a normalized completion (possibly after the deadline,
\* when the answer wins the race against the timer).
ProviderReturns ==
    /\ pc = "calling"
    /\ \E text \in Texts, cost \in Costs :
          /\ response' = [model |-> Current, cost |-> cost, text |-> text,
                          rejected |-> FALSE]
          /\ metered' = Append(metered, Metric("success", cost))
    /\ pc' = "record"
    /\ UNCHANGED <<inputs, expired, plan, number, calls, attempts, exc, rows,
                   terminal, summaries, outcome>>

RejectedMetric(cost) == Metric("rejected", cost)

\* CompletionRejectedError: the provider was paid for a completion the
\* adapter rejects.
ProviderRejects ==
    /\ pc = "calling"
    /\ \E text \in Rejectable, cost \in Costs :
          /\ response' = [model |-> Current, cost |-> cost, text |-> text,
                          rejected |-> TRUE]
          /\ metered' = Append(metered, RejectedMetric(cost))
    /\ exc' = "rejected"
    /\ pc' = "record"
    /\ UNCHANGED <<inputs, expired, plan, number, calls, attempts, rows,
                   terminal, summaries, outcome>>

\* Any other failure of the adapter: gateway errors (its own timeout among
\* them), unexpected exceptions, a response of the wrong type or model.
ProviderFails ==
    /\ pc = "calling"
    /\ exc' \in ProviderErrors
    /\ metered' = Append(metered, Metric("error", 0))
    /\ pc' = "record"
    /\ UNCHANGED <<inputs, expired, work, rows, terminal, summaries, outcome>>

ProviderTimeout_Unbounded == FALSE /\ UNCHANGED vars

\* The whole-request timer fires first.
ProviderTimeout ==
    /\ pc = "calling"
    /\ expired
    /\ exc' = "deadline"
    /\ metered' = Append(metered, Metric("error", 0))
    /\ pc' = "record"
    /\ UNCHANGED <<inputs, expired, work, rows, terminal, summaries, outcome>>

InferenceRow ==
    [model |-> Current, success |-> exc = "none",
     cost |-> IF exc \in {"none", "rejected"} THEN response.cost ELSE 0]

\* _record(): skipped without a repository or without time.
Record ==
    /\ pc = "record"
    /\ pc' = IF telemetry /\ ~expired THEN "writing" ELSE "caught"
    /\ UNCHANGED <<inputs, expired, work, exc, records, outcome>>

WriteSucceeds ==
    /\ pc = "writing"
    /\ rows' = Append(rows, InferenceRow)
    /\ pc' = "caught"
    /\ UNCHANGED <<inputs, expired, work, exc, metered, terminal, summaries,
                   outcome>>

\* The write fails or times out, before or after its commit.
WriteFails ==
    /\ pc = "writing"
    /\ rows' \in {rows, Append(rows, InferenceRow)}
    /\ pc' = "caught"
    /\ UNCHANGED <<inputs, expired, work, exc, metered, terminal, summaries,
                   outcome>>

(***************************************************************************)
(* Back in the caller of InferenceService.generate.                        *)
(***************************************************************************)
\* AdaptiveTerminalOutcome of an exception.
TerminalOf(e) == IF e = "deadline" THEN "deadline_exceeded"
                                   ELSE "provider_failure"

ReturnExplicit ==
    /\ pc = "caught" /\ mode = "explicit"
    /\ Finish(IF exc = "none" THEN "returned" ELSE PublicError(exc))
    /\ UNCHANGED <<inputs, expired, work, exc, records>>

ReturnLegacy ==
    /\ pc = "caught" /\ mode = "legacy"
    /\ terminal' = Append(terminal,
          [outcome |-> IF exc = "none" THEN "returned" ELSE TerminalOf(exc),
           attempts |-> 1, recovered |-> FALSE])
    /\ Finish(IF exc = "none" THEN "returned" ELSE PublicError(exc))
    /\ UNCHANGED <<inputs, expired, work, exc, metered, rows, summaries>>

\* A completion, even a rejected one, goes on to validation; any other
\* exception ends the request.
ReturnValidated ==
    /\ pc = "caught" /\ mode = "validated"
    /\ IF exc \in {"none", "rejected"}
       THEN exc' = "none" /\ pc' = "check"
       ELSE pc' = "record_summary" /\ UNCHANGED exc
    /\ UNCHANGED <<inputs, expired, work, records, outcome>>

Check ==
    /\ pc = "check"
    /\ IF expired THEN Finish("deadline")
                  ELSE pc' = "validate" /\ UNCHANGED outcome
    /\ UNCHANGED <<inputs, expired, work, exc, records>>

\* validate_response() and what follows it up to the next await.
Validate ==
    LET status  == Status(response.text)
        attempt == [model |-> Current, cost |-> response.cost,
                    status |-> status]
    IN  /\ pc = "validate"
        /\ IF expired
           THEN Finish("deadline") /\ UNCHANGED <<attempts, number>>
           ELSE /\ attempts' = Append(attempts, attempt)
                /\ IF Recoverable(status) /\ number < Len(plan)
                   THEN number' = number + 1 /\ pc' = "loop"
                   ELSE pc' = "record_summary" /\ UNCHANGED number
                /\ UNCHANGED outcome
        /\ UNCHANGED <<inputs, expired, plan, calls, response, exc, records>>

Passed == attempts # <<>> /\ Last(attempts).status = "passed"

Terminal ==
    IF exc # "none" THEN TerminalOf(exc)
    ELSE IF Passed THEN "returned" ELSE "validation_failed"

\* AdaptiveExecutionTelemetry.
Summary ==
    [terminal |-> Terminal,
     initial  |-> plan[1],
     returned |-> IF Terminal = "returned" THEN response.model ELSE NoModel,
     attempts |-> IF exc # "none" THEN number ELSE Len(attempts),
     cost     |-> KnownCost(attempts),
     complete |-> exc = "none"]

\* The adaptive_request metric, then the result or the exception.
Conclude ==
    /\ terminal' = Append(terminal,
          [outcome |-> Terminal, attempts |-> Summary.attempts,
           recovered |-> /\ Terminal = "returned"
                         /\ \E i \in 1 .. (Len(attempts) - 1) :
                               attempts[i].status = "failed"])
    /\ Finish(IF exc # "none" THEN PublicError(exc) ELSE Terminal)

\* _record_execution(): skipped without a repository or without time.
RecordSummary ==
    /\ pc = "record_summary"
    /\ IF telemetry /\ ~expired
       THEN pc' = "writing_summary" /\ UNCHANGED <<terminal, outcome>>
       ELSE Conclude
    /\ UNCHANGED <<inputs, expired, work, exc, metered, rows, summaries>>

WriteSummary ==
    /\ pc = "writing_summary"
    /\ summaries' = Append(summaries, Summary)
    /\ Conclude
    /\ UNCHANGED <<inputs, expired, work, exc, metered, rows>>

WriteSummaryFails ==
    /\ pc = "writing_summary"
    /\ summaries' \in {summaries, Append(summaries, Summary)}
    /\ Conclude
    /\ UNCHANGED <<inputs, expired, work, exc, metered, rows>>

(***************************************************************************)
(* The environment.                                                        *)
(***************************************************************************)
\* A cancelled provider call is still an attempt.
CancelMetered == IF pc = "calling"
                 THEN Append(metered, Metric("cancelled", 0)) ELSE metered

\* The client goes away: CancelledError is thrown at the await.  A write may
\* have been committed by then.
Cancel ==
    /\ pc \in Awaiting
    /\ metered' = CancelMetered
    /\ \/ UNCHANGED <<rows, summaries>>
       \/ /\ pc = "writing"
          /\ rows' = Append(rows, InferenceRow) /\ UNCHANGED summaries
       \/ /\ pc = "writing_summary"
          /\ summaries' = Append(summaries, Summary) /\ UNCHANGED rows
    /\ Finish("cancelled")
    /\ UNCHANGED <<inputs, expired, work, exc, terminal>>

\* The deadline passes.
Expire ==
    /\ ~expired
    /\ expired' = TRUE
    /\ UNCHANGED <<inputs, pc, work, exc, records, outcome>>

Init ==
    /\ mode \in Modes
    /\ question \in Questions
    /\ telemetry \in BOOLEAN
    /\ expired = FALSE
    /\ IF mode = "explicit"
       THEN \E m \in Models : plan = <<m>> /\ pc = "enter"
       ELSE plan = <<>> /\ pc = "start"
    /\ number = 1
    /\ calls = <<>>
    /\ response = NoResponse
    /\ exc = "none"
    /\ attempts = <<>>
    /\ metered = <<>>
    /\ rows = <<>>
    /\ terminal = <<>>
    /\ summaries = <<>>
    /\ outcome = "pending"

\* The steps the coroutine takes by itself, its awaits included.
Step ==
    \/ Begin \/ LoopHead \/ Enter \/ Call
    \/ ProviderReturns \/ ProviderRejects \/ ProviderFails \/ ProviderTimeout
    \/ Record \/ WriteSucceeds \/ WriteFails
    \/ ReturnExplicit \/ ReturnLegacy \/ ReturnValidated
    \/ Check \/ Validate
    \/ RecordSummary \/ WriteSummary \/ WriteSummaryFails

Done == pc = "done" /\ UNCHANGED vars

Next == Step \/ Cancel \/ Expire \/ Done

Spec == Init /\ [][Next]_vars

\* The event loop runs what is ready; the clock reaches the deadline, when the
\* timer around the provider call fires; a telemetry write ends, at the latest
\* by its own timeout.  Nothing is assumed of the provider.
Prompt ==
    \/ Begin \/ LoopHead \/ Enter \/ Call \/ ProviderTimeout
    \/ Record \/ WriteFails \/ ReturnExplicit \/ ReturnLegacy
    \/ ReturnValidated \/ Check \/ Validate \/ RecordSummary
    \/ WriteSummaryFails

FairSpec == Spec /\ WF_vars(Prompt) /\ WF_vars(Expire)

-----------------------------------------------------------------------------
(***************************************************************************)
(* Properties.                                                             *)
(***************************************************************************)
Errors == ProviderErrors \cup {"unknown", "disabled", "deadline"}

Outcomes == {"pending", "returned", "validation_failed", "cancelled",
             "routing_error"}
            \cup Errors

\* Types of the coroutine's locals and of the records it leaves behind.
TypeOK ==
    /\ expired \in BOOLEAN /\ telemetry \in BOOLEAN
    /\ pc \in {"start", "loop", "enter", "ready", "record", "caught", "check",
               "validate", "record_summary", "done"} \cup Awaiting
    /\ plan \in Seq(Models) /\ number \in Nat \ {0} /\ calls \in Seq(Models)
    /\ response \in [model : Models \cup {NoModel}, cost : Nat, text : Texts,
                     rejected : BOOLEAN]
    /\ exc \in {"none", "rejected"} \cup Errors
    /\ attempts \in Seq([model : Models, cost : Nat,
                         status : {"passed", "failed", "error"}])
    /\ metered \in Seq([model : Models, cost : Nat,
                  outcome : {"success", "rejected", "error", "cancelled"}])
    /\ rows \in Seq([model : Models, success : BOOLEAN, cost : Nat])
    /\ outcome \in Outcomes

Meets(m) == question.acc[m] >= question.threshold

\* Escalation spends money only where the policy allows it: the routed model
\* is called first and no model twice; a further model is called only after
\* the previous completion failed validation recoverably (never after a
\* provider failure), it meets the original threshold, every cheaper model
\* that meets it was called before, and a fallback is never escalated.
EscalationDiscipline ==
    mode # "explicit" =>
        /\ IsInjective(calls) /\ Len(calls) <= MaxAttempts
        /\ calls # <<>> => calls[1] = Decided.selected
        /\ \A i \in 2 .. Len(calls) :
              /\ mode = "validated" /\ ~Decided.fallback
              /\ attempts[i - 1].model = calls[i - 1]
              /\ attempts[i - 1].status = "failed"
              /\ Meets(calls[i])
              /\ \A m \in ToSet(question.list) :
                    Meets(m) /\ question.cost[m] < question.cost[calls[i]] =>
                        \E j \in 1 .. (i - 1) : calls[j] = m

\* What is returned is the completion of the last model called, accepted by
\* its adapter and, when validation was asked for, the first one to pass.
ReturnedIsFirstPass ==
    outcome = "returned" =>
        /\ response.model = Last(calls) /\ ~response.rejected
        /\ Last(metered).outcome = "success"
        /\ mode = "validated" =>
              /\ Passed /\ Len(attempts) = Len(calls)
              /\ \A i \in 1 .. (Len(attempts) - 1) :
                    attempts[i].status = "failed"

\* Money is spent and an answer returned only as routing and validation allow:
\* the order and the condition of every call, and the choice of the completion
\* that is returned (AdaptiveInferenceService.generate).
EscalationSound == EscalationDiscipline /\ ReturnedIsFirstPass

\* Every provider call that ended, by an answer, an error, the timer or a
\* cancellation, is counted by exactly one attempt metric, in order.  The one
\* metric without a call is the deadline found expired just before calling.
OneMetricPerCall ==
    LET ended == IF pc = "calling" THEN Len(calls) - 1 ELSE Len(calls)
    IN  /\ Len(metered) \in {ended, ended + 1}
        /\ \A i \in 1 .. ended : metered[i].model = calls[i]
        /\ Len(metered) = ended + 1 =>
              /\ Last(metered).outcome = "error"
              /\ outcome \in {"pending", "deadline", "cancelled"}

Spent == KnownCost(metered)

\* An execution row that claims complete cost carries exactly what the
\* provider metrics counted for this request, rejected completions included;
\* an incomplete one never claims more.
CompleteCostIsTotal ==
    \A i \in DOMAIN summaries :
        /\ summaries[i].complete => summaries[i].cost = Spent
        /\ summaries[i].cost <= Spent

\* A telemetry row and the metric of the same attempt tell the same story: a
\* row counts as a success, and carries cost, only if the metric does.
RowsAgreeWithMetrics ==
    \A i \in DOMAIN rows :
        /\ rows[i].success =>
              \E j \in DOMAIN metered : /\ metered[j].model = rows[i].model
                                        /\ metered[j].outcome = "success"
                                        /\ metered[j].cost = rows[i].cost
        /\ rows[i].cost > 0 =>
              \E j \in DOMAIN metered : /\ metered[j].model = rows[i].model
                                        /\ metered[j].cost = rows[i].cost

\* An adaptive request is classified at most once, as what its caller saw,
\* and its execution row, when there is one, says the same.
ClassificationAgrees ==
    /\ Len(terminal) <= 1 /\ Len(summaries) <= 1
    /\ terminal # <<>> =>
          /\ terminal[1].outcome = "returned" <=> outcome = "returned"
          /\ terminal[1].outcome = "deadline_exceeded" <=>
                outcome = "deadline"
          /\ terminal[1].outcome = "validation_failed" <=>
                outcome = "validation_failed"
    /\ terminal # <<>> /\ summaries # <<>> =>
          /\ summaries[1].terminal = terminal[1].outcome
          /\ summaries[1].attempts = terminal[1].attempts

\* Telemetry never decides the answer: an accepted completion (one that
\* passed, under validation) reaches the caller unless the client left or the
\* deadline passed, whether or not rows could be written.
TelemetryFailsOpen ==
    pc = "done" /\ outcome # "cancelled" =>
        /\ mode # "validated" /\ metered # <<>> =>
              (outcome = "returned" <=> Last(metered).outcome = "success")
        /\ mode = "validated" => (outcome = "returned" <=> Passed)

\* What is counted, stored and answered is one story, told in order and once:
\* attempt metrics, inference rows, the execution row with its cost, and the
\* terminal classification agree, and none of them decides the answer.
TelemetrySound ==
    /\ OneMetricPerCall /\ RowsAgreeWithMetrics /\ CompleteCostIsTotal
    /\ ClassificationAgrees /\ TelemetryFailsOpen

\* Every request ends, whatever the provider and the database do.
Terminates == <>(pc = "done")

\* The adaptive request counter is documented as counting every adaptive
\* request at one terminal point: a routed request that was not cancelled
\* ends with exactly one classification.
ClassifiedOnce ==
    pc = "done" /\ outcome # "cancelled" /\ mode # "explicit" /\ plan # <<>>
        => Len(terminal) = 1
-----------------------------------------------------------------------------
(***************************************************************************)
(* The abstract specification: a request is waiting while the attempt it   *)
(* counts has been called.                                                 *)
(***************************************************************************)
Ladder == INSTANCE EscalationLadder WITH
    MaxRungs <- MaxAttempts,
    price    <- question.cost,
    good     <- {m \in Models : Meets(m)},
    ladder   <- plan,
    asked    <- calls,
    waiting  <- Len(calls) = number,
    answer   <- CASE outcome = "pending" -> 0
                  [] outcome = "returned" -> response.model
                  [] OTHER -> -1

\* Every step of a request, whatever the clock, the provider, telemetry and
\* the client do, is a step of the ladder or leaves it alone
\* (AdaptiveInferenceService.generate, InferenceService.generate).
ImplementsLadder == Ladder!Spec
=============================================================================
