----------------------------- MODULE ChatGateway -----------------------------
(***************************************************************************)
(* Inference requests in the HTTP application, many at once: the           *)
(* middleware (api/app.py), the dependencies and routes (api/), admission, *)
(* chat orchestration and its activity row (application/chat.py).          *)
(*                                                                         *)
(* Admission and execution are taken by their results, which RateLimiter   *)
(* and AdaptiveInference model from within.  A step is the code between    *)
(* two awaits or two looks at the clock; a request may be cancelled at     *)
(* every await, and its deadline may pass between any two steps.           *)
(***************************************************************************)
EXTENDS ErrorSurface, ActivityTable

CONSTANTS
    Requests,     \* requests in flight
    SuppliedIds,  \* X-Request-ID values clients send, maybe the same one twice
    Endpoints,    \* subset of {"inference", "adaptive", "auto", "manual"}
    Repository,   \* whether a telemetry repository is configured
    Runtime,      \* whether an adaptive runtime is configured
    Reliable      \* whether writes fail only on a constraint or the deadline

ASSUME GatewayAssumption ==
    /\ Repository \in BOOLEAN /\ Runtime \in BOOLEAN /\ Reliable \in BOOLEAN
    /\ Endpoints \subseteq {"inference", "adaptive", "auto", "manual"}
    /\ Requests \cap SuppliedIds = {} /\ IsFiniteSet(Requests)

VARIABLES
    pc,         \* of each request: where it is
    endpoint,   \* of each request: its route, with the mode for /v1/chat
    rid,        \* of each request: request.state.request_id
    expired,    \* of each request: deadline.expired()
    result,     \* of each request: what execution, or what came before, gave
    gauge,      \* requests in progress
    rows,       \* the chat_activity table
    written,    \* of each request: the telemetry_write outcome counted
    admitted,   \* history: requests that passed admission
    reply       \* of each request: the HTTP answer, [0, "none"] before it

vars == <<pc, endpoint, rid, expired, result, gauge, rows, written, admitted, reply>>

Chat == {"auto", "manual"}
Ok == [class |-> "none", category |-> "none"]
Pending == [class |-> "pending", category |-> "none"]
Err(class) == [class |-> class, category |-> "none"]
NoReply == [status |-> 0, code |-> "none"]
Cancelled == [status |-> 499, code |-> "cancelled"]

\* What the services raise, one of each kind: what chat records and what it
\* does not, and of the latter what the error table knows and what it does not.
ProviderFailures ==
    {Err("ProviderUnavailableError"),
     [class |-> "CompletionRejectedError", category |-> "gateway_empty_response"]}
OtherFailures ==
    {Err("ContextLimitError"), Err("PredictorInputCompatibilityError")}
Deadline == Err("InferenceDeadlineExceededError")
Invalid == Err("ResponseValidationError")

Awaiting == {"routing", "admitting", "executing", "writing"}
InFlight == Awaiting \cup {"recording", "replying"}

Init ==
    /\ pc = [r \in Requests |-> "out"]
    /\ endpoint = [r \in Requests |-> "inference"]
    /\ rid = [r \in Requests |-> r]
    /\ expired = [r \in Requests |-> FALSE]
    /\ result = [r \in Requests |-> Pending]
    /\ gauge = 0 /\ rows = {} /\ admitted = {}
    /\ written = [r \in Requests |-> "none"]
    /\ reply = [r \in Requests |-> NoReply]

Goto(r, where) == pc' = [pc EXCEPT ![r] = where]
Gives(r, what) == result' = [result EXCEPT ![r] = what]

-----------------------------------------------------------------------------
(* The middleware on the way in, dependencies, validation.                 *)

\* The gauge goes up first; a header that is no identifier is answered here.
ArriveInvalidId(r) ==
    /\ pc[r] = "out"
    /\ reply' = [reply EXCEPT ![r] = [status |-> 400, code |-> "invalid_request_id"]]
    /\ Goto(r, "done")
    /\ UNCHANGED <<endpoint, rid, expired, result, gauge, rows, written, admitted>>

\* With a valid identifier, or with none: then one is generated, no one else's.
Arrive(r, e) ==
    /\ pc[r] = "out"
    /\ endpoint' = [endpoint EXCEPT ![r] = e]
    /\ \E i \in SuppliedIds \cup {r} : rid' = [rid EXCEPT ![r] = i]
    /\ gauge' = gauge + 1
    /\ Goto(r, "routing")
    /\ UNCHANGED <<expired, result, rows, written, admitted, reply>>

\* What is refused before a deadline exists: the body (422), a missing adaptive
\* runtime, the request limits, a threshold that is not the approved one.
Refusals(e) ==
    {Err("RequestValidationError"), Err("RequestLimitExceededError")}
    \cup (IF e = "adaptive" THEN {Err("InvalidQualityThresholdError")} ELSE {})

Refuse(r) ==
    /\ pc[r] = "routing"
    /\ \E x \in IF endpoint[r] = "adaptive" /\ ~Runtime
                THEN {Err("AdaptiveRoutingUnavailableError"), Err("RequestValidationError")}
                ELSE Refusals(endpoint[r]) : Gives(r, x)
    /\ Goto(r, "replying")
    /\ UNCHANGED <<endpoint, rid, expired, gauge, rows, written, admitted, reply>>

\* new_deadline, then the await of admit.
AskAdmission(r) ==
    /\ pc[r] = "routing" /\ (endpoint[r] = "adaptive" => Runtime)
    /\ Goto(r, "admitting")
    /\ UNCHANGED <<endpoint, rid, expired, result, gauge, rows, written, admitted, reply>>

Expire(r) ==
    /\ pc[r] \in InFlight \ {"routing"} /\ ~expired[r]
    /\ expired' = [expired EXCEPT ![r] = TRUE]
    /\ UNCHANGED <<pc, endpoint, rid, result, gauge, rows, written, admitted, reply>>

-----------------------------------------------------------------------------
(* Admission and execution, by their results.                              *)

Admit(r) ==
    /\ pc[r] = "admitting"
    /\ admitted' = admitted \cup {r}
    /\ Goto(r, "executing")
    /\ UNCHANGED <<endpoint, rid, expired, result, gauge, rows, written, reply>>

NotAdmitted(r) ==
    /\ pc[r] = "admitting"
    /\ \/ Gives(r, Err("RateLimitExceededError"))
       \/ Gives(r, Err("RateLimitUnavailableError"))
       \/ expired[r] /\ Gives(r, Deadline)
    /\ Goto(r, "replying")
    /\ UNCHANGED <<endpoint, rid, expired, gauge, rows, written, admitted, reply>>

\* The failures chat orchestration catches to record them.
Recorded(r) ==
    {Deadline} \cup ProviderFailures
    \cup (IF endpoint[r] = "manual" THEN {Invalid} ELSE {})

\* Execution ends; it raises the deadline error only when the deadline passed.
Executed(r, x) ==
    /\ pc[r] = "executing"
    /\ x = Deadline => expired[r]
    /\ x = Invalid => endpoint[r] \in {"adaptive", "manual"}
    /\ endpoint[r] = "manual" /\ ~Runtime => x = Err("AdaptiveRoutingUnavailableError")
    /\ x = Err("AdaptiveRoutingUnavailableError") => endpoint[r] = "manual" /\ ~Runtime
    /\ Gives(r, x)
    /\ Goto(r, IF endpoint[r] \in Chat /\ x \in {Ok} \cup Recorded(r)
               THEN "recording" ELSE "replying")
    /\ UNCHANGED <<endpoint, rid, expired, gauge, rows, written, admitted, reply>>

ExecutionResults ==
    {Ok, Deadline, Invalid, Err("AdaptiveRoutingUnavailableError")}
    \cup ProviderFailures \cup OtherFailures

-----------------------------------------------------------------------------
(* The activity row.                                                       *)

\* _failure_outcome, and "returned" for a response.
Outcome(x) ==
    CASE x = Ok -> "returned"
      [] IsInstance(x, "ResponseValidationError") -> "validation_failed"
      [] IsInstance(x, "InferenceDeadlineExceededError") -> "deadline_exceeded"
      [] OTHER -> "provider_failure"

Activity(r) == [id |-> r, req |-> rid[r], at |-> 0, outcome |-> Outcome(result[r])]

\* Mutant: an expired deadline is not a reason to skip.
SkipWrite_OnlyUnconfigured(r) ==
    /\ pc[r] = "recording" /\ ~Repository
    /\ Goto(r, "replying")
    /\ UNCHANGED <<endpoint, rid, expired, result, gauge, rows, written, admitted, reply>>

\* No repository, or no time left: nothing is written and nothing counted.
SkipWrite(r) ==
    /\ pc[r] = "recording" /\ (~Repository \/ expired[r])
    /\ Goto(r, "replying")
    /\ UNCHANGED <<endpoint, rid, expired, result, gauge, rows, written, admitted, reply>>

StartWrite(r) ==
    /\ pc[r] = "recording" /\ Repository /\ ~expired[r]
    /\ Goto(r, "writing")
    /\ UNCHANGED <<endpoint, rid, expired, result, gauge, rows, written, admitted, reply>>

WriteSucceeds(r) ==
    /\ pc[r] = "writing" /\ Accepts(rows, Activity(r))
    /\ rows' = rows \cup {Activity(r)}
    /\ written' = [written EXCEPT ![r] = "success"]
    /\ Goto(r, "replying")
    /\ UNCHANGED <<endpoint, rid, expired, result, gauge, admitted, reply>>

\* Mutant: the exception of the write is not caught.
WriteFails_Raises(r) ==
    /\ pc[r] = "writing"
    /\ ~Reliable \/ expired[r] \/ ~Accepts(rows, Activity(r))
    /\ rows' \in {rows}
    /\ written' = [written EXCEPT ![r] = "failure"]
    /\ reply' = [reply EXCEPT ![r] = application_error(Err("IntegrityError"))]
    /\ gauge' = gauge - 1
    /\ Goto(r, "done")
    /\ UNCHANGED <<endpoint, rid, expired, result, admitted>>

\* A taken identifier, the timeout, the database; the row may be there all the
\* same when it is the answer of the database that was lost.
WriteFails(r) ==
    /\ pc[r] = "writing"
    /\ ~Reliable \/ expired[r] \/ ~Accepts(rows, Activity(r))
    /\ rows' \in {rows} \cup (IF Accepts(rows, Activity(r))
                              THEN {rows \cup {Activity(r)}} ELSE {})
    /\ written' = [written EXCEPT ![r] = "failure"]
    /\ Goto(r, "replying")
    /\ UNCHANGED <<endpoint, rid, expired, result, gauge, admitted, reply>>

-----------------------------------------------------------------------------
(* The answer, and the middleware on the way out.                          *)

Answer(x) ==
    CASE x = Ok -> [status |-> 200, code |-> "ok"]
      [] x = Err("RequestValidationError") -> [status |-> 422, code |-> "invalid_request"]
      [] OTHER -> application_error(x)

\* Mutant: the end of a request is counted by the handler and the middleware.
Reply_CountedTwice(r) ==
    /\ pc[r] = "replying" /\ Goto(r, "done")
    /\ reply' = [reply EXCEPT ![r] = Answer(result[r])]
    /\ gauge' = gauge - 2
    /\ UNCHANGED <<endpoint, rid, expired, result, rows, written, admitted>>

\* The finally clause of the middleware runs for answers and exceptions alike.
Reply(r) ==
    /\ pc[r] = "replying" /\ Goto(r, "done")
    /\ reply' = [reply EXCEPT ![r] = Answer(result[r])]
    /\ gauge' = gauge - 1
    /\ UNCHANGED <<endpoint, rid, expired, result, rows, written, admitted>>

\* Mutant: the gauge is lowered after the answer only.
Cancel_GaugeKept(r) ==
    /\ pc[r] \in Awaiting
    /\ reply' = [reply EXCEPT ![r] = Cancelled]
    /\ Goto(r, "done")
    /\ UNCHANGED <<endpoint, rid, expired, result, gauge, rows, written, admitted>>

\* Cancelled at an await; a write that was under way may have been committed.
Cancel(r) ==
    /\ pc[r] \in Awaiting
    /\ rows' \in {rows} \cup (IF pc[r] = "writing" /\ Accepts(rows, Activity(r))
                              THEN {rows \cup {Activity(r)}} ELSE {})
    /\ reply' = [reply EXCEPT ![r] = Cancelled]
    /\ gauge' = gauge - 1
    /\ Goto(r, "done")
    /\ UNCHANGED <<endpoint, rid, expired, result, written, admitted>>

-----------------------------------------------------------------------------
RequestStep(r) ==
    \/ ArriveInvalidId(r)
    \/ \E e \in Endpoints : Arrive(r, e)
    \/ Refuse(r) \/ AskAdmission(r) \/ Admit(r) \/ NotAdmitted(r)
    \/ \E x \in ExecutionResults : Executed(r, x)
    \/ SkipWrite(r) \/ StartWrite(r) \/ WriteSucceeds(r) \/ WriteFails(r)
    \/ Reply(r)

Next == \E r \in Requests : RequestStep(r) \/ Expire(r) \/ Cancel(r)

Spec == Init /\ [][Next]_vars

\* The event loop runs what is ready; the deadline passes; admission, execution
\* and the write end when it has, which their own timeouts guarantee.
FairSpec ==
    /\ Spec
    /\ \A r \in Requests :
          /\ WF_vars(Refuse(r) \/ AskAdmission(r))
          /\ WF_vars(Expire(r))
          /\ WF_vars(expired[r] /\ (Admit(r) \/ NotAdmitted(r)))
          /\ WF_vars(expired[r] /\ \E x \in ExecutionResults : Executed(r, x))
          /\ WF_vars(SkipWrite(r) \/ StartWrite(r))
          /\ WF_vars(expired[r] /\ (WriteSucceeds(r) \/ WriteFails(r)))
          /\ WF_vars(Reply(r))

-----------------------------------------------------------------------------
(* Properties.                                                             *)

\* The variables hold what the code can put there.
TypeOK ==
    /\ pc \in [Requests -> InFlight \cup {"out", "done"}]
    /\ endpoint \in [Requests -> Endpoints \cup {"inference"}]
    /\ rid \in [Requests -> SuppliedIds \cup Requests]
    /\ expired \in [Requests -> BOOLEAN]
    /\ written \in [Requests -> {"none", "success", "failure"}]
    /\ admitted \subseteq Requests /\ gauge \in 0 .. Cardinality(Requests)
    /\ \A row \in rows : row.outcome \in {"returned", "provider_failure",
                                          "validation_failed", "deadline_exceeded"}

\* However requests interleave, fail or are cancelled, the in-progress gauge is
\* the number of requests in progress (http_started and http_finished).
GaugeBalanced == gauge = Cardinality({r \in Requests : pc[r] \in InFlight})

\* A row tells what its request's client was told: "returned" for 200, a
\* failure for an error with a fitting code; only a client that left was told
\* nothing (ChatOrchestrationService.generate against the error table).
RowTellsAnswer ==
    \A row \in rows :
        LET r == row.id
        IN  /\ r \in admitted /\ endpoint[r] \in Chat /\ row.req = rid[r]
            /\ pc[r] = "done" /\ reply[r] # Cancelled =>
                  /\ (row.outcome = "returned") <=> (reply[r].status = 200)
                  /\ (row.outcome = "validation_failed") <=>
                        (reply[r].code = "response_validation_failed")

\* Telemetry decides nothing: the answer is what execution gave, whether the
\* row was written, lost, or refused because another request has its identifier.
AnswerIsResult ==
    \A r \in Requests :
        pc[r] = "done" /\ result[r] # Pending /\ reply[r] # Cancelled =>
            /\ (reply[r].status = 200) <=> (result[r] = Ok)
            /\ result[r] # Ok => reply[r] = Answer(result[r])

\* A row that is missing was counted as a failure, or there was no time left:
\* no chat that was answered in time loses its row unseen.
LostRowsAreCounted ==
    \A r \in Requests :
        /\ pc[r] = "done" /\ reply[r] # Cancelled /\ Repository /\ ~expired[r]
           /\ endpoint[r] \in Chat /\ r \in admitted
           /\ (result[r] = Ok \/ result[r] \in Recorded(r))
              => (\E row \in rows : row.id = r) \/ written[r] = "failure"
        /\ written[r] = "success" => \E row \in rows : row.id = r /\ row.req = rid[r]

\* The result of the execution, the answer and the activity row tell one story,
\* whoever else uses the request's identifier: the answer is the result, the row
\* agrees with it, and a row that is missing was counted.
AnswersAndRowsAgree == AnswerIsResult /\ RowTellsAnswer /\ LostRowsAreCounted

\* Every request that arrives is answered or cancelled.
Answered == \A r \in Requests : pc[r] = "routing" ~> pc[r] = "done"

\* One activity summary for each chat execution, a deadline_exceeded one
\* included, as long as the repository works and no identifier is used twice
\* (telemetry/contracts.py, ChatActivityRecord and ChatActivityOutcome).
DeadlineIsRecorded ==
    \A r \in Requests :
        pc[r] = "done" /\ reply[r] # Cancelled /\ r \in admitted
        /\ endpoint[r] \in Chat /\ result[r] = Deadline
            => \E row \in rows : row.id = r /\ row.outcome = "deadline_exceeded"
=============================================================================
