------------------------------ MODULE MCService -------------------------------
(* The parts of the service, instantiated for TLC: one inference request (the *)
(* module this one extends), the activity feed, the life of the process, one  *)
(* provider call from the upstream's answer to the HTTP answer, and admission *)
(* when Redis may never answer.  They share no state: a behaviour is one of   *)
(* `part`, and the others stay as they began.                                 *)
EXTENDS MCAdaptiveInference

CONSTANTS
    Chats, RequestIds, Times, Limits,   \* ActivityFeed
    Statuses, Codes, Endings            \* ProviderCalls

VARIABLES
    part,
    \* ActivityFeed
    pending, metric, table, walk, before, answer, page, base, delivered, passed,
    \* Lifespan
    env, step, http, database, redis, recording, vercel, runtime, required, chat,
    initialized, probe, flags, whole, up, failed,
    \* ProviderCalls
    callPc, adapter, error, upstream, event, reply,
    \* RateLimiter
    now, counter, expireAt, admitPc, deadline, giveUpAt, command, retryMs, blockedBy,
    retryAt, restarts, epoch, ledger, scriptAt, seen

Feed == INSTANCE ActivityFeed WITH rows <- table

Process == INSTANCE Lifespan WITH pc <- step, telemetry <- recording

Provider == INSTANCE ProviderCalls WITH pc <- callPc, answer <- upstream

\* Two requests of one client, which fill its window.
Admission == INSTANCE RateLimiter WITH
    pc <- admitPc,
    Clients <- {"client"}, Global <- "global", Requests <- {1, 2},
    ClientOf <- [r \in {1, 2} |-> "client"],
    KindOf <- [r \in {1, 2} |-> IF r = 1 THEN "explicit" ELSE "adaptive"],
    ExplicitWeight <- 1, AdaptiveWeight <- 2, ClientCapacity <- 2, GlobalCapacity <- 2,
    ClientWindowSeconds <- 1, GlobalWindowSeconds <- 1, Second <- 2,
    RedisTimeout <- 1, DeadlineTicks <- 2, Horizon <- 0, MaxNow <- 3, MaxRestarts <- 0

ASSUME PartsAssumption == Feed!FeedAssumption /\ Provider!ProviderAssumption

\* Every word the adapter knows and one it does not, in both cases, under each
\* key; and two keys that say different things, an unsafe value among them.
MCEndings ==
    LET words == {"stop", "end_turn", "end", "complete", "completed", "length",
                  "max_tokens", "max_output_tokens", "token_limit", "tool_call",
                  "tool_calls", "function_call", "content_filter",
                  "content_filtered", "safety", "blocked", "novel"}
        lower(w) == [word |-> w, upper |-> FALSE]
        values == [word : words, upper : BOOLEAN] \cup {lower(""), lower("unsafe")}
        some == {lower("stop"), lower("length"), lower("unsafe"), lower("novel")}
        Ending(u, v, w) == [finish_reason |-> u, finishReason |-> v, stop_reason |-> w]
    IN  {Ending(u, v, lower("")) : u \in {lower("")} \cup some, v \in values}
        \cup {Ending(u, lower(""), v) : u \in values, v \in {lower("")} \cup some}
        \cup {Ending(lower(""), u, v) : u \in some, v \in some}

feed == <<pending, metric, table, walk, before, answer, page, base, delivered, passed>>
process == <<env, step, http, database, redis, recording, vercel, runtime, required,
             chat, initialized, probe, flags, whole, up, failed>>
provider == <<callPc, adapter, error, upstream, event, reply>>
admission == <<now, counter, expireAt, admitPc, deadline, giveUpAt, command, retryMs,
               blockedBy, retryAt, restarts, epoch, ledger, scriptAt, seen>>
allVars == <<part, vars, feed, process, provider, admission>>

PartsInit ==
    /\ part \in {"inference", "feed", "process", "provider", "admission"}
    /\ Init /\ (part # "inference" =>
                  mode = "legacy" /\ question = AllQualify /\ ~telemetry)
    /\ Process!Init /\ (part # "process" => \A d \in DOMAIN env : env[d])
    /\ Feed!Init /\ Provider!Init /\ Admission!Init

\* Which part moves, and that the others stay.
InInference == part = "inference" /\ UNCHANGED <<part, feed, process, provider, admission>>
InFeed == part = "feed" /\ UNCHANGED <<part, vars, process, provider, admission>>
InProcess == part = "process" /\ UNCHANGED <<part, vars, feed, provider, admission>>
InProvider == part = "provider" /\ UNCHANGED <<part, vars, feed, process, admission>>
InAdmission == part = "admission" /\ UNCHANGED <<part, vars, feed, process, provider>>

PartsNext ==
    \/ InInference /\ Next
    \/ InFeed /\ Feed!Next
    \/ InProcess /\ Process!Next
    \/ InProvider /\ Provider!Next
    \/ InAdmission /\ Admission!Next

\* The fairness of each component, where it is the one that moves.
PartsSpec ==
    /\ PartsInit /\ [][PartsNext]_allVars
    /\ WF_vars(part = "inference" /\ Prompt)
    /\ WF_vars(part = "inference" /\ Expire)
    /\ WF_feed(part = "feed" /\ \E n \in Limits : Feed!ReadPage(n))
    /\ WF_process(part = "process" /\ (Process!Startup \/ Process!Closing))
    /\ WF_admission(part = "admission" /\ Admission!Tick)
    /\ \A r \in {1, 2} :
          WF_admission(part = "admission"
             /\ (\/ Admission!AdmitExpired(r) \/ Admission!AdmitSend(r)
                 \/ Admission!Timeout(r)))

-----------------------------------------------------------------------------
(* Properties; those of the inference request are stated in its own module.  *)

\* The type invariants of the other components.
PartsTypeOK == Feed!TypeOK /\ Process!TypeOK /\ Provider!TypeOK

\* What a client reads page by page is the history: whole, each row once, newest
\* first, one row per request id, whatever commits late or between two pages
\* (telemetry/query.py, list_chat_activity).
PagesTellHistory == Feed!PagesTellHistory

\* Whatever step of startup or shutdown fails, a process that has stopped has
\* closed all it opened, later resources first, and while it serves every
\* configured part is there and open (runtime.py; api/app.py, lifespan).
ResourcesAreSound == Process!ResourcesAreSound

\* A ready answer is never older than its own ping, although shutdown may begin
\* at any moment of the probe: the process was serving with every part open when
\* the flags were read, and Redis answers the ping that followed; a probe whose
\* flags are read after shutdown began is never ready (routes.py, ready).
ReadyIsEarned == Process!ReadyIsEarned

\* Paid completions are priced, returned ones are usable, the client's code is
\* the event's category, and the upstream's failures are not blamed on the
\* client (providers/vercel.py, service.py, api/app.py).
AnswersTellWhatHappened == Provider!AnswersTellWhatHappened

\* The request is answered although the provider may never answer
\* (InferenceService.generate, whose timeout is the rest of the deadline).
RequestEnds == part = "inference" => Terminates

\* A walk through the pages ends although rows keep coming (Feed!WalkEnds), and
\* startup ends: the application serves or stops with everything closed
\* (Process!StartEnds); in one formula, since one part moves.
WalksAndStartsEnd ==
    \/ part = "feed" /\ walk = "reading"
    \/ part = "process" /\ step = "settings"
    ~>
    \/ part = "feed" /\ walk = "done"
    \/ part = "process" /\ step \in {"serving", "stopped"}

\* Every admit() call returns or raises, even when Redis never answers
\* (rate_limit.py, RedisRateLimiter.admit).
AdmitReturns == Admission!AdmitReturns
=============================================================================
