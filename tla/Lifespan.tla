------------------------------ MODULE Lifespan ------------------------------
(***************************************************************************)
(* One life of the application process: the lifespan of api/app.py, the    *)
(* two context managers of runtime.py it enters, and GET /ready.           *)
(*                                                                         *)
(* Startup may fail at every step, and may be cancelled at its one await;  *)
(* whatever was opened by then is closed on the way out, last opened first.*)
(* Closing may fail too.                                                   *)
(***************************************************************************)
EXTENDS Naturals, Sequences

VARIABLES
    env,          \* the environment: which dependencies are configured
    pc,           \* the step of startup, "serving", "unwind", "stopped"
    http,         \* the HTTP client: "none", "open", "closed"
    database,     \* the database engine
    redis,        \* the Redis client
    telemetry,    \* service.telemetry is the repository
    vercel,       \* the reviewed models and their adapter are registered
    runtime,      \* app.state.adaptive_runtime is not None
    required,     \* app.state.adaptive_required
    chat,         \* app.state.chat_service is not None
    initialized,  \* app.state.initialized
    probe,        \* GET /ready: "idle", "asked", "pinging", "ready", "not_ready"
    flags,        \* its locals initialized, providers_available, adaptive_available
    whole,        \* history: the process was complete when they were read
    up,           \* Redis answers pings in time (external)
    failed        \* history: startup raised

resources == <<http, database, redis>>
state == <<telemetry, vercel, runtime, required, chat, initialized>>
request == <<probe, flags, whole>>
vars == <<env, pc, resources, state, request, up, failed>>

Phase == {"none", "open", "closed"}

Init ==
    /\ env \in [db : BOOLEAN, redis : BOOLEAN, adaptive : BOOLEAN, key : BOOLEAN]
    /\ pc = "settings"
    /\ http = "none" /\ database = "none" /\ redis = "none"
    /\ telemetry = FALSE /\ vercel = FALSE /\ runtime = FALSE /\ required = FALSE
    /\ chat = FALSE /\ initialized = FALSE
    /\ probe = "idle" /\ flags = FALSE /\ whole = FALSE /\ up = TRUE /\ failed = FALSE

\* An exception: the context managers that were entered are left again.
Raise == pc' = "unwind" /\ failed' = TRUE

-----------------------------------------------------------------------------
(* Startup.                                                                *)

\* A setting does not validate; nothing is open yet.
BadSettings ==
    /\ pc = "settings" /\ Raise
    /\ UNCHANGED <<env, resources, state, request, up>>

\* The HTTP client, the development service, and with a key the real models.
OpenHttp ==
    /\ pc = "settings"
    /\ http' = "open" /\ vercel' = env.key
    /\ pc' = "database"
    /\ UNCHANGED <<env, database, redis, telemetry, runtime, required, chat,
                   initialized, request, up, failed>>

\* Without a database telemetry is off; the engine may refuse its URL.
NoDatabase ==
    /\ pc = "database" /\ ~env.db
    /\ pc' = "limiter"
    /\ UNCHANGED <<env, resources, state, request, up, failed>>

OpenDatabase ==
    /\ pc = "database" /\ env.db
    /\ \/ /\ database' = "open" /\ telemetry' = TRUE
          /\ pc' = "probing" /\ UNCHANGED failed
       \/ Raise /\ UNCHANGED <<database, telemetry>>
    /\ UNCHANGED <<env, http, redis, vercel, runtime, required, chat, initialized, request, up>>

\* The probe answers, fails or times out: startup goes on.  It is the one
\* await of startup; a cancellation there is not caught.
Probed ==
    /\ pc = "probing"
    /\ \/ pc' = "limiter" /\ UNCHANGED failed
       \/ Raise
    /\ UNCHANGED <<env, resources, state, request, up>>

\* rate_limiter_service: its settings, and the client if one is required.
Limiter ==
    /\ pc = "limiter"
    /\ \/ Raise /\ UNCHANGED redis
       \/ /\ redis' = IF env.redis THEN "open" ELSE "none"
          /\ pc' = "adaptive" /\ UNCHANGED failed
    /\ UNCHANGED <<env, http, database, state, request, up>>

\* AdaptiveRoutingConfig.from_environment: all or nothing.
AdaptiveConfig ==
    /\ pc = "adaptive"
    /\ \/ Raise /\ UNCHANGED required
       \/ required' = env.adaptive /\ pc' = "artifact" /\ UNCHANGED failed
    /\ UNCHANGED <<env, resources, telemetry, vercel, runtime, chat, initialized, request, up>>

\* build_adaptive_runtime: no artifact is loaded unless one is configured; a
\* bad one, or a candidate it does not know, stops the start.
LoadArtifact ==
    /\ pc = "artifact"
    /\ \/ required /\ Raise /\ UNCHANGED runtime
       \/ runtime' = required /\ pc' = "chat" /\ UNCHANGED failed
    /\ UNCHANGED <<env, resources, telemetry, vercel, required, chat, initialized, request, up>>

\* The default model must be configured, registered and enabled.
BuildChat ==
    /\ pc = "chat"
    /\ \/ Raise /\ UNCHANGED <<chat, initialized>>
       \/ chat' = TRUE /\ initialized' = TRUE /\ pc' = "serving" /\ UNCHANGED failed
    /\ UNCHANGED <<env, resources, telemetry, vercel, runtime, required, request, up>>

-----------------------------------------------------------------------------
(* Shutdown and failure: the exit stacks.                                  *)

\* The server may leave the lifespan with requests still running.
Shutdown ==
    /\ pc = "serving"
    /\ initialized' = FALSE
    /\ pc' = "unwind"
    /\ UNCHANGED <<env, resources, telemetry, vercel, runtime, required, chat, request, up, failed>>

\* Mutant: a Redis client that fails to close ends the unwinding.
CloseRedis_Escapes ==
    /\ pc = "unwind" /\ redis = "open"
    /\ redis' = "closed"
    /\ pc' \in {"unwind", "stopped"}
    /\ UNCHANGED <<env, http, database, state, request, up, failed>>

\* client.aclose(): whether or not it raises, the outer managers are left.
CloseRedis ==
    /\ pc = "unwind" /\ redis = "open"
    /\ redis' = "closed"
    /\ UNCHANGED <<env, pc, http, database, state, request, up, failed>>

\* database.close() in a try whose finally closes the HTTP client.
CloseDatabase ==
    /\ pc = "unwind" /\ redis # "open" /\ database = "open"
    /\ database' = "closed"
    /\ UNCHANGED <<env, pc, http, redis, state, request, up, failed>>

CloseHttp ==
    /\ pc = "unwind" /\ redis # "open" /\ database # "open"
    /\ http' = IF http = "open" THEN "closed" ELSE http
    /\ pc' = "stopped"
    /\ UNCHANGED <<env, database, redis, state, request, up, failed>>

-----------------------------------------------------------------------------
(* GET /ready.                                                             *)

RedisComesAndGoes ==
    /\ env.redis /\ ~failed /\ pc \in {"serving", "unwind", "stopped"}
    /\ up' = ~up
    /\ UNCHANGED <<env, pc, resources, state, request, failed>>

\* A server calls the application once startup has completed; a probe may still
\* reach it while it shuts down.
AskReady ==
    /\ ~failed /\ pc \in {"serving", "unwind", "stopped"}
    /\ probe \notin {"asked", "pinging"}
    /\ probe' = "asked"
    /\ UNCHANGED <<env, pc, resources, state, flags, whole, up, failed>>

\* Every configured part is there and open.
Whole ==
    /\ pc = "serving" /\ chat /\ http = "open" /\ (vercel <=> env.key)
    /\ env.db => telemetry /\ database = "open"
    /\ env.redis => redis = "open"
    /\ env.adaptive => runtime

\* Mutant: readiness is asked of the service and the runtime alone.
ReadFlags_NotInitialized(models) ==
    /\ probe = "asked"
    /\ flags' = (models /\ (required => runtime))
    /\ whole' = Whole
    /\ probe' = "pinging"
    /\ UNCHANGED <<env, pc, resources, state, up, failed>>

\* ready, up to its await.  models: some enabled model has an adapter.
ReadFlags(models) ==
    /\ probe = "asked"
    /\ flags' = (initialized /\ models /\ (required => runtime))
    /\ whole' = Whole
    /\ probe' = "pinging"
    /\ UNCHANGED <<env, pc, resources, state, up, failed>>

\* After the await.  DisabledRateLimiter is always ready; Redis must answer the
\* ping in time, and an exception is as good as no answer.  A client that was
\* closed meanwhile may connect again or refuse.
AnswerReady(connects) ==
    LET pong == env.redis => up /\ (redis = "open" \/ connects)
    IN  /\ probe = "pinging"
        /\ probe' = IF flags /\ pong THEN "ready" ELSE "not_ready"
        /\ UNCHANGED <<env, pc, resources, state, flags, whole, up, failed>>

Ready == \E choice \in BOOLEAN : ReadFlags(choice) \/ AnswerReady(choice)

Startup ==
    \/ BadSettings \/ OpenHttp \/ NoDatabase \/ OpenDatabase \/ Probed
    \/ Limiter \/ AdaptiveConfig \/ LoadArtifact \/ BuildChat

Closing == CloseRedis \/ CloseDatabase \/ CloseHttp

Next ==
    \/ Startup \/ Shutdown \/ Closing
    \/ AskReady \/ RedisComesAndGoes \/ Ready

Spec == Init /\ [][Next]_vars

\* The event loop runs and closings return.  Nothing makes a process that serves
\* shut down.
FairSpec == Spec /\ WF_vars(Startup \/ Closing)

-----------------------------------------------------------------------------
(* Properties.                                                             *)

\* The variables hold what the code can put there.
TypeOK ==
    /\ pc \in {"settings", "database", "probing", "limiter", "adaptive",
               "artifact", "chat", "serving", "unwind", "stopped"}
    /\ {http, database, redis} \subseteq Phase
    /\ {telemetry, vercel, runtime, required, chat, initialized, flags, whole, up,
        failed} \subseteq BOOLEAN
    /\ probe \in {"idle", "asked", "pinging", "ready", "not_ready"}

\* Whatever step failed, and whatever failed on the way out, a process that has
\* stopped has closed all it opened (the finally clauses of runtime.py).
NothingLeftOpen ==
    pc = "stopped" => "open" \notin {http, database, redis} /\ ~initialized

\* While requests are served every configured part is there and no resource
\* they use is closed under them: initialized goes first (api/app.py).
ServingIsComplete ==
    initialized =>
        /\ pc = "serving" /\ chat /\ ~failed
        /\ http = "open" /\ (vercel <=> env.key)
        /\ telemetry => database = "open"
        /\ env.db => telemetry
        /\ env.redis => redis = "open"
        /\ env.adaptive => runtime

\* The client is closed after the database, the database after Redis: never a
\* resource before one that was opened later.
ClosedInReverse ==
    /\ http = "closed" => database # "open" /\ redis # "open"
    /\ database = "closed" => redis # "open"

\* No resource outlives its user and none is missed: the process opens what it
\* serves with, keeps it while it serves, and closes all of it last opened first.
ResourcesAreSound == NothingLeftOpen /\ ServingIsComplete /\ ClosedInReverse

\* A ready answer is never older than its own ping, although shutdown may begin
\* at any moment of the probe: when the handler read its flags the process was
\* serving with every configured part open, and Redis answers the ping that
\* followed.  A probe whose flags are read after shutdown began is never ready
\* (routes.py, ready; api/app.py, the finally of lifespan).
ReadyIsEarned ==
    [][probe' = "ready" /\ probe # "ready" => whole /\ (env.redis => up)]_vars

\* Startup ends: the application serves or stops with everything closed.
StartEnds == <>(pc \in {"serving", "stopped"})
=============================================================================
