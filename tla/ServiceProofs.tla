---------------------------- MODULE ServiceProofs ----------------------------
(***************************************************************************)
(* Proofs about the service around its requests, for every set of chats,   *)
(* times, page sizes and upstream answers: the life of the process         *)
(* (Lifespan), the activity feed (ActivityFeed) and one provider call      *)
(* (ProviderCalls).  Each is proved of the component's own specification,  *)
(* which MCService, where all three live, implies.                         *)
(***************************************************************************)
EXTENDS MCService, FiniteSetTheorems, WellFoundedInduction, TLAPS

\* A behaviour of MCService moves one component and leaves the others alone, so
\* it is a behaviour of each.
LEMMA PartsAreComponents ==
    PartsSpec => Spec /\ Feed!Spec /\ Process!Spec /\ Provider!Spec
<1>1. PartsInit => Init /\ Feed!Init /\ Process!Init /\ Provider!Init
  BY DEF PartsInit
<1> USE DEF PartsNext, InInference, InFeed, InProcess, InProvider, InAdmission, allVars
<1>2. [PartsNext]_allVars => [Next]_vars
  OBVIOUS
<1>3. [PartsNext]_allVars => [Feed!Next]_(Feed!vars)
  BY DEF feed, Feed!vars, Feed!writers, Feed!reader
<1>4. [PartsNext]_allVars => [Process!Next]_(Process!vars)
  BY DEF process, Process!vars, Process!resources, Process!state, Process!request
<1>5. [PartsNext]_allVars => [Provider!Next]_(Provider!vars)
  BY DEF provider, Provider!vars
<1> QED
  BY <1>1, <1>2, <1>3, <1>4, <1>5, PTL
     DEF PartsSpec, Spec, Feed!Spec, Process!Spec, Provider!Spec

-----------------------------------------------------------------------------
(* The life of the process.                                                *)

Early == {"settings", "database"}
Opened == {"probing", "limiter", "adaptive", "artifact", "chat", "serving"}

\* What startup has built by each of its steps, which is what it serves with.
Built ==
    /\ initialized <=> step = "serving"
    /\ step = "settings" => http = "none"
    /\ step \in Early => database = "none" /\ ~recording
    /\ step \in Early \cup {"probing", "limiter"} => redis = "none"
    /\ step \in Early \cup Opened => ~failed
    /\ step \in {"database"} \cup Opened => http = "open" /\ (vercel <=> env.key)
    /\ step \in Opened =>
          /\ env.db => recording /\ database = "open"
          /\ ~env.db => ~recording /\ database = "none"
    /\ step \in {"adaptive", "artifact", "chat", "serving"} =>
          redis = IF env.redis THEN "open" ELSE "none"
    /\ step \in {"artifact", "chat", "serving"} => (required <=> env.adaptive)
    /\ step \in {"chat", "serving"} => (runtime <=> required)
    /\ step = "serving" => chat

\* Each variable on its own, as startup and the exit stacks leave it: those that
\* name something, and those that are true or false.
Words ==
    /\ step \in {"settings", "database", "probing", "limiter", "adaptive",
                "artifact", "chat", "serving", "unwind", "stopped"}
    /\ http \in Process!Phase /\ database \in Process!Phase /\ redis \in Process!Phase
    /\ probe \in {"idle", "asked", "pinging", "ready", "not_ready"}

Switches ==
    /\ env.db \in BOOLEAN /\ env.redis \in BOOLEAN
    /\ env.adaptive \in BOOLEAN /\ env.key \in BOOLEAN
    /\ recording \in BOOLEAN /\ vercel \in BOOLEAN /\ runtime \in BOOLEAN
    /\ required \in BOOLEAN /\ chat \in BOOLEAN /\ initialized \in BOOLEAN
    /\ flags \in BOOLEAN /\ whole \in BOOLEAN /\ up \in BOOLEAN /\ failed \in BOOLEAN

Kinds == Words /\ Switches

\* What a probe has read was true of the process as a whole.
Read == probe = "pinging" => (flags => whole)

ProcessInv == Kinds /\ Built /\ Read /\ Process!NothingLeftOpen /\ Process!ClosedInReverse

\* Every step leaves each variable with a value of its kind.
LEMMA WordsStep == Words /\ [Process!Next]_(Process!vars) => Words'
<1> SUFFICES ASSUME Words, [Process!Next]_(Process!vars) PROVE Words'
  OBVIOUS
<1> USE DEF Words, Process!resources, Process!state, Process!request, Process!Phase,
            Process!Raise
<1>1. CASE Process!BadSettings
  BY <1>1 DEF Process!BadSettings
<1>2. CASE Process!OpenHttp
  BY <1>2 DEF Process!OpenHttp
<1>3. CASE Process!NoDatabase
  BY <1>3 DEF Process!NoDatabase
<1>4. CASE Process!OpenDatabase
  BY <1>4 DEF Process!OpenDatabase
<1>5. CASE Process!Probed
  BY <1>5 DEF Process!Probed
<1>6. CASE Process!Limiter
  BY <1>6 DEF Process!Limiter
<1>7. CASE Process!AdaptiveConfig
  BY <1>7 DEF Process!AdaptiveConfig
<1>8. CASE Process!LoadArtifact
  BY <1>8 DEF Process!LoadArtifact
<1>9. CASE Process!BuildChat
  BY <1>9 DEF Process!BuildChat
<1>10. CASE Process!Shutdown
  BY <1>10 DEF Process!Shutdown
<1>11. CASE Process!CloseRedis
  BY <1>11 DEF Process!CloseRedis
<1>12. CASE Process!CloseDatabase
  BY <1>12 DEF Process!CloseDatabase
<1>13. CASE Process!CloseHttp
  BY <1>13 DEF Process!CloseHttp
<1>14. CASE Process!AskReady
  BY <1>14 DEF Process!AskReady
<1>15. CASE Process!RedisComesAndGoes
  BY <1>15 DEF Process!RedisComesAndGoes
<1>16. CASE Process!Ready
  BY <1>16 DEF Process!Ready, Process!ReadFlags, Process!AnswerReady, Process!Whole
<1>17. CASE UNCHANGED Process!vars
  BY <1>17 DEF Process!vars
<1> QED
  BY <1>1, <1>2, <1>3, <1>4, <1>5, <1>6, <1>7, <1>8, <1>9, <1>10, <1>11, <1>12, <1>13, <1>14, <1>15, <1>16,
     <1>17
     DEF Process!Next, Process!Startup, Process!Closing

\* The same of the switches: where each gets its value from.
LEMMA SwitchesStep == Switches /\ [Process!Next]_(Process!vars) => Switches'
<1> SUFFICES ASSUME Switches, [Process!Next]_(Process!vars) PROVE Switches'
  OBVIOUS
<1>0. /\ env' = env
      /\ recording' = recording \/ recording' = TRUE
      /\ vercel' = vercel \/ vercel' = env.key
      /\ runtime' = runtime \/ runtime' = required
      /\ required' = required \/ required' = env.adaptive
      /\ chat' = chat \/ chat' = TRUE
      /\ initialized' = initialized \/ initialized' = TRUE \/ initialized' = FALSE
      /\ flags' = flags \/ \E models \in BOOLEAN : Process!ReadFlags(models)
      /\ whole' = whole \/ \E models \in BOOLEAN : Process!ReadFlags(models)
      /\ up' = up \/ up' = (~up)
      /\ failed' = failed \/ failed' = TRUE
  BY SMTT(30)
     DEF Process!Next, Process!Startup, Process!Closing, Process!vars, Process!Raise,
         Process!resources, Process!state, Process!request, Process!Ready,
         Process!AnswerReady, Process!ReadFlags, Process!BadSettings, Process!OpenHttp,
         Process!NoDatabase, Process!OpenDatabase, Process!Probed, Process!Limiter,
         Process!AdaptiveConfig, Process!LoadArtifact, Process!BuildChat,
         Process!Shutdown, Process!CloseRedis, Process!CloseDatabase,
         Process!CloseHttp, Process!AskReady, Process!RedisComesAndGoes
<1>1. ASSUME NEW models \in BOOLEAN, Process!ReadFlags(models)
      PROVE  flags' \in BOOLEAN /\ whole' \in BOOLEAN
  BY <1>1 DEF Process!ReadFlags, Process!Whole
<1>2. flags' \in BOOLEAN
  BY <1>0, <1>1, Zenon DEF Switches
<1>3. whole' \in BOOLEAN
  BY <1>0, <1>1, Zenon DEF Switches
<1>4. recording' \in BOOLEAN
  BY <1>0, Zenon DEF Switches
<1>5. vercel' \in BOOLEAN
  BY <1>0, Zenon DEF Switches
<1>6. runtime' \in BOOLEAN
  BY <1>0, Zenon DEF Switches
<1>7. required' \in BOOLEAN
  BY <1>0, Zenon DEF Switches
<1>8. chat' \in BOOLEAN /\ failed' \in BOOLEAN /\ initialized' \in BOOLEAN
  BY <1>0, Zenon DEF Switches
<1>9. up' \in BOOLEAN
  BY <1>0 DEF Switches
<1>10. /\ env'.db \in BOOLEAN /\ env'.redis \in BOOLEAN
       /\ env'.adaptive \in BOOLEAN /\ env'.key \in BOOLEAN
  BY <1>0, Zenon DEF Switches
<1> QED
  BY <1>2, <1>3, <1>4, <1>5, <1>6, <1>7, <1>8, <1>9, <1>10, Zenon DEF Switches

\* What a probe has read is settled when it reads it: whole is a fact of that
\* moment, and the flags of one that found the process initialized imply it.
LEMMA ProbeStep == ProcessInv /\ [Process!Next]_(Process!vars) => Read'
<1> SUFFICES ASSUME ProcessInv, [Process!Next]_(Process!vars) PROVE Read'
  OBVIOUS
<1>1. CASE \E models \in BOOLEAN : Process!ReadFlags(models)
  BY <1>1 DEF ProcessInv, Kinds, Built, Opened, Read, Process!ReadFlags, Process!Whole
<1>2. CASE UNCHANGED <<probe, flags, whole>> \/ probe' # "pinging"
  BY <1>2 DEF ProcessInv, Read
<1> QED
  BY <1>1, <1>2
     DEF Process!Next, Process!Startup, Process!Closing, Process!vars,
         Process!request, Process!Ready, Process!AnswerReady,
         Process!BadSettings, Process!OpenHttp, Process!NoDatabase,
         Process!OpenDatabase, Process!Probed, Process!Limiter,
         Process!AdaptiveConfig, Process!LoadArtifact, Process!BuildChat,
         Process!Shutdown, Process!CloseRedis, Process!CloseDatabase,
         Process!CloseHttp, Process!AskReady, Process!RedisComesAndGoes

\* Every step of startup, of the exit stacks and of GET /ready keeps ProcessInv.
LEMMA ProcessStep == ProcessInv /\ [Process!Next]_(Process!vars) => ProcessInv'
<1> SUFFICES ASSUME ProcessInv, [Process!Next]_(Process!vars) PROVE ProcessInv'
  OBVIOUS
<1>0. Kinds' /\ Read'
  BY ProbeStep, WordsStep, SwitchesStep DEF ProcessInv, Kinds
<1> USE <1>0 DEF ProcessInv, Built, Early, Opened, Kinds, Process!NothingLeftOpen,
            Process!ClosedInReverse, Process!resources, Process!state,
            Process!Phase, Process!Raise, Process!request
<1>1. CASE Process!BadSettings
  BY <1>1 DEF Process!BadSettings
<1>2. CASE Process!OpenHttp
  BY <1>2 DEF Process!OpenHttp
<1>3. CASE Process!NoDatabase
  <2> USE <1>3 DEF Process!NoDatabase
  <2>1. Kinds'
    OBVIOUS
  <2>2. Built'
    OBVIOUS
  <2>3. (Process!NothingLeftOpen /\ Process!ClosedInReverse)'
    OBVIOUS
  <2> QED
    BY <2>1, <2>2, <2>3
<1>4. CASE Process!OpenDatabase
  <2> USE <1>4 DEF Process!OpenDatabase
  <2>1. Kinds'
    OBVIOUS
  <2>2. Built'
    <3>1. CASE step' = "probing"
      <4>1. env.db' /\ recording' /\ database' = "open"
        BY <3>1
      <4>2. ~initialized' /\ ~failed' /\ redis' = "none" /\ http' = "open"
        BY <3>1
      <4>3. vercel' <=> env.key'
        BY <3>1
      <4> HIDE <1>4 DEF Kinds, Words, Switches
      <4> QED
        BY <3>1, <4>1, <4>2, <4>3
    <3>2. CASE step' = "unwind"
      BY <3>2
    <3> QED
      BY <3>1, <3>2
  <2>3. (Process!NothingLeftOpen /\ Process!ClosedInReverse)'
    OBVIOUS
  <2> QED
    BY <2>1, <2>2, <2>3
<1>5. CASE Process!Probed
  <2> USE <1>5 DEF Process!Probed
  <2>1. Kinds'
    OBVIOUS
  <2>2. Built'
    OBVIOUS
  <2>3. (Process!NothingLeftOpen /\ Process!ClosedInReverse)'
    OBVIOUS
  <2> QED
    BY <2>1, <2>2, <2>3
<1>6. CASE Process!Limiter
  <2> USE <1>6 DEF Process!Limiter
  <2>1. Kinds'
    OBVIOUS
  <2>2. Built'
    OBVIOUS
  <2>3. (Process!NothingLeftOpen /\ Process!ClosedInReverse)'
    OBVIOUS
  <2> QED
    BY <2>1, <2>2, <2>3
<1>7. CASE Process!AdaptiveConfig
  <2> USE <1>7 DEF Process!AdaptiveConfig
  <2>1. Kinds'
    OBVIOUS
  <2>2. Built'
    OBVIOUS
  <2>3. (Process!NothingLeftOpen /\ Process!ClosedInReverse)'
    OBVIOUS
  <2> QED
    BY <2>1, <2>2, <2>3
<1>8. CASE Process!LoadArtifact
  <2> USE <1>8 DEF Process!LoadArtifact
  <2>1. Kinds'
    OBVIOUS
  <2>2. Built'
    OBVIOUS
  <2>3. (Process!NothingLeftOpen /\ Process!ClosedInReverse)'
    OBVIOUS
  <2> QED
    BY <2>1, <2>2, <2>3
<1>9. CASE Process!BuildChat
  <2> USE <1>9 DEF Process!BuildChat
  <2>1. Kinds'
    OBVIOUS
  <2>2. Built'
    <3>1. CASE step' = "serving"
      BY <3>1
    <3>2. CASE step' = "unwind"
      BY <3>2
    <3> QED
      BY <3>1, <3>2
  <2>3. (Process!NothingLeftOpen /\ Process!ClosedInReverse)'
    OBVIOUS
  <2> QED
    BY <2>1, <2>2, <2>3
<1>10. CASE Process!Shutdown
  BY <1>10 DEF Process!Shutdown
<1>11. CASE Process!CloseRedis
  BY <1>11 DEF Process!CloseRedis
<1>12. CASE Process!CloseDatabase
  BY <1>12 DEF Process!CloseDatabase
<1>13. CASE Process!CloseHttp
  BY <1>13 DEF Process!CloseHttp
<1>14. CASE Process!AskReady
  BY <1>14 DEF Process!AskReady
<1>15. CASE Process!RedisComesAndGoes
  BY <1>15 DEF Process!RedisComesAndGoes
<1>16. CASE Process!Ready
  <2>1. ASSUME NEW models \in BOOLEAN, Process!ReadFlags(models) PROVE ProcessInv'
    BY <2>1 DEF Process!ReadFlags, Process!Whole
  <2>2. ASSUME NEW connects \in BOOLEAN, Process!AnswerReady(connects) PROVE ProcessInv'
    BY <2>2 DEF Process!AnswerReady
  <2> QED
    BY <1>16, <2>1, <2>2 DEF Process!Ready
<1>17. CASE UNCHANGED Process!vars
  BY <1>17 DEF Process!vars
<1> QED
  BY <1>1, <1>2, <1>3, <1>4, <1>5, <1>6, <1>7, <1>8, <1>9, <1>10, <1>11, <1>12,
     <1>13, <1>14, <1>15, <1>16, <1>17
     DEF Process!Next, Process!Startup, Process!Closing

\* TypeOK of Lifespan, whose sets of variables the provers read one by one.
LEMMA ProcessKinds == Kinds => Process!TypeOK
<1> SUFFICES ASSUME Kinds PROVE Process!TypeOK
  OBVIOUS
<1>1. {http, database, redis} \subseteq Process!Phase
  BY DEF Kinds, Words
<1>2. {recording, vercel, runtime, required, chat, initialized, flags, whole, up,
       failed} \subseteq BOOLEAN
  BY Zenon DEF Kinds, Switches
<1> QED
  BY <1>1, <1>2 DEF Kinds, Words, Process!TypeOK

\* ProcessInv holds in every state of the process (api/app.py, runtime.py).
LEMMA ProcessInvariant == PartsSpec => []ProcessInv
<1>1. Process!Init => ProcessInv
  <2>1. Process!Init => Words
    BY DEF Process!Init, Words, Process!Phase
  <2>2. Process!Init => Switches
    BY DEF Process!Init, Switches
  <2> QED
    BY <2>1, <2>2 DEF Process!Init, ProcessInv, Kinds, Built, Read, Early, Opened,
                      Process!NothingLeftOpen, Process!ClosedInReverse
<1> QED
  BY PartsAreComponents, ProcessStep, <1>1, PTL DEF Process!Spec

\* A process that has stopped has closed all it opened; resources are closed in
\* the reverse of the order they were opened in; and as long as app.state says
\* initialized, every part that was configured is there and open: whichever
\* step of startup or shutdown raises (api/app.py, lifespan; runtime.py).
THEOREM ResourcesSound == PartsSpec => []ResourcesAreSound
<1>1. ProcessInv => ResourcesAreSound
  BY DEF ProcessInv, Built, Kinds, Opened, ResourcesAreSound, Process!ResourcesAreSound,
         Process!ServingIsComplete
<1> QED
  BY ProcessInvariant, <1>1, PTL

\* When GET /ready answers ready, the process was serving with every part it was
\* configured with at the moment the handler read its flags, and Redis, if it
\* needs one, answers the ping that came after; and although shutdown may begin
\* at any moment of the probe, no probe whose flags are read after it began is
\* ever answered ready (api/routes.py, ready; api/app.py, lifespan).
THEOREM ReadyEarned == PartsSpec => ReadyIsEarned
<1> DEFINE Earned ==
      [probe' = "ready" /\ probe # "ready" => whole /\ (env.redis => up)]_(Process!vars)
<1>1. ProcessInv /\ [Process!Next]_(Process!vars) => Earned
  <2> SUFFICES ASSUME ProcessInv, [Process!Next]_(Process!vars),
                      probe' = "ready", probe # "ready"
               PROVE  whole /\ (env.redis => up)
    OBVIOUS
  <2>1. PICK connects \in BOOLEAN : Process!AnswerReady(connects)
    BY DEF Process!Next, Process!Startup, Process!Closing, Process!vars,
           Process!request, Process!Ready, Process!ReadFlags,
           Process!BadSettings, Process!OpenHttp, Process!NoDatabase,
           Process!OpenDatabase, Process!Probed, Process!Limiter,
           Process!AdaptiveConfig, Process!LoadArtifact, Process!BuildChat,
           Process!Shutdown, Process!CloseRedis, Process!CloseDatabase,
           Process!CloseHttp, Process!AskReady, Process!RedisComesAndGoes
  <2> QED
    BY <2>1 DEF Process!AnswerReady, ProcessInv, Kinds, Read
<1> QED
  BY PartsAreComponents, ProcessInvariant, <1>1, PTL
     DEF Process!Spec, ReadyIsEarned, Process!ReadyIsEarned

-----------------------------------------------------------------------------
(* One provider call.                                                      *)

\* A class without a base of the project's own is only itself.
LEMMA PlainClass ==
    ASSUME NEW c, c \notin DOMAIN Provider!Bases
    PROVE  Provider!Ancestors(c) = {c}
  BY DEF Provider!Ancestors

\* The two gateway classes and their ancestors (errors.py).
LEMMA GatewayClasses ==
    /\ Provider!Ancestors("GatewayError") = {"GatewayError", "ProviderFailureError"}
    /\ Provider!Ancestors("CompletionRejectedError") =
          {"CompletionRejectedError", "GatewayError", "ProviderFailureError"}
<1> DEFINE Up(S) == S \cup UNION {Provider!Bases[x] : x \in S \cap DOMAIN Provider!Bases}
<1>1. \A c : Provider!Ancestors(c) = Up(Up({c}))
  BY DEF Provider!Ancestors
<1>2. /\ "GatewayError" \in DOMAIN Provider!Bases
      /\ "CompletionRejectedError" \in DOMAIN Provider!Bases
      /\ "ProviderFailureError" \notin DOMAIN Provider!Bases
      /\ Provider!Bases["GatewayError"] = {"ProviderFailureError"}
      /\ Provider!Bases["CompletionRejectedError"] = {"GatewayError"}
  BY DEF Provider!Bases
<1>3. Up({"GatewayError"}) = {"GatewayError", "ProviderFailureError"}
  BY <1>2
<1>4. Up({"GatewayError", "ProviderFailureError"}) = {"GatewayError", "ProviderFailureError"}
  BY <1>2
<1>5. Up({"CompletionRejectedError"}) = {"CompletionRejectedError", "GatewayError"}
  BY <1>2
<1>6. Up({"CompletionRejectedError", "GatewayError"}) =
        {"CompletionRejectedError", "GatewayError", "ProviderFailureError"}
  BY <1>2
<1> HIDE DEF Up
<1> QED
  BY <1>1, <1>3, <1>4, <1>5, <1>6
\* The classes that are raised on this path and are no gateway errors.
Plain == {"ModelNotFoundError", "ModelDisabledError", "ProviderUnavailableError",
          "ProviderFailureError", "ContextLimitError", "InferenceDeadlineExceededError"}
Gateway == {"GatewayError", "CompletionRejectedError"}

\* An error whose class is plain and has one row of its own gets that row.
LEMMA OwnRow ==
    ASSUME NEW e, e.class \notin DOMAIN Provider!Bases,
           NEW k \in DOMAIN Provider!ERRORS,
           \A i \in DOMAIN Provider!ERRORS : Provider!ERRORS[i].class = e.class <=> i = k
    PROVE  Provider!application_error(e) = Provider!ERRORS[k].answer
<1>1. "GatewayError" \in DOMAIN Provider!Bases
  BY DEF Provider!Bases
<1>2. \A c : Provider!IsInstance(e, c) <=> c = e.class
  BY PlainClass DEF Provider!IsInstance
<1>3. {i \in DOMAIN Provider!ERRORS : Provider!IsInstance(e, Provider!ERRORS[i].class)} = {k}
  BY <1>2
<1>4. k \in Int
  BY DEF Provider!ERRORS
<1>5. Provider!Min({k}) = k
  BY <1>4 DEF Provider!Min
<1> QED
  BY <1>1, <1>2, <1>3, <1>5 DEF Provider!application_error

\* What the client is told of each plain error (api/app.py, _ERRORS).
LEMMA PlainAnswers ==
    ASSUME NEW e
    PROVE  /\ e.class = "ModelNotFoundError" =>
                 Provider!application_error(e) = [status |-> 404, code |-> "model_not_found"]
           /\ e.class = "ModelDisabledError" =>
                 Provider!application_error(e) = [status |-> 403, code |-> "model_disabled"]
           /\ e.class = "ProviderUnavailableError" =>
                 Provider!application_error(e) = [status |-> 503, code |-> "provider_unavailable"]
           /\ e.class = "ProviderFailureError" =>
                 Provider!application_error(e) = [status |-> 502, code |-> "provider_failure"]
           /\ e.class = "ContextLimitError" =>
                 Provider!application_error(e) = [status |-> 422, code |-> "context_limit_exceeded"]
           /\ e.class = "InferenceDeadlineExceededError" =>
                 Provider!application_error(e) =
                     [status |-> 504, code |-> "inference_deadline_exceeded"]
<1>1. \A c \in Plain : c \notin DOMAIN Provider!Bases
  BY DEF Plain, Provider!Bases
<1>2. DOMAIN Provider!ERRORS = 1 .. 20
  BY DEF Provider!ERRORS
<1> DEFINE Only(c, k, status, code) ==
      /\ \A i \in 1 .. 20 : Provider!ERRORS[i].class = c <=> i = k
      /\ Provider!ERRORS[k].answer = [status |-> status, code |-> code]
<1>3. /\ Only("ModelNotFoundError", 16, 404, "model_not_found")
      /\ Only("ModelDisabledError", 17, 403, "model_disabled")
      /\ Only("ProviderUnavailableError", 19, 503, "provider_unavailable")
      /\ Only("ProviderFailureError", 20, 502, "provider_failure")
      /\ Only("ContextLimitError", 18, 422, "context_limit_exceeded")
      /\ Only("InferenceDeadlineExceededError", 1, 504, "inference_deadline_exceeded")
  BY DEF Provider!ERRORS, Provider!Row
<1>4. ASSUME NEW k \in 1 .. 20, NEW status, NEW code, e.class \in Plain,
             Only(e.class, k, status, code)
      PROVE  Provider!application_error(e) = [status |-> status, code |-> code]
  BY <1>1, <1>2, <1>4, OwnRow
<1> HIDE DEF Only
<1> QED
  BY <1>3, <1>4 DEF Plain
\* A gateway error is answered by its category, and never with a success.
LEMMA GatewayAnswers ==
    ASSUME NEW e, e.class \in Gateway
    PROVE  /\ Provider!application_error(e) =
                 [status |-> Provider!GatewayStatus(e.category), code |-> e.category]
           /\ Provider!GatewayStatus(e.category) \in {422, 429, 502, 503, 504}
  BY GatewayClasses
     DEF Gateway, Provider!IsInstance, Provider!application_error, Provider!GatewayStatus

\* The category of the event (service.py), and which errors carry a completion.
LEMMA Categories ==
    ASSUME NEW e
    PROVE  /\ e.class \in Gateway => Provider!Category(e) = e.category
           /\ e.class = "ModelDisabledError" => Provider!Category(e) = "model_disabled"
           /\ e.class = "ProviderUnavailableError" =>
                 Provider!Category(e) = "provider_unavailable"
           /\ e.class = "ProviderFailureError" => Provider!Category(e) = "provider_failure"
           /\ e.class = "ContextLimitError" =>
                 Provider!Category(e) = "context_limit_exceeded"
           /\ e.class = "InferenceDeadlineExceededError" =>
                 Provider!Category(e) = "inference_deadline_exceeded"
           /\ e.class \in Plain \cup Gateway =>
                 (Provider!IsInstance(e, "CompletionRejectedError") <=>
                     e.class = "CompletionRejectedError")
<1>1. \A c \in Plain : c \notin DOMAIN Provider!Bases
  BY DEF Plain, Provider!Bases
<1>2. CASE e.class \in Plain
  <2>1. Provider!Ancestors(e.class) = {e.class}
    BY <1>1, <1>2, PlainClass
  <2> QED
    BY <1>2, <2>1 DEF Provider!IsInstance, Provider!Category, Plain, Gateway
<1>3. CASE e.class \in Gateway
  BY <1>3, GatewayClasses DEF Provider!IsInstance, Provider!Category, Plain, Gateway
<1> QED
  BY <1>2, <1>3 DEF Plain, Gateway

\* What the adapters have been told by each step, and what is raised for it.
Told ==
    /\ callPc \in {"registry", "adapter", "posted"} => upstream = Provider!NoAnswer
    /\ callPc = "registry" => adapter = "none"
    /\ callPc \in {"adapter", "posted", "returned"} => adapter # "none"
    /\ callPc # "done" => event = Provider!NoEvent /\ reply = Provider!NoReply
    /\ callPc = "returned" =>
          /\ upstream.kind = "billed" /\ upstream.text = "text"
          /\ ~ Provider!SaysCutOff(upstream.choice)
    /\ callPc = "raised" =>
          /\ error.class \in (Plain \ {"ModelNotFoundError"}) \cup Gateway
          /\ error.class = "ModelDisabledError" => adapter = "none"
          /\ error.class = "CompletionRejectedError" <=> upstream.kind = "billed"
          /\ upstream.kind = "billed" =>
                ~ (upstream.text = "text" /\ ~ Provider!SaysCutOff(upstream.choice))
          /\ upstream.kind = "status" =>
                /\ error.class = "GatewayError"
                /\ error.category = Provider!StatusCategory(upstream.status, upstream.code)

ProviderInv == Provider!TypeOK /\ Told /\ Provider!AnswersTellWhatHappened

\* The statuses of the error table that this path can answer.
LEMMA KnownStatuses ==
    {403, 404, 422, 429, 502, 503, 504} \subseteq
        {Provider!ERRORS[i].answer.status : i \in DOMAIN Provider!ERRORS}
<1> DEFINE At(k, n) == k \in DOMAIN Provider!ERRORS /\ Provider!ERRORS[k].answer.status = n
<1>1. /\ At(17, 403) /\ At(16, 404) /\ At(18, 422) /\ At(2, 429)
      /\ At(20, 502) /\ At(19, 503) /\ At(1, 504)
  BY DEF Provider!ERRORS, Provider!Row
<1> QED
  BY <1>1

\* The adapter reads a choice as cut off exactly when the first key that says
\* anything says so (providers/vercel.py, _termination).
LEMMA CutOffs ==
    ASSUME NEW choice \in Endings
    PROVE  Provider!Termination(choice) = "length" <=> Provider!SaysCutOff(choice)
<1> DEFINE keys == <<"finish_reason", "finishReason", "stop_reason">>
           cut == {"length", "max_tokens", "max_output_tokens", "token_limit"}
           first == choice.finish_reason
           second == choice.finishReason
           third == choice.stop_reason
           silent == Provider!Falsy
<1>1. /\ DOMAIN keys = 1 .. 3
      /\ choice[keys[1]] = first /\ choice[keys[2]] = second /\ choice[keys[3]] = third
  OBVIOUS
<1>2. silent.word \notin cut
  BY DEF Provider!Falsy, Provider!Spelled
<1>3. Provider!SaysCutOff(choice) <=>
        \/ first.word \in cut
        \/ first = silent /\ second.word \in cut
        \/ first = silent /\ second = silent /\ third.word \in cut
  <2> DEFINE At(k) == choice[keys[k]].word \in cut
                      /\ \A j \in 1 .. (k - 1) : choice[keys[j]] = silent
  <2>1. Provider!SaysCutOff(choice) <=> \E k \in 1 .. 3 : At(k)
    BY <1>1 DEF Provider!SaysCutOff
  <2>2. 1 .. (1 - 1) = {} /\ 1 .. (2 - 1) = {1} /\ 1 .. (3 - 1) = {1, 2}
        /\ 1 .. 3 = {1, 2, 3}
    OBVIOUS
  <2>3. /\ At(1) <=> first.word \in cut
        /\ At(2) <=> second.word \in cut /\ first = silent
        /\ At(3) <=> third.word \in cut /\ first = silent /\ second = silent
    BY <1>1, <2>2
  <2> HIDE DEF At, keys
  <2> QED
    BY <2>1, <2>2, <2>3
<1>4. Provider!Termination(choice) = "length" <=> Provider!RawEnding(choice).word \in cut
  BY DEF Provider!Termination, Provider!casefold
<1> QED
  BY <1>2, <1>3, <1>4 DEF Provider!RawEnding

\* Every step of a provider call keeps ProviderInv.
LEMMA ProviderStep == ProviderInv /\ [Provider!Next]_(Provider!vars) => ProviderInv'
<1> SUFFICES ASSUME ProviderInv, [Provider!Next]_(Provider!vars) PROVE ProviderInv'
  OBVIOUS
<1> USE DEF ProviderInv, Told, Provider!TypeOK, Provider!AnswersTellWhatHappened,
            Provider!PaidCostKept, Provider!ReturnedIsUsable, Provider!CodeIsCategory,
            Provider!UpstreamStatusIsNotOurs, Provider!Raise, Provider!RaiseGateway,
            Provider!NoAnswer, Provider!Unusable, Provider!StatusAnswer, Provider!Billed,
            Provider!NoError, Provider!NoEvent, Provider!NoReply, Plain, Gateway,
            Provider!GatewayErrorCategory
<1>1. CASE Provider!UnknownModel
  BY <1>1, PlainAnswers, KnownStatuses DEF Provider!UnknownModel
<1>2. CASE Provider!NotResolved
  BY <1>2 DEF Provider!NotResolved
<1>3. CASE Provider!Resolve
  BY <1>3 DEF Provider!Resolve
<1>4. CASE Provider!FakeAnswers
  <2>1. Provider!FakeEnding \in Endings
    BY PartsAssumption DEF Provider!ProviderAssumption
  <2>2. Provider!RawEnding(Provider!FakeEnding).word = "stop"
    BY DEF Provider!RawEnding, Provider!FakeEnding, Provider!Falsy, Provider!Spelled
  <2>3. Provider!Termination(Provider!FakeEnding) = "complete"
    BY <2>2 DEF Provider!Termination, Provider!casefold
  <2>4. ~ Provider!SaysCutOff(Provider!FakeEnding)
    BY <2>1, <2>3, CutOffs
  <2> HIDE DEF Provider!SaysCutOff
  <2> QED
    BY <1>4, <2>1, <2>4 DEF Provider!FakeAnswers
<1>5. CASE Provider!Post
  BY <1>5 DEF Provider!Post
<1>6. CASE Provider!Silence
  BY <1>6 DEF Provider!Silence
<1>7. CASE Provider!BodyUnusable
  BY <1>7 DEF Provider!BodyUnusable
<1>8. ASSUME NEW s \in Statuses, NEW c \in Codes, Provider!ErrorStatus(s, c)
      PROVE  ProviderInv'
  <2>1. Provider!StatusCategory(s, c) \in Provider!GatewayErrorCategory
    BY DEF Provider!StatusCategory
  <2> QED
    BY <1>8, <2>1 DEF Provider!ErrorStatus
<1>9. ASSUME NEW t \in {"text", "blank"}, NEW choice \in Endings,
             Provider!Completion(t, choice)
      PROVE  ProviderInv'
  <2>1. Provider!Termination(choice) = "length" <=> Provider!SaysCutOff(choice)
    BY <1>9, CutOffs
  <2> HIDE DEF Provider!SaysCutOff, Provider!Termination
  <2> QED
    BY <1>9, <2>1 DEF Provider!Completion, Provider!Verdict
<1>10. CASE Provider!Failed
  <2> USE <1>10 DEF Provider!Failed
  <2>1. CASE error.class \in Plain
    BY <2>1, PlainAnswers, KnownStatuses, Categories
  <2>2. CASE error.class \in Gateway
    <3>1. /\ reply' = [status |-> Provider!GatewayStatus(error.category),
                       code |-> error.category]
          /\ reply'.status \in {422, 429, 502, 503, 504}
      BY <2>2, GatewayAnswers
    <3>2. /\ event'.category = error.category /\ ~ event'.success
          /\ event'.priced <=> error.class = "CompletionRejectedError"
      BY <2>2, Categories
    <3>3. Provider!UpstreamStatusIsNotOurs'
      BY <3>1 DEF Provider!StatusCategory, Provider!GatewayStatus
    <3>4. Provider!TypeOK'
      BY <3>1, <3>2, KnownStatuses
    <3>5. (Provider!PaidCostKept /\ Provider!CodeIsCategory)'
      BY <3>1, <3>2
    <3>6. Provider!ReturnedIsUsable'
      BY <3>1, <3>2
    <3> QED
      BY <3>3, <3>4, <3>5, <3>6
  <2> QED
    BY <2>1, <2>2
<1>11. CASE Provider!Succeeded
  BY <1>11 DEF Provider!Succeeded
<1>12. CASE UNCHANGED Provider!vars
  BY <1>12 DEF Provider!vars
<1> QED
  BY <1>1, <1>2, <1>3, <1>4, <1>5, <1>6, <1>7, <1>8, <1>9, <1>10, <1>11, <1>12
     DEF Provider!Next
\* ProviderInv holds in every state of a call (providers/, service.py).
LEMMA ProviderInvariant == PartsSpec => []ProviderInv
<1>1. Provider!Init => ProviderInv
  BY DEF Provider!Init, ProviderInv, Told, Provider!TypeOK,
         Provider!AnswersTellWhatHappened, Provider!PaidCostKept,
         Provider!ReturnedIsUsable, Provider!CodeIsCategory,
         Provider!UpstreamStatusIsNotOurs, Provider!NoAnswer, Provider!NoError,
         Provider!NoEvent, Provider!NoReply
<1> QED
  BY PartsAreComponents, ProviderStep, <1>1, PTL DEF Provider!Spec

\* The price of a billed completion is on the event, only usable completions are
\* returned, the client's code is the event's category, and no failure of the
\* upstream is blamed on the client: for every status, code and finish reason
\* the upstream may send (providers/vercel.py, service.py, api/app.py).
THEOREM AnswersTrue == PartsSpec => []AnswersTellWhatHappened
<1>1. ProviderInv => AnswersTellWhatHappened
  BY DEF ProviderInv, AnswersTellWhatHappened
<1> QED
  BY ProviderInvariant, <1>1, PTL

-----------------------------------------------------------------------------
(* A page of the activity table.                                           *)

\* A set of natural numbers has a least one.
LEMMA LeastNatural ==
    ASSUME NEW T, T \subseteq Nat, T # {}
    PROVE  \E x \in T : \A y \in T : x <= y
<1> DEFINE R == OpToRel(<, Nat)
<1>1. IsWellFoundedOn(R, Nat)
  BY NatLessThanWellFounded
<1>2. \A x, y \in Nat : y < x => <<y, x>> \in R
  BY DEF OpToRel
<1> HIDE DEF R
<1>3. PICK x \in T : \A y \in T : ~ (<<y, x>> \in R)
  BY <1>1, WFMin
<1>4. ASSUME NEW y \in T
      PROVE  x <= y
  <2>1. ~ (y < x)
    BY <1>2, <1>3, Zenon
  <2> QED
    BY <2>1
<1> QED
  BY <1>4

\* A table whose rows have times and identifiers, no two the same identifier.
Table(T) ==
    /\ IsFiniteSet(T)
    /\ \A r \in T : r.at \in Int /\ r.id \in Int
    /\ \A r, s \in T : r.id = s.id => r = s

\* The feed counts with its own copy of the standard operator.
LEMMA SameCount == \A S : Feed!Cardinality(S) = Cardinality(S)
  BY DEF Feed!Cardinality, Cardinality

\* The place of a row in the order of the query: how many rows precede it.
Rank(T, r) == Cardinality({s \in T : Feed!Newer(s, r)})

\* ORDER BY created_at DESC, id DESC is a total order of the rows of a table,
\* and a row's place is after the places of those that precede it.
LEMMA RankFacts ==
    ASSUME NEW T, Table(T)
    PROVE  /\ \A r, s \in T : r = s \/ Feed!Newer(r, s) \/ Feed!Newer(s, r)
           /\ \A r \in T : Rank(T, r) \in Nat
           /\ \A r, s \in T : Feed!Newer(r, s) => Rank(T, r) < Rank(T, s)
           /\ \A r \in T : Rank(T, r) > 0 => \E s \in T : Feed!Newer(s, r)
<1> USE DEF Table
<1>1. \A r, s \in T : r = s \/ Feed!Newer(r, s) \/ Feed!Newer(s, r)
  BY DEF Feed!Newer
<1>2. \A r \in T : IsFiniteSet({s \in T : Feed!Newer(s, r)})
  BY FS_Subset
<1>3. \A r \in T : Rank(T, r) \in Nat
  BY <1>2, FS_CardinalityType DEF Rank
<1>4. ASSUME NEW r \in T, NEW s \in T, Feed!Newer(r, s)
      PROVE  Rank(T, r) < Rank(T, s)
  <2> DEFINE A == {x \in T : Feed!Newer(x, r)}
             B == {x \in T : Feed!Newer(x, s)}
  <2>1. A \cup {r} \subseteq B /\ r \notin A
    BY <1>4 DEF Feed!Newer
  <2>2. IsFiniteSet(A) /\ IsFiniteSet(B)
    BY <1>2
  <2>3. Cardinality(A \cup {r}) = Cardinality(A) + 1
    BY <2>1, <2>2, FS_AddElement
  <2>4. Cardinality(A \cup {r}) <= Cardinality(B)
    BY <2>1, <2>2, FS_Subset
  <2>5. Cardinality(A) \in Nat /\ Cardinality(B) \in Nat
    BY <2>2, FS_CardinalityType
  <2> QED
    BY <2>3, <2>4, <2>5 DEF Rank
<1>5. ASSUME NEW r \in T, Rank(T, r) > 0
      PROVE  \E s \in T : Feed!Newer(s, r)
  BY <1>2, <1>5, FS_EmptySet DEF Rank
<1> QED
  BY <1>1, <1>3, <1>4, <1>5
\* One answer of list_chat_activity, and the cursor that follows it: the items
\* are the first of the rows asked for, a page that says there is no more holds
\* all of them, and otherwise the cursor selects exactly what is left.
LEMMA PageFacts ==
    ASSUME NEW T, Table(T), NEW n \in Nat \ {0}, NEW cursor,
           \A c \in cursor : c.at \in Int /\ c.id \in Int
    PROVE  LET found == Feed!Selected(T, cursor)
               p == Feed!list_chat_activity(T, cursor, n)
           IN  /\ p.items \subseteq found
               /\ \A r \in p.items, s \in found \ p.items : Feed!Newer(r, s)
               /\ ~ p.has_more => p.items = found /\ Feed!next_cursor(p) = {}
               /\ p.has_more =>
                     /\ \E x \in p.items : Feed!next_cursor(p) = {[at |-> x.at, id |-> x.id]}
                     /\ Feed!Selected(T, Feed!next_cursor(p)) = found \ p.items
<1> DEFINE F == Feed!Selected(T, cursor)
           Leading(m) == {r \in F : Rank(F, r) < m}
           I == Leading(n)
           More == Leading(n + 1)
           p == Feed!list_chat_activity(T, cursor, n)
<1>1. F \subseteq T /\ Table(F)
  BY FS_Subset DEF Feed!Selected, Table
<1>2. /\ \A m : Feed!FirstRows(T, cursor, m) = Leading(m)
      /\ p.items = I
      /\ p.has_more <=> Cardinality(More) > n
  BY SameCount DEF Feed!FirstRows, Feed!list_chat_activity, Rank
<1>3. /\ \A r, s \in F : r = s \/ Feed!Newer(r, s) \/ Feed!Newer(s, r)
      /\ \A r \in F : Rank(F, r) \in Nat
      /\ \A r, s \in F : Feed!Newer(r, s) => Rank(F, r) < Rank(F, s)
      /\ \A r \in F : Rank(F, r) > 0 => \E s \in F : Feed!Newer(s, r)
  BY <1>1, RankFacts
<1>4. \A r \in I, s \in F \ I : Feed!Newer(r, s)
  <2> SUFFICES ASSUME NEW r \in I, NEW s \in F \ I
               PROVE  Feed!Newer(r, s)
    OBVIOUS
  <2>1. Rank(F, r) < n /\ ~ (Rank(F, s) < n) /\ Rank(F, r) \in Nat /\ Rank(F, s) \in Nat
    BY <1>3
  <2> QED
    BY <2>1, <1>3
<1>5. IsFiniteSet(More) /\ Cardinality(More) \in Nat
  BY <1>1, FS_Subset, FS_CardinalityType DEF Table
<1>6. ~ p.has_more => I = F
  <2> SUFFICES ASSUME ~ p.has_more, NEW z \in F, z \notin I
               PROVE  FALSE
    OBVIOUS
  <2> DEFINE Late == {Rank(F, r) : r \in F \ I}
  <2>1. Late \subseteq Nat /\ Late # {}
    BY <1>3
  <2>2. PICK k \in Late : \A j \in Late : k <= j
    BY <2>1, LeastNatural
  <2>3. PICK r \in F \ I : k = Rank(F, r)
    BY <2>2
  <2>4. k \in Nat /\ n <= k
    BY <1>3, <2>3
  <2> DEFINE Before == {s \in F : Feed!Newer(s, r)}
  <2>5. Before \subseteq I
    <3> SUFFICES ASSUME NEW s \in F, Feed!Newer(s, r), s \notin I
                 PROVE  FALSE
      OBVIOUS
    <3>1. Rank(F, s) < k /\ Rank(F, s) \in Nat
      BY <1>3, <2>3
    <3>2. k <= Rank(F, s)
      BY <2>2
    <3> QED
      BY <2>4, <3>1, <3>2
  <2>6. Cardinality(Before) = k
    BY <2>3 DEF Rank
  <2>7. \A q \in I : q \in More
    BY <1>3
  <2>8. Cardinality(More) <= n
    BY <1>2, <1>5
  <2>9. Cardinality(Before) <= Cardinality(More)
    BY <1>5, <2>5, <2>7, FS_Subset
  <2>10. k = n
    BY <1>5, <2>4, <2>6, <2>8, <2>9
  <2>11. r \in More /\ r \notin Before
    <3>1. Rank(F, r) < n + 1
      BY <2>3, <2>10
    <3>2. ~ Feed!Newer(r, r)
      BY <1>1 DEF Feed!Newer, Table
    <3> QED
      BY <3>1, <3>2
  <2>12. Before \cup {r} \subseteq More /\ IsFiniteSet(Before)
    BY <1>5, <2>5, <2>7, <2>11, FS_Subset
  <2>13. Cardinality(Before \cup {r}) = n + 1
    BY <2>6, <2>10, <2>11, <2>12, FS_AddElement
  <2>14. Cardinality(Before \cup {r}) <= Cardinality(More)
    BY <1>5, <2>12, FS_Subset
  <2> QED
    BY <1>5, <2>8, <2>13, <2>14
<1>7. p.has_more => I # {}
  <2> SUFFICES ASSUME p.has_more
               PROVE  I # {}
    OBVIOUS
  <2>1. F # {}
    <3>1. CASE F = {}
      <4>1. More = {}
        BY <3>1
      <4>2. Cardinality(More) = 0
        BY <4>1, FS_EmptySet, Zenon
      <4>3. Cardinality(More) > n
        BY <1>2, Zenon
      <4> HIDE DEF More
      <4> QED
        BY <4>2, <4>3
    <3> QED
      BY <3>1
  <2> DEFINE All == {Rank(F, r) : r \in F}
  <2>2. All \subseteq Nat /\ All # {}
    BY <1>3, <2>1
  <2>3. PICK k \in All : \A j \in All : k <= j
    BY <2>2, LeastNatural
  <2>4. PICK r \in F : k = Rank(F, r)
    BY <2>3
  <2>5. k \in Nat
    BY <2>2
  <2>6. CASE k > 0
    <3>1. PICK s \in F : Feed!Newer(s, r)
      BY <1>3, <2>4, <2>6
    <3>2. Rank(F, s) < k /\ Rank(F, s) \in Nat
      BY <1>3, <2>4, <3>1
    <3>3. k <= Rank(F, s)
      BY <2>3
    <3> QED
      BY <2>5, <3>2, <3>3
  <2>7. CASE k = 0
    BY <2>4, <2>7
  <2> QED
    BY <2>5, <2>6, <2>7
<1>8. I # {} => \E x \in I : \A y \in I \ {x} : Feed!Newer(y, x)
  <2> SUFFICES ASSUME I # {}
               PROVE  \E x \in I : \A y \in I \ {x} : Feed!Newer(y, x)
    OBVIOUS
  <2> DEFINE Left == {n - Rank(F, r) : r \in I}
  <2>1. Left \subseteq Nat /\ Left # {}
    BY <1>3
  <2>2. PICK k \in Left : \A j \in Left : k <= j
    BY <2>1, LeastNatural
  <2>3. PICK x \in I : k = n - Rank(F, x)
    BY <2>2
  <2>4. ASSUME NEW y \in I \ {x}
        PROVE  Feed!Newer(y, x)
    <3>1. n - Rank(F, x) <= n - Rank(F, y)
      BY <2>2, <2>3
    <3>2. Rank(F, x) \in Nat /\ Rank(F, y) \in Nat
      BY <1>3
    <3>3. ~ (Rank(F, x) < Rank(F, y))
      BY <3>1, <3>2
    <3> QED
      BY <1>3, <3>3
  <2> QED
    BY <2>4
<1>9. ~ p.has_more => Feed!next_cursor(p) = {}
  BY DEF Feed!next_cursor
<1>10. ASSUME p.has_more
       PROVE  /\ \E x \in I : Feed!next_cursor(p) = {[at |-> x.at, id |-> x.id]}
              /\ Feed!Selected(T, Feed!next_cursor(p)) = F \ I
  <2>1. PICK x \in I : \A y \in I \ {x} : Feed!Newer(y, x)
    BY <1>7, <1>8, <1>10
  <2>2. {z \in I : \A y \in I \ {z} : Feed!Newer(y, z)} = {x}
    <3>1. ASSUME NEW z \in I, \A y \in I \ {z} : Feed!Newer(y, z)
          PROVE  z = x
      <4>1. x.at \in Int /\ x.id \in Int /\ z.at \in Int /\ z.id \in Int
        BY <1>1 DEF Table
      <4>2. ~ (Feed!Newer(x, z) /\ Feed!Newer(z, x))
        BY <4>1 DEF Feed!Newer
      <4> QED
        BY <2>1, <3>1, <4>2
    <3> QED
      BY <2>1, <3>1
  <2> DEFINE key == [at |-> x.at, id |-> x.id]
  <2>3. Feed!next_cursor(p) = {key}
    BY <1>2, <1>10, <2>2 DEF Feed!next_cursor
  <2>4. \A r : Feed!Newer(key, r) <=> Feed!Newer(x, r)
    BY DEF Feed!Newer
  <2>5. ASSUME NEW r \in T
        PROVE  Feed!Newer(x, r) <=> r \in F \ I
    <3>1. x \in T /\ x.at \in Int /\ x.id \in Int /\ r.at \in Int /\ r.id \in Int
      BY <1>1 DEF Table
    <3>2. ASSUME Feed!Newer(x, r)
          PROVE  r \in F \ I
      <4>1. r \in F
        BY <3>1, <3>2 DEF Feed!Selected, Feed!Newer
      <4>2. r \notin I
        BY <2>1, <3>1, <3>2 DEF Feed!Newer
      <4> QED
        BY <4>1, <4>2
    <3> QED
      BY <1>4, <3>2
  <2>6. Feed!Selected(T, {key}) = F \ I
    <3>1. Feed!Selected(T, {key}) = {r \in T : Feed!Newer(x, r)}
      BY <2>4 DEF Feed!Selected
    <3> QED
      BY <1>1, <2>5, <3>1
  <2> QED
    BY <2>3, <2>6
<1> QED
  BY <1>2, <1>4, <1>6, <1>9, <1>10
-----------------------------------------------------------------------------
(* The activity feed.                                                      *)

\* A record that waits for its commit is its chat's own and has no outcome yet;
\* the committed rows are a table.
Records ==
    /\ \A c \in Chats : \A rec \in pending[c] :
          rec.id = c /\ metric[c] = "none" /\ pending[c] = {rec}
    /\ IsFiniteSet(table)
    /\ \A r, s \in table : r.id = s.id => r = s

\* Where a walk stands: the rows are those it was given, those that committed
\* behind it and those its cursor selects, the first all newer than the last.
Standing ==
    LET ahead == Feed!Selected(table, before)
    IN  /\ before = {} \/ \E k \in Feed!Key : before = {k}
        /\ walk = "idle" => Feed!Given = {} /\ passed = {}
        /\ walk # "idle" => Feed!Given \cap passed = {}
        /\ walk = "done" => table = Feed!Given \cup passed /\ base \subseteq Feed!Given
        /\ walk = "reading" =>
              /\ table = (Feed!Given \cup passed) \cup ahead
              /\ (Feed!Given \cup passed) \cap ahead = {}
              /\ base \subseteq Feed!Given \cup ahead
              /\ \A r \in Feed!Given, s \in ahead : Feed!Newer(r, s)

FeedTypes ==
    /\ pending \in [Chats -> SUBSET Feed!Row]
    /\ metric \in [Chats -> {"none", "success", "failure"}]
    /\ table \subseteq Feed!Row /\ passed \subseteq Feed!Row
    /\ page \subseteq Feed!Row /\ base \subseteq Feed!Row /\ delivered \subseteq Feed!Row
    /\ walk \in {"idle", "reading", "done"}
    /\ answer \in {"page", "unavailable", "invalid_cursor"}

FeedInv == FeedTypes /\ Records /\ Standing /\ Feed!NewestFirst /\ Feed!OneRowPerRequestId

\* What the type of rows and cursors says of the order.
LEMMA RowFacts ==
    /\ \A r \in Feed!Row : r.at \in Int /\ r.id \in Int /\ r.id \in Chats
    /\ \A k \in Feed!Key : k.at \in Int /\ k.id \in Int
    /\ \A r \in Feed!Row : [at |-> r.at, id |-> r.id] \in Feed!Key
    /\ FeedTypes /\ Records => Table(table)
<1>1. \A r \in Feed!Row : r.at \in Int /\ r.id \in Int /\ r.id \in Chats
  BY PartsAssumption DEF Feed!FeedAssumption, Feed!Row
<1>2. \A k \in Feed!Key : k.at \in Int /\ k.id \in Int
  BY PartsAssumption DEF Feed!FeedAssumption, Feed!Key
<1>3. \A r \in Feed!Row : [at |-> r.at, id |-> r.id] \in Feed!Key
  BY DEF Feed!Row, Feed!Key
<1> QED
  BY <1>1, <1>2, <1>3 DEF FeedTypes, Records, Table

\* A commit keeps the walk's account: the row is ahead of the cursor, and then
\* older than all that was given, or it is counted as passed.
LEMMA InsertStep ==
    ASSUME FeedInv, NEW c \in Chats, NEW rec \in pending[c], Feed!Insert(rec),
           pending' = [pending EXCEPT ![c] = {}],
           metric' = [metric EXCEPT ![c] = "success"] \/ metric' = [metric EXCEPT ![c] = "failure"],
           UNCHANGED Feed!reader
    PROVE  FeedInv'
<1> USE DEF FeedInv
<1>1. /\ rec \in Feed!Row /\ rec.id = c /\ rec \notin table
      /\ table' = table \cup {rec}
      /\ \A r \in table : r.id # rec.id /\ r.req # rec.req
  BY DEF Feed!Insert, Feed!Accepts, Records, FeedTypes
<1>2. FeedTypes'
  BY <1>1 DEF FeedTypes, Feed!Insert, Feed!reader
<1>3. Records'
  <2>1. IsFiniteSet(table')
    BY <1>1, FS_AddElement DEF Records
  <2>2. \A r, s \in table' : r.id = s.id => r = s
    BY <1>1 DEF Records
  <2> QED
    BY <2>1, <2>2 DEF Records, FeedTypes
<1>4. Standing'
  <2>1. Feed!Selected(table', before) =
          Feed!Selected(table, before) \cup Feed!Selected({rec}, before)
    BY <1>1 DEF Feed!Selected
  <2>2. before' = before /\ Feed!Given' = Feed!Given /\ walk' = walk /\ base' = base
    BY DEF Feed!reader, Feed!Given
  <2>3. Feed!Given \subseteq table \/ walk = "idle"
    BY DEF Standing, FeedTypes
  <2>4. CASE Feed!Behind(rec)
    <3>1. passed' = passed \cup {rec}
      BY <2>4 DEF Feed!Insert
    <3>2. walk = "reading" => Feed!Selected(table', before) = Feed!Selected(table, before)
      BY <2>1, <2>4 DEF Feed!Behind, Feed!Selected
    <3> QED
      BY <1>1, <2>2, <2>3, <2>4, <3>1, <3>2 DEF Standing, Feed!Behind
  <2>5. CASE ~ Feed!Behind(rec)
    <3>1. passed' = passed
      BY <2>5 DEF Feed!Insert
    <3>2. walk # "done"
      BY <2>5 DEF Feed!Behind
    <3>3. CASE walk = "reading"
      <4>1. Feed!Selected(table', before) = Feed!Selected(table, before) \cup {rec}
        BY <2>1, <2>5, <3>3 DEF Feed!Behind, Feed!Selected
      <4>2. ASSUME NEW r \in Feed!Given
            PROVE  Feed!Newer(r, rec)
        <5>1. r \in table /\ r \notin Feed!Selected(table, before)
          BY <3>3 DEF Standing
        <5>2. PICK k \in before : ~ Feed!Newer(k, r)
          BY <5>1 DEF Feed!Selected
        <5>3. Feed!Newer(k, rec)
          BY <2>5, <3>3 DEF Feed!Behind, Feed!Selected
        <5>4. r \in Feed!Row /\ k \in Feed!Key
          BY <5>1, <5>2 DEF FeedTypes, Standing
        <5> QED
          BY <1>1, <5>2, <5>3, <5>4, RowFacts DEF Feed!Newer
      <4> DEFINE ahead == Feed!Selected(table, before)
      <4>3. /\ table = (Feed!Given \cup passed) \cup ahead
            /\ (Feed!Given \cup passed) \cap ahead = {}
            /\ base \subseteq Feed!Given \cup ahead
            /\ \A r \in Feed!Given, s \in ahead : Feed!Newer(r, s)
        BY <3>3 DEF Standing
      <4>4. Feed!Selected(table', before') = ahead \cup {rec}
        BY <2>2, <4>1
      <4> HIDE DEF ahead
      <4>5. /\ table' = (Feed!Given' \cup passed') \cup (ahead \cup {rec})
            /\ (Feed!Given' \cup passed') \cap (ahead \cup {rec}) = {}
            /\ base' \subseteq Feed!Given' \cup (ahead \cup {rec})
        BY <1>1, <2>2, <3>1, <4>3
      <4>6. \A r \in Feed!Given', s \in ahead \cup {rec} : Feed!Newer(r, s)
        BY <2>2, <4>2, <4>3
      <4> QED
        BY <2>2, <3>1, <3>3, <4>4, <4>5, <4>6 DEF Standing
    <3> QED
      BY <1>1, <2>2, <3>1, <3>2, <3>3 DEF Standing, FeedTypes
  <2> QED
    BY <2>4, <2>5
<1>5. Feed!NewestFirst'
  BY DEF Feed!NewestFirst, Feed!reader
<1>6. Feed!OneRowPerRequestId'
  BY <1>1 DEF Feed!OneRowPerRequestId, FeedTypes
<1> QED
  BY <1>2, <1>3, <1>4, <1>5, <1>6
\* A page keeps it too: its items come off the rows ahead, newest first.
LEMMA ReadStep ==
    ASSUME FeedInv, NEW n \in Limits, Feed!ReadPage(n)
    PROVE  FeedInv'
<1> USE DEF FeedInv
<1> DEFINE found == Feed!Selected(table, before)
           p == Feed!list_chat_activity(table, before, n)
<1>1. Table(table) /\ n \in Nat \ {0}
  BY RowFacts, PartsAssumption DEF Feed!FeedAssumption
<1>2. \A c \in before : c.at \in Int /\ c.id \in Int
  BY RowFacts DEF Standing
<1>3. /\ p.items \subseteq found
      /\ \A r \in p.items, s \in found \ p.items : Feed!Newer(r, s)
      /\ ~ p.has_more => p.items = found /\ Feed!next_cursor(p) = {}
      /\ p.has_more =>
            /\ \E x \in p.items : Feed!next_cursor(p) = {[at |-> x.at, id |-> x.id]}
            /\ Feed!Selected(table, Feed!next_cursor(p)) = found \ p.items
  BY <1>1, <1>2, PageFacts
<1>4. /\ walk = "reading" /\ page' = p.items /\ delivered' = Feed!Given
      /\ before' = Feed!next_cursor(p) /\ answer' = "page"
      /\ walk' = IF p.has_more THEN "reading" ELSE "done"
      /\ pending' = pending /\ metric' = metric /\ table' = table
      /\ base' = base /\ passed' = passed
  BY DEF Feed!ReadPage, Feed!writers, Feed!Given
<1>5. /\ table = (Feed!Given \cup passed) \cup found
      /\ (Feed!Given \cup passed) \cap found = {}
      /\ base \subseteq Feed!Given \cup found
      /\ \A r \in Feed!Given, s \in found : Feed!Newer(r, s)
      /\ Feed!Given \cap passed = {}
  BY <1>4 DEF Standing
<1>6. found \subseteq table /\ found \subseteq Feed!Row
  BY DEF Feed!Selected, FeedTypes
<1> HIDE DEF found, p
<1>7. FeedTypes'
  BY <1>3, <1>4, <1>6 DEF FeedTypes, Feed!Given
<1>8. Feed!Given' = Feed!Given \cup p.items
  BY <1>4 DEF Feed!Given
<1>9. Records' /\ Feed!OneRowPerRequestId'
  BY <1>4 DEF Records, Feed!OneRowPerRequestId
<1>10. Feed!NewestFirst'
  BY <1>3, <1>4, <1>5 DEF Feed!NewestFirst
<1>11. Standing'
  <2>1. CASE p.has_more
    <3>1. walk' = "reading" /\ Feed!Selected(table', before') = found \ p.items
      BY <1>3, <1>4, <2>1
    <3>2. \E k \in Feed!Key : before' = {k}
      BY <1>3, <1>4, <1>6, <2>1, RowFacts
    <3>3. /\ table = (Feed!Given' \cup passed) \cup (found \ p.items)
          /\ (Feed!Given' \cup passed) \cap (found \ p.items) = {}
          /\ base \subseteq Feed!Given' \cup (found \ p.items)
          /\ Feed!Given' \cap passed = {}
      BY <1>3, <1>5, <1>8
    <3>4. \A r \in Feed!Given', s \in found \ p.items : Feed!Newer(r, s)
      BY <1>3, <1>5, <1>8
    <3> QED
      BY <1>4, <3>1, <3>2, <3>3, <3>4 DEF Standing
  <2>2. CASE ~ p.has_more
    <3>1. walk' = "done" /\ before' = {} /\ Feed!Given' = Feed!Given \cup found
      BY <1>3, <1>4, <1>8, <2>2
    <3>2. table = Feed!Given' \cup passed /\ base \subseteq Feed!Given' /\ Feed!Given' \cap passed = {}
      BY <1>5, <3>1
    <3> QED
      BY <1>4, <3>1, <3>2 DEF Standing
  <2> QED
    BY <2>1, <2>2
<1> QED
  BY <1>7, <1>9, <1>10, <1>11

\* Every step of the writers and of the reader keeps FeedInv.
LEMMA FeedStep == FeedInv /\ [Feed!Next]_(Feed!vars) => FeedInv'
<1> SUFFICES ASSUME FeedInv, [Feed!Next]_(Feed!vars) PROVE FeedInv'
  OBVIOUS
<1> USE DEF FeedInv
<1>1. ASSUME NEW c \in Chats, Feed!BuildRecord(c)
      PROVE  FeedInv'
  <2>1. UNCHANGED <<metric, table, walk, before, answer, page, base, delivered, passed>>
    BY <1>1 DEF Feed!BuildRecord, Feed!reader
  <2>2. PICK rec \in Feed!Row : rec.id = c /\ pending' = [pending EXCEPT ![c] = {rec}]
    BY <1>1 DEF Feed!BuildRecord, Feed!Row
  <2>3. FeedTypes' /\ Records'
    BY <1>1, <2>1, <2>2 DEF FeedTypes, Records, Feed!BuildRecord
  <2> QED
    BY <2>1, <2>3 DEF Standing, Feed!Given, Feed!NewestFirst, Feed!OneRowPerRequestId
<1>2. ASSUME NEW c \in Chats, Feed!Commit(c)
      PROVE  FeedInv'
  BY <1>2, InsertStep DEF Feed!Commit
<1>3. ASSUME NEW c \in Chats, Feed!CommitUnseen(c)
      PROVE  FeedInv'
  BY <1>3, InsertStep DEF Feed!CommitUnseen
<1>4. ASSUME NEW c \in Chats, Feed!WriteFails(c)
      PROVE  FeedInv'
  <2>1. UNCHANGED <<table, walk, before, answer, page, base, delivered, passed>>
    BY <1>4 DEF Feed!WriteFails, Feed!reader
  <2>2. PICK rec \in pending[c] : metric[c] = "none"
    BY <1>4 DEF Feed!WriteFails, Records
  <2>3. FeedTypes' /\ Records'
    BY <1>4, <2>1 DEF FeedTypes, Records, Feed!WriteFails
  <2>4. Feed!OneRowPerRequestId'
    BY <1>4, <2>1 DEF Feed!OneRowPerRequestId, Feed!WriteFails, FeedTypes
  <2> QED
    BY <2>1, <2>3, <2>4 DEF Standing, Feed!Given, Feed!NewestFirst
<1>5. CASE Feed!StartWalk
  <2>1. Feed!Selected(table, {}) = table
    BY DEF Feed!Selected
  <2> QED
    BY <1>5, <2>1 DEF Feed!StartWalk, Feed!writers, FeedTypes, Records, Standing, Feed!Given,
                     Feed!NewestFirst, Feed!OneRowPerRequestId
<1>6. ASSUME NEW n \in Limits, Feed!ReadPage(n)
      PROVE  FeedInv'
  BY <1>6, ReadStep
<1>7. CASE Feed!ReadFails \/ Feed!ReadBadCursor
  BY <1>7 DEF Feed!ReadFails, Feed!ReadBadCursor, Feed!writers, FeedTypes, Records, Standing, Feed!Given,
              Feed!NewestFirst, Feed!OneRowPerRequestId
<1>8. CASE UNCHANGED Feed!vars
  BY <1>8 DEF Feed!vars, Feed!writers, Feed!reader, FeedTypes, Records, Standing, Feed!Given, Feed!NewestFirst,
              Feed!OneRowPerRequestId
<1> QED
  BY <1>1, <1>2, <1>3, <1>4, <1>5, <1>6, <1>7, <1>8 DEF Feed!Next

\* FeedInv holds in every state of the feed (telemetry/query.py).
LEMMA FeedInvariant == PartsSpec => []FeedInv
<1>1. Feed!Init => FeedInv
  <2>1. Feed!Selected({}, {}) = {}
    BY DEF Feed!Selected
  <2> QED
    BY <2>1, FS_EmptySet
       DEF Feed!Init, FeedInv, FeedTypes, Records, Standing, Feed!Given, Feed!NewestFirst,
           Feed!OneRowPerRequestId
<1> QED
  BY PartsAreComponents, FeedStep, <1>1, PTL DEF Feed!Spec

\* A walk through GET /v1/activity is given the whole history, newest first, no
\* row twice and none lost but those that commit behind its cursor, and one
\* request id has one row: for every number of chats, clock readings and page
\* sizes (telemetry/query.py, persistence/repository.py).
THEOREM HistoryTold == PartsSpec => []PagesTellHistory
<1>1. FeedInv => PagesTellHistory
  BY DEF FeedInv, FeedTypes, Standing, PagesTellHistory, Feed!PagesTellHistory, Feed!WholeHistory
<1> QED
  BY FeedInvariant, <1>1, PTL

\* The state of the feed, of the process and of a call stays within its types:
\* a cursor holds one key at most, every resource is in one of its phases, and
\* every HTTP status is one of the error table's (api/app.py, _ERRORS).
THEOREM PartsTyped == PartsSpec => []PartsTypeOK
<1>1. FeedInv => Feed!TypeOK
  <2> SUFFICES ASSUME FeedInv PROVE Feed!TypeOK
    OBVIOUS
  <2>1. before \subseteq Feed!Key /\ Cardinality(before) <= 1
    BY FS_EmptySet, FS_Singleton DEF FeedInv, Standing
  <2> QED
    BY <2>1, SameCount DEF FeedInv, FeedTypes, Feed!TypeOK
<1>2. ProcessInv => Process!TypeOK
  BY ProcessKinds DEF ProcessInv
<1>3. ProviderInv => Provider!TypeOK
  BY DEF ProviderInv
<1> QED
  BY FeedInvariant, ProcessInvariant, ProviderInvariant, <1>1, <1>2, <1>3, PTL
     DEF PartsTypeOK
=============================================================================
