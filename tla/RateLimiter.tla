----------------------------- MODULE RateLimiter -----------------------------
(***************************************************************************)
(* Distributed admission control: RedisRateLimiter.admit and the Lua       *)
(* script it evaluates (rate_limit.py).                                    *)
(*                                                                         *)
(* Two fixed windows guard a request: one for its client, one for the      *)
(* deployment.  The script runs atomically inside Redis; everything around *)
(* it does not: the caller gives up after a timeout while its command may  *)
(* still be queued at the server, replies and connections are lost, and    *)
(* Redis runs without persistence, so a restart forgets every counter.     *)
(*                                                                         *)
(* One tick stands for one millisecond of the code; Second is the number   *)
(* of ticks of a second (1000 in the code).                                *)
(***************************************************************************)
EXTENDS Integers, FiniteSets, FiniteSetsExt

CONSTANTS
    Clients,              \* client identities (HMAC digests)
    Global,               \* the deployment-wide window
    Requests,             \* calls of admit()
    ClientOf,             \* the client of each request
    KindOf,               \* "explicit" or "adaptive"
    ExplicitWeight,
    AdaptiveWeight,
    ClientCapacity,
    GlobalCapacity,
    ClientWindowSeconds,
    GlobalWindowSeconds,
    Second,               \* ticks per second
    RedisTimeout,         \* redis_timeout_seconds, in ticks
    DeadlineTicks,        \* the whole-request deadline, in ticks
    Horizon,              \* bound: no request arrives after this tick
    MaxNow,               \* bound: the clock stops here
    MaxRestarts           \* bound: restarts of Redis

\* RateLimitSettings.validate_required_settings and the field constraints.
ASSUME SettingsAssumption ==
    /\ ExplicitWeight \in Nat \ {0} /\ AdaptiveWeight \in Nat \ {0}
    /\ ClientCapacity \in Nat \ {0} /\ GlobalCapacity \in Nat \ {0}
    /\ ClientWindowSeconds \in Nat \ {0} /\ GlobalWindowSeconds \in Nat \ {0}
    /\ ExplicitWeight <= ClientCapacity /\ ExplicitWeight <= GlobalCapacity
    /\ AdaptiveWeight <= ClientCapacity /\ AdaptiveWeight <= GlobalCapacity
    /\ RedisTimeout \in Nat \ {0}

ASSUME EnvironmentAssumption ==
    /\ Global \notin Clients
    /\ ClientOf \in [Requests -> Clients]
    /\ KindOf \in [Requests -> {"explicit", "adaptive"}]
    /\ Second \in Nat \ {0}
    /\ DeadlineTicks \in Nat \ {0}
    /\ Horizon \in Nat /\ MaxNow \in Nat /\ MaxRestarts \in Nat

VARIABLES
    now,        \* the clock
    \* Redis: one integer key per window, with its expiry.
    counter,    \* value of the key (stale once the key has expired)
    expireAt,   \* last tick at which the key exists, -1 for a missing key
    \* The callers.
    pc,         \* progress of each admit() call
    deadline,   \* RequestDeadline._expires_at
    giveUpAt,   \* when asyncio.timeout fires
    command,    \* the EVAL: none, sent, lost, or the script's verdict
    retryMs,    \* second field of a refusing reply
    blockedBy,  \* third field (scope) of a refusing reply
    retryAt,    \* when Retry-After has elapsed for the caller
    \* History.
    restarts,   \* restarts of Redis so far
    epoch,      \* how many times the key of a window was created
    ledger,     \* requests charged to the present key of a window
    scriptAt,   \* when the script ran for a request
    seen        \* epochs and counters the script saw when it refused

redis   == <<counter, expireAt, epoch, ledger>>
callers == <<pc, deadline, giveUpAt, retryAt>>
replies == <<command, retryMs, blockedBy, scriptAt, seen>>
vars    == <<now, redis, callers, replies, restarts>>

Windows == Clients \cup {Global}

NotYet == -1

Waiting == "waiting"

Final == {"admitted", "exceeded", "unavailable", "deadline_exceeded",
          "cancelled"}

(***************************************************************************)
(* The script.                                                             *)
(***************************************************************************)
Keys(r) == {ClientOf[r], Global}

Weight(r) == IF KindOf[r] = "explicit" THEN ExplicitWeight ELSE AdaptiveWeight

Capacity(w) == IF w = Global THEN GlobalCapacity ELSE ClientCapacity

\* client_window_seconds * 1000: the window in the script's unit.
WindowTicks(w) ==
    (IF w = Global THEN GlobalWindowSeconds ELSE ClientWindowSeconds) * Second

\* Redis drops a key only when the clock is past its expiry, so a key with
\* PTTL 0 still exists.
Live(w) == now <= expireAt[w]

\* tonumber(redis.call('GET', key) or '0')
Used(w) == IF Live(w) THEN counter[w] ELSE 0

Blocked_ClientOnly(r) ==
    {w \in {ClientOf[r]} : Used(w) + Weight(r) > Capacity(w)}

Blocked_WeightAlone(r) == {w \in Keys(r) : Weight(r) > Capacity(w)}

\* The windows that refuse the request (the script's scope).
Blocked(r) == {w \in Keys(r) : Used(w) + Weight(r) > Capacity(w)}

\* PTTL of a refusing window, or its whole length when PTTL is below 1.
BlockedTtl(w) ==
    IF ~Live(w) \/ expireAt[w] - now < 1 THEN WindowTicks(w)
                                         ELSE expireAt[w] - now

RetryMs_Shortest(r) == Min({BlockedTtl(w) : w \in Blocked(r)})

\* The longest wait among the windows that refuse.
RetryMs(r) == Max({BlockedTtl(w) : w \in Blocked(r)})

Expiry_Sliding(r, w) ==
    IF w \in Keys(r) THEN now + WindowTicks(w) ELSE expireAt[w]

\* PEXPIRE only when PTTL < 0: a live window keeps its end.
Expiry(r, w) ==
    IF w \in Keys(r) /\ ~Live(w) THEN now + WindowTicks(w) ELSE expireAt[w]

\* retry_after = max(1, ceil(retry_ms / 1000))
RetryAfter(ms) == LET seconds == (ms + Second - 1) \div Second
                  IN  IF seconds < 1 THEN 1 ELSE seconds

(***************************************************************************)
(* The request's side.                                                     *)
(***************************************************************************)
Init ==
    /\ now = 0
    /\ counter = [w \in Windows |-> 0]
    /\ expireAt = [w \in Windows |-> -1]
    /\ epoch = [w \in Windows |-> 0]
    /\ ledger = [w \in Windows |-> {}]
    /\ pc = [r \in Requests |-> "idle"]
    /\ deadline = [r \in Requests |-> 0]
    /\ giveUpAt = [r \in Requests |-> 0]
    /\ retryAt = [r \in Requests |-> 0]
    /\ command = [r \in Requests |-> "none"]
    /\ retryMs = [r \in Requests |-> 0]
    /\ blockedBy = [r \in Requests |-> {}]
    /\ scriptAt = [r \in Requests |-> NotYet]
    /\ seen = [r \in Requests |-> [epoch |-> epoch, counter |-> counter]]
    /\ restarts = 0

\* The route handler creates the request's deadline and calls admit().
Arrive(r) ==
    /\ pc[r] = "idle"
    /\ now <= Horizon
    /\ pc' = [pc EXCEPT ![r] = "arrived"]
    /\ deadline' = [deadline EXCEPT ![r] = now + DeadlineTicks]
    /\ UNCHANGED <<now, redis, giveUpAt, retryAt, replies, restarts>>

\* admit(): an expired deadline never contacts Redis; otherwise the EVAL is
\* sent under the smaller of the Redis timeout and the remaining time.
AdmitExpired(r) ==
    /\ pc[r] = "arrived"
    /\ now >= deadline[r]
    /\ pc' = [pc EXCEPT ![r] = "deadline_exceeded"]
    /\ UNCHANGED <<now, redis, deadline, giveUpAt, retryAt, replies, restarts>>

AdmitSend(r) ==
    /\ pc[r] = "arrived"
    /\ now < deadline[r]
    /\ pc' = [pc EXCEPT ![r] = Waiting]
    /\ giveUpAt' = [giveUpAt EXCEPT ![r] =
                      IF now + RedisTimeout < deadline[r]
                      THEN now + RedisTimeout ELSE deadline[r]]
    /\ command' = [command EXCEPT ![r] = "sent"]
    /\ UNCHANGED <<now, redis, deadline, retryAt, retryMs, blockedBy,
                   scriptAt, seen, restarts>>

TimerFires_IfAnswered(r) == now >= giveUpAt[r] /\ command[r] # "sent"

TimerFires(r) == now >= giveUpAt[r]

TimeoutOutcome_FailOpen(r) ==
    IF now >= deadline[r] THEN "deadline_exceeded" ELSE "admitted"

TimeoutOutcome_Raw(r) ==
    IF now >= deadline[r] THEN "deadline_exceeded" ELSE "timeout_error"

TimeoutOutcome(r) ==
    IF now >= deadline[r] THEN "deadline_exceeded" ELSE "unavailable"

\* The timer fires.  The command is not recalled: the server may have it.
Timeout(r) ==
    /\ pc[r] = Waiting
    /\ TimerFires(r)
    /\ pc' = [pc EXCEPT ![r] = TimeoutOutcome(r)]
    /\ UNCHANGED <<now, redis, deadline, giveUpAt, retryAt, replies, restarts>>

\* RedisError, or a reply that does not parse.  The command may have run, may
\* still run from the server's buffer, or may never run.
RedisFailure(r) ==
    /\ pc[r] = Waiting
    /\ pc' = [pc EXCEPT ![r] = "unavailable"]
    /\ \/ UNCHANGED command
       \/ command[r] = "sent" /\ command' = [command EXCEPT ![r] = "lost"]
    /\ UNCHANGED <<now, redis, deadline, giveUpAt, retryAt, retryMs, blockedBy,
                   scriptAt, seen, restarts>>

\* The caller is cancelled (the peer disconnected) while it waits.
Cancel(r) ==
    /\ pc[r] = Waiting
    /\ pc' = [pc EXCEPT ![r] = "cancelled"]
    /\ UNCHANGED <<now, redis, deadline, giveUpAt, retryAt, replies, restarts>>

\* The reply arrives in time and is decoded.
ReceiveAdmitted(r) ==
    /\ pc[r] = Waiting
    /\ command[r] = "admit"
    /\ pc' = [pc EXCEPT ![r] = "admitted"]
    /\ UNCHANGED <<now, redis, deadline, giveUpAt, retryAt, replies, restarts>>

ReceiveExceeded(r) ==
    /\ pc[r] = Waiting
    /\ command[r] = "refuse"
    /\ pc' = [pc EXCEPT ![r] = "exceeded"]
    /\ retryAt' = [retryAt EXCEPT ![r] = now + RetryAfter(retryMs[r]) * Second]
    /\ UNCHANGED <<now, redis, deadline, giveUpAt, replies, restarts>>

(***************************************************************************)
(* The server's side.                                                      *)
(***************************************************************************)
Pending_Redelivered(r) == command[r] \in {"sent", "admit"}

\* The server holds an EVAL it has not run: each command runs at most once
\* (the client is created with retry_on_timeout=False).
Pending(r) == command[r] = "sent"

\* A window refuses: nothing is consumed, and the reply says how long to wait.
ScriptRefuse(r) ==
    /\ Pending(r)
    /\ Blocked(r) # {}
    /\ command' = [command EXCEPT ![r] = "refuse"]
    /\ retryMs' = [retryMs EXCEPT ![r] = RetryMs(r)]
    /\ blockedBy' = [blockedBy EXCEPT ![r] = Blocked(r)]
    /\ scriptAt' = [scriptAt EXCEPT ![r] = now]
    /\ seen' = [seen EXCEPT ![r] = [epoch |-> epoch, counter |-> counter]]
    /\ UNCHANGED <<now, redis, callers, restarts>>

\* Both windows have room: both are charged, and a window without a key
\* starts now.
ScriptCharge(r) ==
    /\ Pending(r)
    /\ Blocked(r) = {}
    /\ command' = [command EXCEPT ![r] = "admit"]
    /\ scriptAt' = [scriptAt EXCEPT ![r] = now]
    /\ counter' = [w \in Windows |->
                     IF w \in Keys(r) THEN Used(w) + Weight(r) ELSE counter[w]]
    /\ expireAt' = [w \in Windows |-> Expiry(r, w)]
    /\ epoch' = [w \in Windows |->
                   IF w \in Keys(r) /\ ~Live(w) THEN epoch[w] + 1 ELSE epoch[w]]
    /\ ledger' = [w \in Windows |->
                    IF w \in Keys(r)
                    THEN (IF Live(w) THEN ledger[w] ELSE {}) \cup {r}
                    ELSE ledger[w]]
    /\ UNCHANGED <<now, callers, retryMs, blockedBy, seen, restarts>>

\* The server restarts empty (it keeps no snapshot and no log) and drops the
\* commands it had not run.
RedisRestart ==
    /\ restarts < MaxRestarts
    /\ restarts' = restarts + 1
    /\ counter' = [w \in Windows |-> 0]
    /\ expireAt' = [w \in Windows |-> -1]
    /\ ledger' = [w \in Windows |-> {}]
    /\ command' = [r \in Requests |->
                     IF command[r] = "sent" THEN "lost" ELSE command[r]]
    /\ UNCHANGED <<now, callers, retryMs, blockedBy, scriptAt, seen, epoch>>

Tick ==
    /\ now < MaxNow
    /\ now' = now + 1
    /\ UNCHANGED <<redis, callers, replies, restarts>>

\* The bounded clock has run out and every call has returned.
Finished ==
    /\ now = MaxNow
    /\ \A r \in Requests : pc[r] \in Final \cup {"idle"} /\ command[r] # "sent"
    /\ UNCHANGED vars

Next ==
    \/ \E r \in Requests :
          \/ Arrive(r) \/ AdmitExpired(r) \/ AdmitSend(r)
          \/ Timeout(r) \/ RedisFailure(r) \/ Cancel(r)
          \/ ReceiveAdmitted(r) \/ ReceiveExceeded(r)
          \/ ScriptRefuse(r) \/ ScriptCharge(r)
    \/ RedisRestart
    \/ Tick
    \/ Finished

\* The event loop runs ready callbacks and expired timers; the clock moves.
\* Nothing is assumed of Redis: it may never answer.
Fairness ==
    /\ WF_vars(Tick)
    /\ \A r \in Requests :
          WF_vars(AdmitExpired(r) \/ AdmitSend(r)) /\ WF_vars(Timeout(r))

Spec == Init /\ [][Next]_vars

FairSpec == Spec /\ Fairness

-----------------------------------------------------------------------------
(***************************************************************************)
(* Properties.                                                             *)
(***************************************************************************)
\* Types of the limiter's state: what Redis holds and what each admit() call
\* carries between its awaits.
TypeOK ==
    /\ now \in Nat /\ restarts \in Nat
    /\ counter \in [Windows -> Nat]
    /\ expireAt \in [Windows -> Int]
    /\ epoch \in [Windows -> Nat]
    /\ ledger \in [Windows -> SUBSET Requests]
    /\ pc \in [Requests -> {"idle", "arrived", Waiting} \cup Final]
    /\ deadline \in [Requests -> Nat]
    /\ giveUpAt \in [Requests -> Nat]
    /\ retryAt \in [Requests -> Nat]
    /\ command \in [Requests -> {"none", "sent", "lost", "admit", "refuse"}]
    /\ retryMs \in [Requests -> Nat]
    /\ blockedBy \in [Requests -> SUBSET Windows]
    /\ scriptAt \in [Requests -> Int]
    /\ seen \in [Requests -> [epoch : [Windows -> Nat],
                              counter : [Windows -> Nat]]]

\* No interleaving of commands, late commands included, takes a window's
\* counter above its capacity (the script's check and increment are one step).
WithinCapacity == \A w \in Windows : counter[w] <= Capacity(w)

\* The weight of some requests together.
TotalWeight(rs) ==
    ExplicitWeight * Cardinality({r \in rs : KindOf[r] = "explicit"})
        + AdaptiveWeight * Cardinality({r \in rs : KindOf[r] # "explicit"})

\* A window's counter is exactly the weight of the requests charged to it
\* since its key was created: a lost reply, a timeout or a late execution
\* neither charges a request twice nor loses a charge.
LedgerExact ==
    \A w \in Windows : counter[w] = TotalWeight(ledger[w])

\* What the caller was told agrees with what Redis did: an admitted call was
\* charged, a call refused with 429 never is, not even later, and a call that
\* has not passed its deadline check has not touched Redis.  (A call that ended
\* in "unavailable" may have been charged.)
OutcomeMatchesCharge ==
    \A r \in Requests :
        /\ pc[r] = "admitted" => command[r] = "admit"
        /\ pc[r] = "exceeded" => command[r] = "refuse"
        /\ pc[r] = "exceeded" => \A w \in Windows : r \notin ledger[w]
        /\ pc[r] \in {"idle", "arrived"} => command[r] = "none"

\* Once Retry-After has elapsed, every window that refused the request has
\* ended: later admissions never extend the window the caller waits for.
RetryAfterOutlastsWindow ==
    \A r \in Requests :
        pc[r] = "exceeded" /\ now > retryAt[r] =>
            \A w \in blockedBy[r] :
                ~Live(w) \/ epoch[w] > seen[r].epoch[w]

\* A window no one charged since the refusal.
Undisturbed(r, w) ==
    /\ epoch[w] = seen[r].epoch[w]
    /\ counter[w] = seen[r].counter[w]

\* Once Retry-After has elapsed, the same request fits every window that was
\* left undisturbed: the wait covers all the windows that refused, not one.
QuietRetryFits ==
    \A r \in Requests :
        pc[r] = "exceeded" /\ now > retryAt[r] =>
            \A w \in Keys(r) :
                Undisturbed(r, w) => Used(w) + Weight(r) <= Capacity(w)

\* The requests charged to w from tick t on, for one window length.
ChargedFrom(w, t) ==
    {r \in Requests : /\ w \in Keys(r) /\ command[r] = "admit"
                      /\ scriptAt[r] \in t .. (t + WindowTicks(w) - 1)}

\* Fixed windows that start at their first admission let through less than two
\* capacities in any stretch of one window length (the charge that opened the
\* older window lies before the stretch), and one more per restart of Redis.
BurstBound ==
    \A w \in Windows : \A t \in 0 .. now :
        TotalWeight(ChargedFrom(w, t)) < (2 + restarts) * Capacity(w)

\* Every admit() call returns or raises, even when Redis never answers.
AdmitReturns ==
    \A r \in Requests : pc[r] = "arrived" ~> pc[r] \in Final
=============================================================================
