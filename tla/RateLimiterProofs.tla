-------------------------- MODULE RateLimiterProofs --------------------------
(***************************************************************************)
(* Proofs about RateLimiter, for any clients, requests, weights,           *)
(* capacities, window lengths and timeouts the settings allow, and for any *)
(* number of restarts of Redis.                                            *)
(***************************************************************************)
EXTENDS RateLimiter, FiniteSetTheorems, TLAPS

\* A refused request was refused by windows of its own, each still running.
\* As long as such a window has not been replaced by a newer key, it ends no
\* later than the wait the script computed.
RefusalInv ==
    \A r \in Requests :
        command[r] = "refuse" =>
            /\ 0 <= scriptAt[r] /\ scriptAt[r] <= now
            /\ \A w \in blockedBy[r] :
                  epoch[w] = seen[r].epoch[w] =>
                        expireAt[w] <= scriptAt[r] + retryMs[r]
            /\ pc[r] = "exceeded" => scriptAt[r] + retryMs[r] <= retryAt[r]

\* A window with room at the refusal whose key is still the same has only
\* been charged since.
QuietInv ==
    \A r \in Requests :
        command[r] = "refuse" =>
            \A w \in Keys(r) \ blockedBy[r] :
                epoch[w] = seen[r].epoch[w] /\ Live(w) =>
                    /\ seen[r].counter[w] <= counter[w]
                    /\ seen[r].counter[w] + Weight(r) <= Capacity(w)

\* Epochs only grow, so what a refusal saw is never ahead of the present.
SeenInv ==
    \A r \in Requests : \A w \in Windows : seen[r].epoch[w] <= epoch[w]

\* Only a charged request is in a ledger, and callers report the verdict.
VerdictInv ==
    \A r \in Requests :
        /\ \A w \in Windows : r \in ledger[w] => command[r] = "admit"
        /\ pc[r] = "admitted" => command[r] = "admit"
        /\ pc[r] = "exceeded" => command[r] = "refuse"
        /\ pc[r] \in {"idle", "arrived"} => command[r] = "none"

-----------------------------------------------------------------------------
\* A request's windows, weights and capacities are what the settings allow:
\* no single request is heavier than a window.
LEMMA SettingsFacts ==
    /\ Global \in Windows
    /\ \A r \in Requests : Keys(r) \subseteq Windows
    /\ \A r \in Requests : Weight(r) \in Nat \ {0}
    /\ \A w \in Windows : Capacity(w) \in Nat \ {0}
    /\ \A r \in Requests, w \in Windows : Weight(r) <= Capacity(w)
    /\ \A w \in Windows : WindowTicks(w) \in Nat \ {0}
<1>1. ClientWindowSeconds * Second \in Nat \ {0}
  BY SettingsAssumption, EnvironmentAssumption
<1>2. GlobalWindowSeconds * Second \in Nat \ {0}
  BY SettingsAssumption, EnvironmentAssumption
<1>3. \A w \in Windows : WindowTicks(w) \in Nat \ {0}
  BY <1>1, <1>2 DEF WindowTicks
<1> QED
  BY <1>3, SettingsAssumption, EnvironmentAssumption
     DEF Windows, Keys, Weight, Capacity

\* Rounding the wait up to whole seconds never shortens it
\* (retry_after = max(1, ceil(retry_ms / 1000))).
LEMMA RetryAfterCovers ==
    ASSUME NEW ms \in Nat
    PROVE  RetryAfter(ms) * Second \in Nat /\ ms <= RetryAfter(ms) * Second
<1> DEFINE q == (ms + Second - 1) \div Second
<1>1. Second \in Nat \ {0}
  BY EnvironmentAssumption
<1>2. q \in Nat /\ ms <= q * Second
  BY <1>1
<1>3. CASE q < 1
  BY <1>1, <1>2, <1>3 DEF RetryAfter
<1>4. CASE ~(q < 1)
  BY <1>1, <1>2, <1>4 DEF RetryAfter
<1> QED
  BY <1>3, <1>4

\* The wait in a refusing reply covers every window that refuses: each is
\* running, and none ends later than the wait announced by the script.
LEMMA RetryMsCovers ==
    ASSUME TypeOK, NEW r \in Requests, Blocked(r) # {}
    PROVE  /\ RetryMs(r) \in Nat
           /\ \A w \in Blocked(r) : expireAt[w] <= now + RetryMs(r)
<1> DEFINE T == {BlockedTtl(w) : w \in Blocked(r)}
<1>1. \A w \in Blocked(r) : w \in Windows
  BY SettingsFacts DEF Blocked
<1>2. \A w \in Blocked(r) : /\ BlockedTtl(w) \in Nat
                            /\ expireAt[w] <= now + BlockedTtl(w)
  <2> SUFFICES ASSUME NEW w \in Blocked(r)
               PROVE  /\ BlockedTtl(w) \in Nat
                      /\ expireAt[w] <= now + BlockedTtl(w)
    OBVIOUS
  <2>1. WindowTicks(w) \in Nat \ {0}
    BY <1>1, SettingsFacts
  <2>2. expireAt[w] \in Int /\ now \in Nat
    BY <1>1 DEF TypeOK
  <2> QED
    BY <2>1, <2>2 DEF BlockedTtl, Live
<1>3. \E m \in T : \A n \in T : m >= n
  <2>1. CASE \E w \in Blocked(r) : Blocked(r) = {w}
    BY <1>2, <2>1
  <2>2. CASE Blocked(r) = {ClientOf[r], Global}
    <3>1. BlockedTtl(ClientOf[r]) \in Nat /\ BlockedTtl(Global) \in Nat
      BY <1>2, <2>2
    <3>2. T = {BlockedTtl(ClientOf[r]), BlockedTtl(Global)}
      BY <2>2
    <3> QED
      BY <3>1, <3>2
  <2> QED
    BY <2>1, <2>2 DEF Blocked, Keys
<1>4. RetryMs(r) \in T /\ \A n \in T : RetryMs(r) >= n
  BY <1>3 DEF RetryMs, Max
<1>5. RetryMs(r) \in Nat
  BY <1>2, <1>4
<1>6. ASSUME NEW w \in Blocked(r)
      PROVE  expireAt[w] <= now + RetryMs(r)
  <2>1. BlockedTtl(w) \in T /\ RetryMs(r) >= BlockedTtl(w)
    BY <1>4
  <2>2. expireAt[w] \in Int /\ now \in Nat
    BY <1>1 DEF TypeOK
  <2> QED
    BY <1>2, <1>5, <2>1, <2>2
<1> QED
  BY <1>5, <1>6

-----------------------------------------------------------------------------
\* Every reachable state of the limiter is well typed.
THEOREM TypeCorrect == Spec => []TypeOK
<1> USE DEF NotYet, Waiting, Final
<1>1. Init => TypeOK
  BY DEF Init, TypeOK
<1>2. TypeOK /\ [Next]_vars => TypeOK'
  <2> SUFFICES ASSUME TypeOK, [Next]_vars PROVE TypeOK'
    OBVIOUS
  <2> USE DEF TypeOK, redis, callers, replies
  <2>1. ASSUME NEW r \in Requests, Arrive(r) PROVE TypeOK'
    BY <2>1, EnvironmentAssumption DEF Arrive
  <2>2. ASSUME NEW r \in Requests, AdmitExpired(r) PROVE TypeOK'
    BY <2>2 DEF AdmitExpired
  <2>3. ASSUME NEW r \in Requests, AdmitSend(r) PROVE TypeOK'
    BY <2>3, SettingsAssumption DEF AdmitSend
  <2>4. ASSUME NEW r \in Requests, Timeout(r) PROVE TypeOK'
    BY <2>4 DEF Timeout, TimeoutOutcome
  <2>5. ASSUME NEW r \in Requests, RedisFailure(r) PROVE TypeOK'
    BY <2>5 DEF RedisFailure
  <2>6. ASSUME NEW r \in Requests, Cancel(r) PROVE TypeOK'
    BY <2>6 DEF Cancel
  <2>7. ASSUME NEW r \in Requests, ReceiveAdmitted(r) PROVE TypeOK'
    BY <2>7 DEF ReceiveAdmitted
  <2>8. ASSUME NEW r \in Requests, ReceiveExceeded(r) PROVE TypeOK'
    <3>1. RetryAfter(retryMs[r]) * Second \in Nat
      BY RetryAfterCovers
    <3>2. now + RetryAfter(retryMs[r]) * Second \in Nat
      BY <3>1
    <3> QED
      BY <2>8, <3>2 DEF ReceiveExceeded
  <2>9. ASSUME NEW r \in Requests, ScriptRefuse(r) PROVE TypeOK'
    <3>1. RetryMs(r) \in Nat
      BY <2>9, RetryMsCovers DEF ScriptRefuse
    <3>2. Blocked(r) \subseteq Windows
      BY SettingsFacts DEF Blocked
    <3> QED
      BY <2>9, <3>1, <3>2 DEF ScriptRefuse
  <2>10. ASSUME NEW r \in Requests, ScriptCharge(r) PROVE TypeOK'
    <3>1. \A w \in Windows : Used(w) + Weight(r) \in Nat
      BY SettingsFacts DEF Used
    <3>2. \A w \in Windows : Expiry(r, w) \in Int
      BY SettingsFacts DEF Expiry
    <3> QED
      BY <2>10, <3>1, <3>2 DEF ScriptCharge
  <2>11. CASE RedisRestart
    BY <2>11 DEF RedisRestart
  <2>12. CASE Tick
    BY <2>12 DEF Tick
  <2>13. CASE Finished \/ UNCHANGED vars
    BY <2>13 DEF Finished, vars
  <2> QED
    BY <2>1, <2>2, <2>3, <2>4, <2>5, <2>6, <2>7, <2>8, <2>9, <2>10, <2>11,
       <2>12, <2>13 DEF Next
<1> QED
  BY <1>1, <1>2, PTL DEF Spec

\* No schedule of commands, timeouts, failures and restarts takes a window
\* above its capacity.
THEOREM CapacityRespected == Spec => []WithinCapacity
<1>1. Init => WithinCapacity
  BY SettingsFacts DEF Init, WithinCapacity
<1>2. TypeOK /\ WithinCapacity /\ [Next]_vars => WithinCapacity'
  <2> SUFFICES ASSUME TypeOK, WithinCapacity, [Next]_vars
               PROVE  WithinCapacity'
    OBVIOUS
  <2>1. ASSUME NEW r \in Requests, ScriptCharge(r) PROVE WithinCapacity'
    <3> SUFFICES ASSUME NEW w \in Windows PROVE counter'[w] <= Capacity(w)
      BY DEF WithinCapacity, Capacity
    <3>1. CASE w \in Keys(r)
      <4>1. ~(Used(w) + Weight(r) > Capacity(w))
        BY <2>1, <3>1 DEF ScriptCharge, Blocked
      <4>2. Used(w) \in Nat /\ Weight(r) \in Nat /\ Capacity(w) \in Nat
        BY SettingsFacts DEF TypeOK, Used
      <4>3. counter'[w] = Used(w) + Weight(r)
        BY <2>1, <3>1 DEF ScriptCharge
      <4> QED
        BY <4>1, <4>2, <4>3
    <3>2. CASE w \notin Keys(r)
      BY <2>1, <3>2 DEF ScriptCharge, WithinCapacity
    <3> QED
      BY <3>1, <3>2
  <2>2. CASE RedisRestart
    BY <2>2, SettingsFacts DEF RedisRestart, WithinCapacity, Capacity
  <2>3. CASE UNCHANGED counter
    BY <2>3 DEF WithinCapacity, Capacity
  <2> QED
    BY <2>1, <2>2, <2>3 DEF Next, vars, redis, callers, replies, Arrive,
       AdmitExpired, AdmitSend, Timeout, RedisFailure, Cancel,
       ReceiveAdmitted, ReceiveExceeded, ScriptRefuse, Tick, Finished
<1> QED
  BY <1>1, <1>2, TypeCorrect, PTL DEF Spec

\* Callers, commands and ledgers agree (the inductive form of the next
\* theorem).
THEOREM VerdictCorrect == Spec => []VerdictInv
<1> USE DEF Waiting
<1>1. Init => VerdictInv
  BY DEF Init, VerdictInv
<1>2. TypeOK /\ VerdictInv /\ [Next]_vars => VerdictInv'
  <2> SUFFICES ASSUME TypeOK, VerdictInv, [Next]_vars
               PROVE  VerdictInv'
    OBVIOUS
  <2> USE DEF VerdictInv, TypeOK, redis, callers, replies
  <2>1. ASSUME NEW r \in Requests, Arrive(r) PROVE VerdictInv'
    BY <2>1 DEF Arrive
  <2>2. ASSUME NEW r \in Requests, AdmitExpired(r) PROVE VerdictInv'
    BY <2>2 DEF AdmitExpired
  <2>3. ASSUME NEW r \in Requests, AdmitSend(r) PROVE VerdictInv'
    BY <2>3 DEF AdmitSend
  <2>4. ASSUME NEW r \in Requests, Timeout(r) PROVE VerdictInv'
    BY <2>4 DEF Timeout, TimeoutOutcome
  <2>5. ASSUME NEW r \in Requests, RedisFailure(r) PROVE VerdictInv'
    BY <2>5 DEF RedisFailure
  <2>6. ASSUME NEW r \in Requests, Cancel(r) PROVE VerdictInv'
    BY <2>6 DEF Cancel
  <2>7. ASSUME NEW r \in Requests, ReceiveAdmitted(r) PROVE VerdictInv'
    BY <2>7 DEF ReceiveAdmitted
  <2>8. ASSUME NEW r \in Requests, ReceiveExceeded(r) PROVE VerdictInv'
    BY <2>8 DEF ReceiveExceeded
  <2>9. ASSUME NEW r \in Requests, ScriptRefuse(r) PROVE VerdictInv'
    BY <2>9 DEF ScriptRefuse, Pending
  <2>10. ASSUME NEW r \in Requests, ScriptCharge(r) PROVE VerdictInv'
    BY <2>10 DEF ScriptCharge, Pending
  <2>11. CASE RedisRestart
    BY <2>11 DEF RedisRestart
  <2>12. CASE Tick \/ Finished \/ UNCHANGED vars
    BY <2>12 DEF Tick, Finished, vars
  <2> QED
    BY <2>1, <2>2, <2>3, <2>4, <2>5, <2>6, <2>7, <2>8, <2>9, <2>10, <2>11,
       <2>12 DEF Next
<1> QED
  BY <1>1, <1>2, TypeCorrect, PTL DEF Spec

\* What a caller is told agrees with what Redis did to its command.
THEOREM OutcomesMatch == Spec => []OutcomeMatchesCharge
<1>1. VerdictInv => OutcomeMatchesCharge
  BY DEF VerdictInv, OutcomeMatchesCharge
<1> QED
  BY <1>1, VerdictCorrect, PTL

-----------------------------------------------------------------------------
\* What a step does to the key of a window: it leaves the key alone, drops
\* it, or charges it, creating a new key exactly when none is live.
LEMMA KeySteps ==
    ASSUME TypeOK, [Next]_vars
    PROVE  /\ now \in Nat /\ now' \in Nat /\ now <= now'
           /\ \A w \in Windows :
                 \/ /\ epoch'[w] = epoch[w] /\ expireAt'[w] = expireAt[w]
                    /\ counter'[w] = counter[w]
                 \/ /\ epoch'[w] = epoch[w] /\ expireAt'[w] = -1
                    /\ now' = now
                 \/ /\ Live(w) /\ epoch'[w] = epoch[w]
                    /\ expireAt'[w] = expireAt[w] /\ counter[w] < counter'[w]
                    /\ now' = now
                 \/ /\ ~Live(w) /\ epoch'[w] = epoch[w] + 1
                    /\ now' = now
<1>1. ASSUME NEW r \in Requests, ScriptCharge(r), NEW w \in Windows
      PROVE  \/ /\ epoch'[w] = epoch[w] /\ expireAt'[w] = expireAt[w]
                /\ counter'[w] = counter[w]
             \/ /\ Live(w) /\ epoch'[w] = epoch[w]
                /\ expireAt'[w] = expireAt[w] /\ counter[w] < counter'[w]
                /\ now' = now
             \/ /\ ~Live(w) /\ epoch'[w] = epoch[w] + 1
                /\ now' = now
  <2>1. Weight(r) \in Nat \ {0} /\ counter[w] \in Nat
    BY SettingsFacts DEF TypeOK
  <2> QED
    BY <1>1, <2>1 DEF ScriptCharge, Expiry, Used
<1>2. ASSUME NEW r \in Requests, ScriptCharge(r) PROVE now' = now
  BY <1>2 DEF ScriptCharge
<1>3. CASE RedisRestart
  BY <1>3 DEF RedisRestart, TypeOK
<1>4. CASE Tick
  BY <1>4 DEF Tick, TypeOK, redis
<1>5. CASE UNCHANGED <<now, redis>>
  BY <1>5 DEF TypeOK, redis
<1> QED
  BY <1>1, <1>2, <1>3, <1>4, <1>5
  DEF Next, TypeOK, vars, redis, callers, replies, Arrive, AdmitExpired, AdmitSend,
       Timeout, RedisFailure, Cancel, ReceiveAdmitted, ReceiveExceeded,
       ScriptRefuse, Tick, Finished

\* Epochs seen by refusals never lead the present epochs.
THEOREM SeenCorrect == Spec => []SeenInv
<1>1. Init => SeenInv
  BY DEF Init, SeenInv
<1>2. TypeOK /\ TypeOK' /\ SeenInv /\ [Next]_vars => SeenInv'
  <2> SUFFICES ASSUME TypeOK, TypeOK', SeenInv, [Next]_vars,
                      NEW r \in Requests, NEW w \in Windows
               PROVE  seen'[r].epoch[w] <= epoch'[w]
    BY DEF SeenInv
  <2>0. epoch[w] \in Nat /\ epoch'[w] \in Nat
    BY DEF TypeOK
  <2>1. epoch'[w] = epoch[w] \/ epoch'[w] = epoch[w] + 1
    BY KeySteps
  <2>2. seen'[r] = seen[r] \/ seen'[r].epoch = epoch
    BY DEF TypeOK, Next, ScriptCharge, RedisRestart, vars, redis, callers, replies, Arrive, AdmitExpired, AdmitSend,
       Timeout, RedisFailure, Cancel, ReceiveAdmitted, ReceiveExceeded,
       ScriptRefuse, Tick, Finished
  <2>3. seen[r].epoch[w] \in Nat /\ seen[r].epoch[w] <= epoch[w]
    BY DEF TypeOK, SeenInv
  <2> QED
    BY <2>0, <2>1, <2>2, <2>3
<1> QED
  BY <1>1, <1>2, TypeCorrect, PTL DEF Spec

\* Replies are produced once: a step leaves a refusal and what it recorded
\* alone, or is the script refusing a command it had not run before.
LEMMA RefusalSteps ==
    ASSUME TypeOK, [Next]_vars, NEW r \in Requests, command'[r] = "refuse"
    PROVE  \/ /\ command[r] = "refuse"
              /\ scriptAt'[r] = scriptAt[r] /\ retryMs'[r] = retryMs[r]
              /\ blockedBy'[r] = blockedBy[r] /\ seen'[r] = seen[r]
           \/ /\ ScriptRefuse(r)
<1> USE DEF TypeOK
<1>1. ASSUME NEW q \in Requests, ScriptCharge(q) PROVE
              /\ command[r] = "refuse"
              /\ scriptAt'[r] = scriptAt[r] /\ retryMs'[r] = retryMs[r]
              /\ blockedBy'[r] = blockedBy[r] /\ seen'[r] = seen[r]
  BY <1>1 DEF ScriptCharge, redis, callers, replies
<1>2. ASSUME NEW q \in Requests, ScriptRefuse(q), q # r PROVE
              /\ command[r] = "refuse"
              /\ scriptAt'[r] = scriptAt[r] /\ retryMs'[r] = retryMs[r]
              /\ blockedBy'[r] = blockedBy[r] /\ seen'[r] = seen[r]
  BY <1>2 DEF ScriptRefuse, redis, callers, replies
<1> QED
  BY <1>1, <1>2
  DEF Next, vars, redis, callers, replies, Arrive, AdmitExpired, AdmitSend,
      Timeout, RedisFailure, Cancel, ReceiveAdmitted, ReceiveExceeded,
      RedisRestart, Tick, Finished

\* A refused caller that is told to come back is told so by ReceiveExceeded,
\* with a wait that covers the script's.
LEMMA RetryAtSteps ==
    ASSUME TypeOK, [Next]_vars, NEW r \in Requests, pc'[r] = "exceeded"
    PROVE  \/ pc[r] = "exceeded" /\ retryAt'[r] = retryAt[r]
           \/ now + retryMs[r] <= retryAt'[r]
<1> USE DEF TypeOK, Waiting
<1>1. ASSUME NEW q \in Requests, ReceiveExceeded(q)
      PROVE  \/ pc[r] = "exceeded" /\ retryAt'[r] = retryAt[r]
             \/ now + retryMs[r] <= retryAt'[r]
  <2>1. CASE q = r
    <3>1. /\ RetryAfter(retryMs[r]) * Second \in Nat
          /\ retryMs[r] <= RetryAfter(retryMs[r]) * Second
      BY RetryAfterCovers
    <3>2. retryAt'[r] = now + RetryAfter(retryMs[r]) * Second
      BY <1>1, <2>1 DEF ReceiveExceeded
    <3> QED
      BY <3>1, <3>2
  <2>2. CASE q # r
    BY <1>1, <2>2 DEF ReceiveExceeded
  <2> QED
    BY <2>1, <2>2
<1>2. ASSUME NEW q \in Requests, Timeout(q)
      PROVE  pc[r] = "exceeded" /\ retryAt'[r] = retryAt[r]
  BY <1>2 DEF Timeout, TimeoutOutcome
<1> QED
  BY <1>1, <1>2
  DEF Next, vars, redis, callers, replies, Arrive, AdmitExpired, AdmitSend,
      RedisFailure, Cancel, ReceiveAdmitted, ScriptRefuse, ScriptCharge,
      RedisRestart, Tick, Finished

\* The wait announced to a refused caller covers the windows that refused it,
\* as long as they have not been replaced (the inductive invariant behind
\* RetryAfterSound).
THEOREM RefusalCorrect == Spec => []RefusalInv
<1>1. Init => RefusalInv
  BY DEF Init, RefusalInv
<1>2. /\ TypeOK /\ TypeOK' /\ VerdictInv /\ SeenInv /\ RefusalInv
      /\ [Next]_vars
      => RefusalInv'
  <2> SUFFICES ASSUME TypeOK, TypeOK', VerdictInv, SeenInv, RefusalInv,
                      [Next]_vars, NEW r \in Requests, command'[r] = "refuse"
               PROVE  /\ 0 <= scriptAt'[r] /\ scriptAt'[r] <= now'
                      /\ \A w \in blockedBy'[r] :
                            epoch'[w] = seen'[r].epoch[w] =>
                               expireAt'[w] <= scriptAt'[r] + retryMs'[r]
                      /\ pc'[r] = "exceeded" =>
                            scriptAt'[r] + retryMs'[r] <= retryAt'[r]
    BY DEF RefusalInv
  <2>0. /\ now \in Nat /\ now' \in Nat /\ scriptAt[r] \in Int
        /\ retryMs[r] \in Nat /\ retryAt[r] \in Nat /\ retryAt'[r] \in Nat
        /\ blockedBy[r] \subseteq Windows
    BY DEF TypeOK
  <2>1. now <= now'
    BY KeySteps
  <2>2. CASE ScriptRefuse(r)
    <3>1. /\ Blocked(r) # {} /\ scriptAt'[r] = now /\ now' = now
          /\ retryMs'[r] = RetryMs(r) /\ blockedBy'[r] = Blocked(r)
          /\ expireAt' = expireAt /\ pc' = pc /\ command[r] = "sent"
      BY <2>2 DEF ScriptRefuse, Pending, redis, callers, TypeOK
    <3>2. pc'[r] # "exceeded"
      BY <3>1 DEF VerdictInv
    <3> QED
      BY <2>0, <3>1, <3>2, RetryMsCovers
  <2>3. CASE /\ command[r] = "refuse"
             /\ scriptAt'[r] = scriptAt[r] /\ retryMs'[r] = retryMs[r]
             /\ blockedBy'[r] = blockedBy[r] /\ seen'[r] = seen[r]
    <3>1. 0 <= scriptAt[r] /\ scriptAt[r] <= now
      BY <2>3 DEF RefusalInv
    <3>2. ASSUME NEW w \in blockedBy[r], epoch'[w] = seen[r].epoch[w]
          PROVE  expireAt'[w] <= scriptAt[r] + retryMs[r]
      <4>1. w \in Windows
        BY <2>0
      <4>2. /\ epoch[w] \in Nat /\ epoch'[w] \in Nat
            /\ seen[r].epoch[w] \in Nat /\ expireAt[w] \in Int
        BY <4>1 DEF TypeOK
      <4>3. seen[r].epoch[w] <= epoch[w]
        BY <4>1 DEF SeenInv
      <4>4. epoch'[w] = epoch[w]
            /\ (expireAt'[w] = expireAt[w] \/ expireAt'[w] = -1)
        BY <3>2, <4>1, <4>2, <4>3, KeySteps
      <4>5. expireAt[w] <= scriptAt[r] + retryMs[r]
        BY <2>3, <3>2, <4>4 DEF RefusalInv
      <4> QED
        BY <2>0, <3>1, <4>2, <4>4, <4>5
    <3>3. ASSUME pc'[r] = "exceeded"
          PROVE  scriptAt[r] + retryMs[r] <= retryAt'[r]
      <4>1. CASE pc[r] = "exceeded" /\ retryAt'[r] = retryAt[r]
        BY <2>3, <4>1 DEF RefusalInv
      <4>2. CASE now + retryMs[r] <= retryAt'[r]
        BY <2>0, <3>1, <4>2
      <4> QED
        BY <3>3, <4>1, <4>2, RetryAtSteps
    <3> QED
      BY <2>0, <2>1, <2>3, <3>1, <3>2, <3>3
  <2> QED
    BY <2>2, <2>3, RefusalSteps
<1> QED
  BY <1>1, <1>2, TypeCorrect, VerdictCorrect, SeenCorrect, PTL DEF Spec

\* A caller that waits out its Retry-After finds every window that refused it
\* ended, whatever was admitted in between.
THEOREM RetryAfterSound == Spec => []RetryAfterOutlastsWindow
<1>1. TypeOK /\ VerdictInv /\ SeenInv /\ RefusalInv
      => RetryAfterOutlastsWindow
  <2> SUFFICES ASSUME TypeOK, VerdictInv, SeenInv, RefusalInv,
                      NEW r \in Requests, pc[r] = "exceeded",
                      now > retryAt[r], NEW w \in blockedBy[r]
               PROVE  ~Live(w) \/ epoch[w] > seen[r].epoch[w]
    BY DEF RetryAfterOutlastsWindow
  <2>1. w \in Windows /\ command[r] = "refuse"
    BY DEF TypeOK, VerdictInv
  <2>2. /\ epoch[w] \in Nat /\ seen[r].epoch[w] \in Nat /\ now \in Nat
        /\ expireAt[w] \in Int /\ scriptAt[r] \in Int /\ retryMs[r] \in Nat
        /\ retryAt[r] \in Nat
    BY <2>1 DEF TypeOK
  <2>3. seen[r].epoch[w] <= epoch[w]
    BY <2>1 DEF SeenInv
  <2>4. epoch[w] = seen[r].epoch[w] =>
           expireAt[w] <= scriptAt[r] + retryMs[r]
    BY <2>1 DEF RefusalInv
  <2>5. scriptAt[r] + retryMs[r] <= retryAt[r]
    BY <2>1 DEF RefusalInv
  <2> QED
    BY <2>2, <2>3, <2>4, <2>5 DEF Live
<1> QED
  BY <1>1, TypeCorrect, VerdictCorrect, SeenCorrect, RefusalCorrect, PTL

\* Windows that had room at a refusal keep it until they are charged (the
\* inductive invariant behind QuietRetrySound).
THEOREM QuietCorrect == Spec => []QuietInv
<1>1. Init => QuietInv
  BY DEF Init, QuietInv
<1>2. /\ TypeOK /\ TypeOK' /\ SeenInv /\ QuietInv /\ [Next]_vars
      => QuietInv'
  <2> SUFFICES ASSUME TypeOK, TypeOK', SeenInv, QuietInv, [Next]_vars,
                      NEW r \in Requests, command'[r] = "refuse",
                      NEW w \in Keys(r), w \notin blockedBy'[r],
                      epoch'[w] = seen'[r].epoch[w], now' <= expireAt'[w]
               PROVE  /\ seen'[r].counter[w] <= counter'[w]
                      /\ seen'[r].counter[w] + Weight(r) <= Capacity(w)
    BY DEF QuietInv, Live, Keys, Weight, Capacity
  <2>0. w \in Windows /\ Weight(r) \in Nat /\ Capacity(w) \in Nat
    BY SettingsFacts
  <2>1. /\ now \in Nat /\ now' \in Nat /\ epoch[w] \in Nat
        /\ seen[r].epoch[w] \in Nat /\ expireAt[w] \in Int
        /\ counter[w] \in Nat /\ counter'[w] \in Nat
        /\ seen[r].counter[w] \in Nat
    BY <2>0 DEF TypeOK
  <2>2. CASE ScriptRefuse(r)
    <3>1. /\ now' = now /\ counter' = counter /\ expireAt' = expireAt
          /\ seen'[r].counter = counter /\ blockedBy'[r] = Blocked(r)
      BY <2>2 DEF ScriptRefuse, redis, callers, TypeOK
    <3>2. Used(w) = counter[w]
      BY <3>1 DEF Used, Live
    <3>3. ~(Used(w) + Weight(r) > Capacity(w))
      BY <3>1 DEF Blocked
    <3> QED
      BY <2>0, <2>1, <3>1, <3>2, <3>3
  <2>3. CASE /\ command[r] = "refuse" /\ blockedBy'[r] = blockedBy[r]
             /\ seen'[r] = seen[r]
    <3>1. seen[r].epoch[w] <= epoch[w]
      BY <2>0 DEF SeenInv
    <3>2. /\ epoch'[w] = epoch[w] /\ expireAt'[w] = expireAt[w]
          /\ now <= now' /\ counter[w] <= counter'[w]
      BY <2>0, <2>1, <2>3, <3>1, KeySteps
    <3>3. Live(w)
      BY <2>1, <3>2 DEF Live
    <3>4. /\ seen[r].counter[w] <= counter[w]
          /\ seen[r].counter[w] + Weight(r) <= Capacity(w)
      BY <2>3, <3>2, <3>3 DEF QuietInv
    <3> QED
      BY <2>1, <2>3, <3>2, <3>4
  <2> QED
    BY <2>2, <2>3, RefusalSteps
<1> QED
  BY <1>1, <1>2, TypeCorrect, SeenCorrect, PTL DEF Spec

\* After Retry-After, the refused request fits every window nobody has
\* charged in the meantime: the announced wait is sufficient for the client
\* and the global window together.
THEOREM QuietRetrySound == Spec => []QuietRetryFits
<1>1. /\ TypeOK /\ VerdictInv /\ SeenInv /\ QuietInv
      /\ RetryAfterOutlastsWindow
      => QuietRetryFits
  <2> SUFFICES ASSUME TypeOK, VerdictInv, SeenInv, QuietInv,
                      RetryAfterOutlastsWindow, NEW r \in Requests,
                      pc[r] = "exceeded", now > retryAt[r],
                      NEW w \in Keys(r), Undisturbed(r, w)
               PROVE  Used(w) + Weight(r) <= Capacity(w)
    BY DEF QuietRetryFits
  <2>1. /\ w \in Windows /\ Weight(r) \in Nat /\ Capacity(w) \in Nat
        /\ Weight(r) <= Capacity(w)
    BY SettingsFacts
  <2>2. epoch[w] \in Nat /\ counter[w] \in Nat
    BY <2>1 DEF TypeOK
  <2>3. CASE ~Live(w)
    BY <2>1, <2>3 DEF Used
  <2>4. CASE Live(w)
    <3>1. w \notin blockedBy[r]
      BY <2>2, <2>4 DEF RetryAfterOutlastsWindow, Undisturbed
    <3>2. seen[r].counter[w] + Weight(r) <= Capacity(w)
      BY <2>4, <3>1 DEF QuietInv, VerdictInv, Undisturbed
    <3> QED
      BY <2>4, <3>2 DEF Used, Undisturbed
  <2> QED
    BY <2>3, <2>4
<1> QED
  BY <1>1, TypeCorrect, VerdictCorrect, SeenCorrect, QuietCorrect,
     RetryAfterSound, PTL

-----------------------------------------------------------------------------
(* Sums: what a window was charged, and how much in a stretch of time.     *)

\* The requests the script ever charged to w, and those of a stretch.
Charges(w) == {r \in Requests : w \in Keys(r) /\ command[r] = "admit"}

Within(rs, at, t, w) == {r \in rs : t <= at[r] /\ at[r] <= t + WindowTicks(w) - 1}

\* When the present key of w was created.
Opened(w) == expireAt[w] - WindowTicks(w)

\* Only what was charged is in a ledger, and only once; the first charge of the
\* present key opened it, and whatever an older key was charged came no later.
KeyInv(w) ==
    /\ counter[w] = TotalWeight(ledger[w])
    /\ ledger[w] \subseteq Charges(w)
    /\ \A r \in Charges(w) : 0 <= scriptAt[r] /\ scriptAt[r] <= now
    /\ ledger[w] = {} => expireAt[w] = -1
    /\ ledger[w] # {} =>
          /\ \A r \in ledger[w] : Opened(w) <= scriptAt[r]
          /\ \E r \in ledger[w] : scriptAt[r] = Opened(w)
          /\ \A r \in Charges(w) \ ledger[w] : scriptAt[r] <= Opened(w)

\* A stretch that reaches the present key, or the one to come, holds less than one
\* capacity of what older keys were charged, and one more per restart.
OldInv(w) ==
    \A t \in Int :
        t + WindowTicks(w) - 1 >= (IF ledger[w] = {} THEN now ELSE Opened(w)) =>
            TotalWeight(Within(Charges(w) \ ledger[w], scriptAt, t, w))
                < (1 + restarts) * Capacity(w)

StretchInv(w) ==
    \A t \in Int : TotalWeight(Within(Charges(w), scriptAt, t, w))
                      < (2 + restarts) * Capacity(w)

BurstInv ==
    /\ IsFiniteSet({r \in Requests : command[r] = "admit"})
    /\ \A w \in Windows : KeyInv(w) /\ OldInv(w) /\ StretchInv(w)

\* Requests of two sets that share none are as many as those of each together.
LEMMA DisjointUnion ==
    ASSUME NEW S, NEW T, IsFiniteSet(S), IsFiniteSet(T), S \cap T = {}
    PROVE  Cardinality(S \cup T) = Cardinality(S) + Cardinality(T)
<1>1. Cardinality(S \cup T) = Cardinality(S) + Cardinality(T) - Cardinality(S \cap T)
  BY FS_Union
<1>2. Cardinality(S \cap T) = 0
  BY FS_EmptySet
<1>3. Cardinality(S) \in Nat /\ Cardinality(T) \in Nat
  BY FS_CardinalityType
<1> QED
  BY <1>1, <1>2, <1>3

\* Weights add up: the total is that of the parts, and never less than a part's.
LEMMA TotalWeightFacts ==
    /\ TotalWeight({}) = 0
    /\ \A r \in Requests : TotalWeight({r}) = Weight(r)
    /\ \A S : IsFiniteSet(S) => TotalWeight(S) \in Nat
    /\ \A S, T : IsFiniteSet(S) /\ IsFiniteSet(T) /\ S \cap T = {} =>
          TotalWeight(S \cup T) = TotalWeight(S) + TotalWeight(T)
    /\ \A S, T : IsFiniteSet(T) /\ S \subseteq T => TotalWeight(S) <= TotalWeight(T)
<1> DEFINE E(S) == {r \in S : KindOf[r] = "explicit"}
           A(S) == {r \in S : KindOf[r] # "explicit"}
<1>0. ExplicitWeight \in Nat /\ AdaptiveWeight \in Nat
  BY SettingsAssumption
<1>1. \A S : TotalWeight(S) = ExplicitWeight * Cardinality(E(S)) + AdaptiveWeight * Cardinality(A(S))
  BY DEF TotalWeight
<1>2. ASSUME NEW S, IsFiniteSet(S)
      PROVE  /\ IsFiniteSet(E(S)) /\ Cardinality(E(S)) \in Nat
             /\ IsFiniteSet(A(S)) /\ Cardinality(A(S)) \in Nat
  <2>1. E(S) \in SUBSET S /\ A(S) \in SUBSET S
    OBVIOUS
  <2> HIDE DEF E, A
  <2>2. IsFiniteSet(E(S)) /\ IsFiniteSet(A(S))
    BY <1>2, <2>1, FS_Subset
  <2> QED
    BY <2>2, FS_CardinalityType
<1>3. TotalWeight({}) = 0
  <2>1. E({}) = {} /\ A({}) = {}
    OBVIOUS
  <2> HIDE DEF E, A
  <2>2. Cardinality(E({})) = 0 /\ Cardinality(A({})) = 0
    BY <2>1, FS_EmptySet
  <2> QED
    BY <1>0, <1>1, <2>2
<1>4. ASSUME NEW r \in Requests PROVE TotalWeight({r}) = Weight(r)
  <2>1. CASE KindOf[r] = "explicit"
    <3>1. E({r}) = {r} /\ A({r}) = {}
      BY <2>1
    <3> HIDE DEF E, A
    <3>2. Cardinality(E({r})) = 1 /\ Cardinality(A({r})) = 0
      BY <3>1, FS_EmptySet, FS_Singleton
    <3> QED
      BY <1>0, <1>1, <2>1, <3>2 DEF Weight
  <2>2. CASE KindOf[r] # "explicit"
    <3>1. E({r}) = {} /\ A({r}) = {r}
      BY <2>2
    <3> HIDE DEF E, A
    <3>2. Cardinality(E({r})) = 0 /\ Cardinality(A({r})) = 1
      BY <3>1, FS_EmptySet, FS_Singleton
    <3> QED
      BY <1>0, <1>1, <2>2, <3>2 DEF Weight
  <2> QED
    BY <2>1, <2>2
<1>5. ASSUME NEW S, IsFiniteSet(S) PROVE TotalWeight(S) \in Nat
  <2>1. Cardinality(E(S)) \in Nat /\ Cardinality(A(S)) \in Nat
    BY <1>2, <1>5
  <2> HIDE DEF E, A
  <2> QED
    BY <1>0, <1>1, <2>1
<1>6. ASSUME NEW S, NEW T, IsFiniteSet(S), IsFiniteSet(T), S \cap T = {}
      PROVE  TotalWeight(S \cup T) = TotalWeight(S) + TotalWeight(T)
  <2>1. /\ E(S \cup T) = E(S) \cup E(T) /\ E(S) \cap E(T) = {}
        /\ A(S \cup T) = A(S) \cup A(T) /\ A(S) \cap A(T) = {}
    BY <1>6
  <2>2. /\ IsFiniteSet(E(S)) /\ Cardinality(E(S)) \in Nat
        /\ IsFiniteSet(A(S)) /\ Cardinality(A(S)) \in Nat
    BY <1>2, <1>6
  <2>3. /\ IsFiniteSet(E(T)) /\ Cardinality(E(T)) \in Nat
        /\ IsFiniteSet(A(T)) /\ Cardinality(A(T)) \in Nat
    BY <1>2, <1>6
  <2> HIDE DEF E, A
  <2>4. Cardinality(E(S \cup T)) = Cardinality(E(S)) + Cardinality(E(T))
    BY <2>1, <2>2, <2>3, DisjointUnion
  <2>5. Cardinality(A(S \cup T)) = Cardinality(A(S)) + Cardinality(A(T))
    BY <2>1, <2>2, <2>3, DisjointUnion
  <2> QED
    BY <1>0, <1>1, <2>2, <2>3, <2>4, <2>5
<1>7. ASSUME NEW S, NEW T, IsFiniteSet(T), S \subseteq T
      PROVE  TotalWeight(S) <= TotalWeight(T)
  <2>1. S \in SUBSET T /\ T \ S \in SUBSET T /\ S \cup (T \ S) = T /\ S \cap (T \ S) = {}
    BY <1>7
  <2>2. IsFiniteSet(S) /\ IsFiniteSet(T \ S)
    BY <1>7, <2>1, FS_Subset
  <2>3. TotalWeight(T) = TotalWeight(S) + TotalWeight(T \ S)
    BY <1>6, <2>1, <2>2
  <2>4. TotalWeight(S) \in Nat /\ TotalWeight(T \ S) \in Nat
    BY <1>5, <2>2
  <2> QED
    BY <2>3, <2>4
<1> QED
  BY <1>3, <1>4, <1>5, <1>6, <1>7

\* A step that is neither a charge nor a restart leaves the keys alone, and charges
\* are never taken back or dated anew.
LEMMA OtherSteps ==
    ASSUME TypeOK, VerdictInv, [Next]_vars,
           \A r \in Requests : ~ScriptCharge(r), ~RedisRestart
    PROVE  /\ UNCHANGED <<counter, expireAt, ledger, restarts>>
           /\ now <= now' /\ now' \in Nat
           /\ \A r \in Requests :
                 /\ command'[r] = "admit" <=> command[r] = "admit"
                 /\ command[r] = "admit" => scriptAt'[r] = scriptAt[r]
<1> USE DEF TypeOK, redis, callers, replies
<1>1. ASSUME NEW q \in Requests, AdmitSend(q) \/ RedisFailure(q) \/ ScriptRefuse(q),
             NEW r \in Requests
      PROVE  /\ command'[r] = "admit" <=> command[r] = "admit"
             /\ command[r] = "admit" => scriptAt'[r] = scriptAt[r]
  BY <1>1 DEF AdmitSend, RedisFailure, ScriptRefuse, Pending, VerdictInv
<1>2. \/ \E q \in Requests : AdmitSend(q) \/ RedisFailure(q) \/ ScriptRefuse(q)
      \/ UNCHANGED <<command, scriptAt>>
  BY DEF Next, vars, Arrive, AdmitExpired, Timeout, Cancel, ReceiveAdmitted, ReceiveExceeded,
         Tick, Finished
<1>3. UNCHANGED <<counter, expireAt, ledger, restarts>>
  BY DEF Next, vars, Arrive, AdmitExpired, AdmitSend, Timeout, RedisFailure, Cancel,
         ReceiveAdmitted, ReceiveExceeded, ScriptRefuse, Tick, Finished
<1>4. now <= now' /\ now' \in Nat
  BY KeySteps
<1> QED
  BY <1>1, <1>2, <1>3, <1>4

\* A window's bounds are numbers, and each restart allows one capacity more.
LEMMA Bounds ==
    ASSUME TypeOK, NEW w \in Windows
    PROVE  /\ Capacity(w) \in Nat \ {0} /\ WindowTicks(w) \in Nat \ {0}
           /\ (1 + restarts) * Capacity(w) \in Nat
           /\ (2 + restarts) * Capacity(w) \in Nat
           /\ (2 + restarts) * Capacity(w) = (1 + restarts) * Capacity(w) + Capacity(w)
           /\ Capacity(w) <= (1 + restarts) * Capacity(w)
           /\ (1 + (restarts + 1)) * Capacity(w) = (2 + restarts) * Capacity(w)
           /\ (2 + (restarts + 1)) * Capacity(w) = (2 + restarts) * Capacity(w) + Capacity(w)
<1>1. Capacity(w) \in Nat \ {0} /\ WindowTicks(w) \in Nat \ {0}
  BY SettingsFacts
<1>2. restarts \in Nat
  BY DEF TypeOK
<1> QED
  BY <1>1, <1>2

\* A step that does not touch the key of w keeps what is said of it.
LEMMA SameKey ==
    ASSUME TypeOK, now <= now', now' \in Nat, NEW w \in Windows,
           KeyInv(w), OldInv(w), StretchInv(w),
           Charges(w)' = Charges(w),
           \A r \in Charges(w) : scriptAt'[r] = scriptAt[r],
           ledger'[w] = ledger[w], expireAt'[w] = expireAt[w], counter'[w] = counter[w],
           restarts' = restarts
    PROVE  KeyInv(w)' /\ OldInv(w)' /\ StretchInv(w)'
<1> DEFINE C == Charges(w)
<1>0. Opened(w)' = Opened(w) /\ now \in Nat
  BY DEF Opened, WindowTicks, TypeOK
<1>00. C \subseteq Requests /\ \A r \in C : scriptAt[r] \in Int
  BY DEF Charges, TypeOK
<1>1. KeyInv(w)'
  <2>1. \A r \in C : 0 <= scriptAt'[r] /\ scriptAt'[r] <= now'
    BY <1>0, <1>00 DEF KeyInv
  <2>2. /\ counter'[w] = TotalWeight(ledger'[w]) /\ ledger'[w] \subseteq C
        /\ ledger'[w] = {} => expireAt'[w] = -1
    BY DEF KeyInv
  <2>3. ledger'[w] # {} =>
          /\ \A r \in ledger'[w] : Opened(w)' <= scriptAt'[r]
          /\ \E r \in ledger'[w] : scriptAt'[r] = Opened(w)'
          /\ \A r \in C \ ledger'[w] : scriptAt'[r] <= Opened(w)'
    BY <1>0 DEF KeyInv
  <2> QED
    BY <2>1, <2>2, <2>3 DEF KeyInv
<1>2. ASSUME NEW t \in Int, NEW S, S \subseteq C
      PROVE  Within(S, scriptAt', t, w) = Within(S, scriptAt, t, w)
  BY <1>2 DEF Within
<1>3. OldInv(w)'
  <2> SUFFICES ASSUME NEW t \in Int,
                      t + WindowTicks(w) - 1 >= (IF ledger'[w] = {} THEN now' ELSE Opened(w)')
               PROVE  TotalWeight(Within(C \ ledger[w], scriptAt', t, w))
                         < (1 + restarts) * Capacity(w)
    BY DEF OldInv, Within, Capacity, WindowTicks
  <2>1. t + WindowTicks(w) - 1 >= (IF ledger[w] = {} THEN now ELSE Opened(w))
    BY <1>0, Bounds
  <2>2. Within(C \ ledger[w], scriptAt', t, w) = Within(C \ ledger[w], scriptAt, t, w)
    BY <1>2
  <2> QED
    BY <2>1, <2>2 DEF OldInv
<1>4. StretchInv(w)'
  <2> SUFFICES ASSUME NEW t \in Int
               PROVE  TotalWeight(Within(C, scriptAt', t, w)) < (2 + restarts) * Capacity(w)
    BY DEF StretchInv, Within, Capacity, WindowTicks
  <2>1. Within(C, scriptAt', t, w) = Within(C, scriptAt, t, w)
    BY <1>2
  <2> QED
    BY <2>1 DEF StretchInv
<1> QED
  BY <1>1, <1>3, <1>4

\* Nothing is charged at first.
LEMMA BurstStart == Init => BurstInv
<1> SUFFICES ASSUME Init PROVE BurstInv
  OBVIOUS
<1>0. TypeOK
  BY DEF Init, TypeOK, NotYet, Waiting, Final
<1>1. \A r \in Requests : command[r] # "admit"
  BY DEF Init
<1>2. ASSUME NEW w \in Windows PROVE KeyInv(w) /\ OldInv(w) /\ StretchInv(w)
  <2>1. Charges(w) = {} /\ ledger[w] = {} /\ counter[w] = 0 /\ expireAt[w] = -1
    BY <1>1 DEF Charges, Init
  <2>2. KeyInv(w)
    BY <2>1, TotalWeightFacts DEF KeyInv
  <2>3. \A t \in Int : Within(Charges(w), scriptAt, t, w) = {}
                       /\ Within(Charges(w) \ ledger[w], scriptAt, t, w) = {}
    BY <2>1 DEF Within
  <2>4. 0 < (1 + restarts) * Capacity(w) /\ 0 < (2 + restarts) * Capacity(w)
    BY <1>0, Bounds
  <2> QED
    BY <2>2, <2>3, <2>4, TotalWeightFacts DEF OldInv, StretchInv
<1>3. {r \in Requests : command[r] = "admit"} = {}
  BY <1>1
<1> QED
  BY <1>2, <1>3, FS_EmptySet DEF BurstInv

\* Redis forgets its keys: what they were charged counts as old, and the bounds
\* grow by one capacity.
LEMMA BurstRestart ==
    ASSUME TypeOK, BurstInv, RedisRestart
    PROVE  BurstInv'
<1>1. /\ UNCHANGED <<now, scriptAt>> /\ restarts' = restarts + 1
      /\ \A r \in Requests : command'[r] = "admit" <=> command[r] = "admit"
      /\ \A w \in Windows : counter'[w] = 0 /\ expireAt'[w] = -1 /\ ledger'[w] = {}
  BY DEF RedisRestart, TypeOK
<1>2. ASSUME NEW w \in Windows PROVE KeyInv(w)' /\ OldInv(w)' /\ StretchInv(w)'
  <2> DEFINE C == Charges(w)
  <2>0. KeyInv(w) /\ StretchInv(w)
    BY DEF BurstInv
  <2>1. Charges(w)' = C
    BY <1>1 DEF Charges, Keys
  <2>2. KeyInv(w)'
    <3>1. \A r \in C : 0 <= scriptAt'[r] /\ scriptAt'[r] <= now'
      BY <1>1, <2>0 DEF KeyInv
    <3> QED
      BY <1>1, <2>1, <3>1, TotalWeightFacts DEF KeyInv
  <2>3. ASSUME NEW t \in Int
        PROVE  TotalWeight(Within(C, scriptAt', t, w)) < (2 + restarts) * Capacity(w)
    BY <1>1, <2>0 DEF StretchInv
  <2>4. OldInv(w)'
    <3> SUFFICES ASSUME NEW t \in Int
                 PROVE  TotalWeight(Within(C \ {}, scriptAt', t, w)) < (1 + restarts') * Capacity(w)
      BY <1>1, <2>1 DEF OldInv, Within, Capacity, WindowTicks
    <3>1. C \ {} = C
      OBVIOUS
    <3>2. (1 + restarts') * Capacity(w) = (2 + restarts) * Capacity(w)
      BY <1>1, Bounds
    <3> QED
      BY <2>3, <3>1, <3>2
  <2>5. StretchInv(w)'
    <3> SUFFICES ASSUME NEW t \in Int
                 PROVE  TotalWeight(Within(C, scriptAt', t, w)) < (2 + restarts') * Capacity(w)
      BY <2>1 DEF StretchInv, Within, Capacity, WindowTicks
    <3>1. /\ (2 + restarts') * Capacity(w) = (2 + restarts) * Capacity(w) + Capacity(w)
          /\ (2 + restarts) * Capacity(w) \in Nat /\ Capacity(w) \in Nat
      BY <1>1, Bounds
    <3>2. TotalWeight(Within(C, scriptAt', t, w)) \in Nat
      <4>1. Within(C, scriptAt', t, w) \in SUBSET {r \in Requests : command[r] = "admit"}
        BY DEF Within, Charges
      <4>2. IsFiniteSet(Within(C, scriptAt', t, w))
        BY <4>1, FS_Subset DEF BurstInv
      <4> QED
        BY <4>2, TotalWeightFacts
    <3> QED
      BY <2>3, <3>1, <3>2
  <2> QED
    BY <2>2, <2>4, <2>5
<1>3. {r \in Requests : command'[r] = "admit"} = {r \in Requests : command[r] = "admit"}
  BY <1>1
<1> QED
  BY <1>2, <1>3 DEF BurstInv

\* A step that charges nothing.
LEMMA BurstQuiet ==
    ASSUME TypeOK, VerdictInv, BurstInv, [Next]_vars,
           \A r \in Requests : ~ScriptCharge(r), ~RedisRestart
    PROVE  BurstInv'
<1>1. /\ UNCHANGED <<counter, expireAt, ledger, restarts>>
      /\ now <= now' /\ now' \in Nat
      /\ \A r \in Requests :
            /\ command'[r] = "admit" <=> command[r] = "admit"
            /\ command[r] = "admit" => scriptAt'[r] = scriptAt[r]
  BY OtherSteps
<1>2. ASSUME NEW w \in Windows PROVE KeyInv(w)' /\ OldInv(w)' /\ StretchInv(w)'
  <2>1. Charges(w)' = Charges(w) /\ \A r \in Charges(w) : scriptAt'[r] = scriptAt[r]
    BY <1>1 DEF Charges, Keys
  <2>2. KeyInv(w) /\ OldInv(w) /\ StretchInv(w)
    BY DEF BurstInv
  <2>3. ledger'[w] = ledger[w] /\ expireAt'[w] = expireAt[w] /\ counter'[w] = counter[w]
    BY <1>1
  <2> QED
    BY <1>1, <2>1, <2>2, <2>3, SameKey
<1>3. {r \in Requests : command'[r] = "admit"} = {r \in Requests : command[r] = "admit"}
  BY <1>1
<1> QED
  BY <1>2, <1>3 DEF BurstInv

\* A charge to a window of its own.  To a live key it adds its weight; otherwise it
\* opens a key, and by then the charge that opened the key before is out of every
\* stretch that reaches the new one.
LEMMA ChargedKey ==
    ASSUME TypeOK, WithinCapacity, WithinCapacity', BurstInv,
           NEW r \in Requests, ScriptCharge(r), NEW w \in Keys(r)
    PROVE  KeyInv(w)' /\ OldInv(w)' /\ StretchInv(w)'
<1> DEFINE C == Charges(w)
           L == WindowTicks(w)
           All == {q \in Requests : command[q] = "admit"}
<1>0. w \in Windows /\ KeyInv(w) /\ OldInv(w) /\ StretchInv(w) /\ IsFiniteSet(All)
  BY SettingsFacts DEF BurstInv
<1>1. /\ Charges(w)' = C \cup {r} /\ r \notin C
      /\ \A q \in C : scriptAt'[q] = scriptAt[q] /\ q # r
      /\ scriptAt'[r] = now /\ now' = now /\ restarts' = restarts
  <2>1. command[r] = "sent" /\ command' = [command EXCEPT ![r] = "admit"]
        /\ scriptAt' = [scriptAt EXCEPT ![r] = now] /\ now' = now /\ restarts' = restarts
    BY DEF ScriptCharge, Pending
  <2> QED
    BY <2>1 DEF Charges, Keys, TypeOK
<1>2. /\ C \subseteq All /\ \A q \in C : scriptAt[q] \in Int /\ 0 <= scriptAt[q] /\ scriptAt[q] <= now
      /\ now \in Nat /\ L \in Nat \ {0} /\ expireAt[w] \in Int /\ counter[w] \in Nat
      /\ Weight(r) \in Nat \ {0} /\ Capacity(w) \in Nat \ {0}
      /\ ledger[w] \subseteq C
  <2>1. C \subseteq All /\ \A q \in C : q \in Requests
    BY DEF Charges
  <2>2. /\ \A q \in C : 0 <= scriptAt[q] /\ scriptAt[q] <= now
        /\ ledger[w] \subseteq C
    BY <1>0 DEF KeyInv
  <2>3. now \in Nat /\ expireAt[w] \in Int /\ counter[w] \in Nat /\ scriptAt \in [Requests -> Int]
    BY <1>0 DEF TypeOK
  <2> QED
    BY <1>0, <2>1, <2>2, <2>3, SettingsFacts
<1>3. \A S : S \subseteq C => IsFiniteSet(S) /\ TotalWeight(S) \in Nat
  <2>1. \A S : S \subseteq C => S \in SUBSET All
    BY <1>2
  <2>2. \A S : S \subseteq C => IsFiniteSet(S)
    BY <1>0, <2>1, FS_Subset
  <2> QED
    BY <2>2, TotalWeightFacts
<1>4. ASSUME NEW S, S \subseteq C
      PROVE  /\ IsFiniteSet(S \cup {r}) /\ TotalWeight(S \cup {r}) = TotalWeight(S) + Weight(r)
  <2>1. IsFiniteSet(S) /\ IsFiniteSet({r}) /\ S \cap {r} = {}
    BY <1>1, <1>3, <1>4, FS_Singleton
  <2>2. IsFiniteSet(S \cup {r})
    BY <2>1, FS_AddElement
  <2> QED
    BY <2>1, <2>2, TotalWeightFacts
<1>5. ASSUME NEW S, S \subseteq C, NEW t \in Int
      PROVE  Within(S, scriptAt', t, w) = Within(S, scriptAt, t, w)
  BY <1>1, <1>5 DEF Within
<1> HIDE DEF C, L, All
<1>6. /\ Live(w) => /\ counter'[w] = counter[w] + Weight(r) /\ expireAt'[w] = expireAt[w]
                    /\ ledger'[w] = ledger[w] \cup {r} /\ ledger[w] # {}
      /\ ~Live(w) => /\ counter'[w] = Weight(r) /\ expireAt'[w] = now + L
                     /\ ledger'[w] = {r}
  <2>1. ledger[w] = {} => ~Live(w)
    BY <1>0, <1>2 DEF KeyInv, Live
  <2> QED
    BY <1>0, <1>2, <2>1 DEF ScriptCharge, Used, Expiry, L
<1>7. /\ Live(w) => Opened(w)' = Opened(w)
      /\ ~Live(w) => Opened(w)' = now
      /\ ledger'[w] # {} /\ Opened(w)' \in Int /\ Opened(w)' <= now
  <2>1. Live(w) => Opened(w)' = Opened(w)
    BY <1>6 DEF Opened, WindowTicks
  <2>2. ~Live(w) => Opened(w)' = now
    BY <1>2, <1>6 DEF Opened, L, WindowTicks
  <2>3. Live(w) => Opened(w) <= now /\ Opened(w) \in Int
    BY <1>0, <1>2, <1>6 DEF KeyInv, C
  <2> QED
    BY <1>2, <1>6, <2>1, <2>2, <2>3
<1>8. KeyInv(w)'
  <2>1. counter'[w] = TotalWeight(ledger'[w])
    <3>1. counter[w] = TotalWeight(ledger[w])
      BY <1>0 DEF KeyInv
    <3>2. TotalWeight(ledger[w] \cup {r}) = TotalWeight(ledger[w]) + Weight(r)
      BY <1>2, <1>4
    <3>3. TotalWeight({r}) = Weight(r)
      BY TotalWeightFacts
    <3> QED
      BY <1>6, <3>1, <3>2, <3>3
  <2>2. /\ ledger'[w] \subseteq C \cup {r}
        /\ \A q \in C \cup {r} : 0 <= scriptAt'[q] /\ scriptAt'[q] <= now
    BY <1>1, <1>2, <1>6
  <2>3. CASE Live(w)
    <3>1. /\ \A q \in ledger[w] : Opened(w) <= scriptAt[q]
          /\ \E q \in ledger[w] : scriptAt[q] = Opened(w)
          /\ \A q \in C \ ledger[w] : scriptAt[q] <= Opened(w)
      BY <1>0, <1>6, <2>3 DEF KeyInv, C
    <3>2. /\ \A q \in ledger'[w] : Opened(w)' <= scriptAt'[q]
          /\ \E q \in ledger'[w] : scriptAt'[q] = Opened(w)'
          /\ \A q \in (C \cup {r}) \ ledger'[w] : scriptAt'[q] <= Opened(w)'
      BY <1>1, <1>2, <1>6, <1>7, <2>3, <3>1
    <3> QED
      BY <1>1, <1>7, <2>1, <2>2, <3>2 DEF KeyInv, C
  <2>4. CASE ~Live(w)
    <3>1. /\ \A q \in ledger'[w] : Opened(w)' <= scriptAt'[q]
          /\ \E q \in ledger'[w] : scriptAt'[q] = Opened(w)'
          /\ \A q \in (C \cup {r}) \ ledger'[w] : scriptAt'[q] <= Opened(w)'
      BY <1>1, <1>2, <1>6, <1>7, <2>4
    <3> QED
      BY <1>1, <1>7, <2>1, <2>2, <3>1 DEF KeyInv, C
  <2> QED
    BY <2>3, <2>4
<1>9. ASSUME NEW t \in Int, t + L - 1 >= Opened(w)'
      PROVE  TotalWeight(Within((C \cup {r}) \ ledger'[w], scriptAt', t, w))
                < (1 + restarts) * Capacity(w)
  <2>1. CASE Live(w)
    <3>1. (C \cup {r}) \ ledger'[w] = C \ ledger[w]
      BY <1>1, <1>6, <2>1
    <3>2. Within(C \ ledger[w], scriptAt', t, w) = Within(C \ ledger[w], scriptAt, t, w)
      BY <1>5
    <3> QED
      BY <1>0, <1>6, <1>7, <1>9, <2>1, <3>1, <3>2 DEF OldInv, C, L
  <2>2. CASE ~Live(w)
    <3>1. (C \cup {r}) \ ledger'[w] = C /\ t + L - 1 >= now
      BY <1>1, <1>6, <1>7, <1>9, <2>2
    <3>2. Within(C, scriptAt', t, w) = Within(C, scriptAt, t, w)
      BY <1>5
    <3>3. CASE ledger[w] = {}
      <4>1. C \ ledger[w] = C
        BY <3>3
      <4> QED
        BY <1>0, <3>1, <3>2, <3>3, <4>1 DEF OldInv, C, L
    <3>4. CASE ledger[w] # {}
      <4>1. PICK o \in ledger[w] : scriptAt[o] = Opened(w)
        BY <1>0, <3>4 DEF KeyInv
      <4>2. t > Opened(w) /\ Opened(w) \in Int
        BY <1>2, <2>2, <3>1 DEF Opened, Live, L
      <4>3. Within(C, scriptAt, t, w) \subseteq ledger[w] \ {o}
        <5> SUFFICES ASSUME NEW q \in C, t <= scriptAt[q] PROVE q \in ledger[w] \ {o}
          BY DEF Within
        <5>1. ~(scriptAt[q] <= Opened(w)) /\ q # o
          BY <1>2, <4>1, <4>2
        <5> QED
          BY <1>0, <3>4, <5>1 DEF KeyInv, C
      <4>4. /\ TotalWeight(ledger[w]) = TotalWeight(ledger[w] \ {o}) + TotalWeight({o})
            /\ TotalWeight({o}) \in Nat \ {0} /\ TotalWeight(ledger[w] \ {o}) \in Nat
            /\ TotalWeight(Within(C, scriptAt, t, w)) <= TotalWeight(ledger[w] \ {o})
            /\ TotalWeight(Within(C, scriptAt, t, w)) \in Nat
        <5>1. /\ ledger[w] \ {o} \subseteq C /\ {o} \subseteq C /\ o \in Requests
              /\ (ledger[w] \ {o}) \cup {o} = ledger[w] /\ (ledger[w] \ {o}) \cap {o} = {}
              /\ Within(C, scriptAt, t, w) \subseteq C
          BY <1>2, <4>1 DEF All, Within
        <5>2. /\ IsFiniteSet(ledger[w] \ {o}) /\ IsFiniteSet({o})
              /\ TotalWeight(ledger[w] \ {o}) \in Nat
              /\ TotalWeight(Within(C, scriptAt, t, w)) \in Nat
          BY <1>3, <5>1
        <5>3. TotalWeight({o}) = Weight(o) /\ Weight(o) \in Nat \ {0}
          BY <5>1, TotalWeightFacts, SettingsFacts
        <5>4. TotalWeight(ledger[w]) = TotalWeight(ledger[w] \ {o}) + TotalWeight({o})
          BY <5>1, <5>2, TotalWeightFacts
        <5>5. TotalWeight(Within(C, scriptAt, t, w)) <= TotalWeight(ledger[w] \ {o})
          BY <4>3, <5>2, TotalWeightFacts
        <5> QED
          BY <5>2, <5>3, <5>4, <5>5
      <4>5. TotalWeight(ledger[w]) <= Capacity(w)
        BY <1>0 DEF WithinCapacity, KeyInv
      <4>6. Capacity(w) <= (1 + restarts) * Capacity(w) /\ (1 + restarts) * Capacity(w) \in Nat
        BY <1>0, Bounds
      <4> HIDE DEF All
      <4>7. TotalWeight(Within(C, scriptAt, t, w)) < Capacity(w)
        BY <1>2, <4>4, <4>5
      <4>8. Capacity(w) \in Nat /\ TotalWeight(Within(C, scriptAt, t, w)) \in Nat
        BY <1>2, <4>4
      <4>9. TotalWeight(Within(C, scriptAt, t, w)) < (1 + restarts) * Capacity(w)
        BY <4>6, <4>7, <4>8
      <4> QED
        BY <3>1, <3>2, <4>9, Zenon
    <3> QED
      BY <3>3, <3>4
  <2> QED
    BY <2>1, <2>2
<1>10. OldInv(w)'
  <2> SUFFICES ASSUME NEW t \in Int,
                      t + L - 1 >= (IF ledger'[w] = {} THEN now' ELSE Opened(w)')
               PROVE  TotalWeight(Within((C \cup {r}) \ ledger'[w], scriptAt', t, w))
                         < (1 + restarts) * Capacity(w)
    BY <1>1 DEF OldInv, Within, Capacity, WindowTicks, L
  <2> QED
    BY <1>7, <1>9
<1>11. ASSUME NEW t \in Int
       PROVE  TotalWeight(Within(C \cup {r}, scriptAt', t, w)) < (2 + restarts) * Capacity(w)
  <2>1. CASE t + L - 1 >= Opened(w)'
    <3> DEFINE old == Within((C \cup {r}) \ ledger'[w], scriptAt', t, w)
               new == Within(ledger'[w], scriptAt', t, w)
    <3>1. /\ Within(C \cup {r}, scriptAt', t, w) = old \cup new /\ old \cap new = {}
          /\ old \subseteq C \cup {r} /\ new \subseteq C \cup {r} /\ new \subseteq ledger'[w]
          /\ ledger'[w] \subseteq C \cup {r}
      BY <1>2, <1>6 DEF Within
    <3>2. /\ IsFiniteSet(old) /\ IsFiniteSet(new) /\ IsFiniteSet(ledger'[w])
      <4>1. IsFiniteSet(C \cup {r})
        BY <1>4
      <4> HIDE DEF old, new
      <4> QED
        BY <3>1, <4>1, FS_Subset
    <3>3. TotalWeight(old) < (1 + restarts) * Capacity(w)
      BY <1>9, <2>1
    <3>4. TotalWeight(ledger'[w]) <= Capacity(w)
      <4>1. counter'[w] = TotalWeight(ledger'[w])
        BY <1>8 DEF KeyInv
      <4>2. counter'[w] <= Capacity(w)
        BY <1>0 DEF WithinCapacity, Capacity
      <4> QED
        BY <4>1, <4>2
    <3> HIDE DEF old, new
    <3>5. /\ TotalWeight(old) \in Nat /\ TotalWeight(new) \in Nat /\ TotalWeight(ledger'[w]) \in Nat
          /\ TotalWeight(new) <= TotalWeight(ledger'[w])
          /\ TotalWeight(old \cup new) = TotalWeight(old) + TotalWeight(new)
      BY <3>1, <3>2, TotalWeightFacts
    <3>6. /\ (2 + restarts) * Capacity(w) = (1 + restarts) * Capacity(w) + Capacity(w)
          /\ (1 + restarts) * Capacity(w) \in Nat
      BY <1>0, Bounds
    <3>7. TotalWeight(old \cup new) < (2 + restarts) * Capacity(w)
      <4>1. Capacity(w) \in Nat
        BY <1>2
      <4> QED
        BY <3>3, <3>4, <3>5, <3>6, <4>1
    <3> QED
      BY <3>1, <3>7, Zenon
  <2>2. CASE ~(t + L - 1 >= Opened(w)')
    <3>1. ~(scriptAt'[r] <= t + L - 1)
      BY <1>1, <1>2, <1>7, <2>2
    <3>2. Within(C \cup {r}, scriptAt', t, w) = Within(C, scriptAt', t, w)
      BY <3>1 DEF Within, L
    <3>3. Within(C, scriptAt', t, w) = Within(C, scriptAt, t, w)
      BY <1>5
    <3> QED
      BY <1>0, <3>2, <3>3 DEF StretchInv, C
  <2> QED
    BY <2>1, <2>2
<1>12. StretchInv(w)'
  <2> SUFFICES ASSUME NEW t \in Int
               PROVE  TotalWeight(Within(C \cup {r}, scriptAt', t, w))
                         < (2 + restarts) * Capacity(w)
    BY <1>1 DEF StretchInv, Within, Capacity, WindowTicks
  <2> QED
    BY <1>11
<1> QED
  BY <1>8, <1>10, <1>12

\* A charge changes its own two windows only.
LEMMA BurstCharge ==
    ASSUME TypeOK, WithinCapacity, WithinCapacity', BurstInv, NEW r \in Requests, ScriptCharge(r)
    PROVE  BurstInv'
<1>1. /\ command[r] = "sent" /\ command' = [command EXCEPT ![r] = "admit"]
      /\ scriptAt' = [scriptAt EXCEPT ![r] = now] /\ now' = now /\ restarts' = restarts
      /\ now \in Nat
  BY DEF ScriptCharge, Pending, TypeOK
<1>2. ASSUME NEW w \in Windows \ Keys(r) PROVE KeyInv(w)' /\ OldInv(w)' /\ StretchInv(w)'
  <2>1. Charges(w)' = Charges(w) /\ \A q \in Charges(w) : scriptAt'[q] = scriptAt[q]
    BY <1>1, <1>2 DEF Charges, Keys, TypeOK
  <2>2. KeyInv(w) /\ OldInv(w) /\ StretchInv(w)
    BY DEF BurstInv
  <2>3. ledger'[w] = ledger[w] /\ expireAt'[w] = expireAt[w] /\ counter'[w] = counter[w]
    BY <1>2 DEF ScriptCharge, Expiry
  <2>4. now <= now' /\ now' \in Nat
    BY <1>1
  <2> QED
    BY <1>1, <2>1, <2>2, <2>3, <2>4, SameKey
<1>3. ASSUME NEW w \in Windows PROVE KeyInv(w)' /\ OldInv(w)' /\ StretchInv(w)'
  BY <1>2, ChargedKey
<1>4. {q \in Requests : command'[q] = "admit"} = {q \in Requests : command[q] = "admit"} \cup {r}
  BY <1>1 DEF TypeOK
<1>5. IsFiniteSet({q \in Requests : command'[q] = "admit"})
  BY <1>4, FS_AddElement DEF BurstInv
<1> QED
  BY <1>3, <1>5 DEF BurstInv

\* What the windows were charged, through every schedule of commands, timeouts,
\* failures and restarts.
THEOREM BurstCorrect == Spec => []BurstInv
<1>1. /\ TypeOK /\ VerdictInv /\ WithinCapacity /\ WithinCapacity' /\ BurstInv
      /\ [Next]_vars
      => BurstInv'
  <2> SUFFICES ASSUME TypeOK, VerdictInv, WithinCapacity, WithinCapacity', BurstInv, [Next]_vars
               PROVE  BurstInv'
    OBVIOUS
  <2>1. CASE \E r \in Requests : ScriptCharge(r)
    BY <2>1, BurstCharge
  <2>2. CASE RedisRestart
    BY <2>2, BurstRestart
  <2>3. CASE (\A r \in Requests : ~ScriptCharge(r)) /\ ~RedisRestart
    BY <2>3, BurstQuiet
  <2> QED
    BY <2>1, <2>2, <2>3
<1> QED
  BY <1>1, BurstStart, TypeCorrect, VerdictCorrect, CapacityRespected, PTL DEF Spec

\* A window's counter is exactly the weight of the requests charged to its present
\* key: no lost reply, timeout or late execution charges twice or loses a charge.
THEOREM LedgerProved == Spec => []LedgerExact
<1>1. BurstInv => LedgerExact
  BY DEF BurstInv, KeyInv, LedgerExact
<1> QED
  BY <1>1, BurstCorrect, PTL

\* A stretch of one window length never sees two capacities charged, and one more
\* per restart of Redis: the script's fixed windows start at their first charge.
THEOREM BurstProved == Spec => []BurstBound
<1>1. TypeOK /\ BurstInv => BurstBound
  <2> SUFFICES ASSUME TypeOK, BurstInv, NEW w \in Windows, NEW t \in 0 .. now
               PROVE  TotalWeight(ChargedFrom(w, t)) < (2 + restarts) * Capacity(w)
    BY DEF BurstBound
  <2>1. t \in Int /\ WindowTicks(w) \in Int /\ scriptAt \in [Requests -> Int]
    BY SettingsFacts DEF TypeOK
  <2>2. ChargedFrom(w, t) = Within(Charges(w), scriptAt, t, w)
    BY <2>1 DEF ChargedFrom, Within, Charges
  <2> QED
    BY <2>1, <2>2 DEF BurstInv, StretchInv
<1> QED
  BY <1>1, BurstCorrect, TypeCorrect, PTL
=============================================================================
