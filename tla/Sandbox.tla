------------------------------ MODULE Sandbox ------------------------------
(***************************************************************************)
(* DockerPythonSandbox.evaluate (evaluation/sandbox.py): one candidate in  *)
(* one named container.  The coroutine starts the docker client, waits for *)
(* it with a timeout, and removes the container by a second client,        *)
(* "docker rm -f".  The container is the daemon's: killing the client does *)
(* not stop it.  It goes away when its program ends (--rm) or when it is   *)
(* removed; a candidate's program may never end.                           *)
(***************************************************************************)
EXTENDS Naturals

CONSTANT MaxCancels    \* bound on the cancellations of the coroutine

SandboxAssumption == MaxCancels \in Nat

VARIABLES
    pc,        \* "spawn", "wait", "reap", "handler", "finally" or "done"
    after,     \* what the clean-up is followed by
    result,    \* what evaluate returned, or "raised"
    client,    \* the docker client; "reaped" when its returncode is known
    code,      \* how the client ended
    container, \* "absent", "running" or "gone"
    orphan,    \* an abandoned "docker rm -f" is still at work
    ran,       \* history: the candidate's container was started
    rmFailed,  \* history: a removal failed or took too long
    hit,       \* history: the places where a cancellation struck
    cancels

docker == <<client, code, container, orphan, ran>>
vars == <<pc, after, result, docker, rmFailed, hit, cancels>>

\* How a container can end: the harness prints a verdict or something that is
\* no verdict, prints too much, or is killed (exit codes 137 and 139).
Endings == {"passed", "failed", "malformed", "flood", "killed"}

\* The client ends without a container: no daemon, no image, or otherwise.
StartFailures == {"daemon", "image", "other"}

Init ==
    /\ pc = "spawn"
    /\ after = "none"
    /\ result = "none"
    /\ client = "none"
    /\ code = "none"
    /\ container = "absent"
    /\ orphan = FALSE
    /\ ran = FALSE
    /\ rmFailed = FALSE
    /\ hit = {}
    /\ cancels = 0

-----------------------------------------------------------------------------
(* Docker and the operating system.                                        *)

\* The client's process exists before the coroutine resumes.
Fork ==
    /\ pc = "spawn"
    /\ client = "none"
    /\ client' = "running"
    /\ UNCHANGED <<pc, after, result, code, container, orphan, ran, rmFailed, hit,
                   cancels>>

ContainerStarts ==
    /\ client = "running"
    /\ container = "absent"
    /\ code = "none"
    /\ container' = "running"
    /\ ran' = TRUE
    /\ UNCHANGED <<pc, after, result, client, code, orphan, rmFailed, hit, cancels>>

StartFails ==
    /\ client = "running"
    /\ container = "absent"
    /\ client' = "dead"
    /\ code' \in StartFailures
    /\ UNCHANGED <<pc, after, result, container, orphan, ran, rmFailed, hit, cancels>>

\* The program in the container ends; a client still attached ends with it.
ContainerEnds ==
    /\ container = "running"
    /\ container' = "gone"
    /\ IF client = "running"
         THEN client' = "dead" /\ code' \in Endings
         ELSE UNCHANGED <<client, code>>
    /\ UNCHANGED <<pc, after, result, orphan, ran, rmFailed, hit, cancels>>

\* The event loop learns of the client's end: its returncode is set.
Reap ==
    /\ client = "dead"
    /\ client' = "reaped"
    /\ UNCHANGED <<pc, after, result, code, container, orphan, ran, rmFailed, hit,
                   cancels>>

\* An abandoned "docker rm -f" gets to the daemon, or does not.
OrphanEnds ==
    /\ orphan
    /\ orphan' = FALSE
    /\ container' \in {container, "gone"}
    /\ rmFailed' = (rmFailed \/ container' = "running")
    /\ UNCHANGED <<pc, after, result, client, code, ran, hit, cancels>>

-----------------------------------------------------------------------------
(* The coroutine.                                                          *)

SpawnFails ==
    /\ pc = "spawn"
    /\ client = "none"
    /\ pc' = "done"
    /\ result' = "infrastructure"
    /\ UNCHANGED <<after, docker, rmFailed, hit, cancels>>

Spawned ==
    /\ pc = "spawn"
    /\ client # "none"
    /\ pc' = "wait"
    /\ UNCHANGED <<after, result, docker, rmFailed, hit, cancels>>

\* process.kill() on a client that has not been reaped.
Kill ==
    IF client = "running" THEN client' = "dead" /\ code' = "other"
                          ELSE UNCHANGED <<client, code>>

\* The handler kills and goes on.  On a reaped client, process.kill() raises
\* ProcessLookupError, which leaves the handler for the finally clause.
KillThen(place, outcome) ==
    IF client = "reaped"
      THEN /\ pc' = "finally"
           /\ after' = "error"
           /\ UNCHANGED <<client, code>>
      ELSE /\ pc' = place
           /\ after' = outcome
           /\ Kill

Communicated ==
    /\ pc = "wait"
    /\ client = "reaped"
    /\ pc' = "finally"
    /\ after' = "read"
    /\ UNCHANGED <<result, docker, rmFailed, hit, cancels>>

WaitTimeout ==
    /\ pc = "wait"
    /\ KillThen("reap", "timeout")
    /\ UNCHANGED <<result, container, orphan, ran, rmFailed, hit, cancels>>

WaitFails ==
    /\ pc = "wait"
    /\ KillThen("handler", "infrastructure")
    /\ UNCHANGED <<result, container, orphan, ran, rmFailed, hit, cancels>>

\* The client is reaped, or has not been for a second.
ReapReturns ==
    /\ pc = "reap"
    /\ pc' = "handler"
    /\ UNCHANGED <<after, result, docker, rmFailed, hit, cancels>>

Classify_RawExit(outcome) ==
    CASE outcome = "read" -> code
      [] outcome = "timeout" -> "timeout"
      [] outcome \in {"cancelled", "error"} -> "raised"
      [] OTHER -> "infrastructure"

\* What evaluate makes of the client's output and exit code.
Classify(outcome) ==
    CASE outcome = "read" /\ code = "flood" -> "output_limit"
      [] outcome = "read" /\ code \in {"passed", "failed"} -> code
      [] outcome = "read" /\ code = "killed" -> "runtime_exception"
      [] outcome = "timeout" -> "timeout"
      [] outcome \in {"cancelled", "error"} -> "raised"
      [] OTHER -> "infrastructure"

\* The try statement is left: through the clean-up of the finally clause if
\* the returncode is known, and with the outcome otherwise.
Leave(outcome) ==
    IF pc # "finally" /\ client = "reaped"
      THEN pc' = "finally" /\ after' = outcome /\ UNCHANGED result
      ELSE pc' = "done" /\ after' = outcome /\ result' = Classify(outcome)

\* _remove ends: the container is removed, if there is one ...
Removed ==
    /\ pc \in {"handler", "finally"}
    /\ container' = IF container = "running" THEN "gone" ELSE container
    /\ Leave(after)
    /\ UNCHANGED <<client, code, orphan, ran, rmFailed, hit, cancels>>

\* ... or docker cannot be started, or does not end within two seconds.
RemoveFails ==
    /\ pc \in {"handler", "finally"}
    /\ rmFailed' = TRUE
    /\ Leave(after)
    /\ UNCHANGED <<docker, hit, cancels>>

CancelWait_NoRemoval ==
    /\ pc' = "done"
    /\ after' = "cancelled"
    /\ result' = "raised"
    /\ Kill

\* except CancelledError: kill, remove and raise.
CancelWait ==
    /\ KillThen("handler", "cancelled")
    /\ UNCHANGED result

\* Creating the subprocess is cancelled: asyncio closes it, which kills it.
CancelSpawn ==
    /\ pc' = "done"
    /\ after' = "cancelled"
    /\ result' = "raised"
    /\ Kill

Cancel ==
    /\ cancels < MaxCancels
    /\ cancels' = cancels + 1
    /\ hit' = hit \union {pc}
    /\ \/ pc = "spawn" /\ CancelSpawn /\ UNCHANGED orphan
       \/ pc = "wait" /\ CancelWait /\ UNCHANGED orphan
       \/ /\ pc = "reap"
          /\ Leave("cancelled")
          /\ UNCHANGED <<client, code, orphan>>
       \/ /\ pc \in {"handler", "finally"}
          /\ orphan' = TRUE
          /\ Leave("cancelled")
          /\ UNCHANGED <<client, code>>
    /\ UNCHANGED <<container, ran, rmFailed>>

-----------------------------------------------------------------------------
\* The steps that an event or an expired timer brings about.
Timed ==
    \/ SpawnFails \/ Spawned \/ Communicated \/ WaitTimeout
    \/ ReapReturns \/ Removed \/ RemoveFails

Coroutine == Timed \/ WaitFails

Environment ==
    \/ Fork \/ ContainerStarts \/ StartFails \/ ContainerEnds \/ Reap \/ OrphanEnds

\* evaluate has ended; the daemon may still be busy, or never.
Done == pc = "done" /\ UNCHANGED vars

Next == Coroutine \/ Environment \/ Cancel \/ Done

Spec == Init /\ [][Next]_vars

\* The operating system forks, or refuses to, and the event loop runs expired
\* timers and ready coroutines.  Nothing is assumed of the daemon, of the
\* candidate's program or of the client, and no I/O error is counted on.
FairSpec == Spec /\ WF_vars(Timed)

-----------------------------------------------------------------------------
(* Properties.                                                             *)

Scored == {"passed", "failed", "timeout", "output_limit", "runtime_exception"}

\* Every variable keeps its type.
TypeOK ==
    /\ pc \in {"spawn", "wait", "reap", "handler", "finally", "done"}
    /\ after \in {"none", "read", "timeout", "infrastructure", "cancelled", "error"}
    /\ result \in Scored \union {"none", "infrastructure", "raised"}
    /\ client \in {"none", "running", "dead", "reaped"}
    /\ code \in Endings \union StartFailures \union {"none"}
    /\ container \in {"absent", "running", "gone"}
    /\ orphan \in BOOLEAN /\ ran \in BOOLEAN /\ rmFailed \in BOOLEAN
    /\ hit \subseteq {"spawn", "wait", "reap", "handler", "finally"}
    /\ cancels \in 0..MaxCancels

\* When evaluate has ended with its removals successful, and no cancellation
\* struck while the client was being started or reaped, no container of it
\* runs on, whatever the candidate does (sandbox.py 257-281).
NoContainerLeft ==
    pc = "done" /\ ~rmFailed /\ ~orphan /\ hit \intersect {"spawn", "reap"} = {}
        => container # "running"

\* A candidate that was scored, other than by the wall clock, was really run:
\* failures of docker are not held against it (sandbox.py 282-303).
ScoredMeansRan ==
    result \in Scored \ {"timeout"} => ran

\* What evaluate leaves behind and what it reports are true of the container.
OutcomeIsHonest == NoContainerLeft /\ ScoredMeansRan

\* evaluate ends, even if the candidate or the daemon never does.
EvaluateEnds == <>(pc = "done")

\* README.md: "The container is named and forcibly removed after normal
\* completion, failure, timeout, or cancellation."  A cancellation that
\* arrives while the timeout handler waits for the killed client leaves the
\* handler with an unknown returncode, and nothing is removed
\* (sandbox.py 263, 280).
RemovedAfterTimeoutOrCancellation ==
    pc = "done" /\ ~rmFailed /\ ~orphan /\ "spawn" \notin hit
        => container # "running"
=============================================================================
