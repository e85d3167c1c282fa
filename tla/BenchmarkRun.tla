---------------------------- MODULE BenchmarkRun ----------------------------
(***************************************************************************)
(* One benchmark run: BenchmarkRunner.run (benchmarks/runner.py) calls the *)
(* inference service for every task-model pair, in order, and keeps the    *)
(* artifacts in a FileBenchmarkRepository (benchmarks/repository.py).      *)
(*                                                                         *)
(* Each repository operation is a job in a worker thread (to_thread) that  *)
(* the runner awaits.  A cancellation of the runner ends the await, not    *)
(* the thread: a job that has started publishes its file later, while the  *)
(* runner already handles the cancellation.  A crash stops everything; the *)
(* files stay.  A file is published by an atomic replace, so each one is   *)
(* either absent or whole.                                                 *)
(***************************************************************************)
EXTENDS Naturals

CONSTANTS
    N,            \* the selected pairs are 1..N, in the order they are tried
    MaxCancels    \* bound on the cancellations of the runner

ASSUME PairsAssumption == N \in Nat \ {0}
ASSUME CancelsAssumption == MaxCancels \in Nat

VARIABLES
    pc,         \* where the coroutine is
    pos,        \* the pair it is at; N + 1 after the last one
    awaited,    \* the job it awaits, or NoJob
    reply,      \* what that job left for it: "none", "ok" or "failed"
    jobs,       \* the jobs queued or running in worker threads
    manifest,   \* manifest.json exists
    status,     \* what status.json says; "none" when it does not exist
    results,    \* per pair, the number of its files under results/
    called,     \* per pair, the number of calls of the service
    cancels,    \* history: cancellations so far
    diskFailed, \* history: some job failed
    cause       \* history: why the loop over the pairs was left early

runner == <<pc, pos, awaited, reply>>
disk == <<manifest, status, results>>
history == <<cancels, diskFailed, cause>>
vars == <<runner, jobs, disk, called, history>>

Pairs == 1..N

NoJob == [op |-> "none", pair |-> 0]
Start == [op |-> "start", pair |-> 0]
Record(p) == [op |-> "record", pair |-> p]
Finish(s) == [op |-> s, pair |-> 0]
Operations ==
    {Start, Finish("completed"), Finish("aborted")} \union {Record(p) : p \in Pairs}

\* A job's phase: queued, started, or (start only) the manifest written.
Phases == {"queued", "started", "manifested"}

Job(operation) == [operation |-> operation, phase |-> "queued"]

Ended == {"refused", "returned", "raised", "crashed"}

Init ==
    /\ pc = "new"
    /\ pos = 1
    /\ awaited = NoJob
    /\ reply = "none"
    /\ jobs = {}
    /\ manifest = FALSE
    /\ status = "none"
    /\ results = [p \in Pairs |-> 0]
    /\ called = [p \in Pairs |-> 0]
    /\ cancels = 0
    /\ diskFailed = FALSE
    /\ cause = "none"

-----------------------------------------------------------------------------
(* The runner.                                                             *)

\* await asyncio.to_thread(...): submit the job and wait for it.
Await(operation) ==
    /\ jobs' = jobs \union {Job(operation)}
    /\ awaited' = operation
    /\ reply' = "none"

\* The selection, an override or a configuration is invalid: no artifacts.
Refuse ==
    /\ pc = "new"
    /\ pc' = "refused"
    /\ UNCHANGED <<pos, awaited, reply, jobs, disk, called, history>>

\* The run is built and frozen, then its storage is created.
Submit ==
    /\ pc = "new"
    /\ pc' = "starting"
    /\ Await(Start)
    /\ UNCHANGED <<pos, disk, called, history>>

\* except BaseException: mark the run and raise.
AbortBecause(why) ==
    /\ pc' = "aborting"
    /\ cause' = why
    /\ Await(Finish("aborted"))
    /\ UNCHANGED pos

\* start is awaited before the try block: its failure marks nothing.
StartRaises ==
    /\ pc' = "raised"
    /\ awaited' = NoJob
    /\ reply' = "none"
    /\ UNCHANGED <<pos, jobs, cause>>

StartReturns ==
    /\ pc = "starting"
    /\ \/ /\ reply = "ok"
          /\ pc' = "call"
          /\ awaited' = NoJob
          /\ reply' = "none"
          /\ UNCHANGED <<pos, jobs, cause>>
       \/ /\ reply = "failed"
          /\ StartRaises
    /\ UNCHANGED <<disk, called, cancels, diskFailed>>

\* service.generate is entered for the pair.
Generate ==
    /\ pc = "call"
    /\ called' = [called EXCEPT ![pos] = @ + 1]
    /\ pc' = "calling"
    /\ UNCHANGED <<pos, awaited, reply, jobs, disk, history>>

\* A response, or an error the runner catches, becomes the pair's result.
CallAnswered ==
    /\ pc = "calling"
    /\ pc' = "recording"
    /\ Await(Record(pos))
    /\ UNCHANGED <<pos, disk, called, history>>

\* InferenceDeadlineExceededError is not among the errors caught per call.
CallDeadlineExceeded ==
    /\ pc = "calling"
    /\ AbortBecause("deadline")
    /\ UNCHANGED <<disk, called, cancels, diskFailed>>

NextPair_OneShort ==
    /\ pos' = pos + 1
    /\ IF pos + 1 < N
         THEN /\ pc' = "call"
              /\ awaited' = NoJob
              /\ reply' = "none"
              /\ UNCHANGED jobs
         ELSE /\ pc' = "completing"
              /\ Await(Finish("completed"))
    /\ UNCHANGED cause

\* On to the next pair, or to the completion of the run.
NextPair ==
    /\ pos' = pos + 1
    /\ IF pos < N
         THEN /\ pc' = "call"
              /\ awaited' = NoJob
              /\ reply' = "none"
              /\ UNCHANGED jobs
         ELSE /\ pc' = "completing"
              /\ Await(Finish("completed"))
    /\ UNCHANGED cause

RecordFails_Ignored == NextPair

\* A storage failure aborts rather than continuing paid work.
RecordFails == AbortBecause("storage")

RecordReturns ==
    /\ pc = "recording"
    /\ \/ reply = "ok" /\ NextPair
       \/ reply = "failed" /\ RecordFails
    /\ UNCHANGED <<disk, called, cancels, diskFailed>>

\* finish("completed") is inside the try: its failure aborts the run.
CompletedReturns ==
    /\ pc = "completing"
    /\ \/ /\ reply = "ok"
          /\ pc' = "returned"
          /\ awaited' = NoJob
          /\ reply' = "none"
          /\ UNCHANGED <<pos, jobs, cause>>
       \/ /\ reply = "failed"
          /\ AbortBecause("storage")
    /\ UNCHANGED <<disk, called, cancels, diskFailed>>

AbortedReturns_UntilStored ==
    /\ pc = "aborting"
    /\ \/ /\ reply = "ok"
          /\ pc' = "raised"
          /\ awaited' = NoJob
          /\ reply' = "none"
          /\ UNCHANGED jobs
       \/ /\ reply = "failed"
          /\ Await(Finish("aborted"))
          /\ UNCHANGED pc
    /\ UNCHANGED <<pos, disk, called, history>>

\* raise: the first exception, or the one finish("aborted") ended with.
AbortedReturns ==
    /\ pc = "aborting"
    /\ reply # "none"
    /\ pc' = "raised"
    /\ awaited' = NoJob
    /\ reply' = "none"
    /\ UNCHANGED <<pos, jobs, disk, called, history>>

CancelCalling_ExceptException ==
    /\ pc' = "raised"
    /\ cause' = "cancelled"
    /\ UNCHANGED <<pos, awaited, reply, jobs>>

\* What the runner does with a cancellation at its await.
CancelCalling == AbortBecause("cancelled")

\* A cancelled await abandons its job: one that no thread has taken up is
\* withdrawn, a started one runs on, and what it left is not seen.
Withdraw(abandoned) == jobs \ {Job(abandoned)}

CancelAwait ==
    /\ pc' = "aborting"
    /\ cause' = "cancelled"
    /\ jobs' = Withdraw(awaited) \union {Job(Finish("aborted"))}
    /\ awaited' = Finish("aborted")
    /\ reply' = "none"
    /\ UNCHANGED pos

\* Outside the try block, or in the handler: the cancellation is raised.
CancelRaises ==
    /\ pc' = "raised"
    /\ jobs' = Withdraw(awaited)
    /\ awaited' = NoJob
    /\ reply' = "none"
    /\ UNCHANGED <<pos, cause>>

\* The runner's task is cancelled while it waits.
Cancel ==
    /\ cancels < MaxCancels
    /\ cancels' = cancels + 1
    /\ \/ pc \in {"starting", "aborting"} /\ CancelRaises
       \/ pc = "calling" /\ CancelCalling
       \/ pc \in {"recording", "completing"} /\ CancelAwait
    /\ UNCHANGED <<disk, called, diskFailed>>

-----------------------------------------------------------------------------
(* The worker threads.                                                     *)

\* The awaiting runner sees how its job ended; nobody else does.
Report(operation, outcome) ==
    reply' = IF awaited = operation THEN outcome ELSE reply

\* A worker takes a job up; _start makes the directories.
Take(j) ==
    /\ j.phase = "queued"
    /\ jobs' = (jobs \ {j}) \union {[j EXCEPT !.phase = "started"]}
    /\ UNCHANGED <<runner, disk, called, history>>

\* _start publishes the manifest, then the status.
WriteManifest(j) ==
    /\ j.operation = Start
    /\ j.phase = "started"
    /\ manifest' = TRUE
    /\ jobs' = (jobs \ {j}) \union {[j EXCEPT !.phase = "manifested"]}
    /\ UNCHANGED <<runner, status, results, called, history>>

WriteRunning(j) ==
    /\ j.operation = Start
    /\ j.phase = "manifested"
    /\ status' = "running"
    /\ jobs' = jobs \ {j}
    /\ Report(Start, "ok")
    /\ UNCHANGED <<pc, pos, awaited, manifest, results, called, history>>

WriteResult(j) ==
    /\ j.operation.op = "record"
    /\ j.phase = "started"
    /\ results' = [results EXCEPT ![j.operation.pair] = @ + 1]
    /\ jobs' = jobs \ {j}
    /\ Report(j.operation, "ok")
    /\ UNCHANGED <<pc, pos, awaited, manifest, status, called, history>>

WriteStatus(j) ==
    /\ j.operation.op \in {"completed", "aborted"}
    /\ j.phase = "started"
    /\ status' = j.operation.op
    /\ jobs' = jobs \ {j}
    /\ Report(j.operation, "ok")
    /\ UNCHANGED <<pc, pos, awaited, manifest, results, called, history>>

\* A directory or a file cannot be written: nothing is published.
WriteFails(j) ==
    /\ j.phase # "queued"
    /\ jobs' = jobs \ {j}
    /\ diskFailed' = TRUE
    /\ Report(j.operation, "failed")
    /\ UNCHANGED <<pc, pos, awaited, disk, called, cancels, cause>>

\* The process dies, its threads with it; the files stay.
Crash ==
    /\ pc \notin {"refused", "crashed"}
    /\ pc \in Ended => jobs # {}
    /\ pc' = "crashed"
    /\ jobs' = {}
    /\ awaited' = NoJob
    /\ reply' = "none"
    /\ UNCHANGED <<pos, disk, called, history>>

-----------------------------------------------------------------------------
Runner ==
    \/ Refuse \/ Submit \/ StartReturns \/ Generate
    \/ CallAnswered \/ CallDeadlineExceeded
    \/ RecordReturns \/ CompletedReturns \/ AbortedReturns

Worker(j) ==
    \/ Take(j)
    \/ WriteManifest(j) \/ WriteRunning(j)
    \/ WriteResult(j) \/ WriteStatus(j)
    \/ WriteFails(j)

Workers == \E j \in jobs : Worker(j)

\* The process is over: nothing is left to run.
Done ==
    /\ pc \in Ended
    /\ jobs = {}
    /\ UNCHANGED vars

Next == Runner \/ Cancel \/ Workers \/ Crash \/ Done

Spec == Init /\ [][Next]_vars

\* The event loop resumes a coroutine whose await ended, the service's
\* deadline ends every call, and a file operation ends: no step of the
\* runner or of its threads is put off for ever.
FairSpec == Spec /\ WF_vars(Runner) /\ WF_vars(Workers)

-----------------------------------------------------------------------------
(* Properties.                                                             *)

\* Every variable keeps its type.
TypeOK ==
    /\ pc \in {"new", "starting", "call", "calling", "recording",
               "completing", "aborting"} \union Ended
    /\ pos \in 1..(N + 1)
    /\ awaited \in Operations \union {NoJob}
    /\ reply \in {"none", "ok", "failed"}
    /\ jobs \subseteq [operation : Operations, phase : Phases]
    /\ manifest \in BOOLEAN
    /\ status \in {"none", "running", "completed", "aborted"}
    /\ results \in [Pairs -> Nat]
    /\ called \in [Pairs -> Nat]
    /\ cancels \in 0..MaxCancels
    /\ diskFailed \in BOOLEAN
    /\ cause \in {"none", "deadline", "storage", "cancelled"}

\* status.json says "completed" only when every pair has been called once
\* and has exactly one result file, whatever threads were abandoned and
\* wherever the process stopped (runner.py 118-157).
CompletedMeansAllPairs ==
    status = "completed" =>
        \A p \in Pairs : called[p] = 1 /\ results[p] = 1

\* The results on disk are those of the first pairs, each once, and at most
\* one call's result is ever missing: a crash, a cancellation or a storage
\* failure loses one paid answer and no more (runner.py 155-156).
AtMostOneLost ==
    /\ \A p \in Pairs : results[p] <= called[p] /\ called[p] <= 1
    /\ \A p, q \in Pairs : p < q /\ called[q] = 1 => results[p] = 1

\* No call is paid for before the manifest and the status are on disk
\* (runner.py 117).
StorageBeforeCalls ==
    (\E p \in Pairs : called[p] > 0) => manifest /\ status # "none"

\* A run that called the service and ended in order is not left as "running"
\* when every write succeeded and the marking itself was not interrupted: the
\* handler marks runs that a cancellation ended, too.  A run that returned is
\* marked as completed (runner.py 157-161).
OrderlyEndIsMarked ==
    /\ pc \in {"returned", "raised"}
    /\ jobs = {}
    /\ cancels = 0 \/ (cancels = 1 /\ cause = "cancelled")
    /\ ~diskFailed
    /\ \E p \in Pairs : called[p] > 0
    => status \in IF pc = "returned" THEN {"completed"} ELSE {"completed", "aborted"}

\* status.json tells what became of the run: it exists before the first paid
\* call, and an orderly end is marked in it.
StatusTellsTheRun == StorageBeforeCalls /\ OrderlyEndIsMarked

\* status.json never goes back to "running", not even by the late write of an
\* abandoned thread (repository.py 40-45, runner.py 117).
NeverRunningAgain ==
    [][status # "none" /\ status # "running" => status' # "running"]_vars

\* The run ends and so do its threads (FairSpec).
Ends == <>(pc \in Ended /\ jobs = {})

\* README.md: "Storage failure stops further work; call failures are recorded
\* and remaining pairs proceed": only a storage failure or a cancellation
\* aborts a run.  A call that exceeds the service's deadline aborts it too
\* (runner.py 145, 158-160).
AbortsOnlyForStorageOrCancellation ==
    status = "aborted" => diskFailed \/ cancels > 0
=============================================================================
