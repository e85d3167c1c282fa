# Formal model of the Adaptive LLM Gateway (RouteLLM)

This directory holds a TLA+ model of the gateway under `src/src/adaptive_llm_gateway`,
the TLC configurations that check it on small instances, and TLAPS proofs of its
most important invariants. Paths below are relative to that package.

## 1. Inventory

| Component | State | Operations | Interacts with |
|---|---|---|---|
| Admission (`rate_limit.py`) | two Redis counters with expiry per client and deployment | `admit`, `ready` | Redis by one Lua script, the request deadline |
| Deadline (`request_deadline.py`) | one monotonic end point per request | `remaining_seconds`, `expired`, `constrain_timeout` | everything below |
| Explicit inference (`application/service.py`) | none of its own; registry, resolver, telemetry sink | `generate` | provider, telemetry, metrics |
| Adaptive inference (`application/adaptive.py`) | the attempts of one request | `generate`, with or without a validation contract | routing, explicit inference, validator, telemetry, metrics |
| Routing (`routing/policy.py`, `routing/service.py`) | none | `route`, `route_with_snapshot` | predictor, pricing |
| Validator (`validation/validator.py`) | none | `validate` | pure |
| Chat (`application/chat.py`) | none | `generate` | explicit or adaptive inference, activity row |
| Telemetry (`persistence/`, `telemetry/`) | three tables | three inserts, summary, activity page | PostgreSQL |
| Metrics (`observability.py`) | counters, one gauge | one method per event, never raises | everything |
| HTTP (`api/`) | `app.state`, in-progress gauge | the routes, middleware, error map | all of the above |
| Lifespan (`runtime.py`, `bootstrap.py`) | HTTP client, database engine, Redis client | startup, shutdown | all of the above |
| Providers (`providers/`) | shared HTTP client | `generate_with_timeout` | the upstream gateway |
| Benchmarks (`benchmarks/runner.py`, `repository.py`) | a directory of JSON files per run | `run`; `start`, `record`, `finish` | explicit inference, file system |
| Paid gates (`benchmarks/__main__.py`, `routing_benchmark_v1.py`, `execution_readiness.py`) | none; frozen files on disk | three paid commands, two dry runs | benchmark data, runner, evaluation |
| Evaluation (`evaluation/service.py`, `repository.py`, `aggregation.py`) | evaluation files and a summary per run | `evaluate`, `summary` | benchmark files, sandbox, judges |
| Judges and evaluators (`evaluation/judge.py`, `hybrid_judge.py`, `evaluators.py`) | none | one verdict per stored result | inference service, evaluation |
| Sandbox (`evaluation/sandbox.py`) | one container per evaluation | `evaluate` | Docker |
| Routing export (`benchmarks/routing_export.py`) | one dataset file | export | evaluation files |
| Predictor artifact (`routing/predictor.py`, `train_predictor.py`) | two files | write, load with checks, predict | adaptive inference |
| Offline studies (`routing/ml_*.py`, `analysis.py`, `calibration_analysis.py`, `phase9_retraining.py`) | datasets in memory | folds, out-of-fold prediction, calibration, policies, summaries | routing export, predictor artifact |
| Feature extraction, benchmark texts, frontend | - | - | not part of the protocol |

**What is hard here.** The request is a coroutine that reads one clock at many
places and awaits things that may never answer. Redis executes commands whose
callers have given up, and forgets everything on restart. A paid completion may
arrive as an exception. Telemetry may fail at any write, after its commit too.
Escalation spends money on a decision taken before the first call. Rows get
their time when they are built and become visible when they commit. Files are
replaced atomically one by one, but artifacts, evaluations and protocols are
several files. A study can leak the labels it judges itself by. The hazards
are listed one by one, with their lines, in `PROJECT.json`.

**What makes the components correct.**
- Admission: the two windows are never overfilled and never partly charged; the
  caller's answer agrees with the charge; Retry-After is long enough; `admit`
  always returns.
- Inference: a request ends; money is spent only where routing and validation
  allow; what is returned was accepted; every provider call is counted once;
  metrics, rows and the caller's answer agree; telemetry never decides the answer.
- Routing: the cheapest candidate that meets the threshold, a deterministic
  fallback, independent of listing order, never from a malformed prediction.
- Gateway: the in-progress gauge returns to zero; the answer, the activity row and
  the result of the execution tell the same story; a row that is lost is counted
  and changes nothing else; every request is answered.
- Activity feed: a walk through the pages shows everything that was there when it
  began, nothing twice, newest first; an identifier has one row.
- Process: whatever fails at startup or shutdown, nothing is left open; it serves
  only when complete; a ready answer is never older than its own ping, although the
  handler awaits Redis after it has read its flags.
- Provider calls: what was paid for is billed, what is returned is usable, the
  upstream's status is never passed on as the gateway's own.
- Predictor artifact: what serves is a matching, approved pair of files; a loaded
  predictor does not refuse a task it was approved for.
- Benchmarks: a run marked completed holds one result per task and model; no
  paid work goes on when results are being lost.
- Paid gates: no paid call without consent; a protocol pins the dataset, the pricing
  evidence and the configuration of the models it lists; a family that the split
  manifest holds out opens only through its gate; "ready" means frozen.
- Evaluation: an undisturbed evaluation leaves files and summary in agreement;
  rates are over what was judged, the candidates' reported cost is a lower bound; a
  label in the exported dataset was earned; an accepted summary is grounded in its
  source; full marks mean that the values correspond.
- Studies: folds balanced, no prediction from its own label, policies bounded by
  the oracle and equal to what the service would decide.

## 2. Modules

| Module | Models | Kind |
|---|---|---|
| `RateLimiter` | `RedisRateLimiter.admit`, its script, Redis, the callers | state machine |
| `RateLimiterProofs` | theorems about `RateLimiter` | proofs |
| `Routing` | policy, decision service, escalation order | operators |
| `RoutingRequests` | every question over small scales asked of `Routing` | state machine |
| `RoutingLemmas` | lemmas about `Routing`, orders, sums and shelves | proofs |
| `EscalationLadder` | what an inference request promises about the models it asks | abstract specification |
| `AdaptiveInference` | one request through both inference services; implements `EscalationLadder` | state machine |
| `AdaptiveInferenceProofs` | theorems about `AdaptiveInference` | proofs |
| `ChatGateway` | concurrent requests through middleware, admission, chat orchestration | state machine |
| `ChatGatewayProofs` | theorems about `ChatGateway` | proofs |
| `ErrorSurface` | exceptions to HTTP answers | operators |
| `ProviderCalls` | one call from registry through adapter to event and answer | state machine |
| `ActivityTable` | the `chat_activity` table: insert and page query | operators |
| `ActivityFeed` | chats that write rows while a client reads the pages | state machine |
| `Lifespan` | startup, shutdown and readiness of the process | state machine |
| `PredictorArtifact` | builders of the two files and the application that loads them | state machine |
| `BenchmarkRun` | `BenchmarkRunner.run`, its file repository, their worker threads | state machine |
| `Sandbox` | `DockerPythonSandbox.evaluate`, the docker clients, the container | state machine |
| `Judging` | scoring and verdicts of both judges and of `EvaluationResult` | operators |
| `SummaryJudging` | one stored summary through checks, judge call and scoring | state machine |
| `StaticScoring` | the extraction and JSON evaluators over documents of two levels | state machine |
| `EvaluationRuns` | evaluators and exporter over the files of one run | state machine |
| `PaidExecution` | the gates of the three paid commands | state machine |
| `PilotReadiness` | the two dry runs | state machine |
| `GroupedFolds` | folds, out-of-fold prediction, cross-fitted calibration | state machine |
| `OfflinePolicies` | policies, oracles, summaries, dominance, frontiers | operators over a changing dataset |
| `MCRateLimiter`, `MCAdaptiveInference` | settings, registries, prices, predictions | for TLC |
| `MCService` | an inference request (it extends `MCAdaptiveInference`), `ActivityFeed`, `Lifespan`, `ProviderCalls`, and `RateLimiter` with a Redis that may never answer | for TLC |
| `ServiceProofs` | theorems about the parts of `MCService` | proofs |
| `MCEvaluation` | `BenchmarkRun`, `Sandbox`, `EvaluationRuns` | for TLC |
| `EvaluationProofs` | theorems about the parts of `MCEvaluation` | proofs |
| `MCOffline` | `RoutingRequests` (which it extends), `GroupedFolds`, `OfflinePolicies`, `PredictorArtifact`, `PaidExecution`, `PilotReadiness`, `SummaryJudging`, `StaticScoring` | for TLC |
| `BenchmarkChecksProofs` | theorems about the gates, dry runs, judges and scores of `MCOffline` | proofs |
| `RoutingStudiesProofs` | theorems about the routing, folds, policies and artifact of `MCOffline` | proofs |

`MCService`, `MCEvaluation` and `MCOffline` check several components in one run. These
components share no state, so their interleavings would show nothing that each alone does not: the
variable `part` says which one a behaviour moves, and the others rest in an
initial state of theirs. Properties are stated in the components; the MC module
names them again through its instance, and restricts a liveness property and its
fairness to the behaviours of its part. Deadlock is not checked there, as a part
may come to its end; the liveness properties notice one that stops short of it.
Where components do interact they are composed: `ChatGateway` uses `ErrorSurface`
and `ActivityTable`, `ProviderCalls` uses `ErrorSurface`, `AdaptiveInference`,
`RoutingRequests` and `OfflinePolicies` use `Routing`, `SummaryJudging` uses
`Judging`.

Operators whose name has an underscore suffix (`Blocked_ClientOnly`,
`Recoverable_Always`, ...) are faulty variants of the definition that follows
them. No specification uses them; each shows that a property would notice that
fault.

### RateLimiter

One tick is one millisecond of the code; `Second` ticks make a second. Per window
the model keeps what Redis keeps (`counter`, `expireAt`), per call what the
coroutine keeps (`pc`, `deadline`, `giveUpAt`) and the fate of its EVAL
(`command`). The script is one step, `ScriptCharge` or `ScriptRefuse`, enabled as
long as the command is queued at the server, whether or not its caller still
waits. `Timeout`, `Cancel` and `RedisFailure` end the call without recalling the
command; `RedisFailure` also covers a reply that does not parse. `RedisRestart`
empties the server and drops what was queued: the production deployment runs
Redis without persistence. `epoch`, `ledger`, `scriptAt`, `seen` and `retryAt`
are history variables that no guard reads.

A key lives up to and including the tick of its expiry: Redis treats a key as
expired once the clock is past it, so PTTL can be 0 for a key that exists, which
is the case lines 47 and 53 of the script guard against.

### Routing and RoutingRequests

A model identifier is a number that stands for its place in the lexicographic
order. `First` is Python's `min`: the first of a list's members that none is less
than. `Sorted` is `sorted` by price and identifier. `RouteWithSnapshot` keeps the
order of the checks: duplicates among candidates, duplicates among predictions,
mismatch, empty list, threshold. `RoutingRequests` asks every question over three
models, three acceptability levels and two prices, with well-formed and malformed
predictor answers, then raises the threshold or reverses the lists.

### AdaptiveInference

Three entry points: `explicit` (`InferenceService.generate`), `legacy` (adaptive
without a contract, one attempt) and `validated` (adaptive with a contract, up to
three attempts). The coroutine gives up control at three awaits: the provider
call, the inference row, the execution row. The deadline is a flag that `Expire`
sets between any two steps, and a step is the code between two reads of the clock
or two awaits, so every placement of the expiry is covered. A provider may
return, reject a paid completion, fail, or stay silent. A write may fail or time
out before or after its commit. `Cancel` is the client leaving at an await.
Completions are told apart only by what validation makes of them. The cost of a
completion is always known (`InferenceResponse.estimated_cost_usd` is required),
so a summary's cost is incomplete exactly when an attempt ended in an exception.

`Ladder` in this module instantiates `EscalationLadder`: the ladder is the attempt
order, a rung is asked when its provider call begins, and its answer is dismissed
when the loop moves on to the next attempt, which only a recoverable failure of
validation makes it do.
`ImplementsLadder` states the implementation; everything else this module does
(rows, metrics, clock, cancellation) is a stuttering step of the ladder or its end
without an answer.

### ErrorSurface and ProviderCalls

An error is its class and its category; `_ERRORS` is an ordered table whose first
match decides, as in `api/app.py`, so a subclass must not be shadowed by its base.
`ProviderCalls` takes one explicit call through the registry, the two adapters, the
telemetry event and the HTTP answer. The upstream gateway is external: it may stay
silent, break off, or answer any status with any body. A status is classified by
the adapter's own order of tests, a body by the order in which the adapter reads
it, so a completion may be billed and still be rejected. How a completion ended is
read as `_termination` reads it: `RawEnding` takes the first of the keys
`finish_reason`, `finishReason` and `stop_reason` whose value is truthy in Python, and
`Termination` maps its casefolded word by the adapter's whole table of aliases. A
value is a word and its case (`Spelled`), `Falsy` when missing, null or empty; "unsafe"
stands for whatever the adapter's pattern does not admit. `SaysCutOff`, which the
property uses, is stated without the table.

### ChatGateway

Requests on the routes `/v1/inference`, `/v1/inference/adaptive` and `/v1/chat`
(automatic and manual) run next to each other and share the gauge, the activity
table and, if the clients choose so, a request identifier. Admission and execution
are taken by their results; `RateLimiter` and `AdaptiveInference` model them from
within. A step is the code between two awaits or two reads of the clock; `Expire`
and `Cancel` come between any two. A write may fail, and may fail after its commit.

### ActivityTable and ActivityFeed

A row keeps `created_at`, `id` and `request_id`. A record is stamped when the
chat builds it and becomes a row when its transaction commits; the clock may go
back between two records. `ReadPage` is the query with its keyset cursor. What a
walk must show is what was committed when it began (`base`); a row committed
during the walk is delivered or was passed, and the model keeps both.

### Lifespan

`Startup` opens the HTTP client, the database, Redis and the adaptive artifact in
the order of `api/app.py` and `runtime.py`, each of them if configured; each step
may fail, and the database probe may be cancelled. `Closing` unwinds the context
managers in reverse and may fail as well. `GET /ready` is three steps: `AskReady` is
the request, `ReadFlags` what the handler reads before its await, `AnswerReady` what
it does once Redis has answered the ping, or failed to. `flags` is the conjunction of
the handler's locals, and the history variable `whole` says whether the process was
complete when they were read. Shutdown may begin, and close the Redis client, at any
moment of a probe; a client that was closed meanwhile may connect again or refuse
(`connects`). Probes come once startup has completed, as a server calls the
application only then.

### PredictorArtifact

A builder writes the model file, then the metadata, and reads both back; two
builders may interleave and die anywhere. Each file is replaced atomically, the
pair is not. A build stands for its bytes and their checksum. The application
reads the metadata first, then the model, with every check of the loader and of
the adaptive configuration, then predicts.

### BenchmarkRun

The coroutine's place is `pc`; each repository operation is a job that a worker
thread takes up and carries out while the coroutine awaits it. `Cancel` ends the
await: a job no thread has taken up is withdrawn, a started one publishes its
file later, next to whatever the handler does. The end of a job and the resumption
of the coroutine are two steps, so a cancellation can also come between a finished
write and its caller. A write fails without a trace (the temporary file is
removed) or is published whole (atomic replace). A call of the service ends with
a result to be recorded, a success or one of the errors the runner catches, or
with the service's deadline, which it does not catch. `Crash` kills coroutine and
threads and keeps the files. Contents of the artifacts are left out; a result is
counted under its pair.

### Sandbox

The coroutine's place is `pc`: starting the client, waiting for it, reaping it
after a timeout, removing the container in a handler or in the finally clause.
The client is running, dead, or reaped (asyncio knows its returncode: the
condition of the finally clause). The container belongs to the daemon: killing
the client leaves it running, its program may never end, and only its end
(`--rm`) or `docker rm -f` makes it go away. On a reaped client `process.kill()`
raises, which takes the handler's exit. A removal that is itself cancelled goes
on without its caller (`orphan`). Daemon, operating system and asyncio are
external and modelled from how the code uses them; that the daemon could finish
creating a container for a client that is already dead is left out.

### Judging, SummaryJudging, StaticScoring

Scores are exact fractions: the code compares `Fraction`s and correctly rounded
quotients of small integers with a decimal threshold, which order the same way.
`SummaryJudging` takes one stored summary through the deterministic checks, the
judge call and the scoring, over every reply: a failed call that was or was not
charged, text that is no JSON, a rubric that skips, repeats or misuses something,
every rubric the contract admits. `StaticScoring` compares JSON documents
that nest at most two objects: what recurses over a document (`flatten_json`) is
written as its body, given what it does to a child, and applied once per level.
`flatten_json` joins keys with dots, so `{"a.b": 1}` and `{"a": {"b": 1}}` flatten to
the same path, and the later of two entries with one path overwrites the earlier. The
model keeps both: a path is a text cut at every "." and "[", a key is a sequence of
such segments (`"a.b"` has two), and an object has its keys in their order. Segments,
keys, the key lists of outer and inner objects and the scalars are constants.

### EvaluationRuns

The run is still being produced. Evaluators are separate processes that share
nothing but the directory and may stop between any two writes; one has judges and
a sandbox, the other has not. An evaluator reads the results, evaluates them one
by one, writes one file per result, then the summary. The exporter reads the
evaluation files one by one while they change.

### PaidExecution and PilotReadiness

A file's content is abstracted to the versions that the checks tell apart (listed
at the head of each module). `main()` reads dataset, protocol, pricing evidence and
split at four moments, in the code's order, and `Edit` may replace any of them in
between. `--models` may name the fake model, a candidate that protocols and benchmark
list, and a gateway model that only the registry knows. `Contract` is the contract
whose models configure the run, if there is one; `model_overrides` keeps those of its
models that were selected, and `Run` takes every other one as the registry configures
it. Nothing pins the split manifest, and a dataset under another name has no splits.
The dry runs read a list of files, some of them twice.

### GroupedFolds and OfflinePolicies

A probability is represented by its evidence: the tasks whose labels it was
computed from. The two ways of dealing tasks into folds are one algorithm on
different blocks: pairs, of which `build_outer_folds` gives every fold one per
category (so `PerFold = 2`), or single tasks. `Sorted` is Python's `sorted`, the
listing of keyed items in the order of their keys. A sum over tasks, of label counts
or of costs, is the number of its units (rows, currency units), each a pair of the
task and an index. A fit on labels of one class fails, as the classifier does.
`OfflinePolicies` evaluates every policy on a dataset; its only step, `Relabel`,
is a re-evaluation that changes one label between two analyses, so a property can
compare the studies before and after.

## 3. Runs

| Run | Shows | States |
|---|---|---|
| `admission` | three requests of two clients, weights 1 and 2, one restart of Redis: windows are never overfilled, each command is charged once, less than `(2 + restarts)` capacities in any window length, callers are told what was charged, Retry-After covers every refusing window, and a quiet retry fits | 2.1 million |
| `service` | inference: all three entry points, four registries: discipline, costs, rows and metrics, it ends, it implements the ladder; feed: whole history, order, one row per identifier, the walk ends; process: nothing left open, reverse order, readiness earned, startup ends; provider: costs kept, answers usable, codes right; admission: `admit` returns | 280 thousand |
| `classified_once` | finding, see section 6 | violation |
| `gateway` | two requests on any of four routes, maybe with one identifier: gauge, rows, answers; every request is answered | 450 thousand |
| `deadline_rows` | finding, see section 6 | violation |
| `evaluation` | benchmark run: what the artifacts mean and that it ends; sandbox: nothing left running, what is scored ran; evaluators: consistency, rates, spending, labels | 350 thousand |
| `benchmark_aborts` | finding, see section 6 | violation |
| `sandbox_removal` | finding, see section 6 | violation |
| `known_cost` | finding, see section 6 | violation |
| `offline` | decision and escalation order; folds and evidence; policies against oracle and service; the artifact across two builders; paid gates and dry runs over files that change; every judge reply; every pair of small documents | 1.5 million |
| `averaged` | finding, see section 6 | violation |
| `calibration_leak` | finding, see section 6 | violation |

A run checks few properties; most are a conjunction of named parts, each stated
where its component is:

| Property | Parts |
|---|---|
| `EscalationSound` | `EscalationDiscipline`, `ReturnedIsFirstPass` |
| `TelemetrySound` | `OneMetricPerCall`, `RowsAgreeWithMetrics`, `CompleteCostIsTotal`, `ClassificationAgrees`, `TelemetryFailsOpen` |
| `AnswersAndRowsAgree` | `AnswerIsResult`, `RowTellsAnswer`, `LostRowsAreCounted` |
| `PagesTellHistory` | `WholeHistory`, `NewestFirst`, `OneRowPerRequestId` |
| `ResourcesAreSound` | `NothingLeftOpen`, `ServingIsComplete`, `ClosedInReverse` |
| `AnswersTellWhatHappened` | `PaidCostKept`, `ReturnedIsUsable`, `CodeIsCategory`, `UpstreamStatusIsNotOurs` |
| `WalksAndStartsEnd` | `WalkEnds`, `StartEnds` |
| `StatusTellsTheRun` | `StorageBeforeCalls`, `OrderlyEndIsMarked` |
| `OutcomeIsHonest` | `NoContainerLeft`, `ScoredMeansRan` |
| `EvaluationsAreSound` | `UndisturbedIsConsistent`, `SummaryFollowsFiles`, `RateIsOverJudged`, `SpendingIsReported`, `LabelsAreEarned` |
| `EverythingEnds` | `Ends`, `EvaluateEnds`, `EvaluationEnds` |
| `PaidPathIsGuarded` | `PaidNeedsConsent`, `ProtocolPinsTheRun`, `FinalNeedsTheGate`, `ReadyMeansFrozen`, `PinnedInputsAreFrozen` |
| `JudgementIsJustified` | `AcceptedIsGrounded`, `UndecidedIsNotFailed`, `AnsweredCallsArePriced` |
| `ScoresMeasureAgreement` | `ScoresAreFractions`, `FullMarksMeanCorrespondence`, `PlainMarksMeanAgreement` |
| `DecisionIsJustified` | `DecisionMeansCheapestAcceptable`, `AttemptOrderMeansEscalation`, `OnlyWellFormedAnswersDecide` |
| `LabelsGoWhereDealt` | `FoldsAreBalanced`, `MissingLabelsAreSpread`, `PredictionsAreOutOfFold` |
| `ComparisonsAreSound` | `OracleBoundsPolicies`, `OraclesAgree`, `OfflineMatchesServing`, `DominanceIsAnOrder`, `FrontiersAgree`, `PerfectRankingIsSafe`, `DisagreementsDecide` |
| `ArtifactIsWhole` | `MismatchIsNoticed`, `ServedIsVouchedFor`, `PredictionsNeverRefused` |
| `ChangesAreSound` (of steps) | `DearerWithThreshold`, `OrderIndependent`, `HeldOutStep`, `OnlySoundArtifactsServe` |

**Bounds and why they are enough.** `Horizon` bounds arrivals and `MaxNow` the
clock: with windows of two seconds (clients) and one (global), two ticks per second
and arrivals at zero, a command may be charged at the end of its caller's deadline
and the global window it opens still ends, and reopens, by `MaxNow` = 4, when the
clients' windows end; so expiry, reopening and Retry-After of both windows happen.
Capacities of two with weights of one and two make each window refuse alone and both
together. `MCService` repeats the limiter with two requests, windows of one second
and no restart, for the liveness of `admit` alone.
`MaxRestarts` of one is where the burst bound's restart term is reached. Three
models and three attempts are the code's own limit on attempts
(`max_validation_attempts` is at most 3). Two prices give ties and differences.
No symmetry is used: clients, kinds and models differ. Three pairs have a first,
a middle and a last one; a run can meet no more than two cancellations, so
`MaxCancels` of two cuts nothing off, and the proofs cover any number of pairs.
`MaxInterrupts` lets three cancellations meet one sandbox: one in the wait, one in
the handler and one in the finally clause.
Three chats, two times and pages of one and two rows give equal times, a walk of
several pages, a late commit before and behind the cursor, and two chats with one
identifier. Two gateway requests are enough to share an identifier and to overlap
on the gauge; the adaptive runtime is configured in this instance. Two results and
two evaluators let a stop, a second evaluation and an export meet between any two
files; five kinds of result are the ones that evaluation, rates and spending tell
apart; a known cost is one unit, so that a total is a count. One replaced file
during a paid command (`MaxEdits`) and two during a dry run (`MaxReplacements`) are
what it takes to change a file before or between its reads; the three selections of
models are a free one, one with a listed model and one with an unlisted one next to it.
The endings of a completion are every alias of the adapter and one word it does not
know, in both cases, under each key, and pairs of keys that contradict each other. Two folds, two categories and four tasks make
every fold have a rest to fit on; the three label profiles include one without
labels and one of a single class, so that fits fail too. Three candidates and two
tasks give ties, dominated candidates and frontiers of every size;
the second task's probabilities mirror the first's, which leaves 27 tables. All of
these are constants of the module (`MCProfiles`, `MCPredictions`, ...), and the
proofs take any. Two propositions of unequal weight, one with an equivalence and one
with derivation rules of each policy, reach every rule of the judges; the keys `a`,
`b` and `a.b` give two documents that flatten alike and two entries with one path in
either order; leaves that differ in type only, in case only or in value reach every
rule of `_json_equal`.

**Fairness.** `RateLimiter!FairSpec` assumes that the clock advances and that the
event loop runs a ready coroutine and an expired timer; nothing of Redis.
`AdaptiveInference!FairSpec` assumes the same of the event loop, that the
deadline comes, and that a telemetry write ends, which `asyncio.timeout` around
it guarantees; nothing of the provider. `BenchmarkRun!FairSpec` assumes that the
event loop resumes the runner, that a call of the service ends, which its deadline
guarantees (`RequestEnds` of the run `service`), and that a file operation ends.
`Sandbox!FairSpec` assumes the event loop and the timers; nothing of the daemon,
the client or the candidate. `ChatGateway!FairSpec` assumes the event loop, that
deadlines come, and that admission, execution and the write end once they have,
which `AdmitReturns` and `RequestEnds` show of the first two and
`asyncio.timeout` does for the third; nothing makes a client leave.
`ActivityFeed!FairSpec` assumes a client that keeps reading pages: the walk ends
although rows keep arriving. `Lifespan!FairSpec` assumes that the steps of startup
and closing return, as they are bounded by timeouts; nothing makes a serving
process stop. `MCService` states these per part: what the event loop and the timers
guarantee of the part that moves. `EvaluationRuns!FairSpec` assumes that each evaluator goes on, unless
it is stopped.

## 4. Proofs

Every theorem holds for all values of the constants that the named assumptions
admit, so for any number of requests, models, chats, results or builders where
TLC takes two or three. Each rests on an inductive invariant, named below. Parts of
a combined MC module are proved of that module's `PartsSpec`; a lemma there (`PartsAreComponents`, `PartsSteps`)
says that a behaviour of it takes steps of the component's own `Next` only.

`RateLimiterProofs`, for every valid setting, every deadline and any number of
restarts:

- `TypeCorrect`: the type invariant.
- `CapacityRespected`: `WithinCapacity`. Inductive with the types: a charge adds
  the weight to what is live, and `Blocked(r) = {}` bounds the sum.
- `OutcomesMatch`: `OutcomeMatchesCharge`, through `VerdictInv`, which ties a
  call's progress to the fate of its command and keeps a refused request out of
  every ledger. The conjunct about ledgers needs it: it is the command's fate,
  not the caller's, that decides a charge.
- `RetryAfterSound`: `RetryAfterOutlastsWindow`. `RefusalInv` says of a refusal
  whose window still has the epoch it saw that the window ends no later than the
  script's moment plus the reply's wait. It rests on `SeenInv` (epochs never fall
  behind what was seen) and on `RetryMsCovers`, `RetryAfterCovers` (the longest
  wait, rounded up, covers each).
- `QuietRetrySound`: `QuietRetryFits`. `QuietInv` adds that a window that did not
  refuse, and was not charged since, still has room.
- `LedgerProved`: `LedgerExact`, and `BurstProved`: `BurstBound`, both from
  `BurstInv`. A window that opens at its first charge lets almost two capacities
  pass within one window length, and the bound is strict because of that first
  charge. `KeyInv` says that the present key was opened by one of its charges and
  that all charges of older keys came no later. `OldInv` says that a stretch of
  one window length which reaches the present key holds less than one capacity of
  older charges, plus one per restart: without a restart only the key before can
  reach into the stretch, and the charge that opened it lies before the stretch.
  `StretchInv` adds the present key's own charges. The two weights make a sum of
  charges two counts (`TotalWeight`), so no induction over sets is needed.

`EvaluationProofs`, of the benchmark run, for any number of pairs and of
cancellations:

- `TypeCorrect`; `CompletedSound` (`CompletedMeansAllPairs`); `LossBounded`
  (`AtMostOneLost`); `StorageFirst` (`StorageBeforeCalls`).
- `StatusForward`: the action property `NeverRunningAgain`, which is left to its
  proof and not checked by a run.
- `StatusTrue`: `StatusTellsTheRun`, which adds that a run which ended in order is
  marked.

The first rest on one inductive invariant, `Inv`. None of the properties is
inductive: they speak of files, and files are written by threads, so the invariant
says which jobs may be in flight where. `StartAlone`: a start in flight, abandoned
or not, is alone, nothing is called and no status exists. `AwaitedAlone`: an
awaited record or completion is the only job, and the reply says what is on disk.
`InFlight`: a record in flight, abandoned or not, is the current pair's and not on
disk yet; a completion in flight means that every pair is done. `Progress` ties
calls and results to the position, and `Stored` ties the loop to the files of the
start. `StatusTrue` needs `Marking` as well: what the handler awaits, what its reply
says of the status, and that a raised run was marked before.

`RoutingLemmas` holds what the decision and the order of attempts are, for lists of
any length. `min` and `sorted` come down to one lemma, `Enumeration`: the members
of a finite set, numbered by how many precede each in the order of the key, are its
listing in that order. `DecisionFacts` and `OrderFacts` are what the modules after it
use. Two more families of lemmas replace inductions over data: `UnitsAdd` and
`UnitsGrow` say that a sum counted in units adds up and grows, and `FullShelves` and
`NothingLeft` that `N` shelves which hold at most `P` each of `N * P` things hold
exactly `P` each, and nothing is left over once they do.

`AdaptiveInferenceProofs`, for any registry, predictions, prices, number of models
and one to three attempts:

- `TypeCorrect`; `EscalationProved` (`EscalationSound`); `TelemetryProved`
  (`TelemetrySound`), which the run `service` checks on its instance.
- `LadderImplemented` (`ImplementsLadder`): initial states map to initial states of
  the ladder, and each action to an ask, a dismissal, the end or a stutter
  (`LadderInit`, `LadderStep`).

The invariant follows the coroutine. `Settled`: the plan is an ordered list of
models that meet the threshold, or the one routed to. `Followed`: calls, metrics and
attempts are prefixes of the plan, at most one step apart, and an earlier attempt
failed. `InHand`: at each place, which of the three has the current attempt and what
completion or exception is in hand. `Ended`: what the properties say of a request
that is over, which no step disturbs.

`ChatGatewayProofs`, for any finite set of requests: `TypeCorrect`, `GaugeExact`
(`GaugeBalanced`), `AnswersAgree` (`AnswersAndRowsAgree`). `Course` says what a
request has at each place, and `Accounts` that a row is of a request past its write
and tells its result; the identifier of a row is what a second request may share, so
rows are tied to requests by both identifiers.

`ServiceProofs`:

- `ResourcesSound` (`ResourcesAreSound`) and the action property `ReadyEarned`
  (`ReadyIsEarned`), from `ProcessInv`: `Built` lists what startup has opened by each
  step, which is what closing has to undo and what the flags vouch for; `Read` carries
  what they said over the await, while shutdown may begin and close the client.
- `AnswersTrue` (`AnswersTellWhatHappened`), for any endings of the upstream, from
  `ProviderInv`: `Told` says what the adapter was told and what it raises for it;
  `CutOffs` that its keys, fallbacks and aliases come to "length" exactly when the
  completion says it was cut off; `OwnRow` and its companions find the row of
  `_ERRORS` that decides each exception.
- `HistoryTold` (`PagesTellHistory`), from `FeedInv`: `Standing` says that the table
  is made of what the walk was given, what committed behind its cursor, and what the
  cursor still selects, all of it older than what was given. `PageFacts` says that a
  page is the newest part of what its cursor selects, for any page size.
- `PartsTyped` (`PartsTypeOK`).

`EvaluationProofs`, of the sandbox and the evaluators:

- `OutcomeHonest` (`OutcomeIsHonest`), for any number of cancellations, with
  `Attended`: only a running client starts a container, and none runs past the wait.
- `EvaluationsSound` (`EvaluationsAreSound`), for any number of evaluators and
  results. `OnDisk` says that a file holds what one of its writers made and the
  summary what an evaluator that wrote them all aggregated; `Exported` that what the
  exporter read and exported came from a writer; `Accounts` that spending is what was
  lost plus what is charged in the evaluations; `Course` and `Justified` tie both to the
  evaluators' progress and to the stored results.
- `PartsTyped` (`PartsTypeOK`).

`BenchmarkChecksProofs`:

- `PaidCommandsAreGated` (the types and gates of `PaidExecution`) and
  `PaidPathIsAlwaysGuarded` (`PaidPathIsGuarded`), for any selections of models and any
  number of replaced files. `GatesInv` says which gates are behind a command at each
  stage and that what runs was selected from what was read, and `RunConfigures` which
  model runs in whose configuration; `PilotInv` that, until a file is replaced
  after the first read, every version read is the one on disk and was accepted.
- `JudgementIsAlwaysJustified` (`JudgementIsJustified`), for any specification,
  positive threshold and reply, from `JudgedInOrder`: what the stages have produced is
  what the judge makes of the reply. The sum of the weights is never computed:
  the two sides name the same sum, and the comparison with the threshold needs only
  order facts on fractions (`ZeroIsBelow`, `AtLeastTransitive`, `LowerReaches`).
- `ScoresAlwaysMeasureAgreement` (`ScoresMeasureAgreement`), for any keys, dotted ones
  included, key orders and scalars: full marks mean that every flattened value has its
  counterpart (`FullMarksMeanCorrespondence`), and, where no key has a dot or a bracket,
  that the documents agree (`PlainMarksMeanAgreement`). `Overwriting` says that one
  entry per path survives, which bounds the counts; `PathFacts` when two paths are
  one; `FlattenDocument` and `DocumentsAgree` bring the two sets of entries down to the
  documents.
- `PartsAreTyped` (`PartsTypeOK`), with the lemma `StudiesAreTyped` for the folds and
  the artifact.

`RoutingStudiesProofs`:

- `DecisionProved` (`DecisionIsJustified`), for any models, levels, prices and list
  lengths: the result is the answer to the question (`Asked`), and `RoutingLemmas`
  say what that is.
- `ArtifactProved` (`ArtifactIsWhole`), for any number of builders. `Noticed` says that
  a builder which was content with its pair sees another model only from one that has
  not come to its metadata; `Startup` what the application has checked by each step.
- `ChangesProved`: the action property `ChangesAreSound`. A higher threshold leaves
  fewer candidates qualifying (`DearerStep`); a reversed list has the same members
  (`BackwardsStep`); a fold's selection reads other folds' labels only (`HeldOut`);
  startup goes on from sound metadata only (`SoundStep`).
- `ComparisonsAreAlwaysSound` (`ComparisonsAreSound`), for every labelled dataset,
  table of predictions and realized costs. The state invariant is only `Dataset`; the
  weight lies in what the analyses compute from one. `OraclePaysLeast` compares two
  sums of costs task by task, `StudiedRuleIsServed` brings the studied selection down
  to `DecisionFacts`, `PointsAreCounts` makes rates comparable, and the rest are order
  arguments on them.
- `LabelsAlwaysGoWhereDealt` (`LabelsGoWhereDealt`), for any number of folds,
  categories, tasks and any labels, from `FoldsInv`. `Queued`: the queue lists the
  blocks that have no fold, those with most missing labels first. `Levelled`: no fold
  is more than one block ahead in the category, and none is past its share; with
  `FullShelves` this makes an empty queue mean equal shares, so the builders' closing
  checks cannot fail. `Settled`: earlier categories are dealt evenly, later ones not at
  all. `Spread` is what the greedy choice needs: two folds level in the category differ
  by at most `D`, the largest difference of two blocks; one that is ahead would not
  after giving back any block; one that is behind would not after getting any block of
  the queue. The property itself speaks of the end only and is not inductive.
  `EvidenceInv` says which probabilities the loop over folds has computed, and from
  what. Of the calibrated ones it says that they rest on all labels, those of their
  own fold included, which is the finding `calibration_leak` for every size.

**Assumptions.** All are named, stated with the constants they are about, and
evaluated by TLC: `SettingsAssumption` (the checks of `RateLimitSettings`) and
`EnvironmentAssumption` of the limiter; `PairsAssumption` (the selection is not
empty) and `CancelsAssumption` of the run; `AdaptiveAssumption` (candidate lists
without duplicates, numbers as prices and levels, one to three attempts, as
configuration enforces); `GatewayAssumption` (finitely many requests, a generated
identifier is no client's); `PartsAssumption` of the service (times and row identifiers are ordered,
pages are not empty; three-digit statuses, and the fake adapter's ending among the
endings); `DockerAssumption`,
`DirectoryAssumption` (a run has finitely many results, and at least one);
`PaidAssumption` (a selection names a registered model); `JudgesAssumption` (what `SemanticProposition`, `RationalWeight`
and `DerivationRule` accept, scores that are fractions, and a positive threshold: at
zero every evaluated summary is acceptable); `ScoringAssumption` (a key has a segment, no object has a key twice);
`QuestionAssumption`; `StudyAssumption` (finitely many tasks, at least one candidate,
amounts in whole units); `DealAssumption` (at least one fold, category and task per
fold, label counts are numbers); `InstalledAssumption` (a new build is not the approved
or the old one, and what the predictor knows are model identifiers).

**Only model-checked.** Liveness and `ENABLED`: `AdmitReturns`, `RequestEnds`,
`Answered`, `WalksAndStartsEnd`, `EverythingEnds` (out of the prover's reach).
That `flatten_json` behaves the same on documents that nest deeper than two objects
is neither checked nor proved: it is an induction over documents.
The seven findings are violations.

## 5. Not modelled

The wording of errors, logs and metric labels; hashing of client identities
(distinct clients are distinct model values); the request bodies sent to providers;
the validator's checks on the text, taken by their three results; the harness that
runs inside the sandbox; the schema checks of requests and files; the category
detector, feature statistics, fitting, metrics of probabilities, bootstrap
intervals and the reports of the studies (numerical or textual, without state);
the texts and generators of benchmark tasks; database summaries (read-only
aggregates); a gateway without adaptive runtime; the frontend and all data.

## 6. Findings

- `classified_once`: the counter of adaptive requests is documented as classifying
  requests "at one terminal point" (`observability.py:152`), and the execution
  row as the summary of a validation-enabled request. When the deadline is found
  expired at the head of the attempt loop (`adaptive.py:231`) or around validation
  (`adaptive.py:290`, `:293`), the request raises without either, even after
  attempts that were paid for. `ClassificationAgrees` holds: what is classified is
  classified once and correctly.
- `benchmark_aborts`: the repository's `README.md:507-508` says "Storage failure
  stops further work; call failures are recorded and remaining pairs proceed." A
  call that outlasts the service's deadline (60 seconds unless configured, and the
  runner does not configure it) raises `InferenceDeadlineExceededError`, which is
  not among the errors recorded per call (`benchmarks/runner.py:145`): the run is
  aborted and the remaining pairs are not tried.
- `sandbox_removal`: `README.md:608-609` says "The container is named and forcibly
  removed after normal completion, failure, timeout, or cancellation." A
  cancellation that arrives while the timeout handler waits for the killed client
  (`evaluation/sandbox.py:263`) skips the removal, because the returncode is not
  yet known (`:280`). `NoContainerLeft` shows that, but for this place and the
  start of the client, the claim holds as long as `docker rm` works.
- `deadline_rows`: the chat service builds a `deadline_exceeded` record when the
  inference raises `InferenceDeadlineExceededError` (`application/chat.py:109-119`),
  but `_record_activity` asks the same, now expired, deadline for a timeout
  (`chat.py:220`), gets none and returns: such a row is never stored, although
  `telemetry/contracts.py:111` lists the outcome and `:115` promises "One
  privacy-safe request-level summary for a /v1/chat execution."
- `known_cost`: `README.md:586-588` says "Failed calls have unknown cost and contribute
  zero to the known-cost total, so this total is a lower bound rather than an invoice."
  A failed call whose completion was paid for and rejected carries its price in the
  error details, and `_known_candidate_cost` adds it (`evaluation/aggregation.py:11-19`).
  `SpendingIsReported` holds: the total is a lower bound.
- `averaged`: `README.md:644-647` says "The three semantic dimensions are then averaged,
  but any factual-consistency score below 1 forces quality to zero" and "Acceptance
  applies the dataset threshold to that final score." The flat rubric takes the minimum
  of two dimensions (`evaluation/service.py:146-147`), so it refuses summaries whose
  average reaches the threshold. `AcceptedIsGrounded` holds: none is accepted that the
  average would refuse.
- `calibration_leak`: `docs/routing-policy.md:280-281` calls the exploratory Platt
  transformation "group-isolated", a test is named
  `test_platt_comparison_has_no_group_leakage_and_same_rows`
  (`tests/test_calibration_analysis.py:251-255`), and the code raises "calibration fold
  leakage" (`routing/calibration_analysis.py:441`) and reports `"group_overlap": 0`
  (`:463`). Each compares lists of tasks. The calibrator of a fold is fitted on
  out-of-fold probabilities of the other folds, and the models behind those were fitted
  with this fold's labels, so a calibrated probability rests on its own task's label.

Further disagreements between documents and code, met while modelling; the models
follow the code:

- Sandbox startup. `README.md:625-626` says "Docker/daemon/image/container startup
  failures remain unscored infrastructure failures." A daemon that stalls until the
  timeout costs the candidate its score (`evaluation/sandbox.py:260-270`), which is
  why `ScoredMeansRan` leaves the timeout out.
- Evaluation files. `README.md:577` says that the command "atomically writes
  per-result evaluations and the summary"; each file is written atomically, the set
  is not (`evaluation/repository.py:85-89`). `UndisturbedIsConsistent` and
  `SummaryFollowsFiles` say when and how they agree.
- Failed calls. `README.md:544-545` says "A failed model call receives score 0 and is
  unacceptable"; it gets neither score nor verdict (`evaluation/evaluators.py:45-55`) and
  is counted as incomplete, as `RateIsOverJudged` has it.
- Final split. `docs/phase-9-benchmark-expansion.md:641-643` says final-test execution
  is rejected without its gate. The gate looks at the tasks the split manifest calls
  final, under the benchmark's dataset name (`benchmarks/__main__.py:108`); the
  manifest's digest is not verified there. `FinalNeedsTheGate` states what holds.
- Source bytes. A comment (`routing_benchmark_v1.py:67-68`) says that "paid execution
  additionally verifies the frozen source-byte hash through its protocol contract";
  the protocol is optional (`benchmarks/__main__.py:83`). `ProtocolPinsTheRun` states
  what holds with one.
- Dotted keys. `flatten_json` (`evaluation/normalization.py:108-119`) gives two different
  documents one set of paths when a key contains a dot or a bracket, so a response can
  get full marks for a document that differs from the expected one in its nesting.
  `FullMarksMeanCorrespondence` states what holds; no document promises more.

## 7. Plan

Done: all components of the table in section 2; theorems for every invariant and
action property that a run checks, and for the ladder. Left, in this order:

1. The validator's checks and the category detector as operators with reference
   definitions.
2. The statistics of the studies (bootstrap, metrics of probabilities), should they
   ever be computed over exact fractions.
3. Documents of any depth in `StaticScoring`, once induction over data is in the
   prover's reach; liveness likewise.
