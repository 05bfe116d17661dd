# Verification of llamator-mcp-server

TLA+ models of `llamator-mcp-server` (paths below are relative to
`src/src/llamator_mcp_server/`), model-checked with TLC on small instances; every
invariant that the runs check is also proved with TLAPS, for all values of the constants. `PROJECT.json` lists the runs, the mutants, the map from definitions to
source lines, the hazards and the theorems.

## 1. The system

The server runs LLAMATOR, a red-teaming library for LLMs, as jobs. An **API process**
(FastAPI, and an MCP application mounted in it) accepts a request, writes a job record
into **Redis** and enqueues an **ARQ** job. A **worker process** takes the job, runs
LLAMATOR in a thread, uploads the artifacts and writes the outcome into the record.
Clients poll the record over HTTP, or wait in an MCP tool call that polls for them,
and fetch the artifacts from S3 or a shared volume.

| Component | State | Operations | Hard behaviour |
|---|---|---|---|
| Job records (`infra/job_store.py`, `domain/models.py`) | `llamator:job:<id>` in Redis, with a TTL | `create`, `update_status`, `set_result`, `set_error`, `get` | each change is GET, change a copy, SET: two awaits; TTL; a SET whose reply is lost |
| Submission (`domain/services.py`, validators of `domain/models.py`) | none of its own; writes record and queue | `submit`, `validate_test_specs` | two writes, not atomic; the plan exists in two copies (record and payload) read by two processes |
| Worker (`worker_settings.py`, `infra/llamator_runner.py`) | the coroutine `execute`, runner threads, the local directory | `execute` | `job_timeout` cancels at any await, threads live on; crash, shutdown, requeue; upload and cleanup in handler and finally |
| Threads of a worker (`asyncio.to_thread` in `worker_settings.py` and `artifacts_storage.py`) | the queue and the threads of the default executor, temporary archives | run, zip, PUT, rmtree | jobs of all slots share the threads; orphans of cancelled jobs occupy them; a call is cancelled in the queue or not at all |
| Artifacts (`infra/artifacts_storage.py`, `infra/s3_presign.py`, `api/http.py`) | the bucket, or a directory | `upload_job_artifacts`, `list_files`, `resolve_download` | paged listing under concurrent puts; files that go between two looks at them; which failures reach which handler |
| MCP tools (`api/mcp_server.py`) | a deadline per call | `create_llamator_run`, `get_llamator_run` | deadline against a late answer; a record read before an await and used after it |
| SSE wrapper (`api/asgi_wrappers.py`) | per request: captured messages, their size, passthrough | `_McpSseToJsonWrapper.__call__` | buffer limit in the middle of a stream; an application that breaks off; failure and cancellation at any `send`; extraction from arbitrary events |
| API key guards (`api/asgi_wrappers.py`, `api/security.py`, `api/openapi.py`) | none | compare one header | none |
| Lifespan (`app_factory.py`, `main.py`, start-up and shutdown of the worker) | Redis client, ARQ pool, MCP session manager | acquire step by step, release in reverse | any step may raise, releases too; users during shutdown; a failed `ping` leaves a client that nobody closes |
| Settings, env (`config/settings.py`, `utils/env.py`, `infra/redis.py`) | none after start-up | parsing | a DSN or a storage that one process accepts and the other refuses |
| Logging, S3 signatures | none | formatting | none |

How they interact: API and worker share nothing but Redis (records, ARQ's keys) and
the bucket or volume. The API writes the record before it enqueues; the worker alone
writes it afterwards; everybody else only reads.

What makes each part correct:

- Pipeline: LLAMATOR runs at most once per job; a record tells one consistent story and
  a terminal record is final together with its archive; artifacts are removed only after
  a whole archive of them is stored; the queue drains; an undisturbed job settles.
- Submission: a request that is refused leaves nothing, and each answer has its cause; a job
  is never enqueued without its record; an accepted request reaches LLAMATOR as it was sent and
  as the record shows it.
- Threads: nothing is begun for a job that was cancelled meanwhile; a job waits only for
  orphans; every job ends as long as a thread is left; no archive is zipped under a running
  run or removal.
- Lifespan: nothing is used before it is open or after it is closed; what was opened is
  closed, as far as closing succeeds; a shutdown ends unless a hung client or run holds it back.
- MCP tools: no job that settled in time is reported as timed out; a call ends in time;
  what it answers stays true.
- SSE wrapper: the server gets one whole response, at any moment a prefix of a legal
  one, and no more than the limit is held back.
- Artifacts API: a listing is complete and its loop moves on; a redirect is exact; no failure of
  the backend is told as a missing file or cuts a list short.

## 2. The modules

| Module | Models | Notes |
|---|---|---|
| `JobTypes` | the parameters; the faults a run admits | `WriteOutcomes` is what a Redis write may do to its caller |
| `JobStore` | `JobStore` and `LlamatorJobInfo` | GET and SET are separate steps of the callers, the copy between them is the caller's `snap` |
| `ArqQueue` | ARQ's Redis keys (external) | queue, payload, in-progress, retry counter |
| `JobExecutor` | one worker slot running `run_llamator_job` | `pc` is the await at which `execute` stands, `path` how it came to its outcome |
| `LlamatorRuns` | composition of the four above with `submit` | the faults, the properties of the pipeline, its inductive invariants |
| `JobLifecycle` | what the pipeline promises | abstract specification; `LlamatorRuns` implements it |
| `McpTools` | both MCP tools, with discrete time | runs on `JobLifecycle`, not on the detailed pipeline |
| `RunRequests` | one request from the API to `start_testing` | pure conversions as operators, one action per hand-over |
| `SseToJson` | `_McpSseToJsonWrapper` | messages and lines; the extraction is a recursive function over lines, checked and proved against a definition by events |
| `ArtifactsApi` | listing, download and link on either backend | one step per presigned GET, or per look at a file |
| `WorkerPool` | the slots of one worker and the threads they share | a job's phase is the call its coroutine awaits |
| `Lifespan` | start-up and shutdown of both processes | what is acquired in which order is data (`Program`), how is actions |
| `Lists` | filters and optional lists, as `RunRequests` and `SseToJson` use them | recursive functions, so that they can be proved about |
| `MC...` | values of the constants | |
| `DataLemmas` | lemmas about numbers, orders and sequences | induction over numbers, as sets (section 6) |
| `LlamatorRuns_proofs` | the pipeline: safety, records, refinement | assumes nothing, or no lost replies |
| `WorkerPool_proofs`, `McpTools_proofs`, `RunRequests_proofs`, `SseToJson_proofs`, `ArtifactsApi_proofs`, `Lifespan_proofs` | the other components | one inductive invariant each |

### State and actions

`JobExecutor`: the code between two awaits is one step. `UpdateStatusGet/Set`,
`ThreadStart`, `RunReturns`, `Upload`, `OutcomeGet/Set`, `CleanupLocal` are the awaits of
`execute` (`worker_settings.py:208-257`) in order; `Raise` is what an exception at one of
them does: into the handler, which uploads once more, or from the handler to the finally.
A payload that does not validate has no lifecycle object (`path = "invalid"`), so nothing
is uploaded or removed. `Cancel` is `asyncio.CancelledError`, by `job_timeout` or a shutdown:
it passes `except Exception` and runs only the finally. Runner threads survive it
(`threads`, `OrphanEnds`); a SET, PUT or rmtree that was under way may or may not take
effect. `Poll`, `RunJob`, `FinishJob`, `Requeue`, `LockExpires` are ARQ around it.

`LlamatorRuns` adds `CreateRecord`, `EnqueueJob` and `ApiCrash` (`services.py:198-227`).

`McpTools`: `Poll` is the moment Redis answers, `Reply` the moment the coroutine goes on,
so that a record is acted on up to `MaxDelay` after it was read; `due` bounds every await.
`CallCreate`, `Created` and `Enqueued` are the two awaits of `submit`, each of which may raise, and
the deadline is counted from the end of the second; the other raising awaits end the call as well.

`RunRequests`: `Validate` (models.py), `Check` (`validate_test_specs`), `Submit`, `Enqueue`,
`FromPayload` (the second validation, in the worker) and `Run` (plan resolution). Each keeps
its copy of the plan in a variable of its own, so that copies can be compared. Both writes of `submit` may
raise, applied or not: the answer is then 500, with a record, or a record and a job, left behind.

`SseToJson`: a response is a start message and body messages; a body is a sequence of lines
of one byte each. `Burst` is one `await send` of what was kept back. An application may return before its last message, or without one (`AppReturns`).

`ArtifactsApi`: the backend is chosen at the start. Keys are sequences of numbers in S3's order;
`ListPage` is one turn of the loop of the S3 `list_files`. `Walk` and `Stat` are the walk of the
local one and its look at each file it has found, `Resolve` and `Serve` the check of
`resolve_download` and the opening of the file when the response is sent; `RemoveFile` may come
between them. `OnFailure` says which except clause a failure meets.

`WorkerPool`: `Take...` is a thread that takes the next call, `RunEnds`, `ZipEnds`, `PutEnds`,
`RmtreeEnds` a call that returns, to its coroutine or, after a timeout, to nobody (`Awaited`).
`ZipOpens` is the moment the zip thread opens the temporary file. `Timeout` cancels the
coroutine at any await: `GivenUp` takes its call out of the executor's queue when no thread has
taken it yet, and the coroutine goes through the finally blocks, of `upload_job_artifacts` (the
temporary file) and of `execute` (the local directory). Phases between two awaits of Redis are one
phase, `record`: `JobExecutor` has them apart.

`Lifespan`: `StepSucceeds` and `StepRaises` are one step of `Program`; `Drained` is uvicorn or ARQ
when the last request or job has ended; `Release` takes the last resource registered, and
says what one that raises does to the others. `Storage` and `MaySucceed` are what
`create_artifacts_storage` and `parse_redis_settings` make of the settings. A job that ends before its run
leaves an orphan (`JobLeavesThread`); a client, or an orphan, may hang for good (`Hang`). `Exit` is the
end of the process: the worker's interpreter joins its threads first, so it waits for every orphan.

### Simplifications

- Timestamps, metrics, messages and logs are left out; a record keeps status, whether there
  is a result, and which kind of error.
- In `LlamatorRuns` every ARQ slot is a worker process of its own with threads enough. One
  process with several slots is subsumed for everything but a shared stop, which here is
  several stops, and the threads, which are in `WorkerPool`.
- `WorkerPool` has no restarts, no shutdown and no Redis failures but a write that raises; a
  temporary file is there or not; a run that hangs makes its directory first or not at all.
  `MaxHung` is below `Threads`: with as many hung runs as threads nothing is executed any more.
- Failures of ARQ's own Redis calls, and a second cancellation of an execution that is
  already in its finally because of a first one, are left out.
- A payload in Redis is one object: what is enqueued is what is fetched.
- The MCP application sends one message at a time, and only start and body messages.
- In `ArtifactsApi` the names of local files carry no order, a failing look at a file is one at
  a file that is gone, and symbolic links are left out. `FileResponse` looks at the file
  and opens it; that is one step.
- `Lifespan` joins requests, MCP calls and jobs into `users`; a user needs all that its
  process has opened.
- A read timeout of S3 is `TimeoutError` or `ConnectionResetError`: urllib wraps what
  fails while the request is sent into `URLError`, not what fails while the answer is read.
- S3 always sends a continuation token with a truncated page, the last key of the page.
- `McpTools` runs on `JobLifecycle`, which the pipeline implements only without lost replies and expired
  records. With them a record may change after a call has read it, or be gone.
- In `RunRequests` presets and importable classes are small sets; lengths, temperatures,
  `debug_level` and the scalar options of `run_config` are left out (each is compared with
  constants), and so are symbolic links below `artifacts_root`. The API refuses `..` before
  a directory is resolved, so the second check in `_resolve_artifacts_dir` cannot fail.

## 3. Faults

`Faults` says what the environment of a run may do: `redis_error` (a call fails and was not
applied), `redis_lost_reply` (a write fails but was applied), `timeout`, `crash`, `shutdown`,
`api_crash`, `record_ttl`, `payload_ttl` (ARQ keeps a payload for a day), `bad_payload`. What
LLAMATOR returns or raises, failing uploads and failing removals are not faults: they may
always happen.

## 4. The runs

Every passing run has at least one mutant per property: a definition of the model changed
as a plausible bug would change the code (the operators marked "Mutant"), which the
property must detect.

| Run | Bounds | What it shows |
|---|---|---|
| `one_job_every_fault` | 1 job, 2 slots, 2 stops, all faults | `AtMostOneExecution`, `ArchiveNeverTorn`, `NoArtifactLoss` hold under everything |
| `records` | 2 jobs, 2 slots, 1 stop, all faults but lost replies and record expiry | `RecordConsistent`, `TerminalIsFinal`, `QueuedIsTracked`; the pipeline implements `JobLifecycle` |
| `progress` | 1 job, 2 slots, 1 stop, timeouts, expiry of record and payload | `QueueDrains` and `AcceptedCompletes` under fairness; `RecordConsistent` and `TerminalIsFinal` while records expire |
| `worker_pool` | 3 jobs, 2 slots, 2 threads, 1 hung run | `DeadCallsNeverStart`, `WaitsBehindOrphans`, `NoStrayTempFile`, `ArchivedBeforeRemoval`; `EveryJobEnds` |
| `lifespan` | both processes, all settings, 2 users each, 2 threads in the worker | `UsersFindItOpen`, `OnlyHalfOpenLeaks`, `ShutdownEnds` |
| `mcp_calls` | 2 calls, 1 job, timeout 4, poll interval 3, delay 1, time up to 11 | safety and termination of the tool calls; the interval does not divide the timeout, so the last sleep is cut |
| `run_requests` | all requests of at most one basic and one custom test, at most three parameters, blank, padded and repeated names | refused for its reason and without a trace, failed by Redis at either write, or run exactly as sent and recorded |
| `sse_wrapper` | up to 4 messages of up to 2 lines, limit 4, broken off anywhere | `OneResponse`, `WholeResponse`, `BoundedBuffer`, `CleanFailure` |
| `artifact_requests` | 1 request, both backends, 5 keys, pages of 2, 1 removal | `ListingIsComplete`, `RedirectIsExact`, `ListingMovesOn` |

The type invariants `TypeOK`, `McpTypeOK` and `PoolTypeOK` and the inductive invariants (`SafetyInv`,
`RecordInv`, `PresentInv`, `McpInv`, `PoolInv`, `SlotsInv`, `RequestInv`, `SseInv`, `ArtifactsInv`,
`LifespanInv`) are proved (section 6) and in no run; TLC has checked each on the instance of its component's run.

Two slots are enough for every interleaving of a job with a second execution of it, which
is what `max_tries`, the in-progress key and the orphan threads are about; two stops let a
second worker fail on what the first one left. Two jobs show the competition for slots, as
jobs share no state; jobs and slots are interchangeable, and the runs of safety use that
symmetry. In `worker_pool` the third job finds a slot whose last job has left an orphan in a
thread: a hung run holds one of the two threads, so that everything else goes through the
other, in every order. Requests for artifacts only read, so one of them among puts, a removal
and expiry shows all there is; five keys give three pages, and two keys have the archive's
key as a prefix. Three body messages of two lines pass the limit of four in the middle of a
response, or exactly with its last message.

`CHECK_DEADLOCK FALSE` everywhere: requests, calls and processes end, clocks stop at their bound,
and a pipeline that is drained, or whose workers have stopped, does nothing more.

### Disagreements between documentation and code

| Run | Property | Shows |
|---|---|---|
| `stale_running` | `RunningMeansExecuting` (models.py:21) | a run cancelled by `job_timeout` leaves the record `running` although nobody runs it, until it expires |
| `result_and_error` | `ResultOrError` (README.md:242) | a `set_result` that was applied but reported as failed is followed by `set_error`, which keeps the result |
| `backend_timeout` | `FailuresAsDocumented` (README.md:272, mcp_server.py:113) | a read timeout of S3 passes the except clauses: 500 instead of 502, an exception instead of no link |

Seen while modelling and not made into runs:

- An API process that stops between the two writes of `submit`, or whose second write fails, leaves
  a `queued` record of a job in no queue. A write that was applied though it raised leaves a job
  whose client was told 500.
- A payload that expires in the queue, after ARQ's one day, leaves its record `queued`.
- A record that expires between the GET and the SET of a change comes back with the SET.
- A request that pydantic refuses is answered 422 where README.md:230 lists 400; a base URL
  in the settings that is no URL is noticed only when a request is submitted, and answered 500.
- An event stream of several documents is cut down to its first, where the comment at
  asgi_wrappers.py:129 and README.md:51 speak of single messages. With `json_response=True` the
  MCP application of this server answers a POST with no stream at all.
- A zip thread that opens the temporary file after a timeout has removed it creates it once
  more, and nobody removes it (the exception in `NoStrayTempFile`).
- ARQ's ten slots share `min(32, cpu + 4)` threads: on a small machine jobs may wait for
  threads within their `job_timeout`, and when all threads hang, the removal in a finally block, which
  no timeout bounds, keeps its slot.
- A worker that was told to stop exits only when its threads have ended: one run that hangs keeps
  the process (worker.py:14), although all its resources are released (`ShutdownEnds`).
- ARQ does not close its own pool when `worker_shutdown` raises (`OnlyHalfOpenLeaks`).
- A file of the local backend that is removed while it is listed or about to be sent is
  answered 500; README.md:288 lists 404 for a missing file.

## 5. Fairness

Weak fairness of a slot's own steps (`ArqStep`, `ExecuteStep`): an event loop runs what is
ready, and Redis and S3 calls return or fail. Weak fairness of `LockExpires`: ARQ's
in-progress key has a TTL. `FairSpec` adds weak fairness of the cancellation by
`job_timeout`: `asyncio.wait_for` fires. Not assumed: that LLAMATOR returns, that a stopped
worker is restarted (docker-compose.yml has no restart policy), that any fault happens.
`AcceptedCompletes` is conditional on `[]Undisturbed(j)`: no worker stops, nothing is cancelled, the record
is kept, and the payload until it is read. A run that hangs is disturbed by its timeout.
`FairPoolSpec`: threads and coroutines run, every call but a hung run ends (files are finite, sockets have
timeouts), ARQ polls, and `job_timeout` fires once per execution; `EveryJobEnds` needs the one thread that
`MaxHung < Threads` leaves. `FairLifespanSpec`: start-up and shutdown go on, and all users and orphans end
but the hung ones, which `EveryCallAnswers` and `EveryJobEnds` show of calls and jobs; of jobs only while one
thread is not hung. A stop is not assumed, and `ShutdownEnds` excepts what hangs by name. `FairMcpSpec`: time
passes and the calls' coroutines run, so that every await of Redis ends; nothing is assumed of the job.

## 6. What is proved

| Theorem | Says | Assumes |
|---|---|---|
| `TypeCorrect`, `NeverRunTwice`, `NeverTorn`, `ArtifactsAreKept` | `TypeOK`, `AtMostOneExecution`, `ArchiveNeverTorn`, `NoArtifactLoss` are invariants | nothing: every fault, both backends |
| `RecordsAreConsistent`, `TerminalRecordsAreFinal` | `RecordConsistent` is an invariant, `TerminalIsFinal` an action property | no lost replies |
| `PipelineImplementsLifecycle` | `LlamatorRuns` implements `JobLifecycle` | no lost replies, no expired record |
| `QueuedJobsAreTracked` | `QueuedIsTracked` is an invariant | no lost replies, no expired record |
| `PoolTypeCorrect`, `DeadCallsStayDead`, `TempFilesAreRemoved`, `ArchivedThenRemoved`, `OnlyOrphansDelay` | `PoolTypeOK`, `DeadCallsNeverStart`, `NoStrayTempFile`, `ArchivedBeforeRemoval`, `WaitsBehindOrphans` are invariants | at least one slot and one thread |
| `TimeoutsAreTrue`, `WaitsAreBounded`, `AnswersAreFinal`, `LinksAreFinal` | `NoFalseTimeout`, `WaitIsBounded`, `AnswerIsFinal`, `LinkIsFinal` are invariants | each await ends within `MaxDelay`; the pipeline is `JobLifecycle`, that is, no lost replies and no expired record |
| `RequestTypeCorrect`, `EveryParameterArrives`, `RecordsTellTheRun`, `SameRequestInBothProcesses`, `RefusalsLeaveNothing`, `RefusalsHaveACause` | `RequestTypeOK`, `NoParameterLost`, `RecordTellsTheRun`, `RevalidationAgrees`, `RefusedLeavesNothing`, `RefusedForCause` are invariants | a request is anything of the shape pydantic parses: any number of tests, parameters and prompts, of the model's few texts; Redis may fail either write |
| `SseTypeCorrect`, `NeverAMixture`, `AnswersAreWhole`, `BufferIsBounded`, `FailuresAreClean` | `SseTypeOK`, `OneResponse`, `WholeResponse`, `BoundedBuffer`, `CleanFailure` are invariants | a limit of at least one byte; any bounds on messages and lines |
| `ExtractsFirstDocument` | `_try_extract_json_from_sse` returns the document of the first event that has one, and none if none has, for a body of any length | the model's seven kinds of line |
| `ArtifactsTypeCorrect`, `ListingsAreComplete`, `RedirectsAreExact`, `ListingsMoveOn` | `ArtifactsTypeOK`, `ListingIsComplete`, `RedirectIsExact` are invariants, `ListingMovesOn` an action property | keys are sequences of numbers that are not empty, any set of them; pages have room for one |
| `LifespanTypeCorrect`, `OpenWhileUsed`, `LeaksAreNamed` | `LifespanTypeOK`, `UsersFindItOpen`, `OnlyHalfOpenLeaks` are invariants | any bound on users and any number of threads |

**Safety of the pipeline** (`LlamatorRuns_proofs`). `AtMostOneExecution` is not inductive: that no
second run starts rests on the retry counter. `AttemptInv` says that a job whose payload is
still there has its attempt counted as soon as somebody executes it, and that an uncounted job has
never been run. From it `FirstAttempt` follows: who passes `RunJob` is the first and only one.
`ExclusiveInv` (one slot executes a job), `StartInv` and `ThreadInv` (no thread is left when a
slot stands at an upload) then make every zip whole, and `ArchiveInv` ties the flag `uploaded` to a
whole archive, which is what the finally relies on.

**Records** (`LlamatorRuns_proofs`, second part). `RecordInv` adds, for every await of the executing slot,
which record is in Redis: new before the first SET, running from there to the terminal SET. The
copy a SET is built from therefore equals what is stored, so no update is lost. With a lost
reply the slot would stand in the handler over a terminal record, which is exactly the
counterexample of `result_and_error`. For the refinement `PresentInv` adds that no
record is missing where it is read; the mapping takes a record to its status and an archive to
whether it is there. `PresentInv` also gives `QueuedIsTracked`.

**Threads of a worker** (`WorkerPool_proofs`). That a pending call is awaited (`DeadCallsNeverStart`)
needs to know that a job has one place in the queue and that a call in the queue is not executed at
the same time (`QueueInv`): then taking the job's only place out leaves nothing dead. `CancelInv` says
that only a cancelled job has a call in a thread that it does not await, and that a cancelled job is
past everything but its removal. So a zip that is awaited runs beside no other call of its job and what
is put is whole (`ArchiveInv`), and a flag `uploaded` stands for an archive in S3. The counting theorem
`OnlyOrphansDelay` maps each awaited call, waiting or executed, to the job that awaits it: the
mapping is one-to-one, and there are no more active jobs than slots (`SlotsInv`).

**MCP tools** (`McpTools_proofs`). `McpInv` bounds the next step of a call by `due`, relative to
its deadline, and relates what was read to when the job settled: a record read as unsettled had
not settled `MaxDelay` before the call acts on it.

**Requests** (`RunRequests_proofs`). None of the properties is inductive alone: what the worker reads
goes back to what the API validated. `StageInv` says that the stage determines every copy, as a
function of the request that was sent, so that each property becomes a statement about the operators
for an arbitrary request. The one that carries most is `ValidatedTwice`: what the API has validated
passes the worker's validation and comes out unchanged, since stripped texts strip to themselves, no
blank is left, and prompts that were cleaned are all kept. `UniqueAfterStripping` relates the
uniqueness that `validate_test_specs` checks, on stripped names, to the names that were sent, and
with `OwnValue` gives that the dict of a test loses no parameter.

**SSE wrapper** (`SseToJson_proofs`). `Answer` is what the server should get for what was sent so far:
the messages themselves, or what `Response` makes of them while they are short enough. `SseInv` says
that a send is always a piece of it: in a burst, what was sent and what is pending make up `Answer`;
before, nothing was sent; passed through, everything. So no interleaving of limit, end and
cancellation can mix the two. `OneResponse` then needs that `Response` is the conversion of the
first document, which is `ExtractsFirstDocument`: by induction over the lines, the scan has found the
document of the first event that has one before the line it is at, or holds the data lines of
the event it is in, and no earlier event has a document (`IsLooking`).

**Artifacts** (`ArtifactsApi_proofs`). `PagingInv` is what makes a listing complete under puts: between
two pages the items are in the order of the keys, none is after the token, and what was there at the
start and is not listed comes after the token; `PageOfKeys` says that the next page is what comes next,
and so, with `LastItem`, that the token of a page is after the one before (`ListingMovesOn`).
A key that is put before the token is missed, which is why the property is about the start. `LookingInv`
says the same of the local backend, whose files come in no order and may go. That the order of keys is
a strict total one, that a finite set has one sorted list (`SortedKeys`, `IncreasingUnique`), that
`list.sort` yields it (`ListInOrder`) and that the first of the keys beginning with a path is the path
itself if it is there (`ObjectExistsIsExact`) are lemmas.

**Lifespan** (`Lifespan_proofs`). During start-up the step determines what is open and what is
registered for release (`StartingInv`). `OpenedIsRegistered`, of both programs, says that at every step that
may raise the two differ in the Redis client at most, and at the end of a program not at all. From
there on (`ServingInv`, `EndingInv`) whatever is open is registered, failed to close, is that client, or is the
pool that ARQ leaves open when the client fails to close; and nothing is released before the last user
has gone.

**Induction.** The library states induction with an operator as a parameter, which the provers here
cannot instantiate. `DataLemmas` states it for sets instead (`NumbersInduction`, from the
well-foundedness of `<` on the naturals): the set of the numbers a claim holds of contains 0, and n + 1
with every n. `RecursiveExists` gives that a recursive function over `0 .. N` is what its equations say.
The facts about `Kept`, `FlattenSeq`, `Sorted` and `Extract`, for lists of every length, rest on these two.

Only model-checked: the liveness properties `QueueDrains`, `AcceptedCompletes`, `EveryJobEnds`,
`ShutdownEnds` and `EveryCallAnswers`, since fairness speaks of ENABLED, which
is beyond the proof system. The three disagreements of section 4 are counterexamples of TLC. The local
backend of `LlamatorRuns` is covered by the proofs, which hold for both, and by no run.

## 7. Not modelled

- API key guards and `openapi.py`: a stateless comparison, an edited schema.
- Settings: the values that start-up depends on are in `Lifespan`; the parsing of fields,
  environment variables and DSNs by pydantic and urllib is left out.
- `s3_presign.py`: SigV4 strings and HMAC. Logging: configuration of a library.
- Symbolic links, sizes and times of artifact files; what the log lines contain.

## 8. Plan

In this order; the first ten are done.

1. `JobStore`, `ArqQueue`, `JobExecutor`, `LlamatorRuns`: the pipeline under faults.
2. `JobLifecycle` and the refinement.
3. Proofs of the pipeline's safety, of the records and of the refinement.
4. `McpTools` on `JobLifecycle`, with proofs.
5. `SseToJson`, `ArtifactsApi`.
6. `RunRequests`.
7. `Lifespan`: acquisition and release, failing steps, release against users.
8. The local backend in `ArtifactsApi`: files that disappear while they are listed or sent.
9. `WorkerPool`: slots of one process that share threads, with proofs.
10. Proofs of every invariant the runs check: `ArtifactsApi`, `RunRequests`, `SseToJson`, `Lifespan`, with the
    lemmas about their operators.
11. Refinements: `McpTools` reads records of an abstract pipeline (`JobLifecycle`); what a call sees of the
    detailed one follows from `PipelineImplementsLifecycle` only informally so far.
12. `RunRequests` and `SseToJson` against abstract specifications of a request that arrives and of a
    response that is delivered whole.
