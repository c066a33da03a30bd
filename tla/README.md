# A verification project for torch-inference

TLA+ specifications of the parts of this inference server whose correctness
depends on the order of concurrent steps, with TLC configurations that check them
on small instances and TLAPS proofs for instances of any size. Paths are relative
to the repository's root directory, which this project calls `src/`: the server's
own crate is `src/src`, the LLM service is `src/services/llm/src`.

## 1. The system

An Actix-web server answers inference requests (ONNX and TorchScript models, image
classification and detection, text to speech, speech recognition) on a Tokio
runtime; a second process, the LLM service, is started and watched by the first.
Most state is shared between request handlers through `Arc`: atomics, `parking_lot`
locks, `DashMap`s, Tokio semaphores.

| component | state | operations | what is hard, what makes it correct |
|---|---|---|---|
| worker pool (`worker_pool.rs`) | vector of workers behind an RwLock, lock-free FIFO of idle indices, active count, queue size, shutdown flag | acquire, release, add, remove, scale, pause, resume, shutdown | indices outlive the positions they name; states and counters change outside the lock. No worker handed out twice or lost, count exact, size within limits, scaler ends |
| in-flight batching (`inflight_batch.rs`) | priority queue behind an RwLock, semaphore, counters, guards | add, try_form_batch, complete/drop, clear | two-phase locking with a permit in between. No request lost or doubled, no permit leaked, order kept, every request answered |
| batch processor (`batch.rs`) | priority queue behind a mutex, two atomics that mirror it, a notification | add, should_process, get, clear, wait | the mirror is written outside the mutex. Queue bounded, accepted requests delivered, full queue dispatched |
| circuit breaker (`resilience/circuit_breaker.rs`) | state behind a mutex, atomic counters and time outside it | try_acquire, report, reset | counters race with the transitions they drive. Closed means below the threshold, open recovers |
| `/predict` (`api/handlers.rs`) | none of its own | rate limit, deduplicate, admit, infer, report, cache | its future may be dropped at the await |
| Kokoro session pool (`core/kokoro_onnx.rs`) | vector of sessions behind a mutex, semaphore, guards | acquire, drop | the guard returns its session with `try_lock`. One caller per session, no session lost, every call returns |
| rate limiter, deduplication, caches (`middleware/rate_limit.rs`, `dedup.rs`, `cache.rs`, `core/model_cache.rs`) | maps with time stamps | check, get, set, evict | check-then-act on a concurrent map, coarse clock. Limits and capacities kept, no stale value |
| per-model breaker, bulkhead, retry, token bucket (`resilience/`) | state and counters, semaphore, tokens | call, acquire, refill | as the circuit breaker; float refill |
| model downloads (`models/download.rs`) | task map, watch channels, model map, semaphore | start, execute, update, subscribe, list | completion published before the model is; subscription races with updates |
| model manager, registry, instance pool (`models/`, `model_pool.rs`) | maps of models and replicas, semaphores | register, load, unload, select | re-registration of a loaded model; permits dropped early |
| tensor and buffer pools (`tensor_pool.rs`) | buckets of buffers | acquire, release | a buffer must be at least as large as asked |
| monitor, request logger (`monitor.rs`, `middleware/request_logger.rs`) | counters | start, end, reset, health | dropped futures, resets |
| TTS manager and streaming (`core/tts_manager.rs`, `core/tts_pipeline.rs`) | engines, synthesis cache, channel | register, synthesize, stream | order of chunks, cancellation |
| WebSocket sessions (`api/ws_audio.rs`, `api/ws_infer.rs`) | a session state per socket | incoming message, finish | messages of two protocols mixed |
| LLM service (`engine_lease.rs`, `memory_gate.rs`, `agent/`) | lease, two-mark gate, run permits, event channel | admit, run, stream | refusal with hysteresis; one final event per run; client leaves |
| server start and watchdog (`main.rs`) | child processes | spawn, watch, respawn, shut down | exit observed once |

Interactions: a `/predict` request passes the logger, the rate limiter (twice: as
middleware by the address that a proxy forwards, and in the handler by that of the
peer, which are one without a proxy) and the deduplicator, then the breaker, then the
engine, and reports to the breaker, the deduplicator and the
monitor. The auto-scaler and the users of the worker pool share its queue. A batch
consumer and the callers that fill the queue share the processor and its
notification. A WebSocket session reads the channel of a pipeline task, and the
pipelines share the sessions of the Kokoro engine with the REST handlers. A download
worker updates the task map and then the watch channel that event streams read. Agent
runs and chats of the LLM service share its memory gate and its engine lease; the
service is a child process that the server's watchdog respawns and that a task kills
on a shutdown, if `main` has not left the process before. Of these, `main.rs` constructs the worker pool, initialises
it and shuts it down, and no handler acquires a worker at this commit; `batch.rs`
and `inflight_batch.rs` are library modules used by tests and benches. The breaker,
the session pool, the speech path, the downloads and the LLM service serve live
requests.

`PROJECT.json` lists every component with its status, and every hazard with its
line and the properties that are about it.

## 2. Plan

| module | content | status |
|---|---|---|
| `WorkerPool`, `WorkerPoolProofs` | worker pool with scaling, and proofs | done |
| `WorkerLending` | what the pool promises; a `WorkerPool` that only grows implements it | done |
| `InflightBatch`, `InflightBatchProofs` | in-flight batching and proofs | done |
| `BatchQueue` | what batching promises; `InflightBatch` implements it | done |
| `BatchProcessor`, `BatchProcessorProofs` | batch processor, and proofs | done |
| `CircuitBreaker` | the breaker | done |
| `PredictPath`, `PredictPathProofs` | logger, limiter, deduplicator and `CircuitBreaker` composed in `/predict`; proofs of both | done |
| `SessionPool` | Kokoro session pool | done |
| `Speech`, `SpeechProofs` | WebSocket session, pipeline and `SessionPool` composed; proofs of both | done |
| `ModelDownload`, `ModelDownloadProofs` | tasks, permits, disk, subscriptions, event streams, crashes, and proofs | done |
| `AgentRun` | LLM service: gate, lease, agent runs, chats | done |
| `LlmService`, `LlmServiceProofs` | `AgentRun` as a child process with watchdog and shutdown; proofs of both | done |

Every safety property that a run passes is a theorem; liveness stays with TLC
(section 5). The components without a module are listed with the reason in section 6.

The modules that compose others extend them: `PredictPath` extends
`CircuitBreaker`, `Speech` extends `SessionPool`, `LlmService` extends `AgentRun`. A step of the
composition is a step of the extended module, conjoined with what the rest does, or
leaves its variables alone. For the first two this is a theorem (`PathUsesBreaker`,
`SpeechUsesPool`); `LlmService` adds crashes, which `AgentRun` alone does not have.

## 3. Modules and the code

`PROJECT.json` "map" gives the lines of every definition. The general rules:
one action is one access to memory that other threads may see, except that what a
lock hides from them is one action; atomics are interleaved (the effects of
`Relaxed` ordering beyond interleaving are not modelled); instants are ages in
ticks that saturate at the timeout, beyond which the code does not tell them apart.
Logging and latency sums are left out everywhere. The definitions marked *Planted
defect* are used nowhere: each is a bug that its neighbour could have, and
substituting it violates the property `PROJECT.json` "mutants" names.

**WorkerPool.** `workers` is the vector of object names, `objects` their fields,
`idle_workers` the ArrayQueue, `pc`/`got` a task inside acquire or release, `scaler`
the scaler's position and locals, `admin` a pause or resume scan. The write lock is
implicit: `WriteLocked` while the idle queue is renumbered, because the tasks push
and pop it without the lock. Each of the stores of `release_worker` is an action.
Not modelled: the health checker (it only logs), `record_failure`, the task counters.

**WorkerLending** is the pool as a task sees it, without indices, lookups, locks, counters or
worker states: the idle workers stand in a line, a task borrows the first and returns
it to the end, a new worker joins at the end. `WorkerPool!Lending` is the refinement
mapping. `Line` is the queue with the worker of each index in place of the index. A
task is lent a worker (`Lent`) from the pop of its index, before it has looked the
worker up, to the push that ends its release. `AcquirePop` is the borrowing,
`ReleasePush` the return, `ScaleUp` the joining; the lookup, the other stores of a
release, pauses, resumes, the shutdown and the scaler's other steps stutter.

**InflightBatch.** `call` is a caller of `add_request` (the timestamp is taken when
the request is built, possibly long before it gets the lock), `pc`/`batch` a worker
that runs `try_form_batch` and owns a guard. `Peek`, `AcquirePermit`,
`Drain`/`DrainEmpty` are the two phases and what is between them; `Complete`,
`Finish`, `Abandon`, `ReleasePermit` are `complete()` and the drops. `Answer`, the
owner's use of the guard, is outside the code. The sequence number of a heap entry
is `seq`, so the heap is a set and `Top(n)` what n pops return.

**BatchQueue** has no locks, sequence numbers, counters or permits: requests arrive,
an owner takes the most urgent ones while fewer than `MaxOpen` batches are open, and
answers or drops all of them before it closes its batch. `InflightBatch!Promise` is
the refinement mapping. `waiting` is the heap, `open` the workers whose guard is
alive, `outcome` is itself, and `ahead`, which of its predecessors a request found
when it arrived, is `Earlier`, computed from the sequence numbers. `Push` is the
arrival, `Drain` the taking, `Answer` the answer, `Finish` and `Abandon` close the batch,
`ClearQueue` is `Clear`; the steps of locks, counters and permits stutter. The
mapping shows that a batch, decided on under the read lock and taken under the write
lock, is of the most urgent requests at the moment it is taken.

**CircuitBreaker.** `TryAcquire`, `Success`, `Trip`, `ResetState` need the mutex; the
other actions are the atomic writes outside it, and the two stores that close the
circuit under it, visible to failures that do not hold it. `failure_count` saturates
at its threshold (it is compared with nothing else; the wrap of a u32 after 2^32
failures without a success is out of scope). `Cancel` is Actix dropping the handler.
The handler reports a client's error as a success, so `Success` covers both. `Reset`
and its steps are in the module and in the proofs; no run takes them, because the
server never resets a breaker.

**PredictPath.** `stage` is where a request is, from the logger's `record_request_start`
(`Arrive`) to `record_request_end` (`End`). The limiter has an entry
per address, `count` and its age `since`; `RealIp` and `Peer` are the addresses by which
middleware and handler find theirs (`Key`). `Check` is `is_allowed` under the entry's lock, `Miss` and `Insert` the two
steps of a first request. `behind` is how old the clock is that a handler read before it
got the lock: the entry may be newer, and the u64 difference wraps, which is why
`Expired` has two disjuncts (a release build; a debug build panics there).
`SweepBegin`/`Sweep` are `cleanup_old_entries`, from entry to entry on one reading of the
clock, with the same difference. `Body` is the arrival of the body, between the two
checks. `cached` and
`fresh` are the deduplicator: its keys contain the second, so that a result is valid in
the window it was asked for in. `Admit`, `Answered`, `Drop` are `CircuitBreaker`'s
`TryAcquire`, `Record` and `Cancel` with their places on the path. A request may be
dropped at either of the two waits, for its body and for the engine; after that neither
the breaker nor the monitor hears of it. The requests have a valid token and a
body that can be parsed: one without is answered 401 or 400 and gets no further.

**BatchProcessor.** `call` is a caller of `add_request` with its locals `len` and
`oldest_ts`, `pc` a consumer that does what the comments of `wait_for_dispatch` ask
for: wait, check, take. `Wake` is the notification or the timeout, whose length is
not modelled. The two loads of the age check (time, and depth for the adaptive
timeout) are one step; `clear_batch`, which stores under the mutex, too.
`BATCH_EPOCH` is taken to be set before the first request is built.

**SessionPool.** `locked` is the mutex, because who finds it taken matters.
`Lock`/`Pop` are the block in `acquire`, `TryLock`/`Discard`/`Push` the body of
`SessionGuard::drop`, `Release` the drop of its permit. A synthesis is the time a
caller is `running`; it runs on the blocking pool and cannot be cancelled there.

**Speech.** `ws` is `SessionState` with the wait for a transcript and the closed
connection; `rx` the receiver that the state `Tts` owns; `heard` and `told` what
the client was sent. `at`, `result` and `chan` are a pipeline: the sentence it
is at, what its synthesis gave, the bounded channel. `Synthesize` takes the pipeline
through the steps of `SessionPool`, `Send` waits for room or finds its receiver gone.
`Become` is every change of the session state: it drops the old receiver, which the
pipeline notices at its next send only, so that it still occupies a session
meanwhile. `StartTts`, `SttBegin`, `Audio`, `SttEnd`, `Close` are the messages, which
the loop reads while it speaks; `Chunk` and `TtsDone` the channel's branch of its
`select!`. A pipeline that has ended and is read no more stands for a later one.

**ModelDownload.** `worker` is a worker's place in `execute_download`, `tasks` the
task map, `note` the update of the map that has not reached the watch channel yet:
`notify_task_subscribers` is a step of its own. `disk` is a model's directory, absent,
partial or complete; two tasks may write one model, and `delete_model` removes the
entry and then the directory. `Fetched` may leave the files partial, because a file
that is answered with an error status is skipped. `Lookup`, `CreateChannel`,
`InsertChannel` are the three steps of `subscribe_task`, `Send`, `Changed`,
`SenderDropped` the loop of `get_download_events`. `Abort` stands for every `?` of
`execute_download`, `Panic` for what `spawn_logged` catches (in a development build: the
release profile aborts, which is `Crash`). `Crash` forgets everything but the disk, and
`ScanCache` lists what it finds there.

**AgentRun.** The LLM service has one HTTP worker thread and its handlers decide without
an await, so `StartRun`, `RefuseRun`, `StartChat` and `RefuseChat` are one step each; a
chat with an image, which waits for a description of it and may be refused after that,
takes a second (`Describe`). A client may ask for a plan of no steps. `Gate` is
`MemoryGate::admit` with its two marks. `exec` is a run's place in `run_inner`, all its
exits included; `queue` the event channel; `conn` the response stream, which holds
the run's permit (`slots`): a client that leaves frees it, while the executor goes
on until it notices at the head of a step. `Take` and `Give` are the engine lease around
`propose` and `reflect`. A chat's inference is a task too: it waits for the lease
although its client may have left. Plans, tool results, and at which step the
deadline passes are chosen.

**LlmService.** `child` is the process with the server's handle of it, `port` who
listens on 8001. `Listen`, `Exit` and `Other` are what the operating system shows of
processes; `Watch` is the watchdog's look at its children under the lock, `Respawn` the
spawn after it, which may fail (`lost`). A shutdown is two tasks that wait for the same
thing, the end of the HTTP server: one kills the children and leaves the process (`Kill`,
`Quit`), the other is `main`, which leaves it at once (`Quit` without a `Kill`). The
watchdog drops the handle of a child
that has exited whether or not it can respawn it: after an exit at a moment at which
the port is in use, or after a spawn that fails, it never tries again.

`Counting` defines how many elements a function maps into a set, `FiniteLemmas`
proves facts about it. The `MC` modules only add symmetry sets, a priority
function, the model of each task and the addresses of the callers.

## 4. Runs

| run | instance | shows |
|---|---|---|
| `worker_pool_growing` | 2 tasks, 0 to 3 workers, only growing; pause, resume, shutdown | every index of the vector circulates exactly once (`EveryWorkerAccountedFor`), and tasks are lent workers as `WorkerLending` lends them, the longest idle one first (`KeepsLending`) |
| `worker_pool_scaling` | 1 task, 2 to 3 workers, rounds that add and remove; pauses, shutdown | the size stays within its limits although decided on stale values; the count of active workers stays exact although workers in use are removed; the scaler ends although scans hold the lock it waits for |
| `inflight_batch` | 3 requests of 2 priorities, 2 workers, batches of 2, 1 permit | all safety invariants, and that every step is one of `BatchQueue` (`KeepsPromise`) |
| `predict` | 2 requests at a time of one address, thresholds 2, timeout 1, 3 requests per window, 1 dropped | an open circuit admits a call again (`Recovers`) although limiter and cache keep requests from it; clients with fewer requests at a time than a window admits are never shut out; a closed circuit at rest is below its threshold, without old successes; an open one has the time of a failure; the active count is explained |
| `batch_processor` | 3 requests, 2 consumers, batches of 2, clears | what the mutex protects stays right |
| `speech` | 1 connection, 2 pipelines, 1 other caller, 2 sessions, texts of 2 sentences, channel of 1 | order and completeness of the chunks, exclusion of sessions, and that every text ends, even when the pool has run dry |
| `model_download` | 2 tasks for one model, 1 permit, 2 streams of one task, deletions, crashes | no stream is told of an end that has not come, events never go back, a complete model is listed, permits are exact |
| `llm_service` | 2 runs of up to 2 steps, 1 chat, 1 run permit, 1 lease, channel of 1; crashes, a foreign process on the port | permits are exact, the events of a run form one conversation that ends with `final`, runs and chats end, a service that has exited comes back |

Four runs end in a violation, each of a claim the repository makes and the code
does not keep:

| run | what happens |
|---|---|
| `batch_processor_full` | a queue filled while `get_batch` clears the atomics has a published depth of 0: it is never dispatched and refuses every add |
| `session_pool_empty` | a guard dropped while the mutex is taken loses its session, and a later call with a permit finds the pool empty |
| `model_download_stream` | the last update of a task falls between the copy and the registration of a new channel: the stream of the finished task never closes |
| `server_orphan` | the HTTP server has stopped, and `main` leaves the process before the task that waits for the same moment has killed the LLM service |

Limits of what is claimed, for a reader who would expect more:

* `EveryWorkerAccountedFor` and `KeepsLending` are claimed of a pool that only grows.
  `remove_idle_worker` renumbers the indices in the queue, but not those that a task
  has popped or will push back, so after a removal an index can name no worker, or
  one that another task has. `WorkerLending` has no step that takes a worker away.
* The depth and the time that `batch.rs` publishes agree with the queue at no moment
  that could be named: the accesses outside the mutex overtake each other. Only what
  the mutex protects is claimed.
* `OpenHasFailure` needs a breaker that is never reset, as in the server, where
  only tests call `reset()`: the last store of a reset can erase the time of a failure
  that has opened the circuit since its first.
* Nothing is claimed of how many successes close a half-open circuit: a failure clears
  the count of successes before it waits for the mutex, and a success counted in between
  survives into the next half-open period.
* `try_form_batch` may form a batch smaller and younger than its check asked for,
  because only emptiness is checked again under the write lock. `BatchQueue` says so: it
  has no condition on the size or age of a batch.
* `ActiveIsExplained` counts the dropped requests: the monitor's number never goes down
  again after one.
* `NotShutOut` is claimed of clients that have fewer requests under way than a window
  admits, all with a valid token and body. Where both checks find the same entry, as many
  requests as `MaxRequests` can use up every window in the middleware, and the handler,
  which counts them a second time, refuses each of them, in every window. The run takes
  one address for both, the case in which the checks compete for a window.
* The limiter's count is within its limit (`PathTypeOK`), which does not bound the requests
  admitted in a window: two first requests may both insert an entry, and a request
  whose clock is older than its entry begins the window anew.
* `BatchesWithinSize` relates the two counters at one instant. The average that `get_stats`
  reports divides a later load of the requests by an earlier one of the batches and can
  exceed the largest batch.
* A task whose worker panics stays in the status it had; `CompleteIsListed` is about
  tasks that were completed.
* `NoFalseEnd` lets a client that was told *Completed* find the task *Failed*: the task
  is completed before its directory is measured and its model listed, and either may
  fail then.
* A run's permit says nothing of how many executors run: those whose client has left go
  on without one.
* `ServiceReturns` excepts a child that exits, or is seen to have, while another process has
  the port, and one that cannot be spawned: the watchdog forgets both.
* The resets of the breaker, and removals from the worker pool under two tasks, are
  covered by the theorems only (`ClosedCorrect`, `CountCorrect`).

**Bounds.** Each race found or excluded needs at most three actors: one between two
of its steps, one that changes what the first relies on, and one that observes.
Two workers suffice to have one removed and one renumbered; two sessions to have one
returned while another is taken; one permit and two workers, or two runs, to have
contention for it; three requests to fill a batch of two and leave one; two sentences and
a channel of one for a pipeline to wait for its reader; two streams of one task for one
to replace the other's channel; two tasks of one model for one to truncate the files of
the other. Two pipelines let one still run for a text that was given up while the next
one speaks. A timeout of 1 or 2 ticks distinguishes young from due. A request is at most
one tick behind its clock (`Pass`), and ages saturate where the clean-up takes an
entry. `MaxDropped` bounds the requests whose future is dropped: without it the count of
active requests would grow for ever. The proofs remove the bounds of the safety
properties, of `EveryWorkerAccountedFor` and `KeepsLending` for every pool that only grows. `UsizeRange` (2^16 for 2^64) only has to exceed every
count. In `worker_pool_scaling` the active workers never outnumber those the scaler has
counted; that its difference may wrap, which takes three tasks, is covered by the
proof of `PoolWithinLimits`. Pauses are scans that hold the lock, as resumes are, so that
one of the two is enough to keep the scaler waiting. Symmetry is used in safety runs only, over sets whose elements the
specification does not tell apart. The deadlock check is off in `llm_service` and
`server_orphan`, where the server stops.

**Fairness.** Each assumption is one that Tokio, `parking_lot` or the caller makes
good: a task that is ready runs, a loop without an await proceeds, time passes
(`Tick`, `Pass`), and a lock, semaphore or channel with waiters in a queue is not
overtaken for ever (strong fairness of `ScaleUp` and `RemoveIdleWorker`, without which
pauses, each with the lock for a while, would keep the scaler out for ever; of pipelines and of
the calls of other users of the engine, of runs and of chats that wait for the lease).
In addition:

* `PathSpec`: requests keep arriving and handlers run to their next await. Nothing is
  assumed of drops or of which requests fail.
* `SpeechSpec`: a client takes its chunks, syntheses end. Nothing is assumed of messages
  and of whether the other caller comes.
* `ServiceSpec`, as long as the child lives: the engine answers, tools answer within their
  deadline, and a client that reads nothing leaves in the end. The last is more
  than the code ensures: a chat passes tokens on with a blocking send and holds the lease
  as long as its client neither reads nor leaves. The watchdog polls for ever and ends
the spawn it has begun.
* `ModelDownload!FairSpec`: workers and writers run, and a download ends, because its
  request has a time limit. Only `model_download_stream` uses it.
* `BatchProcessor!FairSpec`: a consumer keeps waiting and taking, and a call of
  `add_request` that has begun ends. Nothing is assumed of whether it begins.

## 5. Proofs

TLAPS proves, for every value of the constants allowed by the modules' assumptions:

* `InflightBatchProofs`: type correctness, all safety invariants of
  `inflight_batch`, and that the processor implements `BatchQueue` (`Implements`).
  None of the invariants is inductive by itself. `IInv` adds that permits plus
  workers between acquisition and release make `MaxInflight` (`SlotsExact`, which
  gives the limit and keeps the counter from wrapping), that only guards that are
  alive own requests (for `OneHome`), that sequence numbers are unique and below
  `next_seq` (for the order), that batches being completed are counted before their
  requests (for the ratio of the two counters at an instant), and that the caller whose size covers the queue is
  still on its way to `fetch_max` (for the peak). One lemma per part shows that every
  step preserves it. The refinement uses the same invariant: an arrival is ahead of
  nobody because its number is the largest (`PromiseArrive`), what `Top` returns is closed under
  `Before` (`TopIsPrefix`, `PromiseTake`), fewer batches than `MaxOpen` are open because the worker
  that drains already has its permit, and all other steps stutter (`PromiseHidden`).
* `PredictPathProofs`, of the breaker: type correctness; `ClosedIsClean`, from `TripPending` (a
  count at the threshold is carried to the mutex by some caller) and
  `SuccessesPending` (successes of a closed circuit belong to a transition in
  progress); `OpenHasFailure` under the assumption `Resets = FALSE`.
* `PredictPathProofs`, of the path: it is a behaviour of `CircuitBreaker` (`PathUsesBreaker`), so
  that the breaker's theorems hold of the handler; the limiter's count of each address stays
  within its limit, and an address has an entry exactly if it is counted; `ActiveIsExplained`. The count of active
  requests changes with the stage of one request at a time (`CountStep`, by the
  cardinality of a set that gains or loses one element).
* `SpeechProofs`, of the pool: type correctness; exclusion; and that with one session
  `SessionPerPermit` does hold, because the only caller with a permit finds the mutex
  free, the complement of `session_pool_empty`.
* `SpeechProofs`, of speech: `InOrder`, `DoneMeansAll`, and that speech is a behaviour of
  `SessionPool` (`SpeechUsesPool`), so that exclusion holds of it (`SpeechKeepsPool`). `InOrder` is not inductive: `NoGap` adds that the
  sentence a pipeline is at follows what was sent and what is in its channel, and
  `OneReader` that a channel has at most one reader, which is speaking, and is empty
  without one.
* `WorkerPoolProofs`: type correctness, `ActiveCountExact` and `PoolWithinLimits`, by an
  induction over all three at once. That `add_worker` finds a free name, and so
  overwrites no object in use, is a counting argument over the vector and the tasks
  (`FreeName`); the count moves with the program counter of one task
  (`CountStep`); the limits hold because both branches look at the length again under
  the write lock, so nothing is assumed of the values the scaler decided on.
* `WorkerPoolProofs`, `NoneLost`: `EveryWorkerAccountedFor`, under the hypothesis
  `GrowsOnly` (no auto-scaling, or a threshold that no load is below), without which it
  is false (section 4). `Accounted` says that each index of the vector is in the queue
  or with one task, never with two, and that objects know their index. The step that
  is hard is the push: `ArrayQueue::push` drops what does not fit, and what
  fits is a pigeonhole argument (`Room`): the indices in the queue and the one to be
  pushed are different and below the length of the vector, which `PoolWithinLimits` keeps
  within the capacity. `Growing` adds where the scaler can be when it never removes.
* `WorkerPoolProofs`, `LendsInTurn`: a pool that only grows implements `WorkerLending`, under the
  same hypothesis and from the same invariants. `Accounted` says that a task's index still
  names the worker it was lent when the task comes to look it up (`LendingHidden`) and
  when the task pushes it back (`LendingPush`), and with `Room` that the push is not
  dropped; `LineGrows` and `LendingPop` carry this from the queue of indices to the line
  of workers. That a vector with room leaves the abstract pool room for one more is a
  bound on the image of the vector (`MembersBounded`).
* `BatchProcessorProofs`: type correctness, `AcceptedOnce`, `OldestExact`, and that the heap
  stays within `max_batch_size` (`QueueBounded`). Their conjunction is inductive: a request that is pushed is a new one
  because the heap holds accepted requests only, so the heap grows by one.
* `ModelDownloadProofs`: type correctness with the permits, `NoFalseEnd`, `EventsInOrder`
  and `CompleteIsListed`, all from `DownloadIInv`. What a stream has told may never be
  after what its task is in, along a chain of copies each of which may be old: task
  map, update on its way (`note`), value of the channel, last event of the stream.
  `Told` and `Heard` say that each link is `NotAfter` the one before, with `NotAfter`
  the order of the statuses, in which a completed task may still fail; `Carried` ties a
  task's status to the place of its worker, so that tasks only move on, and a
  stream with a channel that was replaced meanwhile is behind but not wrong.
  `CompleteIsListed` is an invariant of tasks, disk and list: every
  action that completes files or takes a model off the list leaves someone at work on it.
* `LlmServiceProofs`: type correctness with both kinds of permits, `DoneMeansFinal` and
  `EventGrammar`, of the composition: a crash and a new child return the service to its
  initial state, and the invariant of `AgentRun` with it.
  `RunIInv` relates, for each run, three views of its conversation: the place of the
  executor, the events in the channel and the last one the client was sent. `Talk` says
  that they continue each other, so that what is delivered next is allowed by
  `Follows`; `Manners` that a stream has ended only after `final` and with its executor, and that
  nothing is queued for a client that is not there; `StepsLeft`
  that the count of steps agrees with the place. Each of the executor's exits is one of
  five kinds of step (it speaks, is silent, leaves, asks for the engine or returns it), and
  the conversation is shown to survive the kind, not each action.
* `FiniteLemmas`: a bounded set of naturals has a maximum; how a count changes when
  a function changes at one point.

Model-checked only: everything about liveness (`ScalerStops`, `Recovers`, `NotShutOut`,
`SpeechEnds`, `RunsEnd`, `ChatsServed`, `ServiceReturns`), since fairness and ENABLED are
beyond the prover, and the four violations. What a recursive definition computes would
be, too, but no module has one.

## 6. Not modelled

* Code no caller in the server reaches, so that there is no use to model its steps from:
  the per-model breaker, retry, the token bucket, the model instance pool (whose
  `acquire` drops its permit when it returns, although its doc says that it waits for a
  free instance), the response cache and the bulkhead (constructed, and taken by no
  handler), `Monitor::reset`.
* Operations of a single step: the result cache, an LRU map behind one mutex; the
  registry and the model manager, maps of which every operation is one access; the pools
  of tensors and buffers, whose users take and return a buffer within one call.
* Data: numerical code, tokenizers, audio and image processing, ONNX Runtime and
  libtorch. Their results are chosen.
* Without a decision that depends on state: configuration, authentication, validation,
  telemetry, compression, post-processing. The web dashboard, packaging, benches and
  tests.
* Of modelled components: the worker pool's health checker; `process_with_timeout` of the
  batch processor; the eviction of deduplicated results; of the downloads the checks of
  names and hosts; of the TTS manager the choice of an engine; of `ws_infer` a loop
  without state; of `main.rs` the wiring.
