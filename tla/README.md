# kvcache-serve: a TLA+ model of its request processing

kvcache-serve answers chat requests with a language model in two ways. The
synchronous way (`POST /chat`) runs the inference inside the API process. The
asynchronous way (`POST /queue/chat`) stores a job in Redis; worker processes
take jobs from there, and a reaper process takes back the jobs of workers that
died. The asynchronous half is where processes, crashes and timeouts meet; in
the synchronous half threads share a lazily loaded model and the books of the
service. The two halves share no state. `ReliableQueue` composes the first and
is itself composed with its clients, its metrics, a Redis that restarts and a
Redis client that repeats commands; `ChatServer` composes the second. Everything
below was read from `app/`; file names in this document are relative to `src/`.

## 1. Inventory

| part | code | state | operations | modelled |
|---|---|---|---|---|
| task queue | `app/scheduler/redis_queue.py` | two Redis lists, the claims hash, the dead letter list, status and result keys, counters, histograms | `enqueue`, `dequeue`, `set_processing`, `requeue`, `set_result`, `set_error`, `recover_stale_tasks`, the reads | yes |
| worker | `app/worker.py` | the task it runs | loop of `main()`, `process_task()` | yes, inference as success or failure |
| reaper | `app/reaper.py` | the snapshot of the claims it works through | loop of `main()` | yes |
| queue API | `app/api/queue.py` | none of its own; the status it has read | submit, poll status, poll result, statistics | yes |
| chat API | `app/api/chat.py`, `app/kvcache/runtime.py` | counters, active requests, last state, ring of events, under a lock | `chat`, each `generate` in a thread; the runtime's methods | yes, but cancellation at shutdown |
| generation | `app/inference/transformers_backend.py`, `backend.py`, `result.py` | token list, KV cache, policy counters | prefill, decode loop, policy after each step | control, token counts and sizes |
| KV policies | `app/kvcache/policy.py`, `noop_policy.py`, `registry.py` | registry of names | create, apply | NoOp, and the interface for one that evicts |
| estimator | `app/kvcache/estimator.py` | none | length and size of the cache | yes |
| legacy generator | `app/inference/generator.py` | none | `generate`, its own estimate | its loop and its estimate |
| model loader | `app/inference/model_loader.py` | the loaded model, a lock | `load` with double-checked locking, `get` | yes |
| metrics | `app/metrics/*.py`, `app/api/metrics.py` | in-process counters | read a snapshot, render it | the snapshot and one gauge |
| deployment | `deploy/`, `docker-compose.yml` | the append-only file of Redis (`deploy/k8s/redis.yaml` only) | restart | what a restart of Redis restores from it |
| mock backend, wiring, benchmark | `app/inference/mock_backend.py`, `app/main.py`, `app/api/health.py`, `benchmark/` | none | - | no |

How the parts of the asynchronous half interact. There are no messages: the
processes share the keys of one Redis.

    API --SET status, RPUSH--> tasks --BLMOVE--> processing --MULTI--> result | dead letter
                                 ^                   |
                                 +---- Lua script ---+   (reaper, for claims past the timeout)

Redis executes one command, one MULTI/EXEC block or one Lua script at a time.
Everything between two of them may be interleaved with any other process, may
fail, and may be the last thing a process does. What makes this hard:

* a job is described by several keys (list entry, claim, status, result,
  counters) that are not all written together, nor read together;
* the claim is written after the payload was moved, by a command of its own;
* claims are overwritten (`HSET`) and deleted (`HDEL`) by job id, whoever wrote
  them;
* a list element is removed by its text (`LREM`), so two equal texts would be
  mixed up;
* the reaper acts on a snapshot of the claims, and two reapers overlap during a
  rolling update;
* a timeout says that a worker is slow, not that it is dead: a late worker
  comes back and finishes, retries or buries a job that was recovered meanwhile;
* a Redis call may be executed and its reply lost, and `set_result()` is called
  inside the `try` whose handler retries the job; a Redis client that retries by
  itself executes the command twice;
* status and result expire 3600 s after they were written, the job does not;
* Redis itself may restart and come back with the keys it had a second ago,
  while workers remember what happened since.

In the synchronous half, the handler of a request runs on the event loop up to
the await of `asyncio.to_thread` and again after it; between the two,
`generate()` runs in a thread of its own. The threads meet in `model_loader` (one
lock, and attributes also read without it) and in `kv_cache_runtime` (one lock
around every method). Loading may raise under the lock, inference may raise
anywhere, the ring of events is bounded, and the length of the cache is known in
three ways: measured in one of several formats, computed from the configuration,
and counted by the policy.

What makes each part correct: the queue loses no job and gives no job more turns
than its budgets allow; the worker acknowledges exactly the payload it took; the
reaper takes back only what it scanned; what a client polls is backed by the
rest of the store, never taken back and in the end final; the pages of the
metrics agree with themselves; all threads use one prepared model; every request
is counted once and leaves; a reader of the status sees counters, last states
and events that belong together; the numbers of an answer agree.

## 2. Modules

| module | models | its state |
|---|---|---|
| `RedisStore` | the keys of `redis_queue.py` and the Redis commands on them | `tasks`, `processing`, `claims`, `deadLetter`, `status`, `results`, `stats`, `clock` |
| `Producer` | `enqueue()` in the API process | `stage[j]`: where the call for job `j` stands |
| `Worker` | `worker.py` and the queue methods it calls | `pc[w]`, `task[w]`, `remembered[w]` (`processing_payload is not None`), `reading[w]` (its last `time.time()` in a claim) |
| `Reaper` | `reaper.py`, `recover_stale_tasks()` and its two scripts | `snapshot[r]`, `rpc[r]` |
| `ReliableQueue` | their composition, its fairness and properties | - |
| `JobApi` | with it, the polling endpoints of `api/queue.py`, one read per step, and the expiry of status and result | `request[j]`, `answer[j]`, `lapsed` (history) |
| `QueueMetrics` | with it, the histograms, `get_metrics_snapshot()`, one read per step, the collector and `GET /queue/stats` | `buckets`, `scrape` |
| `DurableQueue` | with it, a Redis that restarts from its append-only file | `durable`, `safe` (history), `restarts` |
| `ResendingClient` | with it, a Redis client that sends a command again when its reply is lost | `sent`, `resends` |
| `AtLeastOnce` | abstract: what the queue promises whatever fails | `submitted`, `held`, `stored`, `buried` |
| `JobLease` | abstract: what it promises when nothing expires early and no Redis call fails | `phase`, `owner` |
| `PolledJob` | abstract: what a polling client is promised then | `outcome`, `told`, `lapsed` |
| `ModelLoader` | `model_loader.py`, one attribute access per step | `lock`, `loaded`, `tokenizer`, `model`, `handle[r]`, `pc[r]` |
| `KVCacheRuntime` | `runtime.py`, one method per step | `total`, `finished`, `errors`, `active`, `lastState`, `lastPolicy`, `events` |
| `Estimator` | `estimator.py`, the loop and the estimate of `generator.py`, as operators | - |
| `Generation` | `generate()` and `apply_policy()`, the policies | `gen[r]`: the local variables |
| `ChatServer` | `POST /chat` around them, its fairness and properties | `gauge` |
| `MCReliableQueue`, `MCJobApi`, `MCQueueMetrics`, `MCDurableQueue`, `MCResendingClient`, `MCChatServer` | instances for TLC: symmetry and views | - |
| `LibraryLemmas` | lemmas about the operators of the community modules that the models use | - |
| `ReliableQueueProofs`, `QueueLeaseProofs`, `QueueMetricsProofs`, `JobApiProofs`, `QueueFaultProofs`, `EstimatorProofs`, `ChatServerProofs` | theorems about these modules and their proofs; `QueueFaultProofs` is about `DurableQueue` and `ResendingClient` | - |

In the queue, one action is one Redis command, MULTI block or script; the local
computation around it belongs to the same action. A worker goes through

    idle -Dequeue-> record_claim -RecordClaim-> mark_started -MarkStarted->
    save_processing -SaveProcessing-> count_attempt -> observe_wait -> generate

and from `generate` to `count_completed` (result stored) or to `handle_error`
(anything in the `try` raised), from there through `Requeue` or `SetError` and
their counters to `record_duration` (the `finally`) and back to `idle`. `Crash`
takes a worker from any step of `CrashPcs` to `idle`: its supervisor restarts it
and it remembers nothing.

Around it, in the modules that extend `ReliableQueue`:

* **Clients** (`JobApi`). A request is its first read (`ReadStatus`,
  `ReadForResult`, or an answer at once: `NotFound`, `AnswerFailed`) and its second
  (`AnswerStatus` after `queue_size()`, `AnswerResult` after `get_result()`), with any
  steps of the queue between them. Readers change nothing, so one client per job,
  asking again and again, stands for many. `Polled` are the jobs that have one.
* **Expiry** (`JobApi`). The keys of a job expire in the order of their last
  writes: a result never outlives a status completed, which is written in the same
  MULTI, and is outlived by a status that was written later. Besides that, and
  within `Polled`, any key may expire at any time (`KeysExpire`).
* **Metrics** (`QueueMetrics`). A scrape takes six commands in the order of the
  code; `GET /queue/stats` takes the first four. A step that raises the count of a
  histogram observes some duration, and its MULTI increments every bucket it fits in.
* **Restarts of Redis** (`DurableQueue`). The append-only file is synced every
  second (`appendfsync everysec`, `README.md:959`, `deploy/k8s/redis.yaml:48`), at any
  command boundary (`docker-compose.yml` configures no such file, and the module says
  nothing of a Redis started by it): `Fsync` copies the keys to `durable`, `Restart` copies them back.
  A call that was interrupted and not executed is the refused call of
  `ReliableQueue`. `SyncsInWindow` says whether the file may end between a `BLMOVE`
  and its claim.
* **Repeated commands** (`ResendingClient`). `requirements.txt` names no release of
  redis-py, and recent ones retry by default: the command just executed is executed
  again, after any steps of others. A repeated command of a worker or reaper puts
  the process back to where it sent it; a repeated `RPUSH`, `MULTI` of `requeue()`
  or `HSET` of a claim is executed as it was built, with the time it was built with.

What is abstracted, and why that is enough:

* A **payload** is the JSON text of a task. The properties need to know when two
  texts are equal, so a payload is a record of the job and of the three fields
  that change: `attempts`, `recoveries` and `created_at`. Time readings given to
  `created_at` are numbered per job; two readings are taken to differ.
* A **claim** is a payload, a worker, whether `processing_started_at` is in it, and the
  later of its two time readings, numbered per worker. The reaper's scripts compare
  the text of the claim they scanned with the one that stands; where commands are
  repeated, a payload may be moved to one worker twice, and only the readings tell
  the two claims apart.
* **Time** appears only as "this claim may be past its timeout" (`MayBeStale`).
  With `Preempt = TRUE` any claim may be, at any scan. With `Preempt = FALSE` only
  the claim of a payload on which no worker works any more: that is a deployment
  whose timeout exceeds every execution, which `README.md:979` asks for.
* **Inference** succeeds or raises, and so does every Redis call when
  `RedisErrors`: it may be refused, or executed with its reply lost. The
  `queue_size()` that `POST /queue/chat` calls last (`app/api/queue.py:58`) has no step: it
  writes nothing, and whether it raises decides only if the client learns its job id.
* `max_retries` travels in the task but never differs from the default, so it is
  the constant `MaxRetries`.

In the synchronous half:

* A request goes `new -Accept-> register -Register-> dispatch`, then either (mock
  backend) straight to `returned`, or through the steps of `load()` and `get()`,
  `prefill`, `report_created`, `decode`, ..., `report_updated`, and from
  `returned` or `raised` by `Finish` or `Fail` to `leave` and `done`.
* A **runtime method** takes the lock for all it touches, so it is one step; its
  caller's local computation belongs to that step. The gauge is changed outside
  the lock, by steps of its own.
* The **model** and the **tokenizer** are the numbers of their `from_pretrained()`
  calls, so that loading twice is visible as an object with another number.
  `ready` says that the model was moved to its device and put in eval mode.
* The **cache** is its length and its format. A call of the model is external: it
  appends an entry per input token, and its new token may end the sequence. A
  tensor is its shape; `Cache(format, n)` is what the estimator can find in a cache
  object of the given format: a tuple of pairs, an object that converts to one (and
  has lists of tensors as well), one with the lists only, one with a list of
  layers, or one in which nothing can be read (`opaque`). All requests of a process
  see the format of the one library that is installed.
* **Policies**. The repository has only the NoOp policy, whose `budget` is
  `NoBudget`. `policy.py` defines the interface for others (`tokens_before`,
  `tokens_after`, the evictions added up by `build_result()`); one that keeps at
  most `budget` entries stands for them, marked external in the map.
* An **opaque cache** makes the estimator fall back on a formula that leaves out
  the last token and knows nothing of evictions. That is right for the final report
  without evictions, and `AnswerConsistent` is stated for those answers (`Measured`).
  When the policy is called, the token count does not include the new token yet, so
  that with an opaque cache the policy is told one token too few from the first
  decode step on. `README.md:1064` and `1107` (the current number of cached tokens, and
  the number before the last application) and `tests/test_kvcache_policy.py:146-155`
  (5 + 2 tokens, 7 cached) say that it is told the length of the cache. The difference
  shows only with a cache object in none of the formats the estimator reads;
  `PolicySeesCache` is stated for readable caches and does not cover it.
* **Shapes**. The heads and the element size of the configuration (`num_attention_heads`
  or the like, the table of `dtype_to_bytes()`) and those of the tensors (`shape`,
  `element_size()`) are one constant each. Which of them is used matters only for
  the size of an opaque cache. `estimate()` of no cache at all (`None`) is left out:
  the model is called with `use_cache=True`.
* The estimator is evaluated once per format and length: the functions `Estimates`
  and `OlderEstimates` tabulate `Estimate` and `EstimateKvCache`.
* Refused requests change nothing and are left out, and so is a handler that is
  cancelled when the process stops. `Finish` does not raise: an exception between
  `request_finished()` and the end of the `try` (`app/api/chat.py:132-162`) would count the
  request as failed too, but only the `ChatResponse` is built there, from results
  that have the types of its fields.
* A runtime method is one step because its lock is held for all it does; a missing
  lock would not be seen.

Bounds. The queue and the chat server are not bounded artificially: both budgets
are finite, so attempts, recoveries, copies and counters are too. Only
`MaxRestarts` and `MaxResends` bound what could happen for ever. The instances fix
the numbers of jobs, workers and reapers and the budgets. One job suffices where
a property is about one job: jobs share only the two lists and the workers, and
a worker busy with another job behaves, for this one, like a worker that is
idle or late. `leased` has two jobs, of which one is polled. Two workers are
needed for a late worker to meet its successor, three for a third copy to meet
them; two reapers for the overlap of a rolling update. With timeouts that exceed
executions (`settles`, `balanced`) one worker is enough for liveness: it dies and
comes back without memory, as another would. One restart of Redis puts every
combination of old keys and newer memories together, and the theorem
`SyncedJobsSafe` covers any number; two repeated commands let a copy of a copy
arise, and the theorems of `QueueFaultProofs` cover any number of them. Two requests of the chat server let one load while another waits for the
lock, fails, or finds the model loaded (what they share is proved for any number
of requests, section 4); two tokens give one turn of the loop, and a ring of
three events overflows within one request. `Layers`, `Heads` and `HeadDim` are
small and not all equal, so that a size computed from the wrong dimensions, or
from the keys alone, is a wrong number.

## 3. Runs

Deadlock is not checked: when every job is settled all processes rightly wait,
and when every request is done nothing is left to do.

| run | module | instance | shows |
|---|---|---|---|
| `harsh` | `MCReliableQueue` | 1 job, 2 workers, 1 reaper, budgets 1/1 (retries/recoveries); crashes anywhere, failing calls, early timeouts | `TypeOK`, `NoJobLost`, `PayloadsDistinct`, `BudgetRespected`, `PayloadsKnown`, `StatusBacked`, `ImplementsAtLeastOnce` |
| `prompt` | `MCReliableQueue` | 1 job, 3 workers, 2 reapers, 2/2; crashes but between BLMOVE and HSET, failing calls, no early timeout | `SingleCopy`, `OneExecutor`, `SettledStatus`, `ClaimedOrExecuted` |
| `counted` | `MCQueueMetrics` | 1 job, 2 workers, 1 reaper, 0/1; crashes anywhere, failing calls; two bounds, durations below, between and above them | `CountersLag`, `WorkBounded`, `DeadLettersShown`, `BucketsCumulative` |
| `balanced` | `MCQueueMetrics` | 1 job, 1 worker, 1 reaper, 1/1; crashes only before the acknowledgement; fair | `PagesBalance` |
| `leased` | `MCJobApi` | 2 jobs, one polled, its keys expiring; 2 workers, 1 reaper, 0/1; crashes anywhere | `ImplementsJobLease`, `CompletedStays`, `ImplementsPolledJob` |
| `settles` | `MCJobApi` | 1 job, polled, 1 worker, 1 reaper, 1/1; failing calls, crashes but between BLMOVE and HSET; fair | `SettlesForGood`, `ClientConcludes` |
| `late` | `MCJobApi` | 1 job, polled, 2 workers, 1 reaper, 0/1; early timeouts; fair | `Drains`, `AnswersBacked` |
| `restored` | `MCDurableQueue` | 1 job, 2 workers, 1 reaper, 1/0; one restart of Redis; fair | `SyncedJobsKept`, `SyncedStatusBacked`, `SyncedJobsSettle` |
| `resent` | `MCResendingClient` | 1 job, 2 workers, 2 reapers, 1/0; two repeated commands, crashes anywhere, no early timeout | `BudgetRespected`, `CopiesBounded`, `ImplementsAtLeastOnce` |
| `chat` | `MCChatServer` | 2 requests, up to 2 tokens, ring of 3, every format of the cache, with and without evictions, loading and inference may raise; fair | `ChatTypeOK`, `OneModel`, `Accounting`, `EventsOrdered`, `LastEventsFresh`, `PolicySeesCache`, `AnswerConsistent`, `LegacyAgrees`, `LoadedForGood`, `EveryoneLeaves` |
| `stranded` | `MCReliableQueue` | 1 job, 1 worker, 1 reaper, 2/2; crash between BLMOVE and HSET; fair | violates `NoStuckProcessing` |
| `misburied` | `MCReliableQueue` | 1 job, 1 worker, 1 reaper, 2/2; failing calls | violates `DeadLettersFailed` |

`SYMMETRY` (workers, and reapers, are interchangeable) is used in the runs of the
queue without fairness. The `VIEW` `BehaviourOnly` of the queue drops what no
action reads: the counters, the order of dead letters and of the processing
list, the stage of a call that has pushed its payload, the step and the task of a
worker that only counts. The views of the other modules add to it what their
properties and actions read; `counted` adds the counters and the steps that write
them. Time readings are dropped from the claims: an action only asks of a claim that
was scanned whether it is the one that stands, so that is what the view keeps (and
in `resent`, whether it is one that a repeated `HSET` would write again). Runs with fairness use neither.

Fairness (`Fairness` in `ReliableQueue`): the API call and the worker loop go on
(WF), because they are straight-line code and their supervisors restart them;
the reaper wakes every interval for ever, so a scan that includes a given stale
claim happens in the end, and not every scan fails at its first command (SF).
Clients go on asking (WF of the first read) and not every one of their requests
fails half-way (SF of the second); Prometheus goes on scraping (WF). Nothing is
assumed about crashes, failures, early timeouts, expiry, fsyncs, restarts and
repeated commands: they may happen or not, as long as budgets and bounds let
them. In `ChatServer` (`FairSpec`) an accepted request takes its next step if it
can (WF for each request): its thread and the event loop are scheduled. WF is
enough for the lock of the loader, which each request takes at most once and
frees whatever happens.

Notes on single runs.

* `stranded`: a worker dies after BLMOVE and before the HSET of its claim. The
  payload stays in the processing list and, as the reaper scans the claims only,
  stays there for ever. `README.md:692` says the mechanism solves the problem of
  a task left in the processing queue by a crashed worker. `prompt` and `settles`
  show that this window is the only one.
* `misburied`: the MULTI of `set_result()` is executed and its reply lost, or its
  counter fails. The handler retries the job and in the end buries it with the
  reason "inference retry limit exceeded" and status `failed`, with its result
  stored. `README.md:699-702` names failing inferences and crashing workers as
  the only ways into the dead letter queue.
* `counted`: `CountersLag` is about four counters: submissions against jobs submitted,
  waits against attempts, dead-lettered against failed jobs, failed jobs against the
  dead letter list. No job is retried in this run; `WorkAlwaysBounded` is for any
  budgets. `DeadLettersShown` depends on the order of the reads. The snapshot
  reads the counters before the lengths, and a worker pushes the dead letter before
  it counts it: each may only make the list look longer than the counter.
* `balanced`: the equation of `PageBalanced` is wrong while a job is on its way (a
  scrape may count it twice or not at all), and stays wrong if a counter is lost to
  a failure; without one, it is right from some time on in every page.
* `leased`: a client may be told that a job is unknown (404), or completed with an
  empty result, when its keys expired: of a job that waited 3600 s before it was
  decided, too (`lapsed`), and of such a job the client may then learn a decision.
  Of any other job a decision is not taken back.
* `late`: `AnswersBacked` does not say that answers are final. With early timeouts
  a client may read completed and then queued again, which `README.md:979` describes
  as at-least-once; each answer is true when it is given. No worker dies and no
  inference is retried in this run. If a late worker overwrites or deletes the claim
  of a recovered copy *and* the worker that holds the copy then dies, the copy is stuck
  as in `stranded`; `Drains` does not cover that, and `NoJobLost` still counts it as held.
* `restored`: liveness assumes that no call fails and no worker dies besides the
  restart, and that the file does not end between a `BLMOVE` and its claim. A copy
  that came back may lose its claim to another copy of the same job and stay in the
  processing list, as in `stranded`, while the other settles the job: if that one's
  worker died as well, nobody would find it. Safety needs none of these
  assumptions (theorems `SyncedJobsSafe`, `SyncedStatusTrue`). A job that was never synced may be lost:
  the configuration allows that.
* `resent`: two equal texts may be in the lists, so that one worker removes the
  copy of another. `CopiesBounded` and the refinement show that this costs
  executions, never a job, and not more of them than commands were repeated. Without
  `claimed_at` in the claim, two reapers could recover one text twice: one with the
  claim it scanned, the other with a later one of the same text. All three, and what
  a status says, are proved for any number of jobs, workers, reapers and repeated
  commands (`CopiesBounded` for timeouts that exceed executions, as in the run).

## 4. Theorems

For all values of the constants (any sets of jobs, workers and reapers, any
budgets, with or without early timeouts, failing calls and crashes at any steps):

| module | theorem | states |
|---|---|---|
| `ReliableQueueProofs` | `TypeCorrect` | `Spec => []TypeOK` |
| | `Inductive` | `Spec => []IInv` |
| | `NothingLost` | `Spec => []NoJobLost` |
| | `BudgetsKept` | `Spec => []BudgetRespected` |
| | `CopiesKnown` | `Spec => []PayloadsKnown` |
| | `AtLeastOnceKept` | `Spec => ImplementsAtLeastOnce` |
| | `StatusAlwaysBacked` | `Spec => []StatusBacked` |
| `QueueLeaseProofs` | `NoSameText` | `Spec => []PayloadsDistinct` |
| | `OneCopy` | `Spec => []SingleCopy`, if `Preempt = FALSE` |
| | `OneWorker` | `Spec => []OneExecutor`, if `Preempt = FALSE` |
| | `SettledIsFinal` | `Spec => []SettledStatus`, if `Preempt = FALSE` |
| | `AlwaysInSight` | `Spec => []ClaimedOrExecuted`, if `Preempt = FALSE` and `"record_claim"` is not in `CrashPcs` |
| | `LeaseKept` | `Spec => ImplementsJobLease`, if `Preempt = FALSE` and `RedisErrors = FALSE` |
| | `WorkAlwaysBounded` | `Spec => []WorkBounded`, if `Preempt = FALSE` |
| `QueueMetricsProofs` | `CountersBehind` | `Spec => []CountersLag` |
| | `CountedLettersShown` | `MetricsSpec => []DeadLettersShown` |
| | `PagesCumulative` | `MetricsSpec => []BucketsCumulative` |
| `JobApiProofs` | `AnswersTrue` | `ApiSpec => AnswersBacked`, if `KeysExpire = FALSE` |
| | `PolledTruth` | `ApiSpec => ImplementsPolledJob`, if `Preempt = FALSE` and `RedisErrors = FALSE` |
| | `LeaseKeptPolled` | `ApiSpec => ImplementsJobLease`, under the same conditions |
| | `CompletedForGood` | `ApiSpec => CompletedStays`, under the same conditions |
| `QueueFaultProofs` | `SyncedJobsSafe` | `DurableSpec => []SyncedJobsKept` |
| | `SyncedStatusTrue` | `DurableSpec => []SyncedStatusBacked` |
| | `ResentWithinBudgets` | `ResendSpec => []BudgetRespected` |
| | `ResentAtLeastOnce` | `ResendSpec => ImplementsAtLeastOnce` |
| | `ResentStatusBacked` | `ResendSpec => []StatusBacked` |
| | `CopiesStayBounded` | `ResendSpec => []CopiesBounded`, if `Preempt = FALSE` |

For any set of requests, any limits, shapes and budgets, and with or without failures:

| module | theorem | states |
|---|---|---|
| `ChatServerProofs` | `ModelShared` | `Spec => []OneModel` |
| | `ModelStays` | `Spec => LoadedForGood` |
| | `BooksBalance` | `Spec => []Accounting` |
| | `PolicyIsTold` | `Spec => []PolicySeesCache` |
| | `AnswersConsistent` | `Spec => []AnswerConsistent` |
| | `LegacyAlwaysAgrees` | `Spec => []LegacyAgrees` |
| | `LastEventsAlwaysFresh` | `Spec => []LastEventsFresh` |
| | `EventsAlwaysOrdered` | `Spec => []EventsOrdered` |
| | `ChatTypes` | `Spec => []ChatTypeOK` |
| `EstimatorProofs` | `EstimateExact` | what `Estimate` returns for every format, length and shape |
| | `OlderEstimateExact` | what `EstimateKvCache` returns |
| | `LoopStops` | where the loop of the older generator stops, for every limit and end |

The assumptions are those the modules state. For the queue: the budgets are naturals
(`BudgetsAreNaturals`), `RedisErrors` and `Preempt` are Boolean, `CrashPcs` is
a set of worker steps, polled jobs are jobs (`PolledAreJobs`), and the value that
stands for a missing claim is none (`NoClaimIsNone`). Jobs, workers and reapers are
finite sets (`JobsAndWorkersAreFinite`, `ReapersAreFinite`); only the theorems of
`QueueMetricsProofs`, which compare numbers of processes, `WorkAlwaysBounded`,
whose bound is a multiple of the number of jobs, and `CopiesStayBounded`, which counts
workers in debt, use that. With repeated commands, no
worker is a reaper (`WorkersAreNotReapers`), as they are indices of one function there. For
the chat server: `Nobody`, the owner of a free lock, is no request; the model has
a shape (`ShapeIsPositive`), a prompt has a token (`PromptTokensIsPositive`: the template
around it has), a request may ask for one token and the ring holds one event
(`MaxTokensIsPositive`, `MaxEventsIsPositive`: up to 512 in `app/api/chat.py`, 100 in
`app/kvcache/runtime.py`), and formats and budgets are of their kinds
(`CacheFormatsAreFormats`, `BudgetsAreNaturals`).

The argument for the queue. Neither `NoJobLost` nor `BudgetRespected` is inductive. A worker or
a reaper may act on a payload that left the lists long ago, so what it writes is
only right because what it *remembers* is. `PayloadsKnown` says so: every payload
anywhere (lists, claims, the workers' tasks, the reapers' stale snapshots) belongs
to a submitted job and is within its budgets. The inductive invariant is

    IInv == TypeOK /\ PayloadsKnown /\ DeadLettersKnown /\ NoJobLost

For the step, each action of a worker or reaper is shown to have one of four
effects on the sets of copies, results and dead letters (`Effect`): it leaves them
alone, replaces a copy by another of the same job, stores a result, or buries a
job; the last three may remove the one payload they are about. `NoJobLost` and
the refinement both follow from `Effect` alone (`EffectOnJobs`, `EffectRefines`), so
that the cases of `Next` are gone through once. What the Redis commands do to the
elements of a list is proved in `LibraryLemmas`, from the definitions of the
community modules.

The status. For each job, a step of a worker or a reaper leaves its status and
all that may have become of it alone, or writes a status that the same MULTI or
script backs (`StatusStep`). With `EffectOnJobs` this makes `StatusBacked` inductive
relative to `IInv`. Both are used again, for two systems the queue is part of:

* `AnswersTrue`: the second read of a handler is as good as the first because
  results and dead letters are never undone (`ReadsBacked`), and the status of a job
  whose call was answered is there (`StatusThere`).
* `SyncedJobsSafe` and `SyncedStatusTrue`: after a restart `NoJobLost` and `StatusBacked` are false, as jobs
  that were never synced are gone, their status perhaps not. `DurableInv` says of the
  keys in memory *and* of those in the file that every payload is known, that a
  status is backed (queued only if anything is left of the job), and that the jobs
  in `safe` are kept. The lemmas about `Effect` and `StatusStep` need `TypeOK` and
  `PayloadsKnown` only, so they hold after a restart as before it. The theorems
  cover what the run leaves out: failing calls, deaths of workers, early timeouts,
  and a file that ends anywhere.

Repeated commands (`QueueFaultProofs`). `ResendInv` adds to `IInv` what a process was when
it sent its last command: its payload was known, and if that command was the
MULTI of `requeue()` a retry was left. A process that is put back there and
executes the command again has one of the four effects again, as `Effect` asks of the
payload only that it is known and within its budgets, not that it is still in the
lists; so has a command that is executed as it was built. `EffectRefines` and
`StatusStep` then give the refinement and `ResentStatusBacked` as for the queue alone.

Copies of repeated commands (`CopiesStayBounded`). That a job has at most
`resends + 1` copies is far from inductive: a copy may be removed on behalf of
another of the same text, and whoever was to remove it then finds none and may still
push the job again. So the copies are counted together with a *debt*. The
takers of a copy are the workers that remember it and the claim of a worker
that does not work on it any more (a token each, `Tokens`); a worker that may still
push and has nothing to remove (`Blanks`) is in debt. `Balanced(j)` says that there is a
set `D` of tokens, with all the blanks in it, such that for each text the takers
outside `D` are no more than its copies in the processing list, and the copies of
the job and the size of `D` together are at most what is allowed for. Eight lemmas on sets and
numbers say what this survives (`NewDebt`, `DebtPaid`, `TakerServed`, `CopyLost`, ...), and
each command is shown to do one of those things: `BLMOVE` makes a taker with its
copy, an acknowledgement removes a copy with its taker or pays a debt, a worker that
leaves hands its part to its claim, a command that is repeated brings room for one.

What a claim takes must be on nobody else's account: a reaper takes back a copy only
with a claim whose worker has stopped. `ClaimsInv` gives that. A scanned claim that still
stands is not covered by a worker on its payload (`ScannedStale`, where the timeout comes
in); readings in claims and scans are not later than the last one of their
worker, so a claim that is newly written is in no scan (`Dated`); a claim that a repeated `HSET`
would write is in no scan either (`BuiltFresh`), as the worker still covers it;
and a worker that has acknowledged its payload and may yet be put back to its
`MULTI` has no claim on it (`Acked`). `CopiesInv` joins the two with `ResendInv`.

Copies and owners (`QueueLeaseProofs`). Two functions tell payloads apart: `Stamp`,
the job with its `created_at`, and `JobOf`, the job alone.

* `NoSameText`. `StampInv`: no two payloads in the lists have the same stamp, and
  none that is kept anywhere (lists, claims, snapshots, local variables of workers)
  has one that is still to be given. The second half is needed because a late
  worker pushes again what left the lists long ago; a recovery keeps its stamp, but
  only after it took the payload out.
* `OneCopy` and `OneWorker`. `LeaseInv`: the lists hold one payload per job; a worker
  that may still write for its job (`Responsible`: `count_completed` is included,
  because a failing counter leads to the retry of a stored job) is alone, and what the
  lists hold of the job, if anything, is its own payload, in the processing list and
  remembered; a claim is older than the copies of its payload (`ClaimsOlder`), so
  that a payload which is dequeued is in no reaper's snapshot; and no claim in a snapshot is
  that of a payload someone works on (`ScannedIdle`), which is where the timeout comes
  in. Most steps only take copies, claims and owners away, and `LeaseFrame` covers
  them at once.
* `SettledIsFinal`. Only `set_processing()` writes a status that is not final without a copy to
  back it, and then its worker's payload is still in the processing list (`WorkedHeld`).
* `AlwaysInSight`. `ProcessingClaimed`: a payload in the processing list has its claim, or its
  worker is about to write it. It is a consequence of `LeaseInv` that nobody
  overwrites or deletes that claim.
* `LeaseKept`. The mapping of `ImplementsJobLease` computes the phase and the owner of a job
  from the store and the workers. `LeaseHeld` is what that needs besides `LeaseInv`: who
  executes a payload holds it in the processing list (`ExecutingHeld`, which a lost
  reply of `set_result()` would break), and a job that was buried has left the lists
  (`BuriedGone`). `Place` says in which phase and with which owner each job then is; each
  action moves one job, and the lemmas per action name the step of `JobLease` it is.
* `WorkAlwaysBounded`. The counter of attempts says nothing of jobs, so it is compared
  with a set: `Started` has the pairs of a job and the number k of a turn it has
  `Reached`, that is, whatever is left of the job has k retries and recoveries behind it, or
  is in its k-th turn with the attempt counted. What was reached stays reached, and each
  attempt that is counted reaches a turn that was not, as nobody else works on the
  job (`LeaseInv`). There are at most `1 + MaxRetries + MaxRecoveries` turns per job.

Polling without early timeouts and failures (`JobApiProofs`). `StatusLaw` says what a step
of the queue may do to a job's status, its result and its outcome: nothing, go on
while the outcome is open, or decide it once. `ApiHeld` adds to `LeaseHeld` that a status
says no more than the outcome and is missing only if a key lapsed or the job was
decided (`StatusTrue`), and that what a client has read and was told agrees with the
outcome, so that its second read cannot take back an answer (`ClientTrue`). From this
every answer is a step of `PolledJob` (`PolledTruth`) and a completed job is not written
again (`CompletedForGood`).

Metrics (`QueueMetricsProofs`). `CountersOwed` adds to the smaller side of each inequality
of `CountersLag` the number of calls, workers and reapers that stand between what
they did and its counter: one of them counts, or fails and leaves the inequality
slack. Each step moves one process, so each step keeps these books. For the pages,
`MetricsInv` says that both histograms are cumulative at every moment, that so is each
one a page has read, and that the list of dead letters, which is read after its
counters, is at least as long as they said.

The arguments for the chat server. `OneModel` says what the threads that generate
have; it holds because nobody writes the loader's attributes any more when they
get it. `LoaderInv` adds that a request is between its second test and the release
exactly if it holds the lock, that one that loads has seen `loaded` false and nobody
else can have changed that, and that the model is ready from `publish` on.
`Books` writes the two sizes `Accounting` compares as functions of where the
requests are (registered and not finished; accepted and not left), keeps both
sets finite although `Requests` need not be, and each step moves one request
across at most one of the borders.


The numbers of an answer follow from `GenInv`, one formula per request. `Stage` says how far
the turns of its loop have come at each step, `Counted` that the entries in the
cache and the evicted ones are together those the model has appended, `Sees` what
the policy left of the cache it was shown. What the estimator says of a cache is
proved once, from the definitions of the folds (`EstimateExact`, `OlderEstimateExact`), and
where the older loop stops from its recursive function (`LoopStops`): both are
defined by `CHOOSE` in the end, and the lemmas show the function that is chosen by
giving its values on the finite domain in question. The ring: the events of a request
have ranks in the order of its life, and all those in the ring are below the
point the request has reached (`EventsBelow`), so that what it logs next goes behind
them and an event that falls out of the ring is the oldest.

Only model-checked: liveness. Every invariant, action property and refinement that a
passing run checks is a theorem. Liveness under fairness (`SettlesForGood`, `ClientConcludes`, `Drains`, `PagesBalance`, `SyncedJobsSettle`,
`EveryoneLeaves`) is out of the prover's reach and stays with TLC.

## 5. Plan

Written first, because it is where processes, crashes and timeouts meet: the
queue. Then the synchronous half; then what surrounds the queue (clients and
expiry, metrics, restarts of Redis, repeated commands), the estimator with the
formats of the cache, evictions and the legacy generator; then the proofs, from the
queue alone to the systems it is part of, and the chat server. Every safety
property and every refinement a passing run checks is now also a theorem. What is left,
in this order:

1. Theorems the runs do not ask for: answers of the polling endpoints (`AnswersBacked`) when
   commands are repeated, and the pages of the metrics after a restart of Redis.
2. `LeaseKept` with failing calls, for an abstract lease in which a stored job may be
   retried and buried (`misburied`).
3. The claim that a late worker overwrites or deletes before the holder of the recovered
   copy dies: which of the two, early timeouts and that death, a deployment must rule
   out for `Drains`.

## 6. Not modelled

* The **mock backend** is a function that formats a reply; the **wiring** and the
  **health** endpoint register routes and return constants; the **benchmark** scripts
  are clients that measure. None keeps state that another part depends on.
* **Cancellation** of a handler at its await, when the server is shut down: the
  `finally` runs and the books are left wrong, but they are in the memory of the
  process that stops.
* The **first token** is not compared with the end of sequence (`transformers_backend.py`);
  the model follows the code in that, and whether it is wanted is a question about
  texts, which are not modelled.
* Names: the **registry** of policies normalizes a name and looks it up, the API refuses
  unknown ones; both happen before a request is accepted.
* Texts: prompts, answers, latencies, the rendering of metrics, malformed JSON in
  keys that only this code writes; and the arithmetic of tensors.
