# A TLA+ model of fast-api-scaff

This directory specifies and verifies the scaffold in `src/`: background
workers on three kinds of queue, the life of a job, the processes and their
shutdown, the scheduler, the HTTP interface and its rate limiter, user accounts
and login sessions, the login-failure limiter, outbound HTTP, the cache, the
vector stores, and lazily created shared resources. Every definition is
translated from the Python (or Lua) code; the map in `PROJECT.json` gives the
lines.

TLC checks the runs (`tlc -workers 2 -config X.cfg M`), TLAPS the proofs
(`tlapm M.tla`).

## 1. Inventory

### Components, their state and operations

| Component | Code (`src/app/…`) | State | Operations | Module |
|---|---|---|---|---|
| Worker runner | `interfaces/worker/runner.py` | lanes (asyncio tasks), receivers, closing flag, stop event | run, stop, drain, cancel, fail | `Worker` |
| Job executor | `interfaces/worker/executor.py` | the delivery in hand, the attempt | execute, run_attempts, _finish | `Worker` (order and failures), `Jobs` (attempts and records) |
| Failed-job store | `infrastructure/queue/failed/sql/store.py` | `failed_jobs` rows, write lock | find, save, delete | `Worker`, `Jobs` |
| Redis Streams driver | `infrastructure/queue/drivers/redis.py` | stream, group, PEL; per consumer: pending table, cursor, renewal task, two locks | publish, receive, acknowledge, renew, close | `RedisWorker` |
| Kafka driver | `…/drivers/kafka.py` | topic, group, committed offsets; per consumer: assignment, pauses, pending table, trusted partitions, generation | publish, receive, acknowledge, rebalance callbacks, close | `KafkaWorker` |
| RabbitMQ driver | `…/drivers/rabbitmq.py` | queue, channels, unacknowledged messages, the iterator's buffer | publish, receive, acknowledge, close | `RabbitWorker` |
| Dispatcher, message codec, discovery, resolver | `infrastructure/queue/{dispatcher,job}.py`, `codecs/`, `interfaces/worker/{discovery,resolver}.py` | the catalogue of a release | dispatch, replay, resolve | `Jobs` |
| Queue manager | `infrastructure/queue/manager.py` | closed flag, handles, registered consumers | consume, dispatch, aclose, replay | `QueueManager`, `Jobs` |
| Lazy resources | `infrastructure/resources/lazy.py` | value, closed flag, lock | get, begin_close, aclose | `AsyncLazy` |
| Other resource managers | `infrastructure/{database,cache,vector,http}/manager.py` | handles, closed flag | get, aclose | with the component they serve |
| Container, runtime, entry points | `runtime/`, `bootstrap/` | what is built, started, still to be closed; errors | start, run, stop, ordered shutdown | `Hosts` |
| Scheduler | `interfaces/scheduler/` | APScheduler's state, registered jobs, initial and running dispatches | start, trigger, pause, drain, aclose | `Hosts` |
| HTTP interface | `interfaces/http/` | a request's place in the chain, what it has sent and logged | middleware, exception handlers, SSE, user endpoints | `HttpServer`, `UserRequests` |
| HTTP rate limiter | `infrastructure/rate_limit/` and its Lua script | a Redis window counter | acquire | `RateLimit` |
| Users | `contexts/user/application/service.py`, `…/persistence/` | `users` rows with a version | create, update, change_status, reset_password, delete | `Accounts`, `UserRequests` |
| Authentication | `contexts/user/application/auth_service.py`, `…/session_repository.py` | `user_sessions` rows | login, logout, current_user, cleanup | `Accounts` |
| Login limiter | `contexts/user/infrastructure/security/redis_login_attempts.py`, two Lua scripts | a Redis counter with a TTL | retry_after, record_failure, clear | `LoginAttempts` |
| Password hasher | `…/security/password_hasher.py` | none of its own | hash, verify_or_dummy | values in `Accounts`, failures in `UserRequests` |
| Outbound HTTP | `infrastructure/http/` | permits, connections, counters, open clients | request, stream, close | `OutboundHttp` |
| Cache | `infrastructure/cache/` | entries with lifetimes, per connection | every command of both storages | `Cache` |
| Vector stores | `infrastructure/vector/` | the collection, its rows; the client, its metric cache and lock | create, drop, describe, upsert, get, remove, search | `VectorStore` |
| Console | `interfaces/console/`, `bootstrap/console/` | none of its own | queue retry, queue forget | `Jobs`, `Hosts` |
| Logging, configuration | `infrastructure/logging`, `config` | | | not modelled (§7) |

### How they interact

The HTTP interface and the scheduler publish jobs through the dispatcher and
the queue manager to a backend. A worker process asks the queue manager for a
consumer, and its runner starts `concurrency` lanes. A lane receives a
delivery from the driver, passes it to the executor, and the executor looks up
earlier failures, runs the handler, saves a failure if there is one, and
acknowledges last. The Redis driver's renewal task runs beside the lanes and
calls back into them by cancelling them (`RedisConsumer._renew` →
`task.cancel()`). On Kafka the client does the same from its rebalance
callbacks; on RabbitMQ the end of the channel ends the iterator the lanes wait
on. All managers hold their connections in `AsyncLazy` handles that are created
on demand and closed at shutdown, in the container's order, while users of them
may still be running. An HTTP request passes the middleware chain, asks Redis
for its quota, and reaches an endpoint that opens one unit of work after the
other. Requests share nothing but the database, Redis and the pools.

### What is hard

* every `await` of a lane, a request or the host may be where the process dies,
  is cancelled (stop, drain timeout, lost lease, failure of another lane,
  disconnect) or a reply is lost;
* leases expire under a running job, and the message is then in two hands; the
  renewal task and acknowledgements touch the same entries;
* a rebalance takes a partition away under a job or a commit, and may give it
  back to the same consumer; a RabbitMQ channel closes under an acknowledgement
  that nobody answers;
* a release renames a job or changes its version while messages of older
  releases wait, are recorded as failed, and are replayed;
* a trigger fires while the last dispatch of its schedule runs or the engine
  stops; a shutdown callback fails or is cancelled half way;
* an error or a cancellation comes after the response has begun; an event
  stream fails in the middle;
* a use case of the user context is two transactions with a slow hash between
  them, so what the first one read may be stale in the second; a commit whose
  reply is lost has happened or has not;
* `INCR` and `EXPIRE` of the login counter are two commands; a window ends
  between the refusal and the `Retry-After` the client obeys;
* a cache command or a vector request whose caller gave up is executed later,
  after requests that were sent later; a collection is dropped and created
  between a check and the request proper;
* `aclose()` races with tasks that are creating or using a resource.

`PROJECT.json` lists these as hazards, each at its line, with the properties
aimed at it.

### What makes each component correct

* **Queue and workers**: a message leaves the backend only when its job has
  succeeded or its failure is recorded; one process runs it at most once at a
  time, and without a fault no two processes run it at once; a failure that is
  on record when it is looked up is not rerun; a fault-free system never takes
  itself down; every message is settled in the end; a stop ends.
* **Jobs**: a record says what happened, within the attempts the policy grants;
  a replay is a job of its own; a newer release strands nothing of an older one.
* **Hosts and scheduler**: a dispatch always has the queues it needs; no
  schedule is dispatched twice at once; a stop runs every shutdown callback,
  whatever fails.
* **HTTP**: one answer and one log line for a request; streams end with an
  event and give their generator back; a window admits no more than its quota
  and `Retry-After` is long enough; an answer never contradicts what the
  transaction did; permits, connections, streams and sessions come back.
* **Accounts**: names are unique, no committed change is undone by a stale
  aggregate, sessions do not outlive their user, disabling or resetting ends
  them.
* **Login limiter**: the counter always expires, concurrency defeats neither
  the limit nor the lock, the lock ends.
* **Cache**: an entry lives as long as it was promised, on both drivers, and
  replies describe what is stored, as long as no late command can interfere.
* **Vector stores**: reads return what one write wrote, scores fall also after
  the collection was deleted and created with another metric, the loser of a
  race is told so, no SDK client is left behind by a creation that fails or is
  cancelled.
* **Resources**: nothing leaks, nothing is handed out or recreated after
  closing, a block does not lose its backend.

## 2. Modules

```
JobDelivery                  abstract: at-least-once delivery
   ^ implements
Worker <-- RedisWorker  <-- MCRedisWorker, RedisWorkerProofs
       <-- KafkaWorker  <-- MCKafkaWorker, KafkaWorkerProofs
       <-- RabbitWorker <-- MCRabbitWorker, RabbitWorkerProofs
Accounts <-- MCAccounts, AccountsProofs
AsyncLazy <-- QueueManager <-- MCQueueManager, QueueManagerProofs
QueueManager, Hosts, LoginAttempts <-- MCServices
Hosts, LoginAttempts <-- ServicesProofs
RateLimit <-- HttpServer;  HttpServer, UserRequests, OutboundHttp <-- MCHttp, HttpProofs
VectorStore, Jobs, Cache <-- MCData, DataProofs
```

**Granularity.** asyncio runs one task between two awaits without
interruption, so a step of a task is the code between two awaits. An awaited
call to a remote party is two steps, the effect there and the reply here,
whenever something can happen between them that matters (a lost reply, a
cancellation, another process). So the `SELECT` of `failures.find` is a step
(`Find`) and the lane's decision on its result another (`FindReply`), between
which another worker may save a record; the same holds for Milvus's second look
at a collection (`MilvusRecheck`, `MilvusRecheckReply`) and for the metric it
describes (`MilvusDescribe`, `MilvusDescribed`). A read is one step only where
its reply ends the call or leads straight to the next request and neither
touches anything that tasks share.
The step is named after the code that runs, and a `pc` variable says at which
await a task is.

**Worker** holds what no driver changes. `mode[c]` is the place of
`WorkerRunner.run`: `running` (in `asyncio.wait`), `draining` (stop seen,
`_closing` set, receivers cancelled), `cancelling` (the drain timeout is over),
`failing` (a lane has raised and `finally` has cancelled the others), `closed`,
`crashed`. A restarted process has a new uuid4 consumer name and is therefore
another member of `Consumers`. `cancelled[t]` is a requested cancellation not
yet delivered: until it is, the lane runs no code of its own. `held[t]` is the
delivery in the lane's local variable. The attempt loop of `run_attempts` is
one step with each of its outcomes (`Succeed`, `FailJob`, `DefinitionError`),
because nothing outside the lane can see the attempts; `Jobs` opens it up.

**RedisWorker** adds the stream and the driver. Messages are numbered in the
order of publication, as stream identities are. `owner[m]` is the consumer in
m's PEL entry; `fresh[m]` says that the entry has been idle for less than the
lease, the only thing the code can tell about time. `pending[c]` is the
consumer's own table of deliveries; `renewal[c]` the renewal task and the
result of its script. `cursor` and `scanned` are the XAUTOCLAIM cursor before
and after its reply is processed.

**KafkaWorker** adds the topic, the consumer group and the driver. Messages are
numbered in the order of publication over all partitions; `PartitionOf` gives
the partition. `committed[p]` is the last message whose offset was committed
(the code commits the offset after it). The group is external: `Rebalance`
begins a generation once every member has asked to join it, `Evict` is the
session or poll timeout. `phase[c]` is the client's place in that protocol;
`Revoke` and `Assign` are the two listener callbacks. `stale[t]` says that
`delivery.generation != source.generation` for t's delivery; the counter itself
is not needed, since every revocation makes all earlier deliveries stale.
`flight` holds commits that were sent and not executed: the client shields
them, so one may be executed after its lane was cancelled.

**RabbitWorker** adds the queue, the channels and the driver. `unacked[c]` is
what the broker has pushed to c's channel, `buffer[c]` what is in its
iterator, `Prefetch` the limit on the first (`set_qos(prefetch_count =
concurrency)`). The two ends of a connection notice its end one after the
other: `channel[c]` is the broker's view, `link[c]` the client's. `flight` holds
acknowledgement frames, which nobody answers; those of a channel that has ended
are worth nothing, and `Requeue` puts its messages back, marked.

**JobDelivery** is what a producer may rely on, whatever the driver:
`unsent → live → settled`, the last step only after a success or a record.

**Jobs** follows a job through everything that is not the driver's. `Releases`
are deployed one after the other; producers and workers may be of different
ones. A message has an identity, a reference, a version and a size; a foreign
message is broken. `Classify` is the decoding and resolving of
`JobExecutor.execute`, `Attempt` and `Backoff` the loop of `run_attempts`,
`SaveFailure` and `SaveAgain` the insert and its `IntegrityError` path,
`ReplayFailure` and `ForgetFailure` the console's commands. `by`, `release` in a
record, `outcomes` and `finished` are history.

**QueueManager** adds consumers, the `consume` block and `aclose()` to the
handles of **AsyncLazy**.

**Hosts** has the process from `build` to its end for each of the four entry
points, and the scheduler engine in one of them. `closeLeft` are the shutdown
callbacks yet to run, `raised` the errors collected on the way. `initial[s]` and
`runs[s]` are the dispatches of a schedule that are under way; `cutShort` says at
which await a cancellation met `aclose()`.

**HttpServer** takes a request through the middleware chain. `started[r]` are
the response starts sent, `seen[r]` the status the access log's wrapper saw,
`access[r]` its log lines, `sse[r]` and `generator[r]` the event stream. It
extends **RateLimit**, the window script with Redis's clock in ticks, finer than
a second so that rounding shows.

**UserRequests** has a request of a user endpoint with the units of work it
opens, each with its session and transaction, every step of which may fail or be
cancelled; `tx[u]` may be committed without the caller knowing. **Accounts** has
the two tables and, for each request, its place, its user and its aggregate
(`copy[r]`, with the version it was read at). Reads see what is committed. A
transaction that updates the user and deletes the sessions is split before its
commit (`RevokeExecute`, `RevokeCommit`); while it is open the row is locked for
other writers and its `DELETE` covers only the sessions it could see. `hash`,
`raced` in a session and `raced` itself are history. The two modules are two
views of the same use cases: what transactions do to each other, and what a
failing one leaves behind.

**LoginAttempts** has the counter, its TTL in ticks, and one command per step.

**OutboundHttp** has the manager's driver with its two pools. `active` is the
code's own count, `conns` (external) who holds a connection; `ending[t]` is what
a call is about to return or raise, `events[t]` what was logged of it.

**Cache** has the servers of the connections a process is configured with.
`told` is what the callers know from the replies they got, `adrift` the commands
without a caller; while one of them may still reach a key (`Pending`) a reply
about that key says nothing of what it will hold. Time runs in half seconds, so
that a truncated second shows.

**VectorStore** has one collection name on one of five backends. `gen` tells a
collection from one created later under the same name; `late` are requests that
were given up; `last` is the outcome of the operation that has just ended.
`opening` is the place of the client's creation: Milvus loads its SDK, and a
local client is created, in a thread (`_run_sync`) that a cancellation does not
stop. `givenUp` is a cancellation that has reached the task. A client whose
creator was cancelled goes to `on_cancel`, again in a thread (`CleanUp`), which
may fail (`unclosed`). Remote Chroma connects without a thread and without a
clean-up. `overtaken` and `unheard` are history: a creation or deletion was
executed while a Milvus call stood between seeing the metric, or the execution
of its own creation or deletion, and the end of what depends on it; and a
deletion in Milvus was answered with an error or not at all.

Each `Mutant:` definition is a plausible error in the definition next to it; it
is used in no specification. Replacing the definition by its mutant violates
the property `PROJECT.json` names, which shows that the property depends on that
piece of code.

## 3. Runs

| Run | Configuration | Checks |
|---|---|---|
| `redis_workers` | 2 workers with 2 and 1 lanes, 2 messages, 1 fault | `NoSpuriousFailure`, `OneLanePerMessage`, `RunByOneWorker`, `NoRerunOfRecordedFailure`, refinement of `JobDelivery` |
| `redis_liveness` | 2 workers × 1 lane, 1 message, 1 fault, fairness | `EventuallySettled`, `StopEnds` |
| `redis_failing` | 1 worker × 2 lanes, 3 messages, 1 fault | `FailedWorkerTakesNoMore` — violated |
| `kafka_workers` | 2 workers with 2 and 1 lanes, 1 partition, 2 messages, 1 fault | `IdleRebalanceHarmless`, `PartitionOrder`, `CommitsAdvance`, refinement of `JobDelivery` |
| `kafka_liveness` | 2 workers × 1 lane, 1 partition, 2 messages, 1 fault, fairness, nobody stopped | `EventuallySettled` |
| `rabbit_workers` | 2 workers × 1 lane, 2 messages, 1 fault, fairness | `NoneHeldBack`, `NoRerunOfRecordedFailure`, refinement of `JobDelivery`, `EventuallySettled`, `LostWorkerEnds` |
| `accounts` | 2 users, 2 names, 2 requests, 1 token | `UniqueNames`, `NoLostUpdate`, `RevokedUnlessRacing` |
| `account_re_enable` | 1 user, 2 requests | `ReEnableRestoresNothing` — violated |
| `queue_manager_closing` | 2 tasks, 1 handle | `ConsumersCloseFirst` — violated |
| `services` | queues: 3 tasks, 1 handle, 2 backends; host: any of the four, 3 schedules, 2 ticks each, 2 cancellations; login: 3 requests, limit 3, window 2, lock 3; fairness | `BlockHasItsBackend`, `NothingEscapes`, `ConsumersEventuallyClosed`; `DispatchesHaveQueues`, `OneDispatchPerSchedule`, `StopReleasesEverything`; `LockSurvivesSuccess`, `LockEnds` |
| `http` | server: 2 requests of one client, quota 1, window 1.5 s; users: 2 requests; outbound: 2 callers, 3 calls, pools of 1 | `AnsweredOnce`, `StreamsEnd`, `WindowHonest`; `AnswersTellTheTruth`; `CallsAccounted` |
| `data` | vectors: 2 tasks, 5 backends, 2 metrics, 1 row, 2 creations, 1 fault; jobs: 3 releases, 2 messages, 2 attempts, 2 worker starts; cache: 4 settings, 2 keys, 2 values, 2 lifetimes, 1 late command | `ReadsFaithful`, `LosersToldSo`, `NoStrayClient`; `SettledHonestly`, `RecordsTellTheTruth`, `UpgradeStrandsNothing`; `CacheKeepsItsWord` |

`services`, `http` and `data` each hold components that share no state. Their
variable `focus` picks one; the others stand still, so that the run is the sum
of the components and not their product.

### Bounds

* `MaxMessages`, `MaxFaults`: two messages on two workers let a worker be busy
  with one while the other changes hands; the second lane of a worker lets it
  ask for what its neighbour holds. Expiry of a lease that nobody renews, the
  second worker's start (a rebalance on Kafka) and a stop are no faults, so one
  fault (a crash, a lost reply, a stall, an eviction, a closed channel) comes on
  top of them. Only one worker is told to stop (`StopOnlyFirst`; on Kafka
  `StopOrFault`: a stop or a fault): the other has to carry on. The theorems
  about the three drivers cover any number of workers, lanes, partitions,
  messages and faults.
* `MaxVersion`, `MaxHashes` = 3 allow two changes after the creation, and a
  stale aggregate needs one; two requests are a login and a revocation, or two
  writers of one row, again and again. The theorems cover any number.
* `MaxMade` = 2: a backend, and one created wrongly in addition to it. Three
  tasks are two users and a closer, or two closers and a user. The theorems
  cover several handles.
* The three schedules of `services` are one immediate and coalesced, one
  immediate, one neither. Two ticks let a trigger meet a running instance; two
  cancellations let the second strike the clean-up of the first.
* The login counter needs no bound: `FailuresBounded` bounds it, a theorem.
* Quota 1 and two requests of one client make the second the one refused; the
  window of three half seconds is one and a half seconds, so a `Retry-After`
  rounded down would be too short; four ticks see the window end. With quota 1
  TLC never takes the branch of the script that counts up an existing window;
  with quota 2 and two requests nobody would be refused. Both together need a
  third request, which is left to the theorem `WindowsAreHonest`: it covers every
  quota and any number of requests.
* Pools of one connection make the second call wait, time out or be cancelled
  waiting; the third call finds what the first two left.
* Two creations of a collection, with different metrics, are needed for a
  request that meets another collection of its name; two tasks are a race; two
  sets of metadata show a mixture. One fault is a failure or a cancellation at
  any place of a call or of the client's creation; the failure of a clean-up
  comes on top. The theorems cover any number of each.
* Two messages are a job and its replay, or two that compete for a record; two
  worker starts are a crash and the redelivery, or an upgrade. The third release
  claims a reference twice and is refused.
* The cache clock runs for four half seconds, to the end of the longer of the
  two lifetimes and past that of the other; the greatest key length is met and missed by a byte.
* Deadlock checking is off: workers may all have stopped, tokens, calls and
  versions run out.

### Fairness

* Lanes and tasks: strong fairness. A task that is not blocked is run by the
  event loop, remote calls return or fail, handlers end by their timeout, and
  `asyncio.Lock` serves its waiters first come, first served, so a lock that is
  free again and again is obtained.
* The runner, the renewal task's handling of a reply, and Redis's clock (for an
  entry nobody renews, and for the login counter): weak fairness.
* Kafka: weak fairness for the client's callbacks, the broker's execution of
  commits, the beginning of a generation everybody waits for, and the session
  timeout of a dead member. An eviction of a live one is a fault.
* RabbitMQ: strong fairness for the broker's steps towards a consumer (another
  one may empty the queue in between, but consumers are served in turn), weak
  fairness for the heartbeats by which both ends find a dead connection.
* Hosts: weak fairness for the host's own task and for the end of every
  dispatch: it is a publish, which `dispatcher.py:60` bounds by a timeout.
* None for publishing, stop signals, drain timeouts, faults, operators,
  triggers, `consume()` and `aclose()` calls, or the end of a `consume` block.

## 4. Disagreements between documents and code

1. `redis_failing`. `docs/worker.md:52` says that a consumption,
   acknowledgement, store, definition or lease error stops the whole worker and
   that other running jobs are cancelled. On this path (`runner.py:52`) each
   lane is cancelled once and the stop event stays unset. A lane whose handler
   absorbs the cancellation finishes its job, acknowledges it, finds `while not
   stop.is_set()` true and takes the next message; the process does not end
   until that lane does. The document asks handlers not to swallow
   `CancelledError` (`docs/worker.md:44`); the run shows what happens when one
   does. After a stop signal the same handler does no harm (`StopEnds`).
2. `account_re_enable`. `docs/authentication.md:123` says that old sessions are
   not restored by re-enabling a user. A login that read the user as active
   before the disabling transaction and commits after it leaves a session; it
   authenticates nobody while the user is disabled, and works when the user is
   enabled again. `RevokedUnlessRacing` shows that only logins whose second
   transaction overlaps with the revoking one can do so. (Line 129 disclaims
   this for a concurrent password reset.)
3. `queue_manager_closing`. The comment at `queue/manager.py:190` says that
   consumers are closed first so that the shared backend is not used once
   released. A consumer that is still being created is not registered, so
   `aclose()` may release the backend under `backend.consumer()`. The late
   consumer is closed by `consume()` itself (`ConsumersEventuallyClosed`), and
   no running block is affected (`BlockHasItsBackend`).

## 5. Proofs

Every safety property that a run checks is also a theorem, for every value of
the constants: any number of workers, lanes, partitions, messages, faults,
requests, schedules, releases, tasks and settings. The recipe is the same
throughout: the property is not inductive, so it is strengthened by what the
code relies on between two awaits, and the proof that a step preserves the
strengthened invariant has one case per action.

### Assumptions on the constants

| Assumption | Why the code justifies it |
|---|---|
| `HomeAssumption`, `NoneAssumption`, `BoundsAssumption` (`Worker`) | a lane is a task of one process; consumer names are uuid4; the bounds are numbers |
| `LanesAssumption` (`RabbitWorker`) | `concurrency` is a number |
| `PartitionAssumption` (`KafkaWorker`) | a record is in one partition |
| `NoneIsNoId`, `AccountBounds` (`Accounts`) | ids and names are never `"none"` |
| `FiniteRequests`, `PositiveSettings` (`LoginAttempts`) | `__post_init__` demands positive settings |
| `ClientsAssumption`, `LimitAssumption`, `CallersAssumption` | a request has one client address; quota, window and resolution are positive; finitely many tasks |
| `JobBoundsAssumption`, `ReleasesAssumption` (`Jobs`) | `max_attempts` is at least 1; a release still declares the references and versions of the earlier ones, which is what `legacy_references` and `legacy_decoders` are for |
| `VectorAssumption` (`VectorStore`) | metadata must not use the reserved keys (`models.py`) |
| `DefaultTtlAssumption` (`Cache`) | the default lifetime is positive or none |

TLC evaluates each of them in the runs.

### Workers

**RedisWorkerProofs.**

* `TypeCorrect` proves `TypeOK` with the strengthening `HeldOK`: a lane that
  executes or has a reply holds a message, which the actions need to index
  `owner` and `pending` by `held[t]`.
* `MessagesNotLost` proves `NoLoss`. It is not inductive: that an entry may be
  acknowledged rests on what the lane has done before. `SafeInv` adds
  `LaneKnows` (a lane past its job holds a message that succeeded or was
  recorded), `failures ⊆ recorded` (for the lane that found an earlier record)
  and that only published messages have been delivered.
* `LanesDisjoint` proves `OneLanePerMessage` from `LaneInv`: a message held by
  an executing lane is in the consumer's pending table. `Deliver` refuses what
  is in the table, so a second lane cannot obtain it.
* `RecordedFailuresNotRerun` proves the action property
  `NoRerunOfRecordedFailure`, which is about the moment of decision: the
  execution of the look-up's `SELECT`, or the delivery where nothing is looked
  up (`DecidesToRun`). A former owner may still commit a record between the
  `SELECT` and the start of the job, and the job then runs; `docs/queue.md:144`
  says that the look-up is no lock against concurrency. The hard case is a
  message delivered as new, which is run without a look-up. `ReadInv` says that only one lane of a
  consumer is inside `receive`, that a message in a first-delivery reply which
  is still owned by that consumer has no record, and that only delivered
  messages have records.
* `ImplementsJobDelivery` proves the refinement `DeliversAtLeastOnce`: initial
  states map to initial states and every step to a step of `JobDelivery` or a
  stutter, using the invariants above.
* `FailuresHaveACause` proves `NoSpuriousFailure`. Six more parts are needed:
  while there was no fault, only a stop cancels lanes (`CancelOK`); a sound
  worker keeps the lease of everything in its table but what it has just settled
  (`LeaseOK`) and of the entry in a reply it has not read yet (`ReplyOK`); so an
  acknowledgement is refused only in a worker whose drain has timed out
  (`RefusedOK`). They hold together or not at all: `LeaseOK` needs that nobody
  else takes over, which needs that renewals have not ended, which is the
  property itself.
* `OneWorkerPerMessage` proves `RunByOneWorker` from the same parts
  (`CalmInv`): a job in hand is in its worker's table, so its entry is owned by
  that worker or has just been settled by it, and no two workers can say that of
  one entry.

**RabbitWorkerProofs.** `RabbitTypeCorrect`; `RabbitImplementsJobDelivery` from
`SafeInv`, that of Redis with acknowledgement frames in the place of replies
(`FrameKnows`: a frame under way is of a message that succeeded or is on
record, so it does not matter when the broker executes it).
`RabbitFailuresNotRerun` needs to know where a message is (`PushInv`): in the
queue or on one open channel (`Places`), in the buffer of an open channel and
nowhere else (`OwnBuffer`), and, if it was never put back, unseen by every lane
and without a record (`FirstPush`), so that the look-up the code skips for
messages without the redelivered mark would have found nothing. Here and on
Kafka the statement is about the moment of decision, as for Redis.
`BuffersHaveIdleLanes` proves `NoneHeldBack` by counting (`LoadInv`): buffer,
busy lanes and unexecuted frames together are no more than the broker counts as
unacknowledged, which is no more than the lanes; once the channel is gone the
first two can only shrink.

**KafkaWorkerProofs.** `GroupInv` describes the consumer group around a commit.
A live delivery has its partition assigned, paused, and read up to it
(`LaneOK`), and is the only one of its partition (`LanesApart`); a member's
position is not behind the committed offset, and not ahead of it unless the
partition is paused (`PositionOK`); a commit under way is of a member, for a
partition it was given, of the first unsettled message (`FlightOK`); everything
before a delivered or recorded message is settled (`OrderOK`). From it follow
`CommitsNeverGoBack` and `PartitionsWorkedInOrder`, and with what lanes know of
their jobs (`SafeInv`) `KafkaImplementsJobDelivery`: an offset settles every
message before it, so order is what makes a commit safe.
`IdleRebalancesAreHarmless` adds that in a running worker nothing but the loss
of its delivery cancels a lane. `KafkaFailuresNotRerun` proves that although
only the first message after an assignment is looked up, the owner of the
partition does not decide to run what is on record: once the owner has settled a message there
(`Settling`), what it has yet to read is unseen by everybody (`FreshInv`).

### Accounts and services

**AccountsProofs.** Three layers.

* `TypeInv`: types, and that a request past its first transaction has an
  aggregate and a user whose id was given out.
* `RowInv`: an id about to be inserted is nobody else's (`NewIds`); an
  aggregate whose version is the row's agrees with the row in every column but
  the one its use case changes (`Current`); a row under an uncommitted `UPDATE`
  has one writer and does not move (`Staged`). This is what the version in the
  `WHERE` clause buys, and neither `UniqueNames` nor `NoLostUpdate` is
  inductive without it: a status change writes the *name* too. From it follow
  `NamesUnique` and `UpdatesNotLost`.
* `SessionInv`: a login that has accepted its user and met no revocation would
  still be accepted (`Accepted`); what an uncommitted revocation did not delete
  was committed by an overlapping login (`Missed`). From it follow
  `SessionsHaveUsers` and `RevocationEndsSessions`.

**QueueManagerProofs.** `LockInv` (one holder of a handle's lock, an empty
handle under the factory, a full one under the closer) carries the types;
`HandleInv` adds that a backend is in one handle, that `aclose()` seals before
it does anything else, and that nobody is creating a backend in a handle
`aclose()` has been through (`Emptied`) — the fact that makes "closed for good"
true although `aclose()` looks at one handle after the other. `ConsumerInv`
says that every working consumer of a block is on the list `aclose()` copied,
and that none is left when it goes on to the handles. Theorems:
`ManagerTypeCorrect`, `BackendsNotLeaked`, `StaysClosed`, `BlocksKeepBackends`,
`NoEscape`.

**ServicesProofs.** The login limiter: `LoginTypeCorrect`,
`CounterAlwaysExpires` (`CounterExpires` is inductive with the types),
`LocksSurviveSuccess` from these two, and `FailuresAreBounded`, where the
cardinality of the set of requests past the check is the ranking argument: an
`INCR` takes one request out of the set and adds one to the counter, and the set
grows only below the threshold. The host: `HostInv` says that a schedule is with
APScheduler or in its initial dispatch and never in both (`Handover`), and where
the engine is at each await of the host (`EnginePlace`): paused from `gather` on,
without initial dispatches from `drain` on, drained from `shutdown` on. From it
follow `SchedulesDispatchOnce` and `DispatchesKeepTheirQueues`.

### HTTP

**HttpProofs.**

* `UserAnswersTellTheTruth`: for each request `UserInv` ties the place in the
  unit of work to the session (open exactly inside a unit), the transaction
  (committed only past the commit of a unit that writes) and the error (one a
  client may see has left nothing committed).
* `RequestsAnsweredOnce`: `AnswerInv` gives for each place in the chain what
  has been sent, what the access log's wrapper saw and what was logged.
* `StreamsAlwaysEnd`: on top of it `StreamInv`, that an open generator has sent
  messages only and a closed one ended with a terminal event, and that a
  response of 500 or more carries no detail of its error.
* `WindowsAreHonest`: the counter of the script is what was granted and at most
  the quota (`QuotaInv`); a refusal's `Retry-After`, whole seconds, is not
  before the end of the window that refused as long as this is the current one
  (`PromiseInv`). The arithmetic is the lemma `RetryCovers`: rounding up covers
  what is left of the window, for every resolution of the clock.
* `CallsAreAccounted`: `OutInv` counts the calls between the two places where
  the code changes `active` (a cardinality), and ties what a call has logged to
  its place and its ending.

### Data

**DataProofs.**

* Jobs. `JobsSettledHonestly` rests on identities: a message that is not broken
  has its own, a replay included (`IdentityOK`), so the record that lets a
  redelivery be acknowledged is of this very job (`RecordsOK`).
  `JobRecordsTellTheTruth`: `AttemptInv` counts attempts against outcomes at
  every place of the loop. `UpgradesStrandNothing`: the lemma
  `YoungerWorkerResolves` shows that a worker at least as young as the sender
  finds reference and version in its bindings, from `ReleasesAssumption`.
* Vector stores. The steps of the three drivers are first reduced to what they
  may do to calls, store and cache (`TaskStep`), once per driver; then
  `ReadsAreFaithful` needs that rows are what one upsert wrote (`RowsOK`), which
  on Chroma, whose upsert merges, needs the write lock (`LockOK`) and that what
  is removed is all there is (`MergeOK`), and on Milvus that every metric a
  call or the cache has is that of the collection (`MetricOK`): the cache may
  outlive a collection only while the task that deleted it waits for the reply
  (`CacheTrue`), and whoever creates the next one in that time sets `overtaken`.
  `LosersAreToldSo` rests on `RaceOK`: who looks again has noted the generation
  that refused it, and what it sees can differ only in a later one.
  `NoClientLeaks` counts (`StrayInv`): the open SDK clients are the one in use,
  in its creator's hands or in the clean-up (`Held`), and those that could not
  be closed.
* Cache. `CachesKeepTheirWord`: what callers know and what the server has agree
  (`WordOK`), exactly on Redis and up to half a second on Memcached, and nothing
  is known of a key a late command may reach (`SilenceOK`); the lemmas
  `Deadlines`, `RedisReplies` and `MemcachedReplies` say what a command's
  lifetime and reply come to.

### Only model-checked

* Liveness: `EventuallySettled`, `StopEnds`, `LostWorkerEnds`,
  `ConsumersEventuallyClosed`, `StopReleasesEverything`, `LockEnds`. Fairness and
  leads-to are out of this prover's reach.
* The three properties that are violated (§4).

The proofs speak of the specifications of the components; `services`, `http` and
`data` add only the variable that picks one.

## 6. Plan

Every component that keeps state is modelled and every safety property a run
checks is proved. What may follow:

1. the safety half of the liveness properties, as theorems: a worker that
   stopped has nothing pending, a host that is done has attempted every closing
   callback, a lock's lifetime never grows while it is checked;
2. `BackendsNotLeaked` for the handles of the other resource managers;
3. an abstract cache that both storages implement, in the place of `told`.

## 7. Abstractions and what is left out

* Redis: `XAUTOCLAIM` examines at most ten PEL entries for a count of 1; the
  model assumes that a scan reaches the end, as it does with up to ten entries.
  A command of a cancelled or failed task that Redis executes only afterwards
  is not modelled; one executed before, with its reply lost, is.
* Kafka: a commit is refused once its generation has ended; a commit that the
  client would retry under a newer generation is not modelled. During a
  reassignment `getone()` returns nothing. Assignment is eager: every member
  gives up all partitions, as with aiokafka's assignors. A record of a
  partition that has a pending delivery is refused by `receive()`; that branch
  is not an action, because such a partition is paused.
* Databases: the isolation level is READ COMMITTED, the weakest of the supported
  ones; a stronger one allows fewer behaviours. The e-mail address is unique
  like the name and treated in the same way by the same statements; it is left
  out. Passwords are not modelled: whether verification succeeds is a free
  choice, a hash is a fresh number. The hasher's limit on concurrent
  computations is left to the library it uses.
* The unit of work shields its clean-up from anyio's cancellation; a native
  `Task.cancel()` can still strike there, and `UserRequests` lets it.
* Hosts: the calendar arithmetic of triggers is APScheduler's; a schedule is due
  whenever it is looked at. What a dispatch publishes is in `Jobs`.
  `DispatchesHaveQueues` has one exception, which the code has too: a host that
  is cancelled while `aclose()` waits for the initial dispatches never comes to
  the drain, and the queues may then be closed under a running instance.
* HTTP: schemas, pagination and OpenAPI declarations keep no state. The
  endpoint of `HttpServer` is a free choice among what the handlers tell apart.
* Cache servers evict nothing before its time and each connection has its own,
  so keys of two connections cannot meet.
* Vectors are reduced to what scores tell apart, metadata to its keys; metadata
  filters are left out. Each exception a property makes is one the code has:
  * Elasticsearch answers the creation of an index that exists with 400
    (`resource_already_exists_exception`), which `_call` does not map
    (`elasticsearch.py:216` maps 409 only). The loser of a race to create it
    gets `VectorOperationError`, although `docs/vector.md:187` gives
    `VectorCollectionConflictError` for this. The model does what the code
    does, and `LosersToldSo` excepts this case. The answer itself is known of
    Elasticsearch, not of anything in `src/`.
  * The second look of Milvus is true of its own moment only. A loser may still
    get an operation error when the collection it ran into was deleted, or
    created again, meanwhile.
  * In Milvus a search uses the metric it saw before its request
    (`milvus.py:280`). A deletion and creation that overtake it, even fully
    answered ones, give it the scores of one collection under the metric of
    another; likewise a creation or deletion that is overtaken before its reply
    writes a cache entry that is no longer true, and a deletion whose reply is
    an error or never comes leaves one. `ReadsFaithful` is silent after these
    (`overtaken`, `unheard`) and holds through every other re-creation.
  * A remote Chroma request that was given up may be executed later, over what
    was written since.
  * Remote Chroma closes nothing: neither `aclose()` nor a creation that is
    timed out or cancelled (`chroma.py:293`) closes the connections of the SDK.
    `NoStrayClient` is about the other four. `on_cancel` that raises is
    swallowed by `_finish_worker` and leaves its client open (`unclosed`).
* Elasticsearch creates an index that an upsert does not find, unless the
  cluster's settings forbid it; both are modelled (`AutoCreates`,
  `ElasticBulk`), and such an index may or may not serve a search.
* A cache command that arrives after its caller has given up overwrites what was
  acknowledged in the meantime. The code has no defence, and no property claims
  one: `CacheKeepsItsWord` is about keys that no such command may still reach.
* Malformed counters or rows written by other programs, and validation of
  fields, names and settings, are left out.

**Not modelled.** Logging and configuration: formatting, output, parsing and
validation that happen once or change no state. The access log's line and the
events of an outbound call, which are promises, are in `HttpServer` and
`OutboundHttp`. Importing packages in discovery, printing in the console.
