# Verification of claude-webapi

`claude-webapi` is an asyncio client library for claude.ai (`src/claude_ai`) with
an event bus, a pool of accounts and a batch runner, and an HTTP gateway in front
of it (`src/gateway`). This directory models the parts with state and
concurrency in TLA+, checks them with TLC and proves their safety with TLAPS.

Everything runs in one event loop: a step of a model is the code between two
`await`s that may suspend. What a test hardly reaches is the order in which these
steps meet - consumers, publishers and `stop()` on one queue, store calls that
overlap, late bus events - and a crash between two of them.

## Inventory

| Component | State | Operations | What makes it correct |
|---|---|---|---|
| Event bus worker (`bus/worker.py`, `memory.py`) | queue, `_unfinished_tasks`, consumers, flags, statistics | start, publish, consume with retry and backoff, flush, stop | no event lost, duplicated or settled twice; flush is a barrier; stop ends |
| Dispatcher, registry (`bus/dispatcher.py`, `registry.py`) | subscriptions by type | subscribe, dispatch in priority order | one failing handler does not hide the others |
| Event stores (`bus/store`) | a row per event, dead letters | save, mark_processed, mark_failed, dead_letter | a settled row is final |
| Batch runner (`orchestrator/batch.py`) | job row, item rows | run, resume | done work is never repeated, status true of the rows |
| Bulk executor (`orchestrator/executor.py`) | queue, semaphores, tried accounts | map, retry on another account | every task ends; every result is delivered |
| Account pool (`orchestrator/orchestrator.py`) | clients, tiers, relogin tasks | add, remove, pick, send_message | only usable accounts are picked; conversations stay at home |
| Trackers (`scheduling.py`, `affinity.py`) | parks and pins, in memory and stored | park, quarantine, release, pin, drop, load | memory can be rebuilt from the store |
| Selectors, bus handlers (`selector.py`, `handlers.py`) | limits, metrics, proxies | on_event, pick | decisions follow the latest events |
| HTTP session, streaming (`session`, `streaming`) | open flag, cookie jar, one message being assembled | open, request, stream, close | the stored cookies are the jar's; only whole messages are announced as complete |
| Middleware (`middleware`) | time of the last slot, attempts | rate limit, retry | calls are spaced; what must not happen twice is not repeated |
| Transports, proxy list (`transport`) | failures per proxy, a shared cycle | request, stream, get, report | every request ends; no fit proxy is passed over for ever |
| Storage, cookies, cache (`storage`) | rows | get, set, delete, update | no lost update |
| Client (`client.py`, `methods`) | organization, read-through cache | one method per API call | nothing older than a finished update stays cached |
| Login (`login`) | - | send a link, verify it | an organization is set once it is known |
| Gateway accounts and keys (`gateway/features/auth`) | account and key rows, the pool | provision, issue, authenticate, touch, revoke, update cookies, rehydrate | revoked stays revoked; the pool follows the rows |
| Gateway rate limiter (`gateway/shared/rate_limit.py`) | a bucket per key | allow | never more than the rate |
| Gateway completion, methods, handlers (`gateway/features/completion`, `methods`, `gateway/servers`) | a buffer per answer | complete, stream, invoke | text in order, one end per stream |
| Models, enums, events, settings, scripts | - | - | schemas and packaging: not modelled |

How they interact: `HttpSession` publishes limit, message and proxy events on the
bus; the bus worker hands them to the trackers, which park or quarantine accounts
and write through to the storage; `pick()` reads the trackers; `BulkExecutor` calls
`pick()` and feeds 429 and 401 answers back; `BatchRunner` runs on the executor and
persists its results; the gateway adds and removes accounts and sends messages.

`PROJECT.json` lists the hazards at their lines, with the properties that cover
them.

## Modules

### EventWorker

The bus in worker mode. `queue` and `unfinished` are the two halves of
`asyncio.Queue`; `producer`, `consumer`, `starter` and `stopper` say where each
call or task is suspended; `status` and `dlq` are the store. A consumer goes through
`get`, `dispatch` and then one of the paths of `_handle`: `mark_processed`; or
`sleep`, `mark_retry`, `put` (a retry); or `mark_failed`, `dead_insert`, `dead_update`: in
`MongoEventStore` a `dead_letter()` is two writes, the record and then the row, and the stores
that write both under a lock or in a pipeline do the same with nothing in between. Every store
call may raise (`HandleRaises`, `EnqueueSaveFails`), and a consumer may be cancelled
wherever it is suspended (`Cancelled`), so a record may stay with a row that says "failed";
`DeadLetteredOnce` says that this is all that can go wrong with it. `stop()` puts one `None` per consumer, joins
with a timeout, cancels and gathers. `snapshot` (what had been accepted when a `join()`
began) and `lost` (envelopes whose handling was cut short) are history variables.
Left out: the inline mode of the bus, a second `start()`, and what handlers do - a
dispatch ends well, with a handler error or with a middleware error.

`DrainPatient` says whether `drain_timeout` can run out while work is still being
done (`FALSE`), or only at a standstill (`TRUE`): the second shows that an event is
stranded however long the timeout is.

### BatchRunner and ResumableJob

`run()` with its phases (create or resume, save the rows, execute, tally, report)
and the workers of `BulkExecutor.map`. `job` and `rows` are the store and survive
`Crash`, which may happen between any two steps; a later `Begin` is the next call of
`run()`. `fn` answers ok or not. A failing `save_item` in `on_result` ends its worker
(`OnResultRaises`). `ResumableJob` is the contract the docstring gives: done items
stay done, and COMPLETED means all of them. `BatchRunner` implements it with
`phase <- job, done <- Done`.

`CrashWhileSaving` separates two questions. With `FALSE` a crash may hit every point
except the loop that saves the item rows, and the contract holds. With `TRUE` it does
not: see the findings.

### AccountPool

The two trackers, the pool that uses them, and the store behind them. `parked` and
`pin` are the memory, `parkRow` and `pinRow` the rows. A tracker changes memory at once
and awaits its store call, so `parkWrites` and `pinWrites` hold the calls under way.
They are served in order for one key: true of the lock of `MemoryStorage` and of the
single-connection backends; a backend that reorders two writes of one key would break
`RestartAgrees`. Limit and expiry events wait on the bus in any order. `remove()` is cut
at each of its store calls, so `drop_account` works through keys that may have been
pinned elsewhere or dropped meanwhile. `pick()` may choose any usable account: the
selector is left open. A task's attempts are calls whose `excluded` accounts are open.

### BulkExecutor

`map()`, `_worker` and `_run_one` over the pool's interface: tasks are put in order
into a bounded queue, `n_slots` workers take them, and each task goes through `pick`,
`picked` (waiting for the account's semaphore), `call`, and `sleep` when no account is
available. The locals `tried`, `attempts` and `waits` are fields of the worker. What a
selector returns is any candidate that is available, not excluded and not below
`min_tier`. Meanwhile accounts are parked and quarantined by the calls themselves and by
bus events, released, added and removed. `AccountPool` has the same steps with their store
calls, so here an account is only barred or not. `late` is a history variable: the calls
that began on an account after it was barred.

A worker ends when `on_result` raises (`OnResultRaises`, after the result is stored) or when an
exception escapes `_run_one`: from the pin that `pick()` writes (`PickRaises`), or from `park()` and
`report_expired()` (`CallEscapes`). Its `finally` still calls `task_done()`, nobody replaces it, and
in the second case its task never has a result. `OneResultEach` therefore allows one missing result
for each worker that ended, and `MapReturns` promises a return unless every worker has ended with
tasks left (`Stranded`): then `map()` waits for ever.

### HttpSession, Client and Endpoints

`Endpoints` is the table of the method classes: verb, identifiers, how the session sends
the request and what becomes of its reply. `HttpSession` is one session with its default
middleware, over a transport that answers with any status, loses the answer or not, and a
cookie storage of one of three kinds: "lock" merges under a lock (memory, file), "thread" loads,
merges and saves with the writes in order (SQLite), and "pool" does so over a connection pool that
may carry the writes out in another order (MongoDB). `open()` is not exclusive, and may also be
called on its own (`open_client`: the context manager, `ClaudeOrchestrator.add`,
`MagicLinkLogin.open`); a call waits for its slot outside the lock; an
answer changes the jar at once and saves it afterwards; a retry keeps its slot. `Client`
adds the calls of `client.py` as records over these endpoints, with the cache key they ask,
fill and drop, and the server's versions of the resources. `Client` composes the other two.

The properties state their exemptions. Every cache entry carries the call that put it there, and
`raced` is the set of reads that were under way when an update dropped their key. `NoStaleSurvivor`
allows an entry older than such an update only if its call is in `raced`: nothing in the client
prevents that, and every other stale entry is excluded. It speaks of the updates that drop the entry.
`send_message` and `generate_title` change a conversation and drop nothing, and no update drops the
list: what these leave stale, only expiry removes. `CookiesAgree` speaks of runs in which every answer
reached `_persist_cookies` (`Unsaved`: an answer that is lost, or that arrives on a stream, is not
saved), and in which `strayed` is empty. `strayed` records the two orders the code does not survive:
`open()` on its own beside another call (it replaces the jar and saves nothing afterwards), and two
writes that MongoDB carries out in another order. `EffectOnce` speaks of POST and PATCH: a DELETE is
repeated, though the docstring of `retry.py` says that it is not.

### Streaming

One answer from `transport.stream()` to the frames of the gateway's client: the proxy of
`ListProxy`, the connection, the SSE lines, `_iterate_stream` with its bus events, the
reader and the handler's generator. What is asked for (`Wishes`) decides between the five
readers (`ModeOf`). The server is external: it sends a start, pieces and other events and
a stop, with broken JSON or no data at all, and may break off or fall silent anywhere. A
message_start whose data `MessageStart` refuses ("odd") becomes a plain event, so the message is
never announced, and its completion is published all the same. A reader may go away at its `yield`.
`MessageMetrics` and `ProxyBlacklist` take the bus events in any order. The bus may hand an event
to all its subscribers again, because another one failed, or to none, because a middleware raised:
`slips` counts both, and `surplus` what they add to and take from each kind of message.
A piece of text is its number, so a text is how many pieces it has,
and a tool-call block is complete from the piece `CallPiece` on. `unserved`, `slips` and `surplus`
are history variables.

`InFlightExact` says what `in_flight()` is once the bus is quiet: the announced messages under way,
with four corrections that nothing ever puts right. It is too high by the messages that broke off
and by announcements delivered twice, too low by completions without announcement and by
completions delivered twice.

### Gateway

Requests through `run_route()`, the admin routes, the key and account rows, the token
buckets and the pool. Every statement against the store is a step of its own, and a write
replaces the whole row, as in `PostgresApiKeyStore`; `touch()` is a task of its own that
may run after its request is over. `Restart` may happen anywhere and `Rehydrate` then reads
the accounts page by page, in the order and with the cursor of `page()`. A route ends with a status:
that of its `GatewayError` or `APIError`, 422, 502 for another error of the SDK, or 500 for any other
exception. Two of the history
variables name what the code does not prevent: `overlap`, the keys a `touch()` had read and
not yet written when they were revoked (that touch revives the key), and `clash`, the
accounts that two requests replaced at the same time (the pool may keep the older cookies
until the next update or restart). `grants`, the third, counts for each key what it was
granted up to each moment, so that `RateBound` can speak of every stretch of time.
`RevokeIsFinal` and `PoolFollowsRows` hold for all others, and fail without the exemptions.

## Runs

| Run | Question | Bounds |
|---|---|---|
| `worker_safety` | accounting, no loss, no duplication, barrier, in every interleaving with store errors and both stops | 2 events, 2 consumers, queue of 2 (both full and empty happen), 2 attempts (a retry and a last attempt); 180,000 states |
| `worker_live` | events settle, stop ends | 2 events, 2 consumers, a queue with room for all events and sentinels |
| `worker_failed_dlq` (violation) | does a failing event reach the dead letters? | 1 event, 1 consumer |
| `batch_resume` | crashes and failing writes against the contract | 3 items, 2 workers, 2 crashes, 2 failing writes: a crash of a resumed run, and both workers dead |
| `batch_lost_items` (violation) | does COMPLETED mean all? | 2 items, 1 crash in the saving loop |
| `pool_durable` | can memory be rebuilt? | 2 accounts, 2 chats, 1 call, 2 overlapping store calls, 1 report, 1 restart, a clock that ends a park |
| `pool_quarantine` (violation) | is a quarantine released only explicitly? | 2 calls, 2 reports |
| `pool_home` (violation) | is a conversation continued where it was created? | 2 accounts, 1 chat |
| `executor_work` | refusals, late calls, one result per task, `map()` returns | 3 tasks of which 2 share an affinity key, 2 accounts and workers, an empty and a full pool, one account perhaps below the tier, 2 attempts, 1 park wait, 1 change of the pool from outside: every account tried, all barred, a pin to a barred account, one or both workers ended; 690,000 states |
| `client_calls` | spacing, effects, cookies and cache of overlapping calls | 2 calls on a new session or one that has just made a call (so that one call comes while another waits for its slot): a cached read, an update that drops it, a stream, a login, `open()` on its own; 1 retry, 2 cookie rotations, three storages, close at any time; 2.5 million states |
| `streaming_answers` | what is read, sent on, counted and ended | 2 answers: one in every mode over aiohttp with 2 pieces, the second completing a tool call, and a live one over httpx without text (it shares the proxies, the bus and the counts; `Pieces`); 2 proxies of which one failure disables one, 1 event beside the text, 1 message delivered twice or lost (`MaxSlips`); 310,000 states |
| `gateway_auth` | keys, buckets, and the pool against the rows | 2 requests and 2 admin requests at once, 1 key, 2 accounts, pages of one row (so the cursor is used), 3 admin operations, 1 restart, 1 tick; 500,000 states |

All are exhaustive. Two calls, streams or requests at once are enough for these
properties: each compares two of them, or one with the state the others leave. One key is
enough in `gateway_auth` because rows and buckets of two keys never meet. Accounts, chats, calls, envelopes and consumers are symmetric in
the runs that say so: the specifications never tell them apart, and no liveness
property is checked under symmetry. `pool_durable` also uses a view that leaves out
which account owns a chat and which chat a call is about: no step depends on either
(only on whether a chat exists), and none of its invariants does. Deadlock
checking is off where the system may stop: a stopped bus, and behaviours that have
used up their bounds.

Mutations of the code (definitions marked so in the modules: a missing `task_done`,
a retry that is not awaited, an attempt too many, a resumed job that is created again,
a release that forgets the store...) show that each property can fail.

### Fairness

`EventWorker!FairSpec` assumes weak fairness of `start()`, of each consumer, of each
publisher that has begun and of the steps of `stop()`: the event loop runs every task that can move, the store answers
and handlers return. A publisher that waits to put and a consumer that waits to get are
served in FIFO order by `asyncio.Queue`; weak fairness is enough in `worker_live`, where
the queue has room for all. Nothing makes anybody call `stop()` or `flush()`.
`BatchRunner!FairSpec` assumes it of `run()` and of each worker, not of crashes, nor of
calling `run()` again.

`BulkExecutor!Spec` assumes weak fairness of the caller of `map()` and of every worker: a
call of `fn` ends (the transports time out) and a sleep ends. Nothing is assumed of the pool:
accounts may stay barred for ever, and tasks then give up. `Streaming!Spec` assumes weak
fairness of every stream that can move and of the bus, and strong fairness of `Cut` for
streams over aiohttp: `ClientTimeout(total=...)` (`aiohttp.py:42`) runs while the stream is
read, however busy the server is. `httpx.Timeout` counts single reads, so no such fairness
is assumed there, and `EveryAnswerEnds` promises an end or an endless stream of events.
`Client` and `Gateway` are checked for safety only.

### Findings

1. `worker_failed_dlq`: a retry that is put behind the sentinels of `stop()` is never
   taken. The event ends as "failed", neither retried nor dead-lettered.
2. `batch_lost_items`: the job row is stored before the item rows. After a crash in
   between, the resumed job knows only the stored rows and reports COMPLETED.
3. `pool_quarantine`: `park()` overwrites a quarantine with a park that ends by itself.
4. `pool_home`: `pick()` re-pins a conversation to another account when its own is
   parked, although conversations belong to an account.

Other behaviours of the code that the properties exempt by name, or that the bounds of a
run leave out: when the queue is full and every consumer waits to put its retry, the bus
stands still and `stop()` waits in `put(None)`, to which `drain_timeout` does not apply
(`worker_live` has room in the queue; with a queue of one, one consumer and two events TLC finds the
standstill); a `touch()` revives a key (`overlap`);
overlapping cookie updates (`clash`); a read that is overtaken by an update fills the cache
(`raced`); `open()` on its own beside a request, and reordered writes, leave the storage behind the
jar (`strayed`); exceptions that end every worker leave `map()` waiting (`Stranded`); a dead
letter may stay with a row that says "failed"; a stream that breaks off leaves `in_flight()` too
high for ever, and a refused message_start or a redelivery wrong by one (the terms of `InFlightExact`).

## Proofs

Every invariant of a passing run, every action property and the refinement are proved in
`<Module>_proofs.tla`, for every value of the constants that satisfies the named
assumptions (`WorkerAssumption`, `BatchAssumption`, `PoolAssumption`,
`ExecutorAssumption`, `GatewayAssumption`, `SessionAssumption`, `StreamingAssumption`),
which the runs evaluate. The assumptions only say what the constants are: finite sets,
natural numbers, a limit or a capacity of at least one, distinct values for "none", and
that the cookies a client is built with (`Initial`) are older than the server's. The bounds
of the runs are constants too, so the theorems hold for every bound. Each invariant below
was checked by TLC, on the instance of its run, before it was proved.

**EventWorker_proofs.** Types, `JoinAccounting`, `OnePlace`, `NothingVanishes`,
`JoinBarrier`, `DeadLetteredOnce` and `SettledIsFinal`, for any finite sets of events
and consumers. None is inductive alone. The invariant adds that a busy consumer holds an
envelope and one on the retry path has an attempt left (`Handling`), that only accepted,
unsettled envelopes are in transit (`Tracking`), and
that what a join waits for was accepted. The barrier then follows from the accounting:
`unfinished = 0` means nothing is queued or in hand, so what was accepted is settled or
was dropped. `StatsBalance` needs a second invariant, `Books`. A counter is incremented
one or two awaits away from the row it counts, so each counter is compared with the rows
and with the consumers in between (`Processing`, `Failing`). The bound on the retries does
not follow from a bound for each event, because the code keeps one counter for all: an
envelope that may still be retried after its attempt k is a *chance* (`Chances`), accepting
an event adds at most `MaxAttempts - 1` of them, and every retry uses one up for good.
`DeadLetteredOnce` needs a third, `Records`: an envelope in transit has a record only in the hands of
the consumer that is about to write its row, and that row says "failed". A cut between the two writes
puts the envelope into `lost`, from where it never returns to the queue, so no second record follows.

**BatchRunner_proofs.** Types, `OnlyUnfinishedWork`, `AtLeastOnce`, `StatusMatchesRows`,
and the refinement of `ResumableJob` under `~CrashWhileSaving`. The invariant relates the
phase of `run()` to the job row (`Control`), says how far the saving loop has come
(`Saving`), and keeps the ledger behind `AtLeastOnce` (`Successes`): an item whose
successes have used up every loss so far is DONE or is about to be saved as such, so it is
never run again. `Whole` - a job has a row for every item - is what a crash in the saving
loop destroys and what the last step of the refinement needs.

**AccountPool_proofs.** Types, `RestartAgrees` and `PinsDurable`. The invariant says that
the last store call made for a key carries what memory holds, or, with none under way,
that the row does (`ParkLog`, `PinLog`). Every action changes the parks and the pins in
one of a few ways (`ParkEffect`, `PinEffect`), so each log is shown to survive those ways
once, and each action to be one of them. Park entries need only be alike: both may have
expired, because `is_available()` clears memory and leaves the row.

**BulkExecutor_proofs.** Types, `RefusedNotRetried`, `LateCallsBounded` and
`OneResultEach`, with workers that end at any point an exception can escape. The
invariant ties the locals of `_run_one` together (`Loop`): what refused
is in `tried`, and the account in use is not, also when it comes from a pin. `Ledger` says
that a task without a result is queued, not yet put, in one worker's hands, or was the end of its
worker.
`LateCallsBounded` is not inductive, because a worker that waits for the semaphore of a
barred account is a call that has not begun: `Lateness` counts late calls and waiting
workers together. While the account is barred nobody joins the waiting ones, so the sum
never grows, and at the barring it is at most the number of workers.

**Gateway_proofs.** Types, `RevokeIsFinal`, `RateBound` and `PoolFollowsRows`. For keys
(`KeyInv`): a row never becomes absent again, a key that is still being made is made by one
request and unknown to everybody else, and a `touch()` of a revoked key outside `overlap`
holds a revoked row. For the buckets (`BucketInv`): what was granted since a moment and the
tokens left, with the refill they are due, are bounded by the capacity and the time
passed; `RateBound` forgets the tokens. For the pool (`PoolInv`): while start-up pages, an
account is in the pool or lies beyond the cursor, which needs that the order of `page()` is
total and that a page takes the first rows in it (`FiniteSetTheorems` and lemmas on that
order); afterwards the pool holds the row or one request is replacing the account with
exactly that row's cookies.

**Client_proofs.** Types, `SlotsSpaced`, `EffectOnce`, `NoStaleSurvivor` and
`CookiesAgree`, for any set of operations of any shape. `SlotInv` adds that no slot lies
after `last`. `CallInv` says for each point of a call how often the server may have applied
it: a POST that is with the transport has not been applied, and only verbs that may be
repeated are backed off. `NoStaleSurvivor` needs `CacheInv`: a call that has been answered carries
a version as new as every update that dropped its key, or is in `raced`, and no update is
acknowledged for a version the server does not have. `CookiesAgree` needs
to see through the writes under way: what the storage will hold when they are done is the
jar, or a call still owes the save that makes it so, or the session was never opened, or a
call was cut off, or an order was recorded in `strayed` (`JarInv`). That each call has at most one
write under way makes the alternatives exclusive at the end. `open()` on its own owes nothing
afterwards, so `SoloInv` follows it alone: while it is alone the row it read is the stored one, and
what it writes is the jar.

**Streaming_proofs.** Types, `CompleteIsWhole`, `TextInOrder`, `EndsOnce`, `RotationFair`
and `InFlightExact`. `Reading` relates, for each answer, the server, the SSE lines and
the reader: their counts of pieces differ by the piece on its way and by nothing else.
`Spoken` says which frames the client has before the end (`OpenFrames`), so that the frames
appended at the end make `TextInOrder` and `EndsOnce` true. `Rotation` adds to `unserved`
the distance of a proxy from the cursor: the sum never exceeds `Proxies - 1`, and the scan
of `get()` is shown to take the first fit proxy. `Counts` is an equation for each counter: what was
counted and what is still due (`Due`: on the bus, less the surplus) are the announced, or the
completed, messages, in whatever order they are delivered and however often. `Slipped` bounds the
surplus. With the bus empty, splitting the announced messages into those under way, completed and
broken off gives `InFlightExact`.

Only model-checked:

- `EventuallySettled`, `StopTerminates`, `RunEnds`, `MapReturns` and `EveryAnswerEnds`:
  liveness under fairness is out of the prover's reach.
- The four violations: they are counterexamples, found by TLC.

## Not modelled

- `models`, `enums`, `events`, settings, exceptions, scripts and deployment: schemas and
  configuration, without state or steps. The fields a property depends on appear in the
  modules that use them.
- The wire: aiohttp, httpx and curl_cffi, SQL, Redis, Mongo and file formats. They appear as
  what the callers see of them: an answer, an error, silence, a row.
- The text level: building a prompt from chat messages, the JSON inside a tool call, cookie
  parsing, OpenAPI and the docs pages. These are functions of strings without
  state; unit tests reach them.
- The adapters of the gateway to its web frameworks: one call of `run_route` each.
- `LimitTracker` (the last snapshot it was given), `StreamRecorder` (the last N chunks of each conversation, in memory),
  user-defined middlewares, `CookieAuth` (unused by the repository), `close()` of the pool,
  the revocation of accounts (no route sets it).
- Two `start()` calls of one bus and two `run()` calls of one job at the same time. Nothing in
  the code excludes them and no property survives them; they are listed as hazards.

## Plan

Done: the bus worker, the batch runner with its contract, the pool with its trackers, the
executor, the session with the client, the streaming path and the gateway; the proof of
every safety property of their runs. Next:

1. An abstract at-least-once queue (an event is accepted, then settled or dropped, and
   never both) and its refinement by `EventWorker`.
2. Action properties of the kind of `SettledIsFinal` for the other modules: results of
   `BulkExecutor`, DONE rows of `BatchRunner` and frames of `Streaming` are only ever added.
