---------------------------- MODULE EventWorker ----------------------------
(***************************************************************************)
(* The worker-mode event bus: MemoryEventBus.publish/start/stop/flush      *)
(* (claude_ai/bus/memory.py) on top of EventWorker (claude_ai/bus/         *)
(* worker.py), its bounded asyncio.Queue and a BaseEventStore.             *)
(*                                                                         *)
(* A step is the code between two awaits that may suspend: a store call,   *)
(* the dispatch of an envelope, the backoff sleep, a get on an empty queue *)
(* and a put on a full one.  One publish() call is made per envelope; one  *)
(* start(), one flush() and one stop() are made, at any time.              *)
(***************************************************************************)
EXTENDS Naturals, Sequences, FiniteSets

CONSTANTS
  Envelopes,      \* envelope ids; publish() is called once for each
  Consumers,      \* the `concurrency` consumer tasks
  NoEnvelope,     \* the id carried by the None sentinel
  QueueSize,      \* WorkerConfig.queue_size
  MaxAttempts,    \* WorkerConfig.envelope_max_attempts
  StoreFaults,    \* TRUE when a store call may raise
  DrainPatient    \* TRUE when drain_timeout outlasts everything but a standstill

ASSUME WorkerAssumption ==
  /\ IsFiniteSet(Envelopes)
  /\ IsFiniteSet(Consumers)
  /\ NoEnvelope \notin Envelopes
  /\ QueueSize \in Nat \ {0}
  /\ MaxAttempts \in Nat \ {0}
  /\ StoreFaults \in BOOLEAN
  /\ DrainPatient \in BOOLEAN

VARIABLES
  running, stopping,  \* EventWorker._running, ._stopping
  closed,             \* MemoryEventBus._closed
  queue, unfinished,  \* asyncio.Queue: items, _unfinished_tasks
  starter,            \* where the start() call is
  producer,           \* where each publish() call is
  consumer, held,     \* where each consumer task is, and the item it handles
  stopper, sentinels, \* where the stop() call is, None items still to put
  join, snapshot,     \* queue.join() callers; what was accepted when they called
  status, dlq,        \* the store: status and number of DLQ records per event
  stats,              \* WorkerStats
  lost                \* history: envelopes dropped by a cancelled or raising _handle

flags == <<running, stopping, closed>>
chan == <<queue, unfinished>>
store == <<status, dlq>>
stop == <<stopper, sentinels>>
work == <<consumer, held>>
vars == <<flags, chan, starter, producer, work, stop, join, snapshot, store, stats, lost>>

Item == [id : Envelopes, attempt : 1..MaxAttempts]
Sentinel == [id |-> NoEnvelope, attempt |-> 0]

Stats == [enqueued : Nat, processed : Nat, failed : Nat, retried : Nat, dead_lettered : Nat]

Final == {"processed", "dead"}
Writes == {"mark_processed", "mark_retry", "mark_failed", "dead_insert", "dead_update"}
Idle == {"new", "get", "exited"}
ConsumerStates == Idle \cup Writes \cup {"dispatch", "sleep", "put"}
Waiters == {"flush", "stop"}

Settled(e) == status[e] \in Final
Busy == {c \in Consumers : consumer[c] \notin Idle}
Accepted == {e \in Envelopes : producer[e] = "accepted"}
Full == Len(queue) >= QueueSize
Cancelling == stopper = "cancelling"

Init ==
  /\ running = FALSE /\ stopping = FALSE /\ closed = FALSE
  /\ queue = <<>> /\ unfinished = 0
  /\ starter = "idle"
  /\ producer = [e \in Envelopes |-> "idle"]
  /\ consumer = [c \in Consumers |-> "new"]
  /\ held = [c \in Consumers |-> Sentinel]
  /\ stopper = "idle" /\ sentinels = 0
  /\ join = [w \in Waiters |-> "none"]
  /\ snapshot = [w \in Waiters |-> {}]
  /\ status = [e \in Envelopes |-> "none"]
  /\ dlq = [e \in Envelopes |-> 0]
  /\ stats = [enqueued |-> 0, processed |-> 0, failed |-> 0, retried |-> 0, dead_lettered |-> 0]
  /\ lost = {}

-----------------------------------------------------------------------------
(* asyncio.Queue *)

\* put_nowait: the caller has found room.
Put(item) ==
  /\ ~Full
  /\ queue' = Append(queue, item)
  /\ unfinished' = unfinished + 1

\* task_done: the count that reaches zero releases every join() in progress.
TaskDone ==
  /\ unfinished' = unfinished - 1
  /\ join' = [w \in Waiters |->
                IF join[w] = "waiting" /\ unfinished = 1 THEN "released" ELSE join[w]]

\* join(): returns at once when nothing is unfinished.
Join(w) ==
  /\ join' = [join EXCEPT ![w] = IF unfinished = 0 THEN "released" ELSE "waiting"]
  /\ snapshot' = [snapshot EXCEPT ![w] = Accepted]

-----------------------------------------------------------------------------
(* start() *)

StartCall ==
  /\ starter = "idle"
  /\ starter' = IF closed THEN "raised" ELSE "opening"
  /\ UNCHANGED <<flags, chan, producer, work, stop, join, snapshot, store, stats, lost>>

StartOpened ==
  /\ starter = "opening"
  /\ starter' = "started"
  /\ running' = TRUE /\ stopping' = FALSE
  /\ consumer' = [c \in Consumers |-> "get"]
  /\ UNCHANGED <<closed, chan, producer, held, stop, join, snapshot, store, stats, lost>>

-----------------------------------------------------------------------------
(* publish() -> enqueue() *)

Publish(e) ==
  /\ producer[e] = "idle"
  /\ producer' = [producer EXCEPT ![e] =
                    IF closed \/ ~running \/ stopping THEN "rejected" ELSE "saving"]
  /\ UNCHANGED <<flags, chan, starter, work, stop, join, snapshot, store, stats, lost>>

EnqueueSaved(e) ==
  /\ producer[e] = "saving"
  /\ status' = [status EXCEPT ![e] = "pending"]
  /\ producer' = [producer EXCEPT ![e] = "putting"]
  /\ UNCHANGED <<flags, chan, starter, work, stop, join, snapshot, dlq, stats, lost>>

\* store.save raises into the publisher, having written the row or not.
EnqueueSaveFails(e) ==
  /\ StoreFaults
  /\ producer[e] = "saving"
  /\ \E s \in {"none", "pending"} : status' = [status EXCEPT ![e] = s]
  /\ producer' = [producer EXCEPT ![e] = "rejected"]
  /\ UNCHANGED <<flags, chan, starter, work, stop, join, snapshot, dlq, stats, lost>>

EnqueuePut(e) ==
  /\ producer[e] = "putting"
  /\ Put([id |-> e, attempt |-> 1])
  /\ producer' = [producer EXCEPT ![e] = "accepted"]
  /\ stats' = [stats EXCEPT !.enqueued = @ + 1]
  /\ UNCHANGED <<flags, starter, work, stop, join, snapshot, store, lost>>

-----------------------------------------------------------------------------
(* _consume() and _handle() *)

At(c, pc) == consumer[c] = pc /\ ~Cancelling
Goto(c, pc) == consumer' = [consumer EXCEPT ![c] = pc]

ConsumeEnvelope(c) ==
  /\ At(c, "get")
  /\ queue # <<>> /\ Head(queue) # Sentinel
  /\ queue' = Tail(queue)
  /\ held' = [held EXCEPT ![c] = Head(queue)]
  /\ Goto(c, "dispatch")
  /\ UNCHANGED <<flags, unfinished, starter, producer, stop, join, snapshot, store, stats, lost>>

\* Mutation: the sentinel is taken without task_done.
SentinelNotDone(c) ==
  /\ At(c, "get")
  /\ queue # <<>> /\ Head(queue) = Sentinel
  /\ queue' = Tail(queue)
  /\ Goto(c, "exited")
  /\ UNCHANGED <<flags, unfinished, starter, producer, held, stop, join, snapshot, store, stats, lost>>

ConsumeSentinel(c) ==
  /\ At(c, "get")
  /\ queue # <<>> /\ Head(queue) = Sentinel
  /\ queue' = Tail(queue)
  /\ TaskDone
  /\ Goto(c, "exited")
  /\ UNCHANGED <<flags, starter, producer, held, stop, snapshot, store, stats, lost>>

Outcomes == {"ok", "handler_error", "middleware_error"}

\* Mutation: attempt <= max_attempts.
AttemptLeftOffByOne(c) == held[c].attempt <= MaxAttempts

AttemptLeft(c) == held[c].attempt < MaxAttempts

\* Mutation: a failed attempt is counted as failed although it is retried.
DispatchCountsRetries(c, outcome) ==
  /\ At(c, "dispatch")
  /\ \/ /\ outcome = "ok"
        /\ stats' = [stats EXCEPT !.processed = @ + 1]
        /\ Goto(c, "mark_processed")
     \/ /\ outcome = "handler_error" /\ AttemptLeft(c)
        /\ stats' = [stats EXCEPT !.retried = @ + 1, !.failed = @ + 1]
        /\ Goto(c, "sleep")
     \/ /\ outcome = "middleware_error" \/ (outcome = "handler_error" /\ ~AttemptLeft(c))
        /\ stats' = [stats EXCEPT !.failed = @ + 1]
        /\ Goto(c, "mark_failed")
  /\ UNCHANGED <<flags, chan, starter, producer, held, stop, join, snapshot, store, lost>>

\* The outcome of EventDispatcher.dispatch decides the envelope's route.
Dispatch(c, outcome) ==
  /\ At(c, "dispatch")
  /\ \/ /\ outcome = "ok"
        /\ stats' = [stats EXCEPT !.processed = @ + 1]
        /\ Goto(c, "mark_processed")
     \/ /\ outcome = "handler_error" /\ AttemptLeft(c)
        /\ stats' = [stats EXCEPT !.retried = @ + 1]
        /\ Goto(c, "sleep")
     \/ /\ outcome = "middleware_error" \/ (outcome = "handler_error" /\ ~AttemptLeft(c))
        /\ stats' = [stats EXCEPT !.failed = @ + 1]
        /\ Goto(c, "mark_failed")
  /\ UNCHANGED <<flags, chan, starter, producer, held, stop, join, snapshot, store, lost>>

\* Mutation: the retry is queued before the failed attempt is recorded.
BackoffRequeues(c) ==
  /\ At(c, "sleep")
  /\ Put([held[c] EXCEPT !.attempt = @ + 1])
  /\ Goto(c, "mark_retry")
  /\ UNCHANGED <<flags, starter, producer, held, stop, join, snapshot, store, stats, lost>>

\* Mutation: task_done before the retry is back in the queue.
BackoffDone(c) ==
  /\ At(c, "sleep")
  /\ Goto(c, "mark_retry")
  /\ TaskDone
  /\ UNCHANGED <<flags, queue, starter, producer, held, stop, snapshot, store, stats, lost>>

BackoffElapsed(c) ==
  /\ At(c, "sleep")
  /\ Goto(c, "mark_retry")
  /\ UNCHANGED <<flags, chan, starter, producer, held, stop, join, snapshot, store, stats, lost>>

\* The store write the consumer is waiting for: one statement each.  MongoDB's
\* dead_letter is two, the record and then the row; in memory and in Redis
\* nothing comes between them.
Written(pc) ==
  CASE pc = "mark_processed" -> "processed"
    [] pc \in {"mark_retry", "mark_failed"} -> "failed"
    [] pc = "dead_update" -> "dead"

StoreWrite(c) ==
  LET e == held[c].id
  IN IF consumer[c] = "dead_insert"
       THEN dlq' = [dlq EXCEPT ![e] = @ + 1] /\ UNCHANGED status
       ELSE status' = [status EXCEPT ![e] = Written(consumer[c])] /\ UNCHANGED dlq

MarkFailed(c) ==
  /\ \/ At(c, "mark_retry") /\ Goto(c, "put")
     \/ At(c, "mark_failed") /\ Goto(c, "dead_insert")
  /\ StoreWrite(c)
  /\ UNCHANGED <<flags, chan, starter, producer, held, stop, join, snapshot, stats, lost>>

MarkProcessed(c) ==
  /\ At(c, "mark_processed")
  /\ StoreWrite(c)
  /\ TaskDone
  /\ Goto(c, "get")
  /\ UNCHANGED <<flags, queue, starter, producer, held, stop, snapshot, stats, lost>>

DeadInsert(c) ==
  /\ At(c, "dead_insert")
  /\ StoreWrite(c)
  /\ Goto(c, "dead_update")
  /\ UNCHANGED <<flags, chan, starter, producer, held, stop, join, snapshot, stats, lost>>

\* Mutation: mark_failed after dead_letter.
DeadLetterThenFail(c) ==
  /\ At(c, "dead_update")
  /\ StoreWrite(c)
  /\ stats' = [stats EXCEPT !.dead_lettered = @ + 1]
  /\ Goto(c, "mark_failed")
  /\ UNCHANGED <<flags, chan, starter, producer, held, stop, join, snapshot, lost>>

DeadLetter(c) ==
  /\ At(c, "dead_update")
  /\ StoreWrite(c)
  /\ stats' = [stats EXCEPT !.dead_lettered = @ + 1]
  /\ TaskDone
  /\ Goto(c, "get")
  /\ UNCHANGED <<flags, queue, starter, producer, held, stop, snapshot, lost>>

\* Mutation: put_nowait, a retry that finds the queue full is given up.
PutRetryNoWait(c) ==
  /\ At(c, "put")
  /\ \/ ~Full /\ queue' = Append(queue, [held[c] EXCEPT !.attempt = @ + 1]) /\ UNCHANGED <<unfinished, join>>
     \/ Full /\ TaskDone /\ UNCHANGED queue
  /\ Goto(c, "get")
  /\ UNCHANGED <<flags, starter, producer, held, stop, snapshot, store, stats, lost>>

\* Mutation: the consumer returns after a retry instead of looping.
PutRetryReturns(c) ==
  /\ At(c, "put")
  /\ ~Full
  /\ queue' = Append(queue, [held[c] EXCEPT !.attempt = @ + 1])
  /\ Goto(c, "exited")
  /\ UNCHANGED <<flags, unfinished, starter, producer, held, stop, join, snapshot, store, stats, lost>>

\* put(retry_env) and the task_done of the same iteration: the count is back
\* where it was and never touches zero.
PutRetry(c) ==
  /\ At(c, "put")
  /\ ~Full
  /\ queue' = Append(queue, [held[c] EXCEPT !.attempt = @ + 1])
  /\ Goto(c, "get")
  /\ UNCHANGED <<flags, unfinished, starter, producer, held, stop, join, snapshot, store, stats, lost>>

\* _handle is left by an exception before the envelope's route ended: the
\* write in progress, if any, may or may not have reached the store.
Abandon(c) ==
  /\ \/ consumer[c] \in Writes /\ StoreWrite(c)
     \/ UNCHANGED store
  /\ lost' = IF status'[held[c].id] \in Final THEN lost ELSE lost \cup {held[c].id}
  /\ TaskDone

\* Mutation: a store call that raised is made again.
HandleRaisesAgain(c) ==
  /\ StoreFaults
  /\ consumer[c] \in Writes /\ ~Cancelling
  /\ StoreWrite(c) \/ UNCHANGED store
  /\ UNCHANGED <<flags, chan, starter, producer, work, stop, join, snapshot, stats, lost>>

\* A store call raises: logged by _consume, and the loop goes on.
HandleRaises(c) ==
  /\ StoreFaults
  /\ consumer[c] \in Writes /\ ~Cancelling
  /\ Abandon(c)
  /\ Goto(c, "get")
  /\ UNCHANGED <<flags, queue, starter, producer, held, stop, snapshot, stats>>

\* CancelledError at the consumer's current await.
Cancelled(c) ==
  /\ Cancelling
  /\ consumer[c] # "exited"
  /\ IF consumer[c] \in Idle THEN UNCHANGED <<store, lost, unfinished, join>> ELSE Abandon(c)
  /\ Goto(c, "exited")
  /\ UNCHANGED <<flags, queue, starter, producer, held, stop, snapshot, stats>>

-----------------------------------------------------------------------------
(* flush() and stop() *)

Flush ==
  /\ join["flush"] = "none"
  /\ Join("flush")
  /\ UNCHANGED <<flags, chan, starter, producer, work, stop, store, stats, lost>>

StopCall(graceful) ==
  /\ stopper = "idle"
  /\ \/ /\ ~running
        /\ stopper' = "stopped" /\ closed' = TRUE
        /\ UNCHANGED <<stopping, sentinels>>
     \/ /\ running
        /\ stopping' = TRUE
        /\ stopper' = IF graceful THEN "poisoning" ELSE "cancelling"
        /\ sentinels' = IF graceful THEN Cardinality(Consumers) ELSE 0
        /\ UNCHANGED closed
  /\ UNCHANGED <<running, chan, starter, producer, work, join, snapshot, store, stats, lost>>

StopPutNone ==
  /\ stopper = "poisoning" /\ sentinels > 0
  /\ Put(Sentinel)
  /\ sentinels' = sentinels - 1
  /\ UNCHANGED <<flags, starter, producer, work, stopper, join, snapshot, store, stats, lost>>

StopJoin ==
  /\ stopper = "poisoning" /\ sentinels = 0
  /\ Join("stop")
  /\ stopper' = "joining"
  /\ UNCHANGED <<flags, chan, starter, producer, work, sentinels, store, stats, lost>>

\* No consumer can take another step.
Standstill ==
  \A c \in Consumers :
    \/ consumer[c] = "exited"
    \/ consumer[c] = "get" /\ queue = <<>>
    \/ consumer[c] = "put" /\ Full

\* wait_for ends, by join() or by drain_timeout; then every task is cancelled.
StopDrained ==
  /\ stopper = "joining" /\ join["stop"] = "released"
  /\ stopper' = "cancelling"
  /\ UNCHANGED <<flags, chan, starter, producer, work, sentinels, join, snapshot, store, stats, lost>>

\* Mutation: join() awaited without a timeout.
StopNeverTimesOut ==
  /\ stopper = "joining" /\ join["stop"] = "timedout"
  /\ UNCHANGED vars

StopTimesOut ==
  /\ stopper = "joining" /\ join["stop"] = "waiting"
  /\ DrainPatient => Standstill
  /\ stopper' = "cancelling"
  /\ join' = [join EXCEPT !["stop"] = "timedout"]
  /\ UNCHANGED <<flags, chan, starter, producer, work, sentinels, snapshot, store, stats, lost>>

StopGathered ==
  /\ Cancelling
  /\ \A c \in Consumers : consumer[c] = "exited"
  /\ stopper' = "closing"
  /\ running' = FALSE
  /\ UNCHANGED <<stopping, closed, chan, starter, producer, work, sentinels, join, snapshot, store, stats, lost>>

StopClosed ==
  /\ stopper = "closing"
  /\ stopper' = "stopped"
  /\ closed' = TRUE
  /\ UNCHANGED <<running, stopping, chan, starter, producer, work, sentinels, join, snapshot, store, stats, lost>>

-----------------------------------------------------------------------------
Producer(e) == Publish(e) \/ EnqueueSaved(e) \/ EnqueueSaveFails(e) \/ EnqueuePut(e)

Consumer(c) ==
  \/ ConsumeEnvelope(c) \/ ConsumeSentinel(c)
  \/ \E outcome \in Outcomes : Dispatch(c, outcome)
  \/ BackoffElapsed(c) \/ MarkFailed(c) \/ MarkProcessed(c) \/ DeadInsert(c) \/ DeadLetter(c)
  \/ PutRetry(c) \/ HandleRaises(c) \/ Cancelled(c)

Stopping == StopPutNone \/ StopJoin \/ StopDrained \/ StopTimesOut \/ StopGathered \/ StopClosed

Next ==
  \/ StartCall \/ StartOpened
  \/ \E e \in Envelopes : Producer(e)
  \/ \E c \in Consumers : Consumer(c)
  \/ Flush
  \/ \E graceful \in BOOLEAN : StopCall(graceful)
  \/ Stopping

Spec == Init /\ [][Next]_vars

(* The event loop runs every ready task, store calls and handlers return,   *)
(* timers fire; nobody is obliged to call publish, flush or stop.           *)
FairSpec ==
  /\ Spec
  /\ WF_vars(StartOpened)
  /\ \A e \in Envelopes : WF_vars(EnqueueSaved(e)) /\ WF_vars(EnqueuePut(e))
  /\ \A c \in Consumers : WF_vars(Consumer(c))
  /\ WF_vars(Stopping)

-----------------------------------------------------------------------------
(* Every variable stays in its domain. *)
TypeOK ==
  /\ running \in BOOLEAN /\ stopping \in BOOLEAN /\ closed \in BOOLEAN
  /\ queue \in Seq(Item \cup {Sentinel}) /\ unfinished \in Nat
  /\ starter \in {"idle", "opening", "started", "raised"}
  /\ producer \in [Envelopes -> {"idle", "saving", "putting", "accepted", "rejected"}]
  /\ consumer \in [Consumers -> ConsumerStates]
  /\ held \in [Consumers -> Item \cup {Sentinel}]
  /\ stopper \in {"idle", "poisoning", "joining", "cancelling", "closing", "stopped"}
  /\ sentinels \in Nat
  /\ join \in [Waiters -> {"none", "waiting", "released", "timedout"}]
  /\ snapshot \in [Waiters -> SUBSET Envelopes]
  /\ status \in [Envelopes -> {"none", "pending", "processed", "failed", "dead"}]
  /\ dlq \in [Envelopes -> Nat]
  /\ stats \in Stats
  /\ lost \in SUBSET Envelopes

(* queue.join() can be trusted: the count of unfinished tasks is exactly   *)
(* the items queued plus the envelopes in the hands of a consumer, through *)
(* retries that re-enter the queue, sentinels, store errors and            *)
(* cancellation (task_done in every branch of _consume).                   *)
JoinAccounting == unfinished = Len(queue) + Cardinality(Busy)

InQueue(e) == \E i \in 1..Len(queue) : queue[i].id = e
InHand(e) == \E c \in Busy : held[c].id = e

(* An envelope is in one place only: never queued twice, never with two    *)
(* consumers, never queued while a consumer still works on it, although a  *)
(* retry is put back before its own task_done.                             *)
OnePlace ==
  /\ \A i, j \in 1..Len(queue) :
       queue[i].id = queue[j].id /\ queue[i] # Sentinel => i = j
  /\ \A c, d \in Busy : held[c].id = held[d].id => c = d
  /\ \A c \in Busy : ~InQueue(held[c].id)

(* No accepted event disappears: it is queued, in hand, settled in the     *)
(* store, or was dropped by a store error or a cancellation.               *)
NothingVanishes ==
  \A e \in Accepted : InQueue(e) \/ InHand(e) \/ Settled(e) \/ e \in lost

(* flush() (and a stop() that drained) is a barrier: when its join()       *)
(* returns, every event accepted before the call has been processed or     *)
(* dead-lettered, retries included, unless its handling was cut short by a *)
(* store error or a cancellation.                                          *)
JoinBarrier ==
  \A w \in Waiters : join[w] = "released" =>
    \A e \in snapshot[w] : Settled(e) \/ e \in lost

(* dead_letter() is not atomic in MongoDB (bus/store/mongo.py:128): still,  *)
(* an event has at most one DLQ record, a dead row has one, and a record    *)
(* without its dead row is being completed or was cut short there; then no  *)
(* retry adds another.                                                      *)
DeadLetteredOnce ==
  \A e \in Envelopes :
    /\ dlq[e] <= 1
    /\ status[e] = "dead" => dlq[e] = 1
    /\ dlq[e] = 1 => \/ status[e] = "dead"
                     \/ status[e] = "failed" /\ e \in lost
                     \/ \E c \in Consumers : consumer[c] = "dead_update" /\ held[c].id = e

(* WorkerStats agrees with the store once the queue has drained without    *)
(* losses: every accepted event was counted processed or failed, as its    *)
(* status says, and no envelope was retried more often than allowed.       *)
StatsBalance ==
  unfinished = 0 /\ lost = {} =>
    /\ stats.processed = Cardinality({e \in Envelopes : status[e] = "processed"})
    /\ stats.failed = Cardinality({e \in Envelopes : status[e] = "dead"})
    /\ stats.enqueued = stats.processed + stats.failed
    /\ stats.retried <= stats.enqueued * (MaxAttempts - 1)

(* A settled event is never touched again: no late mark_failed, no second  *)
(* handling after a retry was queued.                                      *)
SettledIsFinal ==
  [][\A e \in Envelopes : Settled(e) => status'[e] = status[e] /\ dlq'[e] = dlq[e]]_vars

(* With room in the queue for every envelope and every sentinel, an        *)
(* accepted event is eventually settled as long as nobody calls stop().    *)
EventuallySettled ==
  \A e \in Envelopes : (producer[e] = "accepted") ~> (Settled(e) \/ stopper # "idle")

(* stop() comes to an end, and with it every consumer task.                *)
StopTerminates ==
  (stopper = "poisoning") ~> (stopper = "stopped" /\ consumer = [c \in Consumers |-> "exited"])

(* A failed event reaches the dead letter queue: a graceful stop() leaves  *)
(* no accepted event between a failed attempt and its retry, when the      *)
(* drain timeout outlasts all the work that can still be done.             *)
FailuresReachDeadLetter ==
  stopper = "stopped" /\ join["stop"] # "none" =>
    \A e \in Accepted \ lost : status[e] # "failed"
=============================================================================
