------------------------- MODULE EventWorker_proofs -------------------------
(***************************************************************************)
(* Proofs about EventWorker for any finite sets of envelopes and consumer  *)
(* tasks, any queue size and any number of attempts.                       *)
(***************************************************************************)
EXTENDS EventWorker, FiniteSetTheorems, TLAPS

(* The consumers exist once start() has finished, and stop() has something *)
(* to do only after that.                                                  *)
Lifecycle ==
  /\ starter # "started" => /\ running = FALSE
                            /\ consumer = [c \in Consumers |-> "new"]
                            /\ stopper \in {"idle", "stopped"}
  /\ starter = "started" => \A c \in Consumers : consumer[c] # "new"

(* A busy consumer holds an envelope, and one on the retry path has an     *)
(* attempt left.                                                           *)
Handling ==
  /\ \A c \in Busy : held[c] \in Item
  /\ \A c \in Consumers : consumer[c] \in {"sleep", "mark_retry", "put"}
                            => held[c].attempt < MaxAttempts

InTransit(e) == InQueue(e) \/ InHand(e)

(* Only an accepted, unsettled envelope is in transit, only an accepted    *)
(* one is settled, and an accepted one that is neither was dropped.        *)
Tracking ==
  \A e \in Envelopes :
    /\ InTransit(e) => producer[e] = "accepted" /\ ~Settled(e)
    /\ Settled(e) => producer[e] = "accepted"
    /\ producer[e] = "accepted" => InTransit(e) \/ Settled(e) \/ e \in lost

Barriers ==
  /\ JoinBarrier
  /\ \A w \in Waiters : snapshot[w] \subseteq Accepted

IInv ==
  /\ TypeOK
  /\ Lifecycle
  /\ Handling
  /\ JoinAccounting
  /\ OnePlace
  /\ Tracking
  /\ Barriers

-----------------------------------------------------------------------------
(* The sequence facts used below: what Append and Tail do to length and    *)
(* elements of a queue.                                                    *)
LEMMA QueueFacts ==
  ASSUME NEW S, NEW q \in Seq(S)
  PROVE  /\ Len(q) \in Nat
         /\ \A i \in 1..Len(q) : q[i] \in S
         /\ \A x \in S : /\ Append(q, x) \in Seq(S)
                         /\ Len(Append(q, x)) = Len(q) + 1
                         /\ Append(q, x)[Len(q) + 1] = x
                         /\ \A i \in 1..Len(q) : Append(q, x)[i] = q[i]
         /\ q # <<>> => /\ Len(q) >= 1
                        /\ Head(q) = q[1] /\ Head(q) \in S
                        /\ Tail(q) \in Seq(S)
                        /\ Len(Tail(q)) = Len(q) - 1
                        /\ \A i \in 1..Len(Tail(q)) : Tail(q)[i] = q[i + 1]
         /\ Len(q) = 0 => q = <<>>
OBVIOUS

(* Counting one more event keeps WorkerStats a record of naturals. *)
LEMMA StatsFacts ==
  ASSUME NEW s \in Stats
  PROVE  /\ [s EXCEPT !.enqueued = @ + 1] \in Stats
         /\ [s EXCEPT !.processed = @ + 1] \in Stats
         /\ [s EXCEPT !.failed = @ + 1] \in Stats
         /\ [s EXCEPT !.retried = @ + 1] \in Stats
         /\ [s EXCEPT !.dead_lettered = @ + 1] \in Stats
BY DEF Stats

(* A set of consumers is finite, and its size follows an element that is   *)
(* added or removed.                                                       *)
LEMMA ConsumerSets ==
  ASSUME NEW B \in SUBSET Consumers
  PROVE  /\ Cardinality(B) \in Nat
         /\ Cardinality(B) = 0 <=> B = {}
         /\ \A c \in Consumers :
              /\ c \notin B => Cardinality(B \cup {c}) = Cardinality(B) + 1
              /\ c \in B => /\ Cardinality(B) >= 1
                            /\ Cardinality(B \ {c}) = Cardinality(B) - 1
<1>2. IsFiniteSet(B)
  BY WorkerAssumption, FS_Subset
<1>3. Cardinality(B) \in Nat /\ (Cardinality(B) = 0 <=> B = {})
  BY <1>2, FS_CardinalityType, FS_EmptySet
<1>4. ASSUME NEW c \in Consumers, c \notin B
      PROVE  Cardinality(B \cup {c}) = Cardinality(B) + 1
  BY <1>2, <1>4, FS_AddElement
<1>5. ASSUME NEW c \in Consumers, c \in B
      PROVE  Cardinality(B) >= 1 /\ Cardinality(B \ {c}) = Cardinality(B) - 1
  <2>1. Cardinality(B) # 0
    BY <1>3, <1>5
  <2>2. Cardinality(B \ {c}) = Cardinality(B) - 1
    BY <1>2, <1>5, FS_RemoveElement
  <2>3. QED
    BY <1>3, <2>1, <2>2
<1>6. QED
  BY <1>3, <1>4, <1>5

(* Once nothing is unfinished, no envelope is queued or in hand.           *)
Drained ==
  TypeOK /\ JoinAccounting /\ unfinished = 0 => \A e \in Envelopes : ~InTransit(e)

(* Nothing unfinished: no envelope is queued or in a consumer's hands. *)
LEMMA DrainedQueue == Drained
<1> SUFFICES ASSUME TypeOK, JoinAccounting, unfinished = 0
             PROVE  \A e \in Envelopes : ~InTransit(e)
  BY DEF Drained
<1>1. Busy \in SUBSET Consumers
  BY DEF Busy
<1>2. Cardinality(Busy) = 0 /\ Len(queue) = 0
  BY <1>1, ConsumerSets, QueueFacts DEF TypeOK, JoinAccounting
<1>3. Busy = {}
  BY <1>1, <1>2, ConsumerSets
<1>4. QED
  BY <1>2, <1>3 DEF InTransit, InQueue, InHand

(* The same of the state after a step. *)
LEMMA DrainedNext == Drained'
BY DrainedQueue, PTL

(* A step that keeps the queue and what every consumer holds keeps every   *)
(* envelope where it is.                                                   *)
LEMMA PlacesKept ==
  ASSUME IInv, queue' = queue, held' = held, Busy' = Busy
  PROVE  OnePlace' /\ \A e \in Envelopes : InTransit(e)' <=> InTransit(e)
BY DEF IInv, OnePlace, InTransit, InQueue, InHand

(* The join() barrier survives a step that un-settles nothing and releases *)
(* a join() only when nothing is unfinished.                               *)
LEMMA BarriersKept ==
  ASSUME IInv, TypeOK', JoinAccounting', Tracking',
         \A e \in Envelopes : Settled(e) => Settled(e)',
         lost \subseteq lost', Accepted \subseteq Accepted',
         \A w \in Waiters : \/ join'[w] = join[w] /\ snapshot'[w] = snapshot[w]
                            \/ /\ snapshot'[w] \subseteq Accepted'
                               /\ join'[w] = "released" => unfinished' = 0
  PROVE  Barriers'
<1>1. ASSUME NEW w \in Waiters, join'[w] = join[w], snapshot'[w] = snapshot[w]
      PROVE  /\ snapshot'[w] \subseteq Accepted'
             /\ join'[w] = "released" => \A e \in snapshot'[w] : Settled(e)' \/ e \in lost'
  BY <1>1 DEF IInv, Barriers, JoinBarrier, TypeOK
<1>2. ASSUME NEW w \in Waiters, snapshot'[w] \subseteq Accepted',
             join'[w] = "released" => unfinished' = 0
      PROVE  join'[w] = "released" => \A e \in snapshot'[w] : Settled(e)' \/ e \in lost'
  <2> SUFFICES ASSUME join'[w] = "released", NEW e \in snapshot'[w]
               PROVE  Settled(e)' \/ e \in lost'
    OBVIOUS
  <2>1. e \in Envelopes /\ producer'[e] = "accepted"
    BY <1>2 DEF Accepted
  <2>2. \A x \in Envelopes : ~InTransit(x)'
    BY DrainedNext, <1>2 DEF Drained
  <2>3. QED
    BY <2>1, <2>2 DEF Tracking
<1>3. QED
  BY <1>1, <1>2 DEF Barriers, JoinBarrier

-----------------------------------------------------------------------------
(* A new bus satisfies the invariant. *)
LEMMA InitIInv == Init => IInv
<1> SUFFICES ASSUME Init PROVE IInv
  OBVIOUS
<1> USE DEF Init, Sentinel
<1>1. TypeOK
  <2>1. running \in BOOLEAN /\ stopping \in BOOLEAN /\ closed \in BOOLEAN
    OBVIOUS
  <2>2. queue \in Seq(Item \cup {Sentinel}) /\ unfinished \in Nat /\ sentinels \in Nat
    OBVIOUS
  <2>3. consumer \in [Consumers -> ConsumerStates] /\ held \in [Consumers -> Item \cup {Sentinel}]
    BY DEF ConsumerStates, Idle
  <2>4. stats \in Stats
    BY DEF Stats
  <2>5. QED
    BY <2>1, <2>2, <2>3, <2>4 DEF TypeOK
<1>2. Busy = {}
  BY DEF Busy, Idle
<1>3. JoinAccounting
  BY <1>2, FS_EmptySet DEF JoinAccounting
<1>4. Lifecycle /\ Handling /\ OnePlace
  BY <1>2 DEF Lifecycle, Handling, OnePlace
<1>5. Tracking /\ Barriers
  BY <1>2 DEF Tracking, Barriers, JoinBarrier, InTransit, InQueue, InHand, Settled, Final, Waiters
<1>6. QED
  BY <1>1, <1>3, <1>4, <1>5 DEF IInv

-----------------------------------------------------------------------------
(* Steps that leave every envelope where it is. *)

(* start() brings the consumers to their first get(). *)
LEMMA StartSteps == IInv /\ (StartCall \/ StartOpened) => IInv'
<1> SUFFICES ASSUME IInv, StartCall \/ StartOpened PROVE IInv'
  OBVIOUS
<1> USE DEF IInv, StartCall, StartOpened, flags, chan, work, stop, store
<1>1. TypeOK' /\ Lifecycle'
  <2>1. CASE StartCall
    BY <2>1 DEF TypeOK, Lifecycle
  <2>2. CASE StartOpened
    <3>1. TypeOK'
      BY <2>2 DEF TypeOK, ConsumerStates, Idle
    <3>2. Lifecycle'
      BY <2>2 DEF Lifecycle
    <3>3. QED
      BY <3>1, <3>2
  <2>3. QED
    BY <2>1, <2>2
<1>2. Busy' = Busy
  BY DEF Busy, Idle, Lifecycle
<1>3. Handling' /\ JoinAccounting'
  BY <1>2 DEF Handling, JoinAccounting, TypeOK
<1>4. OnePlace' /\ Tracking'
  BY <1>2, PlacesKept DEF Tracking, Settled
<1>5. Barriers'
  BY <1>1, <1>3, <1>4, BarriersKept DEF Settled, Accepted
<1>6. QED
  BY <1>1, <1>3, <1>4, <1>5

(* publish() up to its put(): only the caller and the event's row change. *)
LEMMA EnqueueSteps ==
  ASSUME NEW e \in Envelopes
  PROVE  IInv /\ (Publish(e) \/ EnqueueSaved(e) \/ EnqueueSaveFails(e)) => IInv'
<1> SUFFICES ASSUME IInv, Publish(e) \/ EnqueueSaved(e) \/ EnqueueSaveFails(e) PROVE IInv'
  OBVIOUS
<1> USE DEF IInv, Publish, EnqueueSaved, EnqueueSaveFails, flags, chan, work, stop, store
<1>1. TypeOK' /\ Lifecycle'
  <2>1. CASE Publish(e)
    BY <2>1 DEF TypeOK, Lifecycle
  <2>2. CASE EnqueueSaved(e)
    BY <2>2 DEF TypeOK, Lifecycle
  <2>3. CASE EnqueueSaveFails(e)
    BY <2>3 DEF TypeOK, Lifecycle
  <2>4. QED
    BY <2>1, <2>2, <2>3
<1>2. Busy' = Busy
  BY DEF Busy
<1>3. Handling' /\ JoinAccounting'
  BY <1>2 DEF Handling, JoinAccounting, TypeOK
<1>4. /\ \A x \in Envelopes : Settled(x)' <=> Settled(x)
      /\ \A x \in Envelopes : producer'[x] = "accepted" <=> producer[x] = "accepted"
  BY DEF Tracking, Settled, Final, TypeOK
<1>6. OnePlace' /\ Tracking'
  BY <1>2, <1>4, PlacesKept DEF Tracking
<1>7. Barriers'
  BY <1>1, <1>3, <1>4, <1>6, BarriersKept DEF Accepted
<1>8. QED
  BY <1>1, <1>3, <1>6, <1>7

(* Dispatch, backoff, mark_failed and the DLQ record keep the envelope in   *)
(* its consumer's hands.                                                                  *)
LEMMA RouteSteps ==
  ASSUME NEW c \in Consumers
  PROVE  IInv /\ ((\E o \in Outcomes : Dispatch(c, o)) \/ BackoffElapsed(c) \/ MarkFailed(c) \/ DeadInsert(c)) => IInv'
<1> SUFFICES ASSUME IInv, (\E o \in Outcomes : Dispatch(c, o)) \/ BackoffElapsed(c) \/ MarkFailed(c)
                             \/ DeadInsert(c)
             PROVE  IInv'
  OBVIOUS
<1> USE DEF IInv, flags, chan, stop, store, At, Goto
<1>1. PICK e \in Envelopes : e = held[c].id /\ InHand(e) /\ c \in Busy
  BY DEF Dispatch, BackoffElapsed, MarkFailed, DeadInsert, Handling, Item, InHand, Busy, Idle, TypeOK
<1>2. TypeOK'
  <2>1. ASSUME NEW o \in Outcomes, Dispatch(c, o) PROVE TypeOK'
    <3>1. stats' \in Stats
      BY <2>1, StatsFacts DEF Dispatch, TypeOK
    <3>2. consumer' \in [Consumers -> ConsumerStates]
      <4>1. PICK pc \in {"mark_processed", "sleep", "mark_failed"} : consumer' = [consumer EXCEPT ![c] = pc]
        BY <2>1 DEF Dispatch
      <4>2. pc \in ConsumerStates /\ consumer \in [Consumers -> ConsumerStates]
        BY DEF TypeOK, ConsumerStates, Writes
      <4>3. QED
        BY <4>1, <4>2
    <3>3. QED
      BY <2>1, <3>1, <3>2 DEF Dispatch, TypeOK
  <2>2. CASE BackoffElapsed(c)
    BY <2>2 DEF BackoffElapsed, TypeOK, ConsumerStates, Writes
  <2>3. CASE MarkFailed(c)
    <3>1. consumer' \in [Consumers -> ConsumerStates]
      <4>1. PICK pc \in {"put", "dead_insert"} : consumer' = [consumer EXCEPT ![c] = pc]
        BY <2>3 DEF MarkFailed
      <4>2. pc \in ConsumerStates /\ consumer \in [Consumers -> ConsumerStates]
        BY DEF TypeOK, ConsumerStates, Writes
      <4>3. QED
        BY <4>1, <4>2
    <3>2. /\ status' \in [Envelopes -> {"none", "pending", "processed", "failed", "dead"}]
          /\ dlq' \in [Envelopes -> Nat]
      BY <2>3 DEF MarkFailed, StoreWrite, Written, TypeOK
    <3>3. QED
      BY <2>3, <3>1, <3>2 DEF MarkFailed, TypeOK
  <2>4. CASE DeadInsert(c)
    BY <1>1, <2>4 DEF DeadInsert, StoreWrite, TypeOK, ConsumerStates, Writes
  <2>5. QED
    BY <2>1, <2>2, <2>3, <2>4
<1>3. Busy' = Busy /\ queue' = queue /\ held' = held /\ producer' = producer /\ lost' = lost
  BY DEF Dispatch, BackoffElapsed, MarkFailed, DeadInsert, Busy, Idle, TypeOK
<1>4. Lifecycle'
  BY DEF Lifecycle, Dispatch, BackoffElapsed, MarkFailed, DeadInsert, TypeOK
<1>5. Handling' /\ JoinAccounting'
  BY <1>1, <1>3 DEF Handling, JoinAccounting, Dispatch, AttemptLeft, BackoffElapsed, MarkFailed, DeadInsert, TypeOK
<1>6. ~Settled(e) /\ \A x \in Envelopes : Settled(x)' <=> Settled(x)
  BY <1>1 DEF Tracking, InTransit, Settled, Final, Dispatch, BackoffElapsed, MarkFailed, DeadInsert, StoreWrite, Written, TypeOK
<1>8. OnePlace' /\ Tracking'
  BY <1>3, <1>6, PlacesKept DEF Tracking
<1>9. Barriers'
  <2>1. join' = join /\ snapshot' = snapshot
    BY DEF Dispatch, BackoffElapsed, MarkFailed, DeadInsert
  <2>2. QED
    BY <1>2, <1>3, <1>5, <1>6, <1>8, <2>1, BarriersKept DEF Accepted
<1>10. QED
  BY <1>2, <1>4, <1>5, <1>8, <1>9

(* flush() and the control steps of stop() move no envelope; a join() that  *)
(* starts with nothing unfinished is released at once.                     *)
LEMMA StopControlSteps ==
  ASSUME IInv, \/ \E g \in BOOLEAN : StopCall(g)
               \/ StopDrained \/ StopTimesOut \/ StopGathered \/ StopClosed
               \/ Flush \/ StopJoin
  PROVE  IInv'
<1> USE DEF IInv, flags, chan, work, stop, store
<1>1. TypeOK'
  <2>1. CASE \E g \in BOOLEAN : StopCall(g)
    <3>1. Cardinality(Consumers) \in Nat
      BY WorkerAssumption, FS_CardinalityType
    <3>2. PICK g \in BOOLEAN : StopCall(g)
      BY <2>1
    <3>3. stopping' \in BOOLEAN /\ closed' \in BOOLEAN /\ running' \in BOOLEAN
      BY <3>2 DEF StopCall, TypeOK
    <3>4. sentinels' \in Nat /\ stopper' \in {"idle", "poisoning", "joining", "cancelling", "closing", "stopped"}
      BY <3>1, <3>2 DEF StopCall, TypeOK
    <3>5. QED
      BY <3>2, <3>3, <3>4 DEF StopCall, TypeOK
  <2>2. CASE StopDrained \/ StopTimesOut \/ StopGathered \/ StopClosed
    BY <2>2 DEF StopDrained, StopTimesOut, StopGathered, StopClosed, TypeOK
  <2>3. CASE Flush \/ StopJoin
    <3>1. Accepted \subseteq Envelopes
      BY DEF Accepted
    <3>2. QED
      BY <2>3, <3>1 DEF Flush, StopJoin, Join, TypeOK
  <2>4. QED
    BY <2>1, <2>2, <2>3
<1>2. /\ queue' = queue /\ unfinished' = unfinished /\ held' = held /\ consumer' = consumer
      /\ producer' = producer /\ status' = status /\ dlq' = dlq /\ lost' = lost /\ starter' = starter
  BY DEF StopCall, StopDrained, StopTimesOut, StopGathered, StopClosed, Flush, StopJoin
<1>3. Busy' = Busy
  BY <1>2 DEF Busy
<1>4. Lifecycle'
  BY <1>2 DEF Lifecycle, StopCall, StopDrained, StopTimesOut, StopGathered, StopClosed, Flush, StopJoin, Cancelling, TypeOK
<1>5. Handling' /\ JoinAccounting'
  BY <1>2, <1>3 DEF Handling, JoinAccounting
<1>6. OnePlace' /\ Tracking'
  BY <1>2, <1>3, PlacesKept DEF Tracking, Settled
<1>7. Barriers'
  <2>1. \A w \in Waiters : \/ join'[w] = join[w] /\ snapshot'[w] = snapshot[w]
                           \/ /\ snapshot'[w] \subseteq Accepted'
                              /\ join'[w] = "released" => unfinished' = 0
    BY <1>2 DEF StopCall, StopDrained, StopTimesOut, StopGathered, StopClosed, Flush, StopJoin, Join,
                Accepted, TypeOK, Barriers
  <2>2. QED
    BY <1>1, <1>2, <1>5, <1>6, <2>1, BarriersKept DEF Settled, Accepted
<1>8. QED
  BY <1>1, <1>4, <1>5, <1>6, <1>7

-----------------------------------------------------------------------------
(* Steps that move an envelope or a sentinel. *)

(* put() of a new envelope or of a sentinel adds one item and one          *)
(* unfinished task.                                                        *)
LEMMA PutSteps ==
  ASSUME IInv, (\E e \in Envelopes : EnqueuePut(e)) \/ StopPutNone
  PROVE  IInv'
<1> USE DEF IInv, flags, work, stop, store
<1>1. PICK x \in Item \cup {Sentinel} :
        /\ Put(x)
        /\ \/ x = Sentinel /\ producer' = producer
           \/ /\ x \in Item /\ producer[x.id] = "putting"
              /\ producer' = [producer EXCEPT ![x.id] = "accepted"]
  <2>1. CASE StopPutNone
    BY <2>1 DEF StopPutNone
  <2>2. CASE \E e \in Envelopes : EnqueuePut(e)
    <3>1. PICK e \in Envelopes : EnqueuePut(e)
      BY <2>2
    <3>2. [id |-> e, attempt |-> 1] \in Item
      BY WorkerAssumption DEF Item
    <3>3. [id |-> e, attempt |-> 1].id = e
      OBVIOUS
    <3>4. QED
      BY <3>1, <3>2, <3>3 DEF EnqueuePut
  <2>3. QED
    BY <2>1, <2>2
<1>2. /\ consumer' = consumer /\ held' = held /\ status' = status /\ dlq' = dlq /\ lost' = lost
      /\ join' = join /\ snapshot' = snapshot /\ running' = running /\ starter' = starter
      /\ stopper' = stopper
  BY DEF EnqueuePut, StopPutNone
<1>3. /\ queue \in Seq(Item \cup {Sentinel})
      /\ queue' = Append(queue, x) /\ unfinished' = unfinished + 1
  BY <1>1 DEF Put, TypeOK
<1>4. /\ queue' \in Seq(Item \cup {Sentinel}) /\ Len(queue) \in Nat
      /\ Len(queue') = Len(queue) + 1
      /\ \A i \in 1..Len(queue') : queue'[i] = IF i = Len(queue) + 1 THEN x ELSE queue[i]
      /\ \A i \in 1..Len(queue) : queue[i] \in Item \cup {Sentinel}
  BY <1>1, <1>3, QueueFacts
<1>5. TypeOK'
  <2>1. stats' \in Stats /\ sentinels' \in Nat
    <3>1. CASE StopPutNone
      BY <3>1 DEF StopPutNone, TypeOK
    <3>2. CASE \E e \in Envelopes : EnqueuePut(e)
      BY <3>2, StatsFacts DEF EnqueuePut, TypeOK
    <3>3. QED
      BY <3>1, <3>2
  <2>2. stopping' = stopping /\ closed' = closed
    BY DEF EnqueuePut, StopPutNone
  <2>3. producer' \in [Envelopes -> {"idle", "saving", "putting", "accepted", "rejected"}]
    BY <1>1 DEF TypeOK
  <2>4. QED
    BY <1>2, <1>3, <1>4, <2>1, <2>2, <2>3 DEF TypeOK
<1>6. Busy' = Busy
  BY <1>2 DEF Busy
<1>7. Lifecycle' /\ Handling'
  BY <1>2, <1>6 DEF Lifecycle, Handling
<1>8. JoinAccounting'
  <2>1. Cardinality(Busy) \in Nat
    BY ConsumerSets DEF Busy
  <2>2. QED
    BY <1>3, <1>4, <1>6, <2>1 DEF JoinAccounting, TypeOK
<1>9. ASSUME NEW e \in Envelopes
      PROVE  InTransit(e)' <=> InTransit(e) \/ x.id = e
  <2>1. InQueue(e)' <=> InQueue(e) \/ x.id = e
    BY <1>4 DEF InQueue
  <2>2. InHand(e)' <=> InHand(e)
    BY <1>2, <1>6 DEF InHand
  <2>3. QED
    BY <2>1, <2>2 DEF InTransit
<1>10. x \in Item => x.id \in Envelopes /\ ~InTransit(x.id) /\ ~Settled(x.id)
  <2>1. Sentinel \notin Item
    BY WorkerAssumption DEF Item, Sentinel
  <2>2. QED
    BY <1>1, <2>1 DEF Tracking, Item
<1>11. OnePlace'
  <2>1. x # Sentinel => \A i \in 1..Len(queue) : queue[i].id # x.id
    BY <1>1, <1>10 DEF InTransit, InQueue
  <2>2. x # Sentinel => \A c \in Busy : held[c].id # x.id
    BY <1>1, <1>10 DEF InTransit, InHand
  <2>3. x = Sentinel => \A i \in 1..Len(queue) : queue[i] # Sentinel => queue[i].id # x.id
    BY <1>4, WorkerAssumption DEF Item, Sentinel
  <2>4. x = Sentinel => \A c \in Busy : held[c].id # x.id
    BY WorkerAssumption DEF Handling, Item, Sentinel
  <2>5. \A i, j \in 1..Len(queue') : queue'[i].id = queue'[j].id /\ queue'[i] # Sentinel => i = j
    BY <1>4, <2>1, <2>3 DEF OnePlace
  <2>6. \A c \in Busy' : ~ \E i \in 1..Len(queue') : queue'[i].id = held'[c].id
    BY <1>2, <1>4, <1>6, <2>2, <2>4 DEF OnePlace, InQueue
  <2>7. QED
    BY <1>2, <1>6, <2>5, <2>6 DEF OnePlace, InQueue
<1>12. Tracking'
  <2>1. x = Sentinel => x.id \notin Envelopes
    BY WorkerAssumption DEF Sentinel
  <2>2. \A e \in Envelopes : Settled(e)' <=> Settled(e)
    BY <1>2 DEF Settled
  <2>3. \A e \in Envelopes : producer'[e] = IF x \in Item /\ x.id = e THEN "accepted" ELSE producer[e]
    BY <1>1, <2>1 DEF TypeOK
  <2>4. QED
    BY <1>1, <1>2, <1>9, <1>10, <2>1, <2>2, <2>3 DEF Tracking
<1>13. Barriers'
  <2>1. Accepted \subseteq Accepted'
    BY <1>1 DEF Accepted, TypeOK
  <2>2. QED
    BY <1>2, <1>5, <1>8, <1>12, <2>1, BarriersKept DEF Settled
<1>14. QED
  BY <1>5, <1>7, <1>8, <1>11, <1>12, <1>13

(* Taking the head of the queue: a sentinel ends the consumer, an envelope *)
(* passes from the queue into its hands.                                   *)
LEMMA GetSteps ==
  ASSUME IInv, NEW c \in Consumers, ConsumeEnvelope(c) \/ ConsumeSentinel(c)
  PROVE  IInv'
<1> USE DEF IInv, flags, chan, work, stop, store, At, Goto
<1>1. /\ queue \in Seq(Item \cup {Sentinel}) /\ queue # <<>> /\ queue' = Tail(queue)
      /\ consumer[c] = "get" /\ c \notin Busy
  BY DEF ConsumeEnvelope, ConsumeSentinel, TypeOK, Busy, Idle
<1>2. /\ queue' \in Seq(Item \cup {Sentinel})
      /\ Len(queue) \in Nat /\ Len(queue) >= 1 /\ Len(queue') = Len(queue) - 1
      /\ Head(queue) = queue[1] /\ Head(queue) \in Item \cup {Sentinel}
      /\ \A i \in 1..Len(queue') : queue'[i] = queue[i + 1]
      /\ \A i \in 1..Len(queue) : queue[i] \in Item \cup {Sentinel}
  BY <1>1, QueueFacts
<1>3. /\ producer' = producer /\ snapshot' = snapshot /\ status' = status /\ dlq' = dlq /\ lost' = lost
      /\ starter' = starter /\ running' = running /\ stopper' = stopper
      /\ stopping' = stopping /\ closed' = closed /\ sentinels' = sentinels /\ stats' = stats
  BY DEF ConsumeEnvelope, ConsumeSentinel
<1>4. Sentinel \notin Item /\ Sentinel.id \notin Envelopes
  BY WorkerAssumption DEF Item, Sentinel
<1>5. Cardinality(Busy) \in Nat /\ Cardinality(Busy \cup {c}) = Cardinality(Busy) + 1
  BY <1>1, ConsumerSets DEF Busy
<1>u. \A i, j \in 1..Len(queue') : queue'[i].id = queue'[j].id /\ queue'[i] # Sentinel => i = j
  <2> HIDE DEF IInv
  <2>0. OnePlace
    BY DEF IInv
  <2> SUFFICES ASSUME NEW i \in 1..Len(queue'), NEW j \in 1..Len(queue'),
                      queue'[i].id = queue'[j].id, queue'[i] # Sentinel
               PROVE  i = j
    OBVIOUS
  <2>1. /\ i + 1 \in 1..Len(queue) /\ j + 1 \in 1..Len(queue)
        /\ queue'[i] = queue[i + 1] /\ queue'[j] = queue[j + 1]
    BY <1>2
  <2>2. i + 1 = j + 1
    BY <2>0, <2>1 DEF OnePlace
  <2>3. QED
    BY <2>2
<1>6. CASE ConsumeSentinel(c)
  <2>1. Head(queue) = Sentinel /\ held' = held /\ TaskDone /\ consumer' = [consumer EXCEPT ![c] = "exited"]
    BY <1>6 DEF ConsumeSentinel
  <2>2. Busy' = Busy
    BY <1>1, <2>1 DEF Busy, Idle, TypeOK
  <2>3. unfinished' = unfinished - 1 /\ unfinished >= 1 /\ JoinAccounting'
    BY <1>2, <1>5, <2>1, <2>2 DEF JoinAccounting, TaskDone, TypeOK
  <2>4. TypeOK'
    <3>1. consumer' \in [Consumers -> ConsumerStates]
      BY <2>1 DEF TypeOK, ConsumerStates, Idle
    <3>2. join' \in [Waiters -> {"none", "waiting", "released", "timedout"}]
      BY <2>1 DEF TaskDone, TypeOK
    <3>3. QED
      BY <1>2, <1>3, <2>1, <2>3, <3>1, <3>2 DEF TypeOK
  <2>5. Lifecycle' /\ Handling'
    BY <1>1, <1>3, <2>1, <2>2 DEF Lifecycle, Handling, TypeOK
  <2>6. \A e \in Envelopes : InQueue(e)' <=> InQueue(e)
    <3> SUFFICES ASSUME NEW e \in Envelopes
                 PROVE  (\E i \in 1..Len(queue') : queue'[i].id = e) <=> (\E i \in 1..Len(queue) : queue[i].id = e)
      BY DEF InQueue
    <3>1. ASSUME NEW i \in 1..Len(queue), queue[i].id = e
          PROVE  i - 1 \in 1..Len(queue') /\ queue'[i - 1].id = e
      <4>1. i # 1
        BY <3>1, <1>2, <1>4, <2>1
      <4>2. i - 1 \in 1..Len(queue') /\ (i - 1) + 1 = i
        BY <4>1, <1>2
      <4>3. QED
        BY <4>2, <3>1, <1>2
    <3>2. ASSUME NEW i \in 1..Len(queue'), queue'[i].id = e
          PROVE  i + 1 \in 1..Len(queue) /\ queue[i + 1].id = e
      BY <1>2, <3>2
    <3>3. QED
      BY <3>1, <3>2
  <2>7. OnePlace' /\ Tracking'
    <3>1. \A i, j \in 1..Len(queue') : queue'[i].id = queue'[j].id /\ queue'[i] # Sentinel => i = j
      BY <1>u
    <3>2. \A d \in Busy : held[d].id \in Envelopes
      BY DEF Handling, Item
    <3>3. \A d \in Busy : \A i \in 1..Len(queue') : queue'[i].id # held[d].id
      BY <2>6, <3>2 DEF OnePlace, InQueue
    <3>4. OnePlace'
      BY <2>1, <2>2, <3>1, <3>3 DEF OnePlace, InQueue
    <3>5. \A e \in Envelopes : InTransit(e)' <=> InTransit(e)
      BY <2>1, <2>2, <2>6 DEF InTransit, InHand
    <3>6. QED
      BY <1>3, <3>4, <3>5 DEF Tracking, Settled
  <2>8. \A w \in Waiters : join'[w] = join[w] \/ (join'[w] = "released" => unfinished' = 0)
    BY <2>1, <2>3 DEF TaskDone, TypeOK
  <2>9. Barriers'
    BY <1>3, <2>3, <2>4, <2>7, <2>8, BarriersKept DEF Settled, Accepted, Barriers
  <2>10. QED
    BY <2>3, <2>4, <2>5, <2>7, <2>9
<1>7. CASE ConsumeEnvelope(c)
  <2>1. PICK x \in Item : /\ x = queue[1] /\ held' = [held EXCEPT ![c] = x]
                          /\ unfinished' = unfinished /\ join' = join
                          /\ consumer' = [consumer EXCEPT ![c] = "dispatch"]
    BY <1>2, <1>7 DEF ConsumeEnvelope
  <2>2. Busy' = Busy \cup {c}
    BY <1>1, <2>1 DEF Busy, Idle, TypeOK
  <2>3. JoinAccounting'
    BY <1>2, <1>5, <2>1, <2>2 DEF JoinAccounting, TypeOK
  <2>4. TypeOK'
    <3>1. consumer' \in [Consumers -> ConsumerStates] /\ held' \in [Consumers -> Item \cup {Sentinel}]
      BY <2>1 DEF TypeOK, ConsumerStates
    <3>2. QED
      BY <1>2, <1>3, <2>1, <3>1 DEF TypeOK
  <2>5. Lifecycle' /\ Handling'
    BY <1>1, <1>3, <2>1, <2>2 DEF Lifecycle, Handling, TypeOK
  <2>6. x.id \in Envelopes /\ InQueue(x.id)
    BY <1>2, <2>1 DEF InQueue, Item
  <2>7. \A d \in Busy : held'[d] = held[d] /\ held[d].id # x.id
    BY <1>1, <2>1, <2>6 DEF OnePlace, Busy, TypeOK
  <2>8. held'[c] = x
    BY <2>1 DEF TypeOK
  <2>9. \A e \in Envelopes : InHand(e)' <=> InHand(e) \/ e = x.id
    BY <2>2, <2>7, <2>8 DEF InHand
  <2>10. ASSUME NEW e \in Envelopes PROVE InQueue(e)' <=> InQueue(e) /\ e # x.id
    <3>1. ASSUME NEW i \in 1..Len(queue), queue[i].id = e, e # x.id
          PROVE  i - 1 \in 1..Len(queue') /\ queue'[i - 1].id = e
      <4>1. i # 1
        BY <3>1, <2>1
      <4>2. i - 1 \in 1..Len(queue') /\ (i - 1) + 1 = i
        BY <4>1, <1>2
      <4>3. QED
        BY <4>2, <3>1, <1>2
    <3>2. ASSUME NEW i \in 1..Len(queue'), queue'[i].id = e
          PROVE  i + 1 \in 1..Len(queue) /\ queue[i + 1].id = e /\ e # x.id
      <4>1. i + 1 \in 1..Len(queue) /\ queue[i + 1].id = e /\ 1 \in 1..Len(queue) /\ i + 1 # 1
        BY <1>2, <3>2
      <4>2. queue[1] # Sentinel
        BY <1>4, <2>1
      <4>3. QED
        BY <4>1, <4>2, <2>1 DEF OnePlace
    <3>3. QED
      BY <3>1, <3>2 DEF InQueue
  <2>11. OnePlace'
    <3>1. \A i, j \in 1..Len(queue') : queue'[i].id = queue'[j].id /\ queue'[i] # Sentinel => i = j
      BY <1>u
    <3>2. \A d \in Busy' : \A i \in 1..Len(queue') : queue'[i].id # held'[d].id
      <4>1. \A i \in 1..Len(queue') : queue'[i].id # x.id
        BY <2>6, <2>10 DEF InQueue
      <4>2. \A d \in Busy : held[d].id \in Envelopes /\ ~InQueue(held[d].id)
        BY DEF Handling, Item, OnePlace
      <4>3. \A d \in Busy : \A i \in 1..Len(queue') : queue'[i].id # held[d].id
        BY <2>10, <4>2 DEF InQueue
      <4>4. QED
        BY <2>2, <2>7, <2>8, <4>1, <4>3
    <3>3. \A d, f \in Busy' : held'[d].id = held'[f].id => d = f
      BY <2>2, <2>7, <2>8 DEF OnePlace
    <3>4. QED
      BY <3>1, <3>2, <3>3 DEF OnePlace, InQueue
  <2>12. Tracking'
    <3>1. \A e \in Envelopes : InTransit(e)' <=> InTransit(e)
      BY <2>6, <2>9, <2>10 DEF InTransit
    <3>2. QED
      BY <1>3, <3>1 DEF Tracking, Settled
  <2>13. Barriers'
    BY <1>3, <2>1, <2>3, <2>4, <2>12, BarriersKept DEF Settled, Accepted
  <2>14. QED
    BY <2>3, <2>4, <2>5, <2>11, <2>12, <2>13
<1>8. QED
  BY <1>6, <1>7

(* The retry goes from the consumer's hands to the back of the queue. *)
LEMMA RetryStep ==
  ASSUME IInv, NEW c \in Consumers, PutRetry(c)
  PROVE  IInv'
<1> USE DEF IInv, flags, chan, work, stop, store, At, Goto
<1>1. /\ c \in Busy /\ held[c] \in Item /\ held[c].attempt < MaxAttempts
      /\ queue \in Seq(Item \cup {Sentinel})
  BY DEF PutRetry, Handling, Busy, Idle, TypeOK
<1>2. PICK x \in Item : x = [held[c] EXCEPT !.attempt = @ + 1] /\ x.id = held[c].id
  <2>1. [held[c] EXCEPT !.attempt = @ + 1] = [id |-> held[c].id, attempt |-> held[c].attempt + 1]
    BY <1>1 DEF Item
  <2>2. held[c].id \in Envelopes /\ held[c].attempt + 1 \in 1..MaxAttempts
    BY <1>1, WorkerAssumption DEF Item
  <2>3. [id |-> held[c].id, attempt |-> held[c].attempt + 1] \in Item
    BY <2>2 DEF Item
  <2>4. QED
    BY <2>1, <2>3
<1>3. /\ queue' = Append(queue, x) /\ unfinished' = unfinished /\ held' = held
      /\ consumer' = [consumer EXCEPT ![c] = "get"]
      /\ producer' = producer /\ status' = status /\ dlq' = dlq /\ lost' = lost
      /\ join' = join /\ snapshot' = snapshot /\ starter' = starter /\ running' = running
      /\ stopper' = stopper /\ stopping' = stopping /\ closed' = closed
      /\ sentinels' = sentinels /\ stats' = stats
  BY <1>2 DEF PutRetry
<1>4. /\ queue' \in Seq(Item \cup {Sentinel}) /\ Len(queue) \in Nat
      /\ Len(queue') = Len(queue) + 1
      /\ \A i \in 1..Len(queue') : queue'[i] = IF i = Len(queue) + 1 THEN x ELSE queue[i]
  BY <1>1, <1>3, QueueFacts
<1>5. Busy' = Busy \ {c}
  BY <1>1, <1>3 DEF Busy, Idle, TypeOK
<1>6. TypeOK'
  <2>1. consumer' \in [Consumers -> ConsumerStates]
    BY <1>3 DEF TypeOK, ConsumerStates, Idle
  <2>2. QED
    BY <1>3, <1>4, <2>1 DEF TypeOK
<1>7. Lifecycle' /\ Handling'
  BY <1>1, <1>3, <1>5 DEF Lifecycle, Handling, Busy, Idle, TypeOK
<1>8. JoinAccounting'
  <2>1. Cardinality(Busy) \in Nat /\ Cardinality(Busy \ {c}) = Cardinality(Busy) - 1
    BY <1>1, ConsumerSets DEF Busy
  <2>2. QED
    BY <1>3, <1>4, <1>5, <2>1 DEF JoinAccounting, TypeOK
<1>9. /\ \A d \in Busy' : held[d].id # x.id
      /\ \A i \in 1..Len(queue) : queue[i].id # x.id
  BY <1>1, <1>2, <1>5 DEF OnePlace, InQueue
<1>10. OnePlace'
  <2>1. \A i, j \in 1..Len(queue') : queue'[i].id = queue'[j].id /\ queue'[i] # Sentinel => i = j
    BY <1>4, <1>9 DEF OnePlace
  <2>2. \A d \in Busy' : \A i \in 1..Len(queue') : queue'[i].id # held'[d].id
    BY <1>3, <1>4, <1>5, <1>9 DEF OnePlace, InQueue
  <2>3. QED
    BY <1>3, <1>5, <2>1, <2>2 DEF OnePlace, InQueue
<1>11. Tracking'
  <2>1. \A e \in Envelopes : InQueue(e)' <=> InQueue(e) \/ e = x.id
    BY <1>4 DEF InQueue
  <2>2. \A e \in Envelopes : InHand(e)' \/ e = x.id <=> InHand(e)
    BY <1>1, <1>2, <1>3, <1>5 DEF InHand
  <2>3. \A e \in Envelopes : InTransit(e)' <=> InTransit(e)
    BY <2>1, <2>2 DEF InTransit
  <2>4. QED
    BY <1>3, <2>3 DEF Tracking, Settled
<1>12. Barriers'
  BY <1>3, <1>6, <1>8, <1>11, BarriersKept DEF Settled, Accepted
<1>13. QED
  BY <1>6, <1>7, <1>8, <1>10, <1>11, <1>12

(* A consumer that is done with its envelope, one way or another: the      *)
(* envelope leaves its hands settled or dropped.                           *)
LEMMA ReleaseStep ==
  ASSUME IInv, NEW c \in Busy, TaskDone,
         queue' = queue, held' = held, producer' = producer, snapshot' = snapshot,
         NEW pc \in {"get", "exited"}, consumer' = [consumer EXCEPT ![c] = pc],
         \/ consumer[c] \in Writes /\ StoreWrite(c)
         \/ status' = status /\ dlq' = dlq,
         Settled(held[c].id)' \/ held[c].id \in lost',
         lost \subseteq lost', lost' \subseteq Envelopes,
         running' = running, stopping' = stopping, closed' = closed, starter' = starter,
         stopper' = stopper, sentinels' = sentinels, stats' \in Stats
  PROVE  IInv'
<1> USE DEF IInv
<1>1. PICK e \in Envelopes : e = held[c].id /\ ~Settled(e) /\ InHand(e) /\ producer[e] = "accepted"
  BY DEF Handling, Item, InHand, InTransit, Tracking
<1>2. Busy' = Busy \ {c} /\ c \in Consumers /\ consumer[c] \notin Idle
  BY DEF Busy, Idle, TypeOK
<1>3. JoinAccounting' /\ unfinished' \in Nat /\ unfinished' = unfinished - 1
  <2>1. /\ Cardinality(Busy) \in Nat /\ Cardinality(Busy) >= 1
        /\ Cardinality(Busy \ {c}) = Cardinality(Busy) - 1
    BY <1>2, ConsumerSets DEF Busy
  <2>2. Len(queue) \in Nat
    BY QueueFacts DEF TypeOK
  <2>3. QED
    BY <1>2, <2>1, <2>2 DEF JoinAccounting, TaskDone, TypeOK
<1>4. /\ status' \in [Envelopes -> {"none", "pending", "processed", "failed", "dead"}]
      /\ dlq' \in [Envelopes -> Nat]
      /\ \A x \in Envelopes \ {e} : status'[x] = status[x]
  <2>1. CASE status' = status /\ dlq' = dlq
    BY <2>1 DEF TypeOK
  <2>2. CASE consumer[c] \in Writes /\ StoreWrite(c)
    <3>1. consumer[c] # "dead_insert" => Written(consumer[c]) \in {"processed", "failed", "dead"}
      BY <2>2 DEF Written, Writes
    <3>2. \/ status' = [status EXCEPT ![e] = Written(consumer[c])] /\ dlq' = dlq /\ consumer[c] # "dead_insert"
          \/ status' = status /\ dlq' = [dlq EXCEPT ![e] = @ + 1]
      BY <1>1, <2>2 DEF StoreWrite
    <3>3. CASE status' = [status EXCEPT ![e] = Written(consumer[c])] /\ dlq' = dlq /\ consumer[c] # "dead_insert"
      BY <3>1, <3>3 DEF TypeOK
    <3>4. CASE status' = status /\ dlq' = [dlq EXCEPT ![e] = @ + 1]
      BY <1>1, <3>4 DEF TypeOK
    <3>5. QED
      BY <3>2, <3>3, <3>4
  <2>3. QED
    BY <2>1, <2>2
<1>5. TypeOK'
  <2>1. consumer' \in [Consumers -> ConsumerStates]
    BY <1>2 DEF TypeOK, ConsumerStates, Idle
  <2>2. join' \in [Waiters -> {"none", "waiting", "released", "timedout"}]
    BY DEF TaskDone, TypeOK
  <2>3. lost' \in SUBSET Envelopes
    OBVIOUS
  <2>4. QED
    BY <1>3, <1>4, <2>1, <2>2, <2>3 DEF TypeOK
<1>6. Lifecycle' /\ Handling'
  BY <1>2 DEF Lifecycle, Handling, Busy, Idle, TypeOK
<1>8. OnePlace'
  BY <1>2 DEF OnePlace, InQueue
<1>9. \A x \in Envelopes : Settled(x) => Settled(x)'
  BY <1>1, <1>4 DEF Settled
<1>10. Tracking'
  <2>1. \A x \in Envelopes : InTransit(x)' <=> InTransit(x) /\ x # e
    <3>1. \A x \in Envelopes : InQueue(x)' <=> InQueue(x)
      BY DEF InQueue
    <3>2. \A x \in Envelopes : InHand(x)' <=> InHand(x) /\ x # e
      BY <1>1, <1>2 DEF InHand, OnePlace
    <3>3. ~InQueue(e)
      BY <1>1 DEF OnePlace
    <3>4. QED
      BY <3>1, <3>2, <3>3 DEF InTransit
  <2>2. Settled(e)' \/ e \in lost'
    BY <1>1 DEF Settled
  <2>3. \A x \in Envelopes \ {e} : Settled(x)' <=> Settled(x)
    BY <1>4 DEF Settled
  <2>4. QED
    BY <1>1, <2>1, <2>2, <2>3 DEF Tracking
<1>11. Barriers'
  <2>1. \A w \in Waiters : join'[w] = join[w] \/ (join'[w] = "released" => unfinished' = 0)
    BY <1>3 DEF TaskDone, TypeOK
  <2>2. QED
    BY <1>3, <1>5, <1>9, <1>10, <2>1, BarriersKept DEF Accepted, Barriers
<1>12. QED
  BY <1>3, <1>5, <1>6, <1>8, <1>10, <1>11

(* mark_processed and dead_letter settle the envelope they release. *)
LEMMA FinishSteps ==
  ASSUME IInv, NEW c \in Consumers, MarkProcessed(c) \/ DeadLetter(c)
  PROVE  IInv'
<1> USE DEF IInv, flags, chan, stop, store, At, Goto
<1>1. c \in Busy /\ consumer[c] \in Writes
  BY DEF MarkProcessed, DeadLetter, Busy, Idle, Writes
<1>2. held[c].id \in Envelopes
  BY <1>1 DEF Handling, Item
<1>3. Settled(held[c].id)'
  BY <1>2 DEF MarkProcessed, DeadLetter, StoreWrite, Written, Settled, Final, TypeOK
<1>4. stats' \in Stats
  BY StatsFacts DEF MarkProcessed, DeadLetter, TypeOK
<1>5. consumer' = [consumer EXCEPT ![c] = "get"] /\ StoreWrite(c) /\ TaskDone
  BY DEF MarkProcessed, DeadLetter
<1>6. lost' = lost /\ lost \subseteq Envelopes
  BY DEF MarkProcessed, DeadLetter, TypeOK
<1>7. QED
  BY <1>1, <1>3, <1>4, <1>5, <1>6, ReleaseStep DEF MarkProcessed, DeadLetter

(* A store error or a cancellation releases the envelope, dropped unless    *)
(* its last write settled it.                                              *)
LEMMA AbandonSteps ==
  ASSUME IInv, NEW c \in Consumers, HandleRaises(c) \/ Cancelled(c)
  PROVE  IInv'
<1> USE DEF IInv, flags, stop
<1>1. CASE Cancelled(c) /\ consumer[c] \in Idle
  <2>1. /\ consumer' = [consumer EXCEPT ![c] = "exited"]
        /\ queue' = queue /\ unfinished' = unfinished /\ held' = held /\ producer' = producer
        /\ status' = status /\ dlq' = dlq /\ lost' = lost /\ join' = join /\ snapshot' = snapshot
        /\ starter' = starter /\ running' = running /\ stopping' = stopping /\ closed' = closed
        /\ stopper' = stopper /\ sentinels' = sentinels /\ stats' = stats /\ stopper = "cancelling"
    BY <1>1 DEF Cancelled, Cancelling, Goto, store
  <2>2. TypeOK' /\ Lifecycle'
    BY <2>1 DEF TypeOK, Lifecycle, ConsumerStates, Idle
  <2>3. Busy' = Busy
    BY <1>1, <2>1 DEF Busy, Idle, TypeOK
  <2>4. Handling' /\ JoinAccounting'
    BY <2>1, <2>3 DEF Handling, JoinAccounting, TypeOK
  <2>5. OnePlace' /\ Tracking'
    BY <2>1, <2>3, PlacesKept DEF Tracking, Settled
  <2>6. Barriers'
    BY <2>1, <2>2, <2>4, <2>5, BarriersKept DEF Settled, Accepted
  <2>7. QED
    BY <2>2, <2>4, <2>5, <2>6
<1>2. CASE HandleRaises(c) \/ (Cancelled(c) /\ consumer[c] \notin Idle)
  <2>1. c \in Busy /\ Abandon(c)
    BY <1>2 DEF HandleRaises, Cancelled, Busy, Idle, Writes
  <2>2. held[c].id \in Envelopes
    BY <2>1 DEF Handling, Item
  <2>3. /\ Settled(held[c].id)' \/ held[c].id \in lost'
        /\ lost \subseteq lost' /\ lost' \subseteq Envelopes
    <3>1. held' = held
      BY <1>2 DEF HandleRaises, Cancelled
    <3>2. QED
      BY <2>1, <2>2, <3>1 DEF Abandon, Settled, TypeOK
  <2>4. PICK pc \in {"get", "exited"} : consumer' = [consumer EXCEPT ![c] = pc]
    BY <1>2 DEF HandleRaises, Cancelled, Goto
  <2>5. /\ queue' = queue /\ held' = held /\ producer' = producer /\ snapshot' = snapshot
        /\ starter' = starter /\ running' = running /\ stopping' = stopping /\ closed' = closed
        /\ stopper' = stopper /\ sentinels' = sentinels /\ stats' \in Stats
    BY <1>2 DEF HandleRaises, Cancelled, TypeOK
  <2>6. /\ TaskDone
        /\ \/ consumer[c] \in Writes /\ StoreWrite(c)
           \/ status' = status /\ dlq' = dlq
    <3>1. UNCHANGED store => status' = status /\ dlq' = dlq
      BY DEF store
    <3>2. QED
      BY <2>1, <3>1 DEF Abandon
  <2>7. QED
    BY <2>1, <2>3, <2>4, <2>5, <2>6, ReleaseStep
<1>3. QED
  BY <1>1, <1>2

-----------------------------------------------------------------------------
(* Every step of the bus keeps the invariant. *)
LEMMA StepIInv == IInv /\ [Next]_vars => IInv'
<1> SUFFICES ASSUME IInv, [Next]_vars PROVE IInv'
  OBVIOUS
<1>1. CASE StartCall \/ StartOpened
  BY <1>1, StartSteps
<1>2. CASE \E e \in Envelopes : Producer(e)
  <2>1. PICK e \in Envelopes : Producer(e)
    BY <1>2
  <2>2. QED
    BY <2>1, EnqueueSteps, PutSteps DEF Producer
<1>3. CASE \E c \in Consumers : Consumer(c)
  <2>1. PICK c \in Consumers : Consumer(c)
    BY <1>3
  <2>2. QED
    BY <2>1, GetSteps, RouteSteps, FinishSteps, RetryStep, AbandonSteps DEF Consumer
<1>4. CASE Flush \/ (\E graceful \in BOOLEAN : StopCall(graceful)) \/ Stopping
  BY <1>4, StopControlSteps, PutSteps DEF Stopping
<1>5. CASE UNCHANGED vars
  <2>1. /\ queue' = queue /\ unfinished' = unfinished /\ held' = held /\ consumer' = consumer
        /\ producer' = producer /\ status' = status /\ dlq' = dlq /\ lost' = lost /\ join' = join
        /\ snapshot' = snapshot /\ starter' = starter /\ running' = running /\ stopping' = stopping
        /\ closed' = closed /\ stopper' = stopper /\ sentinels' = sentinels /\ stats' = stats
    BY <1>5 DEF vars, flags, chan, work, stop, store
  <2>2. Busy' = Busy
    BY <2>1 DEF Busy
  <2>3. TypeOK' /\ Lifecycle' /\ Handling' /\ JoinAccounting'
    BY <2>1, <2>2 DEF IInv, TypeOK, Lifecycle, Handling, JoinAccounting
  <2>4. OnePlace' /\ Tracking'
    BY <2>1, <2>2, PlacesKept DEF IInv, Tracking, Settled
  <2>5. Barriers'
    BY <2>1, <2>3, <2>4, BarriersKept DEF Settled, Accepted
  <2>6. QED
    BY <2>3, <2>4, <2>5 DEF IInv
<1>6. QED
  BY <1>1, <1>2, <1>3, <1>4, <1>5 DEF Next

(* The invariant holds in every reachable state. *)
LEMMA InvariantIInv == Spec => []IInv
BY InitIInv, StepIInv, PTL DEF Spec

-----------------------------------------------------------------------------
(* Every variable of the worker and the bus keeps its type; in particular  *)
(* no envelope is ever handed out with an attempt number beyond            *)
(* envelope_max_attempts and the unfinished count never becomes negative.  *)
THEOREM TypeCorrect == Spec => []TypeOK
BY InvariantIInv, PTL DEF IInv

(* The join() counter is exact in every reachable state. *)
THEOREM JoinAccountingHolds == Spec => []JoinAccounting
BY InvariantIInv, PTL DEF IInv

(* No envelope is ever duplicated between the queue and the consumers. *)
THEOREM OnePlaceHolds == Spec => []OnePlace
BY InvariantIInv, PTL DEF IInv

(* No accepted event disappears without a store error or a cancellation. *)
THEOREM NothingVanishesHolds == Spec => []NothingVanishes
<1>1. IInv => NothingVanishes
  BY DEF IInv, Tracking, NothingVanishes, InTransit, Accepted
<1>2. QED
  BY <1>1, InvariantIInv, PTL

(* flush(), and a stop() that drained, is a barrier for every event        *)
(* accepted before the call.                                               *)
THEOREM JoinBarrierHolds == Spec => []JoinBarrier
<1>1. IInv => JoinBarrier
  BY DEF IInv, Barriers
<1>2. QED
  BY <1>1, InvariantIInv, PTL

(* The store writes of a step concern only the envelope being saved or     *)
(* held, which is not settled.                                             *)
LEMMA WritesUnsettled ==
  ASSUME IInv, [Next]_vars
  PROVE  \A e \in Envelopes : Settled(e) => status'[e] = status[e] /\ dlq'[e] = dlq[e]
<1> USE DEF store
<1>1. ASSUME NEW c \in Consumers, StoreWrite(c), c \in Busy
      PROVE  \A e \in Envelopes : Settled(e) => status'[e] = status[e] /\ dlq'[e] = dlq[e]
  <2>1. held[c].id \in Envelopes /\ ~Settled(held[c].id)
    BY <1>1 DEF IInv, Handling, Item, Tracking, InTransit, InHand
  <2>2. QED
    BY <1>1, <2>1 DEF StoreWrite, IInv, TypeOK
<1>2. ASSUME NEW c \in Consumers, consumer[c] \in Writes
      PROVE  c \in Busy
  BY <1>2 DEF Busy, Idle, Writes
<1>3. CASE \E c \in Consumers : Consumer(c)
  <2>1. PICK c \in Consumers : Consumer(c)
    BY <1>3
  <2>2. (consumer[c] \in Writes /\ StoreWrite(c)) \/ (status' = status /\ dlq' = dlq)
    <3>1. CASE ConsumeEnvelope(c) \/ ConsumeSentinel(c) \/ BackoffElapsed(c) \/ PutRetry(c)
      BY <3>1 DEF ConsumeEnvelope, ConsumeSentinel, BackoffElapsed, PutRetry
    <3>2. CASE \E o \in Outcomes : Dispatch(c, o)
      BY <3>2 DEF Dispatch
    <3>3. CASE MarkFailed(c) \/ MarkProcessed(c) \/ DeadInsert(c) \/ DeadLetter(c)
      BY <3>3 DEF MarkFailed, MarkProcessed, DeadInsert, DeadLetter, At, Writes
    <3>4. CASE HandleRaises(c) \/ Cancelled(c)
      BY <3>4 DEF HandleRaises, Cancelled, Abandon
    <3>5. QED
      BY <2>1, <3>1, <3>2, <3>3, <3>4 DEF Consumer
  <2>3. QED
    BY <1>1, <1>2, <2>2
<1>4. CASE \E e \in Envelopes : Producer(e)
  <2>1. PICK e \in Envelopes : Producer(e)
    BY <1>4
  <2>2. dlq' = dlq /\ (status' = status \/ (producer[e] = "saving" /\ \E v : status' = [status EXCEPT ![e] = v]))
    BY <2>1 DEF Producer, Publish, EnqueueSaved, EnqueueSaveFails, EnqueuePut
  <2>3. producer[e] = "saving" => ~Settled(e)
    BY DEF IInv, Tracking
  <2>4. QED
    BY <2>2, <2>3 DEF IInv, TypeOK
<1>5. CASE UNCHANGED vars
  BY <1>5 DEF vars
<1>6. CASE StartCall \/ StartOpened \/ Flush \/ (\E graceful \in BOOLEAN : StopCall(graceful)) \/ Stopping
  BY <1>6 DEF StartCall, StartOpened, Flush, StopCall, Stopping, StopPutNone, StopJoin, StopDrained,
              StopTimesOut, StopGathered, StopClosed
<1>7. QED
  BY <1>3, <1>4, <1>5, <1>6 DEF Next

(* A processed or dead-lettered event is never written again. *)
THEOREM SettledIsFinalHolds == Spec => SettledIsFinal
<1>1. IInv /\ [Next]_vars =>
        [\A e \in Envelopes : Settled(e) => status'[e] = status[e] /\ dlq'[e] = dlq[e]]_vars
  BY WritesUnsettled
<1>2. QED
  BY <1>1, InvariantIInv, PTL DEF Spec, SettledIsFinal
-----------------------------------------------------------------------------
(* WorkerStats.  What a counter is ahead of the store by is the number of  *)
(* consumers on their way to the store, and the retries are bounded by the *)
(* chances to retry that the envelopes in transit have left.               *)

Marked(v) == {e \in Envelopes : status[e] = v}
Processing == {c \in Consumers : consumer[c] = "mark_processed"}
Failing == {c \in Consumers : consumer[c] \in {"mark_failed", "dead_insert", "dead_update"}}

Retrying == {"sleep", "mark_retry", "put"}

(* The k-th attempt at e may still fail and be retried. *)
Chance(e, k) ==
  \/ \E i \in 1..Len(queue) : queue[i].id = e /\ queue[i].attempt <= k
  \/ \E c \in Busy : held[c].id = e /\ held[c].attempt <= k
                     /\ (consumer[c] \in Retrying => held[c].attempt < k)

Chances == {x \in Envelopes \X (1..(MaxAttempts - 1)) : Chance(x[1], x[2])}

Books ==
  /\ lost = {} => /\ stats.processed = Cardinality(Marked("processed")) + Cardinality(Processing)
                  /\ stats.failed = Cardinality(Marked("dead")) + Cardinality(Failing)
  /\ stats.enqueued = Cardinality(Accepted)
  /\ stats.retried + Cardinality(Chances) <= stats.enqueued * (MaxAttempts - 1)

\* Sets of envelopes are finite: what adding one does to the count.
LEMMA EnvelopeSets ==
  ASSUME NEW A \in SUBSET Envelopes
  PROVE  /\ Cardinality(A) \in Nat
         /\ \A e \in Envelopes \ A : Cardinality(A \cup {e}) = Cardinality(A) + 1
<1>1. IsFiniteSet(A)
  BY WorkerAssumption, FS_Subset
<1>2. QED
  BY <1>1, FS_CardinalityType, FS_AddElement

(* The counters are numbers, and counting changes one of them. *)
LEMMA CounterFacts ==
  ASSUME NEW s \in Stats
  PROVE  /\ s.enqueued \in Nat /\ s.processed \in Nat /\ s.failed \in Nat /\ s.retried \in Nat
         /\ LET t == [s EXCEPT !.enqueued = @ + 1]
            IN /\ t.enqueued = s.enqueued + 1 /\ t.processed = s.processed
               /\ t.failed = s.failed /\ t.retried = s.retried
         /\ LET t == [s EXCEPT !.processed = @ + 1]
            IN /\ t.enqueued = s.enqueued /\ t.processed = s.processed + 1
               /\ t.failed = s.failed /\ t.retried = s.retried
         /\ LET t == [s EXCEPT !.failed = @ + 1]
            IN /\ t.enqueued = s.enqueued /\ t.processed = s.processed
               /\ t.failed = s.failed + 1 /\ t.retried = s.retried
         /\ LET t == [s EXCEPT !.retried = @ + 1]
            IN /\ t.enqueued = s.enqueued /\ t.processed = s.processed
               /\ t.failed = s.failed /\ t.retried = s.retried + 1
         /\ LET t == [s EXCEPT !.dead_lettered = @ + 1]
            IN /\ t.enqueued = s.enqueued /\ t.processed = s.processed
               /\ t.failed = s.failed /\ t.retried = s.retried
BY DEF Stats

\* The attempt limit, and the number of retries it allows.
LEMMA Attempts == MaxAttempts - 1 \in Nat /\ MaxAttempts \in Nat
BY WorkerAssumption

(* Sets of chances are finite. *)
LEMMA ChanceSets ==
  ASSUME NEW A \in SUBSET (Envelopes \X (1..(MaxAttempts - 1)))
  PROVE  /\ IsFiniteSet(A) /\ Cardinality(A) \in Nat
         /\ \A B \in SUBSET A : Cardinality(B) \in Nat /\ Cardinality(B) <= Cardinality(A)
<1>1. IsFiniteSet(1..(MaxAttempts - 1))
  BY Attempts, FS_Interval
<1>2. IsFiniteSet(Envelopes \X (1..(MaxAttempts - 1)))
  BY <1>1, WorkerAssumption, FS_Product
<1>3. IsFiniteSet(A) /\ Cardinality(A) \in Nat
  BY <1>2, FS_Subset, FS_CardinalityType
<1>4. QED
  BY <1>3, FS_Subset, FS_CardinalityType

\* A chance is an envelope with the number of an attempt that is not its last.
LEMMA ChancesType ==
  /\ Chances \in SUBSET (Envelopes \X (1..(MaxAttempts - 1)))
  /\ Chances' \in SUBSET (Envelopes \X (1..(MaxAttempts - 1)))
BY DEF Chances

(* The part of Books about the retries. *)
Bounded == stats.retried + Cardinality(Chances) <= stats.enqueued * (MaxAttempts - 1)

(* Fewer chances and no retry. *)
LEMMA BoundedKept ==
  ASSUME Bounded, stats \in Stats, stats'.retried = stats.retried, stats'.enqueued = stats.enqueued,
         \A e \in Envelopes, k \in 1..(MaxAttempts - 1) : Chance(e, k)' => Chance(e, k)
  PROVE  Bounded'
<1>1. Chances' \subseteq Chances
  BY DEF Chances
<1>2. Cardinality(Chances') <= Cardinality(Chances) /\ Cardinality(Chances') \in Nat /\ Cardinality(Chances) \in Nat
  BY <1>1, ChancesType, ChanceSets
<1>3. stats.retried \in Nat /\ stats.enqueued * (MaxAttempts - 1) \in Nat
  BY CounterFacts, Attempts
<1>4. QED
  BY <1>2, <1>3 DEF Bounded

(* The queue stays, and every consumer that works moves on. *)
LEMMA ChanceFrame ==
  ASSUME queue' = queue, held' = held,
         \A c \in Busy' : c \in Busy /\ (consumer[c] \in Retrying => consumer'[c] \in Retrying)
  PROVE  \A e \in Envelopes, k \in 1..(MaxAttempts - 1) : Chance(e, k)' => Chance(e, k)
BY DEF Chance

(* A consumer takes the head of the queue: an envelope to handle, or the    *)
(* sentinel that ends it.                                                   *)
LEMMA ChanceGet ==
  ASSUME IInv, NEW c \in Consumers, ConsumeEnvelope(c) \/ ConsumeSentinel(c)
  PROVE  \A e \in Envelopes, k \in 1..(MaxAttempts - 1) : Chance(e, k)' => Chance(e, k)
<1>1. /\ consumer[c] = "get" /\ queue # <<>> /\ queue' = Tail(queue)
      /\ \/ held' = [held EXCEPT ![c] = Head(queue)] /\ consumer' = [consumer EXCEPT ![c] = "dispatch"]
         \/ held' = held /\ consumer' = [consumer EXCEPT ![c] = "exited"]
  BY DEF ConsumeEnvelope, ConsumeSentinel, At, Goto
<1>2. /\ queue \in Seq(Item \cup {Sentinel}) /\ consumer \in [Consumers -> ConsumerStates]
      /\ held \in [Consumers -> Item \cup {Sentinel}]
  BY DEF IInv, TypeOK
<1>3. /\ Len(queue) \in Nat /\ Len(queue) >= 1 /\ Head(queue) = queue[1]
      /\ Len(queue') = Len(queue) - 1
      /\ \A i \in 1..Len(queue') : queue'[i] = queue[i + 1]
  BY <1>1, <1>2, QueueFacts
<1>4. \A i \in 1..Len(queue') : i + 1 \in 1..Len(queue)
  BY <1>3
<1>5. 1 \in 1..Len(queue)
  BY <1>3
<1>6. \A d \in Busy' : d # c => d \in Busy /\ held'[d] = held[d] /\ consumer'[d] = consumer[d]
  BY <1>1, <1>2 DEF Busy
<1>7. c \in Busy' => held'[c] = queue[1]
  BY <1>1, <1>2, <1>3 DEF Busy, Idle
<1> SUFFICES ASSUME NEW e \in Envelopes, NEW k \in 1..(MaxAttempts - 1), Chance(e, k)'
             PROVE  Chance(e, k)
  OBVIOUS
<1>8. CASE \E i \in 1..Len(queue') : queue'[i].id = e /\ queue'[i].attempt <= k
  BY <1>3, <1>4, <1>8 DEF Chance
<1>9. CASE \E d \in Busy' : held'[d].id = e /\ held'[d].attempt <= k
                            /\ (consumer'[d] \in Retrying => held'[d].attempt < k)
  BY <1>5, <1>6, <1>7, <1>9 DEF Chance
<1>10. QED
  BY <1>8, <1>9 DEF Chance

(* What is put at the end of the queue: nobody's sentinel, or the retry of  *)
(* the envelope that the consumer had in hand.                              *)
LEMMA ChancePut ==
  ASSUME IInv, StopPutNone \/ \E c \in Consumers : PutRetry(c)
  PROVE  \A e \in Envelopes, k \in 1..(MaxAttempts - 1) : Chance(e, k)' => Chance(e, k)
<1>0. /\ queue \in Seq(Item \cup {Sentinel}) /\ consumer \in [Consumers -> ConsumerStates]
  BY DEF IInv, TypeOK
<1> SUFFICES ASSUME NEW e \in Envelopes, NEW k \in 1..(MaxAttempts - 1), Chance(e, k)'
             PROVE  Chance(e, k)
  OBVIOUS
<1>1. CASE StopPutNone
  <2>1. queue' = Append(queue, Sentinel) /\ held' = held /\ consumer' = consumer
    BY <1>1 DEF StopPutNone, Put, work
  <2>2. /\ Len(queue) \in Nat /\ Len(queue') = Len(queue) + 1 /\ queue'[Len(queue) + 1] = Sentinel
        /\ \A i \in 1..Len(queue) : queue'[i] = queue[i]
    BY <1>0, <2>1, QueueFacts
  <2>3. \A i \in 1..Len(queue') : i \in 1..Len(queue) \/ i = Len(queue) + 1
    BY <2>2
  <2>4. Sentinel.id # e
    BY WorkerAssumption DEF Sentinel
  <2>5. Busy' = Busy
    BY <2>1 DEF Busy
  <2>6. QED
    BY <2>1, <2>2, <2>3, <2>4, <2>5 DEF Chance
<1>2. ASSUME NEW c \in Consumers, PutRetry(c) PROVE Chance(e, k)
  <2> DEFINE x == [held[c] EXCEPT !.attempt = @ + 1]
  <2>1. /\ consumer[c] = "put" /\ queue' = Append(queue, x) /\ held' = held
        /\ consumer' = [consumer EXCEPT ![c] = "get"]
    BY <1>2 DEF PutRetry, At, Goto
  <2>2. c \in Busy /\ "put" \in Retrying
    BY <2>1 DEF Busy, Idle, Retrying
  <2>3. held[c] \in Item /\ held[c].attempt < MaxAttempts
    BY <2>1, <2>2 DEF IInv, Handling
  <2>4. x \in Item /\ x.id = held[c].id /\ x.attempt = held[c].attempt + 1 /\ held[c].attempt \in Nat
    BY <2>3, WorkerAssumption DEF Item
  <2> HIDE DEF x
  <2>5. /\ Len(queue) \in Nat /\ Len(queue') = Len(queue) + 1 /\ queue'[Len(queue) + 1] = x
        /\ \A i \in 1..Len(queue) : queue'[i] = queue[i]
    BY <1>0, <2>1, <2>4, QueueFacts
  <2>6. \A i \in 1..Len(queue') : i \in 1..Len(queue) \/ i = Len(queue) + 1
    BY <2>5
  <2>7. x.id = e /\ x.attempt <= k => Chance(e, k)
    <3> SUFFICES ASSUME x.id = e, x.attempt <= k PROVE Chance(e, k)
      OBVIOUS
    <3>1. held[c].attempt <= k /\ held[c].attempt < k
      BY <2>4, Attempts
    <3>2. QED
      BY <2>2, <2>4, <3>1 DEF Chance
  <2>8. \A d \in Busy' : d \in Busy /\ consumer'[d] = consumer[d]
    BY <1>0, <2>1 DEF Busy, Idle
  <2>9. CASE \E i \in 1..Len(queue') : queue'[i].id = e /\ queue'[i].attempt <= k
    BY <2>5, <2>6, <2>7, <2>9 DEF Chance
  <2>10. CASE \E d \in Busy' : held'[d].id = e /\ held'[d].attempt <= k
                               /\ (consumer'[d] \in Retrying => held'[d].attempt < k)
    BY <2>1, <2>8, <2>10 DEF Chance
  <2>11. QED
    BY <2>9, <2>10 DEF Chance
<1>3. QED
  BY <1>1, <1>2

(* A new envelope brings MaxAttempts - 1 chances, and one more event. *)
LEMMA BoundedEnqueue ==
  ASSUME IInv, Bounded, NEW e \in Envelopes, EnqueuePut(e)
  PROVE  Bounded'
<1> DEFINE x == [id |-> e, attempt |-> 1]
           N == {e} \X (1..(MaxAttempts - 1))
<1>1. /\ queue' = Append(queue, x) /\ held' = held /\ consumer' = consumer
      /\ stats' = [stats EXCEPT !.enqueued = @ + 1]
  BY DEF EnqueuePut, Put, work
<1>2. /\ queue \in Seq(Item \cup {Sentinel}) /\ stats \in Stats
  BY DEF IInv, TypeOK
<1>3. x \in Item /\ x.id = e
  BY WorkerAssumption DEF Item
<1>4. /\ Len(queue) \in Nat /\ Len(queue') = Len(queue) + 1 /\ queue'[Len(queue) + 1] = x
      /\ \A i \in 1..Len(queue) : queue'[i] = queue[i]
  <2> HIDE DEF x
  <2>1. QED
    BY <1>1, <1>2, <1>3, QueueFacts
<1> HIDE DEF x
<1>5. \A i \in 1..Len(queue') : i \in 1..Len(queue) \/ i = Len(queue) + 1
  BY <1>4
<1>6. Busy' = Busy
  BY <1>1 DEF Busy
<1>7. \A d \in Envelopes, k \in 1..(MaxAttempts - 1) : Chance(d, k)' => Chance(d, k) \/ d = e
  BY <1>1, <1>3, <1>4, <1>5, <1>6 DEF Chance
<1>8. Chances' \subseteq Chances \cup N
  BY <1>7 DEF Chances
<1>9. IsFiniteSet(N) /\ Cardinality(N) = MaxAttempts - 1
  <2>1. IsFiniteSet({e}) /\ Cardinality({e}) = 1
    BY FS_Singleton
  <2>2. IsFiniteSet(1..(MaxAttempts - 1)) /\ Cardinality(1..(MaxAttempts - 1)) = MaxAttempts - 1
    <3>1. 1 \in Int /\ MaxAttempts - 1 \in Int /\ 1 <= (MaxAttempts - 1) + 1
      BY Attempts, WorkerAssumption
    <3>2. /\ IsFiniteSet(1..(MaxAttempts - 1))
          /\ Cardinality(1..(MaxAttempts - 1)) = IF 1 > MaxAttempts - 1 THEN 0 ELSE (MaxAttempts - 1) - 1 + 1
      BY <3>1, FS_Interval
    <3>3. QED
      BY <3>2, Attempts
  <2>3. IsFiniteSet(N) /\ Cardinality(N) = Cardinality({e}) * Cardinality(1..(MaxAttempts - 1))
    BY <2>1, <2>2, FS_Product
  <2> HIDE DEF N
  <2>4. QED
    BY <2>1, <2>2, <2>3, Attempts
<1>10. N \in SUBSET (Envelopes \X (1..(MaxAttempts - 1)))
  OBVIOUS
<1> HIDE DEF N
<1>11. /\ IsFiniteSet(Chances) /\ Cardinality(Chances) \in Nat
       /\ Chances \cup N \in SUBSET (Envelopes \X (1..(MaxAttempts - 1)))
       /\ Chances \cap N \in SUBSET (Envelopes \X (1..(MaxAttempts - 1)))
  BY <1>10, ChancesType, ChanceSets
<1>12. /\ Cardinality(Chances') \in Nat /\ Cardinality(Chances \cup N) \in Nat
       /\ Cardinality(Chances') <= Cardinality(Chances \cup N) /\ Cardinality(Chances \cap N) \in Nat
  BY <1>8, <1>11, ChanceSets
<1>13. Cardinality(Chances \cup N) = Cardinality(Chances) + Cardinality(N) - Cardinality(Chances \cap N)
  BY <1>9, <1>11, FS_Union
<1>14. Cardinality(Chances') <= Cardinality(Chances) + (MaxAttempts - 1)
  BY <1>9, <1>11, <1>12, <1>13, Attempts
<1>15. /\ stats.retried \in Nat /\ stats.enqueued \in Nat
       /\ stats'.retried = stats.retried /\ stats'.enqueued = stats.enqueued + 1
  BY <1>1, <1>2, CounterFacts
<1>16. stats'.enqueued * (MaxAttempts - 1) = stats.enqueued * (MaxAttempts - 1) + (MaxAttempts - 1)
  BY <1>15, Attempts
<1>17. stats.enqueued * (MaxAttempts - 1) \in Nat
  BY <1>15, Attempts
<1>18. QED
  BY <1>11, <1>12, <1>14, <1>15, <1>16, <1>17, Attempts DEF Bounded

(* A retry uses up one chance, which no other place offers. *)
LEMMA BoundedRetry ==
  ASSUME IInv, Bounded, NEW c \in Consumers, consumer[c] = "dispatch", AttemptLeft(c),
         queue' = queue, held' = held, consumer' = [consumer EXCEPT ![c] = "sleep"],
         stats' = [stats EXCEPT !.retried = @ + 1]
  PROVE  Bounded'
<1> DEFINE e == held[c].id
           a == held[c].attempt
<1>1. /\ consumer \in [Consumers -> ConsumerStates] /\ stats \in Stats
  BY DEF IInv, TypeOK
<1>2. c \in Busy
  BY DEF Busy, Idle
<1>3. held[c] \in Item /\ e \in Envelopes /\ a \in 1..(MaxAttempts - 1)
  <2>1. held[c] \in Item
    BY <1>2 DEF IInv, Handling
  <2>2. QED
    BY <2>1, WorkerAssumption DEF Item, AttemptLeft
<1>4. \A d \in Busy' : d \in Busy /\ (d # c => consumer'[d] = consumer[d])
  BY <1>1, <1>2 DEF Busy, Idle
<1>5. consumer'[c] \in Retrying /\ "dispatch" \notin Retrying
  BY <1>1 DEF Retrying
<1>6. \A d \in Busy' : d \in Busy /\ (consumer[d] \in Retrying => consumer'[d] \in Retrying)
  BY <1>4, <1>5
<1>7. \A d \in Envelopes, k \in 1..(MaxAttempts - 1) : Chance(d, k)' => Chance(d, k)
  BY <1>6, ChanceFrame
<1>8. PICK d \in Envelopes, k \in 1..(MaxAttempts - 1) : d = e /\ k = a
  BY <1>3
<1>9. Chance(d, k)
  <2>1. a <= k
    BY <1>3, <1>8
  <2>2. QED
    BY <1>2, <1>5, <1>8, <2>1 DEF Chance
<1>10. ~Chance(d, k)'
  <2>1. \A i \in 1..Len(queue) : queue[i].id # d
    BY <1>2, <1>8 DEF IInv, OnePlace, InQueue
  <2>2. \A b \in Busy' : held[b].id = d => b = c
    BY <1>2, <1>4, <1>8 DEF IInv, OnePlace
  <2>3. ~(a < k)
    BY <1>3, <1>8
  <2>4. QED
    BY <1>5, <2>1, <2>2, <2>3 DEF Chance
<1>11. Chances' \subseteq Chances \ {<<d, k>>} /\ <<d, k>> \in Chances
  BY <1>7, <1>9, <1>10 DEF Chances
<1>12. IsFiniteSet(Chances) /\ Cardinality(Chances) \in Nat
  BY ChancesType, ChanceSets
<1>13. Cardinality(Chances \ {<<d, k>>}) = Cardinality(Chances) - 1
  BY <1>11, <1>12, FS_RemoveElement
<1>14. /\ Cardinality(Chances') <= Cardinality(Chances \ {<<d, k>>}) /\ Cardinality(Chances') \in Nat
       /\ Cardinality(Chances \ {<<d, k>>}) \in Nat
  <2>1. Chances \ {<<d, k>>} \in SUBSET (Envelopes \X (1..(MaxAttempts - 1)))
    BY ChancesType
  <2>2. QED
    BY <1>11, <2>1, ChanceSets
<1>15. /\ stats.retried \in Nat /\ stats.enqueued \in Nat
       /\ stats'.retried = stats.retried + 1 /\ stats'.enqueued = stats.enqueued
  BY <1>1, CounterFacts
<1>16. stats.enqueued * (MaxAttempts - 1) \in Nat
  BY <1>15, Attempts
<1>17. QED
  BY <1>12, <1>13, <1>14, <1>15, <1>16 DEF Bounded

(* The moves of a consumer that neither take from the queue nor put back. *)
LEMMA MoveFacts ==
  ASSUME IInv, NEW c \in Consumers,
         \/ \E o \in Outcomes : Dispatch(c, o)
         \/ BackoffElapsed(c) \/ MarkFailed(c) \/ MarkProcessed(c) \/ DeadInsert(c) \/ DeadLetter(c)
         \/ HandleRaises(c) \/ Cancelled(c)
  PROVE  /\ queue' = queue /\ held' = held /\ producer' = producer
         /\ \A b \in Busy' : b \in Busy /\ (consumer[b] \in Retrying => consumer'[b] \in Retrying)
<1>1. consumer \in [Consumers -> ConsumerStates]
  BY DEF IInv, TypeOK
<1>2. queue' = queue /\ held' = held /\ producer' = producer
  BY DEF Dispatch, BackoffElapsed, MarkFailed, MarkProcessed, DeadInsert, DeadLetter, HandleRaises,
         Cancelled, chan
<1>3. PICK pc : /\ consumer' = [consumer EXCEPT ![c] = pc]
                /\ \/ consumer[c] = "dispatch"
                   \/ consumer[c] = "sleep" /\ pc = "mark_retry"
                   \/ consumer[c] = "mark_retry" /\ pc = "put"
                   \/ consumer[c] = "mark_failed" /\ pc = "dead_insert"
                   \/ consumer[c] = "dead_insert" /\ pc = "dead_update"
                   \/ pc \in {"get", "exited"}
  <2>1. CASE \E o \in Outcomes : Dispatch(c, o)
    BY <2>1 DEF Dispatch, At, Goto
  <2>2. CASE BackoffElapsed(c) \/ MarkFailed(c) \/ DeadInsert(c)
    BY <2>2 DEF BackoffElapsed, MarkFailed, DeadInsert, At, Goto
  <2>3. CASE MarkProcessed(c) \/ DeadLetter(c) \/ HandleRaises(c) \/ Cancelled(c)
    BY <2>3 DEF MarkProcessed, DeadLetter, HandleRaises, Cancelled, Goto
  <2>4. QED
    BY <2>1, <2>2, <2>3
<1>4. \A b \in Consumers : b # c => consumer'[b] = consumer[b]
  BY <1>1, <1>3
<1>5. consumer'[c] = pc
  BY <1>1, <1>3
<1>6. c \in Busy' => c \in Busy /\ (consumer[c] \in Retrying => consumer'[c] \in Retrying)
  BY <1>3, <1>5 DEF Busy, Idle, Retrying
<1>7. QED
  BY <1>2, <1>4, <1>6 DEF Busy

(* The retries stay bounded in every step. *)
LEMMA BoundedStep == IInv /\ Bounded /\ [Next]_vars => Bounded'
<1> SUFFICES ASSUME IInv, Bounded, [Next]_vars PROVE Bounded'
  OBVIOUS
<1>0. stats \in Stats /\ consumer \in [Consumers -> ConsumerStates]
  BY DEF IInv, TypeOK
<1>1. ASSUME UNCHANGED <<queue, held, consumer, stats>> PROVE Bounded'
  <2>1. Busy' = Busy
    BY <1>1 DEF Busy
  <2>2. QED
    BY <1>0, <1>1, <2>1, ChanceFrame, BoundedKept
<1>2. CASE StartCall \/ StartOpened
  <2>1. CASE StartCall
    BY <1>1, <2>1 DEF StartCall, chan, work
  <2>2. CASE StartOpened
    <3>1. queue' = queue /\ held' = held /\ stats' = stats /\ consumer' = [b \in Consumers |-> "get"]
      BY <2>2 DEF StartOpened, chan
    <3>2. Busy' = {}
      BY <3>1 DEF Busy, Idle
    <3>3. QED
      BY <1>0, <3>1, <3>2, ChanceFrame, BoundedKept
  <2>3. QED
    BY <1>2, <2>1, <2>2
<1>3. ASSUME NEW e \in Envelopes, Producer(e) PROVE Bounded'
  <2>1. CASE EnqueuePut(e)
    BY <2>1, BoundedEnqueue
  <2>2. CASE ~EnqueuePut(e)
    BY <1>1, <1>3, <2>2 DEF Producer, Publish, EnqueueSaved, EnqueueSaveFails, chan, work
  <2>3. QED
    BY <2>1, <2>2
<1>4. ASSUME NEW c \in Consumers, Consumer(c) PROVE Bounded'
  <2>1. CASE ConsumeEnvelope(c) \/ ConsumeSentinel(c)
    <3>1. stats' = stats
      BY <2>1 DEF ConsumeEnvelope, ConsumeSentinel
    <3>2. QED
      BY <1>0, <2>1, <3>1, ChanceGet, BoundedKept
  <2>2. CASE PutRetry(c)
    <3>1. stats' = stats
      BY <2>2 DEF PutRetry
    <3>2. QED
      BY <1>0, <2>2, <3>1, ChancePut, BoundedKept
  <2>3. ASSUME NEW o \in Outcomes, Dispatch(c, o) PROVE Bounded'
    <3>1. CASE /\ AttemptLeft(c) /\ stats' = [stats EXCEPT !.retried = @ + 1]
               /\ consumer' = [consumer EXCEPT ![c] = "sleep"]
      <4>1. consumer[c] = "dispatch" /\ queue' = queue /\ held' = held
        BY <2>3 DEF Dispatch, At, chan
      <4>2. QED
        BY <3>1, <4>1, BoundedRetry
    <3>2. CASE \/ stats' = [stats EXCEPT !.processed = @ + 1]
               \/ stats' = [stats EXCEPT !.failed = @ + 1]
      <4>1. stats'.retried = stats.retried /\ stats'.enqueued = stats.enqueued
        BY <1>0, <3>2, CounterFacts
      <4>2. QED
        BY <1>0, <2>3, <4>1, MoveFacts, ChanceFrame, BoundedKept
    <3>3. QED
      BY <2>3, <3>1, <3>2 DEF Dispatch, Goto
  <2>4. CASE BackoffElapsed(c) \/ MarkFailed(c) \/ MarkProcessed(c) \/ DeadInsert(c) \/ DeadLetter(c)
             \/ HandleRaises(c) \/ Cancelled(c)
    <3>1. stats' = stats \/ stats' = [stats EXCEPT !.dead_lettered = @ + 1]
      BY <2>4 DEF BackoffElapsed, MarkFailed, MarkProcessed, DeadInsert, DeadLetter, HandleRaises, Cancelled
    <3>2. stats'.retried = stats.retried /\ stats'.enqueued = stats.enqueued
      BY <1>0, <3>1, CounterFacts
    <3>3. QED
      BY <1>0, <2>4, <3>2, MoveFacts, ChanceFrame, BoundedKept
  <2>5. QED
    BY <1>4, <2>1, <2>2, <2>3, <2>4 DEF Consumer
<1>5. CASE Flush \/ (\E graceful \in BOOLEAN : StopCall(graceful)) \/ Stopping
  <2>1. CASE StopPutNone
    <3>1. stats' = stats
      BY <2>1 DEF StopPutNone
    <3>2. QED
      BY <1>0, <2>1, <3>1, ChancePut, BoundedKept
  <2>2. CASE ~StopPutNone
    BY <1>1, <1>5, <2>2 DEF Flush, StopCall, Stopping, StopJoin, StopDrained, StopTimesOut, StopGathered,
                            StopClosed, chan, work
  <2>3. QED
    BY <2>1, <2>2
<1>6. CASE UNCHANGED vars
  BY <1>1, <1>6 DEF vars, chan, work
<1>7. QED
  BY <1>2, <1>3, <1>4, <1>5, <1>6 DEF Next

(* The other parts of Books: the events counted at enqueue(), and the      *)
(* outcomes counted before they are in the store.                          *)
Enrolled == stats.enqueued = Cardinality(Accepted)

Tally ==
  /\ stats.processed = Cardinality(Marked("processed")) + Cardinality(Processing)
  /\ stats.failed = Cardinality(Marked("dead")) + Cardinality(Failing)

\* Every step keeps a status row for what was accepted.
LEMMA EnrolledStep == IInv /\ Enrolled /\ [Next]_vars => Enrolled'
<1> SUFFICES ASSUME IInv, Enrolled, [Next]_vars PROVE Enrolled'
  OBVIOUS
<1>0. stats \in Stats /\ producer \in [Envelopes -> {"idle", "saving", "putting", "accepted", "rejected"}]
  BY DEF IInv, TypeOK
<1>1. ASSUME producer' = producer, stats'.enqueued = stats.enqueued PROVE Enrolled'
  BY <1>1 DEF Enrolled, Accepted
<1>2. ASSUME NEW e \in Envelopes, Producer(e) PROVE Enrolled'
  <2>1. CASE EnqueuePut(e)
    <3>1. /\ producer[e] = "putting" /\ producer' = [producer EXCEPT ![e] = "accepted"]
          /\ stats' = [stats EXCEPT !.enqueued = @ + 1]
      BY <2>1 DEF EnqueuePut
    <3>2. e \notin Accepted /\ Accepted' = Accepted \cup {e}
      BY <1>0, <3>1 DEF Accepted
    <3>3. Accepted \in SUBSET Envelopes
      BY DEF Accepted
    <3>4. Cardinality(Accepted') = Cardinality(Accepted) + 1
      BY <3>2, <3>3, EnvelopeSets
    <3>5. stats'.enqueued = stats.enqueued + 1
      BY <1>0, <3>1, CounterFacts
    <3>6. QED
      BY <3>4, <3>5 DEF Enrolled
  <2>2. CASE ~EnqueuePut(e)
    <3>1. PICK v : /\ producer[e] # "accepted" /\ v # "accepted" /\ stats' = stats
                   /\ producer' = [producer EXCEPT ![e] = v]
      <4>1. CASE Publish(e)
        BY <4>1 DEF Publish
      <4>2. CASE EnqueueSaved(e) \/ EnqueueSaveFails(e)
        BY <4>2 DEF EnqueueSaved, EnqueueSaveFails
      <4>3. QED
        BY <1>2, <2>2, <4>1, <4>2 DEF Producer
    <3>2. Accepted' = Accepted
      BY <1>0, <3>1 DEF Accepted
    <3>3. QED
      BY <3>1, <3>2 DEF Enrolled
  <2>3. QED
    BY <2>1, <2>2
<1>3. ASSUME NEW c \in Consumers, Consumer(c) PROVE Enrolled'
  <2>1. producer' = producer
    BY <1>3, MoveFacts DEF Consumer, ConsumeEnvelope, ConsumeSentinel, PutRetry
  <2>2. \/ stats' = stats \/ stats' = [stats EXCEPT !.processed = @ + 1]
        \/ stats' = [stats EXCEPT !.failed = @ + 1] \/ stats' = [stats EXCEPT !.retried = @ + 1]
        \/ stats' = [stats EXCEPT !.dead_lettered = @ + 1]
    BY <1>3 DEF Consumer, ConsumeEnvelope, ConsumeSentinel, Dispatch, BackoffElapsed, MarkFailed,
                MarkProcessed, DeadInsert, DeadLetter, PutRetry, HandleRaises, Cancelled
  <2>3. stats'.enqueued = stats.enqueued
    BY <1>0, <2>2, CounterFacts
  <2>4. QED
    BY <1>1, <2>1, <2>3
<1>4. CASE StartCall \/ StartOpened \/ Flush \/ (\E graceful \in BOOLEAN : StopCall(graceful)) \/ Stopping
  BY <1>1, <1>4 DEF StartCall, StartOpened, Flush, StopCall, Stopping, StopPutNone, StopJoin, StopDrained,
                    StopTimesOut, StopGathered, StopClosed
<1>5. CASE UNCHANGED vars
  BY <1>1, <1>5 DEF vars
<1>6. QED
  BY <1>2, <1>3, <1>4, <1>5 DEF Next

(* Where a consumer goes decides whether it is on its way to the store. *)
LEMMA GotoSets ==
  ASSUME consumer \in [Consumers -> ConsumerStates], NEW c \in Consumers, NEW pc,
         consumer' = [consumer EXCEPT ![c] = pc]
  PROVE  /\ Processing' = IF pc = "mark_processed" THEN Processing \cup {c} ELSE Processing \ {c}
         /\ Failing' = IF pc \in {"mark_failed", "dead_insert", "dead_update"} THEN Failing \cup {c} ELSE Failing \ {c}
<1>1. consumer'[c] = pc /\ \A b \in Consumers : b # c => consumer'[b] = consumer[b]
  OBVIOUS
<1>2. QED
  BY <1>1 DEF Processing, Failing

\* The sets the counters are compared with.
LEMMA BookSets ==
  /\ Processing \in SUBSET Consumers /\ Failing \in SUBSET Consumers
  /\ \A v : Marked(v) \in SUBSET Envelopes
BY DEF Processing, Failing, Marked

(* The envelope in hand is not settled, so a write of its status moves it  *)
(* into one set at most.                                                   *)
LEMMA StoreSets ==
  ASSUME IInv, NEW c \in Consumers, consumer[c] \in Writes \ {"dead_insert"}, StoreWrite(c)
  PROVE  /\ held[c].id \in Envelopes
         /\ held[c].id \notin Marked("processed") /\ held[c].id \notin Marked("dead")
         /\ status'[held[c].id] = Written(consumer[c])
         /\ Marked("processed")' = IF consumer[c] = "mark_processed" THEN Marked("processed") \cup {held[c].id}
                                   ELSE Marked("processed")
         /\ Marked("dead")' = IF consumer[c] = "dead_update" THEN Marked("dead") \cup {held[c].id}
                              ELSE Marked("dead")
<1>1. c \in Busy
  BY DEF Busy, Idle, Writes
<1>2. held[c].id \in Envelopes /\ ~Settled(held[c].id)
  BY <1>1 DEF IInv, Handling, Item, Tracking, InTransit, InHand
<1>3. PICK e \in Envelopes : e = held[c].id
  BY <1>2
<1>4. PICK v : v = Written(consumer[c])
  OBVIOUS
<1>5. /\ v = "processed" <=> consumer[c] = "mark_processed"
      /\ v = "dead" <=> consumer[c] = "dead_update"
  BY <1>4 DEF Written, Writes
<1>6. status'[e] = v /\ \A d \in Envelopes : d # e => status'[d] = status[d]
  BY <1>3, <1>4 DEF StoreWrite, IInv, TypeOK
<1>7. status[e] # "processed" /\ status[e] # "dead"
  BY <1>2, <1>3 DEF Settled, Final
<1>8. Marked("processed")' = IF v = "processed" THEN Marked("processed") \cup {e} ELSE Marked("processed")
  BY <1>6, <1>7 DEF Marked
<1>9. Marked("dead")' = IF v = "dead" THEN Marked("dead") \cup {e} ELSE Marked("dead")
  BY <1>6, <1>7 DEF Marked
<1>10. e \notin Marked("processed") /\ e \notin Marked("dead")
  BY <1>7 DEF Marked
<1>11. QED
  BY <1>3, <1>4, <1>5, <1>6, <1>8, <1>9, <1>10

(* The outcome reaches the store: the consumer is no longer on its way. *)
LEMMA TallyWrite ==
  ASSUME IInv, Tally, NEW c \in Consumers, consumer[c] \in Writes \ {"dead_insert"}, StoreWrite(c), NEW pc,
         consumer' = [consumer EXCEPT ![c] = pc],
         \/ consumer[c] \in {"mark_processed", "dead_update"} /\ pc \in {"get", "exited"}
         \/ consumer[c] = "mark_retry" /\ pc = "put"
         \/ consumer[c] = "mark_failed" /\ pc = "dead_insert",
         stats'.processed = stats.processed, stats'.failed = stats.failed
  PROVE  Tally'
<1> DEFINE e == held[c].id
<1>1. /\ e \in Envelopes /\ e \notin Marked("processed") /\ e \notin Marked("dead")
      /\ Marked("processed")' = IF consumer[c] = "mark_processed" THEN Marked("processed") \cup {e}
                                ELSE Marked("processed")
      /\ Marked("dead")' = IF consumer[c] = "dead_update" THEN Marked("dead") \cup {e} ELSE Marked("dead")
  BY StoreSets
<1>2. /\ Processing' = IF pc = "mark_processed" THEN Processing \cup {c} ELSE Processing \ {c}
      /\ Failing' = IF pc \in {"mark_failed", "dead_insert", "dead_update"} THEN Failing \cup {c} ELSE Failing \ {c}
  BY GotoSets DEF IInv, TypeOK
<1>3. /\ c \in Processing <=> consumer[c] = "mark_processed"
      /\ c \in Failing <=> consumer[c] \in {"mark_failed", "dead_insert", "dead_update"}
  BY DEF Processing, Failing
<1> HIDE DEF e
<1>4. /\ Cardinality(Processing) \in Nat /\ Cardinality(Failing) \in Nat
      /\ Cardinality(Marked("processed")) \in Nat /\ Cardinality(Marked("dead")) \in Nat
  BY BookSets, ConsumerSets, EnvelopeSets
<1>5. CASE consumer[c] = "mark_processed"
  <2>1. /\ Marked("processed")' = Marked("processed") \cup {e} /\ Marked("dead")' = Marked("dead")
        /\ Processing' = Processing \ {c} /\ Failing' = Failing /\ c \in Processing
    BY <1>1, <1>2, <1>3, <1>5
  <2>2. /\ Cardinality(Marked("processed")') = Cardinality(Marked("processed")) + 1
        /\ Cardinality(Processing') = Cardinality(Processing) - 1
    BY <1>1, <2>1, BookSets, ConsumerSets, EnvelopeSets
  <2>3. QED
    BY <1>4, <2>1, <2>2 DEF Tally
<1>6. CASE consumer[c] = "dead_update"
  <2>1. /\ Marked("dead")' = Marked("dead") \cup {e} /\ Marked("processed")' = Marked("processed")
        /\ Failing' = Failing \ {c} /\ Processing' = Processing /\ c \in Failing
    BY <1>1, <1>2, <1>3, <1>6
  <2>2. /\ Cardinality(Marked("dead")') = Cardinality(Marked("dead")) + 1
        /\ Cardinality(Failing') = Cardinality(Failing) - 1
    BY <1>1, <2>1, BookSets, ConsumerSets, EnvelopeSets
  <2>3. QED
    BY <1>4, <2>1, <2>2 DEF Tally
<1>7. CASE consumer[c] \in {"mark_retry", "mark_failed"}
  <2>1. /\ Marked("dead")' = Marked("dead") /\ Marked("processed")' = Marked("processed")
        /\ Failing' = Failing /\ Processing' = Processing
    BY <1>1, <1>2, <1>3, <1>7
  <2>2. QED
    BY <2>1 DEF Tally
<1>8. QED
  BY <1>5, <1>6, <1>7

(* A consumer moves between places that are not on the way to the store. *)
LEMMA TallyGoto ==
  ASSUME IInv, Tally, NEW c \in Consumers, NEW pc, consumer' = [consumer EXCEPT ![c] = pc],
         consumer[c] \notin {"mark_processed", "mark_failed", "dead_insert", "dead_update"},
         pc \notin {"mark_processed", "mark_failed", "dead_insert", "dead_update"},
         status' = status, stats'.processed = stats.processed, stats'.failed = stats.failed
  PROVE  Tally'
<1>1. c \notin Processing /\ c \notin Failing
  BY DEF Processing, Failing
<1>2. Processing' = Processing \ {c} /\ Failing' = Failing \ {c}
  BY GotoSets DEF IInv, TypeOK
<1>3. Processing' = Processing /\ Failing' = Failing
  BY <1>1, <1>2
<1>4. Marked("processed")' = Marked("processed") /\ Marked("dead")' = Marked("dead")
  BY DEF Marked
<1>5. QED
  BY <1>3, <1>4 DEF Tally

\* The outcome of dispatch() moves one counter and one set.
LEMMA TallyDispatch ==
  ASSUME IInv, Tally, NEW c \in Consumers, NEW o \in Outcomes, Dispatch(c, o)
  PROVE  Tally'
<1>0. stats \in Stats /\ consumer \in [Consumers -> ConsumerStates]
  BY DEF IInv, TypeOK
<1>1. consumer[c] = "dispatch" /\ status' = status
  BY DEF Dispatch, At, store
<1>2. Marked("processed")' = Marked("processed") /\ Marked("dead")' = Marked("dead")
  BY <1>1 DEF Marked
<1>3. c \notin Processing /\ c \notin Failing
  BY <1>1 DEF Processing, Failing
<1>4. /\ Cardinality(Processing) \in Nat /\ Cardinality(Failing) \in Nat
      /\ Cardinality(Marked("processed")) \in Nat /\ Cardinality(Marked("dead")) \in Nat
      /\ Cardinality(Processing \cup {c}) = Cardinality(Processing) + 1
      /\ Cardinality(Failing \cup {c}) = Cardinality(Failing) + 1
  BY <1>3, BookSets, ConsumerSets, EnvelopeSets
<1>5. CASE stats' = [stats EXCEPT !.processed = @ + 1] /\ consumer' = [consumer EXCEPT ![c] = "mark_processed"]
  <2>0. Processing' = Processing \cup {c} /\ Failing' = Failing \ {c}
    BY <1>0, <1>5, GotoSets
  <2>1. Processing' = Processing \cup {c} /\ Failing' = Failing
    BY <1>3, <2>0
  <2>2. stats'.processed = stats.processed + 1 /\ stats'.failed = stats.failed
    BY <1>0, <1>5, CounterFacts
  <2>3. QED
    BY <1>2, <1>4, <2>1, <2>2 DEF Tally
<1>6. CASE stats' = [stats EXCEPT !.retried = @ + 1] /\ consumer' = [consumer EXCEPT ![c] = "sleep"]
  <2>1. stats'.processed = stats.processed /\ stats'.failed = stats.failed
    BY <1>0, <1>6, CounterFacts
  <2>2. QED
    BY <1>1, <1>6, <2>1, TallyGoto
<1>7. CASE stats' = [stats EXCEPT !.failed = @ + 1] /\ consumer' = [consumer EXCEPT ![c] = "mark_failed"]
  <2>0. Failing' = Failing \cup {c} /\ Processing' = Processing \ {c}
    BY <1>0, <1>7, GotoSets
  <2>1. Failing' = Failing \cup {c} /\ Processing' = Processing
    BY <1>3, <2>0
  <2>2. stats'.failed = stats.failed + 1 /\ stats'.processed = stats.processed
    BY <1>0, <1>7, CounterFacts
  <2>3. QED
    BY <1>2, <1>4, <2>1, <2>2 DEF Tally
<1>8. QED
  BY <1>5, <1>6, <1>7 DEF Dispatch, Goto

(* An abandoned envelope is lost, unless its last write had reached the    *)
(* store.                                                                  *)
LEMMA TallyAbandon ==
  ASSUME IInv, Tally, NEW c \in Busy, Abandon(c), lost' = {}, NEW pc \in {"get", "exited"},
         consumer' = [consumer EXCEPT ![c] = pc], stats' = stats
  PROVE  Tally'
<1>1. c \in Consumers /\ held[c].id \in Envelopes /\ ~Settled(held[c].id)
  BY DEF Busy, IInv, Handling, Item, Tracking, InTransit, InHand
<1>2. status'[held[c].id] \in Final
  BY DEF Abandon
<1>3. consumer[c] \in Writes \ {"dead_insert"} /\ StoreWrite(c)
  BY <1>1, <1>2 DEF Abandon, StoreWrite, Settled, store
<1>4. consumer[c] \in {"mark_processed", "dead_update"}
  BY <1>1, <1>2, <1>3, StoreSets DEF Written, Final, Writes
<1>5. QED
  BY <1>1, <1>3, <1>4, TallyWrite

(* As long as nothing is lost every step keeps the counters and the store  *)
(* in step.                                                                *)
LEMMA TallyStep ==
  ASSUME IInv, lost = {} => Tally, [Next]_vars, lost' = {}
  PROVE  Tally'
<1>0. stats \in Stats /\ consumer \in [Consumers -> ConsumerStates]
  BY DEF IInv, TypeOK
<1>1. lost = {}
  <2>1. ASSUME NEW c \in Consumers, Consumer(c) PROVE lost = {}
    BY <2>1 DEF Consumer, ConsumeEnvelope, ConsumeSentinel, Dispatch, BackoffElapsed, MarkFailed,
                MarkProcessed, DeadInsert, DeadLetter, PutRetry, HandleRaises, Cancelled, Abandon
  <2>2. ASSUME NEW e \in Envelopes, Producer(e) PROVE lost = {}
    BY <2>2 DEF Producer, Publish, EnqueueSaved, EnqueueSaveFails, EnqueuePut
  <2>3. CASE StartCall \/ StartOpened \/ Flush \/ (\E graceful \in BOOLEAN : StopCall(graceful)) \/ Stopping
    BY <2>3 DEF StartCall, StartOpened, Flush, StopCall, Stopping, StopPutNone, StopJoin, StopDrained,
                StopTimesOut, StopGathered, StopClosed
  <2>4. QED
    BY <2>1, <2>2, <2>3 DEF Next, vars
<1>2. Tally
  BY <1>1
<1>3. ASSUME UNCHANGED <<consumer, status>>, stats'.processed = stats.processed, stats'.failed = stats.failed
      PROVE  Tally'
  BY <1>2, <1>3 DEF Tally, Marked, Processing, Failing
<1>4. CASE StartCall \/ StartOpened
  <2>1. CASE StartCall
    BY <1>3, <2>1 DEF StartCall, work, store
  <2>2. CASE StartOpened
    <3>1. /\ consumer = [b \in Consumers |-> "new"] /\ consumer' = [b \in Consumers |-> "get"]
          /\ status' = status /\ stats' = stats
      BY <2>2 DEF StartOpened, store, IInv, Lifecycle
    <3>2. Processing = {} /\ Processing' = {} /\ Failing = {} /\ Failing' = {}
      BY <3>1 DEF Processing, Failing
    <3>3. QED
      BY <1>2, <3>1, <3>2 DEF Tally, Marked
  <2>3. QED
    BY <1>4, <2>1, <2>2
<1>5. ASSUME NEW e \in Envelopes, Producer(e) PROVE Tally'
  <2>1. CASE EnqueueSaved(e) \/ EnqueueSaveFails(e)
    <3>1. PICK v \in {"none", "pending"} : status' = [status EXCEPT ![e] = v]
      BY <2>1 DEF EnqueueSaved, EnqueueSaveFails
    <3>2. producer[e] = "saving" /\ consumer' = consumer /\ stats' = stats
      BY <2>1 DEF EnqueueSaved, EnqueueSaveFails, work
    <3>3. status[e] \notin Final
      BY <3>2 DEF IInv, Tracking, Settled
    <3>4. status'[e] = v /\ \A d \in Envelopes : d # e => status'[d] = status[d]
      BY <3>1 DEF IInv, TypeOK
    <3>5. Marked("processed")' = Marked("processed") /\ Marked("dead")' = Marked("dead")
      BY <3>3, <3>4 DEF Marked, Final
    <3>6. QED
      BY <1>2, <3>2, <3>5 DEF Tally, Processing, Failing
  <2>2. CASE Publish(e)
    BY <1>3, <2>2 DEF Publish, work, store
  <2>3. CASE EnqueuePut(e)
    <3>1. stats'.processed = stats.processed /\ stats'.failed = stats.failed
      BY <1>0, <2>3, CounterFacts DEF EnqueuePut
    <3>2. QED
      BY <1>3, <2>3, <3>1 DEF EnqueuePut, work, store
  <2>4. QED
    BY <1>5, <2>1, <2>2, <2>3 DEF Producer
<1>6. ASSUME NEW c \in Consumers, Consumer(c) PROVE Tally'
  <2>1. CASE ConsumeEnvelope(c) \/ ConsumeSentinel(c) \/ BackoffElapsed(c) \/ PutRetry(c)
    <3>1. PICK pc : /\ consumer' = [consumer EXCEPT ![c] = pc] /\ status' = status /\ stats' = stats
                    /\ consumer[c] \in {"get", "sleep", "put"}
                    /\ pc \in {"dispatch", "exited", "mark_retry", "get"}
      BY <2>1 DEF ConsumeEnvelope, ConsumeSentinel, BackoffElapsed, PutRetry, At, Goto, store
    <3>2. QED
      BY <1>2, <3>1, TallyGoto
  <2>2. CASE \E o \in Outcomes : Dispatch(c, o)
    BY <1>2, <2>2, TallyDispatch
  <2>3. CASE MarkFailed(c) \/ MarkProcessed(c) \/ DeadInsert(c) \/ DeadLetter(c)
    <3>1. stats' = stats \/ stats' = [stats EXCEPT !.dead_lettered = @ + 1]
      BY <2>3 DEF MarkFailed, MarkProcessed, DeadInsert, DeadLetter
    <3>2. stats'.processed = stats.processed /\ stats'.failed = stats.failed
      BY <1>0, <3>1, CounterFacts
    <3>3. CASE MarkFailed(c)
      BY <1>2, <3>2, <3>3, TallyWrite DEF MarkFailed, At, Goto, Writes
    <3>4. CASE MarkProcessed(c)
      BY <1>2, <3>2, <3>4, TallyWrite DEF MarkProcessed, At, Goto, Writes
    <3>5. CASE DeadLetter(c)
      BY <1>2, <3>2, <3>5, TallyWrite DEF DeadLetter, At, Goto, Writes
    <3>6. CASE DeadInsert(c)
      <4>1. /\ consumer[c] = "dead_insert" /\ status' = status
            /\ consumer' = [consumer EXCEPT ![c] = "dead_update"]
        BY <3>6 DEF DeadInsert, StoreWrite, At, Goto
      <4>2. Processing' = Processing \ {c} /\ Failing' = Failing \cup {c}
        BY <1>0, <4>1, GotoSets
      <4>3. Processing' = Processing /\ Failing' = Failing
        BY <4>1, <4>2 DEF Processing, Failing
      <4>4. QED
        BY <1>2, <3>2, <4>1, <4>3 DEF Tally, Marked
    <3>7. QED
      BY <2>3, <3>3, <3>4, <3>5, <3>6
  <2>4. CASE HandleRaises(c)
    <3>1. Abandon(c) /\ consumer' = [consumer EXCEPT ![c] = "get"] /\ stats' = stats /\ c \in Busy
      BY <2>4 DEF HandleRaises, Goto, Busy, Writes, Idle
    <3>2. QED
      BY <1>2, <3>1, TallyAbandon
  <2>5. CASE Cancelled(c)
    <3>1. consumer' = [consumer EXCEPT ![c] = "exited"] /\ stats' = stats
      BY <2>5 DEF Cancelled, Goto
    <3>2. CASE consumer[c] \in Idle
      <4>1. status' = status
        BY <2>5, <3>2 DEF Cancelled, store
      <4>2. consumer[c] \notin {"mark_processed", "mark_failed", "dead_insert", "dead_update"}
        BY <3>2 DEF Idle
      <4>3. QED
        BY <1>2, <3>1, <4>1, <4>2, TallyGoto
    <3>3. CASE consumer[c] \notin Idle
      <4>1. Abandon(c) /\ c \in Busy
        BY <2>5, <3>3 DEF Cancelled, Busy
      <4>2. QED
        BY <1>2, <3>1, <4>1, TallyAbandon
    <3>4. QED
      BY <3>2, <3>3
  <2>6. QED
    BY <1>6, <2>1, <2>2, <2>3, <2>4, <2>5 DEF Consumer
<1>7. CASE Flush \/ (\E graceful \in BOOLEAN : StopCall(graceful)) \/ Stopping
  BY <1>3, <1>7 DEF Flush, StopCall, Stopping, StopPutNone, StopJoin, StopDrained, StopTimesOut,
                    StopGathered, StopClosed, work, store
<1>8. CASE UNCHANGED vars
  BY <1>3, <1>8 DEF vars, work, store
<1>9. QED
  BY <1>4, <1>5, <1>6, <1>7, <1>8 DEF Next

(* The books are in order in every reachable state. *)
LEMMA InvariantBooks == Spec => []Books
<1>1. Init => Books
  <2> SUFFICES ASSUME Init PROVE Books
    OBVIOUS
  <2>1. /\ Marked("processed") = {} /\ Marked("dead") = {} /\ Accepted = {}
        /\ Processing = {} /\ Failing = {}
    BY DEF Init, Marked, Accepted, Processing, Failing
  <2>2. Chances = {}
    <3>1. Busy = {} /\ Len(queue) = 0
      BY DEF Init, Busy, Idle
    <3>2. QED
      BY <3>1 DEF Chances, Chance
  <2>3. stats.enqueued = 0 /\ stats.processed = 0 /\ stats.failed = 0 /\ stats.retried = 0
    BY DEF Init
  <2>4. Cardinality({}) = 0
    BY FS_EmptySet
  <2>5. 0 * (MaxAttempts - 1) = 0
    BY Attempts
  <2>6. QED
    BY <2>1, <2>2, <2>3, <2>4, <2>5 DEF Books
<1>2. IInv /\ Books /\ [Next]_vars => Books'
  <2> SUFFICES ASSUME IInv, Books, [Next]_vars PROVE Books'
    OBVIOUS
  <2>1. Bounded /\ Enrolled /\ (lost = {} => Tally)
    BY DEF Books, Bounded, Enrolled, Tally
  <2>2. Bounded' /\ Enrolled'
    BY <2>1, BoundedStep, EnrolledStep
  <2>3. lost' = {} => Tally'
    BY <2>1, TallyStep
  <2>4. QED
    BY <2>2, <2>3 DEF Books, Bounded, Enrolled, Tally
<1>3. QED
  BY <1>1, <1>2, InvariantIInv, PTL DEF Spec

(* WorkerStats, read when the queue has drained and nothing was lost, says *)
(* what the store says, and no envelope was retried beyond its attempts.   *)
THEOREM StatsBalanceHolds == Spec => []StatsBalance
<1>1. IInv /\ Books => StatsBalance
  <2> SUFFICES ASSUME IInv, Books, unfinished = 0, lost = {}
               PROVE  /\ stats.processed = Cardinality(Marked("processed"))
                      /\ stats.failed = Cardinality(Marked("dead"))
                      /\ stats.enqueued = stats.processed + stats.failed
                      /\ stats.retried <= stats.enqueued * (MaxAttempts - 1)
    BY DEF StatsBalance, Marked
  <2>1. Busy = {}
    <3>1. Busy \in SUBSET Consumers
      BY DEF Busy
    <3>2. Cardinality(Busy) = 0
      BY <3>1, ConsumerSets, QueueFacts DEF IInv, TypeOK, JoinAccounting
    <3>3. QED
      BY <3>1, <3>2, ConsumerSets
  <2>2. Processing = {} /\ Failing = {}
    BY <2>1 DEF Processing, Failing, Busy, Idle
  <2>3. Cardinality({}) = 0
    BY FS_EmptySet
  <2>4. Cardinality(Marked("processed")) \in Nat /\ Cardinality(Marked("dead")) \in Nat
    BY BookSets, EnvelopeSets
  <2>5. /\ stats.processed = Cardinality(Marked("processed"))
        /\ stats.failed = Cardinality(Marked("dead"))
    BY <2>2, <2>3, <2>4 DEF Books
  <2>6. Accepted = Marked("processed") \cup Marked("dead") /\ Marked("processed") \cap Marked("dead") = {}
    <3>1. \A e \in Envelopes : producer[e] = "accepted" <=> Settled(e)
      BY DrainedQueue DEF Drained, IInv, Tracking
    <3>2. QED
      BY <3>1 DEF Accepted, Marked, Settled, Final
  <2>7. Cardinality(Accepted) = Cardinality(Marked("processed")) + Cardinality(Marked("dead"))
    <3>1. IsFiniteSet(Marked("processed")) /\ IsFiniteSet(Marked("dead"))
      BY BookSets, WorkerAssumption, FS_Subset
    <3>2. Cardinality(Accepted) = Cardinality(Marked("processed")) + Cardinality(Marked("dead")) - Cardinality({})
      BY <2>6, <3>1, FS_Union
    <3>3. QED
      BY <2>3, <2>4, <3>2
  <2>8. stats.retried <= stats.enqueued * (MaxAttempts - 1)
    <3>1. /\ stats.retried \in Nat /\ stats.enqueued * (MaxAttempts - 1) \in Nat
          /\ Cardinality(Chances) \in Nat
      BY CounterFacts, Attempts, ChancesType, ChanceSets DEF IInv, TypeOK
    <3>2. QED
      BY <3>1 DEF Books
  <2>9. QED
    BY <2>5, <2>7, <2>8 DEF Books
<1>2. QED
  BY <1>1, InvariantIInv, InvariantBooks, PTL

-----------------------------------------------------------------------------
(* The dead letter queue.  A DLQ record is written before the row says     *)
(* "dead": an envelope in transit has one only in the hands of a consumer   *)
(* that is about to update the row, and then the row says "failed".        *)
Inserted(e) == \E c \in Consumers : consumer[c] = "dead_update" /\ held[c].id = e

Records ==
  /\ \A e \in Envelopes :
       /\ dlq[e] \in {0, 1}
       /\ status[e] = "dead" => dlq[e] = 1
       /\ dlq[e] = 1 => /\ producer[e] = "accepted" /\ status[e] \in {"failed", "dead"}
                        /\ InTransit(e) => Inserted(e)
  /\ \A c \in Consumers :
       /\ consumer[c] \in {"dead_insert", "dead_update"} => status[held[c].id] = "failed"
       /\ consumer[c] = "dead_update" => dlq[held[c].id] = 1

(* Whoever holds an envelope before the DLQ record is written holds one    *)
(* without a record, and nobody else holds it.                             *)
LEMMA HeldRecord ==
  ASSUME IInv, Records, NEW c \in Busy
  PROVE  /\ held[c].id \in Envelopes /\ ~Settled(held[c].id) /\ InTransit(held[c].id)
         /\ producer[held[c].id] = "accepted"
         /\ consumer[c] # "dead_update" => dlq[held[c].id] = 0
<1>1. held[c].id \in Envelopes /\ InTransit(held[c].id)
  BY DEF IInv, Handling, Item, InTransit, InHand
<1>2. ~Settled(held[c].id) /\ producer[held[c].id] = "accepted"
  BY <1>1 DEF IInv, Tracking
<1>3. ASSUME NEW d \in Consumers, consumer[d] = "dead_update", held[d].id = held[c].id PROVE d = c
  BY <1>3 DEF IInv, OnePlace, Busy, Idle
<1>4. QED
  BY <1>1, <1>2, <1>3 DEF Records, Inserted

(* What a step of one consumer leaves alone, and the ways in and out of    *)
(* dead_letter().                                                          *)
LEMMA ConsumerFrame ==
  ASSUME IInv, NEW c \in Consumers, Consumer(c)
  PROVE  /\ producer' = producer
         /\ \A b \in Consumers \ {c} : consumer'[b] = consumer[b] /\ held'[b] = held[b]
         /\ \A e \in Envelopes : InTransit(e)' => InTransit(e)
<1>0. /\ consumer \in [Consumers -> ConsumerStates] /\ held \in [Consumers -> Item \cup {Sentinel}]
      /\ queue \in Seq(Item \cup {Sentinel})
  BY DEF IInv, TypeOK
<1>1. CASE ConsumeEnvelope(c) \/ ConsumeSentinel(c)
  <2>1. /\ producer' = producer /\ queue # <<>> /\ queue' = Tail(queue)
        /\ \A b \in Consumers \ {c} : consumer'[b] = consumer[b] /\ held'[b] = held[b]
        /\ c \in Busy' => held'[c] = Head(queue)
    BY <1>0, <1>1 DEF ConsumeEnvelope, ConsumeSentinel, Goto, Busy, Idle
  <2>2. \A e \in Envelopes : InQueue(e)' => InQueue(e)
    <3> SUFFICES ASSUME NEW e \in Envelopes, NEW i \in 1..Len(queue'), queue'[i].id = e
                 PROVE  \E j \in 1..Len(queue) : queue[j].id = e
      BY DEF InQueue
    <3>1. i + 1 \in 1..Len(queue) /\ queue'[i] = queue[i + 1]
      BY <1>0, <2>1, QueueFacts
    <3>2. QED
      BY <3>1
  <2>3. \A e \in Envelopes : InHand(e)' => InHand(e) \/ InQueue(e)
    <3>1. Head(queue) = queue[1] /\ 1 \in 1..Len(queue)
      BY <1>0, <2>1, QueueFacts
    <3>2. \A b \in Busy' : b # c => b \in Busy /\ held'[b] = held[b]
      BY <2>1 DEF Busy
    <3>3. QED
      BY <2>1, <3>1, <3>2 DEF InHand, InQueue
  <2>4. QED
    BY <2>1, <2>2, <2>3 DEF InTransit
<1>2. CASE PutRetry(c)
  <2>1. /\ producer' = producer /\ held' = held /\ consumer[c] = "put"
        /\ consumer' = [consumer EXCEPT ![c] = "get"]
        /\ queue' = Append(queue, [held[c] EXCEPT !.attempt = @ + 1])
    BY <1>2 DEF PutRetry, At, Goto
  <2>2. c \in Busy /\ held[c] \in Item /\ held[c].attempt < MaxAttempts
    BY <2>1 DEF Busy, Idle, IInv, Handling
  <2>3. PICK x \in Item : x = [held[c] EXCEPT !.attempt = @ + 1] /\ x.id = held[c].id
    <3>1. [held[c] EXCEPT !.attempt = @ + 1] = [id |-> held[c].id, attempt |-> held[c].attempt + 1]
      BY <2>2 DEF Item
    <3>2. held[c].id \in Envelopes /\ held[c].attempt + 1 \in 1..MaxAttempts
      BY <2>2, WorkerAssumption DEF Item
    <3>3. [id |-> held[c].id, attempt |-> held[c].attempt + 1] \in Item
      BY <3>2 DEF Item
    <3>4. QED
      BY <3>1, <3>3
  <2>4. \A i \in 1..Len(queue') : queue'[i] = x \/ (i \in 1..Len(queue) /\ queue'[i] = queue[i])
    BY <1>0, <2>1, <2>3, QueueFacts
  <2>5. \A e \in Envelopes : InQueue(e)' => InQueue(e) \/ InHand(e)
    BY <2>2, <2>3, <2>4 DEF InQueue, InHand
  <2>6. \A e \in Envelopes : InHand(e)' => InHand(e)
    BY <1>0, <2>1 DEF InHand, Busy, Idle
  <2>7. QED
    BY <1>0, <2>1, <2>5, <2>6 DEF InTransit
<1>3. CASE ~(ConsumeEnvelope(c) \/ ConsumeSentinel(c) \/ PutRetry(c))
  <2>1. /\ queue' = queue /\ held' = held /\ producer' = producer
        /\ \A b \in Busy' : b \in Busy
    BY <1>3, MoveFacts DEF Consumer
  <2>2. \E pc : consumer' = [consumer EXCEPT ![c] = pc]
    BY <1>3 DEF Consumer, Dispatch, BackoffElapsed, MarkFailed, MarkProcessed, DeadInsert, DeadLetter,
                HandleRaises, Cancelled, Goto
  <2>3. QED
    BY <1>0, <2>1, <2>2 DEF InTransit, InQueue, InHand
<1>4. QED
  BY <1>1, <1>2, <1>3

(* A consumer writes the row or the record of the envelope it holds, in     *)
(* the order of dead_letter(), or nothing.                                 *)
LEMMA ConsumerWrites ==
  ASSUME IInv, NEW c \in Consumers, Consumer(c)
  PROVE  \/ /\ status' = status /\ dlq' = dlq
            /\ consumer'[c] \notin {"dead_insert", "dead_update"}
            /\ consumer[c] = "dead_update" => c \notin Busy'
         \/ /\ consumer[c] \in Writes /\ StoreWrite(c) /\ held' = held
            /\ \/ c \notin Busy'
               \/ consumer[c] = "mark_retry" /\ consumer'[c] = "put"
               \/ consumer[c] = "mark_failed" /\ consumer'[c] = "dead_insert"
               \/ consumer[c] = "dead_insert" /\ consumer'[c] = "dead_update"
<1>0. consumer \in [Consumers -> ConsumerStates]
  BY DEF IInv, TypeOK
<1>1. CASE ConsumeEnvelope(c) \/ ConsumeSentinel(c) \/ BackoffElapsed(c) \/ PutRetry(c)
  BY <1>0, <1>1 DEF ConsumeEnvelope, ConsumeSentinel, BackoffElapsed, PutRetry, At, Goto, store
<1>2. CASE \E o \in Outcomes : Dispatch(c, o)
  BY <1>0, <1>2 DEF Dispatch, At, Goto, store
<1>3. CASE MarkFailed(c) \/ DeadInsert(c)
  BY <1>0, <1>3 DEF MarkFailed, DeadInsert, At, Goto, Writes
<1>4. CASE MarkProcessed(c) \/ DeadLetter(c)
  BY <1>0, <1>4 DEF MarkProcessed, DeadLetter, At, Goto, Writes, Busy, Idle
<1>5. CASE HandleRaises(c) \/ Cancelled(c)
  <2>1. consumer'[c] \in {"get", "exited"} /\ held' = held
    BY <1>0, <1>5 DEF HandleRaises, Cancelled, Goto
  <2>2. (status' = status /\ dlq' = dlq) \/ (consumer[c] \in Writes /\ StoreWrite(c))
    BY <1>5 DEF HandleRaises, Cancelled, Abandon, store
  <2>3. QED
    BY <2>1, <2>2 DEF Busy, Idle
<1>6. QED
  BY <1>1, <1>2, <1>3, <1>4, <1>5 DEF Consumer

(* A record stays where it is while another consumer works. *)
LEMMA InsertedKept ==
  ASSUME IInv, NEW c \in Consumers, Consumer(c), NEW e \in Envelopes,
         ~(consumer[c] = "dead_update" /\ held[c].id = e)
  PROVE  Inserted(e) => Inserted(e)'
BY ConsumerFrame DEF Inserted

(* Every consumer step keeps the records in order. *)
LEMMA RecordsConsumer ==
  ASSUME IInv, Records, NEW c \in Consumers, Consumer(c)
  PROVE  Records'
<1>0. /\ consumer \in [Consumers -> ConsumerStates]
      /\ status \in [Envelopes -> {"none", "pending", "processed", "failed", "dead"}]
      /\ dlq \in [Envelopes -> Nat]
  BY DEF IInv, TypeOK
<1>1. consumer[c] \in Writes \cup {"dispatch", "sleep", "put"} => c \in Busy
  BY DEF Busy, Idle, Writes
<1>2. /\ producer' = producer
      /\ \A b \in Consumers \ {c} : consumer'[b] = consumer[b] /\ held'[b] = held[b]
      /\ \A e \in Envelopes : InTransit(e)' => InTransit(e)
  BY ConsumerFrame
<1>3. CASE /\ status' = status /\ dlq' = dlq
           /\ consumer'[c] \notin {"dead_insert", "dead_update"}
           /\ consumer[c] = "dead_update" => c \notin Busy'
  <2>1. ASSUME NEW e \in Envelopes, dlq[e] = 1, InTransit(e)' PROVE Inserted(e)'
    <3>1. InTransit(e) /\ Inserted(e)
      BY <1>2, <2>1 DEF Records
    <3>2. CASE consumer[c] = "dead_update" /\ held[c].id = e
      <4>1. c \in Busy
        BY <1>1, <3>2 DEF Writes
      <4>2. ~InQueue(e) /\ \A b \in Busy : held[b].id = e => b = c
        BY <3>2, <4>1 DEF IInv, OnePlace
      <4>3. queue' = queue
        BY <3>2, MoveFacts DEF Consumer, ConsumeEnvelope, ConsumeSentinel, PutRetry, At
      <4>4. ~InQueue(e)'
        BY <4>2, <4>3 DEF InQueue
      <4>5. ~InHand(e)'
        <5>1. \A b \in Busy' : b # c /\ b \in Consumers
          BY <1>3, <3>2 DEF Busy
        <5>2. \A b \in Busy' : b \in Busy /\ held'[b] = held[b]
          BY <1>2, <5>1 DEF Busy
        <5>3. QED
          BY <4>2, <5>1, <5>2 DEF InHand
      <4>6. QED
        BY <2>1, <4>4, <4>5 DEF InTransit
    <3>3. QED
      BY <3>1, <3>2, InsertedKept
  <2>2. QED
    BY <1>2, <1>3, <2>1 DEF Records
<1>4. CASE /\ consumer[c] \in Writes /\ StoreWrite(c) /\ held' = held
           /\ \/ c \notin Busy'
              \/ consumer[c] = "mark_retry" /\ consumer'[c] = "put"
              \/ consumer[c] = "mark_failed" /\ consumer'[c] = "dead_insert"
              \/ consumer[c] = "dead_insert" /\ consumer'[c] = "dead_update"
  <2>1. PICK x \in Envelopes : /\ x = held[c].id /\ ~Settled(x) /\ producer[x] = "accepted"
                               /\ consumer[c] # "dead_update" => dlq[x] = 0
    BY <1>1, <1>4, HeldRecord
  <2>2. c \in Busy /\ ~InQueue(x) /\ \A b \in Busy : held[b].id = x => b = c
    BY <1>1, <1>4, <2>1 DEF IInv, OnePlace
  <2>3. \A e \in Envelopes \ {x} : status'[e] = status[e] /\ dlq'[e] = dlq[e]
    BY <1>0, <1>4, <2>1 DEF StoreWrite
  <2>4. /\ consumer[c] = "mark_processed" => status'[x] = "processed" /\ dlq'[x] = 0
        /\ consumer[c] \in {"mark_retry", "mark_failed"} => status'[x] = "failed" /\ dlq'[x] = 0
        /\ consumer[c] = "dead_insert" => status'[x] = "failed" /\ dlq'[x] = 1
        /\ consumer[c] = "dead_update" => status'[x] = "dead" /\ dlq'[x] = 1
    BY <1>0, <1>4, <2>1 DEF StoreWrite, Written, Records
  <2>5. ASSUME NEW e \in Envelopes \ {x}
        PROVE  /\ dlq'[e] \in {0, 1} /\ (status'[e] = "dead" => dlq'[e] = 1)
               /\ dlq'[e] = 1 => /\ producer'[e] = "accepted" /\ status'[e] \in {"failed", "dead"}
                                 /\ InTransit(e)' => Inserted(e)'
    <3>1. Inserted(e) => Inserted(e)'
      BY <2>1, InsertedKept
    <3>2. QED
      BY <1>2, <2>3, <3>1 DEF Records
  <2>6. /\ dlq'[x] \in {0, 1} /\ (status'[x] = "dead" => dlq'[x] = 1)
        /\ dlq'[x] = 1 => producer'[x] = "accepted" /\ status'[x] \in {"failed", "dead"}
    BY <1>2, <1>4, <2>1, <2>4 DEF Writes
  <2>7. dlq'[x] = 1 /\ InTransit(x)' => Inserted(x)'
    <3>1. CASE c \notin Busy'
      <4>1. queue' = queue
        BY <1>4, MoveFacts DEF Consumer, ConsumeEnvelope, ConsumeSentinel, PutRetry, At, Writes
      <4>2. ~InQueue(x)'
        BY <2>2, <4>1 DEF InQueue
      <4>3. ~InHand(x)'
        BY <1>2, <1>4, <2>2, <3>1 DEF InHand, Busy
      <4>4. QED
        BY <4>2, <4>3 DEF InTransit
    <3>2. CASE consumer[c] \in {"mark_retry", "mark_failed"}
      BY <2>4, <3>2
    <3>3. CASE consumer'[c] = "dead_update"
      BY <1>4, <2>1, <3>3 DEF Inserted
    <3>4. QED
      BY <1>4, <3>1, <3>2, <3>3
  <2>8. ASSUME NEW b \in Consumers
        PROVE  /\ consumer'[b] \in {"dead_insert", "dead_update"} => status'[held'[b].id] = "failed"
               /\ consumer'[b] = "dead_update" => dlq'[held'[b].id] = 1
    <3>1. CASE b = c
      BY <1>4, <2>1, <2>4, <3>1 DEF Busy, Idle
    <3>2. CASE b # c
      <4>1. consumer'[b] = consumer[b] /\ held'[b] = held[b]
        BY <1>2, <3>2
      <4>2. consumer[b] \in {"dead_insert", "dead_update"} => b \in Busy
        BY DEF Busy, Idle
      <4>3. b \in Busy => held[b].id \in Envelopes \ {x}
        BY <2>2, <3>2, HeldRecord
      <4>4. QED
        BY <2>3, <4>1, <4>2, <4>3 DEF Records
    <3>3. QED
      BY <3>1, <3>2
  <2>9. QED
    BY <2>5, <2>6, <2>7, <2>8 DEF Records
<1>5. QED
  BY <1>3, <1>4, ConsumerWrites

(* The other steps write no record, and a row only before it is accepted. *)
LEMMA RecordsOthers ==
  ASSUME IInv, Records, [Next]_vars, ~\E c \in Consumers : Consumer(c)
  PROVE  Records'
<1>0. /\ queue \in Seq(Item \cup {Sentinel})
      /\ producer \in [Envelopes -> {"idle", "saving", "putting", "accepted", "rejected"}]
      /\ status \in [Envelopes -> {"none", "pending", "processed", "failed", "dead"}]
  BY DEF IInv, TypeOK
<1>1. ASSUME UNCHANGED <<consumer, held, status, dlq>>,
             \A e \in Envelopes : producer[e] = "accepted" => producer'[e] = "accepted",
             \A e \in Envelopes : dlq[e] = 1 /\ InQueue(e)' => InQueue(e)
      PROVE  Records'
  <2>1. \A e \in Envelopes : InHand(e)' => InHand(e)
    BY <1>1 DEF InHand, Busy
  <2>2. \A e \in Envelopes : Inserted(e) => Inserted(e)'
    BY <1>1 DEF Inserted
  <2>3. QED
    BY <1>1, <2>1, <2>2 DEF Records, InTransit
<1>2. ASSUME UNCHANGED <<consumer, held, status, dlq, producer, queue>> PROVE Records'
  BY <1>1, <1>2 DEF InQueue
<1>3. CASE StartOpened
  <2>1. /\ consumer = [b \in Consumers |-> "new"] /\ consumer' = [b \in Consumers |-> "get"]
        /\ UNCHANGED <<held, status, dlq, producer, queue>>
    BY <1>3 DEF StartOpened, store, chan, IInv, Lifecycle
  <2>2. \A e \in Envelopes : ~InHand(e)' /\ ~Inserted(e)
    BY <2>1 DEF InHand, Busy, Idle, Inserted
  <2>3. \A e \in Envelopes : InQueue(e)' => InQueue(e)
    BY <2>1 DEF InQueue
  <2>4. QED
    BY <2>1, <2>2, <2>3 DEF Records, InTransit
<1>4. ASSUME NEW e \in Envelopes, Producer(e) PROVE Records'
  <2>1. CASE Publish(e)
    <3>1. UNCHANGED <<consumer, held, status, dlq, queue>> /\ producer[e] = "idle"
          /\ \E v : producer' = [producer EXCEPT ![e] = v]
      BY <2>1 DEF Publish, work, store, chan
    <3>2. QED
      BY <1>0, <1>1, <3>1 DEF InQueue
  <2>2. CASE EnqueueSaved(e) \/ EnqueueSaveFails(e)
    <3>1. /\ UNCHANGED <<consumer, held, dlq, queue>> /\ producer[e] = "saving"
          /\ \E v : producer' = [producer EXCEPT ![e] = v]
      BY <2>2 DEF EnqueueSaved, EnqueueSaveFails, work, chan
    <3>2. PICK v \in {"none", "pending"} : status' = [status EXCEPT ![e] = v]
      BY <2>2 DEF EnqueueSaved, EnqueueSaveFails
    <3>3. dlq[e] = 0
      BY <3>1 DEF Records
    <3>4. \A c \in Consumers : consumer[c] \in {"dead_insert", "dead_update"} => held[c].id # e /\ held[c].id \in Envelopes
      <4> SUFFICES ASSUME NEW c \in Consumers, consumer[c] \in {"dead_insert", "dead_update"}
                   PROVE  held[c].id # e /\ held[c].id \in Envelopes
        OBVIOUS
      <4>1. c \in Busy
        BY DEF Busy, Idle
      <4>2. QED
        BY <3>1, <4>1, HeldRecord
    <3>5. \A d \in Envelopes : (InTransit(d)' <=> InTransit(d)) /\ (Inserted(d)' <=> Inserted(d))
      BY <3>1 DEF InTransit, InQueue, InHand, Busy, Inserted
    <3>6. QED
      BY <1>0, <3>1, <3>2, <3>3, <3>4, <3>5 DEF Records
  <2>3. CASE EnqueuePut(e)
    <3>1. /\ UNCHANGED <<consumer, held, status, dlq>> /\ producer[e] = "putting"
          /\ producer' = [producer EXCEPT ![e] = "accepted"]
          /\ queue' = Append(queue, [id |-> e, attempt |-> 1])
      BY <2>3 DEF EnqueuePut, Put, work, store
    <3>2. [id |-> e, attempt |-> 1] \in Item
      BY WorkerAssumption DEF Item
    <3>3. \A i \in 1..Len(queue') : queue'[i].id = e \/ (i \in 1..Len(queue) /\ queue'[i] = queue[i])
      BY <1>0, <3>1, <3>2, QueueFacts
    <3>4. dlq[e] # 1
      BY <3>1 DEF Records
    <3>5. \A d \in Envelopes : dlq[d] = 1 /\ InQueue(d)' => InQueue(d)
      BY <3>3, <3>4 DEF InQueue
    <3>6. QED
      BY <1>0, <1>1, <3>1, <3>5
  <2>4. QED
    BY <1>4, <2>1, <2>2, <2>3 DEF Producer
<1>5. CASE StopPutNone
  <2>1. UNCHANGED <<consumer, held, status, dlq, producer>> /\ queue' = Append(queue, Sentinel)
    BY <1>5 DEF StopPutNone, Put, work, store
  <2>2. \A i \in 1..Len(queue') : queue'[i] = Sentinel \/ (i \in 1..Len(queue) /\ queue'[i] = queue[i])
    BY <1>0, <2>1, QueueFacts
  <2>3. \A d \in Envelopes : InQueue(d)' => InQueue(d)
    BY <2>2, WorkerAssumption DEF InQueue, Sentinel
  <2>4. QED
    BY <1>1, <2>1, <2>3
<1>6. CASE \/ StartCall \/ Flush \/ (\E graceful \in BOOLEAN : StopCall(graceful))
           \/ StopJoin \/ StopDrained \/ StopTimesOut \/ StopGathered \/ StopClosed
  BY <1>2, <1>6 DEF StartCall, Flush, StopCall, StopJoin, StopDrained, StopTimesOut, StopGathered,
                    StopClosed, work, store, chan
<1>7. CASE UNCHANGED vars
  BY <1>2, <1>7 DEF vars, work, store, chan
<1>8. QED
  BY <1>3, <1>4, <1>5, <1>6, <1>7 DEF Next, Stopping

(* At most one dead-letter record per event, however dead_letter() is cut   *)
(* short between its insert and its update, and none for a processed one.  *)
THEOREM DeadLetteredOnceHolds == Spec => []DeadLetteredOnce
<1>1. Init => Records
  BY DEF Init, Records, InTransit, InQueue, InHand, Busy, Idle
<1>2. IInv /\ Records /\ [Next]_vars => Records'
  BY RecordsConsumer, RecordsOthers
<1>3. IInv /\ Records => DeadLetteredOnce
  BY DEF IInv, Tracking, Records, Inserted, DeadLetteredOnce, Settled, Final
<1>4. QED
  BY <1>1, <1>2, <1>3, InvariantIInv, PTL DEF Spec

=============================================================================
