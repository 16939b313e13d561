------------------------ MODULE BulkExecutor_proofs ------------------------
(***************************************************************************)
(* Safety of BulkExecutor.map for any number of tasks, accounts and        *)
(* workers, any limits, and any changes of the pool under it.              *)
(*                                                                         *)
(* The argument: what a worker holds is tied to the queue (Loop) and to    *)
(* the results (Ledger); an account in use was not tried before, so none   *)
(* that refused the task is called again; and while an account is barred   *)
(* nobody picks it, so the workers that wait for it only become fewer      *)
(* (Lateness).                                                             *)
(***************************************************************************)
EXTENDS BulkExecutor, FiniteSetTheorems, TLAPS

Pcs == Running \cup {"idle", "report", "ended"}
WorkerRecords == [pc : Pcs, task : 0..Total, tried : SUBSET Accounts,
                  attempts : 0..MaxAttempts, waits : 0..MaxParkWaits,
                  account : Accounts \cup {NoAccount}, refused : SUBSET Accounts]

OtherTypes ==
  /\ low \in SUBSET Accounts /\ late \in [Accounts -> Nat] /\ changes \in Nat

\* What the locals of _run_one say of each other and of the queue.
LoopOf(w) ==
  LET r == worker[w]
  IN /\ r.refused \subseteq r.tried
     /\ r.pc \in {"pick", "sleep"} => r.attempts < MaxAttempts
     /\ r.pc \in {"picked", "call"} => r.account \in Accounts \ r.tried
     /\ r.pc = "idle" => r.task = 0
     /\ r.pc # "idle" => r.task \in 1..taken /\ w <= slots

Loop == \A w \in Workers : LoopOf(w)

\* A task in hand has no result, and one without a result is queued, not yet
\* put, in hand, or was the end of its worker.
Owed(t) == \E w \in Workers : worker[w].task = t /\ worker[w].pc \notin {"idle", "report"}

Ledger ==
  /\ \A t \in Tasks : t > taken => results[t] = "none"
  /\ \A t \in Tasks : results[t] = "none" => t > taken \/ Owed(t)
  /\ \A w \in Workers : worker[w].pc \in Running => results[worker[w].task] = "none"
  /\ \A t \in Tasks : dead[t] = IF results[t] = "failed" THEN 1 ELSE 0
  /\ \A v, w \in Workers : v # w /\ worker[v].pc # "idle" => worker[v].task # worker[w].task
  /\ returned => taken = Total /\ \A w \in Workers : worker[w].pc \in {"idle", "ended"}

\* The workers that wait for the semaphore of an account.
Waiting(a) == {w \in Workers : worker[w].pc = "picked" /\ worker[w].account = a}

Lateness ==
  \A a \in Accounts : IF a \in barred THEN late[a] + Cardinality(Waiting(a)) <= slots
                                      ELSE late[a] = 0

IInv == TypeOK /\ OtherTypes /\ Loop /\ Ledger /\ Lateness

-----------------------------------------------------------------------------
(* The workers are numbered from one, and there is at least one. *)
LEMMA WorkerCount ==
  /\ Cardinality(Accounts) \in Nat \ {0}
  /\ Cardinality(Accounts) * PerAccount \in Nat \ {0}
  /\ Workers \in SUBSET Nat /\ IsFiniteSet(Workers)
  /\ Cardinality(Workers) = Cardinality(Accounts) * PerAccount
<1>1. Cardinality(Accounts) \in Nat \ {0}
  BY ExecutorAssumption, FS_CardinalityType, FS_EmptySet
<1>2. Cardinality(Accounts) * PerAccount \in Nat \ {0}
  BY <1>1, ExecutorAssumption
<1>3. /\ IsFiniteSet(Workers)
      /\ Cardinality(Workers) = Cardinality(Accounts) * PerAccount
  BY <1>2, FS_Interval DEF Workers
<1>4. QED
  BY <1>1, <1>2, <1>3 DEF Workers

(* Fewer clients need no more slots. *)
LEMMA SlotBound ==
  ASSUME NEW C \in SUBSET Accounts
  PROVE  /\ Cardinality(C) \in Nat
         /\ C # {} => Cardinality(C) * PerAccount \in 1..(Cardinality(Accounts) * PerAccount)
<1>1. Cardinality(C) \in Nat /\ Cardinality(C) <= Cardinality(Accounts) /\ IsFiniteSet(C)
  BY ExecutorAssumption, FS_Subset, FS_CardinalityType
<1>2. C # {} => Cardinality(C) >= 1
  BY <1>1, FS_EmptySet
<1>3. \A i, j, k \in Nat : i <= j => i * k <= j * k
  OBVIOUS
<1>4. \A i, k \in Nat \ {0} : i * k \in Nat \ {0}
  OBVIOUS
<1>5. QED
  BY <1>1, <1>2, <1>3, <1>4, WorkerCount, ExecutorAssumption

(* The workers that wait for an account are among those map() has started. *)
LEMMA WaitingFacts ==
  ASSUME TypeOK, Loop, NEW a \in Accounts
  PROVE  /\ IsFiniteSet(Waiting(a)) /\ Cardinality(Waiting(a)) \in Nat
         /\ Cardinality(Waiting(a)) <= slots
<1>1. Waiting(a) \in SUBSET (1..slots) /\ slots \in Nat
  BY WorkerCount DEF Waiting, Loop, LoopOf, TypeOK, Workers
<1>2. IsFiniteSet(1..slots) /\ Cardinality(1..slots) = slots
  BY <1>1, FS_Interval
<1>3. QED
  BY <1>1, <1>2, FS_Subset, FS_CardinalityType

(* While an account is barred the calls on it and the workers that wait    *)
(* for it never outnumber the workers, if none is picked and no history is *)
(* forgotten; a newly barred one starts with no late call.                 *)
LEMMA LatenessKept ==
  ASSUME IInv, TypeOK', Loop', slots' = slots, late' = late, barred \subseteq barred',
         \A a \in barred : Waiting(a)' \subseteq Waiting(a)
  PROVE  Lateness'
<1> SUFFICES ASSUME NEW a \in Accounts
             PROVE  IF a \in barred' THEN late[a] + Cardinality(Waiting(a)') <= slots
                                     ELSE late[a] = 0
  BY DEF Lateness
<1>1. slots \in Nat /\ late[a] \in Nat
  BY WorkerCount DEF IInv, TypeOK, OtherTypes
<1>2. /\ IsFiniteSet(Waiting(a)) /\ Cardinality(Waiting(a)) \in Nat
      /\ Cardinality(Waiting(a)) <= slots
  BY WaitingFacts DEF IInv
<1>3. Cardinality(Waiting(a)') \in Nat /\ Cardinality(Waiting(a)') <= slots
  <2>1. Waiting(a)' \in SUBSET (1..slots)
    <3>1. \A v \in Workers : worker'[v].pc # "idle" => v <= slots
      BY DEF Loop, LoopOf
    <3>2. \A v \in Waiting(a)' : v \in Workers /\ v <= slots
      BY <3>1 DEF Waiting
    <3>3. \A v \in Workers : v \in Nat /\ 1 <= v
      BY WorkerCount DEF Workers
    <3>4. QED
      BY <1>1, <3>2, <3>3
  <2>2. IsFiniteSet(1..slots) /\ Cardinality(1..slots) = slots
    <3>1. 1 \in Int /\ slots \in Int /\ (1 > slots => slots = 0)
      BY <1>1
    <3>2. /\ IsFiniteSet(1..slots)
          /\ Cardinality(1..slots) = IF 1 > slots THEN 0 ELSE slots - 1 + 1
      BY <3>1, FS_Interval
    <3>3. QED
      BY <1>1, <3>1, <3>2
  <2>3. QED
    BY <2>1, <2>2, FS_Subset, FS_CardinalityType
<1>4. CASE a \in barred
  <2>1. Cardinality(Waiting(a)') <= Cardinality(Waiting(a))
    BY <1>2, <1>4, FS_Subset
  <2>2. late[a] + Cardinality(Waiting(a)) <= slots /\ a \in barred'
    BY <1>4 DEF IInv, Lateness
  <2>3. QED
    BY <1>1, <1>2, <1>3, <2>1, <2>2
<1>5. CASE a \notin barred
  BY <1>1, <1>3, <1>5 DEF IInv, Lateness
<1>6. QED
  BY <1>4, <1>5

(* The record of a worker without a task, of one that has just got its     *)
(* task, and of one that has left _run_one.                                *)
LEMMA FreshRecords ==
  /\ Idle \in WorkerRecords /\ Idle.pc = "idle" /\ Idle.task = 0 /\ Idle.refused = {}
  /\ \A t \in Tasks, pc \in {"pick", "report", "ended"} :
       LET r == [Idle EXCEPT !.pc = pc, !.task = t]
       IN /\ r \in WorkerRecords /\ r.pc = pc /\ r.task = t
          /\ r.tried = {} /\ r.refused = {} /\ r.attempts = 0
<1>1. Idle \in WorkerRecords
  BY ExecutorAssumption DEF Idle, WorkerRecords, Pcs, Running
<1>2. ASSUME NEW t \in Tasks, NEW pc \in {"pick", "report", "ended"}
      PROVE  [Idle EXCEPT !.pc = pc, !.task = t] \in WorkerRecords
  <2>1. t \in 0..Total
    BY <1>2, ExecutorAssumption DEF Tasks
  <2>2. QED
    BY <1>1, <2>1 DEF WorkerRecords, Pcs, Running
<1>3. QED
  BY <1>1, <1>2 DEF Idle

(* The task of a worker that is not idle is one that was taken. *)
LEMMA TaskTaken ==
  ASSUME IInv, NEW w \in Workers, worker[w].pc # "idle"
  PROVE  worker[w].task \in Tasks /\ worker[w].task <= taken /\ worker[w].task # 0
<1>1. taken \in 0..Total
  BY ExecutorAssumption DEF IInv, TypeOK
<1>2. QED
  BY <1>1, ExecutorAssumption DEF IInv, Loop, LoopOf, Tasks

(* The result and the dead letter of a task keep the queue and the results *)
(* in step.                                                                *)
LEMMA FinishKeeps ==
  ASSUME IInv, NEW w \in Workers, worker[w].pc \in Running,
         NEW result \in {"ok", "failed"}, Finish(w, result), UNCHANGED queue
  PROVE  /\ worker' \in [Workers -> WorkerRecords]
         /\ results' \in [Tasks -> {"none", "ok", "failed"}] /\ dead' \in [Tasks -> Nat]
         /\ returned' \in BOOLEAN
         /\ Loop' /\ Ledger'
<1> DEFINE t == worker[w].task
           r == [Idle EXCEPT !.pc = "report", !.task = t]
<1>1. /\ worker \in [Workers -> WorkerRecords] /\ taken \in 0..Total
      /\ results \in [Tasks -> {"none", "ok", "failed"}] /\ dead \in [Tasks -> Nat]
      /\ returned \in BOOLEAN
  BY ExecutorAssumption DEF IInv, TypeOK, WorkerRecords, Pcs
<1>2. t \in Tasks /\ t <= taken /\ t # 0 /\ worker[w].pc \notin {"idle", "ended"}
  BY TaskTaken DEF Running
<1>3. results[t] = "none" /\ dead[t] = 0 /\ ~returned
  BY <1>1, <1>2 DEF IInv, Ledger
<1>4. r \in WorkerRecords /\ r.pc = "report" /\ r.task = t /\ r.refused = {}
  BY <1>2, FreshRecords
<1>5. /\ worker' = [worker EXCEPT ![w] = r] /\ taken' = taken /\ slots' = slots
      /\ returned' = returned /\ results' = [results EXCEPT ![t] = result]
      /\ dead' = [dead EXCEPT ![t] = IF result = "ok" THEN @ ELSE @ + 1]
  BY DEF Finish, Leave, queue
<1>6. \A v \in Workers : worker'[v] = IF v = w THEN r ELSE worker[v]
  BY <1>1, <1>5
<1> HIDE DEF r
<1>7. Loop'
  <2> SUFFICES ASSUME NEW v \in Workers PROVE LoopOf(v)'
    BY DEF Loop
  <2>1. LoopOf(v) /\ LoopOf(w)
    BY DEF IInv, Loop
  <2>2. QED
    BY <1>2, <1>4, <1>5, <1>6, <2>1 DEF LoopOf
<1>8. \A v \in Workers : worker'[v].task = worker[v].task /\ (worker'[v].pc = "idle" <=> worker[v].pc = "idle")
  BY <1>2, <1>4, <1>6
<1>9. \A v \in Workers \ {w} : worker[v].task # t
  BY <1>2 DEF IInv, Ledger
<1>10. \A u \in Tasks \ {t} : results'[u] = results[u] /\ dead'[u] = dead[u]
  BY <1>1, <1>5
<1>11. results'[t] = result /\ dead'[t] = IF result = "failed" THEN 1 ELSE 0
  BY <1>1, <1>2, <1>3, <1>5
<1>12. Ledger'
  <2>1. ASSUME NEW u \in Tasks
        PROVE  /\ u > taken' => results'[u] = "none"
               /\ results'[u] = "none" => u > taken' \/ Owed(u)'
               /\ dead'[u] = IF results'[u] = "failed" THEN 1 ELSE 0
    <3>1. CASE u = t
      BY <1>1, <1>2, <1>5, <1>11, <3>1, ExecutorAssumption DEF Tasks
    <3>2. CASE u # t
      <4>1. Owed(u) => Owed(u)'
        BY <1>6, <3>2 DEF Owed
      <4>2. QED
        BY <1>5, <1>10, <3>2, <4>1 DEF IInv, Ledger
    <3>3. QED
      BY <3>1, <3>2
  <2>2. ASSUME NEW v \in Workers, worker'[v].pc \in Running PROVE results'[worker'[v].task] = "none"
    <3>1. v # w /\ worker'[v] = worker[v] /\ worker[v].pc # "idle"
      BY <1>4, <1>6, <2>2 DEF Running
    <3>2. worker[v].task \in Tasks \ {t}
      BY <1>9, <3>1, TaskTaken
    <3>3. QED
      BY <1>10, <2>2, <3>1, <3>2 DEF IInv, Ledger
  <2>3. \A v, x \in Workers : v # x /\ worker'[v].pc # "idle" => worker'[v].task # worker'[x].task
    BY <1>8 DEF IInv, Ledger
  <2>4. QED
    BY <1>3, <1>5, <2>1, <2>2, <2>3 DEF Ledger
<1>13. QED
  BY <1>1, <1>2, <1>4, <1>5, <1>7, <1>12

(* A worker that goes on with its task, or ends with it, changes nothing   *)
(* else of the ledger.                                                     *)
LEMMA TaskKept ==
  ASSUME IInv, NEW w \in Workers, NEW r \in WorkerRecords,
         worker[w].pc \in Running \cup {"report"}, r.task = worker[w].task,
         r.pc = "ended" \/ (r.pc \in Running /\ worker[w].pc \in Running),
         worker' = [worker EXCEPT ![w] = r], UNCHANGED <<queue, outcome>>,
         r.refused \subseteq r.tried,
         r.pc \in {"pick", "sleep"} => r.attempts < MaxAttempts,
         r.pc \in {"picked", "call"} => r.account \in Accounts \ r.tried
  PROVE  worker' \in [Workers -> WorkerRecords] /\ Loop' /\ Ledger'
<1>1. worker \in [Workers -> WorkerRecords] /\ taken \in 0..Total
  BY ExecutorAssumption DEF IInv, TypeOK, WorkerRecords, Pcs
<1>2. \A v \in Workers : worker'[v] = IF v = w THEN r ELSE worker[v]
  BY <1>1
<1>3. /\ taken' = taken /\ slots' = slots /\ results' = results /\ dead' = dead
      /\ returned' = returned
  BY DEF queue, outcome
<1>4. worker[w].pc \notin {"idle", "ended"} /\ r.pc \notin {"idle", "report"}
  BY DEF Running
<1>5. Loop'
  <2> SUFFICES ASSUME NEW v \in Workers PROVE LoopOf(v)'
    BY DEF Loop
  <2>1. LoopOf(v) /\ LoopOf(w)
    BY DEF IInv, Loop
  <2>2. QED
    BY <1>2, <1>3, <1>4, <2>1 DEF LoopOf
<1>6. \A v \in Workers : worker'[v].task = worker[v].task /\ (worker'[v].pc = "idle" <=> worker[v].pc = "idle")
  BY <1>2, <1>4
<1>7. \A t : Owed(t) => Owed(t)'
  BY <1>2, <1>4 DEF Owed
<1>8. \A v \in Workers : worker'[v].pc \in Running => worker[v].pc \in Running
  BY <1>2 DEF Running
<1>9. ~returned
  BY <1>4 DEF IInv, Ledger
<1>10. Ledger'
  BY <1>3, <1>6, <1>7, <1>8, <1>9 DEF Ledger, IInv
<1>11. QED
  BY <1>1, <1>5, <1>10

\* The initial states satisfy the invariant.
LEMMA InitIInv == Init => IInv
<1> SUFFICES ASSUME Init PROVE IInv
  OBVIOUS
<1>1. TypeOK /\ OtherTypes
  <2>1. worker \in [Workers -> WorkerRecords]
    BY FreshRecords DEF Init
  <2>2. slots \in 0..Cardinality(Workers) /\ put \in 0..Total /\ taken \in 0..put
    BY WorkerCount, ExecutorAssumption DEF Init
  <2>3. pin \in [Keys -> Accounts \cup {NoAccount}]
    BY DEF Init
  <2>4. QED
    BY <2>1, <2>2, <2>3, ExecutorAssumption DEF Init, TypeOK, OtherTypes, WorkerRecords, Pcs
<1>2. Loop
  BY DEF Init, Loop, LoopOf, Idle
<1>3. Ledger
  <2>1. \A w \in Workers : worker[w].pc = "idle" /\ worker[w].task = 0
    BY DEF Init, Idle
  <2>2. \A t \in Tasks : t > taken
    BY ExecutorAssumption DEF Init, Tasks
  <2>3. QED
    BY <2>1, <2>2 DEF Init, Ledger, Running
<1>4. Lateness
  BY DEF Init, Lateness
<1>5. QED
  BY <1>1, <1>2, <1>3, <1>4 DEF IInv

(* map() starts its workers: nobody is busy before. *)
LEMMA MapStep == IInv /\ Map => IInv'
<1> SUFFICES ASSUME IInv, Map PROVE IInv'
  OBVIOUS
<1>1. slots' \in 1..Cardinality(Workers)
  BY WorkerCount, SlotBound DEF Map, IInv, TypeOK
<1>2. slots = 0 /\ \A w \in Workers : worker[w].pc = "idle"
  BY WorkerCount DEF Map, IInv, Loop, LoopOf, TypeOK, Workers
<1>3. TypeOK' /\ OtherTypes'
  BY <1>1, WorkerCount DEF IInv, TypeOK, OtherTypes, Map, pool, outcome, history, Tasks
<1>4. Loop'
  BY <1>2 DEF IInv, Loop, LoopOf, Map
<1>5. Ledger'
  BY DEF IInv, Ledger, Owed, Map, outcome
<1>6. Lateness'
  <2> SUFFICES ASSUME NEW a \in Accounts
               PROVE  IF a \in barred THEN late[a] + Cardinality(Waiting(a)) <= slots'
                                      ELSE late[a] = 0
    BY DEF Lateness, Map, pool, history, Waiting
  <2>1. late[a] \in Nat /\ Cardinality(Waiting(a)) \in Nat
    BY WaitingFacts DEF IInv, OtherTypes
  <2>2. QED
    BY <1>1, <1>2, <2>1, WorkerCount DEF IInv, Lateness
<1>7. QED
  BY <1>3, <1>4, <1>5, <1>6 DEF IInv

\* map() putting a task or returning, and a worker taking a task, keep the invariant.
LEMMA QueueSteps ==
  ASSUME IInv, Put \/ Return \/ \E w \in Workers : Get(w)
  PROVE  IInv'
<1>2. CASE Put
  <2>1. TypeOK' /\ OtherTypes'
    BY <1>2, ExecutorAssumption DEF IInv, TypeOK, OtherTypes, Put, pool, outcome, history, Tasks
  <2>2. Loop' /\ Ledger'
    BY <1>2 DEF IInv, Loop, LoopOf, Ledger, Owed, Put, outcome
  <2>3. Lateness'
    BY <1>2 DEF IInv, Lateness, Waiting, Put, pool, history
  <2>4. QED
    BY <2>1, <2>2, <2>3 DEF IInv
<1>3. CASE Return
  <2>1. TypeOK' /\ OtherTypes'
    BY <1>3 DEF IInv, TypeOK, OtherTypes, Return, pool, queue, history, Tasks
  <2>2. Loop' /\ Ledger'
    BY <1>3 DEF IInv, Loop, LoopOf, Ledger, Owed, Return, queue
  <2>3. Lateness'
    BY <1>3 DEF IInv, Lateness, Waiting, Return, pool, queue, history
  <2>4. QED
    BY <2>1, <2>2, <2>3 DEF IInv
<1>4. ASSUME NEW w \in Workers, Get(w) PROVE IInv'
  <2> DEFINE r == [Idle EXCEPT !.pc = "pick", !.task = taken + 1]
  <2>1. /\ worker \in [Workers -> WorkerRecords] /\ taken \in Nat /\ taken + 1 \in Tasks
        /\ taken' = taken + 1 /\ taken' \in 0..put'
    <3>1. worker \in [Workers -> WorkerRecords]
      BY DEF IInv, TypeOK, WorkerRecords, Pcs
    <3>2. put \in 0..Total /\ taken \in 0..put
      BY DEF IInv, TypeOK
    <3>3. taken < put /\ taken' = taken + 1 /\ put' = put
      BY <1>4 DEF Get
    <3>4. QED
      BY <3>1, <3>2, <3>3, ExecutorAssumption DEF Tasks
  <2>2. r \in WorkerRecords /\ r.pc = "pick" /\ r.task = taken + 1 /\ r.tried = {} /\ r.refused = {}
        /\ r.attempts = 0
    BY <2>1, FreshRecords
  <2>3. /\ worker' \in [Workers -> WorkerRecords]
        /\ \A v \in Workers : worker'[v] = IF v = w THEN r ELSE worker[v]
    BY <1>4, <2>1, <2>2 DEF Get
  <2>4. /\ w <= slots /\ worker[w].pc = "idle" /\ slots' = slots /\ put' = put
        /\ UNCHANGED <<low, clients, barred, expired, pin, results, dead, returned, late, changes>>
    BY <1>4 DEF Get, pool, outcome, history
  <2>5. TypeOK' /\ OtherTypes'
    <3>1. worker' \in [Workers -> WorkerRecords] /\ taken' \in 0..put'
      BY <2>1, <2>3
    <3>2. QED
      BY <2>4, <3>1 DEF IInv, TypeOK, OtherTypes, WorkerRecords, Pcs
  <2>6. Loop'
    <3> SUFFICES ASSUME NEW v \in Workers PROVE LoopOf(v)'
      BY DEF Loop
    <3>1. LoopOf(v)
      BY DEF IInv, Loop
    <3>2. QED
      <4>1. CASE v = w
        <5>1. worker'[v] = r /\ taken + 1 \in 1..taken' /\ v <= slots'
          BY <2>1, <2>3, <2>4, <4>1
        <5>2. QED
          BY <2>2, <5>1, ExecutorAssumption DEF LoopOf
      <4>2. CASE v # w
        BY <2>1, <2>3, <2>4, <3>1, <4>2 DEF LoopOf
      <4>3. QED
        BY <4>1, <4>2
  <2>7. Ledger'
    <3>1. \A v \in Workers : worker[v].task \in 0..taken /\ (worker[v].pc # "idle" => worker[v].task # 0)
      <4> SUFFICES ASSUME NEW v \in Workers
                   PROVE  worker[v].task \in 0..taken /\ (worker[v].pc # "idle" => worker[v].task # 0)
        OBVIOUS
      <4>1. LoopOf(v) /\ 0 \in 0..taken /\ (1..taken) \subseteq 0..taken
        BY <2>1 DEF IInv, Loop
      <4>2. QED
        BY <4>1 DEF LoopOf
    <3>2. worker[w].task = 0
      BY <2>4 DEF IInv, Loop, LoopOf
    <3>3. \A t \in Tasks : Owed(t) \/ t = taken + 1 => Owed(t)'
      BY <2>2, <2>3, <2>4 DEF Owed
    <3>4. ASSUME NEW t \in Tasks
          PROVE  /\ t > taken' => results'[t] = "none"
                 /\ results'[t] = "none" => t > taken' \/ Owed(t)'
      <4>1. t > taken <=> t > taken + 1 \/ t = taken + 1
        BY <2>1, ExecutorAssumption DEF Tasks
      <4>2. QED
        BY <2>1, <2>4, <3>3, <4>1 DEF IInv, Ledger
    <3>5. ASSUME NEW v \in Workers, worker'[v].pc \in Running PROVE results'[worker'[v].task] = "none"
      <4>1. results[taken + 1] = "none"
        BY <2>1 DEF IInv, Ledger
      <4>2. CASE v = w
        BY <2>2, <2>3, <2>4, <4>1, <4>2
      <4>3. CASE v # w
        <5>1. worker'[v] = worker[v]
          BY <2>3, <4>3
        <5>2. QED
          BY <2>4, <3>5, <5>1 DEF IInv, Ledger
      <4>4. QED
        BY <4>2, <4>3
    <3>6. \A v, x \in Workers : v # x /\ worker'[v].pc # "idle" => worker'[v].task # worker'[x].task
      <4>1. \A v \in Workers : worker[v].task # taken + 1
        BY <2>1, <3>1
      <4>2. \A v, x \in Workers : v # x /\ worker[v].pc # "idle" => worker[v].task # worker[x].task
        BY DEF IInv, Ledger
      <4>3. \A v \in Workers : v # w => worker'[v] = worker[v]
        BY <2>3
      <4>4. worker'[w].task = taken + 1
        BY <2>2, <2>3
      <4>5. QED
        BY <4>1, <4>2, <4>3, <4>4
    <3>7. ~returned
      <4>1. taken < put /\ put <= Total /\ put \in Nat
        BY <1>4, ExecutorAssumption DEF IInv, Get, TypeOK
      <4>2. QED
        BY <2>1, <4>1, ExecutorAssumption DEF IInv, Ledger
    <3>8. QED
      BY <2>4, <3>4, <3>5, <3>6, <3>7 DEF IInv, Ledger
  <2>8. \A a \in barred : Waiting(a)' \subseteq Waiting(a)
    BY <2>2, <2>3 DEF Waiting
  <2>9. Lateness'
    BY <2>4, <2>5, <2>6, <2>8, LatenessKept
  <2>10. QED
    BY <2>5, <2>6, <2>7, <2>9 DEF IInv
<1>5. QED
  BY <1>2, <1>3, <1>4

(* A worker that finishes leaves the waiting workers alone, unless it was one. *)
LEMMA FinishWaiting ==
  ASSUME IInv, NEW w \in Workers, worker[w].pc # "picked",
         NEW result, Finish(w, result), NEW a \in Accounts
  PROVE  Waiting(a)' \subseteq Waiting(a)
<1>1. \A v \in Workers : worker'[v] = IF v = w THEN [Idle EXCEPT !.pc = "report", !.task = worker[w].task]
                                      ELSE worker[v]
  BY DEF Finish, Leave, IInv, TypeOK
<1>2. [Idle EXCEPT !.pc = "report", !.task = worker[w].task].pc = "report"
  BY DEF Idle
<1>3. QED
  BY <1>1, <1>2 DEF Waiting

(* Steps that end a task and bar at most more accounts. *)
LEMMA FinishSteps ==
  ASSUME IInv, NEW w \in Workers, worker[w].pc \in {"pick", "call"},
         NEW result \in {"ok", "failed"}, Finish(w, result),
         UNCHANGED <<low, clients, queue, late>>,
         barred \subseteq barred', barred' \in SUBSET Accounts, expired' \in SUBSET Accounts,
         pin' \in [Keys -> Accounts \cup {NoAccount}], changes' \in Nat
  PROVE  IInv'
<1>1. /\ worker' \in [Workers -> WorkerRecords]
      /\ results' \in [Tasks -> {"none", "ok", "failed"}] /\ dead' \in [Tasks -> Nat]
      /\ returned' \in BOOLEAN /\ Loop' /\ Ledger'
  BY FinishKeeps DEF Running
<1>2. TypeOK' /\ OtherTypes'
  BY <1>1 DEF IInv, TypeOK, OtherTypes, WorkerRecords, Pcs, queue
<1>3. \A a \in barred : Waiting(a)' \subseteq Waiting(a)
  BY FinishWaiting DEF IInv, TypeOK
<1>4. Lateness'
  BY <1>1, <1>2, <1>3, LatenessKept DEF queue
<1>5. QED
  BY <1>1, <1>2, <1>4 DEF IInv

(* Steps of a task that goes on and bars at most more accounts. *)
LEMMA TaskSteps ==
  ASSUME IInv, NEW w \in Workers, NEW r \in WorkerRecords,
         worker[w].pc \in Running \cup {"report"}, r.task = worker[w].task,
         r.pc = "ended" \/ (r.pc \in Running /\ worker[w].pc \in Running),
         worker' = [worker EXCEPT ![w] = r], UNCHANGED <<queue, outcome, low, clients, late>>,
         r.refused \subseteq r.tried,
         r.pc \in {"pick", "sleep"} => r.attempts < MaxAttempts,
         r.pc \in {"picked", "call"} => r.account \in Accounts \ r.tried,
         r.pc = "picked" => r.account \notin barred,
         barred \subseteq barred', barred' \in SUBSET Accounts, expired' \in SUBSET Accounts,
         pin' \in [Keys -> Accounts \cup {NoAccount}], changes' \in Nat
  PROVE  IInv'
<1>1. worker' \in [Workers -> WorkerRecords] /\ Loop' /\ Ledger'
  BY TaskKept
<1>2. TypeOK' /\ OtherTypes'
  BY <1>1 DEF IInv, TypeOK, OtherTypes, WorkerRecords, Pcs, queue, outcome
<1>3. \A v \in Workers : worker'[v] = IF v = w THEN r ELSE worker[v]
  BY DEF IInv, TypeOK
<1>4. \A a \in barred : Waiting(a)' \subseteq Waiting(a)
  BY <1>3 DEF Waiting
<1>5. Lateness'
  BY <1>1, <1>2, <1>4, LatenessKept DEF queue
<1>6. QED
  BY <1>1, <1>2, <1>5 DEF IInv

\* What the invariant says of one worker.
LEMMA WorkerTyped ==
  ASSUME IInv, NEW w \in Workers
  PROVE  /\ worker \in [Workers -> WorkerRecords] /\ worker[w] \in WorkerRecords
         /\ LoopOf(w)
BY DEF IInv, TypeOK, WorkerRecords, Pcs, Loop

(* pick() answers with an account that is neither barred nor tried. *)
LEMMA PickStep ==
  ASSUME IInv, NEW w \in Workers, Pick(w)
  PROVE  IInv'
<1> DEFINE k == KeyOf[worker[w].task]
           Chosen(a) == [worker[w] EXCEPT !.pc = "picked", !.account = a, !.attempts = @ + 1]
<1>1. /\ worker[w] \in WorkerRecords /\ LoopOf(w) /\ worker[w].pc = "pick"
      /\ worker[w].attempts + 1 \in 0..MaxAttempts
  BY WorkerTyped, ExecutorAssumption DEF Pick, LoopOf, WorkerRecords
<1>2. k \in Keys \cup {NoKey}
  <2>1. worker[w].task \in Tasks
    BY <1>1, ExecutorAssumption DEF LoopOf, Tasks, IInv, TypeOK
  <2>2. QED
    BY <2>1, ExecutorAssumption
<1>3. PICK a \in ((clients \ low) \ barred) \ worker[w].tried :
        /\ Took(w, a)
        /\ pin' = pin \/ (k # NoKey /\ pin' = [pin EXCEPT ![k] = a])
  BY DEF Pick, PinHolds, Candidates, Select
<1>4. a \in Accounts
  BY DEF IInv, TypeOK
<1>5. /\ Chosen(a) \in WorkerRecords /\ Chosen(a).pc = "picked" /\ Chosen(a).account = a
      /\ Chosen(a).task = worker[w].task /\ Chosen(a).refused = worker[w].refused
      /\ Chosen(a).tried = worker[w].tried
  BY <1>1, <1>4 DEF WorkerRecords, Pcs, Running
<1>6. worker' = [worker EXCEPT ![w] = Chosen(a)]
  BY <1>3, WorkerTyped DEF Took
<1>7. pin' \in [Keys -> Accounts \cup {NoAccount}]
  BY <1>2, <1>3, <1>4 DEF IInv, TypeOK
<1>8. /\ UNCHANGED <<queue, outcome, low, clients, late, barred, expired, changes>>
      /\ barred' \in SUBSET Accounts /\ expired' \in SUBSET Accounts /\ changes' \in Nat
  BY DEF Pick, IInv, TypeOK, OtherTypes, history
<1>9. Chosen(a).refused \subseteq Chosen(a).tried
  BY <1>1, <1>5 DEF LoopOf
<1> HIDE DEF Chosen
<1>10. QED
  BY <1>1, <1>3, <1>4, <1>5, <1>6, <1>7, <1>8, <1>9, TaskSteps DEF Running

(* No account: another wait, or the end of the task. *)
LEMMA ParkSteps ==
  ASSUME IInv, NEW w \in Workers, NoneAvailable(w) \/ NoClients(w) \/ Wake(w)
  PROVE  IInv'
<1>1. /\ worker[w] \in WorkerRecords /\ LoopOf(w)
      /\ UNCHANGED <<low, clients, pin, queue, late, barred, expired, changes>>
      /\ barred' \in SUBSET Accounts /\ expired' \in SUBSET Accounts /\ changes' \in Nat
      /\ pin' \in [Keys -> Accounts \cup {NoAccount}]
  BY WorkerTyped DEF NoneAvailable, NoClients, Wake, pool, history, IInv, TypeOK, OtherTypes
<1>2. CASE Finish(w, "failed") /\ worker[w].pc = "pick"
  BY <1>1, <1>2, FinishSteps
<1>3. CASE /\ worker[w].pc = "pick" /\ worker[w].waits < MaxParkWaits /\ UNCHANGED outcome
           /\ worker' = [worker EXCEPT ![w].pc = "sleep", ![w].waits = @ + 1]
  <2> DEFINE r == [worker[w] EXCEPT !.pc = "sleep", !.waits = @ + 1]
  <2>1. worker[w].waits + 1 \in 0..MaxParkWaits
    BY <1>1, <1>3, ExecutorAssumption DEF WorkerRecords
  <2>2. /\ r \in WorkerRecords /\ r.pc = "sleep" /\ r.task = worker[w].task
        /\ r.refused = worker[w].refused /\ r.tried = worker[w].tried
        /\ r.attempts = worker[w].attempts
    BY <1>1, <2>1 DEF WorkerRecords, Pcs, Running
  <2>3. worker' = [worker EXCEPT ![w] = r]
    BY <1>3, WorkerTyped
  <2>4. r.refused \subseteq r.tried /\ r.attempts < MaxAttempts
    BY <1>1, <1>3, <2>2 DEF LoopOf
  <2> HIDE DEF r
  <2>5. QED
    BY <1>1, <1>3, <2>2, <2>3, <2>4, TaskSteps DEF Running
<1>4. CASE Wake(w)
  <2> DEFINE r == [worker[w] EXCEPT !.pc = "pick"]
  <2>1. /\ r \in WorkerRecords /\ r.pc = "pick" /\ r.task = worker[w].task
        /\ r.refused = worker[w].refused /\ r.tried = worker[w].tried
        /\ r.attempts = worker[w].attempts
    BY <1>1 DEF WorkerRecords, Pcs, Running
  <2>2. worker' = [worker EXCEPT ![w] = r] /\ UNCHANGED outcome /\ worker[w].pc = "sleep"
    BY <1>4, WorkerTyped DEF Wake
  <2>3. r.refused \subseteq r.tried /\ r.attempts < MaxAttempts
    BY <1>1, <2>1, <2>2 DEF LoopOf
  <2> HIDE DEF r
  <2>4. QED
    BY <1>1, <2>1, <2>2, <2>3, TaskSteps DEF Running
<1>5. QED
  BY <1>2, <1>3, <1>4 DEF NoneAvailable, NoClients

(* The semaphore is free: one worker waits less, and one call is late if   *)
(* the account has been barred meanwhile.                                  *)
LEMMA StartStep ==
  ASSUME IInv, NEW w \in Workers, Start(w)
  PROVE  IInv'
<1> DEFINE b == worker[w].account
           r == [worker[w] EXCEPT !.pc = "call"]
<1>1. /\ worker[w] \in WorkerRecords /\ LoopOf(w) /\ worker[w].pc = "picked"
      /\ UNCHANGED <<low, clients, pin, queue, outcome, barred, expired, changes>>
      /\ late' = [late EXCEPT ![b] = IF b \in barred THEN @ + 1 ELSE @]
  BY WorkerTyped DEF Start, pool
<1>2. b \in Accounts \ worker[w].tried
  BY <1>1 DEF LoopOf
<1>3. /\ r \in WorkerRecords /\ r.pc = "call" /\ r.task = worker[w].task
      /\ r.refused = worker[w].refused /\ r.tried = worker[w].tried /\ r.account = b
  BY <1>1 DEF WorkerRecords, Pcs, Running
<1>4. worker' = [worker EXCEPT ![w] = r]
  BY WorkerTyped DEF Start
<1>5. r.refused \subseteq r.tried
  BY <1>1, <1>3 DEF LoopOf
<1>6. \A v \in Workers : worker'[v] = IF v = w THEN r ELSE worker[v]
  BY <1>4, WorkerTyped
<1> HIDE DEF r
<1>7. worker' \in [Workers -> WorkerRecords] /\ Loop' /\ Ledger'
  BY <1>1, <1>2, <1>3, <1>4, <1>5, TaskKept DEF Running
<1>8. TypeOK' /\ OtherTypes'
  <2>1. late' \in [Accounts -> Nat]
    BY <1>1, <1>2 DEF IInv, OtherTypes
  <2>2. QED
    BY <1>1, <1>7, <2>1 DEF IInv, TypeOK, OtherTypes, WorkerRecords, Pcs, queue, outcome
<1>9. Lateness'
  <2> SUFFICES ASSUME NEW a \in Accounts
               PROVE  IF a \in barred THEN late'[a] + Cardinality(Waiting(a)') <= slots
                                      ELSE late'[a] = 0
    BY <1>1 DEF Lateness, queue
  <2>1. late[a] \in Nat /\ Cardinality(Waiting(a)) \in Nat /\ IsFiniteSet(Waiting(a))
    BY WaitingFacts DEF IInv, OtherTypes
  <2>2. IF a \in barred THEN late[a] + Cardinality(Waiting(a)) <= slots ELSE late[a] = 0
    BY DEF IInv, Lateness
  <2>3. CASE a = b
    <3>1. Waiting(a)' = Waiting(a) \ {w} /\ w \in Waiting(a)
      BY <1>1, <1>3, <1>6, <2>3 DEF Waiting
    <3>2. Cardinality(Waiting(a)') = Cardinality(Waiting(a)) - 1
      BY <2>1, <3>1, FS_RemoveElement
    <3>3. late'[a] = IF a \in barred THEN late[a] + 1 ELSE late[a]
      BY <1>1, <1>2, <2>3 DEF IInv, OtherTypes
    <3>4. slots \in Nat
      BY WorkerCount DEF IInv, TypeOK
    <3>5. QED
      BY <2>1, <2>2, <3>2, <3>3, <3>4
  <2>4. CASE a # b
    <3>1. Waiting(a)' = Waiting(a)
      BY <1>3, <1>6, <2>4 DEF Waiting
    <3>2. late'[a] = late[a]
      BY <1>1, <1>2, <2>4 DEF IInv, OtherTypes
    <3>3. QED
      BY <2>2, <3>1, <3>2
  <2>5. QED
    BY <2>3, <2>4
<1>10. QED
  BY <1>7, <1>8, <1>9 DEF IInv

(* fn answers: the end of the task, or another attempt without the account *)
(* that has refused it.                                                    *)
LEMMA AgainStep ==
  ASSUME IInv, NEW w \in Workers, worker[w].pc = "call",
         NEW T \in SUBSET Accounts, NEW R \in SUBSET T, Again(w, T, R),
         UNCHANGED <<low, clients, pin, queue, late>>,
         barred \subseteq barred', barred' \in SUBSET Accounts, expired' \in SUBSET Accounts,
         changes' \in Nat
  PROVE  IInv'
<1>1. worker[w] \in WorkerRecords /\ LoopOf(w)
  BY WorkerTyped
<1>2. CASE worker[w].attempts < MaxAttempts
  <2> DEFINE r == [worker[w] EXCEPT !.pc = "pick", !.tried = T, !.account = NoAccount, !.refused = R]
  <2>1. /\ r \in WorkerRecords /\ r.pc = "pick" /\ r.task = worker[w].task
        /\ r.refused = R /\ r.tried = T /\ r.attempts = worker[w].attempts
    BY <1>1 DEF WorkerRecords, Pcs, Running
  <2>2. worker' = [worker EXCEPT ![w] = r] /\ UNCHANGED outcome
    BY <1>2, WorkerTyped DEF Again
  <2>3. pin' \in [Keys -> Accounts \cup {NoAccount}]
    BY DEF IInv, TypeOK
  <2> HIDE DEF r
  <2>4. QED
    BY <1>2, <2>1, <2>2, <2>3, TaskSteps DEF Running
<1>3. CASE ~(worker[w].attempts < MaxAttempts)
  <2>1. pin' \in [Keys -> Accounts \cup {NoAccount}]
    BY DEF IInv, TypeOK
  <2>2. QED
    BY <1>3, <2>1, FinishSteps DEF Again
<1>4. QED
  BY <1>2, <1>3

\* The four outcomes of fn in _run_one keep the invariant.
LEMMA CallSteps ==
  ASSUME IInv, NEW w \in Workers,
         Succeed(w) \/ Fail(w) \/ Transient(w) \/ \E s \in {401, 403, 429} : Refused(w, s)
  PROVE  IInv'
<1>1. /\ worker[w] \in WorkerRecords /\ LoopOf(w) /\ worker[w].pc = "call"
      /\ worker[w].account \in Accounts /\ worker[w].tried \in SUBSET Accounts
      /\ worker[w].refused \in SUBSET worker[w].tried
  BY WorkerTyped DEF Succeed, Fail, Transient, Refused, LoopOf, WorkerRecords
<1>2. CASE Succeed(w) \/ Fail(w)
  <2>1. /\ Finish(w, "ok") \/ Finish(w, "failed")
        /\ UNCHANGED <<low, clients, pin, queue, late, barred, expired, changes>>
    BY <1>2 DEF Succeed, Fail, pool, history
  <2>2. /\ barred' \in SUBSET Accounts /\ expired' \in SUBSET Accounts /\ changes' \in Nat
        /\ pin' \in [Keys -> Accounts \cup {NoAccount}]
    BY <2>1 DEF IInv, TypeOK, OtherTypes
  <2>3. QED
    BY <1>1, <2>1, <2>2, FinishSteps
<1>3. CASE Transient(w)
  <2>1. /\ Again(w, worker[w].tried, worker[w].refused)
        /\ UNCHANGED <<low, clients, pin, queue, late, barred, expired, changes>>
    BY <1>3 DEF Transient, pool, history
  <2>2. barred' \in SUBSET Accounts /\ expired' \in SUBSET Accounts /\ changes' \in Nat
    BY <2>1 DEF IInv, TypeOK, OtherTypes
  <2>3. QED
    BY <1>1, <2>1, <2>2, AgainStep
<1>4. ASSUME NEW s \in {401, 403, 429}, Refused(w, s) PROVE IInv'
  <2> DEFINE a == worker[w].account
  <2>1. /\ Again(w, worker[w].tried \cup {a}, worker[w].refused \cup {a})
        /\ UNCHANGED <<low, clients, pin, queue, late>>
        /\ barred \subseteq barred'
    BY <1>4 DEF Refused
  <2>2. barred' \in SUBSET Accounts /\ expired' \in SUBSET Accounts /\ changes' \in Nat
    BY <1>1, <1>4, ExecutorAssumption DEF Refused, Change, IInv, TypeOK, OtherTypes
  <2>3. /\ worker[w].tried \cup {a} \in SUBSET Accounts
        /\ worker[w].refused \cup {a} \in SUBSET (worker[w].tried \cup {a})
    BY <1>1
  <2>4. QED
    BY <1>1, <2>1, <2>2, <2>3, AgainStep
<1>5. QED
  BY <1>2, <1>3, <1>4

(* What ends a worker: on_result, the store of a pin, park() or publish()   *)
(* raising.                                                                *)
LEMMA EndSteps ==
  ASSUME IInv, NEW w \in Workers, OnResultRaises(w) \/ PickRaises(w) \/ CallEscapes(w)
  PROVE  IInv'
<1> DEFINE r == [Idle EXCEPT !.pc = "ended", !.task = worker[w].task]
<1>1. /\ worker[w].pc \in Running \cup {"report"} /\ worker[w].pc # "idle"
      /\ worker[w].pc = "pick" => KeyOf[worker[w].task] \in Keys \cup {NoKey}
  <2>1. worker[w].pc \in Running \cup {"report"} /\ worker[w].pc # "idle"
    BY DEF OnResultRaises, PickRaises, CallEscapes, Running
  <2>2. QED
    BY <2>1, TaskTaken, ExecutorAssumption
<1>2. /\ r \in WorkerRecords /\ r.pc = "ended" /\ r.task = worker[w].task
      /\ r.refused = {} /\ r.tried = {}
  BY <1>1, TaskTaken, FreshRecords
<1>3. /\ UNCHANGED <<low, clients, queue, late, expired, changes>>
      /\ barred \subseteq barred' /\ barred' \in SUBSET Accounts
      /\ expired' \in SUBSET Accounts /\ changes' \in Nat
  <2>1. CASE OnResultRaises(w) \/ PickRaises(w)
    BY <2>1 DEF OnResultRaises, PickRaises, pool, history, IInv, TypeOK, OtherTypes
  <2>2. CASE CallEscapes(w)
    <3>1. worker[w].account \in Accounts
      BY <2>2, WorkerTyped DEF CallEscapes, LoopOf
    <3>2. QED
      BY <2>2, <3>1 DEF CallEscapes, history, IInv, TypeOK, OtherTypes
  <2>3. QED
    BY <2>1, <2>2
<1>4. pin' \in [Keys -> Accounts \cup {NoAccount}]
  <2>1. CASE OnResultRaises(w) \/ CallEscapes(w)
    BY <2>1 DEF OnResultRaises, CallEscapes, pool, IInv, TypeOK
  <2>2. CASE PickRaises(w)
    BY <1>1, <2>2 DEF PickRaises, Candidates, Select, IInv, TypeOK
  <2>3. QED
    BY <2>1, <2>2
<1>5. CASE Leave(w, "ended") /\ UNCHANGED outcome
  <2>1. worker' = [worker EXCEPT ![w] = r]
    BY <1>5 DEF Leave
  <2> HIDE DEF r
  <2>2. QED
    BY <1>1, <1>2, <1>3, <1>4, <1>5, <2>1, TaskSteps
<1>6. CASE Finish(w, "failed") /\ worker[w].pc = "pick"
  BY <1>3, <1>4, <1>6, FinishSteps
<1>7. QED
  BY <1>5, <1>6 DEF OnResultRaises, PickRaises, CallEscapes

(* on_result has returned: the worker waits for another task. *)
LEMMA ReportedStep ==
  ASSUME IInv, NEW w \in Workers, Reported(w)
  PROVE  IInv'
<1>1. /\ worker[w].pc = "report" /\ worker' = [worker EXCEPT ![w] = Idle]
      /\ UNCHANGED <<low, clients, barred, expired, pin, slots, put, taken, results, dead, returned, late, changes>>
  BY DEF Reported, pool, queue, outcome, history
<1>2. worker \in [Workers -> WorkerRecords] /\ Idle \in WorkerRecords
  BY WorkerTyped, FreshRecords
<1>3. \A v \in Workers : worker'[v] = IF v = w THEN Idle ELSE worker[v]
  BY <1>1, <1>2
<1>4. TypeOK' /\ OtherTypes'
  <2>1. worker' \in [Workers -> WorkerRecords]
    BY <1>1, <1>2
  <2>2. QED
    BY <1>1, <2>1 DEF IInv, TypeOK, OtherTypes, WorkerRecords, Pcs
<1>5. Loop'
  <2> SUFFICES ASSUME NEW v \in Workers PROVE LoopOf(v)'
    BY DEF Loop
  <2>1. LoopOf(v)
    BY DEF IInv, Loop
  <2>2. QED
    BY <1>1, <1>3, <2>1 DEF LoopOf, Idle
<1>6. Ledger'
  <2>1. \A t : Owed(t) => Owed(t)'
    BY <1>1, <1>3 DEF Owed
  <2>2. \A v \in Workers : worker'[v].pc # "idle" => v # w /\ worker'[v] = worker[v]
    BY <1>3, FreshRecords
  <2>3. \A v \in Workers : worker'[v].pc \in Running => worker'[v].pc # "idle"
    BY DEF Running
  <2>4. \A v, x \in Workers : v # x /\ worker'[v].pc # "idle" => worker'[v].task # worker'[x].task
    <3> SUFFICES ASSUME NEW v \in Workers, NEW x \in Workers, v # x, worker'[v].pc # "idle"
                 PROVE  worker'[v].task # worker'[x].task
      OBVIOUS
    <3>1. worker'[v] = worker[v] /\ worker[v].task # 0
      BY <2>2, TaskTaken
    <3>2. CASE x = w
      BY <1>3, <3>1, <3>2, FreshRecords
    <3>3. CASE x # w
      BY <1>3, <3>1, <3>3 DEF IInv, Ledger
    <3>4. QED
      BY <3>2, <3>3
  <2>5. ~returned
    BY <1>1 DEF IInv, Ledger
  <2>6. QED
    BY <1>1, <2>1, <2>2, <2>3, <2>4, <2>5 DEF IInv, Ledger
<1>7. \A a \in barred : Waiting(a)' \subseteq Waiting(a)
  BY <1>3, FreshRecords DEF Waiting
<1>8. Lateness'
  BY <1>1, <1>4, <1>5, <1>7, LatenessKept
<1>9. QED
  BY <1>4, <1>5, <1>6, <1>8 DEF IInv

(* The pool changes; the workers do not notice. *)
LEMMA PoolSteps ==
  ASSUME IInv, NEW b \in Accounts,
         Expire(b) \/ OnLimit(b) \/ Release(b) \/ Add(b) \/ Remove(b)
  PROVE  IInv'
<1>1. UNCHANGED <<low, slots, put, taken, worker, results, dead, returned>>
  BY DEF Expire, OnLimit, Release, Add, Remove, queue, outcome
<1>2. late' \in [Accounts -> Nat] /\ changes' \in Nat
  BY ExecutorAssumption
     DEF Expire, OnLimit, Release, Add, Remove, Change, history, IInv, OtherTypes
<1>3. /\ clients' \in SUBSET Accounts /\ barred' \in SUBSET Accounts /\ expired' \in SUBSET Accounts
      /\ pin' \in [Keys -> Accounts \cup {NoAccount}]
  BY DEF Expire, OnLimit, Release, Add, Remove, IInv, TypeOK
<1>4. TypeOK' /\ OtherTypes'
  BY <1>1, <1>2, <1>3 DEF IInv, TypeOK, OtherTypes
<1>5. Loop' /\ Ledger'
  BY <1>1 DEF IInv, Loop, LoopOf, Ledger, Owed
<1>6. \A a \in Accounts : Waiting(a)' = Waiting(a)
  BY <1>1 DEF Waiting
<1>7. Lateness'
  <2>1. CASE Expire(b) \/ OnLimit(b) \/ Add(b)
    <3>1. late' = late /\ barred \subseteq barred'
      BY <2>1 DEF Expire, OnLimit, Add, history
    <3>2. \A a \in barred : Waiting(a)' \subseteq Waiting(a)
      BY <1>6 DEF IInv, TypeOK
    <3>3. QED
      BY <1>1, <1>4, <1>5, <3>1, <3>2, LatenessKept
  <2>2. CASE Release(b) \/ Remove(b)
    <3>1. barred' = barred \ {b} /\ late' = [late EXCEPT ![b] = 0]
      BY <2>2 DEF Release, Remove
    <3>2. QED
      BY <1>1, <1>6, <3>1 DEF IInv, OtherTypes, Lateness
  <2>3. QED
    BY <2>1, <2>2
<1>8. QED
  BY <1>4, <1>5, <1>7 DEF IInv

\* Every step keeps the invariant.
LEMMA StepIInv == IInv /\ [Next]_vars => IInv'
<1> SUFFICES ASSUME IInv, [Next]_vars PROVE IInv'
  OBVIOUS
<1>1. CASE Map
  BY <1>1, MapStep
<1>2. CASE Put \/ Return
  BY <1>2, QueueSteps
<1>3. ASSUME NEW w \in Workers, Step(w) PROVE IInv'
  BY <1>3, QueueSteps, PickStep, ParkSteps, StartStep, CallSteps, EndSteps, ReportedStep DEF Step
<1>4. CASE Pool
  BY <1>4, PoolSteps DEF Pool
<1>5. CASE UNCHANGED vars
  <2>1. TypeOK' /\ OtherTypes'
    BY <1>5 DEF IInv, TypeOK, OtherTypes, vars, pool, queue, outcome, history
  <2>2. Loop' /\ Ledger'
    BY <1>5 DEF IInv, Loop, LoopOf, Ledger, Owed, vars, queue, outcome
  <2>3. Lateness'
    BY <1>5 DEF IInv, Lateness, Waiting, vars, pool, queue, history
  <2>4. QED
    BY <2>1, <2>2, <2>3 DEF IInv
<1>6. QED
  BY <1>1, <1>2, <1>3, <1>4, <1>5 DEF Next

\* The invariant holds in every reachable state.
LEMMA InvariantIInv == Spec => []IInv
BY InitIInv, StepIInv, PTL DEF Spec

-----------------------------------------------------------------------------
(* Every variable of map() and _run_one keeps its type: in particular no   *)
(* task makes more than max_attempts attempts or max_park_waits waits.     *)
THEOREM TypeCorrect == Spec => []TypeOK
<1>1. IInv => TypeOK
  BY DEF IInv
<1>2. QED
  BY <1>1, InvariantIInv, PTL

(* executor.py:184 An account that refused a task is not called for it     *)
(* again: refused accounts are tried ones, and the account in use is not.  *)
THEOREM RefusedNotRetriedHolds == Spec => []RefusedNotRetried
<1>1. IInv => RefusedNotRetried
  BY DEF IInv, Loop, LoopOf, RefusedNotRetried
<1>2. QED
  BY <1>1, InvariantIInv, PTL

(* executor.py:175 However many tasks there are, an account is called at   *)
(* most once per worker between the moment it is parked or quarantined and *)
(* its release.                                                            *)
THEOREM LateCallsBoundedHolds == Spec => []LateCallsBounded
<1>1. IInv => LateCallsBounded
  <2> SUFFICES ASSUME IInv, NEW a \in Accounts PROVE late[a] <= slots
    BY DEF LateCallsBounded
  <2>1. slots \in Nat /\ late[a] \in Nat /\ Cardinality(Waiting(a)) \in Nat
    BY WorkerCount, WaitingFacts DEF IInv, TypeOK, OtherTypes
  <2>2. QED
    BY <2>1 DEF IInv, Lateness
<1>2. QED
  BY <1>1, InvariantIInv, PTL

(* executor.py:120, :142 Every task has one worker at most and one result,  *)
(* the dead letters are the failed tasks, and when map() has returned a     *)
(* task without a result is the one that ended its worker.                 *)
THEOREM OneResultEachHolds == Spec => []OneResultEach
<1>1. IInv => OneResultEach
  <2> SUFFICES ASSUME IInv PROVE OneResultEach
    OBVIOUS
  <2>1. ASSUME returned, NEW t \in Tasks, results[t] = "none"
        PROVE  \E w \in Workers : worker[w].pc = "ended" /\ worker[w].task = t
    <3>1. ~(t > taken)
      BY <2>1, ExecutorAssumption DEF IInv, Ledger, Tasks
    <3>2. PICK w \in Workers : worker[w].task = t /\ worker[w].pc # "idle"
      BY <2>1, <3>1 DEF IInv, Ledger, Owed
    <3>3. worker[w].pc = "ended"
      BY <2>1, <3>2 DEF IInv, Ledger
    <3>4. QED
      BY <3>2, <3>3
  <2>2. QED
    BY <2>1 DEF IInv, Ledger, OneResultEach
<1>2. QED
  BY <1>1, InvariantIInv, PTL

=============================================================================
