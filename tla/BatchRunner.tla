---------------------------- MODULE BatchRunner ----------------------------
(***************************************************************************)
(* BatchRunner.run over a persistent BaseBatchStore, with the worker pool  *)
(* of BulkExecutor.map under it (claude_ai/orchestrator/batch.py and       *)
(* executor.py).  The job row and the item rows survive a crash; run() is  *)
(* called again with the same job_id after a crash or after it returned.   *)
(*                                                                         *)
(* How _run_one obtains a result is left open: it answers ok or not ok.    *)
(***************************************************************************)
EXTENDS Naturals, FiniteSets

CONSTANTS
  Total,            \* number of items of the first run(); indices 1..Total
  Workers,          \* the n_slots executor workers of one run
  MaxCrashes,       \* bound: crashes in a behaviour
  MaxFaults,        \* bound: save_item calls that raise inside on_result
  CrashWhileSaving  \* may a crash hit the loop that saves the item rows?

ASSUME BatchAssumption ==
  /\ Total \in Nat
  /\ MaxCrashes \in Nat /\ MaxFaults \in Nat
  /\ CrashWhileSaving \in BOOLEAN

Items == 1..Total
NoItem == 0

VARIABLES
  job, rows,       \* the store: job status, status of each item row
  pc, next,        \* where run() is; the row its saving loop writes next
  verdict,         \* the status run() has computed and not yet stored
  todo,            \* records in the executor's queue
  worker, item,    \* state of each worker, and the record it handles
  result,          \* what _run_one answered for it
  crashes, faults, \* how many there were
  succeeded        \* history: how often fn succeeded, per item

persistent == <<job, rows>>
pool == <<todo, worker, item, result>>
vars == <<persistent, pc, next, verdict, pool, crashes, faults, succeeded>>

Busy == {w \in Workers : worker[w] \in {"calling", "saving"}}
Stored == {i \in Items : rows[i] # "absent"}
Done == {i \in Items : rows[i] = "DONE"}

Init ==
  /\ job = "none" /\ rows = [i \in Items |-> "absent"]
  /\ pc = "idle" /\ next = 1 /\ verdict = "none"
  /\ todo = {}
  /\ worker = [w \in Workers |-> "idle"]
  /\ item = [w \in Workers |-> NoItem]
  /\ result = [w \in Workers |-> "none"]
  /\ crashes = 0 /\ faults = 0
  /\ succeeded = [i \in Items |-> 0]

-----------------------------------------------------------------------------
(* run(): create or resume *)

\* Mutation: an existing job is created again.
BeginAnew ==
  /\ pc = "idle"
  /\ pc' = "create"
  /\ UNCHANGED <<persistent, next, verdict, pool, crashes, faults, succeeded>>

Begin ==
  /\ pc = "idle"
  /\ pc' = IF job = "none" THEN "create" ELSE "resume"
  /\ UNCHANGED <<persistent, next, verdict, pool, crashes, faults, succeeded>>

\* executor.map(records): every record is queued for the workers.
Execute(records) ==
  /\ pc' = IF records = {} THEN "tally" ELSE "execute"
  /\ todo' = records

CreateJob ==
  /\ pc = "create"
  /\ job' = "RUNNING"
  /\ pc' = IF Total = 0 THEN "tally" ELSE "saving"
  /\ next' = 1
  /\ UNCHANGED <<rows, verdict, pool, crashes, faults, succeeded>>

\* Mutation: the saving loop runs once too often.
SaveRowOnceMore ==
  /\ pc = "saving"
  /\ rows' = [i \in Items |-> IF i = next THEN "PENDING" ELSE rows[i]]
  /\ next' = next + 1
  /\ IF next > Total THEN Execute(Items) ELSE UNCHANGED <<pc, todo>>
  /\ UNCHANGED <<job, verdict, worker, item, result, crashes, faults, succeeded>>

SaveRow ==
  /\ pc = "saving"
  /\ rows' = [rows EXCEPT ![next] = "PENDING"]
  /\ next' = next + 1
  /\ IF next = Total THEN Execute(Items) ELSE UNCHANGED <<pc, todo>>
  /\ UNCHANGED <<job, verdict, worker, item, result, crashes, faults, succeeded>>

ResumeJob ==
  /\ pc = "resume"
  /\ job' = "RUNNING"
  /\ pc' = "pending"
  /\ UNCHANGED <<rows, next, verdict, pool, crashes, faults, succeeded>>

\* Mutation: every stored row is run again.
LoadEverything ==
  /\ pc = "pending"
  /\ Execute(Stored)
  /\ UNCHANGED <<persistent, next, verdict, worker, item, result, crashes, faults, succeeded>>

LoadPending ==
  /\ pc = "pending"
  /\ Execute(Stored \ Done)
  /\ UNCHANGED <<persistent, next, verdict, worker, item, result, crashes, faults, succeeded>>

-----------------------------------------------------------------------------
(* executor.map: workers, and the on_result callback *)

Take(w) ==
  /\ pc = "execute" /\ worker[w] = "idle"
  /\ \E i \in todo :
       /\ \A j \in todo : i <= j
       /\ todo' = todo \ {i}
       /\ item' = [item EXCEPT ![w] = i]
  /\ worker' = [worker EXCEPT ![w] = "calling"]
  /\ UNCHANGED <<persistent, pc, next, verdict, result, crashes, faults, succeeded>>

RunOne(w, ok) ==
  /\ worker[w] = "calling"
  /\ result' = [result EXCEPT ![w] = IF ok THEN "DONE" ELSE "FAILED"]
  /\ succeeded' = [succeeded EXCEPT ![item[w]] = IF ok THEN @ + 1 ELSE @]
  /\ worker' = [worker EXCEPT ![w] = "saving"]
  /\ UNCHANGED <<persistent, pc, next, verdict, todo, item, crashes, faults>>

\* Mutation: every finished record is saved as done.
WriteDone(w) == rows' = [rows EXCEPT ![item[w]] = "DONE"]

WriteResult(w) == rows' = [rows EXCEPT ![item[w]] = result[w]]

OnResult(w) ==
  /\ worker[w] = "saving"
  /\ WriteResult(w)
  /\ worker' = [worker EXCEPT ![w] = "idle"]
  /\ UNCHANGED <<job, pc, next, verdict, todo, item, result, crashes, faults, succeeded>>

\* save_item raises, the row written or not: the exception ends the worker.
OnResultRaises(w) ==
  /\ worker[w] = "saving" /\ faults < MaxFaults
  /\ faults' = faults + 1
  /\ WriteResult(w) \/ UNCHANGED rows
  /\ worker' = [worker EXCEPT ![w] = "dead"]
  /\ UNCHANGED <<job, pc, next, verdict, todo, item, result, crashes, succeeded>>

\* Mutation: a worker that raises does not call task_done.
MapReturnsIfAllAlive ==
  /\ pc = "execute" /\ todo = {} /\ \A w \in Workers : worker[w] = "idle"
  /\ pc' = "tally"
  /\ UNCHANGED <<persistent, next, verdict, pool, crashes, faults, succeeded>>

\* queue.join() returns once every record was taken and finished; the
\* remaining workers are cancelled.
MapReturns ==
  /\ pc = "execute" /\ todo = {} /\ Busy = {}
  /\ pc' = "tally"
  /\ UNCHANGED <<persistent, next, verdict, pool, crashes, faults, succeeded>>

-----------------------------------------------------------------------------
(* run(): report *)

\* Mutation: complete when one item is done.
TallyAny ==
  /\ pc = "tally"
  /\ verdict' = IF Done # {} THEN "COMPLETED" ELSE "PARTIAL"
  /\ pc' = "report"
  /\ UNCHANGED <<persistent, next, pool, crashes, faults, succeeded>>

Tally ==
  /\ pc = "tally"
  /\ verdict' = IF Stored \subseteq Done THEN "COMPLETED" ELSE "PARTIAL"
  /\ pc' = "report"
  /\ UNCHANGED <<persistent, next, pool, crashes, faults, succeeded>>

\* What a new call of run() finds of the previous one: nothing but the store.
Forget ==
  /\ pc' = "idle" /\ next' = 1 /\ verdict' = "none"
  /\ todo' = {}
  /\ worker' = [w \in Workers |-> "idle"]
  /\ item' = [w \in Workers |-> NoItem]
  /\ result' = [w \in Workers |-> "none"]

Report ==
  /\ pc = "report"
  /\ job' = verdict
  /\ Forget
  /\ UNCHANGED <<rows, crashes, faults, succeeded>>

\* The process dies, the run is cancelled, or a store call raises out of run().
Crash ==
  /\ pc # "idle" /\ crashes < MaxCrashes
  /\ pc = "saving" => CrashWhileSaving
  /\ crashes' = crashes + 1
  /\ Forget
  /\ UNCHANGED <<persistent, faults, succeeded>>

WorkerStep(w) ==
  \/ Take(w)
  \/ \E ok \in BOOLEAN : RunOne(w, ok)
  \/ OnResult(w) \/ OnResultRaises(w)

RunStep == CreateJob \/ SaveRow \/ ResumeJob \/ LoadPending \/ MapReturns \/ Tally \/ Report

Next == Begin \/ RunStep \/ (\E w \in Workers : WorkerStep(w)) \/ Crash

Spec == Init /\ [][Next]_vars

\* The event loop runs the caller and every worker that can move.
FairSpec == Spec /\ WF_vars(RunStep) /\ \A w \in Workers : WF_vars(WorkerStep(w))

-----------------------------------------------------------------------------
(* Every variable stays in its domain. *)
TypeOK ==
  /\ job \in {"none", "RUNNING", "PARTIAL", "COMPLETED"}
  /\ rows \in [Items -> {"absent", "PENDING", "DONE", "FAILED"}]
  /\ pc \in {"idle", "create", "saving", "resume", "pending", "execute", "tally", "report"}
  /\ next \in 1..(Total + 1)
  /\ verdict \in {"none", "PARTIAL", "COMPLETED"}
  /\ todo \in SUBSET Items
  /\ worker \in [Workers -> {"idle", "calling", "saving", "dead"}]
  /\ item \in [Workers -> Items \cup {NoItem}]
  /\ result \in [Workers -> {"none", "DONE", "FAILED"}]
  /\ crashes \in Nat /\ faults \in Nat
  /\ succeeded \in [Items -> Nat]

(* Re-running a job skips what is done: a worker only ever handles a       *)
(* record whose row is not DONE, and no two workers handle the same one.   *)
OnlyUnfinishedWork ==
  /\ \A w \in Busy : rows[item[w]] # "DONE" /\ item[w] \notin todo
  /\ \A v, w \in Busy : item[v] = item[w] => v = w
  /\ todo \cap Done = {}

(* The price of a crash is one repetition: fn succeeds for an item again   *)
(* only after a crash, or a result that could not be saved, has lost the   *)
(* earlier success; and an item is DONE only if fn did succeed for it.     *)
AtLeastOnce ==
  \A i \in Items : /\ succeeded[i] <= 1 + crashes + faults
                   /\ i \in Done => succeeded[i] >= 1

(* The reported status is true of the stored rows whenever no run() is     *)
(* working on the job: COMPLETED leaves no stored row unfinished, and a    *)
(* PARTIAL job has something left to resume.                               *)
StatusMatchesRows ==
  /\ job = "COMPLETED" => Stored \subseteq Done
  /\ job = "PARTIAL" => ~(Stored \subseteq Done)

(* The batch is a resumable job as its caller understands it: done items   *)
(* stay done through every crash, and COMPLETED means all of the items.    *)
Promise == INSTANCE ResumableJob WITH phase <- job, done <- Done
ResumableJobSpec == Promise!Spec

(* Every run() comes to an end - it returns, crashes, or is stuck because  *)
(* a failing store has ended every worker with records still queued.       *)
RunEnds ==
  (pc # "idle") ~> (pc = "idle" \/ (todo # {} /\ \A w \in Workers : worker[w] = "dead"))

(* A completed job has done all of its `total` items. *)
CompletedMeansAll == job = "COMPLETED" => Done = Items
=============================================================================
