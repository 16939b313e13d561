---------------------------- MODULE BulkExecutor ----------------------------
(***************************************************************************)
(* BulkExecutor.map over the account pool (claude_ai/orchestrator/         *)
(* executor.py, selector.py, pick() of orchestrator.py): a bounded queue,  *)
(* n_slots workers, and for each task the loop of _run_one that picks an   *)
(* account, waits for its semaphore, calls fn and sorts its exceptions;    *)
(* what they do not catch, and what on_result raises, ends the worker.     *)
(*                                                                         *)
(* Tasks are queued in order, so the queue is what was put and not taken.  *)
(* How the parks and pins are stored is the matter of AccountPool: here an *)
(* account is free, or it is unavailable until something releases it.      *)
(***************************************************************************)
EXTENDS Naturals, FiniteSets

CONSTANTS
  Accounts,      \* the account ids that may ever be in the pool
  Pools,         \* the sets of accounts map() may find in the pool
  Total,         \* number of tasks; indices 1..Total
  Keys, KeyOf,   \* affinity keys, and the key of each task
  NoKey,         \* a task without a key
  NoAccount,     \* no pin
  Lows,          \* the sets of accounts that may be below min_tier
  PerAccount,    \* concurrency_per_account
  MaxAttempts, MaxParkWaits,
  MaxChanges     \* bound: 401 answers, accounts added, removed or parked by others

Tasks == 1..Total

ASSUME ExecutorAssumption ==
  /\ IsFiniteSet(Accounts) /\ Accounts # {} /\ NoAccount \notin Accounts
  /\ Lows \subseteq SUBSET Accounts
  /\ Pools \subseteq SUBSET Accounts
  /\ Total \in Nat /\ NoKey \notin Keys /\ KeyOf \in [Tasks -> Keys \cup {NoKey}]
  /\ PerAccount \in Nat \ {0} /\ MaxAttempts \in Nat \ {0} /\ MaxParkWaits \in Nat
  /\ MaxChanges \in Nat

VARIABLES
  low,          \* the accounts below min_tier
  clients,      \* ClaudeOrchestrator._clients
  barred,       \* accounts that is_available() refuses
  expired,      \* accounts whose AccountExpiredEvent is on the bus
  pin,          \* AffinityTracker: the account of each key
  slots,        \* n_slots, the number of workers; 0 before map()
  put, taken,   \* how many tasks were put in the queue, and taken from it
  worker,       \* per worker: pc, task and the locals of _run_one
  results,      \* the results list: "none", "ok" or "failed" per task
  dead,         \* dead_letters: how often each task is in it
  returned,     \* has map() returned?
  late,         \* history: calls begun on each account since it was barred
  changes       \* how many there were

pool == <<clients, barred, expired, pin>>
queue == <<slots, put, taken>>
outcome == <<results, dead, returned>>
history == <<late, changes>>
vars == <<low, pool, queue, worker, outcome, history>>

Workers == 1..(Cardinality(Accounts) * PerAccount)
Running == {"pick", "sleep", "picked", "call"}  \* inside _run_one
Idle == [pc |-> "idle", task |-> 0, tried |-> {}, attempts |-> 0, waits |-> 0,
         account |-> NoAccount,
         refused |-> {}]  \* history: the accounts that refused the task

Init ==
  /\ low \in Lows /\ clients \in Pools
  /\ barred = {} /\ expired = {}
  /\ pin = [k \in Keys |-> NoAccount]
  /\ slots = 0 /\ put = 0 /\ taken = 0
  /\ worker = [w \in Workers |-> Idle]
  /\ results = [t \in Tasks |-> "none"]
  /\ dead = [t \in Tasks |-> 0]
  /\ returned = FALSE
  /\ late = [a \in Accounts |-> 0]
  /\ changes = 0

-----------------------------------------------------------------------------
(* map(): the workers, and the queue with its backpressure *)

\* max(1, len(clients) * per_account) workers.
Map ==
  /\ slots = 0 /\ ~returned
  /\ slots' = IF clients = {} THEN 1 ELSE Cardinality(clients) * PerAccount
  /\ UNCHANGED <<low, pool, put, taken, worker, outcome, history>>

\* put() waits while the queue holds its maxsize of n_slots * 2.
Put ==
  /\ slots > 0 /\ put < Total
  /\ put - taken < slots * 2
  /\ put' = put + 1
  /\ UNCHANGED <<low, pool, slots, taken, worker, outcome, history>>

Get(w) ==
  /\ w <= slots /\ worker[w].pc = "idle" /\ taken < put
  /\ taken' = taken + 1
  /\ worker' = [worker EXCEPT ![w] = [Idle EXCEPT !.pc = "pick", !.task = taken + 1]]
  /\ UNCHANGED <<low, pool, slots, put, outcome, history>>

\* queue.join() waits for the tasks that were put, task_done() having been
\* called for each, by a worker that has ended too.
Return ==
  /\ slots > 0 /\ put = Total /\ taken = put /\ ~returned
  /\ \A w \in Workers : worker[w].pc \in {"idle", "ended"}
  /\ returned' = TRUE
  /\ UNCHANGED <<low, pool, queue, worker, results, dead, history>>

\* The worker leaves _run_one: to report its result, or for good.
Leave(w, pc) ==
  worker' = [worker EXCEPT ![w] = [Idle EXCEPT !.pc = pc, !.task = worker[w].task]]

\* Mutant of Finish: a task that made no attempt leaves no dead letter.
FinishUntried(w, result) ==
  LET t == worker[w].task
  IN /\ results' = [results EXCEPT ![t] = result]
     /\ dead' = [dead EXCEPT ![t] = IF result = "ok" \/ worker[w].attempts = 0 THEN @ ELSE @ + 1]
     /\ Leave(w, "report")
     /\ UNCHANGED returned

\* The end of _run_one: the result and the dead letter, then on_result.
Finish(w, result) ==
  LET t == worker[w].task
  IN /\ results' = [results EXCEPT ![t] = result]
     /\ dead' = [dead EXCEPT ![t] = IF result = "ok" THEN @ ELSE @ + 1]
     /\ Leave(w, "report")
     /\ UNCHANGED returned

\* on_result returns, or there is none; task_done().
Reported(w) ==
  /\ worker[w].pc = "report"
  /\ worker' = [worker EXCEPT ![w] = Idle]
  /\ UNCHANGED <<low, pool, queue, outcome, history>>

\* on_result raises: task_done(), but nobody catches it and the worker ends.
OnResultRaises(w) ==
  /\ worker[w].pc = "report"
  /\ Leave(w, "ended")
  /\ UNCHANGED <<low, pool, queue, outcome, history>>

-----------------------------------------------------------------------------
(* pick() *)

\* Mutant of PinHolds: the pin wins over `exclude`.
PinHoldsAnyway(k, tried) ==
  k # NoKey /\ pin[k] \in (clients \ low) \ barred

\* Mutant of PinHolds: the pin wins over is_available().
PinHoldsBarred(k, tried) ==
  k # NoKey /\ pin[k] \in (clients \ low) \ tried

\* A pin is followed while its account may be used.
PinHolds(k, tried) ==
  k # NoKey /\ pin[k] \in ((clients \ low) \ barred) \ tried

Candidates(tried) == ((clients \ low) \ barred) \ tried

\* BaseClientSelector.pick: the least of a score that other parts of the
\* program keep, or the next in turn: any candidate.
Select(candidates) == candidates

Took(w, a) ==
  worker' = [worker EXCEPT ![w].pc = "picked", ![w].account = a, ![w].attempts = @ + 1]

\* pick() answers: the attempt is counted, and the task waits for the store of
\* the pin and for the semaphore of the account.
Pick(w) ==
  LET k == KeyOf[worker[w].task]
      tried == worker[w].tried
  IN /\ worker[w].pc = "pick"
     /\ \/ PinHolds(k, tried) /\ Took(w, pin[k]) /\ UNCHANGED pin
        \/ /\ ~PinHolds(k, tried)
           /\ \E a \in Select(Candidates(tried)) :
                /\ Took(w, a)
                /\ pin' = IF k = NoKey THEN pin ELSE [pin EXCEPT ![k] = a]
     /\ UNCHANGED <<low, clients, barred, expired, queue, outcome, history>>

\* The store of the new pin raises.  A RuntimeError is taken for an empty pool
\* and fails the task; anything else ends the worker, and the task has no
\* result at all.
PickRaises(w) ==
  LET k == KeyOf[worker[w].task]
      tried == worker[w].tried
  IN /\ worker[w].pc = "pick" /\ k # NoKey /\ ~PinHolds(k, tried)
     /\ \E a \in Select(Candidates(tried)) : pin' = [pin EXCEPT ![k] = a]
     /\ \/ Finish(w, "failed")
        \/ Leave(w, "ended") /\ UNCHANGED outcome
     /\ UNCHANGED <<low, clients, barred, expired, queue, history>>

\* Mutant of NoneAvailable: the waits are not counted.
NoneAvailableAgain(w) ==
  /\ worker[w].pc = "pick" /\ clients # {}
  /\ ~PinHolds(KeyOf[worker[w].task], worker[w].tried) /\ Candidates(worker[w].tried) = {}
  /\ worker' = [worker EXCEPT ![w].pc = "sleep"]
  /\ UNCHANGED <<low, pool, queue, outcome, history>>

\* NoAvailableAccounts, also when the task itself has excluded them all:
\* max_park_waits waits, then the task has failed.
NoneAvailable(w) ==
  /\ worker[w].pc = "pick" /\ clients # {}
  /\ ~PinHolds(KeyOf[worker[w].task], worker[w].tried) /\ Candidates(worker[w].tried) = {}
  /\ IF worker[w].waits < MaxParkWaits
       THEN /\ worker' = [worker EXCEPT ![w].pc = "sleep", ![w].waits = @ + 1]
            /\ UNCHANGED outcome
       ELSE Finish(w, "failed")
  /\ UNCHANGED <<low, pool, queue, history>>

Wake(w) ==
  /\ worker[w].pc = "sleep"
  /\ worker' = [worker EXCEPT ![w].pc = "pick"]
  /\ UNCHANGED <<low, pool, queue, outcome, history>>

\* RuntimeError: the pool has no clients left.
NoClients(w) ==
  /\ worker[w].pc = "pick" /\ clients = {}
  /\ Finish(w, "failed")
  /\ UNCHANGED <<low, pool, queue, history>>

-----------------------------------------------------------------------------
(* fn, under the semaphore of the account *)

Holders(a) == {v \in Workers : worker[v].pc = "call" /\ worker[v].account = a}

\* Whether the account is still available is not asked again.
Start(w) ==
  LET a == worker[w].account
  IN /\ worker[w].pc = "picked"
     /\ Cardinality(Holders(a)) < PerAccount
     /\ worker' = [worker EXCEPT ![w].pc = "call"]
     /\ late' = [late EXCEPT ![a] = IF a \in barred THEN @ + 1 ELSE @]
     /\ UNCHANGED <<low, pool, queue, outcome, changes>>

Succeed(w) ==
  /\ worker[w].pc = "call"
  /\ Finish(w, "ok")
  /\ UNCHANGED <<low, pool, queue, history>>

\* An exception that is none of the library's: no other attempt.
Fail(w) ==
  /\ worker[w].pc = "call"
  /\ Finish(w, "failed")
  /\ UNCHANGED <<low, pool, queue, history>>

\* Mutant of Again: one attempt too many.
AgainOnceMore(w, tried, refused) ==
  IF worker[w].attempts <= MaxAttempts
  THEN /\ worker' = [worker EXCEPT ![w].pc = "pick", ![w].tried = tried,
                                   ![w].account = NoAccount, ![w].refused = refused]
       /\ UNCHANGED outcome
  ELSE Finish(w, "failed")

\* The loop goes round, unless this was the last attempt.
Again(w, tried, refused) ==
  IF worker[w].attempts < MaxAttempts
  THEN /\ worker' = [worker EXCEPT ![w].pc = "pick", ![w].tried = tried,
                                   ![w].account = NoAccount, ![w].refused = refused]
       /\ UNCHANGED outcome
  ELSE Finish(w, "failed")

\* APIError, NetworkError, StreamError: the account stays eligible.
Transient(w) ==
  /\ worker[w].pc = "call"
  /\ Again(w, worker[w].tried, worker[w].refused)
  /\ UNCHANGED <<low, pool, queue, history>>

Change == changes < MaxChanges /\ changes' = changes + 1

\* 429 parks the account, 401 reports it, 403 does neither; each excludes it
\* from the further attempts of the task.
Refused(w, status) ==
  LET a == worker[w].account
  IN /\ worker[w].pc = "call"
     /\ Again(w, worker[w].tried \cup {a}, worker[w].refused \cup {a})
     /\ barred' = IF status = 429 THEN barred \cup {a} ELSE barred
     /\ expired' = IF status = 401 THEN expired \cup {a} ELSE expired
     /\ IF status = 401 THEN Change ELSE UNCHANGED changes
     /\ UNCHANGED <<low, clients, pin, queue, late>>

\* The answer to a 429 or a 401 raises in its turn (availability.park after it
\* changed its memory, the publish of report_expired), or fn is cancelled: the
\* worker ends and the task has no result.
CallEscapes(w) ==
  LET a == worker[w].account
  IN /\ worker[w].pc = "call"
     /\ barred' \in {barred, barred \cup {a}}
     /\ Leave(w, "ended")
     /\ UNCHANGED <<low, clients, expired, pin, queue, outcome, history>>

-----------------------------------------------------------------------------
(* The pool meanwhile *)

\* on_expired quarantines, on_limit parks: the events arrive at their time.
Expire(a) ==
  /\ a \in expired
  /\ expired' = expired \ {a} /\ barred' = barred \cup {a}
  /\ UNCHANGED <<low, clients, pin, queue, worker, outcome, history>>

OnLimit(a) ==
  /\ Change
  /\ barred' = barred \cup {a}
  /\ UNCHANGED <<low, clients, expired, pin, queue, worker, outcome, late>>

\* A park runs out, or a relogin has succeeded.
Release(a) ==
  /\ a \in barred
  /\ barred' = barred \ {a}
  /\ late' = [late EXCEPT ![a] = 0]
  /\ UNCHANGED <<low, clients, expired, pin, queue, worker, outcome, changes>>

Add(a) ==
  /\ a \notin clients /\ Change
  /\ clients' = clients \cup {a}
  /\ UNCHANGED <<low, barred, expired, pin, queue, worker, outcome, late>>

\* remove() drops the account's pins and releases it.
Remove(a) ==
  /\ a \in clients /\ Change
  /\ clients' = clients \ {a}
  /\ barred' = barred \ {a}
  /\ pin' = [k \in Keys |-> IF pin[k] = a THEN NoAccount ELSE pin[k]]
  /\ late' = [late EXCEPT ![a] = 0]
  /\ UNCHANGED <<low, expired, queue, worker, outcome>>

-----------------------------------------------------------------------------
Step(w) ==
  \/ Get(w) \/ Pick(w) \/ PickRaises(w) \/ NoneAvailable(w) \/ NoClients(w) \/ Wake(w)
  \/ Start(w) \/ Succeed(w) \/ Fail(w) \/ Transient(w) \/ CallEscapes(w)
  \/ (\E s \in {401, 403, 429} : Refused(w, s)) \/ Reported(w) \/ OnResultRaises(w)

Pool == \E a \in Accounts : Expire(a) \/ OnLimit(a) \/ Release(a) \/ Add(a) \/ Remove(a)

Next == Map \/ Put \/ Return \/ (\E w \in Workers : Step(w)) \/ Pool

\* The event loop runs the caller of map() and every worker that can move, and
\* a call of fn or on_result comes to an end.  Nothing is assumed of the pool.
Fairness == /\ WF_vars(Map) /\ WF_vars(Put) /\ WF_vars(Return)
            /\ \A w \in Workers : WF_vars(Step(w))

Spec == Init /\ [][Next]_vars /\ Fairness

-----------------------------------------------------------------------------
\* Type correctness: attempts and waits stay within their limits.
TypeOK ==
  /\ clients \subseteq Accounts /\ barred \subseteq Accounts /\ expired \subseteq Accounts
  /\ pin \in [Keys -> Accounts \cup {NoAccount}]
  /\ slots \in 0..Cardinality(Workers) /\ put \in 0..Total /\ taken \in 0..put
  /\ worker \in [Workers -> [pc : Running \cup {"idle", "report", "ended"},
                             task : 0..Total, tried : SUBSET Accounts,
                             attempts : 0..MaxAttempts, waits : 0..MaxParkWaits,
                             account : Accounts \cup {NoAccount}, refused : SUBSET Accounts]]
  /\ results \in [Tasks -> {"none", "ok", "failed"}]
  /\ dead \in [Tasks -> Nat]
  /\ returned \in BOOLEAN

\* executor.py:184 "retried on a different account": an account that refused a
\* task (429, 401, 403) is not called for that task again, even if the task's
\* key is pinned to it and it has been released meanwhile.
RefusedNotRetried ==
  \A w \in Workers : worker[w].pc = "call" => worker[w].account \notin worker[w].refused

\* executor.py:175 An account may be barred while tasks wait for its semaphore:
\* they call it nevertheless, but once for each worker at most, however many
\* tasks there are, until the account is released.
LateCallsBounded == \A a \in Accounts : late[a] <= slots

\* executor.py:120, :142 No task is handled by two workers or again after it has
\* its result; the dead letters are the failed tasks, each once, although a
\* worker may end in the middle of it all; and when map() returns a task is
\* missing from its results only if it took its worker down with it: one
\* missing result for each worker that ended, at most.
OneResultEach ==
  /\ \A t \in Tasks : dead[t] = IF results[t] = "failed" THEN 1 ELSE 0
  /\ \A w \in Workers : worker[w].pc \in Running => results[worker[w].task] = "none"
  /\ \A w \in Workers : worker[w].pc # "idle" =>
       \A v \in Workers \ {w} : worker[v].task # worker[w].task
  /\ returned => \A t \in Tasks : results[t] = "none" =>
       \E w \in Workers : worker[w].pc = "ended" /\ worker[w].task = t

\* Every worker has ended and there are tasks left: put() or join() waits for
\* ever (executor.py:113-115).
Stranded ==
  taken < Total /\ \A w \in 1..slots : worker[w].pc = "ended"

\* executor.py:150, :115 Every map() returns, whatever becomes of the accounts
\* (a task whose accounts never come back gives up), and with workers that end,
\* as long as one is left for the tasks that are.
MapReturns == (slots > 0) ~> (returned \/ Stranded)
=============================================================================
