------------------------- MODULE BatchRunner_proofs -------------------------
(***************************************************************************)
(* The safety of resumable batches, for every number of items and workers  *)
(* and any number of crashes and failing result writes, and the refinement *)
(* of ResumableJob when no crash hits the loop that saves the item rows.   *)
(***************************************************************************)
EXTENDS BatchRunner, TLAPS

InRun == {"saving", "pending", "execute", "tally", "report"}

\* Where run() is, against the job row.
Control ==
  /\ job = "none" => pc \in {"idle", "create"} /\ Stored = {}
  /\ pc = "create" => job = "none"
  /\ pc = "resume" => job # "none"
  /\ pc \in InRun => job = "RUNNING"
  /\ pc # "execute" => todo = {} /\ Busy = {}

\* The loop that saves the item rows has come to row `next`.
Saving ==
  pc = "saving" => /\ next \in Items
                   /\ \A i \in Items : rows[i] = IF i < next THEN "PENDING" ELSE "absent"

\* Records queued or in work have a row.
Working ==
  /\ todo \subseteq Stored
  /\ \A w \in Busy : item[w] \in Stored

\* The status run() is about to store.
Verdict ==
  pc = "report" => verdict = IF Stored \subseteq Done THEN "COMPLETED" ELSE "PARTIAL"

\* A worker waits for the row of item i to be saved as done.
SavingDone(i) == \E w \in Workers : worker[w] = "saving" /\ item[w] = i /\ result[w] = "DONE"

\* A success beyond the losses is in the store or on its way there.
Successes ==
  \A i \in Items :
    /\ succeeded[i] <= 1 + crashes + faults
    /\ succeeded[i] = 1 + crashes + faults => i \in Done \/ SavingDone(i)
    /\ i \in Done \/ SavingDone(i) => succeeded[i] >= 1

Results == \A w \in Workers : worker[w] = "saving" => result[w] \in {"DONE", "FAILED"}

\* Unless a crash may hit the saving loop, a job has a row for every item.
Whole == ~CrashWhileSaving /\ job # "none" /\ pc # "saving" => Stored = Items

IInv ==
  /\ TypeOK /\ Control /\ Saving /\ Working /\ Verdict /\ Results
  /\ OnlyUnfinishedWork /\ StatusMatchesRows /\ Successes /\ Whole

-----------------------------------------------------------------------------
(* Before the first run() there is no job, no row and no work. *)
LEMMA InitIInv == Init => IInv
<1> SUFFICES ASSUME Init PROVE IInv
  OBVIOUS
<1>1. TypeOK
  BY BatchAssumption DEF Init, TypeOK, Items, NoItem
<1>2. Stored = {} /\ Done = {} /\ Busy = {}
  BY DEF Init, Stored, Done, Busy
<1>3. Control /\ Saving /\ Working /\ Verdict /\ Results
  BY <1>2 DEF Init, Control, InRun, Saving, Working, Verdict, Results
<1>4. OnlyUnfinishedWork /\ StatusMatchesRows /\ Whole
  BY <1>2 DEF Init, OnlyUnfinishedWork, StatusMatchesRows, Whole
<1>5. Successes
  BY <1>2 DEF Init, Successes, SavingDone
<1>6. QED
  BY <1>1, <1>3, <1>4, <1>5 DEF IInv

(* Steps of run() that touch neither rows nor workers, nor the queue. *)
LEMMA ControlSteps ==
  ASSUME IInv, Begin \/ CreateJob \/ ResumeJob \/ MapReturns \/ Tally
  PROVE  IInv'
<1> USE DEF IInv, Begin, CreateJob, ResumeJob, MapReturns, Tally, persistent, pool
<1>1. /\ rows' = rows /\ todo' = todo /\ worker' = worker /\ item' = item /\ result' = result
      /\ crashes' = crashes /\ faults' = faults /\ succeeded' = succeeded
  OBVIOUS
<1>2. Stored' = Stored /\ Done' = Done /\ Busy' = Busy
  BY <1>1 DEF Stored, Done, Busy
<1>3. TypeOK'
  BY <1>1, BatchAssumption DEF TypeOK
<1>4. Control'
  BY <1>1, <1>2 DEF Control, InRun
<1>5. Saving'
  <2>1. CASE CreateJob
    <3>1. \A i \in Items : rows[i] = "absent"
      BY <2>1 DEF Control, Stored
    <3>2. pc' = "saving" => next' = 1 /\ Total \in Nat \ {0}
      BY <2>1, BatchAssumption
    <3>3. QED
      BY <1>1, <3>1, <3>2, BatchAssumption DEF Saving, Items
  <2>2. CASE ~CreateJob
    BY <1>1, <2>2 DEF Saving
  <2>3. QED
    BY <2>1, <2>2
<1>6. Working' /\ Results' /\ OnlyUnfinishedWork'
  BY <1>1, <1>2 DEF Working, Results, OnlyUnfinishedWork
<1>7. Verdict'
  BY <1>1, <1>2 DEF Verdict
<1>8. StatusMatchesRows'
  BY <1>1, <1>2 DEF StatusMatchesRows, Control
<1>9. Successes'
  BY <1>1, <1>2 DEF Successes, SavingDone
<1>10. Whole'
  <2>1. CASE CreateJob
    <3>1. Total = 0 => Items = {}
      BY BatchAssumption DEF Items
    <3>2. Stored \subseteq Items
      BY DEF Stored
    <3>3. QED
      BY <1>2, <2>1, <3>1, <3>2 DEF Whole
  <2>2. CASE ~CreateJob
    BY <1>2, <2>2 DEF Whole, Control
  <2>3. QED
    BY <2>1, <2>2
<1>11. QED
  BY <1>3, <1>4, <1>5, <1>6, <1>7, <1>8, <1>9, <1>10

-----------------------------------------------------------------------------
(* Handing records to the executor: the last row is saved, or the          *)
(* unfinished rows of a resumed job are loaded.                            *)
LEMMA SaveRowStep ==
  ASSUME IInv, SaveRow
  PROVE  IInv'
<1> USE DEF IInv, SaveRow
<1>1. /\ worker' = worker /\ item' = item /\ result' = result /\ job' = job /\ verdict' = verdict
      /\ crashes' = crashes /\ faults' = faults /\ succeeded' = succeeded /\ pc = "saving"
      /\ next' = next + 1 /\ rows' = [rows EXCEPT ![next] = "PENDING"]
  OBVIOUS
<1>2. next \in Items /\ next \in Nat /\ Total \in Nat /\ next <= Total
  BY <1>1, BatchAssumption DEF Saving, Items
<1>3. \/ pc' = pc /\ todo' = todo /\ next # Total
      \/ pc' = "execute" /\ todo' = Items /\ next = Total
  BY <1>2 DEF Execute
<1>4. \A i \in Items : rows'[i] = IF i < next' THEN "PENDING" ELSE "absent"
  <2> SUFFICES ASSUME NEW i \in Items PROVE rows'[i] = IF i < next' THEN "PENDING" ELSE "absent"
    OBVIOUS
  <2>1. rows[i] = IF i < next THEN "PENDING" ELSE "absent"
    BY <1>1 DEF Saving
  <2>2. rows'[i] = IF i = next THEN "PENDING" ELSE rows[i]
    BY <1>1 DEF TypeOK
  <2>3. i \in Nat
    BY <1>2 DEF Items
  <2>4. QED
    BY <1>1, <1>2, <2>1, <2>2, <2>3
<1>5. TypeOK'
  <2>1. rows' \in [Items -> {"absent", "PENDING", "DONE", "FAILED"}]
    BY <1>1 DEF TypeOK
  <2>2. next' \in 1..(Total + 1)
    BY <1>1, <1>2
  <2>3. QED
    BY <1>1, <1>3, <2>1, <2>2 DEF TypeOK
<1>6. Done' = {} /\ Done = {} /\ Busy' = {} /\ todo = {}
  <2>1. \A i \in Items : rows'[i] # "DONE" /\ rows[i] # "DONE"
    BY <1>1, <1>4 DEF Saving
  <2>2. QED
    BY <1>1, <2>1 DEF Done, Busy, Control
<1>7. pc' = "execute" => Stored' = Items
  <2>1. pc' = "execute" => \A i \in Items : rows'[i] = "PENDING"
    BY <1>1, <1>2, <1>3, <1>4 DEF Items
  <2>2. QED
    BY <2>1 DEF Stored
<1>8. Control'
  BY <1>1, <1>3, <1>6 DEF Control, InRun
<1>9. Saving'
  <2>1. next # Total => next' \in Items
    BY <1>1, <1>2 DEF Items
  <2>2. QED
    BY <1>1, <1>3, <1>4, <2>1 DEF Saving
<1>10. Working'
  BY <1>3, <1>6, <1>7 DEF Working
<1>11. Verdict' /\ Results' /\ StatusMatchesRows' /\ OnlyUnfinishedWork'
  BY <1>1, <1>3, <1>6 DEF Verdict, Results, StatusMatchesRows, OnlyUnfinishedWork, Control, InRun
<1>12. Successes'
  BY <1>1, <1>6 DEF Successes, SavingDone
<1>13. Whole'
  BY <1>1, <1>3, <1>7 DEF Whole
<1>14. QED
  BY <1>5, <1>8, <1>9, <1>10, <1>11, <1>12, <1>13

(* A resumed run queues exactly the stored rows that are not done. *)
LEMMA LoadPendingStep ==
  ASSUME IInv, LoadPending
  PROVE  IInv'
<1> USE DEF IInv, LoadPending, persistent
<1>1. /\ rows' = rows /\ worker' = worker /\ item' = item /\ result' = result
      /\ job' = job /\ verdict' = verdict /\ next' = next /\ pc = "pending"
      /\ crashes' = crashes /\ faults' = faults /\ succeeded' = succeeded
  OBVIOUS
<1>2. Stored' = Stored /\ Done' = Done /\ Busy' = Busy /\ Busy = {}
  BY <1>1 DEF Stored, Done, Busy, Control
<1>3. /\ todo' = Stored \ Done /\ pc' \in {"tally", "execute"}
      /\ pc' = "tally" => todo' = {}
  BY DEF Execute
<1>4. TypeOK'
  BY <1>1, <1>3 DEF TypeOK, Stored
<1>5. Control' /\ Saving' /\ Verdict' /\ Whole'
  BY <1>1, <1>2, <1>3 DEF Control, InRun, Saving, Verdict, Whole
<1>6. Working' /\ OnlyUnfinishedWork' /\ StatusMatchesRows' /\ Results'
  BY <1>1, <1>2, <1>3 DEF Working, OnlyUnfinishedWork, StatusMatchesRows, Results
<1>7. Successes'
  BY <1>1, <1>2 DEF Successes, SavingDone
<1>8. QED
  BY <1>4, <1>5, <1>6, <1>7

-----------------------------------------------------------------------------
(* A worker takes a record nobody else has. *)
LEMMA TakeStep ==
  ASSUME IInv, NEW w \in Workers, Take(w)
  PROVE  IInv'
<1> USE DEF IInv, Take, persistent
<1>1. PICK i \in todo : todo' = todo \ {i} /\ item' = [item EXCEPT ![w] = i]
  OBVIOUS
<1>2. /\ rows' = rows /\ result' = result /\ pc' = pc /\ pc = "execute" /\ worker[w] = "idle"
      /\ job' = job /\ verdict' = verdict /\ next' = next
      /\ crashes' = crashes /\ faults' = faults /\ succeeded' = succeeded
      /\ worker' = [worker EXCEPT ![w] = "calling"]
  OBVIOUS
<1>3. i \in Items
  BY DEF TypeOK
<1>4. Stored' = Stored /\ Done' = Done
  BY <1>2 DEF Stored, Done
<1>5. /\ worker'[w] = "calling" /\ item'[w] = i
      /\ \A v \in Workers \ {w} : worker'[v] = worker[v] /\ item'[v] = item[v]
      /\ Busy' = Busy \cup {w} /\ w \notin Busy
  BY <1>1, <1>2 DEF TypeOK, Busy
<1>6. TypeOK'
  <2>1. worker' \in [Workers -> {"idle", "calling", "saving", "dead"}]
    BY <1>2 DEF TypeOK
  <2>2. item' \in [Workers -> Items \cup {NoItem}]
    BY <1>1, <1>3 DEF TypeOK
  <2>3. QED
    BY <1>1, <1>2, <2>1, <2>2 DEF TypeOK
<1>7. Control' /\ Saving' /\ Verdict' /\ StatusMatchesRows' /\ Whole'
  BY <1>2, <1>4 DEF Control, Saving, Verdict, StatusMatchesRows, Whole
<1>8. Working'
  BY <1>1, <1>4, <1>5 DEF Working, Busy
<1>9. Results'
  BY <1>2, <1>5 DEF Results
<1>10. OnlyUnfinishedWork'
  <2>1. i \notin Done /\ rows[i] # "DONE"
    BY <1>3 DEF OnlyUnfinishedWork, Done
  <2>2. \A v \in Busy' : rows'[item'[v]] # "DONE" /\ item'[v] \notin todo'
    BY <1>1, <1>2, <1>5, <2>1 DEF OnlyUnfinishedWork, Busy
  <2>3. \A u, v \in Busy' : item'[u] = item'[v] => u = v
    BY <1>1, <1>5 DEF OnlyUnfinishedWork, Busy
  <2>4. QED
    BY <1>1, <1>4, <2>2, <2>3 DEF OnlyUnfinishedWork
<1>11. Successes'
  <2>1. \A j \in Items : SavingDone(j)' <=> SavingDone(j)
    BY <1>2, <1>5 DEF SavingDone
  <2>2. QED
    BY <1>2, <1>4, <2>1 DEF Successes
<1>12. QED
  BY <1>6, <1>7, <1>8, <1>9, <1>10, <1>11

(* fn succeeds only for an item whose earlier successes were all lost. *)
LEMMA RunOneStep ==
  ASSUME IInv, NEW w \in Workers, NEW ok \in BOOLEAN, RunOne(w, ok)
  PROVE  IInv'
<1> USE DEF IInv, RunOne, persistent
<1>0. worker[w] = "calling" /\ w \in Busy /\ item[w] \in Stored
  BY DEF Busy, Working
<1>i. PICK i \in Items : i = item[w]
  BY <1>0 DEF Stored
<1> DEFINE r == IF ok THEN "DONE" ELSE "FAILED"
<1>1. /\ rows' = rows /\ item' = item /\ todo' = todo /\ pc' = pc /\ worker[w] = "calling"
      /\ job' = job /\ verdict' = verdict /\ next' = next
      /\ crashes' = crashes /\ faults' = faults
      /\ worker' = [worker EXCEPT ![w] = "saving"]
      /\ result' = [result EXCEPT ![w] = r]
      /\ succeeded' = [succeeded EXCEPT ![i] = IF ok THEN @ + 1 ELSE @]
  BY <1>i
<1>2. r \in {"DONE", "FAILED"} /\ (r = "DONE" <=> ok)
  OBVIOUS
<1>3. w \in Busy /\ i \in Stored /\ i \in Items /\ i \notin Done
  BY <1>0, <1>i DEF OnlyUnfinishedWork, Done
<1>4. Stored' = Stored /\ Done' = Done /\ Busy' = Busy
  <2>1. \A v \in Workers : worker'[v] \in {"calling", "saving"} <=> worker[v] \in {"calling", "saving"}
    BY <1>1 DEF TypeOK
  <2>2. QED
    BY <1>1, <2>1 DEF Stored, Done, Busy
<1>5. /\ worker'[w] = "saving" /\ result'[w] = r
      /\ \A v \in Workers \ {w} : worker'[v] = worker[v] /\ result'[v] = result[v]
  BY <1>1 DEF TypeOK
<1>6. /\ succeeded'[i] = IF ok THEN succeeded[i] + 1 ELSE succeeded[i]
      /\ \A j \in Items \ {i} : succeeded'[j] = succeeded[j]
      /\ \A j \in Items : succeeded[j] \in Nat
      /\ succeeded' \in [Items -> Nat]
      /\ crashes \in Nat /\ faults \in Nat
  <2> HIDE DEF IInv, RunOne
  <2>1. succeeded \in [Items -> Nat] /\ crashes \in Nat /\ faults \in Nat
    BY DEF IInv, TypeOK
  <2>2. PICK n \in Nat : /\ n = IF ok THEN succeeded[i] + 1 ELSE succeeded[i]
                        /\ succeeded' = [succeeded EXCEPT ![i] = n]
    <3>1. CASE ok
      <4>1. succeeded' = [succeeded EXCEPT ![i] = succeeded[i] + 1]
        BY <1>1, <3>1
      <4>2. succeeded[i] + 1 \in Nat
        BY <2>1
      <4>3. QED
        BY <3>1, <4>1, <4>2
    <3>2. CASE ~ok
      BY <1>1, <2>1, <3>2
    <3>3. QED
      BY <3>1, <3>2
  <2>3. QED
    BY <2>1, <2>2
<1> HIDE DEF r
<1>7. TypeOK'
  <2>1. worker' \in [Workers -> {"idle", "calling", "saving", "dead"}]
    BY <1>1 DEF TypeOK
  <2>2. result' \in [Workers -> {"none", "DONE", "FAILED"}]
    BY <1>1, <1>2 DEF TypeOK
  <2>3. QED
    BY <1>1, <1>6, <2>1, <2>2 DEF TypeOK
<1>8. Control' /\ Saving' /\ Verdict' /\ StatusMatchesRows' /\ Whole' /\ Working' /\ OnlyUnfinishedWork'
  BY <1>1, <1>4 DEF Control, Saving, Verdict, StatusMatchesRows, Whole, Working, OnlyUnfinishedWork
<1>9. Results'
  BY <1>2, <1>5 DEF Results
<1>10. Successes'
  <2>1. ~SavingDone(i)
    BY <1>1, <1>3, <1>i DEF SavingDone, OnlyUnfinishedWork, Busy
  <2>2. SavingDone(i)' <=> ok
    <3>1. \A v \in Workers : item'[v] = i /\ worker'[v] = "saving" => v = w
      BY <1>1, <1>3, <1>5, <1>i DEF OnlyUnfinishedWork, Busy
    <3>2. QED
      BY <1>1, <1>2, <1>5, <1>i, <3>1 DEF SavingDone
  <2>3. \A j \in Items \ {i} : SavingDone(j)' <=> SavingDone(j)
    BY <1>1, <1>5, <1>i DEF SavingDone
  <2>4. \A j \in Items \ {i} : /\ succeeded'[j] <= 1 + crashes' + faults'
                               /\ succeeded'[j] = 1 + crashes' + faults' => j \in Done' \/ SavingDone(j)'
                               /\ j \in Done' \/ SavingDone(j)' => succeeded'[j] >= 1
    BY <1>1, <1>4, <1>6, <2>3 DEF Successes
  <2>5. /\ succeeded[i] <= crashes + faults /\ i \notin Done'
    BY <1>3, <1>4, <1>6, <2>1 DEF Successes
  <2>6. /\ succeeded'[i] <= 1 + crashes' + faults'
        /\ succeeded'[i] = 1 + crashes' + faults' => ok
        /\ ok => succeeded'[i] >= 1
    BY <1>1, <1>3, <1>6, <2>5
  <2>7. QED
    BY <2>2, <2>4, <2>5, <2>6 DEF Successes
<1>11. QED
  BY <1>7, <1>8, <1>9, <1>10

-----------------------------------------------------------------------------
(* Saving a result: the row of a busy worker's record is written, or not,  *)
(* and the worker goes back to the queue or ends.                          *)
LEMMA SaveResult ==
  ASSUME IInv, NEW w \in Workers,
         worker[w] = "saving",
         NEW after \in {"idle", "dead"},
         worker' = [worker EXCEPT ![w] = after],
         \/ WriteResult(w) /\ after = "idle" /\ faults' = faults
         \/ (WriteResult(w) \/ rows' = rows) /\ after = "dead" /\ faults' = faults + 1,
         job' = job, pc' = pc, next' = next, verdict' = verdict, todo' = todo, item' = item,
         result' = result, crashes' = crashes, succeeded' = succeeded
  PROVE  IInv'
<1> USE DEF IInv
<1>1. w \in Busy /\ item[w] \in Stored
  BY DEF Busy, Working
<1>2. PICK i \in Items : i = item[w]
  BY <1>1 DEF Stored
<1>3. result[w] \in {"DONE", "FAILED"}
  BY DEF Results
<1>4. rows' = [rows EXCEPT ![i] = result[w]] \/ rows' = rows
  BY <1>2 DEF WriteResult
<1>5. /\ \A j \in Items \ {i} : rows'[j] = rows[j]
      /\ rows'[i] = result[w] \/ rows'[i] = rows[i]
      /\ rows' \in [Items -> {"absent", "PENDING", "DONE", "FAILED"}]
  BY <1>3, <1>4 DEF TypeOK
<1>6. i \in Stored /\ i \notin Done /\ i \notin todo /\ pc = "execute"
  BY <1>1, <1>2 DEF OnlyUnfinishedWork, Done, Control
<1>7. Stored' = Stored
  <2>1. \A j \in Items : rows'[j] = "absent" <=> rows[j] = "absent"
    BY <1>3, <1>5, <1>6 DEF Stored
  <2>2. QED
    BY <2>1 DEF Stored
<1>8. /\ Done' = IF rows'[i] = "DONE" THEN Done \cup {i} ELSE Done
      /\ rows'[i] = "DONE" => result[w] = "DONE"
  BY <1>5, <1>6 DEF Done
<1>9. /\ worker'[w] = after /\ \A v \in Workers \ {w} : worker'[v] = worker[v]
      /\ Busy' = Busy \ {w}
  BY <1>1 DEF TypeOK, Busy
<1>10. TypeOK'
  <2>1. worker' \in [Workers -> {"idle", "calling", "saving", "dead"}]
    BY DEF TypeOK
  <2>2. faults' \in Nat
    BY DEF TypeOK
  <2>3. QED
    BY <1>5, <2>1, <2>2 DEF TypeOK
<1>11. Control' /\ Saving' /\ Verdict' /\ StatusMatchesRows' /\ Whole'
  BY <1>6, <1>7 DEF Control, InRun, Saving, Verdict, StatusMatchesRows, Whole
<1>12. Working' /\ Results'
  BY <1>7, <1>9 DEF Working, Results
<1>13. OnlyUnfinishedWork'
  <2>1. \A v \in Busy' : rows'[item'[v]] # "DONE" /\ item'[v] \notin todo'
    <3> SUFFICES ASSUME NEW v \in Busy' PROVE rows'[item'[v]] # "DONE" /\ item'[v] \notin todo'
      OBVIOUS
    <3>1. v \in Busy /\ v # w
      BY <1>9
    <3>2. item[v] # i /\ item[v] \in Items
      BY <1>1, <1>2, <3>1 DEF OnlyUnfinishedWork, Working, Stored
    <3>3. QED
      BY <1>5, <3>1, <3>2 DEF OnlyUnfinishedWork
  <2>2. todo' \cap Done' = {}
    BY <1>6, <1>8 DEF OnlyUnfinishedWork
  <2>3. QED
    BY <1>9, <2>1, <2>2 DEF OnlyUnfinishedWork
<1>14. Successes'
  <2>1. \A j \in Items \ {i} : (j \in Done' <=> j \in Done) /\ (SavingDone(j)' <=> SavingDone(j))
    BY <1>2, <1>8, <1>9 DEF SavingDone
  <2>2. ~SavingDone(i)'
    BY <1>1, <1>2, <1>9 DEF SavingDone, OnlyUnfinishedWork, Busy
  <2>3. (SavingDone(i) <=> result[w] = "DONE")
    BY <1>1, <1>2 DEF SavingDone, OnlyUnfinishedWork, Busy
  <2>4. /\ \A j \in Items : succeeded[j] \in Nat
        /\ crashes \in Nat /\ faults \in Nat
        /\ faults' = faults \/ faults' = faults + 1
        /\ faults' = faults => rows'[i] = result[w]
    BY <1>2, <1>3, <1>6 DEF TypeOK, WriteResult
  <2>5. \A j \in Items \ {i} : /\ succeeded'[j] <= 1 + crashes' + faults'
                               /\ succeeded'[j] = 1 + crashes' + faults' => j \in Done' \/ SavingDone(j)'
                               /\ j \in Done' \/ SavingDone(j)' => succeeded'[j] >= 1
    BY <2>1, <2>4 DEF Successes
  <2>6. /\ succeeded'[i] <= 1 + crashes' + faults'
        /\ succeeded'[i] = 1 + crashes' + faults' => i \in Done'
        /\ i \in Done' => succeeded'[i] >= 1
    BY <1>6, <1>8, <2>3, <2>4 DEF Successes
  <2>7. QED
    BY <2>2, <2>5, <2>6 DEF Successes
<1>15. QED
  BY <1>10, <1>11, <1>12, <1>13, <1>14

-----------------------------------------------------------------------------
(* The run ends or crashes: the store stays, the rest is forgotten. *)
LEMMA EndSteps ==
  ASSUME IInv, Report \/ Crash
  PROVE  IInv'
<1> USE DEF IInv, Report, Crash, Forget, persistent
<1>1. /\ rows' = rows /\ succeeded' = succeeded /\ faults' = faults
      /\ pc' = "idle" /\ next' = 1 /\ verdict' = "none" /\ todo' = {}
      /\ worker' = [w \in Workers |-> "idle"] /\ item' = [w \in Workers |-> NoItem]
      /\ result' = [w \in Workers |-> "none"]
      /\ crashes' = crashes \/ crashes' = crashes + 1
  OBVIOUS
<1>2. \/ Report /\ pc = "report" /\ job' = verdict /\ crashes' = crashes
      \/ Crash /\ job' = job /\ crashes' = crashes + 1 /\ (pc = "saving" => CrashWhileSaving)
  OBVIOUS
<1>3. Stored' = Stored /\ Done' = Done /\ Busy' = {}
  BY <1>1 DEF Stored, Done, Busy
<1>4. TypeOK'
  <2>1. job' \in {"none", "RUNNING", "PARTIAL", "COMPLETED"}
    BY <1>2 DEF TypeOK, Verdict
  <2>2. next' \in 1..(Total + 1) /\ crashes' \in Nat
    BY <1>1, BatchAssumption DEF TypeOK
  <2>3. QED
    BY <1>1, <2>1, <2>2 DEF TypeOK
<1>5. Control'
  BY <1>1, <1>2, <1>3 DEF Control, InRun, Verdict
<1>6. Saving' /\ Working' /\ Verdict' /\ Results' /\ OnlyUnfinishedWork'
  BY <1>1, <1>3 DEF Saving, Working, Verdict, Results, OnlyUnfinishedWork
<1>7. StatusMatchesRows'
  BY <1>2, <1>3 DEF StatusMatchesRows, Verdict
<1>8. Whole'
  BY <1>1, <1>2, <1>3 DEF Whole, Control, InRun
<1>9. Successes'
  <2>1. \A j \in Items : ~SavingDone(j)'
    BY <1>1 DEF SavingDone
  <2>2. Report => \A j \in Items : ~SavingDone(j)
    BY DEF SavingDone, Control, Busy
  <2>3. /\ \A j \in Items : succeeded[j] \in Nat
        /\ crashes \in Nat /\ faults \in Nat
    BY DEF TypeOK
  <2>4. \A j \in Items : /\ succeeded'[j] <= 1 + crashes' + faults'
                         /\ succeeded'[j] = 1 + crashes' + faults' => j \in Done'
                         /\ j \in Done' => succeeded'[j] >= 1
    BY <1>1, <1>2, <1>3, <2>2, <2>3 DEF Successes
  <2>5. QED
    BY <2>1, <2>4 DEF Successes
<1>10. QED
  BY <1>4, <1>5, <1>6, <1>7, <1>8, <1>9

-----------------------------------------------------------------------------
(* Every step of the batch keeps the inductive invariant. *)
LEMMA StepIInv == IInv /\ [Next]_vars => IInv'
<1> SUFFICES ASSUME IInv, [Next]_vars PROVE IInv'
  OBVIOUS
<1>1. CASE Begin \/ CreateJob \/ ResumeJob \/ MapReturns \/ Tally
  BY <1>1, ControlSteps
<1>2. CASE SaveRow
  BY <1>2, SaveRowStep
<1>3. CASE LoadPending
  BY <1>3, LoadPendingStep
<1>4. CASE \E w \in Workers : Take(w) \/ (\E ok \in BOOLEAN : RunOne(w, ok))
  BY <1>4, TakeStep, RunOneStep
<1>5. ASSUME NEW w \in Workers, OnResult(w) PROVE IInv'
  <2>1. "idle" \in {"idle", "dead"}
    OBVIOUS
  <2>2. QED
    BY <1>5, <2>1, SaveResult DEF OnResult
<1>6. ASSUME NEW w \in Workers, OnResultRaises(w) PROVE IInv'
  <2>1. "dead" \in {"idle", "dead"}
    OBVIOUS
  <2>2. QED
    BY <1>6, <2>1, SaveResult DEF OnResultRaises
<1>7. CASE Report \/ Crash
  BY <1>7, EndSteps
<1>8. CASE UNCHANGED vars
  <2>1. Stored' = Stored /\ Done' = Done /\ Busy' = Busy
    BY <1>8 DEF vars, persistent, pool, Stored, Done, Busy
  <2>2. TypeOK' /\ Control' /\ Saving' /\ Working' /\ Verdict' /\ Results'
    BY <1>8, <2>1 DEF IInv, vars, persistent, pool, TypeOK, Control, Saving, Working, Verdict, Results
  <2>3. OnlyUnfinishedWork' /\ StatusMatchesRows' /\ Successes' /\ Whole'
    BY <1>8, <2>1 DEF IInv, vars, persistent, pool, OnlyUnfinishedWork, StatusMatchesRows,
                      Successes, SavingDone, Whole
  <2>4. QED
    BY <2>2, <2>3 DEF IInv
<1>9. QED
  BY <1>1, <1>2, <1>3, <1>4, <1>5, <1>6, <1>7, <1>8 DEF Next, RunStep, WorkerStep

(* The inductive invariant holds throughout. *)
LEMMA InvariantIInv == Spec => []IInv
  BY InitIInv, StepIInv, PTL DEF Spec

(* Every variable of run(), the executor and the store keeps its type. *)
THEOREM TypeCorrect == Spec => []TypeOK
<1>1. IInv => TypeOK
  BY DEF IInv
<1>2. QED
  BY <1>1, InvariantIInv, PTL

(* Whatever crashes or fails, a worker only ever handles a record that is  *)
(* not DONE, and no record is handled by two workers.                      *)
THEOREM OnlyUnfinishedWorkHolds == Spec => []OnlyUnfinishedWork
<1>1. IInv => OnlyUnfinishedWork
  BY DEF IInv
<1>2. QED
  BY <1>1, InvariantIInv, PTL

(* fn succeeds for one item at most once more than there were crashes and  *)
(* lost result writes, and every DONE row stands for a success.            *)
THEOREM AtLeastOnceHolds == Spec => []AtLeastOnce
<1>1. IInv => AtLeastOnce
  BY DEF IInv, Successes, AtLeastOnce
<1>2. QED
  BY <1>1, InvariantIInv, PTL

(* The status stored for a job is true of its rows. *)
THEOREM StatusMatchesRowsHolds == Spec => []StatusMatchesRows
<1>1. IInv => StatusMatchesRows
  BY DEF IInv
<1>2. QED
  BY <1>1, InvariantIInv, PTL

-----------------------------------------------------------------------------
(* Each step of the batch is a step of the contract, or changes nothing    *)
(* the contract speaks of.                                                 *)
LEMMA StepImplements ==
  ASSUME ~CrashWhileSaving, IInv, [Next]_vars
  PROVE  [Promise!Next]_<<job, Done>>
<1> USE DEF persistent, pool
<1>1. CASE CreateJob \/ ResumeJob
  <2>1. job' = "RUNNING" /\ rows' = rows
    BY <1>1 DEF CreateJob, ResumeJob
  <2>2. Promise!Start
    BY <2>1 DEF Promise!Start, Done
  <2>3. QED
    BY <2>2 DEF Promise!Next
<1>2. CASE Begin \/ LoadPending \/ MapReturns \/ Tally \/ Crash \/ UNCHANGED vars
               \/ (\E w \in Workers : Take(w) \/ (\E ok \in BOOLEAN : RunOne(w, ok)))
  <2>1. job' = job /\ rows' = rows
    BY <1>2 DEF Begin, LoadPending, MapReturns, Tally, Crash, Take, RunOne, vars
  <2>2. QED
    BY <2>1 DEF Done
<1>3. CASE SaveRow
  <2>1. job' = job /\ pc = "saving" /\ rows' = [rows EXCEPT ![next] = "PENDING"]
    BY <1>3 DEF SaveRow
  <2>2. next \in Items /\ rows[next] = "absent"
    BY <2>1, BatchAssumption DEF IInv, Saving, Items
  <2>3. Done' = Done
    BY <2>1, <2>2 DEF IInv, TypeOK, Done
  <2>4. QED
    BY <2>1, <2>3
<1>4. ASSUME NEW w \in Workers, OnResult(w) \/ OnResultRaises(w)
      PROVE  [Promise!Next]_<<job, Done>>
  <2>1. worker[w] = "saving" /\ job' = job /\ (WriteResult(w) \/ rows' = rows)
    BY <1>4 DEF OnResult, OnResultRaises
  <2>2. w \in Busy /\ item[w] \in Stored
    BY <2>1 DEF IInv, Busy, Working
  <2>3. PICK i \in Items : i = item[w]
    BY <2>2 DEF Stored
  <2>4. job = "RUNNING" /\ i \notin Done
    BY <2>2, <2>3 DEF IInv, Control, InRun, OnlyUnfinishedWork, Done
  <2>5. rows' = rows \/ (rows' = [rows EXCEPT ![i] = result[w]])
    BY <2>1, <2>3 DEF WriteResult
  <2>6. Done' = Done \/ Done' = Done \cup {i}
    BY <2>4, <2>5 DEF IInv, TypeOK, Done
  <2>7. CASE Done' = Done
    BY <2>1, <2>7
  <2>8. CASE Done' = Done \cup {i}
    <3>1. Promise!FinishItem(i)
      BY <2>1, <2>4, <2>8 DEF Promise!FinishItem
    <3>2. QED
      BY <3>1 DEF Promise!Next
  <2>9. QED
    BY <2>6, <2>7, <2>8
<1>5. CASE Report
  <2>1. pc = "report" /\ job' = verdict /\ rows' = rows
    BY <1>5 DEF Report
  <2>2. job = "RUNNING" /\ Stored = Items
    BY <2>1 DEF IInv, Control, InRun, Whole
  <2>3. verdict = IF Done = Items THEN "COMPLETED" ELSE "PARTIAL"
    BY <2>1, <2>2 DEF IInv, Verdict, Done
  <2>4. Promise!Report
    BY <2>1, <2>2, <2>3 DEF Promise!Report, Done
  <2>5. QED
    BY <2>4 DEF Promise!Next
<1>6. QED
  BY <1>1, <1>2, <1>3, <1>4, <1>5 DEF Next, RunStep, WorkerStep

(* Unless a crash hits the loop that saves the item rows, the batch        *)
(* implements the contract ResumableJob: done items stay done, and         *)
(* COMPLETED is reported exactly when all items are done.                  *)
THEOREM ImplementsResumableJob ==
  ASSUME ~CrashWhileSaving
  PROVE  Spec => ResumableJobSpec
<1>1. Init => Promise!Init
  BY DEF Init, Promise!Init, Done
<1>2. IInv /\ [Next]_vars => [Promise!Next]_<<job, Done>>
  BY StepImplements
<1>3. QED
  BY <1>1, <1>2, InvariantIInv, PTL DEF Spec, ResumableJobSpec, Promise!Spec
=============================================================================
