---------------------------- MODULE ResumableJob ----------------------------
(***************************************************************************)
(* What a resumable batch promises its caller (claude_ai/orchestrator/     *)
(* batch.py): finished items stay finished, work happens only in a running *)
(* job, and a job is reported completed exactly when every item it was     *)
(* given is done.                                                          *)
(***************************************************************************)
CONSTANT Items    \* the indices of the items given to the first run()

VARIABLES phase,  \* none, or the job's reported status
          done    \* the finished items

Init == phase = "none" /\ done = {}

\* The first run(), or a later one that resumes the job.
Start ==
  /\ phase' = "RUNNING"
  /\ UNCHANGED done

FinishItem(i) ==
  /\ phase = "RUNNING"
  /\ i \notin done
  /\ done' = done \cup {i}
  /\ UNCHANGED phase

Report ==
  /\ phase = "RUNNING"
  /\ phase' = IF done = Items THEN "COMPLETED" ELSE "PARTIAL"
  /\ UNCHANGED done

Next == Start \/ Report \/ \E i \in Items : FinishItem(i)

Spec == Init /\ [][Next]_<<phase, done>>
=============================================================================
