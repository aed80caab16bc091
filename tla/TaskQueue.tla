------------------------------ MODULE TaskQueue ------------------------------
(***************************************************************************)
(* The queue shellder.task: TaskQueueService adds jobs with three attempts *)
(* and no job id of its own, so one task may have several jobs.  Jobs      *)
(* bounds how many.                                                        *)
(***************************************************************************)
EXTENDS TaskStore, BullQueue

\* TaskQueueService.enqueue: a new job; its id, written back to the task row,
\* is read by nobody and left out.
Enqueue == \E j \in Jobs : jobState[j] = "free" /\ AddJob(j)
=============================================================================
