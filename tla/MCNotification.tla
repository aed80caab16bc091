--------------------------- MODULE MCNotification ----------------------------
(***************************************************************************)
(* Instances of Notification for TLC: a task that completes twice, or that *)
(* awaits two approvals, and an approval that belongs to no task.          *)
(***************************************************************************)
EXTENDS Notification

AllEvents == {"first", "second", "lone"}
AllJobs == {"of_task", "of_approval"}
JobIds == [e \in AllEvents |-> IF e = "lone" THEN "of_approval" ELSE "of_task"]
TaskJobs == {"of_task"}

EachOnce == [f \in FaultKind |-> 1]
=============================================================================
