---------------------------- MODULE TaskLifecycle ----------------------------
(***************************************************************************)
(* What the AI task queue promises of a task's status, seen by a client    *)
(* that only reads it: the state machine drawn in the header of            *)
(* backend/shared/ai/task_queue.py, where cancelling is possible from      *)
(* pending and running only and retrying from failed and cancelled only.   *)
(* A task whose agent type no worker supports fails without having run.    *)
(***************************************************************************)
CONSTANT Tasks

VARIABLE status

Ended == {"completed", "failed", "cancelled"}

Init == status = [t \in Tasks |-> "absent"]

Move(t, from, to) ==
  /\ status[t] \in from
  /\ status' = [status EXCEPT ![t] = to]

Submit(t)   == Move(t, {"absent"}, "pending")
Start(t)    == Move(t, {"pending"}, "running")
Complete(t) == Move(t, {"running"}, "completed")
Fail(t)     == Move(t, {"pending", "running"}, "failed")
Cancel(t)   == Move(t, {"pending", "running"}, "cancelled")
Retry(t)    == Move(t, {"failed", "cancelled"}, "pending")

Next ==
  \E t \in Tasks :
    Submit(t) \/ Start(t) \/ Complete(t) \/ Fail(t) \/ Cancel(t) \/ Retry(t)

Spec == Init /\ [][Next]_status
=============================================================================
