---------------------------- MODULE AgentTaskQueue ----------------------------
(***************************************************************************)
(* The persistent queue of AI agent tasks: the ai_agent_tasks table        *)
(* (backend/shared/ai/task_queue.py), the worker processes that poll it    *)
(* (backend/shared/ai/worker.py) and the HTTP endpoints that enqueue,      *)
(* cancel and retry a task (backend/apps/ai_orchestrator/main.py).         *)
(*                                                                         *)
(* Every process talks to the table through a database session of its own. *)
(* A session keeps the row objects it has loaded.  Loading a row again     *)
(* does not refresh its object, commits do not expire it                   *)
(* (expire_on_commit=False), and a commit writes only the columns whose    *)
(* value differs from the one loaded.  Nothing locks a row between the     *)
(* load and the commit, so what a session decides on may be stale by the   *)
(* time it writes: Flush below is that write.                              *)
(***************************************************************************)
EXTENDS Naturals, FiniteSets

CONSTANTS
  Tasks,        \* task ids; their order is the order of created_at
  Unsupported,  \* the tasks whose agent_type the worker cannot resolve
  Workers,      \* processes running run_forever
  Cancellers,   \* slots for concurrent DELETE /tasks/{id} requests
  Retriers,     \* slots for concurrent POST /tasks/{id}/retry requests
  Results,      \* what an agent can return
  NoResult,     \* the NULL of the output column
  BatchSize,    \* how many pending tasks one poll fetches
  MaxRetries,   \* bound on the retries of one task
  MayAbort      \* whether sessions can die between two commits

ASSUME TasksAssumption == Tasks \subseteq Nat
ASSUME UnsupportedAssumption == Unsupported \subseteq Tasks
ASSUME CallersAssumption == Cancellers \cap Retriers = {}
ASSUME ResultsAssumption == NoResult \notin Results
ASSUME BoundsAssumption == BatchSize \in Nat \ {0} /\ MaxRetries \in Nat
ASSUME AbortAssumption == MayAbort \in BOOLEAN

VARIABLES
  row,    \* row[t]: the row of task t in the table, as committed
  pc,     \* pc[w]: where worker w is in its loop
  batch,  \* batch[w]: the tasks of w's current batch it has not finished
  view,   \* view[w][t]: the object w's session holds for a task of its batch
  calls   \* cancel and retry requests between their load and their commit

vars == <<row, pc, batch, view, calls>>

-----------------------------------------------------------------------------

Ended == {"completed", "failed", "cancelled"}
Status == {"absent", "pending", "running"} \cup Ended

\* Progress in tenths (the code writes 0.0, 0.1 and 1.0 only), timestamps as
\* whether they are set, error texts by their origin.
Row == [status : Status, progress : {0, 1, 10},
        error : {"none", "unsupported", "raised"},
        output : Results \cup {NoResult},
        started_at : BOOLEAN, completed_at : BOOLEAN,
        retry_count : 0..MaxRetries]

Call == [by : Cancellers \cup Retriers, task : Tasks, seen : Row]

Blank(status, retries) ==
  [status |-> status, progress |-> 0, error |-> "none", output |-> NoResult,
   started_at |-> FALSE, completed_at |-> FALSE, retry_count |-> retries]

Absent == Blank("absent", 0)
Fresh == Blank("pending", 0)

-----------------------------------------------------------------------------
(* What a session writes.                                                  *)

Column(cur, seen, new) == IF new = seen THEN cur ELSE new

\* Committing an object loaded as `seen' and changed to `new' over the row
\* `cur': only changed columns are written, and a completed_at stamped on the
\* way to an ended status is a new time, hence always a change.
Flush(cur, seen, new) ==
  [status       |-> Column(cur.status, seen.status, new.status),
   progress     |-> Column(cur.progress, seen.progress, new.progress),
   error        |-> Column(cur.error, seen.error, new.error),
   output       |-> Column(cur.output, seen.output, new.output),
   started_at   |-> Column(cur.started_at, seen.started_at, new.started_at),
   completed_at |-> \/ new.completed_at /\ new.status \in Ended
                    \/ Column(cur.completed_at, seen.completed_at, new.completed_at),
   retry_count  |-> Column(cur.retry_count, seen.retry_count, new.retry_count)]

\* Mutation of Updated: a cancelled task is not given an end time.
UpdatedUnstamped(seen, status, progress, error, output) ==
  [seen EXCEPT
     !.status = status,
     !.progress = progress,
     !.error = IF status = "completed" THEN "none"
               ELSE IF error = "none" THEN @ ELSE error,
     !.output = IF output = NoResult THEN @ ELSE output,
     !.started_at = @ \/ status = "running",
     !.completed_at = @ \/ status \in {"completed", "failed"}]

\* Mutation of Updated: a task starts when its first result is in.
UpdatedLateStart(seen, status, progress, error, output) ==
  [seen EXCEPT
     !.status = status,
     !.progress = progress,
     !.error = IF status = "completed" THEN "none"
               ELSE IF error = "none" THEN @ ELSE error,
     !.output = IF output = NoResult THEN @ ELSE output,
     !.started_at = @ \/ status = "completed",
     !.completed_at = @ \/ status \in Ended]

\* update_task_status on a loaded object; "none" and NoResult leave the
\* column as it is, as None does in the code.
Updated(seen, status, progress, error, output) ==
  [seen EXCEPT
     !.status = status,
     !.progress = progress,
     !.error = IF status = "completed" THEN "none"
               ELSE IF error = "none" THEN @ ELSE error,
     !.output = IF output = NoResult THEN @ ELSE output,
     !.started_at = @ \/ status = "running",
     !.completed_at = @ \/ status \in Ended]

\* Mutation of Reset: a retry that keeps the error text.
ResetKeepingError(seen) ==
  [Blank("pending", seen.retry_count + 1) EXCEPT !.error = seen.error]

\* retry_task_endpoint on a loaded object.
Reset(seen) == Blank("pending", seen.retry_count + 1)

-----------------------------------------------------------------------------

Init ==
  /\ row = [t \in Tasks |-> Absent]
  /\ pc = [w \in Workers |-> "idle"]
  /\ batch = [w \in Workers |-> {}]
  /\ view = [w \in Workers |-> [t \in Tasks |-> Absent]]
  /\ calls = {}

-----------------------------------------------------------------------------
(* The endpoints.                                                          *)

Enqueue(t) ==
  /\ row[t] = Absent
  /\ row' = [row EXCEPT ![t] = Fresh]
  /\ UNCHANGED <<pc, batch, view, calls>>

\* A request loads the row and, unless the status is one of `from' (else
\* it answers 409), goes on to write.
Load(r, t, from) ==
  /\ \A c \in calls : c.by # r
  /\ row[t].status \in from
  /\ calls' = calls \cup {[by |-> r, task |-> t, seen |-> row[t]]}
  /\ UNCHANGED <<row, pc, batch, view>>

LoadCancel(r, t) == Load(r, t, {"pending", "running"})

\* Mutation of LoadRetry: a completed task may be retried too.
LoadRetryOfEnded(r, t) ==
  /\ row[t].retry_count < MaxRetries
  /\ Load(r, t, Ended)

LoadRetry(r, t) ==
  /\ row[t].retry_count < MaxRetries
  /\ Load(r, t, {"failed", "cancelled"})

Write(c, new) ==
  /\ row' = [row EXCEPT ![c.task] = Flush(@, c.seen, new)]
  /\ calls' = calls \ {c}
  /\ UNCHANGED <<pc, batch, view>>

\* Mutation of CommitCancel: the other spelling.
CommitCancelMisspelt(c) ==
  /\ c.by \in Cancellers
  /\ Write(c, Updated(c.seen, "canceled", c.seen.progress, c.seen.error, NoResult))

\* Mutation of CommitCancel: a cancelled task gives up its output.
CommitCancelClearing(c) ==
  /\ c.by \in Cancellers
  /\ Write(c, [Updated(c.seen, "cancelled", c.seen.progress, c.seen.error, NoResult)
                 EXCEPT !.output = NoResult])

CommitCancel(c) ==
  /\ c.by \in Cancellers
  /\ Write(c, Updated(c.seen, "cancelled", c.seen.progress, c.seen.error, NoResult))

CommitRetry(c) ==
  /\ c.by \in Retriers
  /\ Write(c, Reset(c.seen))

\* The request dies between its load and its commit.
DropCall(c) ==
  /\ MayAbort
  /\ calls' = calls \ {c}
  /\ UNCHANGED <<row, pc, batch, view>>

-----------------------------------------------------------------------------
(* The worker loop.                                                        *)

Pending == {t \in Tasks : row[t].status = "pending"}

Oldest(S) == {t \in S : Cardinality({u \in S : u < t}) < BatchSize}

\* One query loads the whole batch into the session that will run it.
Fetch(w) ==
  /\ pc[w] = "idle"
  /\ Pending # {}
  /\ pc' = [pc EXCEPT ![w] = "batch"]
  /\ batch' = [batch EXCEPT ![w] = Oldest(Pending)]
  /\ view' = [view EXCEPT ![w] =
                [t \in Tasks |-> IF t \in Oldest(Pending) THEN row[t] ELSE Absent]]
  /\ UNCHANGED <<row, calls>>

\* The task of the batch that w is at.
At(w, t) == t \in batch[w] /\ \A u \in batch[w] : t <= u

\* The worker commits `new' for its current task ...
Store(w, t, new) == row' = [row EXCEPT ![t] = Flush(@, view[w][t], new)]

\* ... and, when that ends the task, turns to the next one of the batch.
TurnFrom(w, t) ==
  /\ batch' = [batch EXCEPT ![w] = @ \ {t}]
  /\ view' = [view EXCEPT ![w][t] = Absent]
  /\ pc' = [pc EXCEPT ![w] = IF batch[w] = {t} THEN "idle" ELSE "batch"]
  /\ UNCHANGED calls

\* The status test at the head of _run_single_task reads the object loaded by
\* Fetch, whose status is pending: it never returns early.
RejectTask(w, t) ==
  /\ pc[w] = "batch" /\ At(w, t) /\ t \in Unsupported
  /\ Store(w, t, Updated(view[w][t], "failed", 0, "unsupported", NoResult))
  /\ TurnFrom(w, t)

StartTask(w, t) ==
  /\ pc[w] = "batch" /\ At(w, t) /\ t \notin Unsupported
  /\ Store(w, t, Updated(view[w][t], "running", 1, "none", NoResult))
  /\ pc' = [pc EXCEPT ![w] = "started"]
  /\ UNCHANGED <<batch, view, calls>>

\* db.refresh after the commit is a query of its own.
Refresh(w, t) ==
  /\ pc[w] = "started" /\ At(w, t)
  /\ view' = [view EXCEPT ![w][t] = row[t]]
  /\ pc' = [pc EXCEPT ![w] = "agent"]
  /\ UNCHANGED <<row, batch, calls>>

CompleteTask(w, t, res) ==
  /\ pc[w] = "agent" /\ At(w, t)
  /\ Store(w, t, Updated(view[w][t], "completed", 10, "none", res))
  /\ TurnFrom(w, t)

\* Mutation of FailTask: the exception is logged but not recorded.
FailTaskUnrecorded(w, t) ==
  /\ pc[w] = "agent" /\ At(w, t)
  /\ TurnFrom(w, t)
  /\ UNCHANGED row

FailTask(w, t) ==
  /\ pc[w] = "agent" /\ At(w, t)
  /\ Store(w, t, Updated(view[w][t], "failed", 0, "raised", NoResult))
  /\ TurnFrom(w, t)

\* A database error, a cancellation or the death of the process between two
\* commits: the rest of the batch is forgotten, the loop polls again.
Abort(w) ==
  /\ MayAbort
  /\ pc[w] # "idle"
  /\ pc' = [pc EXCEPT ![w] = "idle"]
  /\ batch' = [batch EXCEPT ![w] = {}]
  /\ view' = [view EXCEPT ![w] = [t \in Tasks |-> Absent]]
  /\ UNCHANGED <<row, calls>>

-----------------------------------------------------------------------------

WorkerStep(w) ==
  \/ Fetch(w)
  \/ \E t \in Tasks :
       \/ RejectTask(w, t)
       \/ StartTask(w, t)
       \/ Refresh(w, t)
       \/ FailTask(w, t)
       \/ \E res \in Results : CompleteTask(w, t, res)

RequestStep ==
  \/ \E t \in Tasks : Enqueue(t)
  \/ \E t \in Tasks, r \in Cancellers : LoadCancel(r, t)
  \/ \E t \in Tasks, r \in Retriers : LoadRetry(r, t)
  \/ \E c \in calls : CommitCancel(c) \/ CommitRetry(c)

Fault ==
  \/ \E w \in Workers : Abort(w)
  \/ \E c \in calls : DropCall(c)

Next == (\E w \in Workers : WorkerStep(w)) \/ RequestStep \/ Fault

Spec == Init /\ [][Next]_vars

\* run_forever polls again after every batch and every error, and an agent's
\* process_task returns or raises: a worker that can step does.
Fairness == \A w \in Workers : WF_vars(WorkerStep(w))

FairSpec == Spec /\ Fairness

-----------------------------------------------------------------------------
(* Properties.                                                             *)

\* Every variable has its type, whatever sessions race.
TypeOK ==
  /\ row \in [Tasks -> Row]
  /\ pc \in [Workers -> {"idle", "batch", "started", "agent"}]
  /\ batch \in [Workers -> SUBSET Tasks]
  /\ view \in [Workers -> [Tasks -> Row]]
  /\ calls \subseteq Call

\* A task that has ended says when: completed_at is set in every completed,
\* failed or cancelled row (update_task_status's docstring), whatever the
\* sessions that raced to write it had loaded.
EndIsStamped == \A t \in Tasks : row[t].status \in Ended => row[t].completed_at

\* GET /tasks/{id}/result has something to return: a completed row that was
\* never retried keeps an output, however many workers ran the task and
\* whoever cancelled it meanwhile.
CompletedHasOutput ==
  \A t \in Tasks : row[t].status = "completed" /\ row[t].retry_count = 0
                     => row[t].output # NoResult

\* A row shown as running that was never retried has a start time, even when
\* a stale commit revived a task that had ended.
RunningIsStarted ==
  \A t \in Tasks : row[t].status = "running" /\ row[t].retry_count = 0
                     => row[t].started_at

\* Where no two sessions race for a task, the columns of a row agree with its
\* status: an error exactly when failed, an output and full progress exactly
\* when completed, an end time exactly when ended, nothing left over after a
\* retry.
RowMatchesStatus ==
  \A t \in Tasks :
    LET r == row[t] IN
    /\ r.error # "none" <=> r.status = "failed"
    /\ r.output # NoResult <=> r.status = "completed"
    /\ r.progress = 10 <=> r.status = "completed"
    /\ r.completed_at <=> r.status \in Ended
    /\ r.status \in {"running", "completed"} => r.started_at
    /\ r.status = "pending" => ~r.started_at /\ r.progress = 0

\* What a reader of the table sees of each task.
TaskStatus == [t \in Tasks |-> row[t].status]

Lifecycle == INSTANCE TaskLifecycle WITH status <- TaskStatus

\* Every change of a task's status, as the database shows it, is one the
\* header of task_queue.py allows.
DocumentedLifecycle == Lifecycle!Spec

\* A retried task carries no result of an earlier cycle (the comment in
\* retry_task_endpoint).
PendingHasNoOutput ==
  \A t \in Tasks : row[t].status = "pending" => row[t].output = NoResult

\* While no session dies, a task that is pending is brought to an end, even
\* when workers, cancels and retries overwrite each other's status.
Settles ==
  \A t \in Tasks : row[t].status = "pending" ~> row[t].status \in Ended
=============================================================================
