------------------------- MODULE AgentTaskQueueProofs -------------------------
(***************************************************************************)
(* What holds of the task queue for any number of tasks, workers and       *)
(* concurrent cancel and retry requests, and, where nobody races for a     *)
(* task, that the queue implements the documented life cycle.              *)
(***************************************************************************)
EXTENDS AgentTaskQueue, TLAPS

-----------------------------------------------------------------------------
(* One row.                                                                *)

Errors == {"none", "unsupported", "raised"}
Outputs == Results \cup {NoResult}

\* What the safety invariants ask of a single row.
Sound(r) ==
  /\ r.status \in Ended => r.completed_at
  /\ r.status = "completed" /\ r.retry_count = 0 => r.output # NoResult
  /\ r.status = "running" /\ r.retry_count = 0 => r.started_at

\* What r says of a first cycle, q says too: an output and a start time are
\* never lost before the first retry.
Kept(r, q) ==
  q.retry_count = 0 =>
    /\ r.retry_count = 0
    /\ r.output # NoResult => q.output # NoResult
    /\ r.started_at => q.started_at

\* The object update_task_status commits is a row.
LEMMA UpdatedType ==
  ASSUME NEW seen \in Row, NEW status \in Status, NEW progress \in {0, 1, 10},
         NEW error \in Errors, NEW output \in Outputs
  PROVE  Updated(seen, status, progress, error, output) \in Row
  <1> DEFINE e == IF status = "completed" THEN "none"
                  ELSE IF error = "none" THEN seen.error ELSE error
  <1> DEFINE o == IF output = NoResult THEN seen.output ELSE output
  <1> DEFINE b == seen.started_at \/ status = "running"
  <1> DEFINE c == seen.completed_at \/ status \in Ended
  <1>1. e \in Errors
    BY DEF Row, Errors
  <1>2. o \in Outputs
    BY DEF Row, Outputs
  <1>3. b \in BOOLEAN /\ c \in BOOLEAN
    OBVIOUS
  <1>4. seen.retry_count \in 0..MaxRetries
    BY DEF Row
  <1>5. Updated(seen, status, progress, error, output) =
          [seen EXCEPT !.status = status, !.progress = progress, !.error = e,
                       !.output = o, !.started_at = b, !.completed_at = c]
    BY Zenon DEF Updated
  <1> HIDE DEF e, o, b, c
  <1> QED BY <1>1, <1>2, <1>3, <1>4, <1>5 DEF Row, Errors, Outputs

\* The columns of the object update_task_status commits.
LEMMA UpdatedFields ==
  ASSUME NEW seen \in Row, NEW status, NEW progress, NEW error, NEW output
  PROVE  LET upd == Updated(seen, status, progress, error, output) IN
         /\ upd.status = status
         /\ upd.progress = progress
         /\ upd.error = IF status = "completed" THEN "none"
                        ELSE IF error = "none" THEN seen.error ELSE error
         /\ upd.output = IF output = NoResult THEN seen.output ELSE output
         /\ upd.started_at = (seen.started_at \/ status = "running")
         /\ upd.completed_at = (seen.completed_at \/ status \in Ended)
         /\ upd.retry_count = seen.retry_count
  BY DEF Updated, Row

\* So is what a commit leaves in the table.
LEMMA FlushType ==
  ASSUME NEW cur \in Row, NEW seen \in Row, NEW new \in Row
  PROVE  Flush(cur, seen, new) \in Row
  BY DEF Flush, Column, Row

\* So is the object a retry commits.
LEMMA ResetType ==
  ASSUME NEW seen \in Row, seen.retry_count < MaxRetries
  PROVE  Reset(seen) \in Row
  <1>1. seen.retry_count + 1 \in 0..MaxRetries
    BY BoundsAssumption DEF Row
  <1> QED BY <1>1 DEF Reset, Blank, Row, Status

\* A status update based on a copy that lost nothing, however stale, leaves a
\* sound row that lost nothing.
LEMMA UpdateSound ==
  ASSUME NEW cur \in Row, NEW seen \in Row, Sound(cur), Kept(seen, cur),
         NEW status \in {"running"} \cup Ended, NEW progress \in {0, 1, 10},
         NEW error \in Errors, NEW output \in Outputs,
         status = "completed" => output \in Results
  PROVE  LET new == Flush(cur, seen, Updated(seen, status, progress, error, output))
         IN  Sound(new) /\ Kept(cur, new)
  <1> DEFINE upd == Updated(seen, status, progress, error, output)
             new == Flush(cur, seen, upd)
  <1>1. /\ upd.status = status
        /\ upd.output = IF output = NoResult THEN seen.output ELSE output
        /\ upd.started_at = (seen.started_at \/ status = "running")
        /\ upd.completed_at = (seen.completed_at \/ status \in Ended)
        /\ upd.retry_count = seen.retry_count
    BY UpdatedFields
  <1>2. /\ new.status = Column(cur.status, seen.status, upd.status)
        /\ new.output = Column(cur.output, seen.output, upd.output)
        /\ new.started_at = Column(cur.started_at, seen.started_at, upd.started_at)
        /\ new.completed_at = \/ upd.completed_at /\ upd.status \in Ended
                              \/ Column(cur.completed_at, seen.completed_at, upd.completed_at)
        /\ new.retry_count = Column(cur.retry_count, seen.retry_count, upd.retry_count)
    BY DEF Flush
  <1>3. new.retry_count = cur.retry_count
    BY <1>1, <1>2 DEF Column
  <1>4. Kept(cur, new)
    BY <1>1, <1>2, <1>3, ResultsAssumption DEF Kept, Column, Row
  <1>5. new.status \in Ended => new.completed_at
    BY <1>1, <1>2 DEF Sound, Column, Row, Ended
  <1>6. new.status = "completed" /\ new.retry_count = 0 => new.output # NoResult
    BY <1>1, <1>2, <1>3, ResultsAssumption DEF Sound, Kept, Column, Row, Ended
  <1>7. new.status = "running" /\ new.retry_count = 0 => new.started_at
    BY <1>1, <1>2, <1>3 DEF Sound, Kept, Column, Row, Ended
  <1> QED BY <1>4, <1>5, <1>6, <1>7 DEF Sound

\* So does a retry that found the task failed or cancelled.
LEMMA ResetSound ==
  ASSUME NEW cur \in Row, NEW seen \in Row, Sound(cur),
         seen.status \in {"failed", "cancelled"}
  PROVE  LET new == Flush(cur, seen, Reset(seen))
         IN  Sound(new) /\ Kept(cur, new)
  <1> DEFINE new == Flush(cur, seen, Reset(seen))
  <1>1. new.status = "pending"
    BY DEF Flush, Column, Reset, Blank
  <1>2. new.retry_count = seen.retry_count + 1 /\ new.retry_count # 0
    BY DEF Flush, Column, Reset, Blank, Row
  <1> QED BY <1>1, <1>2 DEF Sound, Kept, Ended

-----------------------------------------------------------------------------
(* Any number of sessions.                                                 *)

\* Every copy of a row that a session may still write back has lost nothing
\* that the row has not; a retry decided on a row that had ended.
CopiesOK ==
  /\ \A w \in Workers, t \in Tasks : Kept(view[w][t], row[t])
  /\ \A c \in calls : Kept(c.seen, row[c.task])
  /\ \A c \in calls : c.by \in Retriers =>
       c.seen.status \in {"failed", "cancelled"} /\ c.seen.retry_count < MaxRetries

IInv == TypeOK /\ CopiesOK /\ \A t \in Tasks : Sound(row[t])

LEMMA InitIInv == Init => IInv
  <1> SUFFICES ASSUME Init PROVE IInv
    OBVIOUS
  <1>1. Absent \in Row
    BY BoundsAssumption DEF Absent, Blank, Row, Status
  <1>2. TypeOK
    BY <1>1 DEF Init, TypeOK
  <1>3. CopiesOK
    BY DEF Init, CopiesOK, Kept, Absent, Blank
  <1>4. \A t \in Tasks : Sound(row[t])
    BY DEF Init, Sound, Absent, Blank, Ended
  <1> QED BY <1>2, <1>3, <1>4 DEF IInv

\* Replacing one row by one that is sound and lost nothing keeps every copy
\* good.
LEMMA WriteKeepsRows ==
  ASSUME TypeOK, CopiesOK, \A t \in Tasks : Sound(row[t]),
         NEW t \in Tasks, NEW new \in Row, Sound(new), Kept(row[t], new),
         row' = [row EXCEPT ![t] = new]
  PROVE  /\ row' \in [Tasks -> Row]
         /\ \A u \in Tasks : Sound(row'[u])
         /\ \A w \in Workers, u \in Tasks : Kept(view[w][u], row'[u])
         /\ \A c \in calls : Kept(c.seen, row'[c.task])
  <1>1. row' \in [Tasks -> Row]
    BY DEF TypeOK
  <1>2. \A u \in Tasks : row'[u] = IF u = t THEN new ELSE row[u]
    BY DEF TypeOK
  <1>3. \A u \in Tasks : Sound(row'[u])
    BY <1>2
  <1>4. \A r, u : u \in Tasks /\ Kept(r, row[u]) => Kept(r, row'[u])
    BY <1>2 DEF Kept
  <1>5. \A c \in calls : c.task \in Tasks
    BY DEF TypeOK, Call
  <1> QED BY <1>1, <1>3, <1>4, <1>5 DEF CopiesOK

\* A status update that a session commits, based on a copy it holds.
LEMMA UpdateStep ==
  ASSUME TypeOK, CopiesOK, \A t \in Tasks : Sound(row[t]),
         NEW t \in Tasks, NEW seen \in Row, Kept(seen, row[t]),
         NEW status \in {"running"} \cup Ended, NEW progress \in {0, 1, 10},
         NEW error \in Errors, NEW output \in Outputs,
         status = "completed" => output \in Results,
         row' = [row EXCEPT ![t] =
                   Flush(@, seen, Updated(seen, status, progress, error, output))]
  PROVE  /\ row' \in [Tasks -> Row]
         /\ \A u \in Tasks : Sound(row'[u])
         /\ \A w \in Workers, u \in Tasks : Kept(view[w][u], row'[u])
         /\ \A c \in calls : Kept(c.seen, row'[c.task])
  <1> DEFINE new == Flush(row[t], seen, Updated(seen, status, progress, error, output))
  <1>1. row[t] \in Row /\ status \in Status
    BY DEF TypeOK, Status
  <1>2. new \in Row
    BY <1>1, UpdatedType, FlushType
  <1>3. Sound(new) /\ Kept(row[t], new)
    BY <1>1, UpdateSound
  <1>4. row' = [row EXCEPT ![t] = new]
    OBVIOUS
  <1> HIDE DEF new
  <1> QED BY <1>2, <1>3, <1>4, WriteKeepsRows

\* The invariant follows from what a step leaves of the rows, the copies and
\* the workers' books.
LEMMA Assemble ==
  ASSUME TypeOK', \A t \in Tasks : Sound(row'[t]),
         \A w \in Workers, t \in Tasks : Kept(view'[w][t], row'[t]),
         \A c \in calls' : Kept(c.seen, row'[c.task]),
         \A c \in calls' : c.by \in Retriers =>
           c.seen.status \in {"failed", "cancelled"} /\ c.seen.retry_count < MaxRetries
  PROVE  IInv'
  BY DEF IInv, CopiesOK

LEMMA AbsentFacts ==
  /\ Absent \in Row /\ Fresh \in Row
  /\ Sound(Fresh) /\ Kept(Absent, Fresh)
  /\ \A r : Kept(Absent, r) \/ r.retry_count = 0
  /\ \A r : Kept(Absent, r)
  BY BoundsAssumption DEF Absent, Fresh, Blank, Row, Status, Sound, Kept, Ended

\* When a worker is done with a task, its books stay in order.
LEMMA TurnKeeps ==
  ASSUME IInv, NEW w \in Workers, NEW t \in Tasks, TurnFrom(w, t),
         row' \in [Tasks -> Row], \A u \in Tasks : Sound(row'[u]),
         \A v \in Workers, u \in Tasks : Kept(view[v][u], row'[u]),
         \A c \in calls : Kept(c.seen, row'[c.task])
  PROVE  IInv'
  <1>1. \A v \in Workers, u \in Tasks :
          view'[v][u] = IF v = w /\ u = t THEN Absent ELSE view[v][u]
    BY DEF IInv, TypeOK, TurnFrom
  <1>2. view' \in [Workers -> [Tasks -> Row]]
    BY AbsentFacts DEF IInv, TypeOK, TurnFrom
  <1>3. TypeOK'
    BY <1>2 DEF IInv, TypeOK, TurnFrom
  <1>4. \A v \in Workers, u \in Tasks : Kept(view'[v][u], row'[u])
    BY <1>1, AbsentFacts
  <1>5. calls' = calls
    BY DEF TurnFrom
  <1> QED BY <1>3, <1>4, <1>5, Assemble DEF IInv, CopiesOK

LEMMA NextIInv == IInv /\ [Next]_vars => IInv'
  <1> SUFFICES ASSUME IInv, [Next]_vars PROVE IInv'
    OBVIOUS
  <1>0. /\ TypeOK /\ CopiesOK /\ \A t \in Tasks : Sound(row[t])
        /\ \A t \in Tasks : row[t] \in Row
        /\ \A w \in Workers, t \in Tasks : view[w][t] \in Row
        /\ \A w \in Workers, t \in Tasks : Kept(view[w][t], row[t])
        /\ \A c \in calls : c.task \in Tasks /\ c.seen \in Row
    BY DEF IInv, TypeOK, Call, CopiesOK
  <1>1. ASSUME NEW t \in Tasks, Enqueue(t) PROVE IInv'
    <2>1. /\ row' \in [Tasks -> Row]
          /\ \A u \in Tasks : Sound(row'[u])
          /\ \A w \in Workers, u \in Tasks : Kept(view[w][u], row'[u])
          /\ \A c \in calls : Kept(c.seen, row'[c.task])
      <3>1. row' = [row EXCEPT ![t] = Fresh] /\ row[t] = Absent
        BY <1>1 DEF Enqueue
      <3> QED BY <1>0, <3>1, AbsentFacts, WriteKeepsRows
    <2>2. TypeOK'
      BY <1>0, <1>1, <2>1 DEF TypeOK, Enqueue
    <2> QED BY <1>0, <1>1, <2>1, <2>2, Assemble DEF Enqueue, CopiesOK
  <1>2. ASSUME NEW t \in Tasks, NEW r \in Cancellers, LoadCancel(r, t) PROVE IInv'
    <2>1. TypeOK'
      BY <1>0, <1>2 DEF TypeOK, LoadCancel, Load, Call
    <2>2. \A c \in calls' : Kept(c.seen, row'[c.task])
      BY <1>0, <1>2 DEF CopiesOK, LoadCancel, Load, Kept
    <2>3. r \notin Retriers
      BY CallersAssumption
    <2>4. \A c \in calls' : c.by \in Retriers =>
            c.seen.status \in {"failed", "cancelled"} /\ c.seen.retry_count < MaxRetries
      BY <1>0, <1>2, <2>3 DEF CopiesOK, LoadCancel, Load
    <2> QED BY <1>0, <1>2, <2>1, <2>2, <2>4, Assemble DEF CopiesOK, LoadCancel, Load
  <1>3. ASSUME NEW t \in Tasks, NEW r \in Retriers, LoadRetry(r, t) PROVE IInv'
    <2>1. TypeOK'
      BY <1>0, <1>3 DEF TypeOK, LoadRetry, Load, Call
    <2>2. \A c \in calls' : Kept(c.seen, row'[c.task])
      BY <1>0, <1>3 DEF CopiesOK, LoadRetry, Load, Kept
    <2>3. \A c \in calls' : c.by \in Retriers =>
            c.seen.status \in {"failed", "cancelled"} /\ c.seen.retry_count < MaxRetries
      BY <1>0, <1>3 DEF CopiesOK, LoadRetry, Load
    <2> QED BY <1>0, <1>3, <2>1, <2>2, <2>3, Assemble DEF CopiesOK, LoadRetry, Load
  <1>4. ASSUME NEW c \in calls, CommitCancel(c) PROVE IInv'
    <2>1. /\ row' \in [Tasks -> Row]
          /\ \A u \in Tasks : Sound(row'[u])
          /\ \A w \in Workers, u \in Tasks : Kept(view[w][u], row'[u])
          /\ \A d \in calls : Kept(d.seen, row'[d.task])
      <3>1. row' = [row EXCEPT ![c.task] = Flush(@, c.seen,
                      Updated(c.seen, "cancelled", c.seen.progress, c.seen.error, NoResult))]
        BY <1>4 DEF CommitCancel, Write
      <3>2. /\ c.seen.progress \in {0, 1, 10} /\ c.seen.error \in Errors
            /\ Kept(c.seen, row[c.task]) /\ c.seen \in Row /\ c.task \in Tasks
            /\ "cancelled" \in {"running"} \cup Ended /\ NoResult \in Outputs
            /\ "cancelled" # "completed"
        BY <1>0 DEF Row, Errors, CopiesOK, Ended, Outputs
      <3> QED BY <1>0, <3>1, <3>2, UpdateStep
    <2>2. TypeOK'
      BY <1>0, <1>4, <2>1 DEF TypeOK, CommitCancel, Write
    <2> QED BY <1>0, <1>4, <2>1, <2>2, Assemble DEF CommitCancel, Write, CopiesOK
  <1>5. ASSUME NEW c \in calls, CommitRetry(c) PROVE IInv'
    <2>1. /\ row' \in [Tasks -> Row]
          /\ \A u \in Tasks : Sound(row'[u])
          /\ \A w \in Workers, u \in Tasks : Kept(view[w][u], row'[u])
          /\ \A d \in calls : Kept(d.seen, row'[d.task])
      <3> DEFINE new == Flush(row[c.task], c.seen, Reset(c.seen))
      <3>1. row' = [row EXCEPT ![c.task] = new]
        BY <1>5 DEF CommitRetry, Write
      <3>2. c.seen.status \in {"failed", "cancelled"} /\ c.seen.retry_count < MaxRetries
        BY <1>0, <1>5 DEF CopiesOK, CommitRetry
      <3>3. new \in Row
        BY <1>0, <3>2, ResetType, FlushType
      <3>4. Sound(new) /\ Kept(row[c.task], new)
        BY <1>0, <3>2, ResetSound
      <3> HIDE DEF new
      <3> QED BY <1>0, <3>1, <3>3, <3>4, WriteKeepsRows
    <2>2. TypeOK'
      BY <1>0, <1>5, <2>1 DEF TypeOK, CommitRetry, Write
    <2> QED BY <1>0, <1>5, <2>1, <2>2, Assemble DEF CommitRetry, Write, CopiesOK
  <1>6. ASSUME NEW c \in calls, DropCall(c) PROVE IInv'
    <2>1. TypeOK'
      BY <1>0, <1>6 DEF TypeOK, DropCall
    <2> QED BY <1>0, <1>6, <2>1, Assemble DEF DropCall, CopiesOK
  <1>7. ASSUME NEW w \in Workers, Fetch(w) PROVE IInv'
    <2>1. \A v \in Workers, t \in Tasks :
            view'[v][t] \in {view[v][t], row[t], Absent}
      BY <1>0, <1>7 DEF Fetch, TypeOK
    <2>2. view' \in [Workers -> [Tasks -> Row]]
      BY <1>0, <1>7, AbsentFacts DEF Fetch, TypeOK
    <2>3. TypeOK'
      BY <1>0, <1>7, <2>2 DEF Fetch, TypeOK, Oldest, Pending
    <2>4. \A v \in Workers, t \in Tasks : Kept(view'[v][t], row'[t])
      BY <1>0, <1>7, <2>1, AbsentFacts DEF Fetch, CopiesOK, Kept
    <2> QED BY <1>0, <1>7, <2>3, <2>4, Assemble DEF Fetch, CopiesOK
  <1>8. ASSUME NEW w \in Workers, NEW t \in Tasks, RejectTask(w, t) PROVE IInv'
    <2>1. row' = [row EXCEPT ![t] = Flush(@, view[w][t],
                    Updated(view[w][t], "failed", 0, "unsupported", NoResult))]
      BY <1>8 DEF RejectTask, Store
    <2>2. /\ "failed" \in {"running"} \cup Ended /\ 0 \in {0, 1, 10}
          /\ "unsupported" \in Errors /\ NoResult \in Outputs
          /\ "failed" = "completed" => NoResult \in Results
          /\ view[w][t] \in Row /\ Kept(view[w][t], row[t])
      BY <1>0 DEF Ended, Errors, Outputs
    <2>3. /\ row' \in [Tasks -> Row]
          /\ \A u \in Tasks : Sound(row'[u])
          /\ \A v \in Workers, u \in Tasks : Kept(view[v][u], row'[u])
          /\ \A d \in calls : Kept(d.seen, row'[d.task])
      BY <1>0, <2>1, <2>2, UpdateStep
    <2> QED BY <1>8, <2>3, TurnKeeps DEF RejectTask
  <1>9. ASSUME NEW w \in Workers, NEW t \in Tasks, StartTask(w, t) PROVE IInv'
    <2>1. row' = [row EXCEPT ![t] = Flush(@, view[w][t],
                    Updated(view[w][t], "running", 1, "none", NoResult))]
      BY <1>9 DEF StartTask, Store
    <2>2. /\ "running" \in {"running"} \cup Ended /\ 1 \in {0, 1, 10}
          /\ "none" \in Errors /\ NoResult \in Outputs
          /\ "running" = "completed" => NoResult \in Results
          /\ view[w][t] \in Row /\ Kept(view[w][t], row[t])
      BY <1>0 DEF Ended, Errors, Outputs
    <2>3. /\ row' \in [Tasks -> Row]
          /\ \A u \in Tasks : Sound(row'[u])
          /\ \A v \in Workers, u \in Tasks : Kept(view[v][u], row'[u])
          /\ \A d \in calls : Kept(d.seen, row'[d.task])
      BY <1>0, <2>1, <2>2, UpdateStep
    <2>4. TypeOK'
      BY <1>0, <1>9, <2>3 DEF TypeOK, StartTask
    <2> QED BY <1>0, <1>9, <2>3, <2>4, Assemble DEF StartTask, CopiesOK
  <1>10. ASSUME NEW w \in Workers, NEW t \in Tasks, Refresh(w, t) PROVE IInv'
    <2>1. \A v \in Workers, u \in Tasks : view'[v][u] \in {view[v][u], row[u]}
      BY <1>0, <1>10 DEF Refresh, TypeOK
    <2>2. TypeOK'
      BY <1>0, <1>10 DEF Refresh, TypeOK
    <2>3. \A v \in Workers, u \in Tasks : Kept(view'[v][u], row'[u])
      BY <1>0, <1>10, <2>1 DEF Refresh, CopiesOK, Kept
    <2> QED BY <1>0, <1>10, <2>2, <2>3, Assemble DEF Refresh, CopiesOK
  <1>11. ASSUME NEW w \in Workers, NEW t \in Tasks, NEW res \in Results,
                CompleteTask(w, t, res) PROVE IInv'
    <2>1. row' = [row EXCEPT ![t] = Flush(@, view[w][t],
                    Updated(view[w][t], "completed", 10, "none", res))]
      BY <1>11 DEF CompleteTask, Store
    <2>2. /\ "completed" \in {"running"} \cup Ended /\ 10 \in {0, 1, 10}
          /\ "none" \in Errors /\ res \in Outputs
          /\ "completed" = "completed" => res \in Results
          /\ view[w][t] \in Row /\ Kept(view[w][t], row[t])
      BY <1>0 DEF Ended, Errors, Outputs
    <2>3. /\ row' \in [Tasks -> Row]
          /\ \A u \in Tasks : Sound(row'[u])
          /\ \A v \in Workers, u \in Tasks : Kept(view[v][u], row'[u])
          /\ \A d \in calls : Kept(d.seen, row'[d.task])
      BY <1>0, <2>1, <2>2, UpdateStep
    <2> QED BY <1>11, <2>3, TurnKeeps DEF CompleteTask
  <1>12. ASSUME NEW w \in Workers, NEW t \in Tasks, FailTask(w, t) PROVE IInv'
    <2>1. row' = [row EXCEPT ![t] = Flush(@, view[w][t],
                    Updated(view[w][t], "failed", 0, "raised", NoResult))]
      BY <1>12 DEF FailTask, Store
    <2>2. /\ "failed" \in {"running"} \cup Ended /\ 0 \in {0, 1, 10}
          /\ "raised" \in Errors /\ NoResult \in Outputs
          /\ "failed" = "completed" => NoResult \in Results
          /\ view[w][t] \in Row /\ Kept(view[w][t], row[t])
      BY <1>0 DEF Ended, Errors, Outputs
    <2>3. /\ row' \in [Tasks -> Row]
          /\ \A u \in Tasks : Sound(row'[u])
          /\ \A v \in Workers, u \in Tasks : Kept(view[v][u], row'[u])
          /\ \A d \in calls : Kept(d.seen, row'[d.task])
      BY <1>0, <2>1, <2>2, UpdateStep
    <2> QED BY <1>12, <2>3, TurnKeeps DEF FailTask
  <1>13. ASSUME NEW w \in Workers, Abort(w) PROVE IInv'
    <2>1. \A v \in Workers, u \in Tasks : view'[v][u] \in {view[v][u], Absent}
      BY <1>0, <1>13 DEF Abort, TypeOK
    <2>2. TypeOK'
      BY <1>0, <1>13, AbsentFacts DEF Abort, TypeOK
    <2>3. \A v \in Workers, u \in Tasks : Kept(view'[v][u], row'[u])
      BY <1>0, <1>13, <2>1, AbsentFacts DEF Abort, CopiesOK
    <2> QED BY <1>0, <1>13, <2>2, <2>3, Assemble DEF Abort, CopiesOK
  <1>14. CASE UNCHANGED vars
    BY <1>14 DEF vars, IInv, TypeOK, CopiesOK
  <1> QED
    BY <1>1, <1>2, <1>3, <1>4, <1>5, <1>6, <1>7, <1>8, <1>9, <1>10, <1>11,
       <1>12, <1>13, <1>14
    DEF Next, WorkerStep, RequestStep, Fault

\* Whatever sessions race, every variable keeps its type.
THEOREM TypeCorrect == Spec => []TypeOK
  <1>1. IInv => TypeOK
    BY DEF IInv
  <1> QED BY <1>1, InitIInv, NextIInv, PTL DEF Spec

\* Whatever sessions race, a row that ended has its end time.
THEOREM EndsAreStamped == Spec => []EndIsStamped
  <1>1. IInv => EndIsStamped
    BY DEF IInv, Sound, EndIsStamped
  <1> QED BY <1>1, InitIInv, NextIInv, PTL DEF Spec

\* Before the first retry no stale session takes the output from a completed
\* row.
THEOREM OutputsAreKept == Spec => []CompletedHasOutput
  <1>1. IInv => CompletedHasOutput
    BY DEF IInv, Sound, CompletedHasOutput
  <1> QED BY <1>1, InitIInv, NextIInv, PTL DEF Spec

\* Nor the start time from a running one.
THEOREM RunsAreStarted == Spec => []RunningIsStarted
  <1>1. IInv => RunningIsStarted
    BY DEF IInv, Sound, RunningIsStarted
  <1> QED BY <1>1, InitIInv, NextIInv, PTL DEF Spec

-----------------------------------------------------------------------------
(* One worker, no cancels, one retry at a time.                            *)

Serial ==
  /\ \A v, w \in Workers : v = w
  /\ Cancellers = {}
  /\ \A q, r \in Retriers : q = r

\* RowMatchesStatus, of one row.
Matches(r) ==
  /\ r.error # "none" <=> r.status = "failed"
  /\ r.output # NoResult <=> r.status = "completed"
  /\ r.progress = 10 <=> r.status = "completed"
  /\ r.completed_at <=> r.status \in Ended
  /\ r.status \in {"running", "completed"} => r.started_at
  /\ r.status = "pending" => ~r.started_at /\ r.progress = 0

\* The worker's copies are the rows, which wait for it: the task it executes
\* is running, the others of its batch are pending.
WorkerInSync ==
  \A w \in Workers :
    /\ pc[w] = "idle" => batch[w] = {}
    /\ \A t \in batch[w] :
         /\ pc[w] = "batch" \/ ~At(w, t) =>
              view[w][t] = row[t] /\ row[t].status = "pending"
         /\ pc[w] = "started" /\ At(w, t) => row[t].status = "running"
         /\ pc[w] = "agent" /\ At(w, t) =>
              view[w][t] = row[t] /\ row[t].status = "running"

\* So is the copy of the request, whose task no worker touches.
CallInSync ==
  /\ \A c \in calls : c.seen = row[c.task] /\ c.seen.status \in {"failed", "cancelled"}
  /\ \A c, d \in calls : c = d

SInv == IInv /\ WorkerInSync /\ CallInSync /\ \A t \in Tasks : Matches(row[t])

\* A commit based on a fresh copy writes the object as it is.
LEMMA FlushFresh ==
  ASSUME NEW cur \in Row, NEW new \in Row, new.status \in Ended => new.completed_at
  PROVE  Flush(cur, cur, new) = new
  BY DEF Flush, Column, Row

\* The task a worker is at is unique, and every other one of the batch is not it.
LEMMA AtUnique ==
  ASSUME TypeOK, NEW w \in Workers, NEW t \in Tasks, NEW u \in Tasks,
         At(w, t), At(w, u)
  PROVE  t = u
  <1>1. t \in Nat /\ u \in Nat
    BY TasksAssumption
  <1> QED BY <1>1 DEF At

LEMMA InitSInv == Init => SInv
  BY InitIInv DEF Init, SInv, WorkerInSync, CallInSync, Matches, Absent, Blank, Ended

\* What the status update of a fresh copy leaves, by the status written.
LEMMA UpdateFresh ==
  ASSUME NEW cur \in Row, Matches(cur), NEW status \in {"running"} \cup Ended,
         NEW progress \in {0, 1, 10}, NEW error \in Errors, NEW output \in Outputs
  PROVE  LET new == Flush(cur, cur, Updated(cur, status, progress, error, output))
         IN  /\ new \in Row
             /\ new.status = status
             /\ new = Updated(cur, status, progress, error, output)
  <1> DEFINE upd == Updated(cur, status, progress, error, output)
  <1>1. upd \in Row /\ upd.status = status
    <2>1. status \in Status
      BY DEF Status
    <2> QED BY <2>1, UpdatedType, UpdatedFields
  <1>2. upd.status \in Ended => upd.completed_at
    <2>1. /\ upd.status = status
          /\ upd.completed_at = (cur.completed_at \/ status \in Ended)
      BY UpdatedFields
    <2> QED BY <2>1
  <1> QED BY <1>1, <1>2, FlushFresh

\* Each write of the worker to the task it is at, and of the retry request,
\* keeps the columns in agreement with the status.
LEMMA MatchesRunning ==
  ASSUME NEW r \in Row, Matches(r), r.status = "pending"
  PROVE  Matches(Updated(r, "running", 1, "none", NoResult))
  <1> DEFINE upd == Updated(r, "running", 1, "none", NoResult)
  <1>1. /\ upd.status = "running" /\ upd.progress = 1
        /\ upd.error = IF "running" = "completed" THEN "none"
                       ELSE IF "none" = "none" THEN r.error ELSE "none"
        /\ upd.output = IF NoResult = NoResult THEN r.output ELSE NoResult
        /\ upd.started_at = (r.started_at \/ "running" = "running")
        /\ upd.completed_at = (r.completed_at \/ "running" \in Ended)
    BY UpdatedFields
  <1> HIDE DEF upd
  <1>2. upd.started_at /\ ~upd.completed_at
    BY <1>1, Zenon DEF Matches, Ended
  <1>3. Matches(upd)
    BY <1>1, <1>2 DEF Matches, Ended, Row
  <1> QED BY <1>3 DEF upd

LEMMA MatchesFailed ==
  ASSUME NEW r \in Row, Matches(r), NEW error \in {"unsupported", "raised"},
         r.status \in {"pending", "running"}
  PROVE  Matches(Updated(r, "failed", 0, error, NoResult))
  <1> DEFINE upd == Updated(r, "failed", 0, error, NoResult)
  <1>1. /\ upd.status = "failed" /\ upd.progress = 0
        /\ upd.error = IF "failed" = "completed" THEN "none"
                       ELSE IF error = "none" THEN r.error ELSE error
        /\ upd.output = IF NoResult = NoResult THEN r.output ELSE NoResult
        /\ upd.started_at = (r.started_at \/ "failed" = "running")
        /\ upd.completed_at = (r.completed_at \/ "failed" \in Ended)
    BY UpdatedFields
  <1> HIDE DEF upd
  <1>2. upd.completed_at
    BY <1>1, Zenon DEF Ended
  <1>3. Matches(upd)
    BY <1>1, <1>2 DEF Matches, Ended, Row
  <1> QED BY <1>3 DEF upd

LEMMA MatchesCompleted ==
  ASSUME NEW r \in Row, Matches(r), NEW res \in Results, r.status = "running"
  PROVE  Matches(Updated(r, "completed", 10, "none", res))
  BY ResultsAssumption, UpdatedFields DEF Matches, Row, Ended

LEMMA MatchesReset ==
  ASSUME NEW r \in Row
  PROVE  Matches(Reset(r)) /\ Reset(r).status = "pending"
  BY DEF Matches, Reset, Blank, Ended

\* Replacing the row of one task leaves the others.
LEMMA OthersStay ==
  ASSUME TypeOK, NEW t \in Tasks, NEW new, row' = [row EXCEPT ![t] = new]
  PROVE  /\ row'[t] = new
         /\ \A u \in Tasks : u # t => row'[u] = row[u]
  BY DEF TypeOK

\* When the worker is done with the task it is at, it stays in step with the
\* rows: the others of its batch are as they were.
LEMMA SerialTurn ==
  ASSUME Serial, SInv, NEW w \in Workers, NEW t \in Tasks, At(w, t),
         pc[w] \in {"batch", "agent"}, TurnFrom(w, t), NEW new \in Row,
         Matches(new), row' = [row EXCEPT ![t] = new]
  PROVE  WorkerInSync' /\ CallInSync' /\ \A u \in Tasks : Matches(row'[u])
  <1>0. /\ TypeOK /\ WorkerInSync /\ CallInSync
        /\ row'[t] = new /\ \A u \in Tasks : u # t => row'[u] = row[u]
        /\ \A v \in Workers : v = w
    BY OthersStay DEF SInv, IInv, Serial
  <1>1. /\ batch'[w] = batch[w] \ {t}
        /\ pc'[w] = IF batch[w] = {t} THEN "idle" ELSE "batch"
        /\ \A u \in Tasks : u # t => view'[w][u] = view[w][u]
    BY <1>0 DEF TurnFrom, TypeOK
  <1>2. \A u \in batch'[w] : view'[w][u] = row'[u] /\ row'[u].status = "pending"
    <2> SUFFICES ASSUME NEW u \in batch'[w]
                 PROVE  view'[w][u] = row'[u] /\ row'[u].status = "pending"
      OBVIOUS
    <2>1. u \in batch[w] /\ u # t /\ u \in Tasks
      BY <1>0, <1>1 DEF TypeOK
    <2>2. ~At(w, u)
      BY <1>0, <2>1, AtUnique
    <2>3. view[w][u] = row[u] /\ row[u].status = "pending"
      BY <1>0, <2>1, <2>2 DEF WorkerInSync
    <2> QED BY <1>0, <1>1, <2>1, <2>3
  <1>3. WorkerInSync'
    BY <1>0, <1>1, <1>2 DEF WorkerInSync
  <1>4. row[t].status \in {"pending", "running"}
    BY <1>0 DEF WorkerInSync, At
  <1>5. \A c \in calls : c.task \in Tasks /\ c.task # t
    BY <1>0, <1>4 DEF CallInSync, TypeOK, Call
  <1>6. CallInSync'
    BY <1>0, <1>5 DEF CallInSync, TurnFrom
  <1> QED BY <1>0, <1>3, <1>6 DEF SInv

LEMMA NextSInv == Serial /\ SInv /\ [Next]_vars => SInv'
  <1> SUFFICES ASSUME Serial, SInv, [Next]_vars PROVE SInv'
    OBVIOUS
  <1>0. /\ IInv /\ IInv' /\ TypeOK /\ WorkerInSync /\ CallInSync
        /\ \A t \in Tasks : Matches(row[t]) /\ row[t] \in Row
        /\ \A w \in Workers, t \in Tasks : view[w][t] \in Row
        /\ \A w \in Workers : batch[w] \subseteq Tasks
        /\ \A c \in calls : c.task \in Tasks /\ c.by \in Retriers
    BY NextIInv DEF SInv, IInv, TypeOK, Call, Serial
  <1> SUFFICES WorkerInSync' /\ CallInSync' /\ \A t \in Tasks : Matches(row'[t])
    BY <1>0 DEF SInv
  <1>1. ASSUME NEW t \in Tasks, Enqueue(t)
        PROVE  WorkerInSync' /\ CallInSync' /\ \A u \in Tasks : Matches(row'[u])
    <2>1. row'[t] = Fresh /\ \A u \in Tasks : u # t => row'[u] = row[u]
      BY <1>0, <1>1, OthersStay DEF Enqueue
    <2>2. row[t].status = "absent"
      BY <1>1 DEF Enqueue, Absent, Blank
    <2>3. \A w \in Workers : t \notin batch[w]
      BY <1>0, <2>2 DEF WorkerInSync, TypeOK
    <2>4. \A c \in calls : c.task # t
      BY <1>0, <2>2 DEF CallInSync
    <2>5. Matches(Fresh)
      BY DEF Matches, Fresh, Blank, Ended
    <2>6. WorkerInSync'
      BY <1>0, <1>1, <2>1, <2>3 DEF WorkerInSync, Enqueue, At
    <2>7. CallInSync'
      BY <1>0, <1>1, <2>1, <2>4 DEF CallInSync, Enqueue
    <2> QED BY <1>0, <2>1, <2>5, <2>6, <2>7
  <1>2. ASSUME NEW t \in Tasks, NEW r \in Retriers, LoadRetry(r, t)
        PROVE  WorkerInSync' /\ CallInSync' /\ \A u \in Tasks : Matches(row'[u])
    <2>1. calls = {}
      BY <1>0, <1>2 DEF Serial, LoadRetry, Load
    <2>2. CallInSync'
      BY <1>2, <2>1 DEF CallInSync, LoadRetry, Load
    <2>3. WorkerInSync'
      BY <1>0, <1>2 DEF WorkerInSync, LoadRetry, Load, At
    <2> QED BY <1>0, <1>2, <2>2, <2>3 DEF LoadRetry, Load
  <1>3. ASSUME NEW c \in calls, CommitRetry(c)
        PROVE  WorkerInSync' /\ CallInSync' /\ \A u \in Tasks : Matches(row'[u])
    <2> DEFINE t == c.task
    <2>1. t \in Tasks /\ c.seen = row[t] /\ row[t].status \in {"failed", "cancelled"}
      BY <1>0 DEF CallInSync
    <2>2. Reset(row[t]) \in Row /\ Matches(Reset(row[t]))
      BY <1>0, <1>3, <2>1, ResetType, MatchesReset DEF IInv, CopiesOK
    <2>3. Flush(row[t], row[t], Reset(row[t])) = Reset(row[t])
      BY <1>0, <2>1, <2>2, FlushFresh, MatchesReset DEF Ended
    <2>4. row' = [row EXCEPT ![t] = Reset(row[t])]
      BY <1>3, <2>1, <2>3 DEF CommitRetry, Write
    <2>5. row'[t] = Reset(row[t]) /\ \A u \in Tasks : u # t => row'[u] = row[u]
      BY <1>0, <2>1, <2>4, OthersStay
    <2>6. \A w \in Workers : t \notin batch[w]
      BY <1>0, <2>1 DEF WorkerInSync, TypeOK
    <2>7. WorkerInSync'
      BY <1>0, <1>3, <2>5, <2>6 DEF WorkerInSync, CommitRetry, Write, At
    <2>8. calls' = {}
      BY <1>0, <1>3 DEF CommitRetry, Write, CallInSync
    <2> QED BY <1>0, <2>2, <2>5, <2>7, <2>8 DEF CallInSync
  <1>4. ASSUME NEW c \in calls, DropCall(c)
        PROVE  WorkerInSync' /\ CallInSync' /\ \A u \in Tasks : Matches(row'[u])
    BY <1>0, <1>4 DEF DropCall, WorkerInSync, CallInSync, At
  <1>5. ASSUME NEW w \in Workers, Fetch(w)
        PROVE  WorkerInSync' /\ CallInSync' /\ \A u \in Tasks : Matches(row'[u])
    <2>1. \A v \in Workers : v = w
      BY DEF Serial
    <2>2. /\ pc'[w] = "batch" /\ batch'[w] = Oldest(Pending) /\ row' = row
          /\ \A t \in Oldest(Pending) : view'[w][t] = row[t]
      BY <1>0, <1>5 DEF Fetch, TypeOK, Oldest, Pending
    <2>3. \A t \in Oldest(Pending) : row[t].status = "pending"
      BY DEF Oldest, Pending
    <2>4. WorkerInSync'
      BY <2>1, <2>2, <2>3 DEF WorkerInSync
    <2> QED BY <1>0, <1>5, <2>4 DEF Fetch, CallInSync
  <1>6. ASSUME NEW w \in Workers, NEW t \in Tasks, RejectTask(w, t)
        PROVE  WorkerInSync' /\ CallInSync' /\ \A u \in Tasks : Matches(row'[u])
    <2> DEFINE new == Updated(row[t], "failed", 0, "unsupported", NoResult)
    <2>1. view[w][t] = row[t] /\ row[t].status = "pending"
      BY <1>0, <1>6 DEF RejectTask, WorkerInSync, At
    <2>2. new \in Row /\ Flush(row[t], row[t], new) = new
      BY <1>0, UpdateFresh DEF Ended, Errors, Outputs
    <2>3. Matches(new)
      BY <1>0, <2>1, MatchesFailed
    <2>4. row' = [row EXCEPT ![t] = new]
      BY <1>6, <2>1, <2>2 DEF RejectTask, Store
    <2> HIDE DEF new
    <2> QED BY <1>6, <2>2, <2>3, <2>4, SerialTurn DEF RejectTask
  <1>7. ASSUME NEW w \in Workers, NEW t \in Tasks, StartTask(w, t)
        PROVE  WorkerInSync' /\ CallInSync' /\ \A u \in Tasks : Matches(row'[u])
    <2> DEFINE new == Updated(row[t], "running", 1, "none", NoResult)
    <2>1. view[w][t] = row[t] /\ row[t].status = "pending"
      BY <1>0, <1>7 DEF StartTask, WorkerInSync, At
    <2>2. new \in Row /\ new.status = "running" /\ Flush(row[t], row[t], new) = new
      BY <1>0, UpdateFresh DEF Ended, Errors, Outputs
    <2>3. Matches(new)
      BY <1>0, <2>1, MatchesRunning
    <2>4. row' = [row EXCEPT ![t] = new]
      BY <1>7, <2>1, <2>2 DEF StartTask, Store
    <2> HIDE DEF new
    <2>5. row'[t] = new /\ \A u \in Tasks : u # t => row'[u] = row[u]
      BY <1>0, <2>4, OthersStay
    <2>6. \A u \in batch[w] : u # t => ~At(w, u)
      BY <1>0, <1>7, AtUnique DEF StartTask
    <2>7. /\ pc'[w] = "started" /\ batch' = batch /\ view' = view
          /\ \A v \in Workers : v = w
      BY <1>0, <1>7 DEF StartTask, TypeOK, Serial
    <2>8. WorkerInSync'
      <3>1. \A u \in batch[w] : u # t => view[w][u] = row[u] /\ row[u].status = "pending"
        BY <1>0, <2>6 DEF WorkerInSync
      <3>2. \A u \in batch[w] : u # t => view'[w][u] = row'[u] /\ row'[u].status = "pending"
        BY <1>0, <2>5, <2>7, <3>1
      <3>3. row'[t].status = "running" /\ At(w, t)
        BY <1>7, <2>2, <2>5 DEF StartTask
      <3>4. \A u \in Tasks : At(w, u)' <=> At(w, u)
        BY <2>7 DEF At
      <3>5. pc'[w] = "started" /\ batch'[w] = batch[w] /\ \A v \in Workers : v = w
        BY <2>7
      <3>6. \A u \in batch'[w] : (u = t => At(w, u)') /\ (u # t => ~At(w, u)')
        BY <1>0, <2>6, <3>3, <3>4, <3>5
      <3> QED BY <2>2, <3>2, <3>3, <3>5, <3>6 DEF WorkerInSync
    <2>9. CallInSync'
      BY <1>0, <1>7, <2>1, <2>5 DEF CallInSync, StartTask
    <2> QED BY <1>0, <2>3, <2>5, <2>8, <2>9
  <1>8. ASSUME NEW w \in Workers, NEW t \in Tasks, Refresh(w, t)
        PROVE  WorkerInSync' /\ CallInSync' /\ \A u \in Tasks : Matches(row'[u])
    <2>1. /\ pc'[w] = "agent" /\ batch' = batch /\ row' = row
          /\ \A v \in Workers : v = w
          /\ view'[w][t] = row[t] /\ \A u \in Tasks : u # t => view'[w][u] = view[w][u]
      BY <1>0, <1>8 DEF Refresh, TypeOK, Serial
    <2>2. row[t].status = "running"
      BY <1>0, <1>8 DEF Refresh, WorkerInSync, At
    <2>3. \A u \in batch[w] : u # t => ~At(w, u)
      BY <1>0, <1>8, AtUnique DEF Refresh
    <2>4. WorkerInSync'
      BY <1>0, <2>1, <2>2, <2>3 DEF WorkerInSync, At
    <2> QED BY <1>0, <1>8, <2>4 DEF CallInSync, Refresh
  <1>9. ASSUME NEW w \in Workers, NEW t \in Tasks, NEW res \in Results,
               CompleteTask(w, t, res)
        PROVE  WorkerInSync' /\ CallInSync' /\ \A u \in Tasks : Matches(row'[u])
    <2> DEFINE new == Updated(row[t], "completed", 10, "none", res)
    <2>1. view[w][t] = row[t] /\ row[t].status = "running"
      BY <1>0, <1>9 DEF CompleteTask, WorkerInSync, At
    <2>2. new \in Row /\ Flush(row[t], row[t], new) = new
      BY <1>0, UpdateFresh DEF Ended, Errors, Outputs
    <2>3. Matches(new)
      BY <1>0, <2>1, MatchesCompleted
    <2>4. row' = [row EXCEPT ![t] = new]
      BY <1>9, <2>1, <2>2 DEF CompleteTask, Store
    <2> HIDE DEF new
    <2> QED BY <1>9, <2>2, <2>3, <2>4, SerialTurn DEF CompleteTask
  <1>10. ASSUME NEW w \in Workers, NEW t \in Tasks, FailTask(w, t)
         PROVE  WorkerInSync' /\ CallInSync' /\ \A u \in Tasks : Matches(row'[u])
    <2> DEFINE new == Updated(row[t], "failed", 0, "raised", NoResult)
    <2>1. view[w][t] = row[t] /\ row[t].status = "running"
      BY <1>0, <1>10 DEF FailTask, WorkerInSync, At
    <2>2. new \in Row /\ Flush(row[t], row[t], new) = new
      BY <1>0, UpdateFresh DEF Ended, Errors, Outputs
    <2>3. Matches(new)
      BY <1>0, <2>1, MatchesFailed
    <2>4. row' = [row EXCEPT ![t] = new]
      BY <1>10, <2>1, <2>2 DEF FailTask, Store
    <2> HIDE DEF new
    <2> QED BY <1>10, <2>2, <2>3, <2>4, SerialTurn DEF FailTask
  <1>11. ASSUME NEW w \in Workers, Abort(w)
         PROVE  WorkerInSync' /\ CallInSync' /\ \A u \in Tasks : Matches(row'[u])
    BY <1>0, <1>11 DEF Abort, WorkerInSync, CallInSync, TypeOK, Serial
  <1>12. CASE UNCHANGED vars
    BY <1>0, <1>12 DEF vars, WorkerInSync, CallInSync, At
  <1> QED
    BY <1>0, <1>1, <1>2, <1>3, <1>4, <1>5, <1>6, <1>7, <1>8, <1>9, <1>10,
       <1>11, <1>12
    DEF Next, WorkerStep, RequestStep, Fault, CommitCancel, Serial

\* Replacing a row replaces the status a reader sees.
LEMMA StatusMoves ==
  ASSUME TypeOK, NEW t \in Tasks, NEW new, NEW to, new.status = to,
         row' = [row EXCEPT ![t] = new]
  PROVE  TaskStatus' = [TaskStatus EXCEPT ![t] = to]
  <1>1. row'[t] = new /\ \A u \in Tasks : u # t => row'[u] = row[u]
    BY OthersStay
  <1>2. \A u \in Tasks : row'[u].status = IF u = t THEN to ELSE row[u].status
    BY <1>1
  <1> QED BY <1>2 DEF TaskStatus

\* With one worker, no cancels and one retry at a time, every step is a step of
\* the documented life cycle or leaves every status alone.
LEMMA StepRefines ==
  Serial /\ SInv /\ [Next]_vars => [Lifecycle!Next]_TaskStatus
  <1> SUFFICES ASSUME Serial, SInv, [Next]_vars,
                      ~UNCHANGED TaskStatus
               PROVE  Lifecycle!Next
    OBVIOUS
  <1>0. /\ TypeOK /\ WorkerInSync /\ CallInSync
        /\ \A t \in Tasks : row[t] \in Row
        /\ \A c \in calls : c.task \in Tasks /\ c.by \in Retriers /\ c.seen \in Row
    BY DEF SInv, IInv, TypeOK, Call, Serial
  <1>1. row' # row
    BY DEF TaskStatus
  <1>2. ASSUME NEW t \in Tasks, Enqueue(t) PROVE Lifecycle!Next
    <2>1. row[t].status \in {"absent"} /\ row' = [row EXCEPT ![t] = Fresh]
      BY <1>2 DEF Enqueue, Absent, Blank
    <2>2. Fresh.status = "pending"
      BY DEF Fresh, Blank
    <2>3. TaskStatus' = [TaskStatus EXCEPT ![t] = "pending"]
      BY <1>0, <2>1, <2>2, StatusMoves
    <2>4. TaskStatus[t] \in {"absent"}
      BY <2>1 DEF TaskStatus
    <2> QED BY <2>3, <2>4 DEF Lifecycle!Next, Lifecycle!Submit, Lifecycle!Move
  <1>3. ASSUME NEW c \in calls, CommitRetry(c) PROVE Lifecycle!Next
    <2> DEFINE t == c.task
               new == Reset(row[t])
    <2>1. t \in Tasks /\ c.seen = row[t] /\ row[t].status \in {"failed", "cancelled"}
      BY <1>0 DEF CallInSync
    <2>2. new \in Row
      BY <1>0, <1>3, <2>1, ResetType DEF SInv, IInv, CopiesOK, CommitRetry
    <2>3. new.status = "pending"
      BY <1>0, <2>1, MatchesReset
    <2>4. Flush(row[t], row[t], new) = new
      BY <1>0, <2>1, <2>2, <2>3, FlushFresh DEF Ended
    <2>5. row' = [row EXCEPT ![t] = new]
      BY <1>3, <2>1, <2>4 DEF CommitRetry, Write
    <2> HIDE DEF new, t
    <2>6. TaskStatus' = [TaskStatus EXCEPT ![t] = "pending"]
      BY <1>0, <2>1, <2>3, <2>5, StatusMoves
    <2>7. TaskStatus[t] \in {"failed", "cancelled"}
      BY <2>1 DEF TaskStatus
    <2> QED BY <2>1, <2>6, <2>7 DEF Lifecycle!Next, Lifecycle!Retry, Lifecycle!Move
  <1>4. ASSUME NEW w \in Workers, NEW t \in Tasks, RejectTask(w, t)
        PROVE  Lifecycle!Next
    <2> DEFINE new == Updated(row[t], "failed", 0, "unsupported", NoResult)
    <2>1. view[w][t] = row[t] /\ row[t].status \in {"pending", "running"}
      BY <1>0, <1>4 DEF RejectTask, WorkerInSync, At
    <2>2. Flush(row[t], row[t], new) = new /\ new.status = "failed"
      BY <1>0, UpdateFresh DEF SInv, Ended, Errors, Outputs
    <2>3. row' = [row EXCEPT ![t] = new]
      BY <1>4, <2>1, <2>2 DEF RejectTask, Store
    <2> HIDE DEF new
    <2>4. TaskStatus' = [TaskStatus EXCEPT ![t] = "failed"]
      BY <1>0, <2>1, <2>2, <2>3, StatusMoves
    <2>5. TaskStatus[t] \in {"pending", "running"}
      BY <2>1 DEF TaskStatus
    <2> QED BY <2>4, <2>5 DEF Lifecycle!Next, Lifecycle!Fail, Lifecycle!Move
  <1>5. ASSUME NEW w \in Workers, NEW t \in Tasks, StartTask(w, t)
        PROVE  Lifecycle!Next
    <2> DEFINE new == Updated(row[t], "running", 1, "none", NoResult)
    <2>1. view[w][t] = row[t] /\ row[t].status \in {"pending"}
      BY <1>0, <1>5 DEF StartTask, WorkerInSync, At
    <2>2. Flush(row[t], row[t], new) = new /\ new.status = "running"
      BY <1>0, UpdateFresh DEF SInv, Ended, Errors, Outputs
    <2>3. row' = [row EXCEPT ![t] = new]
      BY <1>5, <2>1, <2>2 DEF StartTask, Store
    <2> HIDE DEF new
    <2>4. TaskStatus' = [TaskStatus EXCEPT ![t] = "running"]
      BY <1>0, <2>1, <2>2, <2>3, StatusMoves
    <2>5. TaskStatus[t] \in {"pending"}
      BY <2>1 DEF TaskStatus
    <2> QED BY <2>4, <2>5 DEF Lifecycle!Next, Lifecycle!Start, Lifecycle!Move
  <1>6. ASSUME NEW w \in Workers, NEW t \in Tasks, NEW res \in Results,
               CompleteTask(w, t, res)
        PROVE  Lifecycle!Next
    <2> DEFINE new == Updated(row[t], "completed", 10, "none", res)
    <2>1. view[w][t] = row[t] /\ row[t].status \in {"running"}
      BY <1>0, <1>6 DEF CompleteTask, WorkerInSync, At
    <2>2. Flush(row[t], row[t], new) = new /\ new.status = "completed"
      BY <1>0, UpdateFresh DEF SInv, Ended, Errors, Outputs
    <2>3. row' = [row EXCEPT ![t] = new]
      BY <1>6, <2>1, <2>2 DEF CompleteTask, Store
    <2> HIDE DEF new
    <2>4. TaskStatus' = [TaskStatus EXCEPT ![t] = "completed"]
      BY <1>0, <2>1, <2>2, <2>3, StatusMoves
    <2>5. TaskStatus[t] \in {"running"}
      BY <2>1 DEF TaskStatus
    <2> QED BY <2>4, <2>5 DEF Lifecycle!Next, Lifecycle!Complete, Lifecycle!Move
  <1>7. ASSUME NEW w \in Workers, NEW t \in Tasks, FailTask(w, t)
        PROVE  Lifecycle!Next
    <2> DEFINE new == Updated(row[t], "failed", 0, "raised", NoResult)
    <2>1. view[w][t] = row[t] /\ row[t].status \in {"pending", "running"}
      BY <1>0, <1>7 DEF FailTask, WorkerInSync, At
    <2>2. Flush(row[t], row[t], new) = new /\ new.status = "failed"
      BY <1>0, UpdateFresh DEF SInv, Ended, Errors, Outputs
    <2>3. row' = [row EXCEPT ![t] = new]
      BY <1>7, <2>1, <2>2 DEF FailTask, Store
    <2> HIDE DEF new
    <2>4. TaskStatus' = [TaskStatus EXCEPT ![t] = "failed"]
      BY <1>0, <2>1, <2>2, <2>3, StatusMoves
    <2>5. TaskStatus[t] \in {"pending", "running"}
      BY <2>1 DEF TaskStatus
    <2> QED BY <2>4, <2>5 DEF Lifecycle!Next, Lifecycle!Fail, Lifecycle!Move
  <1>8. ASSUME NEW c \in calls, CommitCancel(c) PROVE FALSE
    BY <1>8 DEF CommitCancel, Serial
  <1> QED
    BY <1>1, <1>2, <1>3, <1>4, <1>5, <1>6, <1>7, <1>8
    DEF Next, WorkerStep, RequestStep, Fault, vars, Fetch, Refresh, Abort,
        LoadCancel, LoadRetry, Load, DropCall

\* Where one worker polls, nobody cancels and retries come one at a time, the
\* queue implements the documented life cycle.
THEOREM SerialImplementsLifecycle ==
  ASSUME Serial
  PROVE  Spec => DocumentedLifecycle
  <1>1. Init => Lifecycle!Init
    BY DEF Init, Lifecycle!Init, TaskStatus, Absent, Blank
  <1>2. SInv /\ [Next]_vars => SInv' /\ [Lifecycle!Next]_TaskStatus
    BY NextSInv, StepRefines
  <1> QED
    BY <1>1, <1>2, InitSInv, PTL DEF Spec, DocumentedLifecycle, Lifecycle!Spec

\* There, the columns of every row agree with its status at all times.
THEOREM SerialRowsMatch ==
  ASSUME Serial
  PROVE  Spec => []RowMatchesStatus
  <1>1. SInv => RowMatchesStatus
    BY DEF SInv, Matches, RowMatchesStatus
  <1>2. SInv /\ [Next]_vars => SInv'
    BY NextSInv
  <1> QED BY <1>1, <1>2, InitSInv, PTL DEF Spec

\* There too, a retried task carries no result of an earlier cycle: only
\* sessions that race break the comment in retry_task_endpoint.
THEOREM SerialRetriesAreClean ==
  ASSUME Serial
  PROVE  Spec => []PendingHasNoOutput
  <1>1. RowMatchesStatus => PendingHasNoOutput
    BY DEF RowMatchesStatus, PendingHasNoOutput
  <1> QED BY <1>1, SerialRowsMatch, PTL

-----------------------------------------------------------------------------
(* While no session dies, a task shown as running is being run: the safety *)
(* behind Settles.                                                         *)

\* w is at the task t and will write how it ends over the status "running":
\* a copy that had read another status might leave the column as it is.
Runs(w, t) ==
  /\ At(w, t)
  /\ \/ pc[w] = "started"
     \/ pc[w] = "agent" /\ view[w][t].status = "running"

RunningIsRun ==
  \A t \in Tasks : row[t].status = "running" => \E w \in Workers : Runs(w, t)

\* Who else runs a task goes on, whatever w does.
LEMMA OthersRun ==
  ASSUME NEW w \in Workers, NEW v \in Workers, NEW t \in Tasks, v # w, Runs(v, t),
         pc'[v] = pc[v], batch'[v] = batch[v], view'[v] = view[v]
  PROVE  Runs(v, t)'
  BY DEF Runs, At

\* The status a commit leaves is the one it writes, or the one it found.
LEMMA FlushedStatus ==
  ASSUME TypeOK, NEW t \in Tasks, NEW seen, NEW new,
         row' = [row EXCEPT ![t] = Flush(@, seen, new)]
  PROVE  /\ row'[t].status = IF new.status = seen.status THEN row[t].status ELSE new.status
         /\ \A u \in Tasks : u # t => row'[u] = row[u]
  BY DEF TypeOK, Flush, Column

LEMMA EndedIsLeft ==
  ASSUME TypeOK, RunningIsRun, NEW w \in Workers, NEW t \in Tasks,
         FailTask(w, t) \/ \E res \in Results : CompleteTask(w, t, res)
  PROVE  RunningIsRun'
  <1>1. /\ pc[w] = "agent" /\ At(w, t) /\ view[w][t] \in Row
        /\ \A v \in Workers : v # w =>
             pc'[v] = pc[v] /\ batch'[v] = batch[v] /\ view'[v] = view[v]
    BY DEF FailTask, CompleteTask, TurnFrom, TypeOK
  <1>2. PICK new : new.status \in Ended /\ Store(w, t, new)
    BY <1>1, UpdatedFields DEF FailTask, CompleteTask, Ended
  <1>3. /\ row'[t].status = IF new.status = view[w][t].status THEN row[t].status
                            ELSE new.status
        /\ \A u \in Tasks : u # t => row'[u] = row[u]
    BY <1>2, FlushedStatus DEF Store
  <1> SUFFICES ASSUME NEW u \in Tasks, row'[u].status = "running"
               PROVE  \E v \in Workers : Runs(v, u)'
    BY DEF RunningIsRun
  <1>4. row[u].status = "running" /\ ~ Runs(w, u)
    <2>1. CASE u = t
      BY <1>1, <1>2, <1>3, <2>1 DEF Runs, Ended
    <2>2. CASE u # t
      BY <1>1, <1>3, <2>2, AtUnique DEF Runs
    <2> QED BY <2>1, <2>2
  <1>5. PICK v \in Workers : Runs(v, u)
    BY <1>4 DEF RunningIsRun
  <1>6. Runs(v, u)'
    BY <1>1, <1>4, <1>5, OthersRun
  <1> QED BY <1>6

LEMMA StepKeepsRunners ==
  ASSUME MayAbort = FALSE, TypeOK, RunningIsRun, [Next]_vars
  PROVE  RunningIsRun'
  <1>1. ASSUME UNCHANGED <<pc, batch, view>>,
               \A t \in Tasks : row'[t].status = "running" => row[t].status = "running"
        PROVE  RunningIsRun'
    BY <1>1 DEF RunningIsRun, Runs, At
  <1>2. ASSUME NEW w \in Workers, pc[w] \in {"idle", "batch"},
               \A v \in Workers : v # w =>
                 pc'[v] = pc[v] /\ batch'[v] = batch[v] /\ view'[v] = view[v],
               NEW t \in Tasks, row'[t].status = "running" => row[t].status = "running"
        PROVE  row'[t].status = "running" => \E v \in Workers : Runs(v, t)'
    <2> SUFFICES ASSUME row'[t].status = "running" PROVE \E v \in Workers : Runs(v, t)'
      OBVIOUS
    <2>1. PICK v \in Workers : Runs(v, t)
      BY <1>2 DEF RunningIsRun
    <2>2. v # w
      BY <1>2, <2>1 DEF Runs
    <2>3. Runs(v, t)'
      BY <1>2, <2>1, <2>2, OthersRun
    <2> QED BY <2>3
  <1>3. ASSUME NEW w \in Workers, Fetch(w) PROVE RunningIsRun'
    <2>1. /\ pc[w] \in {"idle", "batch"} /\ row' = row
          /\ \A v \in Workers : v # w =>
               pc'[v] = pc[v] /\ batch'[v] = batch[v] /\ view'[v] = view[v]
      BY <1>3 DEF Fetch, TypeOK
    <2> QED BY <1>2, <2>1 DEF RunningIsRun
  <1>4. ASSUME NEW w \in Workers, NEW t \in Tasks, RejectTask(w, t) PROVE RunningIsRun'
    <2>1. /\ pc[w] \in {"idle", "batch"} /\ view[w][t] \in Row
          /\ \A v \in Workers : v # w =>
               pc'[v] = pc[v] /\ batch'[v] = batch[v] /\ view'[v] = view[v]
      BY <1>4 DEF RejectTask, TurnFrom, TypeOK
    <2>2. PICK new : new.status = "failed" /\ Store(w, t, new)
      BY <1>4, <2>1, UpdatedFields DEF RejectTask
    <2>3. /\ row'[t].status = IF new.status = view[w][t].status THEN row[t].status
                              ELSE new.status
          /\ \A u \in Tasks : u # t => row'[u] = row[u]
      BY <2>2, FlushedStatus DEF Store
    <2>4. \A u \in Tasks : row'[u].status = "running" => row[u].status = "running"
      BY <2>2, <2>3
    <2> QED BY <1>2, <2>1, <2>4 DEF RunningIsRun
  <1>5. ASSUME NEW w \in Workers, NEW t \in Tasks, StartTask(w, t) PROVE RunningIsRun'
    <2>1. /\ pc[w] \in {"idle", "batch"} /\ pc'[w] = "started"
          /\ At(w, t) /\ batch' = batch
          /\ \A v \in Workers : v # w =>
               pc'[v] = pc[v] /\ batch'[v] = batch[v] /\ view'[v] = view[v]
      BY <1>5 DEF StartTask, TypeOK
    <2>2. PICK new : Store(w, t, new)
      BY <1>5 DEF StartTask
    <2>3. row' = [row EXCEPT ![t] = Flush(@, view[w][t], new)]
      BY <2>2 DEF Store
    <2>4. \A u \in Tasks : u # t => row'[u] = row[u]
      BY <2>3 DEF TypeOK
    <2>5. Runs(w, t)'
      BY <2>1 DEF Runs, At
    <2> QED BY <1>2, <2>1, <2>4, <2>5 DEF RunningIsRun
  <1>6. ASSUME NEW w \in Workers, NEW t \in Tasks, Refresh(w, t) PROVE RunningIsRun'
    <2>1. /\ At(w, t) /\ row' = row /\ batch' = batch
          /\ pc'[w] = "agent" /\ view'[w][t] = row[t]
          /\ \A v \in Workers : v # w =>
               pc'[v] = pc[v] /\ batch'[v] = batch[v] /\ view'[v] = view[v]
      BY <1>6 DEF Refresh, TypeOK
    <2> SUFFICES ASSUME NEW u \in Tasks, row[u].status = "running"
                 PROVE  \E v \in Workers : Runs(v, u)'
      BY <2>1 DEF RunningIsRun
    <2>2. PICK v \in Workers : Runs(v, u)
      BY DEF RunningIsRun
    <2>3. CASE v # w
      <3>1. Runs(v, u)'
        BY <2>1, <2>2, <2>3, OthersRun
      <3> QED BY <3>1
    <2>4. CASE v = w
      <3>1. u = t
        BY <2>1, <2>2, <2>4, AtUnique DEF Runs
      <3>2. Runs(w, u)'
        BY <2>1, <3>1 DEF Runs, At
      <3> QED BY <3>2
    <2> QED BY <2>3, <2>4
  <1>7. ASSUME NEW c \in calls, CommitCancel(c) \/ CommitRetry(c) PROVE RunningIsRun'
    <2>1. c.task \in Tasks /\ c.seen \in Row
      BY DEF TypeOK, Call
    <2>2. PICK new : new.status \in {"cancelled", "pending"} /\ Write(c, new)
      <3>1. CASE CommitCancel(c)
        BY <2>1, <3>1, UpdatedFields DEF CommitCancel
      <3>2. CASE CommitRetry(c)
        <4>1. Reset(c.seen).status = "pending"
          BY DEF Reset, Blank
        <4> QED BY <3>2, <4>1 DEF CommitRetry
      <3> QED BY <1>7, <3>1, <3>2
    <2>3. /\ row'[c.task].status = IF new.status = c.seen.status THEN row[c.task].status
                                   ELSE new.status
          /\ \A u \in Tasks : u # c.task => row'[u] = row[u]
      BY <2>1, <2>2, FlushedStatus DEF Write
    <2>4. \A u \in Tasks : row'[u].status = "running" => row[u].status = "running"
      BY <2>2, <2>3
    <2> QED BY <1>1, <2>2, <2>4 DEF Write
  <1>8. ASSUME NEW t \in Tasks,
               \/ Enqueue(t)
               \/ \E r \in Cancellers : LoadCancel(r, t)
               \/ \E r \in Retriers : LoadRetry(r, t)
        PROVE  RunningIsRun'
    <2>1. Fresh.status # "running"
      BY DEF Fresh, Blank
    <2> QED BY <1>1, <1>8, <2>1 DEF Enqueue, LoadCancel, LoadRetry, Load, TypeOK
  <1>9. CASE UNCHANGED vars
    BY <1>1, <1>9 DEF vars
  <1>10. ~ Fault
    BY DEF Fault, Abort, DropCall
  <1> QED
    BY <1>3, <1>4, <1>5, <1>6, <1>7, <1>8, <1>9, <1>10, EndedIsLeft
       DEF Next, WorkerStep, RequestStep

\* Where no session dies, no task is left running by nobody, however workers,
\* cancels and retries overwrite each other's status (worker.py:84-166): a
\* worker is at it and will end it. A worker that dies there leaves it running
\* for ever, for no other code looks at running tasks.
THEOREM RunningTasksAreRun ==
  ASSUME MayAbort = FALSE
  PROVE  Spec => []RunningIsRun
  <1>1. Init => RunningIsRun
    BY DEF Init, RunningIsRun, Absent, Blank
  <1>2. TypeOK /\ RunningIsRun /\ [Next]_vars => RunningIsRun'
    BY StepKeepsRunners
  <1> QED BY <1>1, <1>2, TypeCorrect, PTL DEF Spec
=============================================================================
