------------------------------- MODULE JobBoard -------------------------------
(***************************************************************************)
(* What the pipeline endpoints promise a recruiter who only looks at the   *)
(* board of a job (src/backend/apps/candidate_service and job_service):    *)
(* each request takes effect at once or not at all.  An application enters *)
(* the board of an open job and is counted in the same step; a move writes *)
(* one stage to applications of one job; a withdrawn application never     *)
(* comes back.  Nothing is promised of the count of a job, nor of its      *)
(* pairs, once two requests that count it have met: the job is contested.  *)
(***************************************************************************)
EXTENDS Naturals

CONSTANTS Candidates, Jobs, Ids, Stages, None

VARIABLES
  rows,      \* the applications, on a board, not yet made, or withdrawn
  openings,  \* jobs that are not deleted
  contested, \* jobs on which two counting requests have met
  count      \* the number shown with an open job that is not contested

vars == <<rows, openings, contested, count>>

OnBoard(j) == {a \in Ids : rows[a].stage \in Stages /\ rows[a].job = j}

Init ==
  /\ rows = [a \in Ids |-> [candidate |-> None, job |-> None, stage |-> "unborn"]]
  /\ openings = Jobs
  /\ contested = {}
  /\ count = [j \in Jobs |-> 0]

Counted(j, n) ==
  count' = IF j \in openings \ contested THEN [count EXCEPT ![j] = n] ELSE count

Apply(c, j, a) ==
  /\ j \in openings
  /\ rows[a].stage = "unborn"
  /\ j \in contested \/ \A b \in OnBoard(j) : rows[b].candidate # c
  /\ rows' = [rows EXCEPT ![a] = [candidate |-> c, job |-> j, stage |-> "applied"]]
  /\ Counted(j, count[j] + 1)
  /\ UNCHANGED <<openings, contested>>

Move(j, ids, s) ==
  /\ ids \subseteq OnBoard(j)
  /\ rows' = [a \in Ids |-> IF a \in ids THEN [rows[a] EXCEPT !.stage = s] ELSE rows[a]]
  /\ UNCHANGED <<openings, contested, count>>

Withdraw(j, a) ==
  /\ a \in OnBoard(j)
  /\ rows' = [rows EXCEPT ![a] = [candidate |-> None, job |-> None, stage |-> "withdrawn"]]
  /\ Counted(j, count[j] - 1)
  /\ UNCHANGED <<openings, contested>>

Delete(j) ==
  /\ j \in openings
  /\ openings' = openings \ {j}
  /\ count' = [count EXCEPT ![j] = 0]
  /\ UNCHANGED <<rows, contested>>

Contest(j) ==
  /\ contested' = contested \cup {j}
  /\ count' = [count EXCEPT ![j] = 0]
  /\ UNCHANGED <<rows, openings>>

Next ==
  \E j \in Jobs :
    \/ \E c \in Candidates, a \in Ids : Apply(c, j, a)
    \/ \E ids \in SUBSET Ids, s \in Stages : Move(j, ids, s)
    \/ \E a \in Ids : Withdraw(j, a)
    \/ Delete(j) \/ Contest(j)

Spec == Init /\ [][Next]_vars
===============================================================================
