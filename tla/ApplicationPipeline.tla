------------------------ MODULE ApplicationPipeline ------------------------
(***************************************************************************)
(* The hiring pipeline: the rows of candidate_applications and the         *)
(* denormalised Job.applicants_count, as the request handlers of           *)
(* src/backend/apps/candidate_service and job_service change them.         *)
(*                                                                         *)
(* A request owns one database session.  It reads what other requests      *)
(* have committed, keeps what it read across its awaits, flushes its       *)
(* writes one UPDATE or DELETE at a time, calls the webhooks, and only     *)
(* then is its session committed (get_db_session).  The database is        *)
(* PostgreSQL at its default isolation, READ COMMITTED: a statement sees   *)
(* the rows committed before it, and a write waits while another open      *)
(* session has written the same row.  SQLAlchemy raises StaleDataError     *)
(* when an UPDATE finds no row, which loses the session, and only warns    *)
(* when a DELETE finds none.                                               *)
(*                                                                         *)
(* One tenant: every query filters on the caller's tenant, so the rows of  *)
(* two tenants never meet.  Left out: creating candidates and jobs (they   *)
(* are all there from the start, with no application), merging candidates  *)
(* (for this table it is DeleteCandidate: the rows stay where they are),   *)
(* the notes, scores and timestamps of a row, the audit and activity rows, *)
(* and the attempts of a webhook call.                                     *)
(***************************************************************************)
EXTENDS Naturals, FiniteSets

CONSTANTS
  Candidates,  \* primary keys of the table candidates
  Jobs,        \* primary keys of the table jobs
  MaxApps,     \* bound on the applications ever created
  Targets,     \* the stages callers ask for, a subset of PIPELINE_STAGES
  Requests,    \* requests that may be open at the same time
  None         \* no value in a column or in a field of a request

PIPELINE_STAGES ==
  {"applied", "screening", "interview", "offer", "hired", "rejected"}

ASSUME PipelineAssumption ==
  /\ MaxApps \in Nat
  /\ Targets \subseteq PIPELINE_STAGES
  /\ None \notin Candidates \cup Jobs

AppIds == 1..MaxApps

VARIABLES
  candidates,  \* candidates that exist
  openings,    \* jobs that exist
  applicants,  \* [Jobs -> Nat], the column applicants_count
  rows,        \* [AppIds -> Row], candidate_applications as committed
  req,         \* [Requests -> Request], what each open request holds
  announced,   \* history: ids whose "created" event the webhooks were sent
  raced        \* history: jobs on which two counting requests overlapped

vars == <<candidates, openings, applicants, rows, req, announced, raced>>

Row == [candidate : Candidates \cup {None}, job : Jobs \cup {None},
        stage : PIPELINE_STAGES \cup {"unborn", "withdrawn"}]

Kinds == {"none", "apply", "move", "withdraw"}

Phases == {"idle", "insert", "count", "remove", "settle",
           "update", "notify", "commit"}

(* apps: the rows the handler works on; moves: those whose stage column    *)
(* the UPDATE sets; done: those its session has already written; count:    *)
(* the applicants_count it read.                                           *)
Request == [kind : Kinds, pc : Phases, candidate : Candidates \cup {None},
            job : Jobs \cup {None}, apps : SUBSET AppIds,
            moves : SUBSET AppIds, done : SUBSET AppIds,
            target : PIPELINE_STAGES, count : Nat]

NoRequest == [kind |-> "none", pc |-> "idle", candidate |-> None,
              job |-> None, apps |-> {}, moves |-> {}, done |-> {},
              target |-> "applied", count |-> 0]

Present(a) == rows[a].stage \in PIPELINE_STAGES

Of(j) == {a \in AppIds : Present(a) /\ rows[a].job = j}

Idle(r) == req[r].pc = "idle"

Counting(r, j) == req[r].kind \in {"apply", "withdraw"} /\ req[r].job = j

(* An id no committed, announced or open application has: uuid4. *)
Fresh(a) == /\ rows[a].stage = "unborn"
            /\ a \notin announced
            /\ \A r \in Requests : a \notin req[r].apps

(* No other open session has written the row of a, or of the job j. *)
RowFree(r, a) == \A q \in Requests \ {r} : a \notin req[q].done

HoldsJob(q, j) ==
  req[q].kind = "apply" /\ req[q].job = j /\ req[q].pc \in {"notify", "commit"}

JobFree(r, j) == \A q \in Requests \ {r} : ~ HoldsJob(q, j)

Overlap(j) ==
  raced' = IF \E q \in Requests : Counting(q, j) THEN raced \cup {j} ELSE raced

Init ==
  /\ candidates = Candidates
  /\ openings = Jobs
  /\ applicants = [j \in Jobs |-> 0]
  /\ rows = [a \in AppIds |-> [candidate |-> None, job |-> None, stage |-> "unborn"]]
  /\ req = [r \in Requests |-> NoRequest]
  /\ announced = {}
  /\ raced = {}

----------------------------------------------------------------------------
(* apply_candidate_to_job *)

(* A mutant: no check for a row of the same pair. *)
ApplyAgain(r, c, j, a) ==
  /\ Idle(r)
  /\ c \in candidates
  /\ j \in openings
  /\ Fresh(a)
  /\ req' = [req EXCEPT ![r] = [kind |-> "apply", pc |-> "insert",
        candidate |-> c, job |-> j, apps |-> {a}, moves |-> {}, done |-> {},
        target |-> "applied", count |-> 0]]
  /\ Overlap(j)
  /\ UNCHANGED <<candidates, openings, applicants, rows, announced>>

(* The candidate and the job are loaded, and 409 is returned if the pair   *)
(* already has a row.                                                      *)
Apply(r, c, j, a) ==
  /\ Idle(r)
  /\ c \in candidates
  /\ j \in openings
  /\ \A b \in Of(j) : rows[b].candidate # c
  /\ Fresh(a)
  /\ req' = [req EXCEPT ![r] = [kind |-> "apply", pc |-> "insert",
        candidate |-> c, job |-> j, apps |-> {a}, moves |-> {}, done |-> {},
        target |-> "applied", count |-> 0]]
  /\ Overlap(j)
  /\ UNCHANGED <<candidates, openings, applicants, rows, announced>>

(* INSERT, visible to nobody yet, then the SELECT that reads the count. *)
InsertApplication(r) ==
  /\ req[r].pc = "insert"
  /\ req[r].job \in openings
  /\ req' = [req EXCEPT ![r].pc = "count", ![r].count = applicants[req[r].job]]
  /\ UNCHANGED <<candidates, openings, applicants, rows, announced, raced>>

(* A mutant: the call of the webhooks is missing. *)
CountSilently(r) ==
  /\ req[r].pc = "count"
  /\ req[r].job \in openings
  /\ JobFree(r, req[r].job)
  /\ req' = [req EXCEPT ![r].pc = "commit"]
  /\ UNCHANGED <<candidates, openings, applicants, rows, announced, raced>>

(* UPDATE jobs SET applicants_count, flushed by the activity log. *)
CountApplicant(r) ==
  /\ req[r].pc = "count"
  /\ req[r].job \in openings
  /\ JobFree(r, req[r].job)
  /\ req' = [req EXCEPT ![r].pc = "notify"]
  /\ UNCHANGED <<candidates, openings, applicants, rows, announced, raced>>

----------------------------------------------------------------------------
(* update_application_stage and bulk_move_applications_stage *)

(* The request loads its rows; the ORM leaves out of the UPDATE a stage    *)
(* that already has the value asked for.                                   *)
Load(r, found, s) ==
  /\ Idle(r)
  /\ req' = [req EXCEPT ![r] = [kind |-> "move",
        pc |-> IF found = {} THEN "notify" ELSE "update",
        candidate |-> None, job |-> None, apps |-> found,
        moves |-> {a \in found : rows[a].stage # s}, done |-> {},
        target |-> s, count |-> 0]]
  /\ UNCHANGED <<candidates, openings, applicants, rows, announced, raced>>

UpdateStage(r, a, s) ==
  /\ Present(a)
  /\ rows[a].candidate \in candidates
  /\ Load(r, {a}, s)

BulkMove(r, j, requested, s) ==
  /\ j \in openings
  /\ Load(r, requested \cap Of(j), s)

(* A mutant: the rows are written in the order the caller listed them. *)
UpdateAnyRow(r) ==
  \E a \in req[r].apps \ req[r].done :
    /\ req[r].pc = "update"
    /\ Present(a)
    /\ RowFree(r, a)
    /\ req' = [req EXCEPT ![r].done = @ \cup {a},
         ![r].pc = IF req[r].apps = req[r].done \cup {a} THEN "notify" ELSE "update"]
    /\ UNCHANGED <<candidates, openings, applicants, rows, announced, raced>>

(* The next UPDATE of the flush, in the order of the primary keys. *)
UpdateRow(r) ==
  \E a \in req[r].apps \ req[r].done :
    /\ req[r].pc = "update"
    /\ \A b \in req[r].apps \ req[r].done : a <= b
    /\ Present(a)
    /\ RowFree(r, a)
    /\ req' = [req EXCEPT ![r].done = @ \cup {a},
         ![r].pc = IF req[r].apps = req[r].done \cup {a} THEN "notify" ELSE "update"]
    /\ UNCHANGED <<candidates, openings, applicants, rows, announced, raced>>

----------------------------------------------------------------------------
(* withdraw_application *)

Withdraw(r, a) ==
  /\ Idle(r)
  /\ Present(a)
  /\ rows[a].candidate \in candidates
  /\ req' = [req EXCEPT ![r] = [kind |-> "withdraw", pc |-> "remove",
        candidate |-> None, job |-> rows[a].job, apps |-> {a}, moves |-> {},
        done |-> {}, target |-> "applied", count |-> 0]]
  /\ Overlap(rows[a].job)
  /\ UNCHANGED <<candidates, openings, applicants, rows, announced>>

(* DELETE, which may find the row gone, then the SELECT that reads the     *)
(* count (0 stands for a job that is gone too: nothing to decrement).      *)
RemoveRow(r) ==
  /\ req[r].pc = "remove"
  /\ \A a \in req[r].apps : RowFree(r, a)
  /\ req' = [req EXCEPT ![r].pc = "settle", ![r].done = req[r].apps,
       ![r].count = IF req[r].job \in openings THEN applicants[req[r].job] ELSE 0]
  /\ UNCHANGED <<candidates, openings, applicants, rows, announced, raced>>

(* A mutant: the row goes, the count stays. *)
SettleUncounted(r) ==
  /\ req[r].pc = "settle"
  /\ rows' = [a \in AppIds |->
       IF a \in req[r].apps
       THEN [candidate |-> None, job |-> None, stage |-> "withdrawn"]
       ELSE rows[a]]
  /\ req' = [req EXCEPT ![r] = NoRequest]
  /\ UNCHANGED <<candidates, openings, applicants, announced, raced>>

(* A mutant: the decrement without the clamp at 0. *)
SettleUnclamped(r) ==
  /\ req[r].pc = "settle"
  /\ req[r].job \in openings
  /\ JobFree(r, req[r].job)
  /\ applicants' = [applicants EXCEPT ![req[r].job] = req[r].count - 1]
  /\ rows' = [a \in AppIds |->
       IF a \in req[r].apps
       THEN [candidate |-> None, job |-> None, stage |-> "withdrawn"]
       ELSE rows[a]]
  /\ req' = [req EXCEPT ![r] = NoRequest]
  /\ UNCHANGED <<candidates, openings, announced, raced>>

(* UPDATE jobs SET applicants_count, then the commit: no webhook between. *)
SettleWithdrawal(r) ==
  /\ req[r].pc = "settle"
  /\ req[r].count > 0 => req[r].job \in openings /\ JobFree(r, req[r].job)
  /\ applicants' = IF req[r].count > 0
                   THEN [applicants EXCEPT ![req[r].job] = req[r].count - 1]
                   ELSE applicants
  /\ rows' = [a \in AppIds |->
       IF a \in req[r].apps
       THEN [candidate |-> None, job |-> None, stage |-> "withdrawn"]
       ELSE rows[a]]
  /\ req' = [req EXCEPT ![r] = NoRequest]
  /\ UNCHANGED <<candidates, openings, announced, raced>>

----------------------------------------------------------------------------
(* How a request that changed rows ends *)

(* safe_dispatch_event: the events leave before the commit. *)
Notify(r) ==
  /\ req[r].pc = "notify"
  /\ announced' = IF req[r].kind = "apply" THEN announced \cup req[r].apps ELSE announced
  /\ req' = [req EXCEPT ![r].pc = "commit"]
  /\ UNCHANGED <<candidates, openings, applicants, rows, raced>>

Commit(r) ==
  /\ req[r].pc = "commit"
  /\ rows' = [a \in AppIds |->
       IF req[r].kind = "apply" /\ a \in req[r].apps
       THEN [candidate |-> req[r].candidate, job |-> req[r].job, stage |-> "applied"]
       ELSE IF a \in req[r].moves THEN [rows[a] EXCEPT !.stage = req[r].target]
       ELSE rows[a]]
  /\ applicants' = IF req[r].kind = "apply"
                   THEN [applicants EXCEPT ![req[r].job] = req[r].count + 1]
                   ELSE applicants
  /\ req' = [req EXCEPT ![r] = NoRequest]
  /\ UNCHANGED <<candidates, openings, announced, raced>>

(* The row a statement needs is gone: scalar_one() or StaleDataError, and  *)
(* the request ends in a rollback.                                         *)
Stale(r) ==
  \/ req[r].pc \in {"insert", "count"} /\ req[r].job \notin openings
  \/ req[r].pc = "settle" /\ req[r].count > 0 /\ req[r].job \notin openings
  \/ req[r].pc = "update" /\ \E a \in req[r].apps \ req[r].done :
       (\A b \in req[r].apps \ req[r].done : a <= b) /\ ~ Present(a)

Rollback(r) ==
  /\ req' = [req EXCEPT ![r] = NoRequest]
  /\ UNCHANGED <<candidates, openings, applicants, rows, announced, raced>>

Fail(r) == Stale(r) /\ Rollback(r)

(* The client disconnects, the process dies or the database goes away. *)
Interrupt(r) == ~ Idle(r) /\ Rollback(r)

----------------------------------------------------------------------------
(* delete_candidate and delete_job: one row, and no application is touched *)

DeleteCandidate(c) ==
  /\ c \in candidates
  /\ candidates' = candidates \ {c}
  /\ UNCHANGED <<openings, applicants, rows, req, announced, raced>>

(* A mutant: the row goes while another session has written it. *)
DeleteJobAtOnce(j) ==
  /\ j \in openings
  /\ openings' = openings \ {j}
  /\ UNCHANGED <<candidates, applicants, rows, req, announced, raced>>

DeleteJob(j) ==
  /\ j \in openings
  /\ \A q \in Requests : ~ HoldsJob(q, j)
  /\ openings' = openings \ {j}
  /\ UNCHANGED <<candidates, applicants, rows, req, announced, raced>>

----------------------------------------------------------------------------
Proceed(r) == \/ InsertApplication(r) \/ CountApplicant(r)
              \/ UpdateRow(r) \/ RemoveRow(r) \/ SettleWithdrawal(r)
              \/ Notify(r) \/ Commit(r) \/ Fail(r)

Next ==
  \/ \E r \in Requests :
       \/ \E c \in Candidates, j \in Jobs, a \in AppIds : Apply(r, c, j, a)
       \/ \E a \in AppIds, s \in Targets : UpdateStage(r, a, s)
       \/ \E j \in Jobs, ids \in SUBSET AppIds, s \in Targets : BulkMove(r, j, ids, s)
       \/ \E a \in AppIds : Withdraw(r, a)
       \/ InsertApplication(r) \/ CountApplicant(r)
       \/ UpdateRow(r) \/ RemoveRow(r) \/ SettleWithdrawal(r)
       \/ Notify(r) \/ Commit(r) \/ Fail(r) \/ Interrupt(r)
  \/ \E c \in Candidates : DeleteCandidate(c)
  \/ \E j \in Jobs : DeleteJob(j)

Spec == Init /\ [][Next]_vars

(* PostgreSQL queues the sessions that wait for a row, so a request that   *)
(* can take it again and again takes it in the end.                        *)
FairSpec == Spec /\ \A r \in Requests : SF_vars(Proceed(r))

----------------------------------------------------------------------------
TypeOK ==
  /\ candidates \subseteq Candidates
  /\ openings \subseteq Jobs
  /\ applicants \in [Jobs -> Nat]
  /\ rows \in [AppIds -> Row]
  /\ req \in [Requests -> Request]
  /\ announced \subseteq AppIds
  /\ raced \subseteq Jobs

(* The denormalised count of a job is the number of its rows, rows of      *)
(* deleted candidates included, unless two requests that change it were    *)
(* open at the same time (candidate_service/main.py:2886-2893, 3126-3134). *)
CountExactUnlessRaced ==
  \A j \in openings \ raced : applicants[j] = Cardinality(Of(j))

(* Two rows for one candidate and one job need two overlapping requests:   *)
(* the check that returns 409 (main.py:2854-2867) is enough when they come *)
(* one after the other, whatever else happened before.                     *)
OnePerPairUnlessRaced ==
  \A j \in Jobs \ raced : \A a, b \in Of(j) :
    rows[a].candidate = rows[b].candidate => a = b

(* No application is in the table whose webhooks were not called first     *)
(* (main.py:2924-2934): a receiver may miss nothing the API shows.         *)
AnnouncedBeforeVisible ==
  \A a \in AppIds : Present(a) => a \in announced

(* The requests, cut into sessions, statements and commits, implement the  *)
(* board on which each one is a single step (main.py:2842-2936, 2992-3085, *)
(* 3099-3162; job_service/main.py:362-370, 1046-1105): no application      *)
(* enters the board of a job deleted meanwhile, none that was withdrawn    *)
(* comes back, and the count moves with the rows.                          *)
CountShown == [j \in Jobs |-> IF j \in openings \ raced THEN applicants[j] ELSE 0]

Board == INSTANCE JobBoard WITH
  Ids <- AppIds, Stages <- PIPELINE_STAGES, contested <- raced, count <- CountShown

BoardInOneStep == Board!Spec

(* Waiting for rows never goes in a circle: a request that is open ends,   *)
(* although bulk moves hold the rows they wrote while they wait for more.  *)
EveryRequestEnds == \A r \in Requests : ~ Idle(r) ~> Idle(r)

(* models/application.py:68-71: "(candidate_id, job_id) is logically       *)
(* unique within a tenant. The uniqueness is enforced at the service       *)
(* layer (the API returns 409 on duplicate)".                              *)
OnePerPair ==
  \A j \in Jobs : \A a, b \in Of(j) :
    rows[a].candidate = rows[b].candidate => a = b
=============================================================================
