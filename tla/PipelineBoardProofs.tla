------------------------ MODULE PipelineBoardProofs ------------------------
(***************************************************************************)
(* The requests of the pipeline implement the board on which each of them  *)
(* is one step, and never all wait for each other, for any number of       *)
(* candidates, jobs, applications and simultaneous requests.               *)
(***************************************************************************)
EXTENDS ApplicationPipelineProofs, WellFoundedInduction

\* A request that has written a job's count keeps the job from being deleted,
\* and a move that holds several applications holds them on one job.
JobKept(r) ==
  /\ req[r].kind = "apply" /\ req[r].pc \in {"notify", "commit"} =>
       req[r].job \in openings
  /\ req[r].kind = "move" =>
       \A a, b \in req[r].apps : Present(a) /\ Present(b) => rows[a].job = rows[b].job

\* What was withdrawn is blank.
Blanked == \A a \in AppIds : rows[a].stage = "withdrawn" => rows[a].candidate = None

KeptInv == Blanked /\ \A r \in Requests : JobKept(r)

LEMMA InitKept == Init => KeptInv
  BY DEF Init, KeptInv, JobKept, NoRequest, Blanked

-----------------------------------------------------------------------------
(* KeptInv is preserved, action by action.                                 *)

\* A request starts, goes on, or is rolled back, and the table stays.
LEMMA RequestKept ==
  ASSUME BaseInv, KeptInv, NEW r \in Requests, NEW n \in Request,
         req' = [req EXCEPT ![r] = n], UNCHANGED <<openings, rows>>,
         n.kind = "apply" /\ n.pc \in {"notify", "commit"} => n.job \in openings,
         n.kind = "move" =>
           \A a, b \in n.apps : Present(a) /\ Present(b) => rows[a].job = rows[b].job
  PROVE  KeptInv'
  <1> SUFFICES ASSUME NEW q \in Requests PROVE JobKept(q)'
    BY DEF KeptInv, Blanked
  <1>1. req'[q] = IF q = r THEN n ELSE req[q]
    BY DEF BaseInv, TypeOK
  <1>2. JobKept(q)
    BY DEF KeptInv
  <1> QED BY <1>1, <1>2 DEF JobKept, Present

LEMMA LoadKept ==
  ASSUME BaseInv, KeptInv, NEW r \in Requests, NEW found \in SUBSET AppIds,
         NEW s \in Targets, Load(r, found, s),
         \A a, b \in found : rows[a].job = rows[b].job
  PROVE  KeptInv'
  <1> DEFINE p == IF found = {} THEN "notify" ELSE "update"
             m == {a \in found : rows[a].stage # s}
             n == [kind |-> "move", pc |-> p, candidate |-> None, job |-> None,
                   apps |-> found, moves |-> m, done |-> {}, target |-> s, count |-> 0]
  <1>1. p \in Phases /\ m \in SUBSET AppIds
    BY DEF Phases
  <1>2. req' = [req EXCEPT ![r] = n] /\ UNCHANGED <<openings, rows>>
    BY DEF Load
  <1> HIDE DEF p, m
  <1>3. n \in Request /\ n.kind = "move" /\ n.apps = found
    BY <1>1, PipelineAssumption DEF Request, Kinds
  <1> HIDE DEF n
  <1> QED BY <1>2, <1>3, RequestKept

LEMMA AdvanceKept ==
  ASSUME BaseInv, KeptInv, NEW r \in Requests,
         \/ InsertApplication(r) \/ CountApplicant(r) \/ UpdateRow(r)
         \/ RemoveRow(r) \/ Notify(r)
  PROVE  KeptInv'
  <1>1. PICK n \in Request :
           /\ Advances(r, n)
           /\ n.pc = "notify" /\ n.kind = "apply" =>
                req[r].pc = "count" /\ n.count = req[r].count
           /\ n.pc = "commit" => Notify(r) /\ req[r].pc = "notify" /\ n.count = req[r].count
           /\ UNCHANGED <<openings, applicants, rows, raced>>
    BY RunningAdvances
  <1>2. JobKept(r)
    BY DEF KeptInv
  <1>3. n.kind = "apply" /\ n.pc = "notify" => n.job \in openings
    BY <1>1 DEF InsertApplication, CountApplicant, UpdateRow, RemoveRow, Notify, Advances
  <1>4. n.kind = "apply" /\ n.pc = "commit" => n.job \in openings
    BY <1>1, <1>2 DEF JobKept, Advances
  <1> QED BY <1>1, <1>2, <1>3, <1>4, RequestKept DEF Advances, JobKept

\* A request ends, and no row that others hold is born.
LEMMA EndKept ==
  ASSUME BaseInv, KeptInv, NEW r \in Requests,
         req' = [req EXCEPT ![r] = NoRequest], openings' = openings,
         \A a \in AppIds : Present(a)' /\ rows[a].stage # "unborn" =>
                              Present(a) /\ rows'[a].job = rows[a].job,
         Blanked'
  PROVE  KeptInv'
  <1> SUFFICES ASSUME NEW q \in Requests PROVE JobKept(q)'
    BY DEF KeptInv
  <1>1. CASE q = r
    BY <1>1 DEF JobKept, NoRequest, BaseInv, TypeOK
  <1>2. CASE q # r
    <2>1. req'[q] = req[q] /\ JobKept(q) /\ Held(q) /\ req[q].apps \subseteq AppIds
      BY <1>2, RequestFields DEF BaseInv, TypeOK, KeptInv
    <2>2. ASSUME req[q].kind = "move", NEW a \in req[q].apps, Present(a)'
          PROVE  Present(a) /\ rows'[a].job = rows[a].job
      BY <2>1, <2>2 DEF Held
    <2> QED BY <2>1, <2>2 DEF JobKept
  <1> QED BY <1>1, <1>2

LEMMA CommitKept ==
  ASSUME BaseInv, KeptInv, NEW r \in Requests, Commit(r)
  PROVE  KeptInv'
  <1>1. req' = [req EXCEPT ![r] = NoRequest] /\ openings' = openings
    BY DEF Commit
  <1>2. ASSUME NEW a \in AppIds, Present(a)', rows[a].stage # "unborn"
        PROVE  Present(a) /\ rows'[a].job = rows[a].job
    <2>1. CASE req[r].kind = "apply"
      <3>1. rows'[a] = rows[a]
        BY <1>2, <2>1, CommitApply DEF BaseInv, TypeOK
      <3> QED BY <1>2, <3>1 DEF Present
    <2>2. CASE req[r].kind # "apply"
      BY <1>2, <2>2, CommitMove DEF Present
    <2> QED BY <2>1, <2>2
  <1>3. ASSUME NEW a \in AppIds, rows'[a].stage = "withdrawn" PROVE rows'[a].candidate = None
    <2>1. CASE req[r].kind = "apply"
      <3>1. PICK b \in AppIds :
               rows' = [rows EXCEPT ![b] = [candidate |-> req[r].candidate,
                                            job |-> req[r].job, stage |-> "applied"]]
        BY <2>1, CommitApply
      <3>2. rows'[a] = rows[a]
        BY <1>3, <3>1 DEF BaseInv, TypeOK
      <3> QED BY <1>3, <3>2 DEF KeptInv, Blanked
    <2>2. CASE req[r].kind # "apply"
      <3>1. rows'[a] = rows[a]
        BY <1>3, <2>2, CommitMove DEF PIPELINE_STAGES
      <3> QED BY <1>3, <3>1 DEF KeptInv, Blanked
    <2> QED BY <2>1, <2>2
  <1> QED BY <1>1, <1>2, <1>3, EndKept DEF Blanked

LEMMA SettleKept ==
  ASSUME BaseInv, KeptInv, NEW r \in Requests, SettleWithdrawal(r)
  PROVE  KeptInv'
  <1>1. req' = [req EXCEPT ![r] = NoRequest] /\ openings' = openings
    BY DEF SettleWithdrawal
  <1>2. ASSUME NEW a \in AppIds, Present(a)'
        PROVE  Present(a) /\ rows'[a].job = rows[a].job
    BY <1>2 DEF SettleWithdrawal, Present, PIPELINE_STAGES
  <1>3. Blanked'
    BY DEF SettleWithdrawal, KeptInv, Blanked
  <1> QED BY <1>1, <1>2, <1>3, EndKept

LEMMA DeleteJobKept ==
  ASSUME BaseInv, KeptInv, NEW j \in Jobs, DeleteJob(j)
  PROVE  KeptInv'
  <1>1. /\ openings' = openings \ {j} /\ UNCHANGED <<rows, req>>
        /\ \A q \in Requests : ~ HoldsJob(q, j)
    BY DEF DeleteJob
  <1> QED BY <1>1 DEF KeptInv, JobKept, HoldsJob, Present, Blanked

LEMMA KeptNext == BaseInv /\ KeptInv /\ [Next]_vars => KeptInv'
  <1> SUFFICES ASSUME BaseInv, KeptInv, [Next]_vars PROVE KeptInv'
    OBVIOUS
  <1>1. ASSUME NEW r \in Requests, NEW c \in Candidates, NEW j \in Jobs,
               NEW a \in AppIds, Apply(r, c, j, a)
        PROVE  KeptInv'
    <2> DEFINE n == [kind |-> "apply", pc |-> "insert", candidate |-> c, job |-> j,
                     apps |-> {a}, moves |-> {}, done |-> {}, target |-> "applied",
                     count |-> 0]
    <2>1. n \in Request
      BY DEF Request, Kinds, Phases, PIPELINE_STAGES
    <2>2. req' = [req EXCEPT ![r] = n] /\ UNCHANGED <<openings, rows>>
      BY <1>1 DEF Apply
    <2>3. n.kind = "apply" /\ n.pc = "insert"
      OBVIOUS
    <2> HIDE DEF n
    <2> QED BY <2>1, <2>2, <2>3, RequestKept
  <1>2. ASSUME NEW r \in Requests, NEW a \in AppIds, NEW s \in Targets,
               UpdateStage(r, a, s)
        PROVE  KeptInv'
    BY <1>2, LoadKept DEF UpdateStage
  <1>3. ASSUME NEW r \in Requests, NEW j \in Jobs, NEW ids \in SUBSET AppIds,
               NEW s \in Targets, BulkMove(r, j, ids, s)
        PROVE  KeptInv'
    <2> DEFINE found == ids \cap Of(j)
    <2>1. found \in SUBSET AppIds /\ \A a \in found : rows[a].job = j
      BY DEF Of
    <2>2. Load(r, found, s)
      BY <1>3 DEF BulkMove
    <2> HIDE DEF found
    <2> QED BY <2>1, <2>2, LoadKept
  <1>4. ASSUME NEW r \in Requests, NEW a \in AppIds, Withdraw(r, a)
        PROVE  KeptInv'
    <2> DEFINE j == rows[a].job
               n == [kind |-> "withdraw", pc |-> "remove", candidate |-> None, job |-> j,
                     apps |-> {a}, moves |-> {}, done |-> {}, target |-> "applied",
                     count |-> 0]
    <2>1. j \in Jobs
      BY <1>4 DEF Withdraw, BaseInv, Tidy
    <2>2. req' = [req EXCEPT ![r] = n] /\ UNCHANGED <<openings, rows>>
      BY <1>4 DEF Withdraw
    <2> HIDE DEF j
    <2>3. n \in Request /\ n.kind = "withdraw"
      BY <2>1 DEF Request, Kinds, Phases, PIPELINE_STAGES
    <2> HIDE DEF n
    <2> QED BY <2>2, <2>3, RequestKept
  <1>5. ASSUME NEW r \in Requests,
               \/ InsertApplication(r) \/ CountApplicant(r) \/ UpdateRow(r)
               \/ RemoveRow(r) \/ Notify(r)
        PROVE  KeptInv'
    BY <1>5, AdvanceKept
  <1>6. ASSUME NEW r \in Requests, SettleWithdrawal(r) \/ Commit(r) PROVE KeptInv'
    BY <1>6, SettleKept, CommitKept
  <1>7. ASSUME NEW r \in Requests, Fail(r) \/ Interrupt(r) PROVE KeptInv'
    <2>1. req' = [req EXCEPT ![r] = NoRequest] /\ UNCHANGED <<openings, rows>>
      BY <1>7 DEF Fail, Interrupt, Rollback
    <2>2. NoRequest.kind = "none"
      BY DEF NoRequest
    <2> QED BY <2>1, <2>2, NothingOpen, RequestKept
  <1>8. ASSUME NEW j \in Jobs, DeleteJob(j) PROVE KeptInv'
    BY <1>8, DeleteJobKept
  <1>9. CASE (\E c \in Candidates : DeleteCandidate(c)) \/ UNCHANGED vars
    BY <1>9 DEF DeleteCandidate, vars, KeptInv, JobKept, Present, Blanked
  <1> QED BY <1>1, <1>2, <1>3, <1>4, <1>5, <1>6, <1>7, <1>8, <1>9 DEF Next

LEMMA AlwaysKept == Spec => []KeptInv
  <1>1. Init => BaseInv /\ KeptInv
    BY InitBase, InitKept
  <1>2. (BaseInv /\ KeptInv) /\ [Next]_vars => (BaseInv /\ KeptInv)'
    BY BaseNext, KeptNext
  <1> QED BY <1>1, <1>2, PTL DEF Spec
-----------------------------------------------------------------------------
(* Each step is a step of the board, or one that the board does not show.  *)

BoardVars == <<rows, openings, raced, CountShown>>

LEMMA UnseenSteps ==
  ASSUME UNCHANGED <<rows, openings, raced, applicants>>
  PROVE  UNCHANGED BoardVars
  BY DEF BoardVars, CountShown

\* A request that counts starts: the job may become contested.
LEMMA OverlapRefines ==
  ASSUME NEW j \in Jobs, Overlap(j), UNCHANGED <<rows, openings, applicants>>
  PROVE  Board!Contest(j) \/ UNCHANGED BoardVars
  <1>1. CASE raced' = raced
    BY <1>1, UnseenSteps
  <1>2. CASE raced' = raced \cup {j}
    <2>1. CountShown' = [CountShown EXCEPT ![j] = 0]
      BY <1>2 DEF CountShown
    <2> QED BY <1>2, <2>1 DEF Board!Contest
  <1> QED BY <1>1, <1>2 DEF Overlap

LEMMA SameBoards == \A j \in Jobs : Board!OnBoard(j) = Of(j)
  BY DEF Board!OnBoard, Of, Present

\* An application is born: it enters the board of a job that is still there,
\* and the number shown with the job grows by one.
LEMMA BirthRefines ==
  ASSUME BaseInv, CountInv, KeptInv, NEW r \in Requests, Commit(r),
         req[r].kind = "apply"
  PROVE  \E j \in Jobs, c \in Candidates, a \in AppIds : Board!Apply(c, j, a)
  <1>1. PICK a \in AppIds :
           /\ req[r].apps = {a}
           /\ req[r].job \in Jobs /\ req[r].candidate \in Candidates
           /\ rows[a].stage = "unborn"
           /\ rows' = [rows EXCEPT ![a] = [candidate |-> req[r].candidate,
                                           job |-> req[r].job, stage |-> "applied"]]
           /\ applicants' = [applicants EXCEPT ![req[r].job] = req[r].count + 1]
    BY CommitApply
  <1>2. PICK j \in Jobs : j = req[r].job
    BY <1>1
  <1>3. PICK c \in Candidates : c = req[r].candidate
    BY <1>1
  <1>4. req[r].pc = "commit" /\ UNCHANGED <<openings, raced>>
    BY DEF Commit
  <1>5. j \in openings
    BY <1>2, <1>4 DEF KeptInv, JobKept
  <1>6. applicants \in [Jobs -> Nat]
    BY DEF BaseInv, TypeOK
  <1>7. CASE j \in raced
    <2>1. CountShown' = CountShown
      BY <1>1, <1>2, <1>4, <1>6, <1>7 DEF CountShown
    <2>2. Board!Counted(j, CountShown[j] + 1)
      BY <1>7, <2>1 DEF Board!Counted
    <2>3. Board!Apply(c, j, a)
      BY <1>1, <1>2, <1>3, <1>4, <1>5, <1>7, <2>2 DEF Board!Apply
    <2> QED BY <2>3
  <1>8. CASE j \notin raced
    <2>1. /\ \A b \in Of(j) : rows[b].candidate # c
          /\ req[r].count = applicants[j]
      BY <1>2, <1>3, <1>4, <1>5, <1>8 DEF CountInv, Sound, Counting
    <2>2. CountShown[j] = applicants[j]
      BY <1>5, <1>8 DEF CountShown
    <2>3. CountShown' = [CountShown EXCEPT ![j] = applicants[j] + 1]
      BY <1>1, <1>2, <1>4, <1>5, <1>6, <1>8, <2>1 DEF CountShown
    <2>4. Board!Counted(j, CountShown[j] + 1)
      BY <1>5, <1>8, <2>2, <2>3 DEF Board!Counted
    <2>5. \A b \in Board!OnBoard(j) : rows[b].candidate # c
      BY <2>1, SameBoards
    <2>6. rows' = [rows EXCEPT ![a] = [candidate |-> c, job |-> j, stage |-> "applied"]]
      BY <1>1, <1>2, <1>3
    <2>7. Board!Apply(c, j, a)
      BY <1>1, <1>4, <1>5, <2>4, <2>5, <2>6 DEF Board!Apply
    <2> QED BY <2>7
  <1> QED BY <1>7, <1>8

\* The applications a move writes are all on one job.
LEMMA MoveRefines ==
  ASSUME BaseInv, KeptInv, NEW r \in Requests, Commit(r), req[r].kind # "apply"
  PROVE  \/ UNCHANGED BoardVars
         \/ \E j \in Jobs, ids \in SUBSET AppIds, s \in PIPELINE_STAGES :
              Board!Move(j, ids, s)
  <1>1. /\ req[r] \in Request /\ Shape(req[r]) /\ Held(r) /\ JobKept(r)
        /\ rows \in [AppIds -> Row] /\ req[r].pc = "commit"
    BY DEF BaseInv, TypeOK, KeptInv, Commit
  <1>2. req[r].kind = "move" /\ req[r].moves \in SUBSET AppIds
        /\ req[r].target \in PIPELINE_STAGES
    BY <1>1, RequestFields DEF Shape
  <1>3. PICK ids \in SUBSET AppIds, s \in PIPELINE_STAGES :
           ids = req[r].moves /\ s = req[r].target
    BY <1>2
  <1>4. /\ rows' = [a \in AppIds |-> IF a \in ids THEN [rows[a] EXCEPT !.stage = s]
                                                  ELSE rows[a]]
        /\ UNCHANGED <<openings, raced, applicants>>
    BY <1>2, <1>3 DEF Commit
  <1>5. \A a \in ids : Present(a) /\ a \in req[r].apps
    BY <1>1, <1>2, <1>3 DEF Shape, Held
  <1>6. CASE ids = {}
    <2>1. rows' = rows
      BY <1>1, <1>4, <1>6
    <2> QED BY <1>4, <2>1, UnseenSteps
  <1>7. CASE ids # {}
    <2>1. PICK a \in ids : TRUE
      BY <1>7
    <2>2. PICK j \in Jobs : j = rows[a].job
      BY <1>5 DEF BaseInv, Tidy
    <2>3. ids \subseteq Of(j)
      BY <1>1, <1>2, <1>5, <2>1, <2>2 DEF JobKept, Of
    <2>4. CountShown' = CountShown
      BY <1>4 DEF CountShown
    <2>5. Board!Move(j, ids, s)
      BY <1>4, <2>3, <2>4, SameBoards DEF Board!Move
    <2> QED BY <2>5
  <1> QED BY <1>6, <1>7

\* An application leaves its board; or it had left it already, and the job is
\* one where two withdrawals met.
LEMMA DepartureRefines ==
  ASSUME BaseInv, CountInv, KeptInv, NEW r \in Requests, SettleWithdrawal(r)
  PROVE  \/ UNCHANGED BoardVars
         \/ \E j \in Jobs, a \in AppIds : Board!Withdraw(j, a)
  <1> DEFINE gone == [candidate |-> None, job |-> None, stage |-> "withdrawn"]
  <1>1. /\ req[r] \in Request /\ Shape(req[r]) /\ Held(r) /\ req[r].pc = "settle"
        /\ rows \in [AppIds -> Row] /\ applicants \in [Jobs -> Nat]
        /\ UNCHANGED <<openings, raced>>
    BY DEF BaseInv, TypeOK, SettleWithdrawal
  <1>2. req[r].kind = "withdraw" /\ req[r].count \in Nat
    BY <1>1, RequestFields DEF Shape
  <1>3. PICK j \in Jobs, a \in AppIds : j = req[r].job /\ req[r].apps = {a}
    BY <1>1, <1>2 DEF Shape
  <1>4. /\ rows[a].job \in {j, None} /\ rows[a].stage # "unborn"
    BY <1>1, <1>2, <1>3 DEF Held
  <1>5. rows' = [rows EXCEPT ![a] = gone]
    <2>1. rows' = [b \in AppIds |-> IF b \in req[r].apps THEN gone ELSE rows[b]]
      BY DEF SettleWithdrawal
    <2> QED BY <1>1, <1>3, <2>1
  <1>6. applicants' = IF req[r].count > 0
                      THEN [applicants EXCEPT ![j] = req[r].count - 1] ELSE applicants
    BY <1>3 DEF SettleWithdrawal
  <1>7. CASE j \in openings \ raced
    <2>1. a \in Of(j) /\ req[r].count = applicants[j] /\ applicants[j] = Cardinality(Of(j))
      BY <1>1, <1>2, <1>3, <1>7 DEF CountInv, Sound, Counting
    <2>2. applicants[j] > 0
      <3>1. Cardinality(Of(j)) # 0
        BY <2>1, OfFinite, FS_EmptySet
      <3> QED BY <1>1, <2>1, <3>1
    <2>3. CountShown[j] = applicants[j]
      BY <1>7 DEF CountShown
    <2>4. applicants' = [applicants EXCEPT ![j] = applicants[j] - 1]
      BY <1>6, <2>1, <2>2
    <2>5. CountShown' = [CountShown EXCEPT ![j] = applicants[j] - 1]
      BY <1>1, <1>7, <2>4 DEF CountShown
    <2>6. Board!Counted(j, CountShown[j] - 1)
      BY <1>7, <2>3, <2>5 DEF Board!Counted
    <2>7. Board!Withdraw(j, a)
      BY <1>1, <1>5, <2>1, <2>6, SameBoards DEF Board!Withdraw
    <2> QED BY <2>7
  <1>8. CASE j \notin openings \ raced
    <2>1. CountShown' = CountShown
      BY <1>1, <1>6, <1>8 DEF CountShown
    <2>2. CASE Present(a)
      <3>1. a \in Of(j)
        BY <1>4, <2>2, PipelineAssumption DEF BaseInv, Tidy, Of
      <3>2. Board!Counted(j, CountShown[j] - 1)
        BY <1>8, <2>1 DEF Board!Counted
      <3>3. Board!Withdraw(j, a)
        BY <1>1, <1>5, <3>1, <3>2, SameBoards DEF Board!Withdraw
      <3> QED BY <3>3
    <2>3. CASE ~ Present(a)
      <3>1. rows[a] \in Row /\ rows[a].stage = "withdrawn"
        BY <1>1, <1>4, <2>3, RowFields DEF Present
      <3>2. rows[a] = gone
        BY <3>1, <2>3 DEF Row, KeptInv, Blanked, BaseInv, Tidy
      <3>3. rows' = rows
        BY <1>1, <1>5, <3>2
      <3> QED BY <1>1, <2>1, <3>3 DEF BoardVars
    <2> QED BY <2>2, <2>3
  <1> QED BY <1>7, <1>8

LEMMA DeletionRefines ==
  ASSUME BaseInv, NEW j \in Jobs, DeleteJob(j)
  PROVE  Board!Delete(j)
  <1>1. CountShown' = [CountShown EXCEPT ![j] = 0]
    BY DEF DeleteJob, CountShown
  <1> QED BY <1>1 DEF DeleteJob, Board!Delete

LEMMA StepRefines ==
  BaseInv /\ CountInv /\ KeptInv /\ [Next]_vars => [Board!Next]_BoardVars
  <1> SUFFICES ASSUME BaseInv, CountInv, KeptInv, [Next]_vars
               PROVE  Board!Next \/ UNCHANGED BoardVars
    OBVIOUS
  <1>1. ASSUME NEW r \in Requests, NEW c \in Candidates, NEW j \in Jobs,
               NEW a \in AppIds, Apply(r, c, j, a)
        PROVE  Board!Next \/ UNCHANGED BoardVars
    <2>1. Overlap(j) /\ UNCHANGED <<rows, openings, applicants>>
      BY <1>1 DEF Apply
    <2> QED BY <2>1, OverlapRefines DEF Board!Next
  <1>2. ASSUME NEW r \in Requests, NEW a \in AppIds, Withdraw(r, a)
        PROVE  Board!Next \/ UNCHANGED BoardVars
    <2>1. PICK j \in Jobs : j = rows[a].job
      BY <1>2 DEF Withdraw, BaseInv, Tidy
    <2>2. Overlap(j) /\ UNCHANGED <<rows, openings, applicants>>
      BY <1>2, <2>1 DEF Withdraw
    <2> QED BY <2>2, OverlapRefines DEF Board!Next
  <1>3. ASSUME NEW r \in Requests, Commit(r)
        PROVE  Board!Next \/ UNCHANGED BoardVars
    BY <1>3, BirthRefines, MoveRefines DEF Board!Next
  <1>4. ASSUME NEW r \in Requests, SettleWithdrawal(r)
        PROVE  Board!Next \/ UNCHANGED BoardVars
    BY <1>4, DepartureRefines DEF Board!Next
  <1>5. ASSUME NEW j \in Jobs, DeleteJob(j) PROVE Board!Next
    BY <1>5, DeletionRefines DEF Board!Next
  <1>6. CASE \E r \in Requests :
               \/ \E a \in AppIds, s \in Targets : UpdateStage(r, a, s)
               \/ \E j \in Jobs, ids \in SUBSET AppIds, s \in Targets : BulkMove(r, j, ids, s)
    BY <1>6, UnseenSteps DEF UpdateStage, BulkMove, Load
  <1>7. CASE \E r \in Requests : \/ InsertApplication(r) \/ CountApplicant(r)
                                 \/ UpdateRow(r) \/ RemoveRow(r) \/ Notify(r)
    BY <1>7, UnseenSteps DEF InsertApplication, CountApplicant, UpdateRow, RemoveRow, Notify
  <1>8. CASE \E r \in Requests : Fail(r) \/ Interrupt(r)
    BY <1>8, UnseenSteps DEF Fail, Interrupt, Rollback
  <1>9. CASE (\E c \in Candidates : DeleteCandidate(c)) \/ UNCHANGED vars
    BY <1>9, UnseenSteps DEF DeleteCandidate, vars
  <1> QED BY <1>1, <1>2, <1>3, <1>4, <1>5, <1>6, <1>7, <1>8, <1>9 DEF Next

(* The requests, whatever order their statements, commits, rollbacks and   *)
(* deletions come in, implement the board on which each is one step.       *)
THEOREM ImplementsBoard == Spec => BoardInOneStep
  <1>1. Init => Board!Init
    BY DEF Init, Board!Init, CountShown
  <1>2. BaseInv /\ CountInv /\ KeptInv /\ [Next]_vars => [Board!Next]_(Board!vars)
    BY StepRefines DEF BoardVars, Board!vars
  <1> QED BY <1>1, <1>2, AlwaysBase, AlwaysCount, AlwaysKept, PTL
          DEF Spec, BoardInOneStep, Board!Spec

-----------------------------------------------------------------------------
(* Waiting for rows and jobs that other sessions have written.             *)

\* The row the next UPDATE of a move writes.
NextRow(q, a) ==
  /\ q.pc = "update"
  /\ a \in q.apps \ q.done
  /\ \A b \in q.apps \ q.done : a <= b

\* A request that is open and has a step to take, a failing one included.
CanGoOn(r) ==
  \/ req[r].pc \in {"insert", "notify", "commit"}
  \/ req[r].pc = "count" /\ (req[r].job \in openings => JobFree(r, req[r].job))
  \/ req[r].pc = "update" /\ \E a \in AppIds :
       NextRow(req[r], a) /\ (Present(a) => RowFree(r, a))
  \/ req[r].pc = "remove" /\ \A a \in req[r].apps : RowFree(r, a)
  \/ /\ req[r].pc = "settle"
     /\ req[r].count > 0 /\ req[r].job \in openings => JobFree(r, req[r].job)

\* No circle of requests that wait for each other: whenever a request is open,
\* one that is open can go on.
NoCircle == (\E r \in Requests : ~ Idle(r)) => \E r \in Requests : CanGoOn(r)

\* Rows are written in the order of their keys, and only by moves that are not
\* finished and by withdrawals that have deleted theirs.
InOrder(q) ==
  /\ q.kind \in {"none", "apply"} => q.done = {}
  /\ q.pc = "remove" => q.done = {}
  /\ q.kind = "move" => q.done \subseteq q.apps
  /\ q.pc = "update" => /\ q.apps \ q.done # {}
                        /\ \A a \in q.done, b \in q.apps \ q.done : a < b

OrderInv == \A r \in Requests : InOrder(req[r])

LEMMA NothingOrdered == InOrder(NoRequest)
  BY DEF InOrder, NoRequest

\* A statement leaves its own request in order, and touches no other one.
LEMMA OrderedStep ==
  ASSUME BaseInv, OrderInv, NEW r \in Requests, NEW n \in Request,
         req' = [req EXCEPT ![r] = n], InOrder(n)
  PROVE  OrderInv'
  BY DEF OrderInv, BaseInv, TypeOK

LEMMA UpdateOrdered ==
  ASSUME BaseInv, OrderInv, NEW r \in Requests, UpdateRow(r)
  PROVE  OrderInv'
  <1> DEFINE q == req[r]
  <1>1. q \in Request /\ InOrder(q) /\ q.apps \subseteq AppIds /\ Shape(q)
    BY RequestFields DEF BaseInv, TypeOK, OrderInv
  <1>2. PICK a \in q.apps \ q.done :
           /\ q.pc = "update"
           /\ \A b \in q.apps \ q.done : a <= b
           /\ req' = [req EXCEPT ![r].done = @ \cup {a},
                ![r].pc = IF q.apps = q.done \cup {a} THEN "notify" ELSE "update"]
    BY DEF UpdateRow
  <1> DEFINE p == IF q.apps = q.done \cup {a} THEN "notify" ELSE "update"
             n == [q EXCEPT !.done = @ \cup {a}, !.pc = p]
  <1>3. /\ p \in {"notify", "update"} /\ (p = "update" => q.apps # q.done \cup {a})
        /\ req' = [req EXCEPT ![r] = n]
    BY <1>2
  <1> HIDE DEF p
  <1>4. /\ n \in Request
        /\ n.kind = q.kind /\ n.apps = q.apps /\ n.pc = p /\ n.done = q.done \cup {a}
    BY <1>1, <1>2, <1>3 DEF Request, Phases
  <1>5. q.kind = "move" /\ q.done \subseteq q.apps
    BY <1>1, <1>2 DEF InOrder, Shape
  <1>6. ASSUME NEW x \in q.done \cup {a}, NEW y \in q.apps \ (q.done \cup {a})
        PROVE  x < y
    <2>1. a \in Nat /\ y \in Nat /\ a # y
      BY <1>1, <1>6 DEF AppIds
    <2>2. CASE x = a
      BY <1>2, <1>6, <2>1, <2>2
    <2>3. CASE x \in q.done
      BY <1>1, <1>2, <1>6, <2>3 DEF InOrder
    <2> QED BY <1>6, <2>2, <2>3
  <1>7. InOrder(n)
    BY <1>2, <1>3, <1>4, <1>5, <1>6 DEF InOrder
  <1> HIDE DEF n
  <1> QED BY <1>3, <1>4, <1>7, OrderedStep

LEMMA LoadOrdered ==
  ASSUME BaseInv, OrderInv, NEW r \in Requests, NEW found \in SUBSET AppIds,
         NEW s \in Targets, Load(r, found, s)
  PROVE  OrderInv'
  <1> DEFINE p == IF found = {} THEN "notify" ELSE "update"
             m == {a \in found : rows[a].stage # s}
             n == [kind |-> "move", pc |-> p, candidate |-> None, job |-> None,
                   apps |-> found, moves |-> m, done |-> {}, target |-> s, count |-> 0]
  <1>1. p \in {"notify", "update"} /\ (p = "update" => found # {}) /\ m \in SUBSET AppIds
    OBVIOUS
  <1>2. req' = [req EXCEPT ![r] = n]
    BY DEF Load
  <1> HIDE DEF p, m
  <1>3. n \in Request
    BY <1>1, PipelineAssumption DEF Request, Kinds, Phases
  <1>4. InOrder(n)
    BY <1>1 DEF InOrder
  <1> HIDE DEF n
  <1> QED BY <1>2, <1>3, <1>4, OrderedStep

\* The other statements write no row, or the one of a withdrawal.
LEMMA OtherOrdered ==
  ASSUME BaseInv, OrderInv, NEW r \in Requests,
         InsertApplication(r) \/ CountApplicant(r) \/ RemoveRow(r) \/ Notify(r)
  PROVE  OrderInv'
  <1> DEFINE q == req[r]
  <1>1. q \in Request /\ InOrder(q) /\ Shape(q) /\ req \in [Requests -> Request]
    BY DEF BaseInv, TypeOK, OrderInv
  <1>2. /\ \A o \in Requests \ {r} : req'[o] = req[o]
        /\ req'[r].kind = q.kind /\ req'[r].apps = q.apps
        /\ req'[r].pc \in {"count", "notify", "settle", "commit"}
        /\ req'[r].done = IF RemoveRow(r) THEN q.apps ELSE q.done
    BY <1>1 DEF InsertApplication, CountApplicant, RemoveRow, Notify, Request
  <1>3. RemoveRow(r) => q.kind = "withdraw"
    BY <1>1 DEF RemoveRow, Shape
  <1>4. InOrder(req'[r])
    BY <1>1, <1>2, <1>3 DEF InOrder
  <1> QED BY <1>2, <1>4 DEF OrderInv

LEMMA OrderNext == BaseInv /\ OrderInv /\ [Next]_vars => OrderInv'
  <1> SUFFICES ASSUME BaseInv, OrderInv, [Next]_vars PROVE OrderInv'
    OBVIOUS
  <1>1. ASSUME NEW r \in Requests, NEW c \in Candidates, NEW j \in Jobs,
               NEW a \in AppIds, Apply(r, c, j, a)
        PROVE  OrderInv'
    <2> DEFINE n == [kind |-> "apply", pc |-> "insert", candidate |-> c, job |-> j,
                     apps |-> {a}, moves |-> {}, done |-> {}, target |-> "applied",
                     count |-> 0]
    <2>1. n \in Request /\ InOrder(n)
      BY DEF Request, Kinds, Phases, PIPELINE_STAGES, InOrder
    <2>2. req' = [req EXCEPT ![r] = n]
      BY <1>1 DEF Apply
    <2> HIDE DEF n
    <2> QED BY <2>1, <2>2, OrderedStep
  <1>2. ASSUME NEW r \in Requests, NEW a \in AppIds, NEW s \in Targets,
               UpdateStage(r, a, s)
        PROVE  OrderInv'
    BY <1>2, LoadOrdered DEF UpdateStage
  <1>3. ASSUME NEW r \in Requests, NEW j \in Jobs, NEW ids \in SUBSET AppIds,
               NEW s \in Targets, BulkMove(r, j, ids, s)
        PROVE  OrderInv'
    <2> DEFINE found == ids \cap Of(j)
    <2>1. found \in SUBSET AppIds
      OBVIOUS
    <2>2. Load(r, found, s)
      BY <1>3 DEF BulkMove
    <2> HIDE DEF found
    <2> QED BY <2>1, <2>2, LoadOrdered
  <1>4. ASSUME NEW r \in Requests, NEW a \in AppIds, Withdraw(r, a)
        PROVE  OrderInv'
    <2> DEFINE j == rows[a].job
               n == [kind |-> "withdraw", pc |-> "remove", candidate |-> None, job |-> j,
                     apps |-> {a}, moves |-> {}, done |-> {}, target |-> "applied",
                     count |-> 0]
    <2>1. j \in Jobs
      BY <1>4 DEF Withdraw, BaseInv, Tidy
    <2>2. req' = [req EXCEPT ![r] = n]
      BY <1>4 DEF Withdraw
    <2> HIDE DEF j
    <2>3. n \in Request /\ InOrder(n)
      BY <2>1 DEF Request, Kinds, Phases, PIPELINE_STAGES, InOrder
    <2> HIDE DEF n
    <2> QED BY <2>2, <2>3, OrderedStep
  <1>5. ASSUME NEW r \in Requests, UpdateRow(r) PROVE OrderInv'
    BY <1>5, UpdateOrdered
  <1>6. ASSUME NEW r \in Requests,
               InsertApplication(r) \/ CountApplicant(r) \/ RemoveRow(r) \/ Notify(r)
        PROVE  OrderInv'
    BY <1>6, OtherOrdered
  <1>7. ASSUME NEW r \in Requests,
               SettleWithdrawal(r) \/ Commit(r) \/ Fail(r) \/ Interrupt(r)
        PROVE  OrderInv'
    <2>1. req' = [req EXCEPT ![r] = NoRequest]
      BY <1>7 DEF SettleWithdrawal, Commit, Fail, Interrupt, Rollback
    <2> QED BY <2>1, NothingOpen, NothingOrdered, OrderedStep
  <1>8. CASE \/ \E c \in Candidates : DeleteCandidate(c)
             \/ \E j \in Jobs : DeleteJob(j)
             \/ UNCHANGED vars
    BY <1>8 DEF DeleteCandidate, DeleteJob, vars, OrderInv
  <1> QED BY <1>1, <1>2, <1>3, <1>4, <1>5, <1>6, <1>7, <1>8 DEF Next

LEMMA AlwaysOrdered == Spec => []OrderInv
  <1>1. Init => BaseInv /\ OrderInv
    BY InitBase, NothingOrdered DEF Init, OrderInv
  <1>2. (BaseInv /\ OrderInv) /\ [Next]_vars => (BaseInv /\ OrderInv)'
    BY BaseNext, OrderNext
  <1> QED BY <1>1, <1>2, PTL DEF Spec

LEMMA LeastExists ==
  ASSUME NEW T \in SUBSET Nat, T # {}
  PROVE  \E m \in T : \A x \in T : m <= x
  <1>1. PICK m \in T : \A y \in T : ~ (<<y, m>> \in OpToRel(<, Nat))
    BY NatLessThanWellFounded, WFMin
  <1>2. ASSUME NEW x \in T PROVE m <= x
    <2>1. x < m => <<x, m>> \in OpToRel(<, Nat)
      BY DEF OpToRel
    <2>2. ~ (x < m)
      BY <1>1, <2>1
    <2>3. m \in Nat /\ x \in Nat
      OBVIOUS
    <2> QED BY <2>2, <2>3
  <1> QED BY <1>2

LEMMA GreatestExists ==
  ASSUME NEW n \in Nat, NEW T \in SUBSET (1 .. n), T # {}
  PROVE  \E m \in T : \A x \in T : x <= m
  <1> DEFINE S == {n - x : x \in T}
  <1>1. \A x \in T : x \in Nat /\ n - x \in Nat
    OBVIOUS
  <1>2. S \in SUBSET Nat /\ S # {}
    BY <1>1
  <1>3. \E k \in S : \A y \in S : k <= y
    <2> HIDE DEF S
    <2> QED BY <1>2, LeastExists
  <1>4. PICK m \in T : \A y \in S : n - m <= y
    BY <1>3
  <1>5. ASSUME NEW x \in T PROVE x <= m
    <2>1. n - m <= n - x
      BY <1>4
    <2> QED BY <1>1, <2>1
  <1> QED BY <1>5

\* The one that waits for the greatest row would wait for a move that itself
\* waits for a greater one.
LEMMA OneCanGoOn == BaseInv /\ OrderInv => NoCircle
  <1> SUFFICES ASSUME BaseInv, OrderInv, NEW r0 \in Requests, ~ Idle(r0),
                      \A r \in Requests : ~ CanGoOn(r)
               PROVE  FALSE
    BY DEF NoCircle
  <1>1. ASSUME NEW r \in Requests
        PROVE  /\ req[r].pc \in Phases /\ req[r].kind \in Kinds
               /\ req[r].apps \subseteq AppIds /\ req[r].done \subseteq AppIds
               /\ Shape(req[r]) /\ InOrder(req[r])
    BY RequestFields DEF BaseInv, TypeOK, OrderInv
  <1>2. \A r \in Requests, j \in Jobs \cup {None} : JobFree(r, j)
    BY DEF CanGoOn, JobFree, HoldsJob
  <1>3. \A r \in Requests : req[r].pc \in {"idle", "update", "remove"}
    <2> SUFFICES ASSUME NEW r \in Requests
                 PROVE  req[r].pc \in {"idle", "update", "remove"}
      OBVIOUS
    <2>1. req[r].job \in Jobs \cup {None}
      BY RequestFields DEF BaseInv, TypeOK
    <2> QED BY <1>1, <1>2, <2>1 DEF CanGoOn, Phases
  <1>4. ASSUME NEW r \in Requests, req[r].done # {}
        PROVE  req[r].pc = "update"
    BY <1>1, <1>3, <1>4 DEF InOrder, Shape
  <1>5. PICK u \in Requests : req[u].pc = "update"
    <2>1. CASE req[r0].pc = "update"
      BY <2>1
    <2>2. CASE req[r0].pc = "remove"
      <3>1. PICK a \in req[r0].apps : ~ RowFree(r0, a)
        BY <2>2 DEF CanGoOn
      <3>2. PICK q \in Requests : a \in req[q].done
        BY <3>1 DEF RowFree
      <3> QED BY <1>4, <3>2
    <2> QED BY <1>3, <2>1, <2>2 DEF Idle
  <1>6. ASSUME NEW r \in Requests, req[r].pc = "update"
        PROVE  \E a \in AppIds : NextRow(req[r], a)
    <2> DEFINE T == req[r].apps \ req[r].done
    <2>1. T \in SUBSET Nat /\ T # {} /\ T \subseteq AppIds
      BY <1>1, <1>6 DEF InOrder, AppIds
    <2>2. \E a \in T : \A b \in T : a <= b
      <3> HIDE DEF T
      <3> QED BY <2>1, LeastExists
    <2> QED BY <1>6, <2>1, <2>2 DEF NextRow
  <1> DEFINE Awaited == {a \in AppIds : \E r \in Requests : NextRow(req[r], a)}
  <1>7. Awaited \in SUBSET (1 .. MaxApps) /\ Awaited # {} /\ MaxApps \in Nat
    BY <1>5, <1>6, PipelineAssumption DEF AppIds
  <1>8. \E m \in Awaited : \A a \in Awaited : a <= m
    <2> HIDE DEF Awaited
    <2> QED BY <1>7, GreatestExists
  <1>9. PICK m \in AppIds, r \in Requests :
           NextRow(req[r], m) /\ \A a \in Awaited : a <= m
    BY <1>8
  <1>10. ~ RowFree(r, m)
    BY <1>9 DEF CanGoOn, NextRow
  <1>11. PICK q \in Requests : m \in req[q].done
    BY <1>10 DEF RowFree
  <1>12. req[q].pc = "update"
    BY <1>4, <1>11
  <1>13. PICK a \in AppIds : NextRow(req[q], a)
    BY <1>6, <1>12
  <1>14. m < a
    BY <1>1, <1>11, <1>12, <1>13 DEF InOrder, NextRow
  <1>15. a <= m
    BY <1>9, <1>13
  <1> QED BY <1>14, <1>15 DEF AppIds

(* Sessions that wait for rows and jobs written by others never wait in a  *)
(* circle, bulk moves that hold some rows and wait for more included.      *)
THEOREM NobodyWaitsInACircle == Spec => []NoCircle
  BY OneCanGoOn, AlwaysBase, AlwaysOrdered, PTL

-----------------------------------------------------------------------------
(* One request at a time: nothing is ever raced, and what holds of the     *)
(* jobs that are not raced holds of all of them.                           *)

OneAtATime == \A p, q \in Requests : p = q

NoRace == raced = {}

LEMMA SerialNoRace ==
  ASSUME OneAtATime
  PROVE  BaseInv /\ NoRace /\ [Next]_vars => NoRace'
  <1> SUFFICES ASSUME BaseInv, NoRace, [Next]_vars PROVE NoRace'
    OBVIOUS
  <1>1. ASSUME NEW r \in Requests, Idle(r), NEW j, Overlap(j) PROVE NoRace'
    <2>1. \A q \in Requests : req[q].kind = "none"
      BY <1>1 DEF OneAtATime, Idle, BaseInv, Shape
    <2>2. \A q \in Requests : ~ Counting(q, j)
      BY <2>1 DEF Counting
    <2> QED BY <1>1, <2>2 DEF Overlap, NoRace
  <1>2. ASSUME NEW r \in Requests,
               \/ \E c \in Candidates, j \in Jobs, a \in AppIds : Apply(r, c, j, a)
               \/ \E a \in AppIds : Withdraw(r, a)
        PROVE  NoRace'
    BY <1>1, <1>2 DEF Apply, Withdraw
  <1>3. ASSUME NEW r \in Requests,
               \/ \E a \in AppIds, s \in Targets : UpdateStage(r, a, s)
               \/ \E j \in Jobs, ids \in SUBSET AppIds, s \in Targets : BulkMove(r, j, ids, s)
               \/ InsertApplication(r) \/ CountApplicant(r)
               \/ UpdateRow(r) \/ RemoveRow(r) \/ SettleWithdrawal(r)
               \/ Notify(r) \/ Commit(r) \/ Fail(r) \/ Interrupt(r)
        PROVE  UNCHANGED raced
    BY <1>3 DEF UpdateStage, BulkMove, Load, InsertApplication, CountApplicant,
       UpdateRow, RemoveRow, SettleWithdrawal, Notify, Commit, Fail, Interrupt, Rollback
  <1>4. CASE \/ \E c \in Candidates : DeleteCandidate(c)
             \/ \E j \in Jobs : DeleteJob(j)
             \/ UNCHANGED vars
    BY <1>4 DEF DeleteCandidate, DeleteJob, vars, NoRace
  <1> QED BY <1>2, <1>3, <1>4 DEF Next, NoRace

(* The claim of models/application.py:68-71 holds where requests come one  *)
(* after the other, interrupted ones and deletions included.               *)
THEOREM SerialPairsUnique ==
  ASSUME OneAtATime
  PROVE  Spec => []OnePerPair
  <1>1. Init => NoRace
    BY DEF Init, NoRace
  <1>2. BaseInv /\ NoRace /\ [Next]_vars => NoRace'
    BY SerialNoRace
  <1>3. NoRace /\ CountInv => OnePerPair
    BY DEF NoRace, CountInv, Sound, OnePerPair
  <1> QED BY <1>1, <1>2, <1>3, AlwaysBase, AlwaysCount, PTL DEF Spec

\* The denormalised count of every job that is there is its number of rows.
CountExact == \A j \in openings : applicants[j] = Cardinality(Of(j))

(* So is the count then, after any number of failures and withdrawals.     *)
THEOREM SerialCountsExact ==
  ASSUME OneAtATime
  PROVE  Spec => []CountExact
  <1>1. Init => NoRace
    BY DEF Init, NoRace
  <1>2. BaseInv /\ NoRace /\ [Next]_vars => NoRace'
    BY SerialNoRace
  <1>3. BaseInv /\ NoRace /\ CountInv => CountExact
    BY DEF BaseInv, TypeOK, NoRace, CountInv, Sound, CountExact
  <1> QED BY <1>1, <1>2, <1>3, AlwaysBase, AlwaysCount, PTL DEF Spec
=============================================================================
