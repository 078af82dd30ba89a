--------------------- MODULE ApplicationPipelineProofs ---------------------
(***************************************************************************)
(* What holds of the pipeline's tables for any number of candidates, jobs, *)
(* applications and simultaneous requests.                                 *)
(*                                                                         *)
(* Shape says what a request of each kind looks like in each phase, Held   *)
(* how the rows it works on stand in the table, Tidy how the columns of a  *)
(* row go together.  CountInv is about one job on which no two counting    *)
(* requests overlapped: the single request that may be open on it read a   *)
(* count that is still the number of its rows.                             *)
(***************************************************************************)
EXTENDS ApplicationPipeline, FiniteSetTheorems, TLAPS

Shape(q) ==
  /\ q.pc = "idle" => q.kind = "none"
  /\ q.kind = "none" => q.apps = {}
  /\ q.pc \in {"insert", "count"} => q.kind = "apply"
  /\ q.pc \in {"remove", "settle"} => q.kind = "withdraw"
  /\ q.pc = "update" => q.kind = "move"
  /\ q.pc \in {"notify", "commit"} => q.kind \in {"apply", "move"}
  /\ q.kind = "apply" => /\ q.candidate \in Candidates
                         /\ q.job \in Jobs
                         /\ q.moves = {}
                         /\ \E a \in AppIds : q.apps = {a}
  /\ q.kind = "withdraw" => /\ q.job \in Jobs
                            /\ q.moves = {}
                            /\ \E a \in AppIds : q.apps = {a}
  /\ q.moves \subseteq q.apps
  /\ q.kind = "move" /\ q.pc \in {"notify", "commit"} => q.apps \subseteq q.done
  /\ q.pc = "settle" => q.apps \subseteq q.done

Tidy(a) ==
  /\ Present(a) => rows[a].job \in Jobs /\ rows[a].candidate \in Candidates
  /\ ~ Present(a) => rows[a].job = None
  /\ rows[a].stage # "unborn" => a \in announced

Held(r) ==
  /\ req[r].kind = "apply" =>
       \A a \in req[r].apps : /\ rows[a].stage = "unborn"
                              /\ \A q \in Requests \ {r} : a \notin req[q].apps
  /\ req[r].kind \in {"move", "withdraw"} =>
       \A a \in req[r].apps : rows[a].stage # "unborn"
  /\ req[r].kind = "apply" /\ req[r].pc = "commit" => req[r].apps \subseteq announced
  /\ req[r].kind = "withdraw" =>
       \A a \in req[r].apps : rows[a].job \in {req[r].job, None}
  /\ \A q \in Requests \ {r} : req[r].done \cap req[q].done = {}
  /\ req[r].kind = "move" => \A a \in req[r].done : Present(a)

BaseInv == /\ TypeOK
           /\ \A r \in Requests : Shape(req[r]) /\ Held(r)
           /\ \A a \in AppIds : Tidy(a)

-----------------------------------------------------------------------------
(* Types.                                                                  *)

LEMMA NothingOpen == NoRequest \in Request /\ Shape(NoRequest)
  BY DEF NoRequest, Request, Kinds, Phases, PIPELINE_STAGES, Shape

\* The columns of a row and the fields of a request have their types.
LEMMA RowFields ==
  ASSUME NEW x \in Row
  PROVE  /\ x.candidate \in Candidates \cup {None}
         /\ x.job \in Jobs \cup {None}
         /\ x.stage \in PIPELINE_STAGES \cup {"unborn", "withdrawn"}
  BY DEF Row

LEMMA RequestFields ==
  ASSUME NEW q \in Request
  PROVE  /\ q.kind \in Kinds
         /\ q.pc \in Phases
         /\ q.candidate \in Candidates \cup {None}
         /\ q.job \in Jobs \cup {None}
         /\ q.apps \in SUBSET AppIds
         /\ q.moves \in SUBSET AppIds
         /\ q.done \in SUBSET AppIds
         /\ q.target \in PIPELINE_STAGES
         /\ q.count \in Nat
  BY DEF Request

LEMMA InitBase == Init => BaseInv
  <1> SUFFICES ASSUME Init PROVE BaseInv
    OBVIOUS
  <1>1. TypeOK
    <2>1. req \in [Requests -> Request]
      BY NothingOpen DEF Init
    <2>2. rows \in [AppIds -> Row]
      BY DEF Init, Row
    <2> QED BY <2>1, <2>2 DEF Init, TypeOK
  <1>2. \A r \in Requests : Shape(req[r]) /\ Held(r)
    BY NothingOpen DEF Init, Held, NoRequest
  <1>3. \A a \in AppIds : Tidy(a)
    BY DEF Init, Tidy, Present, PIPELINE_STAGES
  <1> QED BY <1>1, <1>2, <1>3 DEF BaseInv

-----------------------------------------------------------------------------
(* One step of a request: it keeps what it works on and goes to another    *)
(* phase.                                                                  *)

Advances(r, n) ==
  /\ req' = [req EXCEPT ![r] = n]
  /\ n \in Request /\ Shape(n)
  /\ n.kind = req[r].kind /\ n.job = req[r].job /\ n.candidate = req[r].candidate
  /\ n.apps = req[r].apps

LEMMA OneRequest ==
  ASSUME req \in [Requests -> Request], NEW r \in Requests,
         NEW n \in Request, Shape(n),
         \A q \in Requests : Shape(req[q]),
         req' = [req EXCEPT ![r] = n]
  PROVE  /\ req' \in [Requests -> Request]
         /\ req'[r] = n
         /\ \A q \in Requests \ {r} : req'[q] = req[q]
         /\ \A q \in Requests : Shape(req'[q])
  OBVIOUS

\* The phases of a running handler are such steps.
LEMMA RunningAdvances ==
  ASSUME BaseInv, NEW r \in Requests,
         \/ InsertApplication(r) \/ CountApplicant(r) \/ UpdateRow(r)
         \/ RemoveRow(r) \/ Notify(r)
  PROVE  \E n \in Request :
           /\ Advances(r, n)
           /\ n.pc \in {"count", "notify", "update", "settle", "commit"}
           /\ n.pc = "count" => /\ req[r].pc = "insert"
                                /\ req[r].job \in openings
                                /\ n.count = applicants[req[r].job]
           /\ n.pc = "settle" /\ req[r].job \in openings => n.count = applicants[req[r].job]
           /\ n.pc = "notify" /\ n.kind = "apply" =>
                req[r].pc = "count" /\ n.count = req[r].count
           /\ n.pc = "commit" => Notify(r) /\ req[r].pc = "notify" /\ n.count = req[r].count
           /\ n.pc # "commit" => UNCHANGED announced
           /\ \A p \in Requests \ {r} : n.done \cap req[p].done = {}
           /\ n.kind = "move" => \A a \in n.done : Present(a)
           /\ UNCHANGED <<openings, applicants, rows, raced>>
  <1> DEFINE q == req[r]
  <1>1. q \in Request /\ Shape(q) /\ applicants \in [Jobs -> Nat]
    BY DEF BaseInv, TypeOK
  <1>0. /\ \A p \in Requests \ {r} : q.done \cap req[p].done = {}
        /\ q.kind = "move" => \A a \in q.done : Present(a)
    BY DEF BaseInv, Held
  <1>2. CASE InsertApplication(r)
    <2> DEFINE n == [q EXCEPT !.pc = "count", !.count = applicants[q.job]]
    <2>1. q.kind = "apply" /\ q.job \in Jobs
      BY <1>1, <1>2 DEF InsertApplication, Shape
    <2>2. n \in Request
      BY <1>1, <2>1 DEF Request, Phases
    <2>3. Shape(n)
      BY <1>1, <2>1, <1>2 DEF Shape, InsertApplication, Request
    <2>4. req' = [req EXCEPT ![r] = n]
      BY <1>2 DEF InsertApplication
    <2>5. /\ n.kind = q.kind /\ n.job = q.job /\ n.candidate = q.candidate
          /\ n.apps = q.apps /\ n.pc = "count" /\ n.count = applicants[q.job]
          /\ n.done = q.done
      BY <1>1 DEF Request
    <2> HIDE DEF n
    <2> QED BY <1>0, <1>2, <2>2, <2>3, <2>4, <2>5 DEF InsertApplication, Advances
  <1>3. CASE CountApplicant(r)
    <2> DEFINE n == [q EXCEPT !.pc = "notify"]
    <2>2. n \in Request
      BY <1>1 DEF Request, Phases
    <2>3. Shape(n)
      BY <1>1, <1>3 DEF Shape, CountApplicant, Request
    <2>4. req' = [req EXCEPT ![r] = n]
      BY <1>3 DEF CountApplicant
    <2>5. /\ n.kind = q.kind /\ n.job = q.job /\ n.candidate = q.candidate
          /\ n.apps = q.apps /\ n.pc = "notify" /\ n.count = q.count
          /\ n.done = q.done
      BY <1>1 DEF Request
    <2> HIDE DEF n
    <2> QED BY <1>0, <1>3, <2>2, <2>3, <2>4, <2>5 DEF CountApplicant, Advances
  <1>4. CASE UpdateRow(r)
    <2>1. PICK a \in q.apps \ q.done :
            /\ q.pc = "update"
            /\ Present(a) /\ RowFree(r, a)
            /\ req' = [req EXCEPT ![r].done = @ \cup {a},
                 ![r].pc = IF q.apps = q.done \cup {a} THEN "notify" ELSE "update"]
      BY <1>4 DEF UpdateRow
    <2> DEFINE p == IF q.apps = q.done \cup {a} THEN "notify" ELSE "update"
               n == [q EXCEPT !.done = @ \cup {a}, !.pc = p]
    <2>2. p \in {"notify", "update"} /\ (p = "notify" => q.apps = q.done \cup {a})
      OBVIOUS
    <2>3. req' = [req EXCEPT ![r] = n]
      BY <2>1
    <2> HIDE DEF p
    <2>4. q.kind = "move"
      BY <1>1, <2>1 DEF Shape
    <2>5. n \in Request
      BY <1>1, <2>1, <2>2 DEF Request, Phases
    <2>6. Shape(n)
      BY <1>1, <2>1, <2>2, <2>4 DEF Shape, Request
    <2>7. /\ n.kind = q.kind /\ n.job = q.job /\ n.candidate = q.candidate
          /\ n.apps = q.apps /\ n.pc = p
          /\ n.done = q.done \cup {a}
      BY <1>1 DEF Request
    <2>8. /\ \A o \in Requests \ {r} : (q.done \cup {a}) \cap req[o].done = {}
          /\ q.kind = "move" => \A b \in q.done \cup {a} : Present(b)
      BY <1>0, <2>1 DEF RowFree
    <2> HIDE DEF n
    <2> QED BY <1>4, <2>2, <2>3, <2>4, <2>5, <2>6, <2>7, <2>8 DEF UpdateRow, Advances
  <1>5. CASE RemoveRow(r)
    <2> DEFINE k == IF q.job \in openings THEN applicants[q.job] ELSE 0
               n == [q EXCEPT !.pc = "settle", !.done = q.apps, !.count = k]
    <2>1. q.kind = "withdraw" /\ q.job \in Jobs /\ k \in Nat
      BY <1>1, <1>5 DEF RemoveRow, Shape
    <2>2. req' = [req EXCEPT ![r] = n]
      BY <1>5 DEF RemoveRow
    <2>3. q.job \in openings => k = applicants[q.job]
      OBVIOUS
    <2> HIDE DEF k
    <2>4. n \in Request
      BY <1>1, <2>1 DEF Request, Phases
    <2>5. Shape(n)
      BY <1>1, <2>1 DEF Shape, Request
    <2>6. /\ n.kind = q.kind /\ n.job = q.job /\ n.candidate = q.candidate
          /\ n.apps = q.apps /\ n.pc = "settle" /\ n.count = k
          /\ n.done = q.apps
      BY <1>1 DEF Request
    <2>7. \A o \in Requests \ {r} : q.apps \cap req[o].done = {}
      BY <1>5 DEF RemoveRow, RowFree
    <2> HIDE DEF n
    <2> QED BY <1>5, <2>1, <2>2, <2>3, <2>4, <2>5, <2>6, <2>7 DEF RemoveRow, Advances
  <1>6. CASE Notify(r)
    <2> DEFINE n == [q EXCEPT !.pc = "commit"]
    <2>2. n \in Request
      BY <1>1 DEF Request, Phases
    <2>3. Shape(n)
      BY <1>1, <1>6 DEF Shape, Notify, Request
    <2>4. req' = [req EXCEPT ![r] = n]
      BY <1>6 DEF Notify
    <2>5. /\ n.kind = q.kind /\ n.job = q.job /\ n.candidate = q.candidate
          /\ n.apps = q.apps /\ n.pc = "commit" /\ n.count = q.count
          /\ n.done = q.done
      BY <1>1 DEF Request
    <2> HIDE DEF n
    <2> QED BY <1>0, <1>6, <2>2, <2>3, <2>4, <2>5 DEF Notify, Advances
  <1> QED BY <1>2, <1>3, <1>4, <1>5, <1>6

-----------------------------------------------------------------------------
(* BaseInv is preserved, action by action.                                 *)

LEMMA AdvanceBase ==
  ASSUME BaseInv, NEW r \in Requests,
         \/ InsertApplication(r) \/ CountApplicant(r) \/ UpdateRow(r)
         \/ RemoveRow(r) \/ Notify(r)
  PROVE  BaseInv'
  <1>1. PICK n \in Request :
           /\ Advances(r, n)
           /\ n.pc \in {"count", "notify", "update", "settle", "commit"}
           /\ n.pc = "commit" => Notify(r)
           /\ n.pc # "commit" => UNCHANGED announced
           /\ \A p \in Requests \ {r} : n.done \cap req[p].done = {}
           /\ n.kind = "move" => \A a \in n.done : Present(a)
           /\ UNCHANGED <<openings, applicants, rows, raced>>
    BY RunningAdvances
  <1>2. candidates' = candidates
    BY DEF InsertApplication, CountApplicant, UpdateRow, RemoveRow, Notify
  <1>3. /\ req' \in [Requests -> Request]
        /\ req'[r] = n
        /\ \A q \in Requests \ {r} : req'[q] = req[q]
        /\ \A q \in Requests : Shape(req'[q])
    BY <1>1, OneRequest DEF BaseInv, TypeOK, Advances
  <1>4. /\ announced \subseteq announced'
        /\ announced' \subseteq AppIds
        /\ n.kind = "apply" /\ n.pc = "commit" => n.apps \subseteq announced'
    <2>1. req[r].apps \subseteq AppIds
      BY RequestFields DEF BaseInv, TypeOK
    <2> QED BY <1>1, <2>1 DEF Notify, Advances, BaseInv, TypeOK
  <1>5. TypeOK'
    BY <1>1, <1>2, <1>3, <1>4 DEF BaseInv, TypeOK
  <1>6. ASSUME NEW a \in AppIds PROVE Tidy(a)'
    BY <1>1, <1>4 DEF BaseInv, Tidy, Present
  <1>7. ASSUME NEW q \in Requests PROVE Held(q)'
    <2>1. /\ req'[q].kind = req[q].kind /\ req'[q].apps = req[q].apps
          /\ req'[q].job = req[q].job
          /\ \A p \in Requests : req'[p].apps = req[p].apps
      BY <1>1, <1>3 DEF Advances
    <2>2. req'[q].kind = "apply" /\ req'[q].pc = "commit" => req'[q].apps \subseteq announced'
      BY <1>1, <1>3, <1>4 DEF BaseInv, Held
    <2>3. \A p \in Requests \ {q} : req'[q].done \cap req'[p].done = {}
      BY <1>1, <1>3 DEF BaseInv, Held
    <2>4. req'[q].kind = "move" => \A a \in req'[q].done : Present(a)'
      BY <1>1, <1>3 DEF BaseInv, Held, Present
    <2> QED BY <1>1, <2>1, <2>2, <2>3, <2>4 DEF BaseInv, Held
  <1> QED BY <1>3, <1>5, <1>6, <1>7 DEF BaseInv

\* A request that starts, on rows no other request can be creating.
LEMMA StartBase ==
  ASSUME BaseInv, NEW r \in Requests, NEW n \in Request, Shape(n),
         req' = [req EXCEPT ![r] = n],
         UNCHANGED <<candidates, openings, applicants, rows, announced>>,
         raced' \subseteq Jobs,
         n.done = {},
         n.kind = "apply" => /\ n.pc = "insert"
                             /\ \A a \in n.apps : Fresh(a),
         n.kind \in {"move", "withdraw"} =>
           \A a \in n.apps : rows[a].stage # "unborn",
         n.kind = "withdraw" => \A a \in n.apps : rows[a].job \in {n.job, None}
  PROVE  BaseInv'
  <1>1. /\ req' \in [Requests -> Request]
        /\ req'[r] = n
        /\ \A q \in Requests \ {r} : req'[q] = req[q]
        /\ \A q \in Requests : Shape(req'[q])
    BY OneRequest DEF BaseInv, TypeOK
  <1>2. TypeOK'
    BY <1>1 DEF BaseInv, TypeOK
  <1>3. ASSUME NEW a \in AppIds PROVE Tidy(a)'
    BY DEF BaseInv, Tidy, Present
  <1>4. n.apps \subseteq AppIds /\ n.kind \in Kinds
    BY RequestFields
  <1>5. ASSUME NEW q \in Requests PROVE Held(q)'
    <2>1. CASE q = r
      BY <1>1, <1>4, <2>1 DEF Held, Fresh, Present
    <2>2. CASE q # r
      <3>1. req'[q] = req[q]
        BY <1>1, <2>2
      <3>2. Held(q)
        BY DEF BaseInv
      <3>3. req[q].kind = "apply" => \A a \in req[q].apps : a \notin n.apps
        <4> SUFFICES ASSUME req[q].kind = "apply", NEW a \in req[q].apps, a \in n.apps
                     PROVE  FALSE
          OBVIOUS
        <4>1. rows[a].stage = "unborn"
          BY <3>2 DEF Held
        <4>2. n.kind \notin {"move", "withdraw"}
          BY <4>1
        <4>3. n.kind # "none"
          BY DEF Shape
        <4>4. n.kind = "apply"
          BY <4>2, <4>3, <1>4 DEF Kinds
        <4> QED BY <4>4 DEF Fresh
      <3> QED BY <1>1, <3>1, <3>2, <3>3, <2>2 DEF Held, Present
    <2> QED BY <2>1, <2>2
  <1> QED BY <1>1, <1>2, <1>3, <1>5 DEF BaseInv

LEMMA ApplyBase ==
  ASSUME BaseInv, NEW r \in Requests, NEW c \in Candidates, NEW j \in Jobs,
         NEW a \in AppIds, Apply(r, c, j, a)
  PROVE  BaseInv'
  <1> DEFINE n == [kind |-> "apply", pc |-> "insert", candidate |-> c, job |-> j,
                   apps |-> {a}, moves |-> {}, done |-> {}, target |-> "applied",
                   count |-> 0]
  <1>1. n \in Request
    BY DEF Request, Kinds, Phases, PIPELINE_STAGES
  <1>2. Shape(n)
    BY DEF Shape
  <1>3. /\ req' = [req EXCEPT ![r] = n]
        /\ UNCHANGED <<candidates, openings, applicants, rows, announced>>
        /\ Fresh(a)
    BY DEF Apply
  <1>4. raced' \subseteq Jobs
    BY DEF Apply, Overlap, BaseInv, TypeOK
  <1>5. n.kind = "apply" /\ n.pc = "insert" /\ n.apps = {a}
        /\ n.done = {}
    OBVIOUS
  <1> HIDE DEF n
  <1> QED BY <1>1, <1>2, <1>3, <1>4, <1>5, StartBase

LEMMA LoadBase ==
  ASSUME BaseInv, NEW r \in Requests, NEW found \in SUBSET AppIds,
         NEW s \in Targets, \A a \in found : Present(a), Load(r, found, s)
  PROVE  BaseInv'
  <1> DEFINE p == IF found = {} THEN "notify" ELSE "update"
             m == {a \in found : rows[a].stage # s}
             n == [kind |-> "move", pc |-> p, candidate |-> None, job |-> None,
                   apps |-> found, moves |-> m, done |-> {}, target |-> s, count |-> 0]
  <1>1. p \in {"notify", "update"} /\ (p = "notify" => found = {}) /\ m \subseteq found
    OBVIOUS
  <1>2. /\ req' = [req EXCEPT ![r] = n]
        /\ UNCHANGED <<candidates, openings, applicants, rows, announced, raced>>
    BY DEF Load
  <1> HIDE DEF p, m
  <1>3. n \in Request
    BY <1>1, PipelineAssumption DEF Request, Kinds, Phases
  <1>4. Shape(n)
    BY <1>1 DEF Shape
  <1>5. n.kind = "move" /\ n.apps = found /\ n.done = {}
    OBVIOUS
  <1>6. \A a \in found : rows[a].stage # "unborn"
    BY DEF Present, PIPELINE_STAGES
  <1>7. raced' \subseteq Jobs
    BY <1>2 DEF BaseInv, TypeOK
  <1> HIDE DEF n
  <1> QED BY <1>2, <1>3, <1>4, <1>5, <1>6, <1>7, StartBase

LEMMA WithdrawBase ==
  ASSUME BaseInv, NEW r \in Requests, NEW a \in AppIds, Withdraw(r, a)
  PROVE  BaseInv'
  <1> DEFINE j == rows[a].job
             n == [kind |-> "withdraw", pc |-> "remove", candidate |-> None, job |-> j,
                   apps |-> {a}, moves |-> {}, done |-> {}, target |-> "applied",
                   count |-> 0]
  <1>1. j \in Jobs /\ rows[a].stage # "unborn"
    BY DEF Withdraw, BaseInv, Tidy, Present, PIPELINE_STAGES
  <1>2. /\ req' = [req EXCEPT ![r] = n]
        /\ UNCHANGED <<candidates, openings, applicants, rows, announced>>
    BY DEF Withdraw
  <1>3. raced' \subseteq Jobs
    BY <1>1 DEF Withdraw, Overlap, BaseInv, TypeOK
  <1>4. rows[a].job = j
    OBVIOUS
  <1> HIDE DEF j
  <1>5. n \in Request
    BY <1>1 DEF Request, Kinds, Phases, PIPELINE_STAGES
  <1>6. Shape(n)
    BY <1>1 DEF Shape
  <1>7. n.kind = "withdraw" /\ n.apps = {a} /\ n.job = j
        /\ n.done = {}
    OBVIOUS
  <1> HIDE DEF n
  <1> QED BY <1>1, <1>2, <1>3, <1>4, <1>5, <1>6, <1>7, StartBase

LEMMA RollbackBase ==
  ASSUME BaseInv, NEW r \in Requests, Rollback(r)
  PROVE  BaseInv'
  <1>1. /\ req' = [req EXCEPT ![r] = NoRequest]
        /\ UNCHANGED <<candidates, openings, applicants, rows, announced, raced>>
    BY DEF Rollback
  <1>2. raced' \subseteq Jobs
    BY <1>1 DEF BaseInv, TypeOK
  <1>3. NoRequest.kind = "none" /\ NoRequest.done = {}
    BY DEF NoRequest
  <1> QED BY <1>1, <1>2, <1>3, NothingOpen, StartBase

\* A withdrawal that ends takes its row out of the table.
LEMMA SettleBase ==
  ASSUME BaseInv, NEW r \in Requests, SettleWithdrawal(r)
  PROVE  BaseInv'
  <1> DEFINE gone == [candidate |-> None, job |-> None, stage |-> "withdrawn"]
             q == req[r]
  <1>1. /\ q \in Request /\ Shape(q) /\ Held(r) /\ q.kind = "withdraw"
        /\ q.job \in Jobs /\ q.apps \subseteq AppIds
    <2>1. q \in Request /\ Shape(q) /\ Held(r) /\ q.pc = "settle"
      BY DEF BaseInv, TypeOK, SettleWithdrawal
    <2> QED BY <2>1, RequestFields DEF Shape
  <1>2. /\ rows' = [a \in AppIds |-> IF a \in q.apps THEN gone ELSE rows[a]]
        /\ req' = [req EXCEPT ![r] = NoRequest]
        /\ UNCHANGED <<candidates, openings, announced, raced>>
    BY DEF SettleWithdrawal
  <1>3. gone \in Row /\ gone.stage = "withdrawn" /\ gone.job = None
    BY DEF Row
  <1> HIDE DEF gone
  <1>4. /\ req' \in [Requests -> Request]
        /\ req'[r] = NoRequest
        /\ \A p \in Requests \ {r} : req'[p] = req[p]
        /\ \A p \in Requests : Shape(req'[p])
    BY <1>2, OneRequest, NothingOpen DEF BaseInv, TypeOK
  <1>5. applicants' \in [Jobs -> Nat]
    <2>1. q.count \in Nat /\ applicants \in [Jobs -> Nat]
      BY <1>1, RequestFields DEF BaseInv, TypeOK
    <2>2. CASE q.count > 0
      <3>1. q.count - 1 \in Nat
        BY <2>1, <2>2
      <3>2. applicants' = [applicants EXCEPT ![q.job] = q.count - 1]
        BY <2>2 DEF SettleWithdrawal
      <3> HIDE DEF q
      <3> QED BY <2>1, <3>1, <3>2
    <2>3. CASE ~ (q.count > 0)
      BY <2>1, <2>3 DEF SettleWithdrawal
    <2> QED BY <2>2, <2>3
  <1>6. rows' \in [AppIds -> Row]
    BY <1>2, <1>3 DEF BaseInv, TypeOK
  <1>7. TypeOK'
    BY <1>2, <1>4, <1>5, <1>6 DEF BaseInv, TypeOK
  <1>8. ASSUME NEW a \in AppIds PROVE Tidy(a)'
    <2>1. CASE a \in q.apps
      <3>1. rows'[a] = gone /\ a \in announced
        BY <1>1, <1>2, <2>1 DEF BaseInv, Tidy, Held
      <3> QED BY <1>2, <1>3, <3>1 DEF Tidy, Present, PIPELINE_STAGES
    <2>2. CASE a \notin q.apps
      BY <1>2, <2>2 DEF BaseInv, Tidy, Present
    <2> QED BY <2>1, <2>2
  <1>9. ASSUME NEW p \in Requests PROVE Held(p)'
    <2>1. CASE p = r
      BY <1>4, <2>1 DEF Held, NoRequest
    <2>2. CASE p # r
      <3>1. req'[p] = req[p] /\ Held(p) /\ req[p].apps \subseteq AppIds
        BY <1>4, <2>2, RequestFields DEF BaseInv, TypeOK
      <3>2. \A a \in req[p].apps :
              \/ rows'[a] = rows[a] /\ a \notin q.apps
              \/ rows'[a] = gone /\ rows[a].stage # "unborn"
        BY <1>1, <1>2, <3>1 DEF Held
      <3>3. \A b \in Requests \ {p} : req'[b].apps \subseteq req[b].apps
        BY <1>4 DEF NoRequest
      <3>4. req[p].kind = "apply" =>
              \A a \in req[p].apps : /\ rows'[a].stage = "unborn"
                                     /\ \A b \in Requests \ {p} : a \notin req'[b].apps
        BY <3>1, <3>2, <3>3 DEF Held
      <3>5. req[p].kind \in {"move", "withdraw"} =>
              \A a \in req[p].apps : rows'[a].stage # "unborn"
        BY <1>3, <3>1, <3>2 DEF Held
      <3>6. req[p].kind = "withdraw" =>
              \A a \in req[p].apps : rows'[a].job \in {req[p].job, None}
        BY <1>3, <3>1, <3>2 DEF Held
      <3>7. \A b \in Requests \ {p} : req'[p].done \cap req'[b].done = {}
        BY <1>4, <3>1 DEF Held, NoRequest
      <3>8. req[p].kind = "move" => \A a \in req[p].done : Present(a)'
        <4>1. req[p].done \cap q.done = {} /\ req[p].done \subseteq AppIds
          BY <2>2, <3>1, RequestFields DEF Held, BaseInv, TypeOK
        <4>2. q.apps \subseteq q.done
          BY <1>1 DEF SettleWithdrawal, Shape
        <4>3. \A a \in req[p].done : rows'[a] = rows[a]
          BY <1>2, <4>1, <4>2
        <4> QED BY <3>1, <4>3 DEF Held, Present
      <3> QED BY <1>2, <3>1, <3>4, <3>5, <3>6, <3>7, <3>8 DEF Held
    <2> QED BY <2>1, <2>2
  <1> QED BY <1>4, <1>7, <1>8, <1>9 DEF BaseInv

-----------------------------------------------------------------------------
(* What a commit writes.                                                   *)

\* An application is born, on an announced id.
LEMMA CommitApply ==
  ASSUME BaseInv, NEW r \in Requests, Commit(r), req[r].kind = "apply"
  PROVE  \E a \in AppIds :
           /\ req[r].apps = {a}
           /\ req[r].job \in Jobs /\ req[r].candidate \in Candidates
           /\ a \in announced
           /\ rows[a].stage = "unborn"
           /\ rows' = [rows EXCEPT ![a] = [candidate |-> req[r].candidate,
                                           job |-> req[r].job, stage |-> "applied"]]
           /\ applicants' = [applicants EXCEPT ![req[r].job] = req[r].count + 1]
  <1> DEFINE new == [candidate |-> req[r].candidate, job |-> req[r].job,
                     stage |-> "applied"]
  <1>1. req[r].pc = "commit" /\ Shape(req[r]) /\ Held(r) /\ rows \in [AppIds -> Row]
    BY DEF Commit, BaseInv, TypeOK
  <1>2. PICK a \in AppIds : req[r].apps = {a}
    BY <1>1 DEF Shape
  <1>3. a \in announced /\ rows[a].stage = "unborn" /\ req[r].moves = {}
    BY <1>1, <1>2 DEF Held, Shape
  <1>4. /\ rows' = [b \in AppIds |-> IF b \in req[r].apps THEN new
                      ELSE IF b \in req[r].moves
                           THEN [rows[b] EXCEPT !.stage = req[r].target]
                           ELSE rows[b]]
        /\ applicants' = [applicants EXCEPT ![req[r].job] = req[r].count + 1]
    BY DEF Commit
  <1> HIDE DEF new
  <1>5. rows' = [rows EXCEPT ![a] = new]
    BY <1>1, <1>2, <1>3, <1>4
  <1> QED BY <1>1, <1>2, <1>3, <1>4, <1>5 DEF Shape, new

\* Stages change, and nothing else.
LEMMA CommitMove ==
  ASSUME BaseInv, NEW r \in Requests, Commit(r), req[r].kind # "apply"
  PROVE  /\ applicants' = applicants
         /\ rows' \in [AppIds -> Row]
         /\ \A a \in AppIds :
              \/ rows'[a] = rows[a]
              \/ /\ Present(a)
                 /\ rows'[a].candidate = rows[a].candidate
                 /\ rows'[a].job = rows[a].job
                 /\ rows'[a].stage \in PIPELINE_STAGES
  <1> DEFINE moved(a) == [rows[a] EXCEPT !.stage = req[r].target]
  <1>1. /\ req[r].pc = "commit" /\ Shape(req[r]) /\ Held(r)
        /\ req[r] \in Request /\ rows \in [AppIds -> Row]
    BY DEF Commit, BaseInv, TypeOK
  <1>2. req[r].kind = "move" /\ req[r].target \in PIPELINE_STAGES
    BY <1>1, RequestFields DEF Shape
  <1>3. /\ rows' = [a \in AppIds |-> IF a \in req[r].moves THEN moved(a) ELSE rows[a]]
        /\ applicants' = applicants
    BY DEF Commit
  <1>4. ASSUME NEW a \in AppIds
        PROVE  /\ moved(a) \in Row
               /\ moved(a).candidate = rows[a].candidate
               /\ moved(a).job = rows[a].job
               /\ moved(a).stage \in PIPELINE_STAGES
    <2>1. rows[a] \in Row
      BY <1>1
    <2> QED BY <1>2, <2>1 DEF Row
  <1> HIDE DEF moved
  <1>5. \A a \in req[r].moves : Present(a)
    BY <1>1, <1>2 DEF Shape, Held
  <1> QED BY <1>1, <1>3, <1>4, <1>5

LEMMA CommitBase ==
  ASSUME BaseInv, NEW r \in Requests, Commit(r)
  PROVE  BaseInv'
  <1>1. /\ req' = [req EXCEPT ![r] = NoRequest]
        /\ UNCHANGED <<candidates, openings, announced, raced>>
    BY DEF Commit
  <1>2. /\ req' \in [Requests -> Request]
        /\ req'[r] = NoRequest
        /\ \A p \in Requests \ {r} : req'[p] = req[p]
        /\ \A p \in Requests : Shape(req'[p])
    BY <1>1, OneRequest, NothingOpen DEF BaseInv, TypeOK
  <1>3. \A p \in Requests : \A b \in Requests \ {p} : req'[b].apps \subseteq req[b].apps
    BY <1>2 DEF NoRequest
  <1>4. Held(r)'
    BY <1>2 DEF Held, NoRequest
  <1>5. req[r] \in Request /\ req[r].count \in Nat /\ TypeOK
    BY RequestFields DEF BaseInv, TypeOK
  <1>6. CASE req[r].kind = "apply"
    <2>1. PICK a \in AppIds :
            /\ req[r].apps = {a}
            /\ req[r].job \in Jobs /\ req[r].candidate \in Candidates
            /\ a \in announced
            /\ rows[a].stage = "unborn"
            /\ rows' = [rows EXCEPT ![a] = [candidate |-> req[r].candidate,
                                            job |-> req[r].job, stage |-> "applied"]]
            /\ applicants' = [applicants EXCEPT ![req[r].job] = req[r].count + 1]
      BY <1>6, CommitApply
    <2> DEFINE new == [candidate |-> req[r].candidate, job |-> req[r].job,
                       stage |-> "applied"]
    <2>2. /\ new \in Row /\ new.stage = "applied" /\ new.job \in Jobs
          /\ new.candidate \in Candidates
      BY <2>1 DEF Row, PIPELINE_STAGES
    <2>3. rows' = [rows EXCEPT ![a] = new]
      BY <2>1
    <2> HIDE DEF new
    <2>4. rows' \in [AppIds -> Row]
      BY <1>5, <2>2, <2>3 DEF TypeOK
    <2>5. applicants' \in [Jobs -> Nat]
      BY <1>5, <2>1 DEF TypeOK
    <2>6. TypeOK'
      BY <1>1, <1>2, <1>5, <2>4, <2>5 DEF TypeOK
    <2>7. ASSUME NEW b \in AppIds PROVE Tidy(b)'
      <3>1. CASE b = a
        <4>1. rows'[b] = new
          BY <1>5, <2>3, <3>1 DEF TypeOK
        <4> QED BY <1>1, <2>1, <2>2, <3>1, <4>1 DEF Tidy, Present, PIPELINE_STAGES
      <3>2. CASE b # a
        BY <1>1, <1>5, <2>3, <3>2 DEF BaseInv, Tidy, Present, TypeOK
      <3> QED BY <3>1, <3>2
    <2>8. ASSUME NEW p \in Requests, p # r PROVE Held(p)'
      <3>1. req'[p] = req[p] /\ Held(p) /\ req[p].apps \subseteq AppIds
        BY <1>2, <1>5, <2>8, RequestFields DEF BaseInv, TypeOK
      <3>2. \A b \in AppIds \ {a} : rows'[b] = rows[b]
        BY <1>5, <2>3 DEF TypeOK
      <3>3. a \notin req[p].apps \/ req[p].kind # "apply"
        BY <1>6, <2>1, <2>8 DEF BaseInv, Held
      <3>4. a \notin req[p].apps
        <4>1. req[p].kind \in {"move", "withdraw"} => a \notin req[p].apps
          BY <2>1, <3>1 DEF Held
        <4>2. req[p].kind = "none" => req[p].apps = {}
          BY DEF BaseInv, Shape
        <4>3. req[p].kind \in Kinds
          BY <1>5, RequestFields DEF TypeOK
        <4> QED BY <3>3, <4>1, <4>2, <4>3 DEF Kinds
      <3>5. \A b \in req[p].apps : rows'[b] = rows[b]
        BY <3>1, <3>2, <3>4
      <3>6. \A q \in Requests \ {p} : req'[p].done \cap req'[q].done = {}
        BY <1>2, <3>1 DEF Held, NoRequest
      <3>7. req[p].kind = "move" => \A b \in req[p].done : Present(b)'
        <4>1. req[p].done \subseteq AppIds
          BY <1>5, RequestFields DEF TypeOK
        <4>2. ASSUME req[p].kind = "move", NEW b \in req[p].done PROVE rows'[b] = rows[b]
          <5>1. Present(b)
            BY <3>1, <4>2 DEF Held
          <5>2. b # a
            BY <2>1, <5>1 DEF Present, PIPELINE_STAGES
          <5> QED BY <3>2, <4>1, <4>2, <5>2
        <4> QED BY <3>1, <4>2 DEF Held, Present
      <3> QED BY <1>1, <1>3, <3>1, <3>5, <3>6, <3>7 DEF Held
    <2> QED BY <1>2, <1>4, <2>6, <2>7, <2>8 DEF BaseInv
  <1>7. CASE req[r].kind # "apply"
    <2>1. /\ applicants' = applicants
          /\ rows' \in [AppIds -> Row]
          /\ \A a \in AppIds :
               \/ rows'[a] = rows[a]
               \/ /\ Present(a)
                  /\ rows'[a].candidate = rows[a].candidate
                  /\ rows'[a].job = rows[a].job
                  /\ rows'[a].stage \in PIPELINE_STAGES
      BY <1>7, CommitMove
    <2>2. TypeOK'
      BY <1>1, <1>2, <1>5, <2>1 DEF TypeOK
    <2>3. ASSUME NEW a \in AppIds PROVE Tidy(a)'
      BY <1>1, <2>1 DEF BaseInv, Tidy, Present, PIPELINE_STAGES
    <2>4. ASSUME NEW p \in Requests, p # r PROVE Held(p)'
      <3>1. /\ req'[p] = req[p] /\ Held(p)
            /\ req[p].apps \subseteq AppIds /\ req[p].done \subseteq AppIds
        BY <1>2, <1>5, <2>4, RequestFields DEF BaseInv, TypeOK
      <3>2. \A a \in AppIds : Present(a) => Present(a)'
        BY <2>1 DEF Present
      <3>3. \A a \in AppIds : /\ rows'[a].job = rows[a].job
                              /\ rows'[a].stage = "unborn" <=> rows[a].stage = "unborn"
        BY <2>1 DEF Present, PIPELINE_STAGES
      <3>4. \A q \in Requests \ {p} : req'[p].done \cap req'[q].done = {}
        BY <1>2, <3>1 DEF Held, NoRequest
      <3>5. req[p].kind = "move" => \A a \in req[p].done : Present(a)'
        BY <3>1, <3>2 DEF Held
      <3>6. req[p].kind = "apply" =>
              \A a \in req[p].apps : /\ rows'[a].stage = "unborn"
                                     /\ \A q \in Requests \ {p} : a \notin req'[q].apps
        BY <1>3, <3>1, <3>3 DEF Held
      <3>7. ASSUME req[p].kind \in {"move", "withdraw"}, NEW a \in req[p].apps
            PROVE  rows'[a].stage # "unborn"
        <4>1. a \in AppIds /\ rows[a].stage # "unborn"
          BY <3>1, <3>7 DEF Held
        <4> QED BY <3>3, <4>1
      <3>8. ASSUME req[p].kind = "withdraw", NEW a \in req[p].apps
            PROVE  rows'[a].job \in {req[p].job, None}
        <4>1. a \in AppIds /\ rows[a].job \in {req[p].job, None}
          BY <3>1, <3>8 DEF Held
        <4> QED BY <3>3, <4>1
      <3>9. req[p].kind = "apply" /\ req[p].pc = "commit" => req[p].apps \subseteq announced'
        BY <1>1, <3>1 DEF Held
      <3> QED BY <3>1, <3>4, <3>5, <3>6, <3>7, <3>8, <3>9 DEF Held
    <2> QED BY <1>2, <1>4, <2>2, <2>3, <2>4 DEF BaseInv
  <1> QED BY <1>6, <1>7

LEMMA DeleteBase ==
  ASSUME BaseInv,
         \/ \E c \in Candidates : DeleteCandidate(c)
         \/ \E j \in Jobs : DeleteJob(j)
  PROVE  BaseInv'
  <1>1. /\ candidates' \subseteq candidates /\ openings' \subseteq openings
        /\ UNCHANGED <<applicants, rows, req, announced, raced>>
    BY DEF DeleteCandidate, DeleteJob
  <1>2. TypeOK'
    BY <1>1 DEF BaseInv, TypeOK
  <1>3. \A r \in Requests : Shape(req'[r]) /\ Held(r)'
    BY <1>1 DEF BaseInv, Held, Present
  <1>4. \A a \in AppIds : Tidy(a)'
    BY <1>1 DEF BaseInv, Tidy, Present
  <1> QED BY <1>2, <1>3, <1>4 DEF BaseInv

LEMMA BaseNext == BaseInv /\ [Next]_vars => BaseInv'
  <1> SUFFICES ASSUME BaseInv, [Next]_vars PROVE BaseInv'
    OBVIOUS
  <1>1. ASSUME NEW r \in Requests, NEW c \in Candidates, NEW j \in Jobs,
               NEW a \in AppIds, Apply(r, c, j, a)
        PROVE  BaseInv'
    BY <1>1, ApplyBase
  <1>2. ASSUME NEW r \in Requests, NEW a \in AppIds, NEW s \in Targets,
               UpdateStage(r, a, s)
        PROVE  BaseInv'
    <2>1. Present(a) /\ Load(r, {a}, s)
      BY <1>2 DEF UpdateStage
    <2> QED BY <2>1, LoadBase
  <1>3. ASSUME NEW r \in Requests, NEW j \in Jobs, NEW ids \in SUBSET AppIds,
               NEW s \in Targets, BulkMove(r, j, ids, s)
        PROVE  BaseInv'
    <2> DEFINE found == ids \cap Of(j)
    <2>1. found \in SUBSET AppIds /\ \A a \in found : Present(a)
      BY DEF Of
    <2>2. Load(r, found, s)
      BY <1>3 DEF BulkMove
    <2> HIDE DEF found
    <2> QED BY <2>1, <2>2, LoadBase
  <1>4. ASSUME NEW r \in Requests, NEW a \in AppIds, Withdraw(r, a)
        PROVE  BaseInv'
    BY <1>4, WithdrawBase
  <1>5. ASSUME NEW r \in Requests,
               \/ InsertApplication(r) \/ CountApplicant(r) \/ UpdateRow(r)
               \/ RemoveRow(r) \/ Notify(r)
        PROVE  BaseInv'
    BY <1>5, AdvanceBase
  <1>6. ASSUME NEW r \in Requests, SettleWithdrawal(r) PROVE BaseInv'
    BY <1>6, SettleBase
  <1>7. ASSUME NEW r \in Requests, Commit(r) PROVE BaseInv'
    BY <1>7, CommitBase
  <1>8. ASSUME NEW r \in Requests, Fail(r) \/ Interrupt(r) PROVE BaseInv'
    BY <1>8, RollbackBase DEF Fail, Interrupt
  <1>9. ASSUME \/ \E c \in Candidates : DeleteCandidate(c)
               \/ \E j \in Jobs : DeleteJob(j)
        PROVE  BaseInv'
    BY <1>9, DeleteBase
  <1>10. CASE UNCHANGED vars
    BY <1>10 DEF vars, BaseInv, TypeOK, Held, Tidy, Present
  <1> QED BY <1>1, <1>2, <1>3, <1>4, <1>5, <1>6, <1>7, <1>8, <1>9, <1>10 DEF Next

LEMMA AlwaysBase == Spec => []BaseInv
  BY InitBase, BaseNext, PTL DEF Spec

(* Every column, field and counter keeps its type: a denormalised count is *)
(* never below 0, although racing withdrawals decrement it twice.          *)
THEOREM TypeCorrect == Spec => []TypeOK
  <1>1. BaseInv => TypeOK
    BY DEF BaseInv
  <1> QED BY <1>1, AlwaysBase, PTL

(* The API shows no application whose webhooks were not called first.      *)
THEOREM NothingUnannounced == Spec => []AnnouncedBeforeVisible
  <1>1. BaseInv => AnnouncedBeforeVisible
    BY DEF BaseInv, Tidy, AnnouncedBeforeVisible, Present, PIPELINE_STAGES
  <1> QED BY <1>1, AlwaysBase, PTL

-----------------------------------------------------------------------------
(* A job on which no two counting requests overlapped.                     *)

Sound(j) ==
  /\ \A r, q \in Requests : Counting(r, j) /\ Counting(q, j) => r = q
  /\ j \in openings => applicants[j] = Cardinality(Of(j))
  /\ \A a, b \in Of(j) : rows[a].candidate = rows[b].candidate => a = b
  /\ \A r \in Requests : Counting(r, j) /\ req[r].kind = "apply" =>
       /\ \A b \in Of(j) : rows[b].candidate # req[r].candidate
       /\ j \in openings /\ req[r].pc \in {"count", "notify", "commit"} =>
            req[r].count = Cardinality(Of(j))
  /\ \A r \in Requests : Counting(r, j) /\ req[r].kind = "withdraw" =>
       /\ req[r].apps \subseteq Of(j)
       /\ j \in openings /\ req[r].pc = "settle" => req[r].count = Cardinality(Of(j))

CountInv == \A j \in Jobs \ raced : Sound(j)

LEMMA OfFinite == \A j \in Jobs : IsFiniteSet(Of(j)) /\ Cardinality(Of(j)) \in Nat
  <1>1. IsFiniteSet(AppIds)
    BY PipelineAssumption, FS_Interval DEF AppIds
  <1>2. \A j \in Jobs : Of(j) \subseteq AppIds
    BY DEF Of
  <1> QED BY <1>1, <1>2, FS_Subset, FS_CardinalityType

LEMMA InitCount == Init => CountInv
  <1> SUFFICES ASSUME Init, NEW j \in Jobs \ raced PROVE Sound(j)
    BY DEF CountInv
  <1>1. Of(j) = {}
    BY DEF Init, Of, Present, PIPELINE_STAGES
  <1>2. \A r \in Requests : ~ Counting(r, j)
    BY DEF Init, Counting, NoRequest
  <1>3. applicants[j] = 0
    BY DEF Init
  <1> QED BY <1>1, <1>2, <1>3, FS_EmptySet DEF Sound

\* Steps of a handler that reads the count or passes it on.
LEMMA AdvanceCount ==
  ASSUME BaseInv, CountInv, NEW r \in Requests,
         \/ InsertApplication(r) \/ CountApplicant(r) \/ UpdateRow(r)
         \/ RemoveRow(r) \/ Notify(r)
  PROVE  CountInv'
  <1>1. PICK n \in Request :
           /\ Advances(r, n)
           /\ n.pc \in {"count", "notify", "update", "settle", "commit"}
           /\ n.pc = "count" => /\ req[r].pc = "insert"
                                /\ req[r].job \in openings
                                /\ n.count = applicants[req[r].job]
           /\ n.pc = "settle" /\ req[r].job \in openings => n.count = applicants[req[r].job]
           /\ n.pc = "notify" /\ n.kind = "apply" =>
                req[r].pc = "count" /\ n.count = req[r].count
           /\ n.pc = "commit" => Notify(r) /\ req[r].pc = "notify" /\ n.count = req[r].count
           /\ UNCHANGED <<openings, applicants, rows, raced>>
    BY RunningAdvances
  <1>2. /\ req'[r] = n
        /\ \A q \in Requests \ {r} : req'[q] = req[q]
    BY <1>1, OneRequest DEF BaseInv, TypeOK, Advances
  <1> SUFFICES ASSUME NEW j \in Jobs \ raced PROVE Sound(j)'
    BY <1>1 DEF CountInv
  <1>3. Sound(j)
    BY DEF CountInv
  <1>4. Of(j)' = Of(j)
    BY <1>1 DEF Of, Present
  <1>5. \A q \in Requests : /\ Counting(q, j)' <=> Counting(q, j)
                            /\ req'[q].kind = req[q].kind
                            /\ req'[q].candidate = req[q].candidate
                            /\ req'[q].apps = req[q].apps
    BY <1>1, <1>2 DEF Counting, Advances
  <1>6. ASSUME NEW q \in Requests, Counting(q, j), req[q].kind = "apply",
               j \in openings, req'[q].pc \in {"count", "notify", "commit"}
        PROVE  req'[q].count = Cardinality(Of(j))
    <2>1. CASE q # r
      BY <1>2, <1>3, <1>6, <2>1 DEF Sound
    <2>2. CASE q = r
      <3>1. req[r].job = j /\ applicants[j] = Cardinality(Of(j)) /\ n.kind = "apply"
        BY <1>1, <1>3, <1>6, <2>2 DEF Sound, Counting, Advances
      <3> QED BY <1>1, <1>2, <1>3, <1>6, <2>2, <3>1 DEF Sound
    <2> QED BY <2>1, <2>2
  <1>7. ASSUME NEW q \in Requests, Counting(q, j), req[q].kind = "withdraw",
               j \in openings, req'[q].pc = "settle"
        PROVE  req'[q].count = Cardinality(Of(j))
    <2>1. CASE q # r
      BY <1>2, <1>3, <1>7, <2>1 DEF Sound
    <2>2. CASE q = r
      BY <1>1, <1>2, <1>3, <1>7, <2>2 DEF Sound, Counting
    <2> QED BY <2>1, <2>2
  <1> QED BY <1>1, <1>3, <1>4, <1>5, <1>6, <1>7 DEF Sound

\* A request becomes one that counts nothing.
LEMMA OtherCount ==
  ASSUME BaseInv, CountInv, NEW r \in Requests, NEW n \in Request,
         req' = [req EXCEPT ![r] = n], n.kind \in {"none", "move"},
         UNCHANGED <<applicants, rows, raced>>, openings' = openings
  PROVE  CountInv'
  <1>1. /\ req'[r] = n
        /\ \A q \in Requests \ {r} : req'[q] = req[q]
    BY DEF BaseInv, TypeOK
  <1> SUFFICES ASSUME NEW j \in Jobs \ raced PROVE Sound(j)'
    BY DEF CountInv
  <1>2. Sound(j)
    BY DEF CountInv
  <1>3. Of(j)' = Of(j)
    BY DEF Of, Present
  <1>4. \A q \in Requests : Counting(q, j)' => Counting(q, j) /\ req'[q] = req[q]
    BY <1>1 DEF Counting
  <1> QED BY <1>2, <1>3, <1>4 DEF Sound

\* A counting request starts on a job where no other one is open.
LEMMA StartCount ==
  ASSUME BaseInv, CountInv, NEW r \in Requests, NEW n \in Request, NEW j \in Jobs,
         Idle(r), req' = [req EXCEPT ![r] = n], n.job = j, Overlap(j),
         UNCHANGED <<openings, applicants, rows>>,
         \/ /\ n.kind = "apply" /\ n.pc = "insert"
            /\ \A b \in Of(j) : rows[b].candidate # n.candidate
         \/ /\ n.kind = "withdraw" /\ n.pc = "remove"
            /\ n.apps \subseteq Of(j)
  PROVE  CountInv'
  <1>1. /\ req'[r] = n
        /\ \A q \in Requests \ {r} : req'[q] = req[q]
    BY DEF BaseInv, TypeOK
  <1>2. raced \subseteq raced'
    BY DEF Overlap
  <1> SUFFICES ASSUME NEW k \in Jobs \ raced' PROVE Sound(k)'
    BY DEF CountInv
  <1>3. Sound(k)
    BY <1>2 DEF CountInv
  <1>4. Of(k)' = Of(k)
    BY DEF Of, Present
  <1>5. CASE k = j
    <2>1. \A q \in Requests : ~ Counting(q, j)
      BY <1>5 DEF Overlap
    <2>2. \A q \in Requests : Counting(q, j)' => q = r
      BY <1>1, <2>1 DEF Counting
    <2> QED BY <1>1, <1>3, <1>4, <1>5, <2>2 DEF Sound
  <1>6. CASE k # j
    <2>1. \A q \in Requests : Counting(q, k)' => Counting(q, k) /\ req'[q] = req[q]
      BY <1>1, <1>6 DEF Counting
    <2> QED BY <1>3, <1>4, <2>1 DEF Sound
  <1> QED BY <1>5, <1>6

LEMMA ApplyCount ==
  ASSUME BaseInv, CountInv, NEW r \in Requests, NEW c \in Candidates, NEW j \in Jobs,
         NEW a \in AppIds, Apply(r, c, j, a)
  PROVE  CountInv'
  <1> DEFINE n == [kind |-> "apply", pc |-> "insert", candidate |-> c, job |-> j,
                   apps |-> {a}, moves |-> {}, done |-> {}, target |-> "applied",
                   count |-> 0]
  <1>1. n \in Request
    BY DEF Request, Kinds, Phases, PIPELINE_STAGES
  <1>2. /\ req' = [req EXCEPT ![r] = n]
        /\ Idle(r) /\ Overlap(j)
        /\ UNCHANGED <<openings, applicants, rows>>
        /\ \A b \in Of(j) : rows[b].candidate # c
    BY DEF Apply
  <1>3. n.kind = "apply" /\ n.pc = "insert" /\ n.job = j /\ n.candidate = c
    OBVIOUS
  <1> HIDE DEF n
  <1> QED BY <1>1, <1>2, <1>3, StartCount

LEMMA WithdrawCount ==
  ASSUME BaseInv, CountInv, NEW r \in Requests, NEW a \in AppIds, Withdraw(r, a)
  PROVE  CountInv'
  <1> DEFINE j == rows[a].job
             n == [kind |-> "withdraw", pc |-> "remove", candidate |-> None, job |-> j,
                   apps |-> {a}, moves |-> {}, done |-> {}, target |-> "applied",
                   count |-> 0]
  <1>1. j \in Jobs /\ a \in Of(j)
    BY DEF Withdraw, BaseInv, Tidy, Of
  <1>2. /\ req' = [req EXCEPT ![r] = n]
        /\ Idle(r) /\ Overlap(j)
        /\ UNCHANGED <<openings, applicants, rows>>
    BY DEF Withdraw
  <1> HIDE DEF j
  <1>3. n \in Request
    BY <1>1 DEF Request, Kinds, Phases, PIPELINE_STAGES
  <1>4. n.kind = "withdraw" /\ n.pc = "remove" /\ n.job = j /\ n.apps = {a}
    OBVIOUS
  <1> HIDE DEF n
  <1> QED BY <1>1, <1>2, <1>3, <1>4, StartCount

LEMMA DeleteCount ==
  ASSUME CountInv, openings' \subseteq openings,
         UNCHANGED <<applicants, rows, req, raced>>
  PROVE  CountInv'
  <1> SUFFICES ASSUME NEW j \in Jobs \ raced PROVE Sound(j)'
    BY DEF CountInv
  <1>1. Sound(j) /\ Of(j)' = Of(j)
    BY DEF CountInv, Of, Present
  <1>2. \A q \in Requests : Counting(q, j)' <=> Counting(q, j)
    BY DEF Counting
  <1> QED BY <1>1, <1>2 DEF Sound

\* Jobs the ending request did not count keep their rows and their number.
LEMMA Elsewhere ==
  ASSUME BaseInv, NEW r \in Requests, NEW k \in Jobs, Sound(k),
         req' = [req EXCEPT ![r] = NoRequest],
         openings' = openings, applicants'[k] = applicants[k],
         Of(k)' = Of(k),
         \A a \in Of(k) : rows'[a].candidate = rows[a].candidate
  PROVE  Sound(k)'
  <1>1. /\ req'[r] = NoRequest
        /\ \A q \in Requests \ {r} : req'[q] = req[q]
    BY DEF BaseInv, TypeOK
  <1>2. \A q \in Requests : Counting(q, k)' => Counting(q, k) /\ req'[q] = req[q]
    BY <1>1 DEF Counting, NoRequest
  <1> QED BY <1>2 DEF Sound

LEMMA CommitCount ==
  ASSUME BaseInv, CountInv, NEW r \in Requests, Commit(r)
  PROVE  CountInv'
  <1>1. /\ req' = [req EXCEPT ![r] = NoRequest]
        /\ UNCHANGED <<openings, announced, raced>>
        /\ req[r].pc = "commit"
    BY DEF Commit
  <1>2. /\ req'[r] = NoRequest
        /\ \A q \in Requests \ {r} : req'[q] = req[q]
        /\ rows \in [AppIds -> Row] /\ applicants \in [Jobs -> Nat]
    BY <1>1 DEF BaseInv, TypeOK
  <1> SUFFICES ASSUME NEW k \in Jobs \ raced PROVE Sound(k)'
    BY <1>1 DEF CountInv
  <1>3. Sound(k) /\ IsFiniteSet(Of(k)) /\ Cardinality(Of(k)) \in Nat
    BY OfFinite DEF CountInv
  <1>4. CASE req[r].kind # "apply"
    <2>1. /\ applicants' = applicants
          /\ \A a \in AppIds :
               \/ rows'[a] = rows[a]
               \/ /\ Present(a)
                  /\ rows'[a].candidate = rows[a].candidate
                  /\ rows'[a].job = rows[a].job
                  /\ rows'[a].stage \in PIPELINE_STAGES
      BY <1>4, CommitMove
    <2>2. Of(k)' = Of(k)
      BY <2>1 DEF Of, Present
    <2>3. \A a \in Of(k) : rows'[a].candidate = rows[a].candidate
      BY <2>1 DEF Of
    <2> QED BY <1>1, <1>3, <2>1, <2>2, <2>3, Elsewhere
  <1>5. CASE req[r].kind = "apply"
    <2>1. PICK a \in AppIds :
            /\ req[r].apps = {a}
            /\ req[r].job \in Jobs /\ req[r].candidate \in Candidates
            /\ rows[a].stage = "unborn"
            /\ rows' = [rows EXCEPT ![a] = [candidate |-> req[r].candidate,
                                            job |-> req[r].job, stage |-> "applied"]]
            /\ applicants' = [applicants EXCEPT ![req[r].job] = req[r].count + 1]
      BY <1>5, CommitApply
    <2>2. /\ rows'[a].candidate = req[r].candidate
          /\ rows'[a].job = req[r].job
          /\ rows'[a].stage = "applied"
          /\ \A b \in AppIds \ {a} : rows'[b] = rows[b]
      BY <1>2, <2>1
    <2>3. a \notin Of(k)
      BY <2>1 DEF Of, Present, PIPELINE_STAGES
    <2>4. CASE req[r].job # k
      <3>1. Of(k)' = Of(k)
        BY <2>2, <2>3, <2>4 DEF Of, Present
      <3>2. \A b \in Of(k) : rows'[b].candidate = rows[b].candidate
        BY <2>2, <2>3 DEF Of
      <3>3. applicants'[k] = applicants[k]
        BY <1>2, <2>1, <2>4
      <3> QED BY <1>1, <1>3, <3>1, <3>2, <3>3, Elsewhere
    <2>5. CASE req[r].job = k
      <3>1. Counting(r, k)
        BY <1>5, <2>5 DEF Counting
      <3>2. \A q \in Requests : ~ Counting(q, k)'
        BY <1>2, <1>3, <3>1 DEF Sound, Counting, NoRequest
      <3>3. Of(k)' = Of(k) \cup {a}
        BY <2>2, <2>5 DEF Of, Present, PIPELINE_STAGES
      <3>4. Cardinality(Of(k) \cup {a}) = Cardinality(Of(k)) + 1
        BY <1>3, <2>3, FS_AddElement
      <3>5. k \in openings => applicants'[k] = Cardinality(Of(k)) + 1
        BY <1>1, <1>2, <1>3, <1>5, <2>1, <2>5, <3>1 DEF Sound
      <3>6. \A b \in Of(k) : /\ rows'[b].candidate = rows[b].candidate
                             /\ rows[b].candidate # req[r].candidate
        BY <1>3, <1>5, <2>2, <2>3, <3>1 DEF Sound, Of
      <3>7. \A b, c \in Of(k) \cup {a} : rows'[b].candidate = rows'[c].candidate => b = c
        BY <1>3, <2>2, <3>6 DEF Sound
      <3> QED BY <1>1, <3>2, <3>3, <3>4, <3>5, <3>7 DEF Sound
    <2> QED BY <2>4, <2>5
  <1> QED BY <1>4, <1>5

LEMMA SettleCount ==
  ASSUME BaseInv, CountInv, NEW r \in Requests, SettleWithdrawal(r)
  PROVE  CountInv'
  <1> DEFINE gone == [candidate |-> None, job |-> None, stage |-> "withdrawn"]
  <1>1. /\ req' = [req EXCEPT ![r] = NoRequest]
        /\ UNCHANGED <<openings, announced, raced>>
        /\ req[r].pc = "settle"
        /\ rows' = [a \in AppIds |-> IF a \in req[r].apps THEN gone ELSE rows[a]]
    BY DEF SettleWithdrawal
  <1>2. /\ req'[r] = NoRequest
        /\ \A q \in Requests \ {r} : req'[q] = req[q]
        /\ applicants \in [Jobs -> Nat] /\ req[r].count \in Nat
        /\ Shape(req[r]) /\ Held(r)
    BY <1>1, RequestFields DEF BaseInv, TypeOK
  <1>3. req[r].kind = "withdraw" /\ req[r].job \in Jobs
    BY <1>1, <1>2 DEF Shape
  <1>4. PICK a \in AppIds : req[r].apps = {a}
    BY <1>2, <1>3 DEF Shape
  <1>5. rows[a].job \in {req[r].job, None}
    BY <1>2, <1>3, <1>4 DEF Held
  <1>6. rows'[a] = gone /\ \A b \in AppIds \ {a} : rows'[b] = rows[b]
    BY <1>1, <1>4
  <1>7. gone.stage = "withdrawn"
    OBVIOUS
  <1> HIDE DEF gone
  <1>8. \A j \in Jobs : Of(j)' = Of(j) \ {a}
    BY <1>6, <1>7 DEF Of, Present, PIPELINE_STAGES
  <1> SUFFICES ASSUME NEW k \in Jobs \ raced PROVE Sound(k)'
    BY <1>1 DEF CountInv
  <1>9. Sound(k) /\ IsFiniteSet(Of(k)) /\ Cardinality(Of(k)) \in Nat
    BY OfFinite DEF CountInv
  <1>10. CASE req[r].job # k
    <2>1. a \notin Of(k)
      BY <1>5, <1>10, PipelineAssumption DEF Of
    <2>2. Of(k)' = Of(k)
      BY <1>8, <2>1
    <2>3. \A b \in Of(k) : rows'[b].candidate = rows[b].candidate
      BY <1>6, <2>1 DEF Of
    <2>4. applicants'[k] = applicants[k]
      BY <1>2, <1>10 DEF SettleWithdrawal
    <2> QED BY <1>1, <1>9, <2>2, <2>3, <2>4, Elsewhere
  <1>11. CASE req[r].job = k
    <2>1. Counting(r, k)
      BY <1>3, <1>11 DEF Counting
    <2>2. \A q \in Requests : ~ Counting(q, k)'
      BY <1>2, <1>9, <2>1 DEF Sound, Counting, NoRequest
    <2>3. a \in Of(k)
      BY <1>3, <1>4, <1>9, <2>1 DEF Sound
    <2>4. Cardinality(Of(k) \ {a}) = Cardinality(Of(k)) - 1
          /\ Cardinality(Of(k) \ {a}) \in Nat
      BY <1>9, <2>3, FS_RemoveElement, FS_CardinalityType
    <2>5. k \in openings => applicants'[k] = Cardinality(Of(k)) - 1
      <3>1. SUFFICES ASSUME k \in openings
                     PROVE  applicants'[k] = Cardinality(Of(k)) - 1
        OBVIOUS
      <3>2. req[r].count = Cardinality(Of(k))
        BY <1>1, <1>3, <1>9, <2>1, <3>1 DEF Sound
      <3>3. req[r].count > 0
        BY <1>9, <2>4, <3>2
      <3>4. applicants' = [applicants EXCEPT ![k] = req[r].count - 1]
        BY <1>11, <3>3 DEF SettleWithdrawal
      <3> QED BY <1>2, <3>2, <3>4
    <2>6. \A b \in Of(k) \ {a} : rows'[b].candidate = rows[b].candidate
      BY <1>6 DEF Of
    <2>7. \A b, c \in Of(k) \ {a} : rows'[b].candidate = rows'[c].candidate => b = c
      BY <1>9, <2>6 DEF Sound
    <2>8. Of(k)' = Of(k) \ {a}
      BY <1>8
    <2> QED BY <1>1, <2>2, <2>4, <2>5, <2>7, <2>8 DEF Sound
  <1> QED BY <1>10, <1>11

LEMMA CountNext == BaseInv /\ CountInv /\ [Next]_vars => CountInv'
  <1> SUFFICES ASSUME BaseInv, CountInv, [Next]_vars PROVE CountInv'
    OBVIOUS
  <1>1. ASSUME NEW r \in Requests, NEW c \in Candidates, NEW j \in Jobs,
               NEW a \in AppIds, Apply(r, c, j, a)
        PROVE  CountInv'
    BY <1>1, ApplyCount
  <1>2. ASSUME NEW r \in Requests, NEW found \in SUBSET AppIds, NEW s \in Targets,
               Load(r, found, s)
        PROVE  CountInv'
    <2> DEFINE p == IF found = {} THEN "notify" ELSE "update"
               m == {a \in found : rows[a].stage # s}
               n == [kind |-> "move", pc |-> p, candidate |-> None, job |-> None,
                     apps |-> found, moves |-> m, done |-> {}, target |-> s,
                     count |-> 0]
    <2>1. p \in Phases /\ m \in SUBSET AppIds
      BY DEF Phases
    <2>2. /\ req' = [req EXCEPT ![r] = n]
          /\ UNCHANGED <<openings, applicants, rows, raced>>
      BY <1>2 DEF Load
    <2> HIDE DEF p, m
    <2>3. n \in Request /\ n.kind = "move"
      BY <2>1, PipelineAssumption DEF Request, Kinds
    <2> HIDE DEF n
    <2> QED BY <2>2, <2>3, OtherCount
  <1>3. ASSUME NEW r \in Requests, NEW a \in AppIds, NEW s \in Targets,
               UpdateStage(r, a, s)
        PROVE  CountInv'
    BY <1>2, <1>3 DEF UpdateStage
  <1>4. ASSUME NEW r \in Requests, NEW j \in Jobs, NEW ids \in SUBSET AppIds,
               NEW s \in Targets, BulkMove(r, j, ids, s)
        PROVE  CountInv'
    <2> DEFINE found == ids \cap Of(j)
    <2>1. found \in SUBSET AppIds
      OBVIOUS
    <2>2. Load(r, found, s)
      BY <1>4 DEF BulkMove
    <2> HIDE DEF found
    <2> QED BY <1>2, <2>1, <2>2
  <1>5. ASSUME NEW r \in Requests, NEW a \in AppIds, Withdraw(r, a)
        PROVE  CountInv'
    BY <1>5, WithdrawCount
  <1>6. ASSUME NEW r \in Requests,
               \/ InsertApplication(r) \/ CountApplicant(r) \/ UpdateRow(r)
               \/ RemoveRow(r) \/ Notify(r)
        PROVE  CountInv'
    BY <1>6, AdvanceCount
  <1>7. ASSUME NEW r \in Requests, SettleWithdrawal(r) PROVE CountInv'
    BY <1>7, SettleCount
  <1>8. ASSUME NEW r \in Requests, Commit(r) PROVE CountInv'
    BY <1>8, CommitCount
  <1>9. ASSUME NEW r \in Requests, Fail(r) \/ Interrupt(r) PROVE CountInv'
    <2>1. Rollback(r)
      BY <1>9 DEF Fail, Interrupt
    <2>2. NoRequest.kind = "none"
      BY DEF NoRequest
    <2> QED BY <2>1, <2>2, NothingOpen, OtherCount DEF Rollback
  <1>10. ASSUME \/ \E c \in Candidates : DeleteCandidate(c)
                \/ \E j \in Jobs : DeleteJob(j)
                \/ UNCHANGED vars
         PROVE  CountInv'
    <2>1. openings' \subseteq openings /\ UNCHANGED <<applicants, rows, req, raced>>
      BY <1>10 DEF DeleteCandidate, DeleteJob, vars
    <2> QED BY <2>1, DeleteCount
  <1> QED BY <1>1, <1>3, <1>4, <1>5, <1>6, <1>7, <1>8, <1>9, <1>10 DEF Next

LEMMA AlwaysCount == Spec => []CountInv
  <1>1. Init => BaseInv /\ CountInv
    BY InitBase, InitCount
  <1>2. (BaseInv /\ CountInv) /\ [Next]_vars => (BaseInv /\ CountInv)'
    BY BaseNext, CountNext
  <1> QED BY <1>1, <1>2, PTL DEF Spec

(* A job's denormalised count is exact as long as no two requests that     *)
(* change it were ever open together, whatever fails, rolls back, moves    *)
(* stages or is deleted meanwhile.                                         *)
THEOREM CountsExact == Spec => []CountExactUnlessRaced
  <1>1. BaseInv /\ CountInv => CountExactUnlessRaced
    BY DEF BaseInv, TypeOK, CountInv, Sound, CountExactUnlessRaced
  <1> QED BY <1>1, AlwaysBase, AlwaysCount, PTL

(* The service-layer check admits no second application of a candidate to  *)
(* a job, as long as no two such requests were ever open together.         *)
THEOREM PairsUnique == Spec => []OnePerPairUnlessRaced
  <1>1. CountInv => OnePerPairUnlessRaced
    BY DEF CountInv, Sound, OnePerPairUnlessRaced
  <1> QED BY <1>1, AlwaysCount, PTL
=============================================================================
