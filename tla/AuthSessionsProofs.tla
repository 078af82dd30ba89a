------------------------- MODULE AuthSessionsProofs -------------------------
(***************************************************************************)
(* Proofs about AuthSessions: its type invariant, and the four invariants  *)
(* on what is left usable by a revocation or a deactivation, on the        *)
(* successors of a session, and on the counter of wrong passwords.         *)
(***************************************************************************)
EXTENDS AuthSessions, TLAPS

-----------------------------------------------------------------------------
(* The inductive invariant.                                                *)

InFlightNow(r) == request[r] # Idle

Issuing(r) == InFlightNow(r) /\ request[r].kind \in {"login", "refresh", "rotate"}

Presents == {"refresh", "rotate", "logout", "logoutAll"}

\* A session is made from an earlier one, a refresh presents a row, and
\* where no session is presented there is none.
Ordered ==
    /\ \A t \in Rows : parent[t] < t
    /\ \A r \in Requests : Refreshing(r) => request[r].session \in Rows
    /\ \A r \in Requests : InFlightNow(r) /\ request[r].kind \notin Presents
           => request[r].session = 0

\* What a request is about to revoke is all there is, but for those raced.
Swept ==
    \A r \in Requests : Selected(r) /\ request[r].kind \in RevokesAll
        => usable \subseteq request[r].seen \cup {request[r].session} \cup raced

\* A request that goes on with a session revoked since, or with an account
\* deactivated since, makes one that is raced.
Marked ==
    /\ \A r \in Requests : Refreshing(r) /\ request[r].session \in before
        => request[r].old \/ request[r].session \in raced
    /\ \A r \in Requests : Issuing(r) /\ ~Active(account) => request[r].old

\* What can still be refreshed has no successor.
Childless(p) == p \in forked \/ \A t \in Rows : parent[t] # p

Unspent ==
    /\ \A p \in usable : Childless(p)
    /\ \A r \in Requests : Refreshing(r) => Childless(request[r].session)

\* A request knows the counter and the lock, unless another wrote them since.
Known ==
    \A r \in Requests : InFlightNow(r) /\ ~request[r].stale
        => /\ request[r].acc.failed = account.failed
           /\ request[r].acc.locked = "none" <=> account.locked = "none"

IInv == /\ TypeOK /\ Ordered /\ Swept /\ Marked /\ Unspent /\ Known
        /\ RevokedUnlessRaced /\ InactiveUnlessRaced
        /\ OneSuccessorUnlessForked /\ AttemptsAddUpUnlessMixed

-----------------------------------------------------------------------------
(* What a step does to the requests.                                       *)

\* o is in flight after the step, as it was before but for its marks.
Carried(o) ==
    /\ InFlightNow(o)
    /\ request'[o].phase = request[o].phase
    /\ request'[o].kind = request[o].kind
    /\ request'[o].acc = request[o].acc
    /\ request'[o].session = request[o].session
    /\ request'[o].seen = request[o].seen
    /\ request[o].old => request'[o].old
    /\ request[o].stale => request'[o].stale

\* r is over, and the others are carried.
Over(r) ==
    /\ request'[r] = Idle
    /\ \A o \in Requests : InFlightNow(o)' => o # r /\ Carried(o)

\* What the type invariant says of a request in flight.
LEMMA RequestTypes ==
    ASSUME TypeOK, NEW r \in Requests, request[r] # Idle
    PROVE  /\ request[r] \in InFlight
           /\ request[r].phase \in {"loaded", "selected"}
           /\ request[r].kind \in Kinds
           /\ request[r].acc \in Account
           /\ request[r].session \in 0 .. MaxSessions
           /\ request[r].seen \in SUBSET Sessions
           /\ request[r].old \in BOOLEAN
           /\ request[r].stale \in BOOLEAN
<1>1. request[r] \in {Idle} \cup InFlight  BY DEF TypeOK
<1>2. request[r] \in InFlight  BY <1>1
<1> QED  BY <1>2 DEF InFlight

\* A request that has a phase other than "idle" is in flight.
LEMMA PhaseInFlight ==
    ASSUME NEW r \in Requests, request[r].phase \in {"loaded", "selected"}
    PROVE  request[r] # Idle
BY DEF Idle

\* The end of r leaves the others as they were but for their marks.
LEMMA AnsweredFields ==
    ASSUME TypeOK, NEW r \in Requests, NEW old \in BOOLEAN, NEW stale \in BOOLEAN,
           Answered(r, old, stale)
    PROVE  /\ request' \in [Requests -> {Idle} \cup InFlight]
           /\ Over(r)
           /\ \A o \in Requests : InFlightNow(o)' => (old => request'[o].old)
           /\ \A o \in Requests : InFlightNow(o)' => (stale => request'[o].stale)
<1> DEFINE New(o) == [request[o] EXCEPT !.old = @ \/ old, !.stale = @ \/ stale]
<1>1. \A o \in Requests : request'[o] = IF o = r \/ request[o] = Idle THEN Idle ELSE New(o)
  BY DEF Answered
<1>2. ASSUME NEW o \in Requests, request[o] # Idle
      PROVE  /\ New(o) \in InFlight
             /\ New(o).phase = request[o].phase /\ New(o).kind = request[o].kind
             /\ New(o).acc = request[o].acc /\ New(o).session = request[o].session
             /\ New(o).seen = request[o].seen
             /\ New(o).old = (request[o].old \/ old)
             /\ New(o).stale = (request[o].stale \/ stale)
  BY <1>2, RequestTypes DEF InFlight
<1> HIDE DEF New
<1>3. \A o \in Requests : request'[o] \in {Idle} \cup InFlight
  BY <1>1, <1>2
<1>4. request' \in [Requests -> {Idle} \cup InFlight]
  BY <1>3 DEF Answered
<1>5. ASSUME NEW o \in Requests, request'[o] # Idle
      PROVE  /\ o # r /\ Carried(o)
             /\ old => request'[o].old
             /\ stale => request'[o].stale
  <2>1. o # r /\ request[o] # Idle /\ request'[o] = New(o)  BY <1>1, <1>5
  <2>2. /\ New(o).phase = request[o].phase /\ New(o).kind = request[o].kind
        /\ New(o).acc = request[o].acc /\ New(o).session = request[o].session
        /\ New(o).seen = request[o].seen
        /\ New(o).old = (request[o].old \/ old)
        /\ New(o).stale = (request[o].stale \/ stale)
    BY <1>2, <2>1
  <2> QED  BY <2>1, <2>2 DEF Carried, InFlightNow
<1>6. request'[r] = Idle  BY <1>1
<1> QED  BY <1>4, <1>5, <1>6 DEF Over, InFlightNow

\* A request that starts.
LEMMA LoadFields ==
    ASSUME TypeOK, NEW r \in Requests, NEW kind \in Kinds, NEW s \in 0 .. MaxSessions,
           Load(r, kind, s)
    PROVE  /\ request' \in [Requests -> {Idle} \cup InFlight]
           /\ \A o \in Requests \ {r} : request'[o] = request[o]
           /\ request'[r].phase = "loaded"
           /\ request'[r].kind = kind
           /\ request'[r].acc = account
           /\ request'[r].session = s
<1> DEFINE q == [phase |-> "loaded", kind |-> kind, acc |-> account, session |-> s,
                 seen |-> {}, old |-> FALSE, stale |-> FALSE]
<1>1. q \in InFlight  BY DEF TypeOK, InFlight
<1>2. q.phase = "loaded" /\ q.kind = kind /\ q.acc = account /\ q.session = s  OBVIOUS
<1>3. request' = [request EXCEPT ![r] = q]  BY DEF Load
<1> HIDE DEF q
<1> QED  BY <1>1, <1>2, <1>3 DEF TypeOK

\* A request that selects.
LEMMA SelectFields ==
    ASSUME TypeOK, NEW r \in Requests, Select(r)
    PROVE  /\ request' \in [Requests -> {Idle} \cup InFlight]
           /\ \A o \in Requests \ {r} : request'[o] = request[o]
           /\ request[r] # Idle /\ request'[r] # Idle
           /\ request'[r].kind = request[r].kind
           /\ request'[r].acc = request[r].acc
           /\ request'[r].session = request[r].session
           /\ request'[r].old = request[r].old
           /\ request'[r].stale = request[r].stale
           /\ request'[r].seen = usable \ {request[r].session}
<1> DEFINE q == [request[r] EXCEPT !.phase = "selected", !.seen = usable \ {request[r].session}]
<1>1. request[r] # Idle  BY PhaseInFlight DEF Select
<1>2. request[r] \in InFlight  BY <1>1, RequestTypes
<1>3. usable \subseteq Sessions  BY AuthAssumption DEF TypeOK, Rows, Sessions
<1>4. /\ q \in InFlight
      /\ q.phase = "selected" /\ q.kind = request[r].kind /\ q.acc = request[r].acc
      /\ q.session = request[r].session /\ q.old = request[r].old
      /\ q.stale = request[r].stale /\ q.seen = usable \ {request[r].session}
  BY <1>2, <1>3 DEF InFlight
<1>5. request' = [request EXCEPT ![r] = q]
  BY <1>2 DEF Select, TypeOK, InFlight
<1>6. q # Idle  BY <1>4 DEF Idle
<1> HIDE DEF q
<1> QED  BY <1>1, <1>4, <1>5, <1>6 DEF TypeOK

\* A request that is given up.
LEMMA AbortFields ==
    ASSUME TypeOK, NEW r \in Requests, Abort(r)
    PROVE  /\ request' \in [Requests -> {Idle} \cup InFlight]
           /\ request'[r] = Idle
           /\ \A o \in Requests \ {r} : request'[o] = request[o]
BY DEF Abort, TypeOK

-----------------------------------------------------------------------------
(* The steps by what they do to the sessions.                              *)

Issues(r) == Login(r) \/ Refresh(r) \/ RefreshRotation(r)

Revokes(r) == LogoutAll(r) \/ ResetPassword(r) \/ Deactivate(r) \/ ChangePassword(r)

Loads == \E r \in Requests, kind \in Kinds, s \in 0 .. MaxSessions : Load(r, kind, s)

Quiet == \/ Loads
         \/ \E r \in Requests : Select(r) \/ Abort(r) \/ WrongPassword(r) \/ Reactivate(r)
         \/ LockPasses

LEMMA NextSplits ==
    Next => \/ Quiet
            \/ \E r \in Requests : Issues(r) \/ Revokes(r) \/ Logout(r)
BY DEF Next, Quiet, Loads, Issues, Revokes

\* A request that ends with its last statement was in flight.
LEMMA EndsInFlight ==
    ASSUME NEW r \in Requests, NEW kind, NEW rows, Ends(r, kind, rows)
    PROVE  request[r] # Idle /\ request[r].kind = kind
BY PhaseInFlight DEF Ends

\* The names of the handlers are different.
LEMMA IssueStep ==
    ASSUME TypeOK, NEW r \in Requests, Issues(r)
    PROVE  /\ Issuing(r)
           /\ \E revokes : /\ Issue(r, revokes)
                           /\ Refreshing(r) => request[r].session \in revokes
           /\ request' \in [Requests -> {Idle} \cup InFlight]
           /\ Over(r)
           /\ Active(account') <=> Active(account)
<1>1. CASE Login(r)
  <2>1. Issuing(r) /\ ~Refreshing(r)
    BY <1>1, EndsInFlight DEF Login, Issuing, Refreshing, InFlightNow
  <2>2. Issue(r, {}) /\ Answered(r, FALSE, TRUE)  BY <1>1 DEF Login
  <2>3. account'.active = account.active /\ account'.deactivated = account.deactivated
    BY <1>1 DEF Login, RecordSuccessfulLogin, TypeOK, Account
  <2> QED  BY <2>1, <2>2, <2>3, AnsweredFields DEF Active
<1>2. CASE Refresh(r)
  <2>1. Issuing(r)
    BY <1>2, EndsInFlight DEF Refresh, Issuing, InFlightNow
  <2>2. Issue(r, {request[r].session}) /\ Answered(r, FALSE, FALSE) /\ account' = account
    BY <1>2 DEF Refresh
  <2> QED  BY <2>1, <2>2, AnsweredFields
<1>3. CASE RefreshRotation(r)
  <2>1. Issuing(r)
    BY <1>3, EndsInFlight DEF RefreshRotation, Issuing, InFlightNow
  <2>2. /\ Issue(r, request[r].seen \cup {request[r].session})
        /\ Answered(r, FALSE, FALSE) /\ account' = account
    BY <1>3 DEF RefreshRotation
  <2>3. request[r].session \in request[r].seen \cup {request[r].session}  OBVIOUS
  <2> QED  BY <2>1, <2>2, <2>3, AnsweredFields
<1> QED  BY <1>1, <1>2, <1>3 DEF Issues

\* Nothing that is not a row is usable, so what a request without a session
\* revokes is all the same.
LEMMA RevokeStep ==
    ASSUME TypeOK, NEW r \in Requests, Revokes(r)
    PROVE  /\ Selected(r) /\ request[r].kind \in RevokesAll
           /\ usable' \subseteq usable
           /\ usable' \cap request[r].seen = {}
           /\ request[r].kind \in Presents => request[r].session \notin usable'
           /\ before' = Rows
           /\ UNCHANGED <<made, parent, raced, forked>>
           /\ request' \in [Requests -> {Idle} \cup InFlight]
           /\ Over(r)
           /\ \A o \in Requests : InFlightNow(o)' => request'[o].old
           /\ Active(account') => Active(account)
<1>1. ASSUME NEW kind \in RevokesAll, NEW rows, Ends(r, kind, rows)
      PROVE  Selected(r) /\ request[r].kind = kind
  BY <1>1 DEF Ends, RevokesAll, Selects, Selected
<1>2. ASSUME NEW stale \in BOOLEAN, Answered(r, TRUE, stale)
      PROVE  /\ request' \in [Requests -> {Idle} \cup InFlight]
             /\ Over(r)
             /\ \A o \in Requests : InFlightNow(o)' => request'[o].old
  BY <1>2, AnsweredFields
<1>3. CASE LogoutAll(r)
  <2>1. Selected(r) /\ request[r].kind = "logoutAll"  BY <1>1, <1>3 DEF LogoutAll, RevokesAll
  <2>2. /\ RevokeAll(request[r].seen \cup {request[r].session})
        /\ Answered(r, TRUE, FALSE) /\ account' = account
    BY <1>3 DEF LogoutAll
  <2> QED  BY <2>1, <2>2, <1>2 DEF RevokeAll, RevokesAll, Presents
<1>4. CASE ResetPassword(r)
  <2>1. Selected(r) /\ request[r].kind = "reset"  BY <1>1, <1>4 DEF ResetPassword, RevokesAll
  <2>2. RevokeAll(request[r].seen) /\ Answered(r, TRUE, TRUE)
    BY <1>4 DEF ResetPassword
  <2>3. account'.active = account.active /\ account'.deactivated = account.deactivated
    BY <1>4 DEF ResetPassword, RecordSuccessfulLogin, TypeOK, Account
  <2> QED  BY <2>1, <2>2, <2>3, <1>2 DEF RevokeAll, RevokesAll, Presents, Active
<1>5. CASE Deactivate(r)
  <2>1. Selected(r) /\ request[r].kind = "deactivate"  BY <1>1, <1>5 DEF Deactivate, RevokesAll
  <2>2. RevokeAll(request[r].seen) /\ Answered(r, TRUE, FALSE)
    BY <1>5 DEF Deactivate
  <2>3. account'.deactivated = TRUE
    BY <1>5 DEF Deactivate, TypeOK, Account
  <2> QED  BY <2>1, <2>2, <2>3, <1>2 DEF RevokeAll, RevokesAll, Presents, Active
<1>6. CASE ChangePassword(r)
  <2>1. Selected(r) /\ request[r].kind = "change"  BY <1>1, <1>6 DEF ChangePassword, RevokesAll
  <2>2. /\ RevokeAll(request[r].seen) /\ Answered(r, TRUE, FALSE)
        /\ account' = account
    BY <1>6 DEF ChangePassword
  <2> QED  BY <2>1, <2>2, <1>2 DEF RevokeAll, RevokesAll, Presents
<1> QED  BY <1>3, <1>4, <1>5, <1>6 DEF Revokes

LEMMA LogoutStep ==
    ASSUME TypeOK, NEW r \in Requests, Logout(r)
    PROVE  /\ usable' \subseteq usable
           /\ UNCHANGED <<account, made, parent, before, raced, forked>>
           /\ request' \in [Requests -> {Idle} \cup InFlight]
           /\ Over(r)
<1>1. Answered(r, FALSE, FALSE)  BY DEF Logout
<1> QED  BY <1>1, AnsweredFields DEF Logout

\* A request that others overtake but do not end, or one that has just begun.
LEMMA QuietStep ==
    ASSUME TypeOK, Quiet
    PROVE  /\ UNCHANGED <<made, usable, parent, before, raced, forked>>
           /\ request' \in [Requests -> {Idle} \cup InFlight]
           /\ Active(account) => Active(account')
<1> DEFINE Claim == /\ UNCHANGED <<made, usable, parent, before, raced, forked>>
                    /\ request' \in [Requests -> {Idle} \cup InFlight]
                    /\ Active(account) => Active(account')
<1> SUFFICES Claim  OBVIOUS
<1>1. CASE Loads
  BY <1>1, LoadFields DEF Loads, Load
<1>2. ASSUME NEW r \in Requests, Select(r) \/ Abort(r)
      PROVE  Claim
  BY <1>2, SelectFields, AbortFields DEF Select, Abort
<1>3. ASSUME NEW r \in Requests, WrongPassword(r)
      PROVE  Claim
  <2>1. /\ Answered(r, FALSE, TRUE) /\ account' = RecordFailedAttempt(r)
        /\ UNCHANGED <<made, usable, parent, before, raced, forked>>
    BY <1>3 DEF WrongPassword
  <2>2. account'.active = account.active /\ account'.deactivated = account.deactivated
    BY <2>1 DEF RecordFailedAttempt, TypeOK, Account
  <2> QED  BY <2>1, <2>2, AnsweredFields DEF Active
<1>4. ASSUME NEW r \in Requests, Reactivate(r)
      PROVE  Claim
  <2>1. /\ Answered(r, FALSE, TRUE)
        /\ UNCHANGED <<made, usable, parent, before, raced, forked>>
    BY <1>4 DEF Reactivate
  <2>2. /\ account'.active = Written(r, "active", TRUE)
        /\ account'.deactivated = Written(r, "deactivated", FALSE)
    BY <1>4 DEF Reactivate, RecordSuccessfulLogin, TypeOK, Account
  <2>3. account.active \in BOOLEAN /\ account.deactivated \in BOOLEAN
    BY DEF TypeOK, Account
  <2>4. ASSUME Active(account)
        PROVE  Active(account')
    <3>1. account.active = TRUE /\ account.deactivated = FALSE
      BY <2>3, <2>4 DEF Active
    <3>2. account'.active = TRUE /\ account'.deactivated = FALSE
      BY <2>2, <3>1 DEF Written
    <3> QED  BY <3>2 DEF Active
  <2> QED  BY <2>1, <2>4, AnsweredFields
<1>5. CASE LockPasses
  BY <1>5 DEF LockPasses, TypeOK, Account, Active
<1> QED  BY <1>1, <1>2, <1>3, <1>4, <1>5 DEF Quiet

-----------------------------------------------------------------------------
(* Types.                                                                  *)

\* A column keeps its type, written or not.
LEMMA WrittenTypes ==
    ASSUME TypeOK, NEW r \in Requests, request[r] # Idle
    PROVE  /\ Written(r, "failed", 0) \in Nat
           /\ Written(r, "locked", "none") \in {"none", "until", "past"}
           /\ Written(r, "active", TRUE) \in BOOLEAN
           /\ Written(r, "active", FALSE) \in BOOLEAN
           /\ Written(r, "deactivated", FALSE) \in BOOLEAN
<1>1. account \in Account  BY DEF TypeOK
<1>2. /\ account["failed"] \in Nat /\ account["locked"] \in {"none", "until", "past"}
      /\ account["active"] \in BOOLEAN /\ account["deactivated"] \in BOOLEAN
  BY <1>1 DEF Account
<1> QED  BY <1>2 DEF Written

LEMMA SuccessTypes ==
    ASSUME TypeOK, NEW r \in Requests, request[r] # Idle
    PROVE  RecordSuccessfulLogin(r) \in Account
BY WrittenTypes DEF RecordSuccessfulLogin, TypeOK, Account

LEMMA FailureTypes ==
    ASSUME TypeOK, NEW r \in Requests, request[r] # Idle
    PROVE  RecordFailedAttempt(r) \in Account
<1>1. request[r].acc.failed + 1 \in Nat  BY RequestTypes DEF Account
<1> QED  BY <1>1 DEF RecordFailedAttempt, TypeOK, Account

\* The account, the counter of wrong passwords and its mark.
LEMMA AccountTypes ==
    ASSUME TypeOK, Next
    PROVE  account' \in Account /\ wrong' \in Nat /\ mixed' \in BOOLEAN
<1> DEFINE Claim == account' \in Account /\ wrong' \in Nat /\ mixed' \in BOOLEAN
<1> USE DEF TypeOK
<1>1. CASE Loads
  BY <1>1 DEF Loads, Load
<1>2. ASSUME NEW r \in Requests, Select(r) \/ Abort(r)
      PROVE  Claim
  BY <1>2 DEF Select, Abort
<1>3. ASSUME NEW r \in Requests, Refresh(r) \/ RefreshRotation(r) \/ Logout(r) \/ LogoutAll(r) \/ ChangePassword(r)
      PROVE  Claim
  BY <1>3 DEF Refresh, RefreshRotation, Logout, LogoutAll, ChangePassword
<1>4. ASSUME NEW r \in Requests, Login(r) \/ ResetPassword(r)
      PROVE  Claim
  <2>1. request[r] # Idle  BY <1>4, EndsInFlight DEF Login, ResetPassword
  <2>2. account' = RecordSuccessfulLogin(r) /\ Succeeded(r)
    BY <1>4 DEF Login, ResetPassword
  <2> QED  BY <2>1, <2>2, SuccessTypes, RequestTypes DEF Succeeded
<1>5. ASSUME NEW r \in Requests, WrongPassword(r)
      PROVE  Claim
  <2>1. request[r] # Idle  BY <1>5, EndsInFlight DEF WrongPassword
  <2>2. /\ account' = RecordFailedAttempt(r) /\ wrong' = wrong + 1
        /\ mixed' = (mixed \/ request[r].stale)
    BY <1>5 DEF WrongPassword
  <2> QED  BY <2>1, <2>2, FailureTypes, RequestTypes
<1>6. ASSUME NEW r \in Requests, Deactivate(r)
      PROVE  Claim
  <2>1. request[r] # Idle  BY <1>6, EndsInFlight DEF Deactivate
  <2>2. Written(r, "active", FALSE) \in BOOLEAN  BY <2>1, WrittenTypes
  <2>3. account' \in Account  BY <1>6, <2>2 DEF Deactivate, Account
  <2> QED  BY <1>6, <2>3 DEF Deactivate
<1>7. ASSUME NEW r \in Requests, Reactivate(r)
      PROVE  Claim
  <2>1. request[r] # Idle  BY <1>7, EndsInFlight DEF Reactivate
  <2>2. RecordSuccessfulLogin(r) \in Account  BY <2>1, SuccessTypes
  <2>3. Written(r, "active", TRUE) \in BOOLEAN /\ Written(r, "deactivated", FALSE) \in BOOLEAN
    BY <2>1, WrittenTypes
  <2>4. account' \in Account  BY <1>7, <2>2, <2>3 DEF Reactivate, Account
  <2> QED  BY <1>7, <2>1, <2>4, RequestTypes DEF Reactivate, Succeeded
<1>8. CASE LockPasses
  BY <1>8 DEF LockPasses, Account
<1> QED  BY <1>1, <1>2, <1>3, <1>4, <1>5, <1>6, <1>7, <1>8 DEF Next, Loads

LEMMA StartedTypes ==
    ASSUME TypeOK, Next
    PROVE  started' \in 0 .. MaxStarts
<1> USE AuthAssumption DEF TypeOK
<1>1. ASSUME NEW r \in Requests, NEW kind \in Kinds, NEW s \in 0 .. MaxSessions, Load(r, kind, s)
      PROVE  started' \in 0 .. MaxStarts
  BY <1>1 DEF Load
<1>2. ASSUME NEW r \in Requests,
             \/ Select(r) \/ Abort(r) \/ Login(r) \/ WrongPassword(r) \/ Refresh(r)
             \/ RefreshRotation(r) \/ Logout(r) \/ LogoutAll(r) \/ ResetPassword(r)
             \/ Deactivate(r) \/ Reactivate(r) \/ ChangePassword(r)
      PROVE  started' = started
  BY <1>2 DEF Select, Abort, Login, WrongPassword, Refresh, RefreshRotation, Logout,
              LogoutAll, ResetPassword, Deactivate, Reactivate, ChangePassword
<1>3. LockPasses => started' = started  BY DEF LockPasses
<1> QED  BY <1>1, <1>2, <1>3 DEF Next

\* What Issue makes of the table.
LEMMA IssueFields ==
    ASSUME TypeOK, NEW r \in Requests, request[r] # Idle, NEW revokes, Issue(r, revokes)
    PROVE  /\ made' = made + 1
           /\ Rows' = Rows \cup {made + 1}
           /\ made + 1 \in Sessions \ Rows
           /\ usable' = (usable \ revokes) \cup {made + 1}
           /\ parent' \in [Sessions -> 0 .. MaxSessions]
           /\ parent'[made + 1] = request[r].session
           /\ \A t \in Rows : parent'[t] = parent[t]
<1>1. made < MaxSessions /\ made' = made + 1  BY DEF Issue
<1>2. Rows' = Rows \cup {made + 1} /\ made + 1 \in Sessions \ Rows
  BY <1>1, AuthAssumption DEF TypeOK, Rows, Sessions
<1>3. request[r].session \in 0 .. MaxSessions  BY RequestTypes
<1>4. parent' = [parent EXCEPT ![made + 1] = request[r].session]  BY DEF Issue
<1>5. /\ parent' \in [Sessions -> 0 .. MaxSessions]
      /\ parent'[made + 1] = request[r].session
      /\ \A t \in Rows : parent'[t] = parent[t]
  BY <1>2, <1>3, <1>4, AuthAssumption DEF TypeOK, Rows, Sessions
<1> QED  BY <1>1, <1>2, <1>5 DEF Issue

\* The table of sessions and what the history says of it.
LEMMA TableTypes ==
    ASSUME TypeOK, Ordered, Next
    PROVE  /\ made' \in 0 .. MaxSessions
           /\ usable' \subseteq Rows'
           /\ parent' \in [Sessions -> 0 .. MaxSessions]
           /\ before' \subseteq Rows' /\ raced' \subseteq Rows' /\ forked' \subseteq Rows'
           /\ request' \in [Requests -> {Idle} \cup InFlight]
<1> DEFINE Claim == /\ made' \in 0 .. MaxSessions
                    /\ usable' \subseteq Rows'
                    /\ parent' \in [Sessions -> 0 .. MaxSessions]
                    /\ before' \subseteq Rows' /\ raced' \subseteq Rows' /\ forked' \subseteq Rows'
                    /\ request' \in [Requests -> {Idle} \cup InFlight]
<1> SUFFICES Claim  OBVIOUS
<1>1. CASE Quiet
  BY <1>1, QuietStep DEF TypeOK, Rows
<1>2. ASSUME NEW r \in Requests, Issues(r)
      PROVE  Claim
  <2>1. Issuing(r) /\ request[r] # Idle  BY <1>2, IssueStep DEF Issuing, InFlightNow
  <2>2. PICK revokes : Issue(r, revokes)  BY <1>2, IssueStep
  <2>3. made' \in 0 .. MaxSessions
    BY <2>2, AuthAssumption DEF Issue, TypeOK
  <2>4. usable' \subseteq Rows' /\ parent' \in [Sessions -> 0 .. MaxSessions]
    BY <2>1, <2>2, IssueFields DEF TypeOK
  <2>5. before' \subseteq Rows' /\ raced' \subseteq Rows'
    BY <2>1, <2>2, IssueFields DEF TypeOK, Issue
  <2>6. forked' \subseteq Rows'
    <3>1. CASE Refreshing(r)
      <4>1. request[r].session \in Rows  BY <3>1 DEF Ordered
      <4>2. forked' \subseteq forked \cup {request[r].session}  BY <2>2 DEF Issue
      <4> QED  BY <2>1, <2>2, <4>1, <4>2, IssueFields DEF TypeOK
    <3>2. CASE ~Refreshing(r)
      <4>1. request[r].kind = "login" /\ request[r].session = 0
        BY <2>1, <3>2 DEF Issuing, Refreshing, Ordered, Presents
      <4>2. \A o \in Requests : Refreshing(o) => request[o].session # request[r].session
        BY <4>1, AuthAssumption DEF Ordered, Rows, TypeOK
      <4> QED  BY <2>1, <2>2, <4>2, IssueFields DEF TypeOK, Issue
    <3> QED  BY <3>1, <3>2
  <2> QED  BY <1>2, <2>3, <2>4, <2>5, <2>6, IssueStep
<1>3. ASSUME NEW r \in Requests, Revokes(r)
      PROVE  Claim
  BY <1>3, RevokeStep DEF TypeOK, Rows
<1>4. ASSUME NEW r \in Requests, Logout(r)
      PROVE  Claim
  BY <1>4, LogoutStep DEF TypeOK, Rows
<1> QED  BY <1>1, <1>2, <1>3, <1>4, NextSplits

LEMMA TypesKept ==
    ASSUME TypeOK, Ordered, Next
    PROVE  TypeOK'
BY AccountTypes, StartedTypes, TableTypes DEF TypeOK

-----------------------------------------------------------------------------
(* A request in flight after a step was in flight before it, or is loaded   *)
(* by it.                                                                  *)

Loaded(o) == \E kind \in Kinds, s \in 0 .. MaxSessions : Load(o, kind, s)

Continues(o) ==
    /\ InFlightNow(o)
    /\ request'[o].kind = request[o].kind
    /\ request'[o].acc = request[o].acc
    /\ request'[o].session = request[o].session
    /\ request[o].old => request'[o].old
    /\ request[o].stale => request'[o].stale

\* Selected as before the step.
StaysSelected(o) ==
    /\ Selected(o)
    /\ request'[o].seen = request[o].seen

LEMMA OverContinues ==
    ASSUME NEW r \in Requests, Over(r), NEW o \in Requests, InFlightNow(o)'
    PROVE  Continues(o) /\ (Selected(o)' => StaysSelected(o))
BY DEF Over, Carried, Continues, StaysSelected, Selected

LEMMA SameContinues ==
    ASSUME NEW o \in Requests, request'[o] = request[o], InFlightNow(o)'
    PROVE  Continues(o) /\ (Selected(o)' => StaysSelected(o))
BY DEF Continues, StaysSelected, Selected, InFlightNow

LEMMA Continuing ==
    ASSUME TypeOK, Next, NEW o \in Requests, InFlightNow(o)'
    PROVE  \/ Loaded(o)
           \/ Continues(o) /\ (Select(o) \/ (Selected(o)' => StaysSelected(o)))
<1> DEFINE Claim == \/ Loaded(o)
                    \/ Continues(o) /\ (Select(o) \/ (Selected(o)' => StaysSelected(o)))
<1> SUFFICES Claim  OBVIOUS
<1>1. ASSUME NEW r \in Requests, NEW kind \in Kinds, NEW s \in 0 .. MaxSessions, Load(r, kind, s)
      PROVE  Claim
  <2>1. CASE r = o  BY <1>1, <2>1 DEF Loaded
  <2>2. CASE r # o  BY <1>1, <2>2, LoadFields, SameContinues
  <2> QED  BY <2>1, <2>2
<1>2. ASSUME NEW r \in Requests, Select(r)
      PROVE  Claim
  <2>1. CASE r = o  BY <1>2, <2>1, SelectFields DEF Continues, InFlightNow
  <2>2. CASE r # o  BY <1>2, <2>2, SelectFields, SameContinues
  <2> QED  BY <2>1, <2>2
<1>3. ASSUME NEW r \in Requests, Abort(r)
      PROVE  Claim
  <2>1. r # o  BY <1>3, AbortFields DEF InFlightNow
  <2> QED  BY <1>3, <2>1, AbortFields, SameContinues
<1>4. ASSUME NEW r \in Requests, WrongPassword(r) \/ Reactivate(r)
      PROVE  Claim
  <2>1. Answered(r, FALSE, TRUE)  BY <1>4 DEF WrongPassword, Reactivate
  <2> QED  BY <2>1, AnsweredFields, OverContinues
<1>5. CASE LockPasses
  BY <1>5, SameContinues DEF LockPasses
<1>6. ASSUME NEW r \in Requests, Issues(r) \/ Revokes(r) \/ Logout(r)
      PROVE  Claim
  BY <1>6, IssueStep, RevokeStep, LogoutStep, OverContinues
<1> QED  BY <1>1, <1>2, <1>3, <1>4, <1>5, <1>6, NextSplits DEF Quiet, Loads

-----------------------------------------------------------------------------
(* The order of the sessions.                                              *)

LEMMA AdmittedSession ==
    ASSUME TypeOK, NEW kind \in Kinds, NEW s \in 0 .. MaxSessions, Admitted(kind, s)
    PROVE  /\ kind \in {"refresh", "rotate"} => s \in usable /\ s \in Rows /\ Active(account)
           /\ kind = "login" => Active(account)
           /\ kind \notin Presents => s = 0
BY DEF Admitted, MaySignIn, MayRefresh, TypeOK, Presents, Kinds

LEMMA OrderedKept ==
    ASSUME IInv, Next
    PROVE  Ordered'
<1> USE DEF IInv
<1>1. Rows \subseteq Rows' /\ \A t \in Rows' : parent'[t] < t
  <2>1. CASE UNCHANGED <<made, parent>>
    BY <2>1 DEF Rows, Ordered
  <2>2. ASSUME NEW r \in Requests, Issues(r)
        PROVE  Rows \subseteq Rows' /\ \A t \in Rows' : parent'[t] < t
    <3>1. Issuing(r) /\ request[r] # Idle  BY <2>2, IssueStep DEF Issuing, InFlightNow
    <3>2. PICK revokes : Issue(r, revokes)  BY <2>2, IssueStep
    <3>3. request[r].session \in 0 .. made
      BY <3>1 DEF Ordered, Issuing, Refreshing, InFlightNow, Presents, Rows, TypeOK
    <3> QED  BY <3>1, <3>2, <3>3, IssueFields DEF Ordered, TypeOK
  <2> QED  BY <2>1, <2>2, NextSplits, QuietStep, RevokeStep, LogoutStep
<1>2. ASSUME NEW o \in Requests, InFlightNow(o)'
      PROVE  /\ Refreshing(o)' => request'[o].session \in Rows'
             /\ request'[o].kind \notin Presents => request'[o].session = 0
  <2>1. CASE Loaded(o)
    <3>1. PICK kind \in Kinds, s \in 0 .. MaxSessions : Load(o, kind, s)  BY <2>1 DEF Loaded
    <3>2. request'[o].kind = kind /\ request'[o].session = s  BY <3>1, LoadFields
    <3>3. Admitted(kind, s)  BY <3>1 DEF Load
    <3> QED  BY <1>1, <3>2, <3>3, AdmittedSession DEF Refreshing
  <2>2. CASE Continues(o)
    BY <1>1, <2>2 DEF Continues, Ordered, Refreshing, InFlightNow
  <2> QED  BY <1>2, <2>1, <2>2, Continuing
<1> QED  BY <1>1, <1>2 DEF Ordered, Refreshing, InFlightNow

-----------------------------------------------------------------------------
(* What a revocation leaves.                                               *)

\* A session that is usable after a step and was not before is raced, if a
\* request had selected the sessions it revokes.
LEMMA SweptKept ==
    ASSUME IInv, Next
    PROVE  Swept'
<1> USE DEF IInv
<1>1. raced \subseteq raced'
  <2>1. \A r \in Requests : Issues(r) => raced \subseteq raced'
    BY IssueStep DEF Issue
  <2> QED  BY <2>1, NextSplits, QuietStep, RevokeStep, LogoutStep
<1>2. ASSUME NEW o \in Requests, Selected(o)', request'[o].kind \in RevokesAll
      PROVE  usable' \subseteq request'[o].seen \cup {request'[o].session} \cup raced'
  <2>1. InFlightNow(o)'  BY <1>2 DEF InFlightNow, Selected, Idle
  <2>2. ~Loaded(o)  BY <1>2, LoadFields DEF Loaded, Selected
  <2>3. Continues(o) /\ (Select(o) \/ StaysSelected(o))
    BY <1>2, <2>1, <2>2, Continuing
  <2>4. CASE Select(o)
    <3>1. usable' = usable  BY <2>4 DEF Select
    <3>2. /\ request'[o].seen = usable \ {request[o].session}
          /\ request'[o].session = request[o].session
      BY <2>4, SelectFields
    <3> QED  BY <3>1, <3>2
  <2>5. CASE StaysSelected(o)
    <3>1. /\ Selected(o) /\ request[o].kind \in RevokesAll
          /\ request'[o].seen = request[o].seen /\ request'[o].session = request[o].session
      BY <1>2, <2>3, <2>5 DEF StaysSelected, Continues
    <3>2. usable \subseteq request[o].seen \cup {request[o].session} \cup raced
      BY <3>1 DEF Swept
    <3>3. CASE usable' \subseteq usable
      BY <1>1, <3>1, <3>2, <3>3
    <3>4. ASSUME NEW r \in Requests, Issues(r)
          PROVE  usable' \subseteq usable \cup raced'
      <4>1. r # o  BY <2>1, <3>4, IssueStep DEF Over, InFlightNow
      <4>2. PICK revokes : Issue(r, revokes)  BY <3>4, IssueStep
      <4>3. Overlapped(r)  BY <3>1, <4>1 DEF Overlapped
      <4> QED  BY <4>2, <4>3 DEF Issue
    <3> QED  BY <1>1, <3>1, <3>2, <3>3, <3>4, NextSplits, QuietStep, RevokeStep, LogoutStep
  <2> QED  BY <2>3, <2>4, <2>5
<1> QED  BY <1>2 DEF Swept

\* What is usable after a request revoked every session is raced.
LEMMA RevokedLeavesRaced ==
    ASSUME IInv, NEW r \in Requests, Revokes(r)
    PROVE  usable' \subseteq raced'
<1> USE DEF IInv
<1>1. /\ Selected(r) /\ request[r].kind \in RevokesAll
      /\ usable' \subseteq usable /\ usable' \cap request[r].seen = {} /\ raced' = raced
      /\ request[r].kind \in Presents => request[r].session \notin usable'
  BY RevokeStep
<1>2. usable \subseteq request[r].seen \cup {request[r].session} \cup raced
  BY <1>1 DEF Swept
<1>3. request[r].session \notin usable'
  <2>1. InFlightNow(r)  BY <1>1 DEF Selected, InFlightNow, Idle
  <2>2. 0 \notin usable  BY AuthAssumption DEF TypeOK, Rows
  <2> QED  BY <1>1, <2>1, <2>2 DEF Ordered
<1> QED  BY <1>1, <1>2, <1>3

LEMMA MarkedKept ==
    ASSUME IInv, Next
    PROVE  Marked'
<1> USE DEF IInv
<1> DEFINE Claim(o) == /\ Refreshing(o)' /\ request'[o].session \in before'
                           => request'[o].old \/ request'[o].session \in raced'
                       /\ Issuing(o)' /\ ~Active(account') => request'[o].old
<1>1. ASSUME NEW o \in Requests, InFlightNow(o)'
      PROVE  Claim(o)
  <2>1. CASE Loaded(o)
    <3>1. PICK kind \in Kinds, s \in 0 .. MaxSessions : Load(o, kind, s)  BY <2>1 DEF Loaded
    <3>2. request'[o].kind = kind /\ request'[o].session = s  BY <3>1, LoadFields
    <3>3. Admitted(kind, s) /\ UNCHANGED <<account, before, raced>>  BY <3>1 DEF Load
    <3> QED  BY <3>2, <3>3, AdmittedSession DEF Refreshing, Issuing, RevokedUnlessRaced
  <2>2. CASE Continues(o)
    <3>1. /\ Refreshing(o)' => Refreshing(o)
          /\ Issuing(o)' => Issuing(o)
          /\ request'[o].session = request[o].session
          /\ request[o].old => request'[o].old
      BY <2>2 DEF Continues, Refreshing, Issuing, InFlightNow
    <3>2. CASE UNCHANGED <<before, raced>> /\ (Active(account) => Active(account'))
      BY <3>1, <3>2 DEF Marked
    <3>3. ASSUME NEW r \in Requests, Issues(r)
          PROVE  Claim(o)
      <4>1. Issuing(r) /\ request[r] # Idle  BY <3>3, IssueStep DEF Issuing, InFlightNow
      <4>2. PICK revokes : Issue(r, revokes)  BY <3>3, IssueStep
      <4>3. made + 1 \notin Rows  BY <4>1, <4>2, IssueFields
      <4>4. Refreshing(o) => request[o].session \in Rows  BY DEF Ordered
      <4>5. before' \subseteq before \cup {made + 1} /\ raced \subseteq raced'
        BY <4>2 DEF Issue
      <4> QED  BY <3>1, <3>3, <4>3, <4>4, <4>5, IssueStep DEF Marked
    <3>4. ASSUME NEW r \in Requests, Revokes(r)
          PROVE  Claim(o)
      BY <1>1, <3>4, RevokeStep
    <3> QED  BY <3>2, <3>3, <3>4, NextSplits, QuietStep, LogoutStep
  <2> QED  BY <1>1, <2>1, <2>2, Continuing
<1> QED  BY <1>1 DEF Marked, Refreshing, Issuing, InFlightNow

\* The new session is raced when it goes back to before a revocation.
LEMMA RevokedKept ==
    ASSUME IInv, Next
    PROVE  RevokedUnlessRaced'
<1> USE DEF IInv, RevokedUnlessRaced
<1>1. CASE Quiet
  BY <1>1, QuietStep
<1>2. ASSUME NEW r \in Requests, Issues(r)
      PROVE  RevokedUnlessRaced'
  <2>1. Issuing(r) /\ request[r] # Idle  BY <1>2, IssueStep DEF Issuing, InFlightNow
  <2>2. PICK revokes : Issue(r, revokes)  BY <1>2, IssueStep
  <2>3. /\ usable' = (usable \ revokes) \cup {made + 1} /\ made + 1 \notin Rows
        /\ raced \subseteq raced' /\ before' \subseteq before \cup {made + 1}
    BY <2>1, <2>2, IssueFields DEF Issue
  <2>4. ASSUME request[r].session \in before
        PROVE  request[r].old \/ request[r].session \in raced
    <3>1. request[r].session # 0  BY <2>4, AuthAssumption DEF TypeOK, Rows
    <3>2. Refreshing(r)  BY <2>1, <3>1 DEF Issuing, Ordered, Presents, Refreshing, InFlightNow
    <3> QED  BY <2>4, <3>2 DEF Marked
  <2>5. made + 1 \in before' => made + 1 \in raced'
    BY <2>2, <2>3, <2>4 DEF Issue, TypeOK
  <2> QED  BY <2>3, <2>5
<1>3. ASSUME NEW r \in Requests, Revokes(r)
      PROVE  RevokedUnlessRaced'
  BY <1>3, RevokedLeavesRaced
<1>4. ASSUME NEW r \in Requests, Logout(r)
      PROVE  RevokedUnlessRaced'
  BY <1>4, LogoutStep
<1> QED  BY <1>1, <1>2, <1>3, <1>4, NextSplits

\* So is the one made for an account deactivated since.
LEMMA InactiveKept ==
    ASSUME IInv, Next
    PROVE  InactiveUnlessRaced'
<1> USE DEF IInv, InactiveUnlessRaced
<1>1. CASE Quiet
  BY <1>1, QuietStep
<1>2. ASSUME NEW r \in Requests, Issues(r), ~Active(account')
      PROVE  usable' \subseteq raced'
  <2>1. Issuing(r) /\ ~Active(account)  BY <1>2, IssueStep
  <2>2. request[r].old  BY <2>1 DEF Marked
  <2>3. PICK revokes : Issue(r, revokes)  BY <1>2, IssueStep
  <2> QED  BY <2>1, <2>2, <2>3 DEF Issue
<1>3. ASSUME NEW r \in Requests, Revokes(r)
      PROVE  InactiveUnlessRaced'
  BY <1>3, RevokedLeavesRaced
<1>4. ASSUME NEW r \in Requests, Logout(r)
      PROVE  InactiveUnlessRaced'
  BY <1>4, LogoutStep
<1> QED  BY <1>1, <1>2, <1>3, <1>4, NextSplits

-----------------------------------------------------------------------------
(* The successors of a session.                                            *)

\* A new session is the successor of the one presented, and of no other.
LEMMA NewChild ==
    ASSUME IInv, NEW r \in Requests, Issues(r)
    PROVE  /\ Rows' = Rows \cup {made + 1} /\ made + 1 \notin Rows
           /\ forked \subseteq forked'
           /\ \A t \in Rows' : \/ t \in Rows /\ parent'[t] = parent[t]
                               \/ t = made + 1 /\ parent'[t] = request[r].session
           /\ request[r].session \in {0} \cup Rows
           /\ request[r].session # 0 => Refreshing(r)
           /\ Refreshing(r) => request[r].session \notin usable'
           /\ usable' \subseteq usable \cup {made + 1}
<1> USE DEF IInv
<1>1. Issuing(r) /\ request[r] # Idle  BY IssueStep DEF Issuing, InFlightNow
<1>2. PICK revokes : Issue(r, revokes) /\ (Refreshing(r) => request[r].session \in revokes)
  BY IssueStep
<1>3. /\ Rows' = Rows \cup {made + 1} /\ made + 1 \notin Rows
      /\ usable' = (usable \ revokes) \cup {made + 1}
      /\ parent'[made + 1] = request[r].session
      /\ \A t \in Rows : parent'[t] = parent[t]
  BY <1>1, <1>2, IssueFields
<1>4. /\ request[r].session \in {0} \cup Rows
      /\ request[r].session # 0 => Refreshing(r)
      /\ Refreshing(r) => request[r].session \in Rows
  BY <1>1 DEF Issuing, Ordered, Refreshing, InFlightNow, Presents
<1>5. forked \subseteq forked'  BY <1>2 DEF Issue
<1> QED  BY <1>2, <1>3, <1>4, <1>5

\* A session has no successor after the step if it had none before, and is
\* not the one presented.
LEMMA StaysChildless ==
    ASSUME IInv, NEW r \in Requests, Issues(r), NEW p, p # request[r].session, Childless(p)
    PROVE  Childless(p)'
BY NewChild DEF Childless

LEMMA UnspentKept ==
    ASSUME IInv, Next
    PROVE  Unspent'
<1> USE DEF IInv
<1>1. ASSUME NEW p \in usable'
      PROVE  Childless(p)'
  <2>1. CASE UNCHANGED <<made, parent, forked>> /\ usable' \subseteq usable
    BY <2>1 DEF Unspent, Childless, Rows
  <2>2. ASSUME NEW r \in Requests, Issues(r)
        PROVE  Childless(p)'
    <3>1. CASE p = made + 1
      <4>1. \A t \in Rows : parent[t] # made + 1
        BY DEF Ordered, TypeOK, Rows
      <4>2. request[r].session # made + 1
        BY <2>2, NewChild DEF TypeOK, Rows
      <4> QED  BY <2>2, <3>1, <4>1, <4>2, NewChild DEF Childless
    <3>2. CASE p # made + 1
      <4>1. p \in usable /\ (Refreshing(r) => p # request[r].session)
        BY <2>2, <3>2, NewChild
      <4>2. p # 0  BY <4>1, AuthAssumption DEF TypeOK, Rows
      <4>3. p # request[r].session  BY <2>2, <4>1, <4>2, NewChild
      <4> QED  BY <2>2, <4>1, <4>3, StaysChildless DEF Unspent
    <3> QED  BY <3>1, <3>2
  <2> QED  BY <2>1, <2>2, NextSplits, QuietStep, RevokeStep, LogoutStep
<1> DEFINE Hence(p) == p \in forked' \/ \A t \in Rows' : parent'[t] # p
<1>2. ASSUME NEW o \in Requests, Refreshing(o)'
      PROVE  Hence(request'[o].session)
  <2>1. InFlightNow(o)'  BY <1>2 DEF Refreshing, InFlightNow
  <2>2. CASE Loaded(o)
    <3>1. PICK kind \in Kinds, s \in 0 .. MaxSessions : Load(o, kind, s)  BY <2>2 DEF Loaded
    <3>2. request'[o].kind = kind /\ request'[o].session = s  BY <3>1, LoadFields
    <3>3. Admitted(kind, s) /\ usable' = usable  BY <3>1 DEF Load
    <3>4. s \in usable'  BY <1>2, <3>2, <3>3, AdmittedSession DEF Refreshing
    <3> QED  BY <1>1, <3>2, <3>4 DEF Childless
  <2>3. CASE Continues(o)
    <3>1. Refreshing(o) /\ request'[o].session = request[o].session
      BY <1>2, <2>3 DEF Refreshing, Continues, InFlightNow
    <3>2. Childless(request[o].session)  BY <3>1 DEF Unspent
    <3>3. CASE UNCHANGED <<made, parent, forked>>
      BY <3>1, <3>2, <3>3 DEF Childless, Rows
    <3>4. ASSUME NEW r \in Requests, Issues(r)
          PROVE  Hence(request'[o].session)
      <4>1. r # o  BY <2>1, <3>4, IssueStep DEF Over, InFlightNow
      <4>2. CASE request[o].session = request[r].session
        <5>1. PICK revokes : Issue(r, revokes)  BY <3>4, IssueStep
        <5>2. request[o].session \in forked'
          BY <3>1, <4>1, <4>2, <5>1 DEF Issue
        <5> QED  BY <3>1, <5>2
      <4>3. CASE request[o].session # request[r].session
        BY <3>1, <3>2, <3>4, <4>3, NewChild DEF Childless
      <4> QED  BY <4>2, <4>3
    <3> QED  BY <3>1, <3>3, <3>4, NextSplits, QuietStep, RevokeStep, LogoutStep
  <2> QED  BY <2>1, <2>2, <2>3, Continuing
<1> QED  BY <1>1, <1>2 DEF Unspent, Childless

LEMMA SuccessorKept ==
    ASSUME IInv, Next
    PROVE  OneSuccessorUnlessForked'
<1> USE DEF IInv, OneSuccessorUnlessForked
<1>1. CASE UNCHANGED <<made, parent, forked>>
  BY <1>1 DEF Rows
<1>2. ASSUME NEW r \in Requests, Issues(r), NEW s \in Rows' \ forked',
             NEW t \in Rows', NEW u \in Rows', parent'[t] = s, parent'[u] = s
      PROVE  t = u
  <2>1. s # 0 /\ s \notin forked
    BY <1>2, NewChild, AuthAssumption DEF TypeOK, Rows
  <2>2. CASE t = made + 1 \/ u = made + 1
    <3>1. s = request[r].session  BY <1>2, <2>2, NewChild
    <3>2. Refreshing(r)  BY <1>2, <2>1, <3>1, NewChild
    <3>3. \A w \in Rows : parent[w] # s  BY <2>1, <3>1, <3>2 DEF Unspent, Childless
    <3> QED  BY <1>2, <3>3, NewChild
  <2>3. CASE t \in Rows /\ u \in Rows
    <3>1. parent[t] = s /\ parent[u] = s  BY <1>2, <2>3, NewChild
    <3>2. s \in Rows
      BY <2>1, <2>3, <3>1 DEF Ordered, TypeOK, Rows, Sessions
    <3> QED  BY <2>1, <2>3, <3>1, <3>2
  <2> QED  BY <1>2, <2>2, <2>3, NewChild
<1> QED  BY <1>1, <1>2, NextSplits, QuietStep, RevokeStep, LogoutStep

-----------------------------------------------------------------------------
(* The counter of wrong passwords.                                         *)

\* Whether the lock was ever set: what a request that is not stale knows.
SameCounter == /\ account'.failed = account.failed
               /\ account'.locked = "none" <=> account.locked = "none"

\* The steps that write the counter.
Counts(r) == Login(r) \/ WrongPassword(r) \/ ResetPassword(r) \/ Reactivate(r)

LEMMA CounterStep ==
    ASSUME TypeOK, Next
    PROVE  \/ SameCounter /\ UNCHANGED <<wrong, mixed>>
           \/ \E r \in Requests : Counts(r)
<1> DEFINE Claim == SameCounter /\ UNCHANGED <<wrong, mixed>>
<1>1. CASE Loads
  BY <1>1 DEF Loads, Load, SameCounter
<1>2. ASSUME NEW r \in Requests,
             Select(r) \/ Abort(r) \/ Refresh(r) \/ RefreshRotation(r) \/ Logout(r)
             \/ LogoutAll(r) \/ ChangePassword(r)
      PROVE  Claim
  BY <1>2 DEF Select, Abort, Refresh, RefreshRotation, Logout, LogoutAll, ChangePassword,
              SameCounter
<1>3. ASSUME NEW r \in Requests, Deactivate(r)
      PROVE  Claim
  BY <1>3 DEF Deactivate, SameCounter, TypeOK, Account
<1>4. CASE LockPasses
  BY <1>4 DEF LockPasses, SameCounter, TypeOK, Account
<1> QED  BY <1>1, <1>2, <1>3, <1>4 DEF Next, Loads, Counts

\* Every other request in flight is told that the counter was written.
LEMMA CountsMarks ==
    ASSUME TypeOK, NEW r \in Requests, Counts(r), NEW o \in Requests, InFlightNow(o)'
    PROVE  request'[o].stale
<1>1. \E old \in BOOLEAN : Answered(r, old, TRUE)
  BY DEF Counts, Login, WrongPassword, ResetPassword, Reactivate
<1> QED  BY <1>1, AnsweredFields

LEMMA KnownKept ==
    ASSUME IInv, Next
    PROVE  Known'
<1> USE DEF IInv
<1>1. ASSUME NEW o \in Requests, InFlightNow(o)', ~request'[o].stale
      PROVE  /\ request'[o].acc.failed = account'.failed
             /\ request'[o].acc.locked = "none" <=> account'.locked = "none"
  <2>1. SameCounter  BY <1>1, CounterStep, CountsMarks
  <2>2. CASE Loaded(o)
    <3>1. PICK kind \in Kinds, s \in 0 .. MaxSessions : Load(o, kind, s)  BY <2>2 DEF Loaded
    <3>2. request'[o].acc = account  BY <3>1, LoadFields
    <3> QED  BY <2>1, <3>2 DEF SameCounter
  <2>3. CASE Continues(o)
    BY <1>1, <2>1, <2>3 DEF Continues, Known, SameCounter
  <2> QED  BY <1>1, <2>2, <2>3, Continuing
<1> QED  BY <1>1 DEF Known, InFlightNow

\* A success by a request that knows the counter leaves no wrong password and no lock.
LEMMA SuccessClears ==
    ASSUME IInv, NEW r \in Requests, InFlightNow(r), ~request[r].stale
    PROVE  /\ RecordSuccessfulLogin(r).failed = 0
           /\ RecordSuccessfulLogin(r).locked = "none"
<1>1. /\ request[r].acc.failed = account.failed
      /\ request[r].acc.locked = "none" <=> account.locked = "none"
  BY DEF IInv, Known
<1>2. Written(r, "failed", 0) = 0 /\ Written(r, "locked", "none") = "none"
  BY <1>1 DEF Written
<1> QED  BY <1>2 DEF RecordSuccessfulLogin, IInv, TypeOK, Account

LEMMA AttemptsKept ==
    ASSUME IInv, Next
    PROVE  AttemptsAddUpUnlessMixed'
<1> USE DEF IInv, AttemptsAddUpUnlessMixed
<1>1. CASE SameCounter /\ UNCHANGED <<wrong, mixed>>
  BY <1>1 DEF SameCounter
<1>2. ASSUME NEW r \in Requests, WrongPassword(r), ~mixed'
      PROVE  /\ account'.failed = wrong'
             /\ account'.locked # "none" <=> wrong' >= MaxFailed
  <2>1. InFlightNow(r)  BY <1>2, EndsInFlight DEF WrongPassword, InFlightNow
  <2>2. ~mixed /\ ~request[r].stale /\ wrong' = wrong + 1
    BY <1>2 DEF WrongPassword
  <2>3. /\ request[r].acc.failed = wrong
        /\ account.locked # "none" <=> wrong >= MaxFailed
    BY <2>1, <2>2 DEF Known
  <2>4. /\ account'.failed = wrong + 1
        /\ account'.locked = IF wrong + 1 >= MaxFailed THEN "until" ELSE account.locked
    BY <1>2, <2>3 DEF WrongPassword, RecordFailedAttempt, TypeOK, Account
  <2> QED  BY <2>2, <2>3, <2>4, AuthAssumption DEF TypeOK
<1>3. ASSUME NEW r \in Requests, Login(r) \/ ResetPassword(r) \/ Reactivate(r), ~mixed'
      PROVE  /\ account'.failed = wrong'
             /\ account'.locked # "none" <=> wrong' >= MaxFailed
  <2>1. InFlightNow(r)
    BY <1>3, EndsInFlight DEF Login, ResetPassword, Reactivate, InFlightNow
  <2>2. ~request[r].stale /\ wrong' = 0
    BY <1>3 DEF Login, ResetPassword, Reactivate, Succeeded
  <2>3. /\ RecordSuccessfulLogin(r).failed = 0
        /\ RecordSuccessfulLogin(r).locked = "none"
    BY <2>1, <2>2, SuccessClears
  <2>4. /\ account'.failed = RecordSuccessfulLogin(r).failed
        /\ account'.locked = RecordSuccessfulLogin(r).locked
    BY <1>3 DEF Login, ResetPassword, Reactivate, RecordSuccessfulLogin, TypeOK, Account
  <2> QED  BY <2>2, <2>3, <2>4, AuthAssumption
<1> QED  BY <1>1, <1>2, <1>3, CounterStep DEF Counts

-----------------------------------------------------------------------------
(* The invariant, and the theorems.                                        *)

LEMMA InitHolds == Init => IInv
<1> SUFFICES ASSUME Init PROVE IInv  OBVIOUS
<1> USE AuthAssumption DEF Init
<1>1. TypeOK
  <2>1. account \in Account  BY DEF Account
  <2>2. request \in [Requests -> {Idle} \cup InFlight]  OBVIOUS
  <2>3. made \in 0 .. MaxSessions /\ started \in 0 .. MaxStarts /\ wrong \in Nat  OBVIOUS
  <2>4. parent \in [Sessions -> 0 .. MaxSessions]  BY DEF Sessions
  <2>5. /\ usable = {} /\ before = {} /\ raced = {} /\ forked = {} /\ mixed = FALSE
    OBVIOUS
  <2> QED  BY <2>1, <2>2, <2>3, <2>4, <2>5 DEF TypeOK
<1>2. \A r \in Requests : ~InFlightNow(r) /\ ~Selected(r) /\ ~Refreshing(r) /\ ~Issuing(r)
  BY DEF InFlightNow, Selected, Refreshing, Issuing, Idle
<1>3. Ordered /\ Swept /\ Marked /\ Unspent /\ Known
  BY <1>2 DEF Ordered, Swept, Marked, Unspent, Known, Rows
<1>4. /\ RevokedUnlessRaced /\ InactiveUnlessRaced
      /\ OneSuccessorUnlessForked /\ AttemptsAddUpUnlessMixed
  BY DEF RevokedUnlessRaced, InactiveUnlessRaced, OneSuccessorUnlessForked,
         AttemptsAddUpUnlessMixed, Rows
<1> QED  BY <1>1, <1>3, <1>4 DEF IInv

LEMMA StutterKept == IInv /\ UNCHANGED vars => IInv'
<1> SUFFICES ASSUME IInv, UNCHANGED vars PROVE IInv'  OBVIOUS
<1> USE DEF IInv, vars
<1>1. TypeOK'  BY DEF TypeOK, Rows
<1>2. Ordered'  BY DEF Ordered, Rows, Refreshing, InFlightNow
<1>3. Swept'  BY DEF Swept, Selected
<1>4. Marked'  BY DEF Marked, Refreshing, Issuing, InFlightNow, Active
<1>5. Unspent'  BY DEF Unspent, Childless, Refreshing, Rows
<1>6. Known'  BY DEF Known, InFlightNow
<1>7. RevokedUnlessRaced' /\ InactiveUnlessRaced'
  BY DEF RevokedUnlessRaced, InactiveUnlessRaced, Active
<1>8. OneSuccessorUnlessForked'  BY DEF OneSuccessorUnlessForked, Rows
<1>9. AttemptsAddUpUnlessMixed'  BY DEF AttemptsAddUpUnlessMixed
<1> QED  BY <1>1, <1>2, <1>3, <1>4, <1>5, <1>6, <1>7, <1>8, <1>9

LEMMA Inductive == Spec => []IInv
<1>1. ASSUME IInv, Next
      PROVE  IInv'
  <2>1. TypeOK /\ Ordered  BY <1>1 DEF IInv
  <2>2. TypeOK'  BY <1>1, <2>1, TypesKept
  <2> QED  BY <1>1, <2>2, OrderedKept, SweptKept, MarkedKept, UnspentKept, KnownKept,
              RevokedKept, InactiveKept, SuccessorKept, AttemptsKept DEF IInv
<1>2. IInv /\ [Next]_vars => IInv'  BY <1>1, StutterKept
<1> QED  BY <1>2, InitHolds, PTL DEF Spec

\* The rows, the requests and the history keep their types: no session is
\* usable that is not in the table.
THEOREM TypeCorrect == Spec => []TypeOK
<1>1. IInv => TypeOK  BY DEF IInv
<1> QED  BY <1>1, Inductive, PTL

\* Whatever sign-ins, refreshes, rotations and revocations are interleaved, a
\* session that goes back to before a revocation is unusable, unless a request
\* of its chain overlapped the revocation.
THEOREM RevokedStaysRevoked == Spec => []RevokedUnlessRaced
<1>1. IInv => RevokedUnlessRaced  BY DEF IInv
<1> QED  BY <1>1, Inductive, PTL

\* An account that is not active has no usable session, with the same exception.
THEOREM InactiveHasNone == Spec => []InactiveUnlessRaced
<1>1. IInv => InactiveUnlessRaced  BY DEF IInv
<1> QED  BY <1>1, Inductive, PTL

\* A refresh token is good for one refresh, unless two were in flight at once.
THEOREM RotatesOnce == Spec => []OneSuccessorUnlessForked
<1>1. IInv => OneSuccessorUnlessForked  BY DEF IInv
<1> QED  BY <1>1, Inductive, PTL

\* The counter of wrong passwords and the lock are right, unless the last to
\* write the counter had loaded it before another wrote it.
THEOREM AttemptsAddUp == Spec => []AttemptsAddUpUnlessMixed
<1>1. IInv => AttemptsAddUpUnlessMixed  BY DEF IInv
<1> QED  BY <1>1, Inductive, PTL

-----------------------------------------------------------------------------
(* One request at a time: nothing is excepted.                             *)

OneAtATime == \A r, o \in Requests : r = o

\* No request is marked, and so no session and not the counter.
Unmarked ==
    /\ raced = {} /\ forked = {} /\ mixed = FALSE
    /\ \A r \in Requests : InFlightNow(r) => ~request[r].old /\ ~request[r].stale

LEMMA InitUnmarked == Init => Unmarked
BY DEF Init, Unmarked, InFlightNow

\* A commit ends the only request there is.
LEMMA UnmarkedAnswered ==
    ASSUME OneAtATime, NEW r \in Requests, NEW old, NEW stale, Answered(r, old, stale)
    PROVE  \A o \in Requests : ~InFlightNow(o)'
BY DEF OneAtATime, Answered, InFlightNow

LEMMA UnmarkedIssued ==
    ASSUME OneAtATime, Unmarked, NEW r \in Requests, InFlightNow(r), NEW revokes, Issue(r, revokes)
    PROVE  raced' = {} /\ forked' = {}
<1>1. ~Overlapped(r)  BY DEF OneAtATime, Overlapped
<1>2. ~request[r].old /\ request[r].session \notin raced  BY DEF Unmarked
<1>3. ~\E o \in Requests \ {r} : Refreshing(o) /\ request[o].session = request[r].session
  BY DEF OneAtATime
<1> QED  BY <1>1, <1>2, <1>3 DEF Issue, Unmarked

LEMMA UnmarkedNext ==
    ASSUME OneAtATime
    PROVE  TypeOK /\ Unmarked /\ [Next]_vars => Unmarked'
<1> SUFFICES ASSUME TypeOK, Unmarked, [Next]_vars PROVE Unmarked'
  OBVIOUS
<1>1. ASSUME NEW r \in Requests, NEW kind \in Kinds, NEW s \in 0 .. MaxSessions,
             Load(r, kind, s)
      PROVE  Unmarked'
  <2>1. \A o \in Requests \ {r} : request'[o] = request[o]
    BY <1>1, LoadFields
  <2>2. request'[r] = [phase |-> "loaded", kind |-> kind, acc |-> account, session |-> s,
                       seen |-> {}, old |-> FALSE, stale |-> FALSE]
    BY <1>1 DEF Load, TypeOK
  <2>3. ~request'[r].old /\ ~request'[r].stale
    BY <2>2
  <2> QED  BY <1>1, <2>1, <2>3 DEF Load, Unmarked, InFlightNow
<1>2. ASSUME NEW r \in Requests, Select(r) PROVE Unmarked'
  <2>1. request[r] \in InFlight /\ InFlightNow(r)
    BY <1>2, PhaseInFlight, RequestTypes DEF Select, InFlightNow
  <2>2. /\ request'[r].old = request[r].old /\ request'[r].stale = request[r].stale
        /\ \A o \in Requests \ {r} : request'[o] = request[o]
    BY <1>2, <2>1 DEF Select, TypeOK, InFlight
  <2> QED  BY <1>2, <2>1, <2>2 DEF Select, Unmarked, InFlightNow
<1>3. ASSUME NEW r \in Requests, Abort(r) PROVE Unmarked'
  <2>1. \A o \in Requests : request'[o] = IF o = r THEN Idle ELSE request[o]
    BY <1>3 DEF Abort, TypeOK
  <2> QED  BY <1>3, <2>1 DEF Abort, Unmarked, InFlightNow
<1>4. ASSUME NEW r \in Requests,
             \/ Login(r) \/ WrongPassword(r) \/ Refresh(r) \/ RefreshRotation(r)
             \/ Logout(r) \/ LogoutAll(r) \/ ResetPassword(r)
             \/ Deactivate(r) \/ Reactivate(r) \/ ChangePassword(r)
      PROVE  Unmarked'
  <2>1. InFlightNow(r)
    BY <1>4, PhaseInFlight DEF InFlightNow, Ends, Selects, Login, WrongPassword, Refresh,
       RefreshRotation, Logout, LogoutAll, ResetPassword, Deactivate, Reactivate, ChangePassword
  <2>2. request[r].stale = FALSE
    BY <2>1, RequestTypes DEF Unmarked, InFlightNow
  <2>3. \A o \in Requests : ~InFlightNow(o)'
    BY <1>4, UnmarkedAnswered DEF Login, WrongPassword, Refresh, RefreshRotation, Logout,
       LogoutAll, ResetPassword, Deactivate, Reactivate, ChangePassword
  <2>4. raced' = {} /\ forked' = {}
    <3>1. CASE Login(r) \/ Refresh(r) \/ RefreshRotation(r)
      BY <2>1, <3>1, UnmarkedIssued DEF Login, Refresh, RefreshRotation
    <3>2. CASE WrongPassword(r) \/ Logout(r) \/ Reactivate(r)
      BY <3>2 DEF WrongPassword, Logout, Reactivate, Unmarked
    <3>3. CASE LogoutAll(r) \/ ResetPassword(r) \/ Deactivate(r) \/ ChangePassword(r)
      BY <3>3 DEF LogoutAll, ResetPassword, Deactivate, ChangePassword, RevokeAll, Unmarked
    <3> QED  BY <1>4, <3>1, <3>2, <3>3
  <2>5. mixed' = FALSE
    <3>1. CASE Login(r) \/ ResetPassword(r) \/ Reactivate(r)
      BY <2>2, <3>1 DEF Succeeded, Login, ResetPassword, Reactivate
    <3>2. CASE WrongPassword(r)
      <4>1. mixed' = (mixed \/ request[r].stale)
        BY <3>2 DEF WrongPassword
      <4> QED  BY <2>2, <4>1 DEF Unmarked
    <3>3. CASE \/ Refresh(r) \/ RefreshRotation(r) \/ Logout(r) \/ LogoutAll(r)
               \/ Deactivate(r) \/ ChangePassword(r)
      BY <3>3 DEF Unmarked, Refresh, RefreshRotation, Logout, LogoutAll, Deactivate, ChangePassword
    <3> QED  BY <1>4, <3>1, <3>2, <3>3
  <2> QED  BY <2>3, <2>4, <2>5 DEF Unmarked
<1>5. CASE LockPasses \/ UNCHANGED vars
  BY <1>5 DEF LockPasses, vars, Unmarked, InFlightNow
<1> QED  BY <1>1, <1>2, <1>3, <1>4, <1>5 DEF Next

\* What the comments promise without exception: a revocation leaves nothing
\* usable, an inactive account has no session, a session is refreshed once,
\* and the lock comes with the last wrong password allowed.
Promised ==
    /\ usable \cap before = {}
    /\ ~Active(account) => usable = {}
    /\ \A s, t, u \in Rows : parent[t] = s /\ parent[u] = s => t = u
    /\ account.failed = wrong
    /\ account.locked # "none" <=> wrong >= MaxFailed

\* Where requests come one after the other, the promises hold as they stand:
\* it takes two that overlap to break one.
THEOREM SerialKeepsPromises ==
    ASSUME OneAtATime
    PROVE  Spec => []Promised
<1>1. TypeOK /\ Unmarked /\ [Next]_vars => Unmarked'
  BY UnmarkedNext
<1>2. /\ Unmarked /\ RevokedUnlessRaced /\ InactiveUnlessRaced
      /\ OneSuccessorUnlessForked /\ AttemptsAddUpUnlessMixed
      => Promised
  BY DEF Unmarked, Promised, RevokedUnlessRaced, InactiveUnlessRaced,
     OneSuccessorUnlessForked, AttemptsAddUpUnlessMixed
<1> QED
  BY <1>1, <1>2, InitUnmarked, TypeCorrect, RevokedStaysRevoked, InactiveHasNone, RotatesOnce,
     AttemptsAddUp, PTL DEF Spec
=============================================================================
