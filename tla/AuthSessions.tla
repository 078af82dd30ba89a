---------------------------- MODULE AuthSessions ----------------------------
(***************************************************************************)
(* One user's account and the sessions of the authentication service       *)
(* (src/backend/apps/auth_service/main.py): signing in, refreshing the     *)
(* pair of tokens, signing out, and the operations that revoke every       *)
(* session of the user.                                                    *)
(*                                                                         *)
(* A request is two steps, or three: it loads its rows, it may write some  *)
(* of them and select the sessions it is going to revoke, and it commits.  *)
(* Between two steps others commit (PostgreSQL, READ COMMITTED): a request *)
(* goes on with the rows it has loaded, and a row it has written is locked *)
(* until it ends.  A request that is refused changes nothing and is left   *)
(* out.  Two-factor sign-in is not modelled, and no session expires.       *)
(***************************************************************************)
EXTENDS Naturals, FiniteSets

CONSTANTS Requests,    \* slots for the requests in flight
          MaxFailed,   \* settings.AUTH_MAX_FAILED_ATTEMPTS
          MaxSessions, \* bound on the rows of the table sessions
          MaxStarts    \* bound on the requests

ASSUME AuthAssumption ==
    MaxFailed \in Nat \ {0} /\ MaxSessions \in Nat \ {0} /\ MaxStarts \in Nat

VARIABLES
    account,  \* the row of users
    made,     \* rows of sessions, numbered in the order of their commits
    usable,   \* those with revoked_at IS NULL
    parent,   \* history: the session a session was made from, 0 for a sign-in
    request,
    started,  \* how many requests were started
    before,   \* history: sessions that go back to a sign-in begun before the
              \* last time every session was revoked
    raced,    \* history: those of a request that overlapped a revocation, and
              \* what was refreshed from them
    forked,   \* history: sessions two refreshes were in flight for
    wrong,    \* history: wrong passwords since the last success
    mixed     \* history: the last word on the counter came from a request that
              \* had loaded it before another wrote it

vars == <<account, made, usable, parent, request, started, before, raced, forked, wrong, mixed>>

Sessions == 1 .. MaxSessions
Rows == 1 .. made

AccountRow == 0  \* the name of the lock on the row of users

Account == [active : BOOLEAN, deactivated : BOOLEAN, failed : Nat,
            locked : {"none", "until", "past"}]  \* locked_until: NULL, ahead, or behind

Kinds == {"login", "wrong", "refresh", "rotate", "logout", "logoutAll", "reset",
          "deactivate", "reactivate", "change"}

Idle == [phase |-> "idle"]

InFlight == [phase : {"loaded", "selected"}, kind : Kinds, acc : Account,
             session : 0 .. MaxSessions,
             seen : SUBSET Sessions,  \* the sessions it selected
             old : BOOLEAN,           \* history: every session was revoked since it loaded
             stale : BOOLEAN]         \* history: the counter was written since it loaded

TypeOK ==
    /\ account \in Account
    /\ made \in 0 .. MaxSessions
    /\ usable \subseteq Rows
    /\ parent \in [Sessions -> 0 .. MaxSessions]
    /\ request \in [Requests -> {Idle} \cup InFlight]
    /\ started \in 0 .. MaxStarts
    /\ before \subseteq Rows
    /\ raced \subseteq Rows
    /\ forked \subseteq Rows
    /\ wrong \in Nat
    /\ mixed \in BOOLEAN

Init ==
    /\ account = [active |-> TRUE, deactivated |-> FALSE, failed |-> 0, locked |-> "none"]
    /\ made = 0
    /\ usable = {}
    /\ parent = [s \in Sessions |-> 0]
    /\ request = [r \in Requests |-> Idle]
    /\ started = 0
    /\ before = {}
    /\ raced = {}
    /\ forked = {}
    /\ wrong = 0
    /\ mixed = FALSE

-----------------------------------------------------------------------------
(* Loading.                                                                *)

Active(acc) == acc.active /\ ~acc.deactivated

IsAccountLocked(acc) == acc.locked = "until"

\* Mutant: the status of the account is not looked at.
SignInUnlessLocked == ~IsAccountLocked(account)

MaySignIn == ~IsAccountLocked(account) /\ Active(account)

\* Mutant: whether the session was revoked is not looked at.
MayRefreshRevoked(s) == s \in Rows /\ Active(account)

MayRefresh(s) == s \in usable /\ Active(account)

\* What a request of a kind that presents session s is let past, by the rows
\* it loads.  A wrong password is refused only once it has been counted, and
\* signing out takes a session that is revoked already, and signing out from
\* everywhere one that is not in the table.
Admitted(kind, s) ==
    \/ kind = "login" /\ s = 0 /\ MaySignIn
    \/ kind = "wrong" /\ s = 0 /\ ~IsAccountLocked(account)
    \/ kind \in {"refresh", "rotate"} /\ MayRefresh(s)
    \/ kind = "logout" /\ s \in Rows
    \/ kind = "logoutAll" /\ s \in {0} \cup Rows
    \/ kind \in {"reset", "deactivate", "change"} /\ s = 0
    \/ kind = "reactivate" /\ s = 0 /\ ~Active(account)

Load(r, kind, s) ==
    /\ request[r] = Idle
    /\ started < MaxStarts
    /\ Admitted(kind, s)
    /\ started' = started + 1
    /\ request' = [request EXCEPT ![r] =
          [phase |-> "loaded", kind |-> kind, acc |-> account, session |-> s,
           seen |-> {}, old |-> FALSE, stale |-> FALSE]]
    /\ UNCHANGED <<account, made, usable, parent, before, raced, forked, wrong, mixed>>

-----------------------------------------------------------------------------
(* Locks, and the selection of the sessions to revoke.                     *)

Selects == {"rotate", "logoutAll", "reset", "deactivate", "change"}

Selected(r) == request[r].phase = "selected"

\* The rows a request has written when it selects: SQLAlchemy flushes them
\* ahead of the query.  The selection of change_password is the snapshot of
\* its UPDATE, which takes its locks one by one after that; a commit that comes
\* between is one it waited for.
Flushed(q) ==
    CASE q.kind \in {"rotate", "logoutAll"} -> {q.session} \cap Rows
      [] q.kind \in {"reset", "deactivate"} -> {AccountRow}
      [] q.kind = "change"                  -> {}

Locked(r) == IF Selected(r) THEN Flushed(request[r]) ELSE {}

Free(r, rows) == \A o \in Requests \ {r} : Locked(o) \cap rows = {}

Select(r) ==
    LET q == request[r]
    IN  /\ q.phase = "loaded" /\ q.kind \in Selects
        /\ Free(r, Flushed(q))
        /\ request' = [request EXCEPT ![r].phase = "selected",
                                      ![r].seen = usable \ {q.session}]
        /\ UNCHANGED <<account, made, usable, parent, started, before, raced, forked, wrong,
                       mixed>>

\* Its last statement, and everything it has yet to write.
Ends(r, kind, rows) ==
    LET q == request[r]
    IN  /\ q.phase = IF kind \in Selects THEN "selected" ELSE "loaded"
        /\ q.kind = kind
        /\ Free(r, rows)

\* The database or the connection fails, or PostgreSQL ends a deadlock.
Abort(r) ==
    /\ request[r] # Idle
    /\ request' = [request EXCEPT ![r] = Idle]
    /\ UNCHANGED <<account, made, usable, parent, started, before, raced, forked, wrong, mixed>>

-----------------------------------------------------------------------------
(* What a commit does to the sessions.                                     *)

RevokesAll == {"logoutAll", "reset", "deactivate", "change"}

Overlapped(r) == \E v \in Requests \ {r} : Selected(v) /\ request[v].kind \in RevokesAll

Refreshing(o) == request[o] # Idle /\ request[o].kind \in {"refresh", "rotate"}

\* Mutant: the new session is not added.
IssueUnsaved(r, revokes) ==
    /\ made < MaxSessions
    /\ usable' = (usable \ revokes) \cup {made + 1}
    /\ UNCHANGED <<made, parent, before, raced, forked>>

\* Revokes the sessions of a set and adds one, made from the session presented.
Issue(r, revokes) ==
    LET q == request[r]
        s == made + 1
    IN  /\ made < MaxSessions
        /\ made' = s
        /\ usable' = (usable \ revokes) \cup {s}
        /\ parent' = [parent EXCEPT ![s] = q.session]
        /\ before' = IF q.old \/ q.session \in before THEN before \cup {s} ELSE before
        /\ raced' = IF q.old \/ q.session \in raced \/ Overlapped(r) THEN raced \cup {s} ELSE raced
        /\ forked' = IF \E o \in Requests \ {r} : Refreshing(o) /\ request[o].session = q.session
                     THEN forked \cup {q.session} ELSE forked

\* Revokes the sessions of a set, which was every one when it was selected.
RevokeAll(revokes) ==
    /\ usable' = usable \ revokes
    /\ before' = Rows
    /\ UNCHANGED <<made, parent, raced, forked>>

\* r is over; old and stale say what its commit is to those in flight.
Answered(r, old, stale) ==
    request' = [o \in Requests |->
        IF o = r \/ request[o] = Idle THEN Idle
        ELSE [request[o] EXCEPT !.old = @ \/ old, !.stale = @ \/ stale]]

-----------------------------------------------------------------------------
(* What a commit does to the account.                                      *)

\* SQLAlchemy writes the columns that differ from what was loaded, and no other.
Written(r, column, value) == IF request[r].acc[column] = value THEN account[column] ELSE value

\* Mutant: the lock is left as it is.
ClearAttempts(r) == [account EXCEPT !.failed = Written(r, "failed", 0)]

RecordSuccessfulLogin(r) ==
    [account EXCEPT !.failed = Written(r, "failed", 0), !.locked = Written(r, "locked", "none")]

RecordFailedAttempt(r) ==
    LET n == request[r].acc.failed + 1
    IN  [account EXCEPT !.failed = n, !.locked = IF n >= MaxFailed THEN "until" ELSE @]

Succeeded(r) == wrong' = 0 /\ mixed' = request[r].stale

-----------------------------------------------------------------------------
(* The commits, one for each handler.                                      *)

Login(r) ==
    /\ Ends(r, "login", {AccountRow})
    /\ account' = RecordSuccessfulLogin(r)
    /\ Issue(r, {})
    /\ Succeeded(r)
    /\ Answered(r, FALSE, TRUE)
    /\ started' = started

WrongPassword(r) ==
    /\ Ends(r, "wrong", {AccountRow})
    /\ account' = RecordFailedAttempt(r)
    /\ wrong' = wrong + 1
    /\ mixed' = (mixed \/ request[r].stale)
    /\ Answered(r, FALSE, TRUE)
    /\ UNCHANGED <<made, usable, parent, started, before, raced, forked>>

\* Mutant: the old session is not revoked.
RefreshOnTop(r) ==
    /\ Ends(r, "refresh", {request[r].session})
    /\ Issue(r, {})
    /\ Answered(r, FALSE, FALSE)
    /\ UNCHANGED <<account, started, wrong, mixed>>

Refresh(r) ==
    /\ Ends(r, "refresh", {request[r].session})
    /\ Issue(r, {request[r].session})
    /\ Answered(r, FALSE, FALSE)
    /\ UNCHANGED <<account, started, wrong, mixed>>

\* refresh_rotation with revoke_other_sessions; without, it is Refresh.
RefreshRotation(r) ==
    /\ Ends(r, "rotate", request[r].seen)
    /\ Issue(r, request[r].seen \cup {request[r].session})
    /\ Answered(r, FALSE, FALSE)
    /\ UNCHANGED <<account, started, wrong, mixed>>

Logout(r) ==
    /\ Ends(r, "logout", {request[r].session})
    /\ usable' = usable \ {request[r].session}
    /\ Answered(r, FALSE, FALSE)
    /\ UNCHANGED <<account, made, parent, started, before, raced, forked, wrong, mixed>>

LogoutAll(r) ==
    /\ Ends(r, "logoutAll", request[r].seen)
    /\ RevokeAll(request[r].seen \cup {request[r].session})
    /\ Answered(r, TRUE, FALSE)
    /\ UNCHANGED <<account, started, wrong, mixed>>

ResetPassword(r) ==
    /\ Ends(r, "reset", request[r].seen)
    /\ account' = RecordSuccessfulLogin(r)
    /\ RevokeAll(request[r].seen)
    /\ Succeeded(r)
    /\ Answered(r, TRUE, TRUE)
    /\ started' = started

Deactivate(r) ==
    /\ Ends(r, "deactivate", request[r].seen)
    /\ account' = [account EXCEPT !.active = Written(r, "active", FALSE), !.deactivated = TRUE]
    /\ RevokeAll(request[r].seen)
    /\ Answered(r, TRUE, FALSE)
    /\ UNCHANGED <<started, wrong, mixed>>

Reactivate(r) ==
    /\ Ends(r, "reactivate", {AccountRow})
    /\ account' = [RecordSuccessfulLogin(r) EXCEPT
                      !.active = Written(r, "active", TRUE),
                      !.deactivated = Written(r, "deactivated", FALSE)]
    /\ Succeeded(r)
    /\ Answered(r, FALSE, TRUE)
    /\ UNCHANGED <<made, usable, parent, started, before, raced, forked>>

ChangePassword(r) ==
    /\ Ends(r, "change", {AccountRow} \cup request[r].seen)
    /\ RevokeAll(request[r].seen)
    /\ Answered(r, TRUE, FALSE)
    /\ UNCHANGED <<account, started, wrong, mixed>>

\* locked_until passes.
LockPasses ==
    /\ account.locked = "until"
    /\ account' = [account EXCEPT !.locked = "past"]
    /\ UNCHANGED <<made, usable, parent, request, started, before, raced, forked, wrong, mixed>>

-----------------------------------------------------------------------------

Next ==
    \/ \E r \in Requests :
          \/ \E kind \in Kinds, s \in 0 .. MaxSessions : Load(r, kind, s)
          \/ Select(r) \/ Abort(r)
          \/ Login(r) \/ WrongPassword(r) \/ Refresh(r) \/ RefreshRotation(r)
          \/ Logout(r) \/ LogoutAll(r) \/ ResetPassword(r)
          \/ Deactivate(r) \/ Reactivate(r) \/ ChangePassword(r)
    \/ LockPasses

Spec == Init /\ [][Next]_vars

-----------------------------------------------------------------------------
(* Properties.                                                             *)

\* "Revoke all existing sessions for safety": a session that goes back to a
\* sign-in begun before the last reset, change of password, deactivation or
\* sign-out from everywhere stays unusable, through any chain of refreshes;
\* unless the request that made one of the chain overlapped the revocation.
RevokedUnlessRaced == usable \cap before \subseteq raced

\* An account that is not active has no usable session, with the same
\* exception, however deactivations and reactivations interleave.
InactiveUnlessRaced == ~Active(account) => usable \subseteq raced

\* A session is refreshed once ("the old refresh token is invalidated"), unless
\* a second refresh of it was in flight when the first committed.
OneSuccessorUnlessForked ==
    \A s \in Rows \ forked : \A t, u \in Rows : parent[t] = s /\ parent[u] = s => t = u

\* The counter is the number of wrong passwords since the last success, and the
\* account has been locked exactly when they reached the limit; unless the
\* last to clear or to count had loaded the row before another wrote it.
AttemptsAddUpUnlessMixed ==
    ~mixed => /\ account.failed = wrong
              /\ account.locked # "none" <=> wrong >= MaxFailed

=============================================================================
