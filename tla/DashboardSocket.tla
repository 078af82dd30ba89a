-------------------------- MODULE DashboardSocket --------------------------
(***************************************************************************)
(* The dashboard's WebSocket client: one singleton per browser tab         *)
(* (src/frontend/src/services/websocket/client.ts), the hook that counts   *)
(* its consumers (hooks/use-websocket.ts) and the "reconnect" button of    *)
(* components/dashboard/connection-status.tsx.                             *)
(*                                                                         *)
(* JavaScript runs one task at a time, so an action is one task: a mount   *)
(* effect, a click, a timer, or an event of one of the sockets.  What the  *)
(* tasks interleave with is the browser: WebSocket.close() only asks, and  *)
(* the close event comes in a later task, when the client may already hold *)
(* another socket.  Every socket has the same handlers, and none of them   *)
(* asks which socket it is called for.                                     *)
(***************************************************************************)
EXTENDS Naturals

CONSTANTS Sockets,              \* WebSocket objects the browser can hold at once
          None,                 \* this.ws = null
          MaxReconnectAttempts, \* config.maxReconnectAttempts
          MaxConsumers          \* bound on the hooks mounted at the same time

ASSUME SocketAssumption ==
    /\ None \notin Sockets
    /\ MaxReconnectAttempts \in Nat
    /\ MaxConsumers \in Nat

VARIABLES client,   \* the fields of the WebSocketClient
          sock,     \* what the browser and the server know of each socket
          token,    \* localStorage holds the access token
          hurried   \* history: a mount or a click asked for a socket while the
                    \* close event of an earlier one was still to come

vars == <<client, sock, token, hurried>>

ClientStates == {"idle", "connecting", "open", "reconnecting", "closed", "error"}

\* "closed": not in use, or its close event has been delivered;
\* "silent": open for the browser, but the peer answers no more.
SocketStates == {"closed", "connecting", "open", "silent", "closing"}

InUse == {s \in Sockets : sock[s] # "closed"}

Live == {s \in Sockets : sock[s] \in {"connecting", "open", "silent"}}

Clients == [state : ClientStates,
            ws : Sockets \cup {None},
            explicitlyClosed : BOOLEAN,
            reconnectAttempts : 0 .. MaxReconnectAttempts,
            reconnectTimer : BOOLEAN,
            pingTimer : BOOLEAN,
            pongTimer : BOOLEAN,
            mountedRefCount : 0 .. MaxConsumers]

TypeOK ==
    /\ client \in Clients
    /\ sock \in [Sockets -> SocketStates]
    /\ token \in BOOLEAN
    /\ hurried \in BOOLEAN

Init ==
    /\ client = [state |-> "idle", ws |-> None, explicitlyClosed |-> FALSE,
                 reconnectAttempts |-> 0, reconnectTimer |-> FALSE,
                 pingTimer |-> FALSE, pongTimer |-> FALSE, mountedRefCount |-> 0]
    /\ sock = [s \in Sockets |-> "closed"]
    /\ token \in BOOLEAN
    /\ hurried = FALSE

-----------------------------------------------------------------------------
(* What the methods do to the fields of the client.                        *)

ClearReconnectTimer(c) == [c EXCEPT !.reconnectTimer = FALSE]

StopPing(c) == [c EXCEPT !.pingTimer = FALSE, !.pongTimer = FALSE]

\* Mutant: one attempt too many.
ScheduleOnceMore(c) ==
    IF c.reconnectAttempts > MaxReconnectAttempts
    THEN [c EXCEPT !.state = "error"]
    ELSE [c EXCEPT !.reconnectTimer = TRUE, !.state = "reconnecting",
                   !.reconnectAttempts = @ + 1]

\* Mutant: the old timer is cleared after the new one has been set.
ScheduleThenClear(c) ==
    IF c.explicitlyClosed \/ c.reconnectAttempts >= MaxReconnectAttempts
    THEN [c EXCEPT !.reconnectTimer = FALSE, !.state = "error"]
    ELSE [c EXCEPT !.reconnectTimer = FALSE, !.state = "reconnecting",
                   !.reconnectAttempts = @ + 1]

ScheduleReconnect(c) ==
    IF c.explicitlyClosed THEN ClearReconnectTimer(c)
    ELSE IF c.reconnectAttempts >= MaxReconnectAttempts
         THEN [c EXCEPT !.reconnectTimer = FALSE, !.state = "error"]
         ELSE [c EXCEPT !.reconnectTimer = TRUE, !.state = "reconnecting",
                        !.reconnectAttempts = @ + 1]

HandleConnectionFailure(c) ==
    IF ~c.explicitlyClosed /\ c.mountedRefCount > 0
    THEN ScheduleReconnect([c EXCEPT !.state = "error"])
    ELSE [c EXCEPT !.state = "error"]

\* onclose (the onerror of the same task only sets a state that onclose
\* overwrites): it forgets this.ws, whichever socket has closed.
HandleClose(c) ==
    LET closed == [StopPing(c) EXCEPT !.ws = None, !.state = "closed"]
    IN  IF c.explicitlyClosed THEN closed
        ELSE IF c.mountedRefCount > 0 THEN ScheduleReconnect(closed)
             ELSE [closed EXCEPT !.state = "idle"]

\* Mutant: only an open socket is closed, one still connecting is forgotten.
CloseOpenSocket(socks, w) ==
    IF w = None THEN socks
    ELSE [socks EXCEPT ![w] = IF @ \in {"open", "silent"} THEN "closing" ELSE @]

\* ws.close(): the browser starts closing; the event comes later.
CloseSocket(socks, w) ==
    IF w = None THEN socks
    ELSE [socks EXCEPT ![w] = IF @ = "closed" THEN @ ELSE "closing"]

\* Without a token nothing is opened.
NoToken(c, socks) ==
    /\ ~token
    /\ client' = [c EXCEPT !.state = "error"]
    /\ sock' = socks

\* openSocket: a new socket replaces this.ws, unless the constructor throws.
OpenSocket(c, socks) ==
    LET ready == StopPing(ClearReconnectTimer(c))
    IN  /\ token
        /\ \/ \E s \in Sockets :
                 /\ socks[s] = "closed"
                 /\ client' = [ready EXCEPT !.ws = s,
                                  !.state = IF c.reconnectAttempts > 0 THEN "reconnecting"
                                            ELSE "connecting"]
                 /\ sock' = [socks EXCEPT ![s] = "connecting"]
           \/ /\ client' = HandleConnectionFailure(ready)
              /\ sock' = socks

\* A user's connect needs a spare socket (the bound of the model), and is
\* noted as hurried if an earlier socket has not closed yet.
UserOpens(socks) ==
    /\ \E s \in Sockets : socks[s] = "closed"
    /\ hurried' = (hurried \/ \E s \in Sockets : socks[s] # "closed")

-----------------------------------------------------------------------------
(* What the components do.                                                 *)

\* The effect of useWebSocket finds the client at work and only counts itself in.
MountBesideOthers ==
    /\ client.mountedRefCount < MaxConsumers
    /\ client.state \notin {"idle", "closed", "error"}
    /\ client' = [client EXCEPT !.mountedRefCount = @ + 1]
    /\ UNCHANGED <<sock, token, hurried>>

\* The effect finds it idle, closed or failed, and calls connect(), which
\* keeps a socket that is open or connecting.
MountAndConnect ==
    LET acquired == [client EXCEPT !.mountedRefCount = @ + 1]
        resumed == [acquired EXCEPT !.explicitlyClosed = FALSE]
    IN  /\ client.mountedRefCount < MaxConsumers
        /\ client.state \in {"idle", "closed", "error"}
        /\ UNCHANGED token
        /\ IF client.ws \in Live
           THEN client' = acquired /\ UNCHANGED <<sock, hurried>>
           ELSE /\ UserOpens(sock)
                /\ NoToken(resumed, sock) \/ OpenSocket(resumed, sock)

\* Mutant: the reconnect timer survives the last consumer.
UnmountKeepingTimer ==
    LET released == [client EXCEPT !.mountedRefCount = @ - 1]
    IN  /\ client.mountedRefCount > 0
        /\ UNCHANGED <<token, hurried>>
        /\ IF released.mountedRefCount > 0
           THEN client' = released /\ UNCHANGED sock
           ELSE /\ client' = [StopPing(released) EXCEPT
                                !.explicitlyClosed = TRUE, !.ws = None, !.state = "closed"]
                /\ sock' = CloseSocket(sock, client.ws)

\* The clean-up of the effect: the last consumer disconnects the client.
Unmount ==
    LET released == [client EXCEPT !.mountedRefCount = @ - 1]
    IN  /\ client.mountedRefCount > 0
        /\ UNCHANGED <<token, hurried>>
        /\ IF released.mountedRefCount > 0
           THEN client' = released /\ UNCHANGED sock
           ELSE /\ client' = [StopPing(ClearReconnectTimer(released)) EXCEPT
                                !.explicitlyClosed = TRUE, !.ws = None, !.state = "closed"]
                /\ sock' = CloseSocket(sock, client.ws)

\* A click on the connection badge, live only in the states closed and error.
Reconnect ==
    LET reset == [ClearReconnectTimer(client) EXCEPT
                     !.explicitlyClosed = FALSE, !.reconnectAttempts = 0, !.ws = None]
        socks == CloseSocket(sock, client.ws)
    IN  /\ client.mountedRefCount > 0
        /\ client.state \in {"closed", "error"}
        /\ UserOpens(socks)
        /\ NoToken(reset, socks) \/ OpenSocket(reset, socks)
        /\ UNCHANGED token

-----------------------------------------------------------------------------
(* What the browser and the network do to a socket.                        *)

\* Mutant: the heartbeat is not started.
OpenedWithoutPing(s) ==
    /\ sock[s] = "connecting"
    /\ sock' = [sock EXCEPT ![s] = "open"]
    /\ client' = [StopPing(client) EXCEPT !.reconnectAttempts = 0, !.state = "open"]
    /\ UNCHANGED <<token, hurried>>

Opened(s) ==
    /\ sock[s] = "connecting"
    /\ sock' = [sock EXCEPT ![s] = "open"]
    /\ client' = [StopPing(client) EXCEPT !.reconnectAttempts = 0, !.state = "open",
                                          !.pingTimer = TRUE]
    /\ UNCHANGED <<token, hurried>>

\* The close event, after close(), a refused connection or a lost one.
Closed(s) ==
    /\ sock[s] # "closed"
    /\ sock' = [sock EXCEPT ![s] = "closed"]
    /\ client' = HandleClose(client)
    /\ hurried' = (hurried /\ InUse # {s})
    /\ UNCHANGED token

\* The peer or the path dies without a close frame.
FallSilent(s) ==
    /\ sock[s] = "open"
    /\ sock' = [sock EXCEPT ![s] = "silent"]
    /\ UNCHANGED <<client, token, hurried>>

\* A "pong" message, on whichever socket is open.
PongReceived(s) ==
    /\ sock[s] = "open"
    /\ client.pongTimer
    /\ client' = [client EXCEPT !.pongTimer = FALSE]
    /\ UNCHANGED <<sock, token, hurried>>

-----------------------------------------------------------------------------
(* The client's timers.                                                    *)

ReconnectTimerFires ==
    LET fired == ClearReconnectTimer(client)
    IN  /\ client.reconnectTimer
        /\ NoToken(fired, sock) \/ OpenSocket(fired, sock)
        /\ UNCHANGED <<token, hurried>>

\* The ping goes out every 25 s and is given up after 10 s, so a tick never
\* finds the pong timer of the one before.
PingTimerTicks ==
    /\ client.pingTimer /\ ~client.pongTimer
    /\ client' = [client EXCEPT !.pongTimer = TRUE]
    /\ UNCHANGED <<sock, token, hurried>>

\* Mutant: the timeout is noted, the socket kept.
PongTimerIgnored ==
    /\ client.pongTimer
    /\ client' = [client EXCEPT !.pongTimer = FALSE]
    /\ UNCHANGED <<sock, token, hurried>>

PongTimerFires ==
    /\ client.pongTimer
    /\ client' = [client EXCEPT !.pongTimer = FALSE]
    /\ sock' = IF client.ws # None /\ sock[client.ws] \in {"open", "silent"}
               THEN CloseSocket(sock, client.ws) ELSE sock
    /\ UNCHANGED <<token, hurried>>

\* Signing in or out stores or removes the token; the client is not told.
TokenChanges ==
    /\ token' = ~token
    /\ UNCHANGED <<client, sock, hurried>>

-----------------------------------------------------------------------------
Next ==
    \/ MountBesideOthers \/ MountAndConnect \/ Unmount \/ Reconnect
    \/ \E s \in Sockets : Opened(s) \/ Closed(s) \/ FallSilent(s) \/ PongReceived(s)
    \/ ReconnectTimerFires \/ PingTimerTicks \/ PongTimerFires
    \/ TokenChanges

Spec == Init /\ [][Next]_vars

\* The browser settles a handshake and delivers the close event it owes, and
\* a timer that is set fires.  Nothing is assumed of users, peers or tokens.
Settles(s) == Opened(s) \/ (sock[s] \in {"connecting", "closing"} /\ Closed(s))

Fairness ==
    /\ \A s \in Sockets : WF_vars(Settles(s))
    /\ WF_vars(ReconnectTimerFires)
    /\ WF_vars(PingTimerTicks)
    /\ WF_vars(PongTimerFires)

FairSpec == Spec /\ Fairness

-----------------------------------------------------------------------------
(* Properties.                                                             *)

\* While nobody opens a socket before the last one has closed, the client
\* holds every live socket: there is at most one, so no message reaches the
\* listeners twice, and disconnect() can close it (client.ts:115, 135-149).
HoldsEveryLiveSocket == ~hurried => Live \subseteq {client.ws}

\* Under the same condition a client that says "open" has a socket that has
\* not closed and a ping running on it (client.ts:120-125, 135-149).
OpenIsWatched ==
    ~hurried /\ client.state = "open" =>
        /\ client.ws \in InUse
        /\ client.pingTimer

\* No connection is made for nobody: whatever timers and late close events
\* are around, a socket is created only while a component is mounted
\* (client.ts:224, 333-346; use-websocket.ts:94-99).
OpensOnlyForConsumers ==
    [][\A s \in Sockets : sock[s] = "closed" /\ sock'[s] = "connecting"
                              => client'.mountedRefCount > 0]_vars

\* The client never stays in connecting or reconnecting: it opens, is closed
\* or gives up with an error after its attempts (client.ts:197-224).
ConnectingIsDecided ==
    client.state \in {"connecting", "reconnecting"}
        ~> client.state \in {"open", "closed", "error"}

\* A held socket whose peer has gone silent does not stay: ping and pong
\* timers notice and close it (client.ts:245-276).
SilenceIsNoticed ==
    \A s \in Sockets :
        (sock[s] = "silent" /\ ~hurried) ~> (sock[s] # "silent" \/ hurried)
=============================================================================
