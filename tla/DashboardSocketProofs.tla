----------------------- MODULE DashboardSocketProofs -----------------------
(***************************************************************************)
(* What holds of the dashboard's socket for any number of sockets,         *)
(* reconnect attempts and consumers.                                       *)
(***************************************************************************)
EXTENDS DashboardSocket, TLAPS

\* The socket that is held is the only one in use, and what is not held is
\* on its way out after a disconnect().
HeldAlone ==
    ~hurried =>
        /\ Live \subseteq {client.ws}
        /\ client.ws \in Sockets => InUse = {client.ws}
        /\ ~client.explicitlyClosed => InUse \subseteq {client.ws}
        /\ client.reconnectTimer => InUse = {}

\* After disconnect() the client holds nothing, and a reconnect is scheduled
\* only while somebody is mounted.
Quiet ==
    /\ client.explicitlyClosed => client.ws = None
    /\ client.reconnectTimer => ~client.explicitlyClosed /\ client.mountedRefCount > 0

IInv == TypeOK /\ HeldAlone /\ OpenIsWatched /\ Quiet

-----------------------------------------------------------------------------
(* The methods of the client.                                              *)

LEMMA ClearReconnectTimerFields ==
  ASSUME NEW c \in Clients
  PROVE  /\ ClearReconnectTimer(c) \in Clients
         /\ ~ClearReconnectTimer(c).reconnectTimer
         /\ ClearReconnectTimer(c).state = c.state
         /\ ClearReconnectTimer(c).ws = c.ws
         /\ ClearReconnectTimer(c).explicitlyClosed = c.explicitlyClosed
         /\ ClearReconnectTimer(c).pingTimer = c.pingTimer
         /\ ClearReconnectTimer(c).mountedRefCount = c.mountedRefCount
  BY DEF ClearReconnectTimer, Clients

LEMMA StopPingFields ==
  ASSUME NEW c \in Clients
  PROVE  /\ StopPing(c) \in Clients
         /\ StopPing(c).reconnectTimer = c.reconnectTimer
         /\ StopPing(c).state = c.state
         /\ StopPing(c).ws = c.ws
         /\ StopPing(c).explicitlyClosed = c.explicitlyClosed
         /\ StopPing(c).mountedRefCount = c.mountedRefCount
  BY DEF StopPing, Clients

\* scheduleReconnect never leaves a timer behind for a client that was closed
\* on purpose, and counts the attempt within its limit.
LEMMA ScheduleReconnectFields ==
  ASSUME NEW c \in Clients
  PROVE  LET d == ScheduleReconnect(c) IN
         /\ d \in Clients
         /\ d.ws = c.ws
         /\ d.explicitlyClosed = c.explicitlyClosed
         /\ d.mountedRefCount = c.mountedRefCount
         /\ d.reconnectTimer => ~d.explicitlyClosed
         /\ d.state = "open" => c.state = "open"
  <1>1. CASE c.explicitlyClosed
    BY <1>1, ClearReconnectTimerFields DEF ScheduleReconnect
  <1>2. CASE ~c.explicitlyClosed /\ c.reconnectAttempts >= MaxReconnectAttempts
    BY <1>2 DEF ScheduleReconnect, Clients, ClientStates
  <1>3. CASE ~c.explicitlyClosed /\ ~(c.reconnectAttempts >= MaxReconnectAttempts)
    <2>1. c.reconnectAttempts + 1 \in 0 .. MaxReconnectAttempts
      BY <1>3, SocketAssumption DEF Clients
    <2> QED BY <1>3, <2>1 DEF ScheduleReconnect, Clients, ClientStates
  <1> QED BY <1>1, <1>2, <1>3

LEMMA HandleConnectionFailureFields ==
  ASSUME NEW c \in Clients, ~c.reconnectTimer
  PROVE  LET d == HandleConnectionFailure(c) IN
         /\ d \in Clients
         /\ d.ws = c.ws
         /\ d.explicitlyClosed = c.explicitlyClosed
         /\ d.mountedRefCount = c.mountedRefCount
         /\ d.reconnectTimer => ~d.explicitlyClosed /\ d.mountedRefCount > 0
         /\ d.state # "open"
  <1> DEFINE e == [c EXCEPT !.state = "error"]
  <1>1. /\ e \in Clients
        /\ e.state = "error"
        /\ e.ws = c.ws
        /\ e.explicitlyClosed = c.explicitlyClosed
        /\ e.mountedRefCount = c.mountedRefCount
        /\ e.reconnectTimer = c.reconnectTimer
    BY DEF Clients, ClientStates
  <1> QED BY <1>1, ScheduleReconnectFields DEF HandleConnectionFailure

LEMMA HandleCloseFields ==
  ASSUME NEW c \in Clients, c.reconnectTimer => ~c.explicitlyClosed /\ c.mountedRefCount > 0
  PROVE  LET d == HandleClose(c) IN
         /\ d \in Clients
         /\ d.ws = None
         /\ d.explicitlyClosed = c.explicitlyClosed
         /\ d.mountedRefCount = c.mountedRefCount
         /\ d.reconnectTimer => ~d.explicitlyClosed /\ d.mountedRefCount > 0
         /\ d.state # "open"
  <1> DEFINE e == [StopPing(c) EXCEPT !.ws = None, !.state = "closed"]
  <1> DEFINE i == [e EXCEPT !.state = "idle"]
  <1>1. /\ e \in Clients
        /\ e.state = "closed"
        /\ e.ws = None
        /\ e.explicitlyClosed = c.explicitlyClosed
        /\ e.mountedRefCount = c.mountedRefCount
        /\ e.reconnectTimer = c.reconnectTimer
    BY DEF StopPing, Clients, ClientStates
  <1>2. /\ i \in Clients
        /\ i.state = "idle"
        /\ i.ws = None
        /\ i.explicitlyClosed = c.explicitlyClosed
        /\ i.mountedRefCount = c.mountedRefCount
        /\ i.reconnectTimer = c.reconnectTimer
    BY <1>1 DEF Clients, ClientStates
  <1>3. HandleClose(c) = IF c.explicitlyClosed THEN e
                         ELSE IF c.mountedRefCount > 0 THEN ScheduleReconnect(e) ELSE i
    BY DEF HandleClose
  <1> HIDE DEF e, i
  <1> QED BY <1>1, <1>2, <1>3, ScheduleReconnectFields

LEMMA CloseSocketType ==
  ASSUME NEW socks \in [Sockets -> SocketStates], NEW w \in Sockets \cup {None}
  PROVE  /\ CloseSocket(socks, w) \in [Sockets -> SocketStates]
         /\ \A s \in Sockets :
              /\ CloseSocket(socks, w)[s] = "closed" <=> socks[s] = "closed"
              /\ s # w => CloseSocket(socks, w)[s] = socks[s]
              /\ s = w => CloseSocket(socks, w)[s] \in {"closed", "closing"}
  BY SocketAssumption DEF CloseSocket, SocketStates

-----------------------------------------------------------------------------
(* The inductive invariant.                                                *)

\* connect, reconnectNow and the reconnect timer, once they have made c of
\* the client and socks of the sockets: whoever is not hurried finds every
\* socket closed, so that the new one is alone.
LEMMA OpeningKeepsIInv ==
  ASSUME NEW c \in Clients, NEW socks \in [Sockets -> SocketStates],
         ~c.explicitlyClosed, c.mountedRefCount > 0,
         hurried' \in BOOLEAN, token \in BOOLEAN, token' = token,
         ~hurried' => c.ws = None /\ \A s \in Sockets : socks[s] = "closed",
         NoToken(c, socks) \/ OpenSocket(c, socks)
  PROVE  IInv' /\ client'.mountedRefCount > 0
  <1> DEFINE ready == StopPing(ClearReconnectTimer(c))
  <1>1. /\ ready \in Clients
        /\ ~ready.reconnectTimer
        /\ ready.ws = c.ws
        /\ ~ready.explicitlyClosed
        /\ ready.mountedRefCount = c.mountedRefCount
    BY ClearReconnectTimerFields, StopPingFields
  <1>2. CASE NoToken(c, socks)
    <2>1. /\ client' \in Clients
          /\ client'.ws = c.ws
          /\ client'.state = "error"
          /\ client'.explicitlyClosed = c.explicitlyClosed
          /\ client'.mountedRefCount = c.mountedRefCount
          /\ sock' = socks
      BY <1>2 DEF NoToken, Clients, ClientStates
    <2> QED BY <2>1, SocketAssumption
            DEF IInv, TypeOK, HeldAlone, OpenIsWatched, Quiet, Live, InUse
  <1>3. ASSUME NEW s \in Sockets, socks[s] = "closed",
               client' = [ready EXCEPT !.ws = s,
                            !.state = IF c.reconnectAttempts > 0 THEN "reconnecting"
                                      ELSE "connecting"],
               sock' = [socks EXCEPT ![s] = "connecting"]
        PROVE  IInv' /\ client'.mountedRefCount > 0
    <2> HIDE DEF ready
    <2>1. /\ client' \in Clients
          /\ client'.ws = s
          /\ client'.state \in {"connecting", "reconnecting"}
          /\ ~client'.explicitlyClosed
          /\ ~client'.reconnectTimer
          /\ client'.mountedRefCount = c.mountedRefCount
      BY <1>1, <1>3 DEF Clients, ClientStates
    <2>2. /\ sock' \in [Sockets -> SocketStates]
          /\ sock'[s] = "connecting"
          /\ \A r \in Sockets : r # s => sock'[r] = socks[r]
      BY <1>3 DEF SocketStates
    <2>3. ~hurried' => InUse' = {s} /\ Live' \subseteq {s}
      BY <2>2 DEF InUse, Live
    <2> QED BY <2>1, <2>2, <2>3, SocketAssumption
            DEF IInv, TypeOK, HeldAlone, OpenIsWatched, Quiet
  <1>4. CASE client' = HandleConnectionFailure(ready) /\ sock' = socks
    <2> HIDE DEF ready
    <2>1. /\ client' \in Clients
          /\ client'.ws = c.ws
          /\ ~client'.explicitlyClosed
          /\ client'.mountedRefCount = c.mountedRefCount
          /\ client'.state # "open"
      BY <1>1, <1>4, HandleConnectionFailureFields
    <2> QED BY <1>4, <2>1, SocketAssumption
            DEF IInv, TypeOK, HeldAlone, OpenIsWatched, Quiet, Live, InUse
  <1> QED BY <1>2, <1>3, <1>4 DEF OpenSocket

LEMMA MountKeepsIInv ==
  ASSUME IInv, MountBesideOthers \/ MountAndConnect
  PROVE  IInv' /\ client'.mountedRefCount > 0
  <1> DEFINE acquired == [client EXCEPT !.mountedRefCount = @ + 1]
  <1> DEFINE resumed == [acquired EXCEPT !.explicitlyClosed = FALSE]
  <1> USE DEF IInv
  <1>1. client.mountedRefCount < MaxConsumers /\ client \in Clients
    BY DEF MountBesideOthers, MountAndConnect, TypeOK
  <1>2. client.mountedRefCount + 1 \in 0 .. MaxConsumers /\ client.mountedRefCount + 1 > 0
    BY <1>1, SocketAssumption DEF Clients
  <1>3. /\ acquired \in Clients
        /\ acquired.mountedRefCount > 0
        /\ acquired.state = client.state
        /\ acquired.ws = client.ws
        /\ acquired.explicitlyClosed = client.explicitlyClosed
        /\ acquired.reconnectTimer = client.reconnectTimer
        /\ acquired.pingTimer = client.pingTimer
    BY <1>1, <1>2 DEF Clients
  <1>4. /\ resumed \in Clients
        /\ resumed.mountedRefCount > 0
        /\ resumed.ws = client.ws
        /\ ~resumed.explicitlyClosed
    BY <1>3 DEF Clients
  <1>5. CASE client' = acquired /\ UNCHANGED <<sock, token, hurried>>
    <2> HIDE DEF acquired
    <2> QED BY <1>3, <1>5 DEF TypeOK, HeldAlone, OpenIsWatched, Quiet, Live, InUse
  <1>6. CASE /\ UserOpens(sock) /\ UNCHANGED token
             /\ NoToken(resumed, sock) \/ OpenSocket(resumed, sock)
    <2>1. hurried' = (hurried \/ \E s \in Sockets : sock[s] # "closed")
      BY <1>6 DEF UserOpens
    <2>2. ASSUME ~hurried' PROVE client.ws = None /\ \A s \in Sockets : sock[s] = "closed"
      BY <2>1, <2>2, <1>1 DEF HeldAlone, InUse, Clients
    <2>3. hurried' \in BOOLEAN /\ token \in BOOLEAN /\ sock \in [Sockets -> SocketStates]
      BY <2>1 DEF TypeOK
    <2> HIDE DEF resumed
    <2> QED BY <1>4, <1>6, <2>2, <2>3, OpeningKeepsIInv
  <1> QED BY <1>5, <1>6 DEF MountBesideOthers, MountAndConnect

LEMMA UnmountKeepsIInv ==
  ASSUME IInv, Unmount
  PROVE  IInv' /\ \A s \in Sockets : sock[s] = "closed" => sock'[s] = "closed"
  <1> DEFINE released == [client EXCEPT !.mountedRefCount = @ - 1]
  <1> DEFINE quiet == StopPing(ClearReconnectTimer(released))
  <1> DEFINE closed == [quiet EXCEPT !.explicitlyClosed = TRUE, !.ws = None, !.state = "closed"]
  <1> USE DEF IInv
  <1>1. client \in Clients /\ client.mountedRefCount > 0
    BY DEF Unmount, TypeOK
  <1>2. client.mountedRefCount - 1 \in 0 .. MaxConsumers
    BY <1>1, SocketAssumption DEF Clients
  <1>3. /\ released \in Clients
        /\ released.state = client.state
        /\ released.ws = client.ws
        /\ released.explicitlyClosed = client.explicitlyClosed
        /\ released.reconnectTimer = client.reconnectTimer
        /\ released.pingTimer = client.pingTimer
    BY <1>1, <1>2 DEF Clients
  <1>4. CASE released.mountedRefCount > 0 /\ client' = released /\ UNCHANGED <<sock, token, hurried>>
    <2> HIDE DEF released
    <2> QED BY <1>3, <1>4 DEF TypeOK, HeldAlone, OpenIsWatched, Quiet, Live, InUse
  <1>5. CASE client' = closed /\ sock' = CloseSocket(sock, client.ws) /\ UNCHANGED <<token, hurried>>
    <2>1. quiet \in Clients /\ ~quiet.reconnectTimer
      BY <1>3, ClearReconnectTimerFields, StopPingFields
    <2>2. /\ client' \in Clients
          /\ client'.explicitlyClosed
          /\ client'.ws = None
          /\ client'.state = "closed"
          /\ ~client'.reconnectTimer
      BY <2>1, <1>5 DEF Clients, ClientStates
    <2>3. client.ws \in Sockets \cup {None} /\ sock \in [Sockets -> SocketStates]
      BY <1>1 DEF TypeOK, Clients
    <2>4. sock' \in [Sockets -> SocketStates]
      BY <1>5, <2>3, CloseSocketType
    <2>5. \A s \in Sockets :
            /\ sock'[s] = "closed" <=> sock[s] = "closed"
            /\ s # client.ws => sock'[s] = sock[s]
            /\ s = client.ws => sock'[s] \in {"closed", "closing"}
      BY <1>5, <2>3, CloseSocketType
    <2>6. ~hurried => Live' = {}
      BY <2>5 DEF Live, HeldAlone
    <2> QED BY <1>5, <2>2, <2>4, <2>5, <2>6, SocketAssumption
            DEF TypeOK, HeldAlone, OpenIsWatched, Quiet
  <1> QED BY <1>4, <1>5 DEF Unmount

\* In the states closed and error a client that was never hurried holds a
\* socket only if it is the one in use, so a click that finds everything
\* closed starts from nothing.
LEMMA ReconnectKeepsIInv ==
  ASSUME IInv, Reconnect
  PROVE  IInv' /\ client'.mountedRefCount > 0
  <1> DEFINE reset == [ClearReconnectTimer(client) EXCEPT
                         !.explicitlyClosed = FALSE, !.reconnectAttempts = 0, !.ws = None]
  <1> DEFINE socks == CloseSocket(sock, client.ws)
  <1> USE DEF IInv
  <1>1. client \in Clients /\ sock \in [Sockets -> SocketStates]
    BY DEF TypeOK
  <1>2. socks \in [Sockets -> SocketStates]
    BY <1>1, CloseSocketType DEF Clients
  <1>3. 0 \in 0 .. MaxReconnectAttempts
    BY SocketAssumption
  <1>4. /\ reset \in Clients
        /\ reset.mountedRefCount = client.mountedRefCount
        /\ reset.ws = None
        /\ ~reset.explicitlyClosed
    <2>1. ASSUME NEW c \in Clients
          PROVE  LET d == [c EXCEPT !.explicitlyClosed = FALSE,
                                    !.reconnectAttempts = 0, !.ws = None] IN
                 /\ d \in Clients
                 /\ d.mountedRefCount = c.mountedRefCount
                 /\ d.ws = None
                 /\ ~d.explicitlyClosed
      BY <1>3 DEF Clients
    <2> QED BY <1>1, <2>1, ClearReconnectTimerFields
  <1>5. /\ client.mountedRefCount > 0
        /\ UserOpens(socks)
        /\ NoToken(reset, socks) \/ OpenSocket(reset, socks)
        /\ UNCHANGED token
    BY DEF Reconnect
  <1> HIDE DEF reset, socks
  <1>6. hurried' = (hurried \/ \E s \in Sockets : socks[s] # "closed")
    BY <1>5 DEF UserOpens
  <1>7. hurried' \in BOOLEAN /\ token \in BOOLEAN
    BY <1>6 DEF TypeOK
  <1>8. ~hurried' => \A s \in Sockets : socks[s] = "closed"
    BY <1>6
  <1> QED BY <1>2, <1>4, <1>5, <1>7, <1>8, OpeningKeepsIInv

\* A timer that is set means that no socket is in use: here nobody hurries.
LEMMA ReconnectTimerKeepsIInv ==
  ASSUME IInv, ReconnectTimerFires
  PROVE  IInv' /\ client'.mountedRefCount > 0
  <1> DEFINE fired == ClearReconnectTimer(client)
  <1> USE DEF IInv
  <1>1. /\ client \in Clients
        /\ sock \in [Sockets -> SocketStates]
        /\ token \in BOOLEAN
        /\ hurried \in BOOLEAN
    BY DEF TypeOK
  <1>2. /\ client.reconnectTimer
        /\ NoToken(fired, sock) \/ OpenSocket(fired, sock)
        /\ token' = token /\ hurried' = hurried
    BY DEF ReconnectTimerFires
  <1>3. /\ fired \in Clients
        /\ fired.mountedRefCount > 0
        /\ fired.ws = client.ws
        /\ ~fired.explicitlyClosed
    BY <1>1, <1>2, ClearReconnectTimerFields DEF Quiet
  <1>4. ~hurried => InUse = {}
    BY <1>2 DEF HeldAlone
  <1>5. ~hurried => client.ws = None /\ \A s \in Sockets : sock[s] = "closed"
    BY <1>1, <1>4 DEF HeldAlone, InUse, Clients
  <1> HIDE DEF fired
  <1> QED BY <1>1, <1>2, <1>3, <1>5, OpeningKeepsIInv

\* Only a held socket can still open, unless somebody hurried.
LEMMA OpenedKeepsIInv ==
  ASSUME IInv, NEW s \in Sockets, Opened(s)
  PROVE  IInv' /\ \A r \in Sockets : sock[r] = "closed" => sock'[r] = "closed"
  <1> USE DEF IInv
  <1>1. client \in Clients /\ sock \in [Sockets -> SocketStates]
    BY DEF TypeOK
  <1>2. 0 \in 0 .. MaxReconnectAttempts
    BY SocketAssumption
  <1>3. /\ client' \in Clients
        /\ client'.state = "open"
        /\ client'.pingTimer
        /\ client'.ws = client.ws
        /\ client'.explicitlyClosed = client.explicitlyClosed
        /\ client'.reconnectTimer = client.reconnectTimer
        /\ client'.mountedRefCount = client.mountedRefCount
    BY <1>1, <1>2, StopPingFields DEF Opened, Clients, ClientStates
  <1>4. /\ sock[s] = "connecting"
        /\ sock'[s] = "open"
        /\ sock' \in [Sockets -> SocketStates]
        /\ \A r \in Sockets : r # s => sock'[r] = sock[r]
        /\ UNCHANGED <<token, hurried>>
    BY <1>1 DEF Opened, SocketStates
  <1>5. InUse' = InUse /\ Live' = Live /\ s \in Live
    BY <1>4 DEF InUse, Live
  <1>6. ~hurried => client.ws = s
    BY <1>5 DEF HeldAlone
  <1> QED BY <1>3, <1>4, <1>5, <1>6 DEF TypeOK, HeldAlone, OpenIsWatched, Quiet, InUse

\* The close event of the last socket in use ends a hurry; before that it is
\* the event of the held socket, or of one left behind by disconnect().
LEMMA ClosedKeepsIInv ==
  ASSUME IInv, NEW s \in Sockets, Closed(s)
  PROVE  IInv' /\ \A r \in Sockets : sock[r] = "closed" => sock'[r] = "closed"
  <1> USE DEF IInv
  <1>1. client \in Clients /\ sock \in [Sockets -> SocketStates]
    BY DEF TypeOK
  <1>2. /\ client' \in Clients
        /\ client'.ws = None
        /\ client'.explicitlyClosed = client.explicitlyClosed
        /\ client'.reconnectTimer => ~client'.explicitlyClosed /\ client'.mountedRefCount > 0
        /\ client'.state # "open"
    BY <1>1, HandleCloseFields DEF Closed, Quiet
  <1>3. /\ sock[s] # "closed"
        /\ sock'[s] = "closed"
        /\ sock' \in [Sockets -> SocketStates]
        /\ \A r \in Sockets : r # s => sock'[r] = sock[r]
        /\ UNCHANGED token
        /\ hurried' = (hurried /\ InUse # {s})
    BY <1>1 DEF Closed, SocketStates
  <1>4. InUse' = InUse \ {s} /\ Live' = Live \ {s} /\ s \in InUse
    BY <1>3 DEF InUse, Live
  <1>5. Live' \subseteq InUse'
    BY <1>3 DEF InUse, Live
  <1>6. ~hurried' => Live' = {} /\ (~client.explicitlyClosed => InUse' = {})
    <2>1. CASE InUse = {s}
      BY <2>1, <1>4, <1>5
    <2>2. CASE ~hurried
      BY <2>2, <1>1, <1>4 DEF HeldAlone, Live, InUse, Clients
    <2> QED BY <2>1, <2>2, <1>3
  <1>7. hurried' \in BOOLEAN
    BY <1>3 DEF TypeOK
  <1> QED BY <1>2, <1>3, <1>6, <1>7, SocketAssumption
          DEF TypeOK, HeldAlone, OpenIsWatched, Quiet

LEMMA SilentKeepsIInv ==
  ASSUME IInv, NEW s \in Sockets, FallSilent(s)
  PROVE  IInv' /\ \A r \in Sockets : sock[r] = "closed" => sock'[r] = "closed"
  <1> USE DEF IInv
  <1>1. /\ sock[s] = "open"
        /\ sock'[s] = "silent"
        /\ sock' \in [Sockets -> SocketStates]
        /\ \A r \in Sockets : r # s => sock'[r] = sock[r]
        /\ UNCHANGED <<client, token, hurried>>
    BY DEF FallSilent, TypeOK, SocketStates
  <1>2. InUse' = InUse /\ Live' = Live
    BY <1>1 DEF InUse, Live
  <1> QED BY <1>1, <1>2 DEF TypeOK, HeldAlone, OpenIsWatched, Quiet

\* A pong, a ping and a timeout touch nothing but the pong timer, and the
\* timeout may ask the held socket to close.
LEMMA HeartbeatKeepsIInv ==
  ASSUME IInv,
         (\E s \in Sockets : PongReceived(s)) \/ PingTimerTicks \/ PongTimerFires
  PROVE  IInv' /\ \A r \in Sockets : sock[r] = "closed" => sock'[r] = "closed"
  <1> USE DEF IInv
  <1>1. client \in Clients /\ sock \in [Sockets -> SocketStates]
    BY DEF TypeOK
  <1>2. /\ client' \in Clients
        /\ client'.state = client.state
        /\ client'.ws = client.ws
        /\ client'.explicitlyClosed = client.explicitlyClosed
        /\ client'.reconnectTimer = client.reconnectTimer
        /\ client'.pingTimer = client.pingTimer
        /\ client'.mountedRefCount = client.mountedRefCount
        /\ UNCHANGED <<token, hurried>>
    BY <1>1 DEF PongReceived, PingTimerTicks, PongTimerFires, Clients
  <1>3. sock' = sock \/ sock' = CloseSocket(sock, client.ws)
    BY DEF PongReceived, PingTimerTicks, PongTimerFires
  <1>4. client.ws \in Sockets \cup {None}
    BY <1>1 DEF Clients
  <1>5. /\ sock' \in [Sockets -> SocketStates]
        /\ \A r \in Sockets : sock'[r] = "closed" <=> sock[r] = "closed"
        /\ \A r \in Sockets : sock'[r] \in {"connecting", "open", "silent"}
                                => sock[r] \in {"connecting", "open", "silent"}
    BY <1>1, <1>3, <1>4, CloseSocketType
  <1>6. InUse' = InUse /\ Live' \subseteq Live
    BY <1>5 DEF InUse, Live
  <1> QED BY <1>2, <1>5, <1>6 DEF TypeOK, HeldAlone, OpenIsWatched, Quiet

\* Every step keeps the invariant, and creates sockets for consumers only.
LEMMA StepKeepsIInv ==
  ASSUME IInv, [Next]_vars
  PROVE  /\ IInv'
         /\ \A s \in Sockets : sock[s] = "closed" /\ sock'[s] = "connecting"
                                 => client'.mountedRefCount > 0
  <1>1. CASE MountBesideOthers \/ MountAndConnect
    BY <1>1, MountKeepsIInv
  <1>2. CASE Unmount
    BY <1>2, UnmountKeepsIInv
  <1>3. CASE Reconnect
    BY <1>3, ReconnectKeepsIInv
  <1>4. ASSUME NEW s \in Sockets, Opened(s) \/ Closed(s) \/ FallSilent(s)
        PROVE  IInv' /\ \A r \in Sockets : sock[r] = "closed" => sock'[r] = "closed"
    BY <1>4, OpenedKeepsIInv, ClosedKeepsIInv, SilentKeepsIInv
  <1>5. CASE (\E s \in Sockets : PongReceived(s)) \/ PingTimerTicks \/ PongTimerFires
    BY <1>5, HeartbeatKeepsIInv
  <1>6. CASE ReconnectTimerFires
    BY <1>6, ReconnectTimerKeepsIInv
  <1>7. CASE TokenChanges \/ UNCHANGED vars
    BY <1>7 DEF TokenChanges, vars, IInv, TypeOK, HeldAlone, OpenIsWatched, Quiet, InUse, Live
  <1> QED BY <1>1, <1>2, <1>3, <1>4, <1>5, <1>6, <1>7 DEF Next

LEMMA InitIInv == Init => IInv
  <1> SUFFICES ASSUME Init PROVE IInv
    OBVIOUS
  <1>1. 0 \in 0 .. MaxReconnectAttempts /\ 0 \in 0 .. MaxConsumers
    BY SocketAssumption
  <1> QED BY <1>1, SocketAssumption
          DEF Init, IInv, TypeOK, HeldAlone, OpenIsWatched, Quiet, InUse, Live,
              Clients, ClientStates, SocketStates

LEMMA Invariant == Spec => []IInv
  <1>1. IInv /\ [Next]_vars => IInv'
    BY StepKeepsIInv
  <1> QED BY <1>1, InitIInv, PTL DEF Spec

-----------------------------------------------------------------------------
(* The theorems.                                                           *)

\* Type correctness: the attempts stay within their limit (client.ts:197-224).
THEOREM TypeCorrect == Spec => []TypeOK
  <1>1. IInv => TypeOK
    BY DEF IInv
  <1> QED BY <1>1, Invariant, PTL

\* Unless a user reconnects before the old socket has closed, at most one
\* socket is live and the client holds it (client.ts:115, 135-149).
THEOREM OneLiveSocket == Spec => []HoldsEveryLiveSocket
  <1>1. IInv => HoldsEveryLiveSocket
    BY DEF IInv, HeldAlone, HoldsEveryLiveSocket
  <1> QED BY <1>1, Invariant, PTL

\* Under the same condition a client that says "open" has a socket in use
\* with the ping running (client.ts:120-125).
THEOREM OpenHeartbeat == Spec => []OpenIsWatched
  <1>1. IInv => OpenIsWatched
    BY DEF IInv
  <1> QED BY <1>1, Invariant, PTL

\* Whatever is hurried, no timer and no late event opens a socket once the
\* last consumer is gone (client.ts:333-346; use-websocket.ts:94-99).
THEOREM NobodyNoSocket == Spec => OpensOnlyForConsumers
  <1>1. IInv /\ [Next]_vars
          => [\A s \in Sockets : sock[s] = "closed" /\ sock'[s] = "connecting"
                                   => client'.mountedRefCount > 0]_vars
    BY StepKeepsIInv
  <1> QED BY <1>1, Invariant, PTL DEF Spec, OpensOnlyForConsumers

-----------------------------------------------------------------------------
(* Nothing the client waits for is left to chance: the safety behind       *)
(* ConnectingIsDecided and SilenceIsNoticed.                               *)

\* The sockets the browser still owes an event: the end of a handshake, or
\* the close event of a close().
Owed == {s \in Sockets : sock[s] \in {"connecting", "closing"}}

\* A client that waits to be connected waits for an event the browser owes,
\* or for the timer it has set.
NeverStranded ==
    /\ client.state = "connecting" => Owed # {}
    /\ client.state = "reconnecting" => client.reconnectTimer \/ Owed # {}

\* A socket whose peer is silent is the one the client holds, and the client
\* pings it.
SilenceIsWatched ==
    ~hurried => \A s \in Sockets :
                   sock[s] = "silent" => client.ws = s /\ client.pingTimer

\* What SilenceIsWatched rests on: the ping runs from the moment a socket
\* opens, and the state stays "open" while one is.
Established ==
    ~hurried => \A s \in Sockets :
                   sock[s] \in {"open", "silent"}
                     => client.pingTimer /\ client.state = "open"

\* The client waits for no socket: for a timer at most.
WaitsForNoSocket(c) ==
    c.state # "connecting" /\ (c.state = "reconnecting" => c.reconnectTimer)

LEMMA ScheduleReconnectWaits ==
  ASSUME NEW c \in Clients, c.state \notin {"connecting", "reconnecting"}
  PROVE  WaitsForNoSocket(ScheduleReconnect(c))
  <1>1. CASE c.explicitlyClosed
    BY <1>1, ClearReconnectTimerFields DEF ScheduleReconnect, WaitsForNoSocket
  <1>2. CASE ~c.explicitlyClosed
    BY <1>2 DEF ScheduleReconnect, WaitsForNoSocket, Clients
  <1> QED BY <1>1, <1>2

LEMMA HandleConnectionFailureWaits ==
  ASSUME NEW c \in Clients
  PROVE  WaitsForNoSocket(HandleConnectionFailure(c))
  <1> DEFINE e == [c EXCEPT !.state = "error"]
  <1>1. e \in Clients /\ e.state = "error"
    BY DEF Clients, ClientStates
  <1>2. WaitsForNoSocket(e) /\ WaitsForNoSocket(ScheduleReconnect(e))
    BY <1>1, ScheduleReconnectWaits DEF WaitsForNoSocket
  <1> QED BY <1>2 DEF HandleConnectionFailure

LEMMA HandleCloseWaits ==
  ASSUME NEW c \in Clients
  PROVE  WaitsForNoSocket(HandleClose(c))
  <1> DEFINE e == [StopPing(c) EXCEPT !.ws = None, !.state = "closed"]
  <1> DEFINE i == [e EXCEPT !.state = "idle"]
  <1>1. e \in Clients /\ e.state = "closed" /\ i.state = "idle"
    BY DEF StopPing, Clients, ClientStates
  <1>2. WaitsForNoSocket(e) /\ WaitsForNoSocket(i) /\ WaitsForNoSocket(ScheduleReconnect(e))
    BY <1>1, ScheduleReconnectWaits DEF WaitsForNoSocket
  <1> QED BY <1>2 DEF HandleClose

\* connect, reconnectNow and the timer end with a handshake under way, with
\* an error, or with a new timer; what was closed before is not open after.
LEMMA OpeningStartsOrDecides ==
  ASSUME NEW c \in Clients, NEW socks \in [Sockets -> SocketStates],
         NoToken(c, socks) \/ OpenSocket(c, socks)
  PROVE  /\ NeverStranded'
         /\ \A s \in Sockets : socks[s] = "closed" => sock'[s] \notin {"open", "silent"}
  <1> DEFINE ready == StopPing(ClearReconnectTimer(c))
  <1>1. ready \in Clients
    BY ClearReconnectTimerFields, StopPingFields
  <1>2. CASE NoToken(c, socks)
    <2>1. client'.state = "error" /\ sock' = socks
      BY <1>2 DEF NoToken, Clients
    <2> QED BY <2>1 DEF NeverStranded
  <1>3. ASSUME NEW s \in Sockets, sock' = [socks EXCEPT ![s] = "connecting"]
        PROVE  /\ NeverStranded'
               /\ \A r \in Sockets : socks[r] = "closed" => sock'[r] \notin {"open", "silent"}
    <2>1. sock'[s] = "connecting" /\ \A r \in Sockets : r # s => sock'[r] = socks[r]
      BY <1>3
    <2>2. s \in Owed'
      BY <2>1 DEF Owed
    <2> QED BY <2>1, <2>2 DEF NeverStranded
  <1>4. CASE client' = HandleConnectionFailure(ready) /\ sock' = socks
    <2>1. WaitsForNoSocket(client')
      BY <1>1, <1>4, HandleConnectionFailureWaits
    <2> QED BY <1>4, <2>1 DEF NeverStranded, WaitsForNoSocket
  <1> QED BY <1>2, <1>3, <1>4 DEF OpenSocket

\* The steps that open a socket: unless they are hurried, no other socket is
\* in use.
LEMMA OpeningSteps ==
  ASSUME IInv, MountAndConnect \/ Reconnect \/ ReconnectTimerFires
  PROVE  \/ /\ NeverStranded'
            /\ ~hurried' => \A s \in Sockets : sock'[s] \notin {"open", "silent"}
         \/ /\ UNCHANGED <<sock, hurried>>
            /\ client'.state = client.state
            /\ client'.pingTimer = client.pingTimer
            /\ client'.reconnectTimer = client.reconnectTimer
  <1>1. client \in Clients /\ sock \in [Sockets -> SocketStates]
    BY DEF IInv, TypeOK
  <1>2. CASE MountAndConnect
    <2> DEFINE acquired == [client EXCEPT !.mountedRefCount = @ + 1]
    <2> DEFINE resumed == [acquired EXCEPT !.explicitlyClosed = FALSE]
    <2>1. client.mountedRefCount + 1 \in 0 .. MaxConsumers
      BY <1>1, <1>2, SocketAssumption DEF MountAndConnect, Clients
    <2>2. /\ acquired \in Clients
          /\ resumed \in Clients
          /\ acquired.state = client.state
          /\ acquired.pingTimer = client.pingTimer
          /\ acquired.reconnectTimer = client.reconnectTimer
      BY <1>1, <2>1 DEF Clients
    <2>3. CASE client' = acquired /\ UNCHANGED <<sock, hurried>>
      BY <2>2, <2>3
    <2>4. CASE UserOpens(sock) /\ (NoToken(resumed, sock) \/ OpenSocket(resumed, sock))
      <3>1. ~hurried' => \A s \in Sockets : sock[s] = "closed"
        BY <2>4 DEF UserOpens
      <3> HIDE DEF resumed
      <3> QED BY <1>1, <2>2, <2>4, <3>1, OpeningStartsOrDecides
    <2> QED BY <1>2, <2>3, <2>4 DEF MountAndConnect
  <1>3. CASE Reconnect
    <2> DEFINE reset == [ClearReconnectTimer(client) EXCEPT
                           !.explicitlyClosed = FALSE, !.reconnectAttempts = 0, !.ws = None]
    <2> DEFINE socks == CloseSocket(sock, client.ws)
    <2>1. 0 \in 0 .. MaxReconnectAttempts
      BY SocketAssumption
    <2>2. reset \in Clients
      BY <1>1, <2>1 DEF ClearReconnectTimer, Clients
    <2>3. socks \in [Sockets -> SocketStates]
      BY <1>1, CloseSocketType DEF Clients
    <2>4. UserOpens(socks) /\ (NoToken(reset, socks) \/ OpenSocket(reset, socks))
      BY <1>3 DEF Reconnect
    <2> HIDE DEF reset, socks
    <2>5. ~hurried' => \A s \in Sockets : socks[s] = "closed"
      BY <2>4 DEF UserOpens
    <2> QED BY <2>2, <2>3, <2>4, <2>5, OpeningStartsOrDecides
  <1>4. CASE ReconnectTimerFires
    <2> DEFINE fired == ClearReconnectTimer(client)
    <2>1. fired \in Clients
      BY <1>1, ClearReconnectTimerFields
    <2>2. /\ NoToken(fired, sock) \/ OpenSocket(fired, sock)
          /\ client.reconnectTimer /\ hurried' = hurried
      BY <1>4 DEF ReconnectTimerFires
    <2>3. ~hurried' => \A s \in Sockets : sock[s] = "closed"
      BY <2>2 DEF IInv, HeldAlone, InUse
    <2> HIDE DEF fired
    <2> QED BY <1>1, <2>1, <2>2, <2>3, OpeningStartsOrDecides
  <1> QED BY <1>2, <1>3, <1>4

\* A click on the badge and the last clean-up let go of the held socket; the
\* close event and the end of a handshake decide what was awaited.
LEMMA StepKeepsWatch ==
  ASSUME IInv, IInv', NeverStranded, Established, [Next]_vars
  PROVE  NeverStranded' /\ Established'
  <1>1. client \in Clients /\ sock \in [Sockets -> SocketStates]
    BY DEF IInv, TypeOK
  <1>2. ASSUME client'.ws = None PROVE Established'
    BY <1>2, SocketAssumption DEF IInv, HeldAlone, Live, Established
  <1>3. ASSUME client'.state = client.state,
               client'.pingTimer = client.pingTimer,
               client'.reconnectTimer = client.reconnectTimer,
               hurried' = hurried,
               \A s \in Sockets : /\ sock[s] \in {"connecting", "closing"}
                                       => sock'[s] \in {"connecting", "closing"}
                                  /\ sock'[s] \in {"open", "silent"}
                                       => sock[s] \in {"open", "silent"}
        PROVE  NeverStranded' /\ Established'
    <2>1. Owed \subseteq Owed'
      BY <1>3 DEF Owed
    <2> QED BY <1>3, <2>1 DEF NeverStranded, Established
  <1>4. CASE MountAndConnect \/ Reconnect \/ ReconnectTimerFires
    <2>1. CASE /\ NeverStranded'
               /\ ~hurried' => \A s \in Sockets : sock'[s] \notin {"open", "silent"}
      BY <2>1 DEF Established
    <2> QED BY <1>3, <1>4, <2>1, OpeningSteps
  <1>5. CASE MountBesideOthers
    <2>1. /\ client'.state = client.state
          /\ client'.pingTimer = client.pingTimer
          /\ client'.reconnectTimer = client.reconnectTimer
          /\ UNCHANGED <<sock, hurried>>
      BY <1>1, <1>5 DEF MountBesideOthers, Clients
    <2> QED BY <1>3, <2>1
  <1>6. CASE Unmount
    <2> DEFINE released == [client EXCEPT !.mountedRefCount = @ - 1]
    <2>1. CASE client' = released /\ UNCHANGED <<sock, hurried>>
      <3>1. /\ client'.state = client.state
            /\ client'.pingTimer = client.pingTimer
            /\ client'.reconnectTimer = client.reconnectTimer
        BY <1>1, <2>1 DEF Clients
      <3> QED BY <1>3, <2>1, <3>1
    <2>2. CASE client' = [StopPing(ClearReconnectTimer(released)) EXCEPT
                            !.explicitlyClosed = TRUE, !.ws = None, !.state = "closed"]
      <3>1. client'.ws = None /\ client'.state = "closed"
        BY <1>1, <2>2 DEF StopPing, ClearReconnectTimer, Clients
      <3> QED BY <1>2, <3>1 DEF NeverStranded
    <2> QED BY <1>6, <2>1, <2>2 DEF Unmount
  <1>7. ASSUME NEW s \in Sockets, Opened(s) PROVE NeverStranded' /\ Established'
    <2>1. client'.state = "open" /\ client'.pingTimer
      BY <1>1, <1>7, StopPingFields DEF Opened, Clients
    <2> QED BY <2>1 DEF NeverStranded, Established
  <1>8. ASSUME NEW s \in Sockets, Closed(s) PROVE NeverStranded' /\ Established'
    <2>1. client'.ws = None /\ WaitsForNoSocket(client')
      BY <1>1, <1>8, HandleCloseFields, HandleCloseWaits DEF Closed, IInv, Quiet
    <2> QED BY <1>2, <2>1 DEF NeverStranded, WaitsForNoSocket
  <1>9. ASSUME NEW s \in Sockets, FallSilent(s) PROVE NeverStranded' /\ Established'
    BY <1>1, <1>3, <1>9 DEF FallSilent
  <1>10. CASE (\E s \in Sockets : PongReceived(s)) \/ PingTimerTicks \/ PongTimerFires
    <2>1. /\ client'.state = client.state
          /\ client'.pingTimer = client.pingTimer
          /\ client'.reconnectTimer = client.reconnectTimer
          /\ hurried' = hurried
      BY <1>1, <1>10 DEF PongReceived, PingTimerTicks, PongTimerFires, Clients
    <2>2. \/ sock' = sock
          \/ sock' = CloseSocket(sock, client.ws) /\ sock[client.ws] \in {"open", "silent"}
      BY <1>10 DEF PongReceived, PingTimerTicks, PongTimerFires
    <2>3. \A s \in Sockets : /\ sock[s] \in {"connecting", "closing"}
                                  => sock'[s] \in {"connecting", "closing"}
                             /\ sock'[s] \in {"open", "silent"}
                                  => sock[s] \in {"open", "silent"}
      BY <1>1, <2>2, CloseSocketType DEF Clients
    <2> QED BY <1>3, <2>1, <2>3
  <1>11. CASE TokenChanges \/ UNCHANGED vars
    BY <1>11 DEF TokenChanges, vars, NeverStranded, Established, Owed
  <1> QED BY <1>4, <1>5, <1>6, <1>7, <1>8, <1>9, <1>10, <1>11 DEF Next

LEMMA WatchInvariant == Spec => [](IInv /\ NeverStranded /\ Established)
  <1>1. Init => NeverStranded /\ Established
    BY DEF Init, NeverStranded, Established
  <1>2. IInv /\ NeverStranded /\ Established /\ [Next]_vars
          => (IInv /\ NeverStranded /\ Established)'
    BY StepKeepsIInv, StepKeepsWatch
  <1> QED BY <1>1, <1>2, InitIInv, PTL DEF Spec

\* Whatever is hurried, a client in the states connecting and reconnecting
\* waits for a handshake or a close event that is still to come, or for the
\* timer of its next attempt (client.ts:91-150, 197-224): what
\* ConnectingIsDecided needs of the code, fairness of the browser aside.
THEOREM NeverLeftConnecting == Spec => []NeverStranded
  BY WatchInvariant, PTL

\* Unless a user was hurried, a socket whose peer fell silent is the one that
\* the running ping asks and that its timeout closes (client.ts:245-276):
\* what SilenceIsNoticed needs of the code.
THEOREM SilentIsPinged == Spec => []SilenceIsWatched
  <1>1. IInv /\ Established => SilenceIsWatched
    BY DEF IInv, HeldAlone, Live, Established, SilenceIsWatched
  <1> QED BY <1>1, WatchInvariant, PTL
=============================================================================
