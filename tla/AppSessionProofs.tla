-------------------------- MODULE AppSessionProofs ---------------------------
(* Theorems about SocketLink, and about AppSession over it, for any users,  *)
(* any number of sockets and any MaxReconnect >= 1.                         *)
EXTENDS AppSession, TLAPS

USE MaxReconnectAssumption, NoneAssumption, NoUserAssumption

-----------------------------------------------------------------------------
\* The service alone (SocketLink).

\* A socket in retry still has an attempt: what keeps the budget a natural.
BudgetLeft == \A s \in Sockets : link[s] = "connecting" => budget[s] >= 1

TInv == TypeOK /\ BudgetLeft

\* Some opened socket is alive, was closed on purpose, or has enough attempts
\* left to bring the shared counter to the threshold by itself.
Covers(s) ==
  \/ link[s] \in {"connected", "closed"}
  \/ link[s] = "connecting" /\ budget[s] + reconnectAttempts >= MaxReconnect

Covered == bluetoothMode \/ Opened = {} \/ \E s \in Sockets : Covers(s)

\* The initial state has the types and the budgets.
LEMMA InitTInv == Init => TInv
<1> SUFFICES ASSUME Init PROVE TInv
  OBVIOUS
<1>1. link \in [Sockets -> LinkStates] /\ budget \in [Sockets -> 0 .. MaxReconnect + 1]
  BY DEF Init, LinkStates
<1>2. BudgetLeft
  BY DEF Init, BudgetLeft
<1>3. QED
  BY <1>1, <1>2 DEF Init, TInv, TypeOK, ConnectionStatus

\* Every handler of the service keeps the types and the budgets.
LEMMA NextTInv == TInv /\ [Next]_vars => TInv'
<1> SUFFICES ASSUME TInv, [Next]_vars PROVE TInv'
  OBVIOUS
<1> USE DEF TInv, TypeOK, BudgetLeft, LinkStates, ConnectionStatus
<1>1. ASSUME NEW s \in Sockets, Connect(s) PROVE TInv'
  BY <1>1 DEF Connect, storeVars
<1>2. ASSUME NEW s \in Sockets, OnConnect(s) PROVE TInv'
  BY <1>2 DEF OnConnect
<1>3. ASSUME NEW s \in Sockets, OnDisconnect(s) PROVE TInv'
  BY <1>3 DEF OnDisconnect, serviceVars
<1>4. ASSUME NEW s \in Sockets, OnConnectError(s) PROVE TInv'
  BY <1>4 DEF OnConnectError, LinkAfterError
<1>5. CASE Disconnect
  BY <1>5 DEF Disconnect, LinkAfterClose, StatusAfterClose
<1>6. CASE UNCHANGED vars
  BY <1>6 DEF vars, serviceVars, storeVars, linkVars
<1>7. QED
  BY <1>1, <1>2, <1>3, <1>4, <1>5, <1>6 DEF Next, SocketEvent

\* The types of the service's, the store's and socket.io's fields.
THEOREM TypeCorrect == Spec => []TypeOK
<1>1. TInv => TypeOK
  BY DEF TInv
<1>2. QED
  BY InitTInv, NextTInv, <1>1, PTL DEF Spec

\* The status "connected" always has a live socket behind it.
THEOREM ConnectedIsLiveHolds == Spec => []ConnectedIsLive
<1>1. Init => ConnectedIsLive
  BY DEF Init, ConnectedIsLive
<1>2. TInv /\ ConnectedIsLive /\ [Next]_vars => ConnectedIsLive'
  <2> SUFFICES ASSUME TInv, ConnectedIsLive, [Next]_vars PROVE ConnectedIsLive'
    OBVIOUS
  <2> USE DEF TInv, TypeOK, ConnectedIsLive
  <2>1. ASSUME NEW s \in Sockets, Connect(s) PROVE ConnectedIsLive'
    BY <2>1 DEF Connect, storeVars
  <2>2. ASSUME NEW s \in Sockets, OnConnect(s) PROVE ConnectedIsLive'
    BY <2>2 DEF OnConnect
  <2>3. ASSUME NEW s \in Sockets, OnDisconnect(s) PROVE ConnectedIsLive'
    BY <2>3 DEF OnDisconnect
  <2>4. ASSUME NEW s \in Sockets, OnConnectError(s) PROVE ConnectedIsLive'
    BY <2>4 DEF OnConnectError
  <2>5. CASE Disconnect
    BY <2>5 DEF Disconnect, StatusAfterClose, CurrentConnected
  <2>6. CASE UNCHANGED vars
    BY <2>6 DEF vars, storeVars, linkVars
  <2>7. QED
    BY <2>1, <2>2, <2>3, <2>4, <2>5, <2>6 DEF Next, SocketEvent
<1>3. QED
  BY InitTInv, NextTInv, <1>1, <1>2, PTL DEF Spec

\* Each step leaves somebody able to reach the fallback threshold.
LEMMA NextCovered == TInv /\ Covered /\ [Next]_vars => Covered'
<1> SUFFICES ASSUME TInv, Covered, [Next]_vars PROVE Covered'
  OBVIOUS
<1> USE DEF TInv, TypeOK, BudgetLeft, LinkStates, Covered, Covers, Opened
<1>1. ASSUME NEW s \in Sockets, Connect(s) PROVE Covered'
  <2>1. Covers(s)'
    BY <1>1 DEF Connect
  <2>2. QED
    BY <2>1
<1>2. ASSUME NEW s \in Sockets, OnConnect(s) PROVE Covered'
  <2>1. Covers(s)'
    BY <1>2 DEF OnConnect
  <2>2. QED
    BY <2>1
<1>3. ASSUME NEW s \in Sockets, OnDisconnect(s) PROVE Covered'
  <2>1. Covers(s)'
    BY <1>3 DEF OnDisconnect, serviceVars
  <2>2. QED
    BY <2>1
<1>4. ASSUME NEW s \in Sockets, OnConnectError(s) PROVE Covered'
  <2>1. CASE bluetoothMode
    BY <1>4, <2>1 DEF OnConnectError
  <2>2. CASE ~bluetoothMode
    <3>1. PICK x \in Sockets : Covers(x)
      BY <1>4, <2>2 DEF OnConnectError
    <3>2. CASE x # s
      BY <1>4, <3>1, <3>2 DEF OnConnectError, LinkAfterError
    <3>3. CASE x = s /\ budget[s] = 1
      <4>1. reconnectAttempts + 1 >= MaxReconnect
        BY <1>4, <3>1, <3>3 DEF OnConnectError
      <4>2. FallbackDue(reconnectAttempts')
        BY <1>4, <4>1 DEF OnConnectError, FallbackDue
      <4>3. bluetoothMode'
        BY <1>4, <4>2 DEF OnConnectError
      <4>4. QED
        BY <4>3
    <3>4. CASE x = s /\ budget[s] # 1
      BY <1>4, <3>1, <3>4 DEF OnConnectError, LinkAfterError
    <3>5. QED
      BY <3>2, <3>3, <3>4
  <2>3. QED
    BY <2>1, <2>2
<1>5. CASE Disconnect
  <2>1. PICK s \in Sockets : s = current
    BY <1>5 DEF Disconnect
  <2>2. Covers(s)'
    BY <1>5, <2>1 DEF Disconnect, LinkAfterClose
  <2>3. QED
    BY <2>2
<1>6. CASE UNCHANGED vars
  BY <1>6 DEF vars, serviceVars, storeVars, linkVars
<1>7. QED
  BY <1>1, <1>2, <1>3, <1>4, <1>5, <1>6 DEF Next, SocketEvent

\* However many sockets share the counter and reset it, the fallback comes
\* before the last of them gives up.
THEOREM NeverStrandedHolds == Spec => []NeverStranded
<1>1. Init => Covered
  BY DEF Init, Covered, Opened
<1>2. Covered => NeverStranded
  BY DEF Covered, Covers, NeverStranded, Opened
<1>3. QED
  BY InitTInv, NextTInv, NextCovered, <1>1, <1>2, PTL DEF Spec

-----------------------------------------------------------------------------
\* The application that drives it (AppSession).

Alive(s) == link[s] \in {"connecting", "connected"}

\* The socket of an attached user is the current one, and no other is alive.
Attached ==
  /\ user \in Users \cup {None} /\ attached \in Users \cup {None}
  /\ attached = None <=> current = None
  /\ current \in Sockets => link[current] # "unused"
  /\ \A s \in Sockets : Alive(s) => s = current

\* What the state of the current socket says of the store.
Reported ==
  /\ connectionStatus = "connected" <=> CurrentConnected
  /\ current \in Sockets =>
       /\ link[current] = "connecting" =>
            bluetoothMode \/ budget[current] + reconnectAttempts >= MaxReconnect
       /\ link[current] = "gaveUp" => bluetoothMode
       /\ link[current] = "closed" => connectionStatus # "error"

SInv == TInv /\ Attached /\ Reported

\* Every step of the application is a step of the service or leaves it alone.
LEMMA AppStep == [AppNext]_allVars => [Next]_vars
<1> SUFFICES ASSUME [AppNext]_allVars PROVE [Next]_vars
  OBVIOUS
<1>1. CASE Events
  BY <1>1 DEF Events, Next
<1>2. CASE Setup
  BY <1>2 DEF Setup, Next
<1>3. CASE Cleanup
  BY <1>3 DEF Cleanup, Next
<1>4. CASE (\E u \in Users \cup {None} : SetUser(u)) \/ UNCHANGED allVars
  BY <1>4 DEF SetUser, allVars
<1>5. QED
  BY <1>1, <1>2, <1>3, <1>4 DEF AppNext

LEMMA InitSInv == AppInit => SInv
<1> SUFFICES ASSUME AppInit PROVE SInv
  OBVIOUS
<1>1. TInv
  BY InitTInv DEF AppInit
<1>2. /\ current = None /\ connectionStatus = "disconnected"
      /\ user = None /\ attached = None
      /\ \A s \in Sockets : link[s] = "unused"
  BY DEF AppInit, Init
<1>3. QED
  BY <1>1, <1>2 DEF SInv, Attached, Reported, Alive, CurrentConnected

\* The effect opens a socket only when no other is alive.
LEMMA SetupSInv == ASSUME SInv, Setup, TInv' PROVE SInv'
<1>1. /\ attached = None /\ user # None /\ attached' = user /\ user' = user
      /\ current = None /\ user \in Users
  BY DEF Setup, SInv, Attached
<1>2. ~CurrentConnected
  BY <1>1 DEF CurrentConnected
<1>3. PICK s \in Sockets : Connect(s)
  BY <1>2 DEF Setup
<1>4. /\ current' = s /\ link' = [link EXCEPT ![s] = "connecting"]
      /\ budget' = [budget EXCEPT ![s] = MaxReconnect + 1]
      /\ UNCHANGED <<reconnectAttempts, connectionStatus, bluetoothMode>>
  BY <1>3 DEF Connect, storeVars
<1>5. /\ link'[s] = "connecting" /\ budget'[s] = MaxReconnect + 1
      /\ \A r \in Sockets : r # s => link'[r] = link[r]
      /\ reconnectAttempts \in Nat
  BY <1>4 DEF SInv, TInv, TypeOK
<1>6. Attached'
  BY <1>1, <1>4, <1>5 DEF SInv, Attached, Alive
<1>7. Reported'
  BY <1>2, <1>4, <1>5 DEF SInv, Reported, CurrentConnected
<1>8. QED
  BY <1>6, <1>7 DEF SInv

\* The cleanup closes the only socket that may be alive.
LEMMA CleanupSInv == ASSUME SInv, Cleanup, TInv' PROVE SInv'
<1>1. /\ attached # None /\ attached' = None /\ user' = user /\ current \in Sockets
  BY DEF Cleanup, SInv, Attached, TInv, TypeOK
<1>2. /\ current' = None /\ link' = [link EXCEPT ![current] = "closed"]
      /\ connectionStatus' = IF CurrentConnected THEN "disconnected" ELSE connectionStatus
  BY <1>1 DEF Cleanup, Disconnect, LinkAfterClose, StatusAfterClose
<1>3. \A s \in Sockets : link'[s] = IF s = current THEN "closed" ELSE link[s]
  BY <1>2 DEF SInv, TInv, TypeOK
<1>4. Attached'
  BY <1>1, <1>2, <1>3 DEF SInv, Attached, Alive
<1>5. Reported'
  BY <1>2 DEF SInv, Reported, CurrentConnected
<1>6. QED
  BY <1>4, <1>5 DEF SInv

\* A socket that raises an event is the current one.
LEMMA EventSInv == ASSUME SInv, Events, TInv' PROVE SInv'
<1>1. PICK s \in Sockets : SocketEvent(s)
  BY DEF Events
<1>2. UNCHANGED <<user, attached>>
  BY DEF Events, appVars
<1>3. s = current /\ current' = current
  BY <1>1 DEF SocketEvent, OnConnect, OnDisconnect, OnConnectError, serviceVars, SInv,
     Attached, Alive
<1>4. /\ link \in [Sockets -> LinkStates] /\ budget \in [Sockets -> 0 .. MaxReconnect + 1]
      /\ reconnectAttempts \in Nat /\ bluetoothMode \in BOOLEAN /\ budget[s] \in Nat
  BY DEF SInv, TInv, TypeOK
<1>5. /\ \A r \in Sockets : r # s => link'[r] = link[r]
      /\ link'[s] # "unused"
  BY <1>1, <1>4 DEF SocketEvent, OnConnect, OnDisconnect, OnConnectError, LinkAfterError
<1>6. Attached'
  BY <1>2, <1>3, <1>5 DEF SInv, Attached, Alive
<1>7. CASE OnConnect(s)
  <2>1. link'[s] = "connected" /\ connectionStatus' = "connected"
    BY <1>4, <1>7 DEF OnConnect
  <2>2. Reported'
    BY <1>3, <2>1 DEF Reported, CurrentConnected
  <2>3. QED
    BY <1>6, <2>2 DEF SInv
<1>8. CASE OnDisconnect(s)
  <2>1. reconnectAttempts' = reconnectAttempts /\ connectionStatus' = "disconnected"
    BY <1>8 DEF OnDisconnect, serviceVars
  <2>2. \/ link'[s] = "connecting" /\ budget'[s] = MaxReconnect
        \/ link'[s] = "closed"
    BY <1>4, <1>8 DEF OnDisconnect
  <2>3. Reported'
    BY <1>3, <1>4, <2>1, <2>2 DEF Reported, CurrentConnected
  <2>4. QED
    BY <1>6, <2>3 DEF SInv
<1>9. CASE OnConnectError(s)
  <2>1. /\ link[s] = "connecting" /\ budget'[s] = budget[s] - 1 /\ budget[s] >= 1
        /\ reconnectAttempts' = reconnectAttempts + 1 /\ connectionStatus' = "error"
        /\ bluetoothMode' = (bluetoothMode \/ FallbackDue(reconnectAttempts'))
    BY <1>4, <1>9 DEF OnConnectError, SInv, TInv, BudgetLeft
  <2>2. bluetoothMode \/ budget[s] + reconnectAttempts >= MaxReconnect
    BY <1>3, <2>1 DEF SInv, Reported
  <2>3. CASE bluetoothMode
    <3>1. bluetoothMode'
      BY <2>1, <2>3
    <3>2. link'[s] \in {"connecting", "gaveUp"}
      BY <1>4, <1>9 DEF OnConnectError, LinkAfterError
    <3>3. Reported'
      BY <1>3, <2>1, <3>1, <3>2 DEF Reported, CurrentConnected
    <3>4. QED
      BY <1>6, <3>3 DEF SInv
  <2>4. CASE ~bluetoothMode /\ budget[s] = 1
    <3>1. FallbackDue(reconnectAttempts')
      BY <1>4, <2>1, <2>2, <2>4 DEF FallbackDue
    <3>2. bluetoothMode'
      BY <2>1, <3>1
    <3>3. link'[s] = "gaveUp"
      BY <1>4, <1>9, <2>4 DEF OnConnectError, LinkAfterError
    <3>4. Reported'
      BY <1>3, <2>1, <3>2, <3>3 DEF Reported, CurrentConnected
    <3>5. QED
      BY <1>6, <3>4 DEF SInv
  <2>5. CASE ~bluetoothMode /\ budget[s] # 1
    <3>1. link'[s] = "connecting"
      BY <1>4, <1>9, <2>5 DEF OnConnectError, LinkAfterError
    <3>2. budget'[s] + reconnectAttempts' >= MaxReconnect
      BY <1>4, <2>1, <2>2, <2>5
    <3>3. Reported'
      BY <1>3, <2>1, <3>1, <3>2 DEF Reported, CurrentConnected
    <3>4. QED
      BY <1>6, <3>3 DEF SInv
  <2>6. QED
    BY <2>3, <2>4, <2>5
<1>10. QED
  BY <1>1, <1>7, <1>8, <1>9 DEF SocketEvent

LEMMA AlwaysSInv == AppSpec => []SInv
<1>1. SInv /\ [AppNext]_allVars => SInv'
  <2> SUFFICES ASSUME SInv, [AppNext]_allVars PROVE SInv'
    OBVIOUS
  <2>1. TInv'
    BY AppStep, NextTInv DEF SInv
  <2>2. ASSUME NEW u \in Users \cup {None}, SetUser(u) PROVE SInv'
    BY <2>1, <2>2 DEF SetUser, vars, serviceVars, storeVars, linkVars, SInv, Attached,
       Reported, Alive, CurrentConnected
  <2>3. CASE UNCHANGED allVars
    BY <2>1, <2>3 DEF allVars, appVars, vars, serviceVars, storeVars, linkVars, SInv,
       Attached, Reported, Alive, CurrentConnected
  <2>4. QED
    BY <2>1, <2>2, <2>3, SetupSInv, CleanupSInv, EventSInv DEF AppNext
<1>2. QED
  BY <1>1, InitSInv, PTL DEF AppSpec

-----------------------------------------------------------------------------
\* The application uses the service as its own specification allows: what was
\* proved of SocketLink holds of the session too.
THEOREM UsesTheService == AppSpec => Spec
<1>1. AppInit => Init
  BY DEF AppInit
<1>2. QED
  BY <1>1, AppStep, PTL DEF AppSpec, Spec

\* authStore.ts:47-85, App.tsx:31-40: the types of the composition.
THEOREM AppTypes == AppSpec => []AppTypeOK
<1>1. SInv => AppTypeOK
  BY DEF SInv, TInv, Attached, AppTypeOK
<1>2. QED
  BY <1>1, AlwaysSInv, PTL

\* App.tsx:31-40: whatever the order of logins, logouts and socket events, only
\* the current socket of an attached user is ever alive.
THEOREM NoOrphanHolds == AppSpec => []NoOrphan
<1>1. SInv => NoOrphan
  BY DEF SInv, TInv, TypeOK, Attached, Alive, NoOrphan
<1>2. QED
  BY <1>1, AlwaysSInv, PTL

\* socket.service.ts:42-62 and Chat.tsx:135: the status is that of the socket
\* sendMessage uses, however many sockets came before it.
THEOREM StatusIsFaithful == AppSpec => []StatusFaithful
<1>1. SInv => StatusFaithful
  BY DEF SInv, Reported, StatusFaithful, InputDisabled
<1>2. QED
  BY <1>1, AlwaysSInv, PTL

\* ConnectionStatus.tsx:29-35: "Attempting to reconnect..." is never a lie to a
\* user who is attached.
THEOREM PromiseIsKept == AppSpec => []ReconnectPromiseKept
<1>1. SInv => ReconnectPromiseKept
  <2> SUFFICES ASSUME SInv, attached # None, Banner = "Connection Error"
               PROVE  \E s \in Sockets : s = current /\ link[s] = "connecting"
    BY DEF ReconnectPromiseKept
  <2>1. ~bluetoothMode /\ connectionStatus = "error"
    BY DEF Banner, SInv, TInv, TypeOK, ConnectionStatus
  <2>2. PICK s \in Sockets : s = current
    BY DEF SInv, Attached, TInv, TypeOK
  <2>3. link[s] \in LinkStates /\ link[s] # "unused"
    BY <2>2 DEF SInv, TInv, TypeOK, Attached
  <2>4. link[s] \notin {"connected", "gaveUp", "closed"}
    BY <2>1, <2>2 DEF SInv, Reported, CurrentConnected
  <2>5. QED
    BY <2>2, <2>3, <2>4 DEF LinkStates
<1>2. QED
  BY <1>1, AlwaysSInv, PTL

\* socket.service.ts:53-62: the attached user is on Bluetooth before his socket
\* gives up, whatever sockets were abandoned half-way through their retries.
THEOREM SessionIsNeverStranded == AppSpec => []SessionNeverStranded
<1>1. SInv => SessionNeverStranded
  BY DEF SInv, Reported, SessionNeverStranded
<1>2. QED
  BY <1>1, AlwaysSInv, PTL
=============================================================================
