----------------------------- MODULE SocketLink -----------------------------
(***************************************************************************)
(* The connection half of frontend/src/services/socket.service.ts and the  *)
(* two fields of chatStore.ts it drives, connectionStatus and              *)
(* bluetoothMode.  SocketService.connect makes a fresh socket.io socket    *)
(* whenever the current one is not connected; a socket it replaces keeps   *)
(* its event handlers and its own reconnection timer, so several sockets   *)
(* may report into the one store.                                          *)
(*                                                                         *)
(* External: the socket.io client.  A socket makes a first attempt and     *)
(* then MaxReconnect retries; after a connection that drops it has         *)
(* MaxReconnect attempts.  Each failed attempt raises connect_error.       *)
(***************************************************************************)
EXTENDS Naturals

CONSTANTS Sockets,       \* the sockets connect() may create in one page life
          MaxReconnect,  \* maxReconnectAttempts (10 in the code)
          None           \* this.socket = null

ASSUME MaxReconnectAssumption == MaxReconnect \in Nat \ {0}
ASSUME NoneAssumption == None \notin Sockets

VARIABLES current,            \* this.socket
          link,               \* what each socket is doing (socket.io)
          budget,             \* attempts each socket still has (socket.io)
          reconnectAttempts,  \* this.reconnectAttempts
          connectionStatus,   \* the store's connectionStatus
          bluetoothMode       \* the store's bluetoothMode

serviceVars == <<current, reconnectAttempts>>
storeVars == <<connectionStatus, bluetoothMode>>
linkVars == <<link, budget>>
vars == <<serviceVars, storeVars, linkVars>>

LinkStates == {"unused", "connecting", "connected", "gaveUp", "closed"}
ConnectionStatus == {"connected", "disconnected", "error"}

Opened == {s \in Sockets : link[s] # "unused"}

\* this.socket?.connected, the test of connect() and of every emit.
CurrentConnected == \E s \in Sockets : s = current /\ link[s] = "connected"

Init ==
  /\ current = None
  /\ link = [s \in Sockets |-> "unused"]
  /\ budget = [s \in Sockets |-> 0]
  /\ reconnectAttempts = 0
  /\ connectionStatus = "disconnected"
  /\ bluetoothMode = FALSE

\* Line 58, and the same test with > for >=.
FallbackDueLate(attempts) == attempts > MaxReconnect
FallbackDue(attempts) == attempts >= MaxReconnect

\* What a failed attempt leaves of a socket (socket.io).
LinkAfterError(s) == IF budget[s] = 1 THEN "gaveUp" ELSE "connecting"

\* The status disconnect() leaves: socket.io raises 'disconnect' at once if the
\* socket was connected, and nothing otherwise.  The variant takes the handlers
\* off first.
StatusAfterCloseMuted == connectionStatus
StatusAfterClose ==
  IF CurrentConnected THEN "disconnected" ELSE connectionStatus

\* socket.disconnect() also stops a socket that is still retrying; a variant
\* that only bothers with a connected one.
LinkAfterCloseLazy(l) == IF l = "connected" THEN "closed" ELSE l
LinkAfterClose(l) == "closed"

\* connect(): io() with a fresh manager; the previous socket is only forgotten.
Connect(s) ==
  /\ ~CurrentConnected
  /\ link[s] = "unused"
  /\ current' = s
  /\ link' = [link EXCEPT ![s] = "connecting"]
  /\ budget' = [budget EXCEPT ![s] = MaxReconnect + 1]
  /\ UNCHANGED <<reconnectAttempts, storeVars>>

\* The 'connect' handler, when an attempt of s succeeds.
OnConnect(s) ==
  /\ link[s] = "connecting"
  /\ link' = [link EXCEPT ![s] = "connected"]
  /\ reconnectAttempts' = 0
  /\ connectionStatus' = "connected"
  /\ UNCHANGED <<current, budget, bluetoothMode>>

\* The 'disconnect' handler: a lost transport is retried by socket.io, a
\* disconnection by the server ('io server disconnect') is not.
OnDisconnect(s) ==
  /\ link[s] = "connected"
  /\ \/ /\ link' = [link EXCEPT ![s] = "connecting"]
        /\ budget' = [budget EXCEPT ![s] = MaxReconnect]
     \/ /\ link' = [link EXCEPT ![s] = "closed"]
        /\ budget' = [budget EXCEPT ![s] = 0]
  /\ connectionStatus' = "disconnected"
  /\ UNCHANGED <<serviceVars, bluetoothMode>>

\* The 'connect_error' handler.  After the last attempt socket.io stops.
OnConnectError(s) ==
  /\ link[s] = "connecting"
  /\ budget' = [budget EXCEPT ![s] = @ - 1]
  /\ link' = [link EXCEPT ![s] = LinkAfterError(s)]
  /\ reconnectAttempts' = reconnectAttempts + 1
  /\ connectionStatus' = "error"
  /\ bluetoothMode' = (bluetoothMode \/ FallbackDue(reconnectAttempts'))
  /\ UNCHANGED current

\* disconnect(): closes the current socket only.
Disconnect ==
  /\ current # None
  /\ link' = [link EXCEPT ![current] = LinkAfterClose(@)]
  /\ budget' = [budget EXCEPT ![current] = 0]
  /\ connectionStatus' = StatusAfterClose
  /\ current' = None
  /\ UNCHANGED <<reconnectAttempts, bluetoothMode>>

SocketEvent(s) == OnConnect(s) \/ OnDisconnect(s) \/ OnConnectError(s)

Next ==
  \/ \E s \in Sockets : Connect(s) \/ SocketEvent(s)
  \/ Disconnect

Spec == Init /\ [][Next]_vars

\* socket.io's timer always makes the next attempt of a socket in retry.
Attempt(s) == OnConnect(s) \/ OnConnectError(s)
FairSpec == Spec /\ \A s \in Sockets : WF_vars(Attempt(s))

-----------------------------------------------------------------------------
TypeOK ==
  /\ current \in Sockets \cup {None}
  /\ link \in [Sockets -> LinkStates]
  /\ budget \in [Sockets -> 0 .. MaxReconnect + 1]
  /\ reconnectAttempts \in Nat
  /\ connectionStatus \in ConnectionStatus
  /\ bluetoothMode \in BOOLEAN

\* "connected" is never shown without a live socket: every way a socket can
\* be lost (drop, server close, disconnect()) overwrites the status, whichever
\* of several sockets is concerned (socket.service.ts:42-62, 131-136).
ConnectedIsLive ==
  connectionStatus = "connected" => \E s \in Sockets : link[s] = "connected"

\* When every socket that was opened has used up its attempts the user has
\* been moved to Bluetooth: socket.io's budget (reconnectionAttempts,
\* socket.service.ts:33) never runs out before the service's own counter
\* reaches the threshold of line 58, although that counter is shared by all
\* sockets and reset by any of them (line 44).
NeverStranded ==
  (Opened # {} /\ \A s \in Opened : link[s] = "gaveUp") => bluetoothMode

\* A page whose sockets never connect again and are not closed ends in
\* Bluetooth mode (socket.service.ts:53-62): retries do not run for ever.
FallbackReached ==
  <>[](Opened # {} /\ \A s \in Opened : link[s] \in {"connecting", "gaveUp"})
    => <>bluetoothMode

=============================================================================
