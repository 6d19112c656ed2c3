----------------------------- MODULE AppSession -----------------------------
(***************************************************************************)
(* App.tsx drives SocketLink: its effect on the `user` object of authStore *)
(* (lines 31-40) opens the socket of a new user object and closes the one  *)
(* of the object it replaces.  Every write of `user` makes a new object,   *)
(* so login, logout, checkAuth and updateUser all restart the link.        *)
(***************************************************************************)
EXTENDS SocketLink

CONSTANT Users  \* the identities of the user objects authStore sets

ASSUME NoUserAssumption == None \notin Users

VARIABLES user,     \* authStore's user
          attached  \* the user object the effect last ran for, or None

appVars == <<user, attached>>
allVars == <<vars, appVars>>

AppInit == Init /\ user = None /\ attached = None

\* authStore replaces its user; the effect runs later, after the render.
SetUser(u) ==
  /\ u # user
  /\ user' = u
  /\ UNCHANGED <<vars, attached>>

\* The cleanup of lines 36-38: run when `user` is no longer the object the
\* effect closed over, before it is run again.  The variant compares ids, and
\* so skips a logout, where there is no id to compare.
StaleEffectById == user # None /\ user # attached
StaleEffect == user # attached

Cleanup ==
  /\ attached # None
  /\ StaleEffect
  /\ attached' = None
  /\ UNCHANGED user
  /\ IF current = None THEN UNCHANGED vars ELSE Disconnect

\* Lines 32-33.  connect() returns early on a connected socket (line 22).
Setup ==
  /\ attached = None
  /\ user # None
  /\ attached' = user
  /\ UNCHANGED user
  /\ IF CurrentConnected THEN UNCHANGED vars ELSE \E s \in Sockets : Connect(s)

\* What ConnectionStatus.tsx tells the user.
Banner == IF bluetoothMode THEN "Bluetooth Mode"
          ELSE CASE connectionStatus = "connected" -> "Online"
                 [] connectionStatus = "error" -> "Connection Error"
                 [] OTHER -> "Offline"

\* The `disabled` of the message input (Chat.tsx:135).
InputDisabled == connectionStatus = "disconnected" /\ ~bluetoothMode

Events == (\E s \in Sockets : SocketEvent(s)) /\ UNCHANGED appVars

AppNext == (\E u \in Users \cup {None} : SetUser(u)) \/ Cleanup \/ Setup \/ Events

\* React runs the effects of a committed render; socket.io makes its attempts.
AppSpec == AppInit /\ [][AppNext]_allVars
FairAppSpec ==
  /\ AppSpec
  /\ WF_allVars(Cleanup) /\ WF_allVars(Setup)
  /\ \A s \in Sockets : WF_allVars(Attempt(s) /\ UNCHANGED appVars)

-----------------------------------------------------------------------------
AppTypeOK == TypeOK /\ user \in Users \cup {None} /\ attached \in Users \cup {None}

\* Used as App.tsx uses it the service never has an orphan: a socket other than
\* the current one is dead, and without an attached user all are.
NoOrphan == \A s \in Sockets : link[s] \in {"connecting", "connected"} =>
                                 (s = current /\ attached # None)

\* The status is that of the socket sendMessage would use (socket.service.ts:106),
\* so the input is never disabled while a message could be sent.
StatusFaithful ==
  /\ connectionStatus = "connected" <=> CurrentConnected
  /\ InputDisabled => ~CurrentConnected

\* Of a user who is signed in the banner "Attempting to reconnect..." is true: a
\* next attempt is coming.  The status may be an old one: a logout in the middle
\* of the retries leaves it as it is, and the next user finds it
\* (ConnectionStatus.tsx:29-35, socket.service.ts:131-136).
ReconnectPromiseKept ==
  (attached # None /\ Banner = "Connection Error") =>
    \E s \in Sockets : s = current /\ link[s] = "connecting"

\* The attached user is moved to Bluetooth before socket.io gives up on his
\* socket, although the counter of connect_error events (socket.service.ts:55)
\* is not reset when a restart abandons a socket half-way through its retries.
SessionNeverStranded ==
  \A s \in Sockets : (s = current /\ link[s] = "gaveUp") => bluetoothMode

\* After a logout that lasts, no socket of the old session stays alive to
\* deliver its messages.
LogoutSilences ==
  <>[](user = None) => <>[](\A s \in Sockets : link[s] \in {"unused", "gaveUp", "closed"})
=============================================================================
