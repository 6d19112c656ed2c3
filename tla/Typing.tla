------------------------------- MODULE Typing -------------------------------
(***************************************************************************)
(* "Is typing" on its way from one user to others: handleTyping and its     *)
(* timer (pages/Chat.tsx), the emits of socket.service.ts, the gateway's    *)
(* rooms, and typingUsers in the stores of the others, which have no expiry *)
(* of their own.                                                            *)
(*                                                                         *)
(* A conversation is named by the other user in it.                         *)
(***************************************************************************)
EXTENDS Naturals, Sequences

CONSTANTS Peers,
          MaxMounts,  \* bound: how often the page is mounted
          MaxKeys,    \* bound: keystrokes; typing ends at some time
          None

ASSUME TypingAssumption ==
  None \notin Peers /\ MaxMounts \in Nat \ {0} /\ MaxKeys \in Nat

VARIABLES active,    \* activeConversationId
          mount,     \* which mount of the page this is
          timer,     \* typingTimeoutRef of each mount: whom its timer will tell
          keys,      \* keystrokes so far
          linkUp,    \* this user's socket is connected
          uplink,    \* events emitted, not yet taken by the gateway
          joined,    \* peers whose socket is in their room
          downlink,  \* events sent to each peer, not yet handled
          typing,    \* typingUsers[this user] in the store of each peer
          owed       \* history: peers for whom a typing:stop got lost, or will
                     \* never be sent

pageVars == <<active, mount, timer, keys>>
netVars == <<linkUp, uplink, joined, downlink>>
peerVars == <<typing, owed>>
vars == <<pageVars, netVars, peerVars>>

Mounts == 1 .. MaxMounts
Event == [type : {"start", "stop"}, to : Peers]
StopsIn(q) == {q[i].to : i \in {j \in DOMAIN q : q[j].type = "stop"}}
StartsIn(q) == {q[i].to : i \in {j \in DOMAIN q : q[j].type = "start"}}

Init ==
  /\ active = None /\ mount = 1 /\ keys = 0
  /\ timer = [m \in Mounts |-> None]
  /\ linkUp = FALSE /\ uplink = <<>>
  /\ joined = {} /\ downlink = [r \in Peers |-> <<>>]
  /\ typing = [r \in Peers |-> FALSE]
  /\ owed = {}

-----------------------------------------------------------------------------
\* The page.

SetActiveConversation(r) ==
  /\ active' = r
  /\ UNCHANGED <<mount, timer, keys, netVars, peerVars>>

\* sendTypingStart and sendTypingStop: only on a connected socket.
Emit(type, r) ==
  uplink' = IF linkUp THEN Append(uplink, [type |-> type, to |-> r]) ELSE uplink

\* The peer whose stop goes with the timer that handleTyping clears.
Forgotten(r) == {timer[mount]} \ {r, None}

\* Without a conversation handleTyping returns (line 60); without the test it
\* would send to nobody.
TypableAlways == TRUE
Typable == active # None

\* A keystroke in the input, which stays enabled without a link once the status
\* is "error" or Bluetooth mode is on (Chat.tsx:135).
HandleTyping ==
  /\ keys < MaxKeys
  /\ Typable
  /\ keys' = keys + 1
  /\ Emit("start", active)
  /\ timer' = [timer EXCEPT ![mount] = active]
  /\ owed' = owed \cup Forgotten(active)
  /\ UNCHANGED <<active, mount, linkUp, joined, downlink, typing>>

\* Whom the callback tells: the receiver it was made for (line 76), and whoever
\* is active when it runs.
ToldActive(m) == IF active = None THEN timer[m] ELSE active
Told(m) == timer[m]

TimerFires(m) ==
  /\ timer[m] # None
  /\ Emit("stop", Told(m))
  /\ timer' = [timer EXCEPT ![m] = None]
  /\ owed' = IF linkUp THEN owed ELSE owed \cup {timer[m]}
  /\ UNCHANGED <<active, mount, keys, linkUp, joined, downlink, typing>>

\* Another route and back: the next mount has a timer of its own, and nothing
\* clears the timer of the last one.
Remount ==
  /\ mount < MaxMounts
  /\ mount' = mount + 1
  /\ UNCHANGED <<active, timer, keys, netVars, peerVars>>

\* The tab is closed or loaded again: its timers are gone.
CloseTab ==
  /\ mount < MaxMounts
  /\ mount' = mount + 1
  /\ active' = None
  /\ timer' = [m \in Mounts |-> None]
  /\ linkUp' = FALSE
  /\ uplink' = <<>>
  /\ owed' = owed \cup ({timer[m] : m \in Mounts} \ {None}) \cup StopsIn(uplink)
  /\ UNCHANGED <<keys, joined, downlink, typing>>

-----------------------------------------------------------------------------
\* The network and the gateway.

LinkUp ==
  /\ ~linkUp
  /\ linkUp' = TRUE
  /\ UNCHANGED <<pageVars, uplink, joined, downlink, peerVars>>

\* Also disconnect() at logout: what the gateway has not taken is lost.
LinkDown ==
  /\ linkUp
  /\ linkUp' = FALSE
  /\ uplink' = <<>>
  /\ owed' = owed \cup StopsIn(uplink)
  /\ UNCHANGED <<pageVars, joined, downlink, typing>>

\* WebsocketGateway.typing and stop: to the room of the receiver, empty if the
\* receiver is away.
Forward ==
  /\ uplink # <<>>
  /\ uplink' = Tail(uplink)
  /\ LET e == Head(uplink) IN
     IF e.to \in joined
     THEN /\ downlink' = [downlink EXCEPT ![e.to] = Append(@, e)]
          /\ UNCHANGED owed
     ELSE /\ owed' = owed \cup (IF e.type = "stop" THEN {e.to} ELSE {})
          /\ UNCHANGED downlink
  /\ UNCHANGED <<pageVars, linkUp, joined, typing>>

PeerJoins(r) ==
  /\ r \notin joined
  /\ joined' = joined \cup {r}
  /\ UNCHANGED <<pageVars, linkUp, uplink, downlink, peerVars>>

\* A peer's link fails: its store keeps what it shows.
PeerDrops(r) ==
  /\ r \in joined
  /\ joined' = joined \ {r}
  /\ downlink' = [downlink EXCEPT ![r] = <<>>]
  /\ owed' = owed \cup StopsIn(downlink[r])
  /\ UNCHANGED <<pageVars, linkUp, uplink, typing>>

\* A peer loads its page again: typingUsers is only in memory.
PeerReloads(r) ==
  /\ typing[r]
  /\ typing' = [typing EXCEPT ![r] = FALSE]
  /\ joined' = joined \ {r}
  /\ downlink' = [downlink EXCEPT ![r] = <<>>]
  /\ owed' = owed \cup StopsIn(downlink[r])
  /\ UNCHANGED <<pageVars, linkUp, uplink>>

\* What the typing:start and typing:stop handlers write, and a start that
\* toggles.
ShownToggled(r, e) == e.type = "start" /\ ~typing[r]
Shown(r, e) == e.type = "start"

\* A stop settles what was owed, unless another start follows it.
HandleTypingEvent(r) ==
  /\ downlink[r] # <<>>
  /\ LET e == Head(downlink[r])
         rest == Tail(downlink[r]) IN
     /\ downlink' = [downlink EXCEPT ![r] = rest]
     /\ typing' = [typing EXCEPT ![r] = Shown(r, e)]
     /\ owed' = IF e.type = "stop" /\ r \notin StartsIn(rest) \cup StartsIn(uplink)
                THEN owed \ {r} ELSE owed
  /\ UNCHANGED <<pageVars, linkUp, uplink, joined>>

Next ==
  \/ \E r \in Peers : \/ SetActiveConversation(r)
                      \/ PeerJoins(r) \/ PeerDrops(r) \/ PeerReloads(r)
                      \/ HandleTypingEvent(r)
  \/ HandleTyping \/ Remount \/ CloseTab \/ LinkUp \/ LinkDown \/ Forward
  \/ \E m \in Mounts : TimerFires(m)

Spec == Init /\ [][Next]_vars

\* A timer that nothing clears fires, and what was sent on links that stay up
\* is handled.
FairSpec ==
  /\ Spec
  /\ WF_vars(Forward)
  /\ \A m \in Mounts : WF_vars(TimerFires(m))
  /\ \A r \in Peers : WF_vars(HandleTypingEvent(r))

-----------------------------------------------------------------------------
TypeOK ==
  /\ active \in Peers \cup {None}
  /\ mount \in Mounts
  /\ timer \in [Mounts -> Peers \cup {None}]
  /\ keys \in 0 .. MaxKeys
  /\ linkUp \in BOOLEAN
  /\ uplink \in Seq(Event)
  /\ joined \subseteq Peers
  /\ downlink \in [Peers -> Seq(Event)]
  /\ typing \in [Peers -> BOOLEAN]
  /\ owed \subseteq Peers

StopComing(r) ==
  \/ \E m \in Mounts : timer[m] = r
  \/ r \in StopsIn(uplink) \cup StopsIn(downlink[r])

\* A peer sees "typing" only while a stop for it is still to come, or one was
\* lost in a way that owed names: the next conversation took the timer
\* (Chat.tsx:71-75), no link when the timer fired (socket.service.ts:120), a
\* link that failed with the stop under way, a peer that was away.
TypingHasEnd == \A r \in Peers : typing[r] => StopComing(r) \/ r \in owed

\* So it ends once the typing does, whatever the peer has open by then.
TypingEnds == \A r \in Peers : typing[r] ~> (~typing[r] \/ r \in owed)
=============================================================================
