----------------------------- MODULE PageProofs ------------------------------
(* Theorems about the two pages that wait for a timer: the chat page        *)
(* (Typing), for any peers, mounts and number of keystrokes, and the        *)
(* contacts page (ContactSearch), for any queries and number of runs.       *)
EXTENDS Typing, ContactSearch, TLAPS

USE TypingAssumption

\* The last word of the queue q on r is a start.
Open(q, r) ==
  \E i \in DOMAIN q :
    /\ q[i].type = "start" /\ q[i].to = r
    /\ \A j \in DOMAIN q : j > i => ~(q[j].type = "stop" /\ q[j].to = r)

\* A timer will send the stop, or it is known to be lost.
Held(r) == (\E m \in Mounts : timer[m] = r) \/ r \in owed

\* What is shown, or will be once the queues are handled, has its end.
Ends(r) ==
  /\ typing[r] => Held(r) \/ r \in StopsIn(uplink) \cup StopsIn(downlink[r])
  /\ Open(uplink, r) => Held(r)
  /\ Open(downlink[r], r) => Held(r) \/ r \in StopsIn(uplink)
  /\ \A i \in DOMAIN downlink[r] : downlink[r][i].to = r

IInv == TypeOK /\ \A r \in Peers : Ends(r)

-----------------------------------------------------------------------------
\* Queues of events.

\* An empty one says nothing.
LEMMA EmptyQueue ==
  ASSUME NEW r
  PROVE  /\ <<>> \in Seq(Event) /\ StopsIn(<<>>) = {} /\ StartsIn(<<>>) = {}
         /\ ~Open(<<>>, r)
  BY DEF StopsIn, StartsIn, Open

\* Stops are for peers.
LEMMA StopsArePeers == ASSUME NEW q \in Seq(Event) PROVE StopsIn(q) \subseteq Peers
<1>1. \A i \in DOMAIN q : q[i] \in Event
  OBVIOUS
<1>2. \A e \in Event : e.to \in Peers
  BY DEF Event
<1>3. QED
  BY <1>1, <1>2 DEF StopsIn

\* An event at the end of a queue is its last word.
LEMMA Appended ==
  ASSUME NEW q \in Seq(Event), NEW e \in Event, NEW r
  PROVE  /\ Append(q, e) \in Seq(Event)
         /\ r \in StopsIn(Append(q, e)) <=>
              r \in StopsIn(q) \/ (e.type = "stop" /\ e.to = r)
         /\ Open(Append(q, e), r) =>
              (e.type = "start" /\ e.to = r) \/ (Open(q, r) /\ ~(e.type = "stop" /\ e.to = r))
         /\ (\A i \in DOMAIN q : q[i].to = r) /\ e.to = r =>
              \A i \in DOMAIN Append(q, e) : Append(q, e)[i].to = r
<1> DEFINE a == Append(q, e)
<1>1. /\ a \in Seq(Event) /\ Len(a) = Len(q) + 1 /\ Len(q) \in Nat
      /\ DOMAIN q = 1 .. Len(q) /\ DOMAIN a = 1 .. Len(q) + 1
      /\ \A i \in DOMAIN q : a[i] = q[i]
      /\ a[Len(q) + 1] = e
  OBVIOUS
<1> HIDE DEF a
<1>2. \A i \in DOMAIN a : i \in DOMAIN q \/ i = Len(q) + 1
  BY <1>1
<1>3. \A i \in DOMAIN q : i \in DOMAIN a /\ Len(q) + 1 > i
  BY <1>1
<1>4. Len(q) + 1 \in DOMAIN a
  BY <1>1
<1>5. r \in StopsIn(a) <=> r \in StopsIn(q) \/ (e.type = "stop" /\ e.to = r)
  BY <1>1, <1>2, <1>3, <1>4 DEF StopsIn
<1>6. Open(a, r) =>
        (e.type = "start" /\ e.to = r) \/ (Open(q, r) /\ ~(e.type = "stop" /\ e.to = r))
  BY <1>1, <1>2, <1>3, <1>4 DEF Open
<1>7. (\A i \in DOMAIN q : q[i].to = r) /\ e.to = r => \A i \in DOMAIN a : a[i].to = r
  BY <1>1, <1>2
<1>8. QED
  BY <1>1, <1>5, <1>6, <1>7 DEF a

\* What the first event leaves of a queue.
LEMMA Taken ==
  ASSUME NEW q \in Seq(Event), q # <<>>, NEW r
  PROVE  /\ Head(q) \in Event /\ Tail(q) \in Seq(Event)
         /\ r \in StopsIn(q) <=>
              r \in StopsIn(Tail(q)) \/ (Head(q).type = "stop" /\ Head(q).to = r)
         /\ Open(Tail(q), r) => Open(q, r)
         /\ (Head(q).type = "start" /\ Head(q).to = r) =>
              Open(q, r) \/ r \in StopsIn(Tail(q))
         /\ Open(Tail(q), r) => r \in StartsIn(Tail(q))
         /\ (\A i \in DOMAIN q : q[i].to = r) =>
              Head(q).to = r /\ \A i \in DOMAIN Tail(q) : Tail(q)[i].to = r
<1> DEFINE t == Tail(q)
           n == Len(q)
<1>1. /\ t \in Seq(Event) /\ n \in Nat /\ n > 0
      /\ Head(q) = q[1] /\ Head(q) \in Event
      /\ DOMAIN q = 1 .. n /\ DOMAIN t = 1 .. n - 1
      /\ \A i \in 1 .. n - 1 : t[i] = q[i + 1]
  OBVIOUS
<1> HIDE DEF t, n
<1>2. /\ 1 \in DOMAIN q
      /\ \A i \in DOMAIN t : i + 1 \in DOMAIN q /\ t[i] = q[i + 1]
      /\ \A i \in DOMAIN q : i = 1 \/ (i - 1 \in DOMAIN t /\ t[i - 1] = q[i] /\ i > 1)
  BY <1>1
<1>3. r \in StopsIn(q) <=> r \in StopsIn(t) \/ (Head(q).type = "stop" /\ Head(q).to = r)
  BY <1>1, <1>2 DEF StopsIn
<1>4. Open(t, r) => Open(q, r)
  <2> SUFFICES ASSUME NEW i \in DOMAIN t, t[i].type = "start", t[i].to = r,
                      \A j \in DOMAIN t : j > i => ~(t[j].type = "stop" /\ t[j].to = r)
               PROVE  Open(q, r)
    BY DEF Open
  <2>1. i + 1 \in DOMAIN q /\ q[i + 1].type = "start" /\ q[i + 1].to = r
    BY <1>2
  <2>2. ASSUME NEW j \in DOMAIN q, j > i + 1
        PROVE  ~(q[j].type = "stop" /\ q[j].to = r)
    <3>1. j - 1 \in DOMAIN t /\ t[j - 1] = q[j] /\ j - 1 > i
      BY <1>1, <1>2, <2>2
    <3>2. QED
      BY <3>1
  <2>3. QED
    BY <2>1, <2>2 DEF Open
<1>5. ASSUME Head(q).type = "start", Head(q).to = r, ~Open(q, r)
      PROVE  r \in StopsIn(t)
  <2>1. PICK j \in DOMAIN q : j > 1 /\ q[j].type = "stop" /\ q[j].to = r
    BY <1>1, <1>2, <1>5 DEF Open
  <2>2. j - 1 \in DOMAIN t /\ t[j - 1] = q[j]
    BY <1>1, <1>2, <2>1
  <2>3. QED
    BY <2>1, <2>2 DEF StopsIn
<1>6. Open(t, r) => r \in StartsIn(t)
  BY DEF Open, StartsIn
<1>7. (\A i \in DOMAIN q : q[i].to = r) =>
        Head(q).to = r /\ \A i \in DOMAIN t : t[i].to = r
  BY <1>1, <1>2
<1>8. QED
  BY <1>1, <1>3, <1>4, <1>5, <1>6, <1>7 DEF t

-----------------------------------------------------------------------------
\* At the start nobody types and nothing is on its way.
LEMMA InitIInv == Init => IInv
<1> SUFFICES ASSUME Init PROVE IInv
  OBVIOUS
<1>1. TypeOK
  <2>1. 1 \in Mounts /\ 0 \in 0 .. MaxKeys
    BY DEF Mounts
  <2>2. <<>> \in Seq(Event)
    OBVIOUS
  <2>3. QED
    BY <2>1, <2>2 DEF Init, TypeOK
<1>2. ASSUME NEW r \in Peers PROVE Ends(r)
  BY EmptyQueue DEF Init, Ends
<1>3. QED
  BY <1>1, <1>2 DEF IInv

\* A user who opens a conversation, a page that is mounted again.
LEMMA PageIInv ==
  ASSUME IInv, \/ \E r \in Peers : SetActiveConversation(r)
               \/ Remount
  PROVE  IInv'
<1>1. UNCHANGED <<timer, keys, netVars, peerVars>>
  BY DEF SetActiveConversation, Remount
<1>2. TypeOK'
  BY <1>1 DEF IInv, TypeOK, SetActiveConversation, Remount, netVars, peerVars, Mounts
<1>3. ASSUME NEW r \in Peers PROVE Ends(r)'
  BY <1>1 DEF IInv, Ends, Held, netVars, peerVars
<1>4. QED
  BY <1>2, <1>3 DEF IInv

\* What a keystroke or a timer emits.
LEMMA Emitted ==
  ASSUME uplink \in Seq(Event), linkUp \in BOOLEAN, NEW type \in {"start", "stop"},
         NEW r \in Peers, Emit(type, r)
  PROVE  /\ uplink' \in Seq(Event)
         /\ \A p : p \in StopsIn(uplink) => p \in StopsIn(uplink')
         /\ \A p : Open(uplink', p) => (type = "start" /\ p = r) \/ Open(uplink, p)
         /\ (type = "stop" /\ linkUp) => ~Open(uplink', r) /\ r \in StopsIn(uplink')
<1> DEFINE e == [type |-> type, to |-> r]
<1>1. e \in Event /\ e.type = type /\ e.to = r
  BY DEF Event
<1> HIDE DEF e
<1>2. uplink' = IF linkUp THEN Append(uplink, e) ELSE uplink
  BY DEF Emit, e
<1>3. QED
  BY <1>1, <1>2, Appended

\* The keystroke that takes the timer from another peer leaves that peer owed.
LEMMA HandleTypingIInv == ASSUME IInv, HandleTyping PROVE IInv'
<1>1. active \in Peers /\ mount \in Mounts /\ timer \in [Mounts -> Peers \cup {None}]
  BY DEF HandleTyping, Typable, IInv, TypeOK
<1>2. /\ uplink' \in Seq(Event)
      /\ \A p : p \in StopsIn(uplink) => p \in StopsIn(uplink')
      /\ \A p : Open(uplink', p) => p = active \/ Open(uplink, p)
  BY <1>1, Emitted DEF HandleTyping, IInv, TypeOK
<1>3. /\ timer' = [timer EXCEPT ![mount] = active]
      /\ owed' = owed \cup ({timer[mount]} \ {active, None})
      /\ UNCHANGED <<active, mount, linkUp, joined, downlink, typing>>
  BY DEF HandleTyping, Forgotten
<1>4. keys' \in 0 .. MaxKeys
  BY DEF HandleTyping, IInv, TypeOK
<1>5. TypeOK'
  BY <1>1, <1>2, <1>3, <1>4 DEF IInv, TypeOK
<1>6. ASSUME NEW r \in Peers PROVE (Held(r) => Held(r)') /\ Held(active)'
  BY <1>1, <1>3 DEF Held
<1>7. ASSUME NEW r \in Peers PROVE Ends(r)'
  BY <1>2, <1>3, <1>6 DEF IInv, Ends
<1>8. QED
  BY <1>5, <1>7 DEF IInv

\* A timer sends the stop it is for, or leaves it owed.
LEMMA TimerFiresIInv == ASSUME IInv, NEW m \in Mounts, TimerFires(m) PROVE IInv'
<1> DEFINE told == timer[m]
<1>1. told \in Peers /\ timer \in [Mounts -> Peers \cup {None}]
  BY DEF TimerFires, IInv, TypeOK
<1>2. /\ timer' = [timer EXCEPT ![m] = None]
      /\ owed' = IF linkUp THEN owed ELSE owed \cup {told}
      /\ UNCHANGED <<active, mount, keys, linkUp, joined, downlink, typing>>
      /\ Emit("stop", told)
  BY DEF TimerFires, Told
<1> HIDE DEF told
<1>3. /\ uplink' \in Seq(Event)
      /\ \A p : p \in StopsIn(uplink) => p \in StopsIn(uplink')
      /\ \A p : Open(uplink', p) => Open(uplink, p)
      /\ linkUp => ~Open(uplink', told) /\ told \in StopsIn(uplink')
  BY <1>1, <1>2, Emitted DEF IInv, TypeOK
<1>4. TypeOK'
  BY <1>1, <1>2, <1>3 DEF IInv, TypeOK
<1>5. ASSUME NEW r \in Peers, Held(r), ~Held(r)' PROVE r = told /\ linkUp
  BY <1>1, <1>2, <1>5 DEF Held, told
<1>6. ASSUME NEW r \in Peers PROVE Ends(r)'
  BY <1>2, <1>3, <1>5 DEF IInv, Ends
<1>7. QED
  BY <1>4, <1>6 DEF IInv

-----------------------------------------------------------------------------
\* The tab is closed: its timers and what the gateway has not taken are owed.
LEMMA CloseTabIInv == ASSUME IInv, CloseTab PROVE IInv'
<1>1. /\ timer' = [m \in Mounts |-> None]
      /\ linkUp' = FALSE /\ uplink' = <<>>
      /\ owed' = owed \cup ({timer[m] : m \in Mounts} \ {None}) \cup StopsIn(uplink)
      /\ UNCHANGED <<keys, joined, downlink, typing>>
  BY DEF CloseTab
<1>2. TypeOK'
  <2>1. mount' \in Mounts /\ active' = None
    BY DEF CloseTab, IInv, TypeOK, Mounts
  <2>2. StopsIn(uplink) \subseteq Peers
    BY StopsArePeers DEF IInv, TypeOK
  <2>3. <<>> \in Seq(Event)
    OBVIOUS
  <2>4. owed' \subseteq Peers
    BY <1>1, <2>2 DEF IInv, TypeOK
  <2>5. QED
    BY <1>1, <2>1, <2>3, <2>4 DEF IInv, TypeOK
<1>3. ASSUME NEW r \in Peers PROVE Ends(r)'
  <2>1. (Held(r) \/ r \in StopsIn(uplink)) => Held(r)'
    BY <1>1 DEF Held
  <2>2. ~Open(uplink', r)
    BY <1>1, EmptyQueue
  <2>3. QED
    BY <1>1, <2>1, <2>2 DEF IInv, Ends
<1>4. QED
  BY <1>2, <1>3 DEF IInv

\* A link that fails takes the stops on it with it.
LEMMA LinkIInv == ASSUME IInv, LinkUp \/ LinkDown PROVE IInv'
<1>1. /\ UNCHANGED <<pageVars, joined, downlink, typing>>
      /\ linkUp' \in BOOLEAN
      /\ \/ UNCHANGED <<uplink, owed>>
         \/ uplink' = <<>> /\ owed' = owed \cup StopsIn(uplink)
  BY DEF LinkUp, LinkDown, peerVars
<1>2. StopsIn(uplink) \subseteq Peers
  BY StopsArePeers DEF IInv, TypeOK
<1>3. <<>> \in Seq(Event)
  OBVIOUS
<1>4. TypeOK'
  BY <1>1, <1>2, <1>3 DEF IInv, TypeOK, pageVars
<1>5. ASSUME NEW r \in Peers PROVE Ends(r)'
  <2>1. CASE UNCHANGED <<uplink, owed>>
    BY <1>1, <2>1 DEF IInv, Ends, Held, pageVars
  <2>2. CASE uplink' = <<>> /\ owed' = owed \cup StopsIn(uplink)
    <3>1. (Held(r) \/ r \in StopsIn(uplink)) => Held(r)'
      BY <1>1, <2>2 DEF Held, pageVars
    <3>2. ~Open(uplink', r)
      BY <2>2, EmptyQueue
    <3>3. QED
      BY <1>1, <3>1, <3>2 DEF IInv, Ends
  <2>3. QED
    BY <1>1, <2>1, <2>2
<1>6. QED
  BY <1>4, <1>5 DEF IInv

\* The gateway passes an event on, or nobody is there to get it.
LEMMA ForwardIInv == ASSUME IInv, Forward PROVE IInv'
<1> DEFINE e == Head(uplink)
<1>1. /\ uplink # <<>> /\ uplink \in Seq(Event)
      /\ uplink' = Tail(uplink)
      /\ UNCHANGED <<pageVars, linkUp, joined, typing>>
      /\ \/ /\ e.to \in joined
            /\ downlink' = [downlink EXCEPT ![e.to] = Append(@, e)]
            /\ UNCHANGED owed
         \/ /\ owed' = owed \cup (IF e.type = "stop" THEN {e.to} ELSE {})
            /\ UNCHANGED downlink
  BY DEF Forward, IInv, TypeOK
<1>2. /\ e \in Event /\ uplink' \in Seq(Event)
      /\ \A r : r \in StopsIn(uplink) <=>
                  r \in StopsIn(uplink') \/ (e.type = "stop" /\ e.to = r)
      /\ \A r : Open(uplink', r) => Open(uplink, r)
      /\ \A r : (e.type = "start" /\ e.to = r) => Open(uplink, r) \/ r \in StopsIn(uplink')
  BY <1>1, Taken
<1> HIDE DEF e
<1>3. e.to \in Peers /\ e.type \in {"start", "stop"}
  BY <1>2 DEF Event
<1>4. CASE /\ e.to \in joined
           /\ downlink' = [downlink EXCEPT ![e.to] = Append(@, e)]
           /\ UNCHANGED owed
  <2> DEFINE q == downlink[e.to]
  <2>1. q \in Seq(Event) /\ downlink \in [Peers -> Seq(Event)]
    BY <1>3 DEF IInv, TypeOK
  <2>2. /\ downlink'[e.to] = Append(q, e)
        /\ \A r \in Peers : r # e.to => downlink'[r] = downlink[r]
    BY <1>3, <1>4, <2>1
  <2>3. /\ Append(q, e) \in Seq(Event)
        /\ e.to \in StopsIn(Append(q, e)) <=> e.to \in StopsIn(q) \/ e.type = "stop"
        /\ Open(Append(q, e), e.to) => e.type = "start"
        /\ (\A i \in DOMAIN q : q[i].to = e.to) =>
             \A i \in DOMAIN Append(q, e) : Append(q, e)[i].to = e.to
    BY <1>2, <1>3, <2>1, Appended
  <2> HIDE DEF q
  <2>4. TypeOK'
    BY <1>1, <1>2, <1>3, <1>4, <2>1, <2>3 DEF IInv, TypeOK, pageVars, q
  <2>5. ASSUME NEW r \in Peers PROVE Ends(r)'
    <3>1. Held(r)' <=> Held(r)
      BY <1>1, <1>4 DEF Held, pageVars
    <3>2. CASE r = e.to
      BY <1>1, <1>2, <1>3, <2>2, <2>3, <3>1, <3>2 DEF IInv, Ends, q
    <3>3. CASE r # e.to
      BY <1>1, <1>2, <2>2, <3>1, <3>3 DEF IInv, Ends
    <3>4. QED
      BY <3>2, <3>3
  <2>6. QED
    BY <2>4, <2>5 DEF IInv
<1>5. CASE /\ owed' = owed \cup (IF e.type = "stop" THEN {e.to} ELSE {})
           /\ UNCHANGED downlink
  <2>1. TypeOK'
    BY <1>1, <1>2, <1>3, <1>5 DEF IInv, TypeOK, pageVars
  <2>2. ASSUME NEW r \in Peers PROVE Ends(r)'
    <3>1. /\ Held(r) => Held(r)'
          /\ (e.type = "stop" /\ e.to = r) => Held(r)'
      BY <1>1, <1>5 DEF Held, pageVars
    <3>2. QED
      BY <1>1, <1>2, <1>5, <3>1 DEF IInv, Ends
  <2>3. QED
    BY <2>1, <2>2 DEF IInv
<1>6. QED
  BY <1>1, <1>4, <1>5

-----------------------------------------------------------------------------
\* A peer comes, goes, or loads its page again: stops on its link are owed.
LEMMA PeerIInv ==
  ASSUME IInv, NEW p \in Peers, PeerJoins(p) \/ PeerDrops(p) \/ PeerReloads(p)
  PROVE  IInv'
<1>1. /\ UNCHANGED <<pageVars, linkUp, uplink>>
      /\ joined' \subseteq Peers
      /\ \/ UNCHANGED <<downlink, typing, owed>>
         \/ /\ downlink' = [downlink EXCEPT ![p] = <<>>]
            /\ owed' = owed \cup StopsIn(downlink[p])
            /\ typing' \in {typing, [typing EXCEPT ![p] = FALSE]}
  BY DEF PeerJoins, PeerDrops, PeerReloads, peerVars, IInv, TypeOK
<1>2. CASE UNCHANGED <<downlink, typing, owed>>
  <2>1. TypeOK'
    BY <1>1, <1>2 DEF IInv, TypeOK, pageVars
  <2>2. ASSUME NEW r \in Peers PROVE Ends(r)'
    BY <1>1, <1>2 DEF IInv, Ends, Held, pageVars
  <2>3. QED
    BY <2>1, <2>2 DEF IInv
<1>3. CASE /\ downlink' = [downlink EXCEPT ![p] = <<>>]
           /\ owed' = owed \cup StopsIn(downlink[p])
           /\ typing' \in {typing, [typing EXCEPT ![p] = FALSE]}
  <2>1. /\ <<>> \in Seq(Event)
        /\ downlink \in [Peers -> Seq(Event)] /\ typing \in [Peers -> BOOLEAN]
    BY DEF IInv, TypeOK
  <2>2. StopsIn(downlink[p]) \subseteq Peers
    BY <2>1, StopsArePeers
  <2>3. typing' \in [Peers -> BOOLEAN]
    BY <1>3, <2>1
  <2>4. TypeOK'
    BY <1>1, <1>3, <2>1, <2>2, <2>3 DEF IInv, TypeOK, pageVars
  <2>5. ASSUME NEW r \in Peers PROVE Ends(r)'
    <3>1. /\ Held(r) => Held(r)'
          /\ (r = p /\ r \in StopsIn(downlink[p])) => Held(r)'
          /\ typing'[r] => typing[r]
      BY <1>1, <1>3, <2>1 DEF Held, pageVars
    <3>2. CASE r = p
      <4>1. downlink'[r] = <<>>
        BY <1>3, <2>1, <3>2
      <4>2. ~Open(downlink'[r], r) /\ DOMAIN downlink'[r] = {}
        BY <4>1, EmptyQueue
      <4>3. QED
        BY <1>1, <3>1, <3>2, <4>2 DEF IInv, Ends
    <3>3. CASE r # p
      <4>1. downlink'[r] = downlink[r]
        BY <1>3, <2>1, <3>3
      <4>2. QED
        BY <1>1, <3>1, <4>1 DEF IInv, Ends
    <3>4. QED
      BY <3>2, <3>3
  <2>6. QED
    BY <2>4, <2>5 DEF IInv
<1>4. QED
  BY <1>1, <1>2, <1>3

\* A stop ends the flag, and settles what is owed if no start follows it.
LEMMA HandleIInv == ASSUME IInv, NEW p \in Peers, HandleTypingEvent(p) PROVE IInv'
<1> DEFINE e == Head(downlink[p])
           rest == Tail(downlink[p])
<1>1. /\ UNCHANGED <<pageVars, linkUp, uplink, joined>>
      /\ downlink' = [downlink EXCEPT ![p] = rest]
      /\ typing' = [typing EXCEPT ![p] = (e.type = "start")]
      /\ owed' = IF e.type = "stop" /\ p \notin StartsIn(rest) \cup StartsIn(uplink)
                 THEN owed \ {p} ELSE owed
      /\ downlink[p] # <<>>
  BY DEF HandleTypingEvent, Shown
<1>2. /\ downlink \in [Peers -> Seq(Event)] /\ typing \in [Peers -> BOOLEAN]
      /\ downlink[p] \in Seq(Event)
  BY DEF IInv, TypeOK
<1>3. /\ e \in Event /\ rest \in Seq(Event) /\ e.to = p
      /\ p \in StopsIn(downlink[p]) <=> p \in StopsIn(rest) \/ e.type = "stop"
      /\ Open(rest, p) => Open(downlink[p], p) /\ p \in StartsIn(rest)
      /\ e.type = "start" => Open(downlink[p], p) \/ p \in StopsIn(rest)
      /\ \A i \in DOMAIN rest : rest[i].to = p
  BY <1>1, <1>2, Taken DEF IInv, Ends
<1> HIDE DEF e, rest
<1>4. e.type \in {"start", "stop"} /\ (e.type = "start") \in BOOLEAN
  BY <1>3 DEF Event
<1>5. TypeOK'
  BY <1>1, <1>2, <1>3, <1>4 DEF IInv, TypeOK, pageVars
<1>6. ASSUME NEW r \in Peers PROVE Ends(r)'
  <2>1. CASE r # p
    <3>1. /\ downlink'[r] = downlink[r] /\ typing'[r] = typing[r]
          /\ Held(r) => Held(r)'
      BY <1>1, <1>2, <2>1 DEF Held, pageVars
    <3>2. QED
      BY <1>1, <3>1 DEF IInv, Ends
  <2>2. CASE r = p
    <3>1. downlink'[r] = rest /\ (typing'[r] <=> e.type = "start")
      BY <1>1, <1>2, <2>2
    <3>2. Open(uplink, p) => p \in StartsIn(uplink)
      BY DEF Open, StartsIn
    <3>3. CASE e.type = "start" \/ p \in StartsIn(rest) \cup StartsIn(uplink)
      <4>1. Held(r)' <=> Held(r)
        BY <1>1, <1>4, <3>3 DEF Held, pageVars
      <4>2. QED
        BY <1>1, <1>3, <1>4, <2>2, <3>1, <4>1 DEF IInv, Ends
    <3>4. CASE e.type = "stop" /\ p \notin StartsIn(rest) \cup StartsIn(uplink)
      <4>1. ~typing'[r] /\ ~Open(rest, p) /\ ~Open(uplink, p)
        BY <1>3, <3>1, <3>2, <3>4
      <4>2. QED
        BY <1>1, <1>3, <2>2, <3>1, <4>1 DEF Ends
    <3>5. QED
      BY <1>4, <3>3, <3>4
  <2>3. QED
    BY <2>1, <2>2
<1>7. QED
  BY <1>5, <1>6 DEF IInv

-----------------------------------------------------------------------------
LEMMA NextIInv == IInv /\ [Next]_vars => IInv'
<1> SUFFICES ASSUME IInv, [Next]_vars PROVE IInv'
  OBVIOUS
<1>1. CASE Next
  BY <1>1, PageIInv, HandleTypingIInv, TimerFiresIInv, CloseTabIInv, LinkIInv,
     ForwardIInv, PeerIInv, HandleIInv DEF Next
<1>2. CASE UNCHANGED vars
  <2>1. TypeOK'
    BY <1>2 DEF vars, pageVars, netVars, peerVars, IInv, TypeOK
  <2>2. ASSUME NEW r \in Peers PROVE Ends(r)'
    BY <1>2 DEF vars, pageVars, netVars, peerVars, IInv, Ends, Held
  <2>3. QED
    BY <2>1, <2>2 DEF IInv
<1>3. QED
  BY <1>1, <1>2

LEMMA AlwaysIInv == Spec => []IInv
  BY InitIInv, NextIInv, PTL DEF Spec

\* The state of the page, its queues and the peers keeps its types.
THEOREM TypingTypes == Spec => []TypeOK
<1>1. IInv => TypeOK
  BY DEF IInv
<1>2. QED
  BY <1>1, AlwaysIInv, PTL

\* Chat.tsx:71-75, socket.service.ts:120: a flag at a peer has its end on the
\* way, or the stop was lost in one of the ways that owed names.
THEOREM FlagHasEnd == Spec => []TypingHasEnd
<1>1. IInv => TypingHasEnd
  BY DEF IInv, Ends, Held, TypingHasEnd, StopComing
<1>2. QED
  BY <1>1, AlwaysIInv, PTL

-----------------------------------------------------------------------------
\* The contacts page.

USE SearchAssumption

\* A run that is on its way was not the last to write; with the timer at rest
\* the latest run is that of the query in the input, and once it has settled
\* only an earlier one can have written after it.
Latest ==
  /\ newest \notin Asked
  /\ ~debounce => runs \in 1 .. MaxRuns
  /\ (~debounce /\ runs \in Asked) => asked[runs] = query
  /\ (~debounce /\ runs \notin Asked) =>
       newest = runs /\ (overtaken \/ failed \/ users = query)

SearchInv == SearchTypeOK /\ Latest /\ LoadingIsAsked

\* What one run does to the history of writes.
LEMMA Written ==
  ASSUME NEW n \in Nat, NEW list, NEW after \in BOOLEAN, newest \in Nat,
         SetUsers(n, list, after)
  PROVE  /\ users' = list
         /\ newest' = IF n > newest THEN n ELSE newest
         /\ failed' \in BOOLEAN /\ (failed' <=> after)
         /\ overtaken' \in BOOLEAN /\ (overtaken' <=> n < newest)
<1>1. overtaken' = (n < newest) /\ failed' = after
  BY DEF SetUsers
<1>2. CASE n < newest
  <2>1. (n < newest) = TRUE
    BY <1>2
  <2>2. overtaken' = TRUE
    BY <1>1, <2>1, Zenon
  <2>3. QED
    BY <1>1, <1>2, <2>2 DEF SetUsers
<1>3. CASE ~(n < newest)
  <2>1. (n < newest) = FALSE
    BY <1>3
  <2>2. overtaken' = FALSE
    BY <1>1, <2>1, Zenon
  <2>3. QED
    BY <1>1, <1>3, <2>2 DEF SetUsers
<1>4. QED
  BY <1>2, <1>3

LEMMA InitSearch == ASSUME SearchInit PROVE SearchInv
<1>1. Asked = {}
  BY DEF SearchInit, Asked
<1>2. runs \in 0 .. MaxRuns /\ newest \in 0 .. runs /\ Asked \subseteq 1 .. runs
  BY <1>1 DEF SearchInit
<1>3. SearchTypeOK
  BY <1>1, <1>2 DEF SearchInit, SearchTypeOK
<1>4. Latest /\ LoadingIsAsked
  BY <1>1 DEF SearchInit, Latest, LoadingIsAsked
<1>5. QED
  BY <1>3, <1>4 DEF SearchInv

LEMMA TypeSearch == ASSUME SearchInv, NEW q \in Queries, Type(q) PROVE SearchInv'
<1>1. Asked' = Asked /\ asked' = asked /\ runs' = runs
  BY DEF Type, Asked
<1>2. QED
  BY <1>1 DEF Type, SearchInv, SearchTypeOK, Latest, LoadingIsAsked

\* The new run is later than all that are on their way.
LEMMA FiresSearch == ASSUME SearchInv, DebounceFires PROVE SearchInv'
<1>1. /\ debounce' = FALSE /\ runs' = runs + 1 /\ query' = query
      /\ runs \in Nat /\ runs < MaxRuns /\ MaxRuns \in Nat
      /\ newest \in 0 .. runs /\ Asked \subseteq 1 .. runs
  BY DEF DebounceFires, SearchInv, SearchTypeOK
<1>2. CASE /\ query = Blank /\ SetUsers(runs', ListForBlank, FALSE)
           /\ UNCHANGED <<loading, asked>>
  <2>1. PICK n \in Nat : n = runs + 1
    BY <1>1
  <2>2. /\ users' = Blank /\ newest' = n /\ Asked' = Asked
        /\ ~failed' /\ failed' \in BOOLEAN /\ ~overtaken' /\ overtaken' \in BOOLEAN
    <3>1. newest \in Nat /\ n > newest /\ ~(n < newest)
      BY <1>1, <2>1
    <3>2. SetUsers(n, Blank, FALSE)
      BY <1>1, <1>2, <2>1 DEF ListForBlank
    <3>3. QED
      BY <1>2, <3>1, <3>2, Written DEF Asked
  <2>3. /\ n \notin Asked /\ runs' = n /\ n \in 1 .. MaxRuns /\ n \in 0 .. n
        /\ Asked \subseteq 1 .. n
    BY <1>1, <2>1
  <2>4. SearchTypeOK'
    <3>1. runs' \in 0 .. MaxRuns /\ newest' \in 0 .. runs' /\ Asked' \subseteq 1 .. runs'
      BY <2>2, <2>3
    <3>2. QED
      BY <1>1, <1>2, <2>2, <3>1 DEF SearchInv, SearchTypeOK
  <2>5. Latest' /\ LoadingIsAsked'
    BY <1>1, <1>2, <2>2, <2>3 DEF SearchInv, Latest, LoadingIsAsked
  <2>6. QED
    BY <2>4, <2>5 DEF SearchInv
<1>3. CASE /\ query # Blank /\ loading' = TRUE
           /\ asked' = [n \in Asked \cup {runs'} |-> IF n = runs' THEN query ELSE asked[n]]
           /\ UNCHANGED <<users, newest, failed, overtaken>>
  <2>1. /\ Asked' = Asked \cup {runs + 1} /\ asked'[runs + 1] = query
        /\ \A n \in Asked : n # runs + 1 /\ asked'[n] = asked[n]
    BY <1>1, <1>3 DEF Asked
  <2>2. newest # runs + 1
    BY <1>1
  <2>3. SearchTypeOK'
    <3>1. runs' \in 0 .. MaxRuns /\ newest' \in 0 .. runs' /\ Asked' \subseteq 1 .. runs'
      BY <1>1, <1>3, <2>1
    <3>2. \A n \in Asked' : asked'[n] \in Queries \ {Blank}
      BY <1>3, <2>1 DEF SearchInv, SearchTypeOK
    <3>3. QED
      BY <1>1, <1>3, <3>1, <3>2 DEF SearchInv, SearchTypeOK
  <2>4. Latest' /\ LoadingIsAsked'
    BY <1>1, <1>3, <2>1, <2>2 DEF SearchInv, Latest, LoadingIsAsked
  <2>5. QED
    BY <2>3, <2>4 DEF SearchInv
<1>4. QED
  BY <1>2, <1>3 DEF DebounceFires

\* An answer to the latest run is that of the input; any other is overtaken.
LEMMA SettleSearch ==
  ASSUME SearchInv, NEW n \in 1 .. MaxRuns, NEW ok \in BOOLEAN, n \in Asked,
         Settle(n, IF ok THEN asked[n] ELSE Blank, ok)
  PROVE  SearchInv'
<1>1. /\ Asked' = Asked \ {n} /\ \A k \in Asked' : asked'[k] = asked[k]
      /\ users' = (IF ok THEN asked[n] ELSE Blank)
      /\ newest' = (IF n > newest THEN n ELSE newest)
      /\ failed' \in BOOLEAN /\ (failed' <=> ~ok)
      /\ overtaken' \in BOOLEAN /\ (overtaken' <=> n < newest)
      /\ loading' = FALSE /\ UNCHANGED <<query, debounce, runs>>
  <2>1. newest \in Nat /\ n \in Nat
    BY DEF SearchInv, SearchTypeOK
  <2>2. PICK after \in BOOLEAN : after = ~ok
    OBVIOUS
  <2>3. SetUsers(n, IF ok THEN asked[n] ELSE Blank, after)
    BY <2>2 DEF Settle
  <2>4. /\ Asked' = Asked \ {n} /\ \A k \in Asked' : asked'[k] = asked[k]
        /\ loading' = FALSE /\ UNCHANGED <<query, debounce, runs>>
    BY DEF Settle, LoadingAfter, Asked
  <2>5. QED
    BY <2>1, <2>2, <2>3, <2>4, Written
<1>2. /\ n \in 1 .. runs /\ newest \in 0 .. runs /\ runs \in Nat
      /\ n # newest /\ newest \notin Asked /\ asked[n] \in Queries
  BY DEF SearchInv, SearchTypeOK, Latest
<1>3. newest' \in 0 .. runs /\ newest' \notin Asked'
  BY <1>1, <1>2
<1>4. SearchTypeOK'
  <2>1. users' \in Queries
    BY <1>1, <1>2
  <2>2. QED
    BY <1>1, <1>3, <2>1 DEF SearchInv, SearchTypeOK
<1>5. ASSUME ~debounce PROVE /\ runs \in Asked' => asked'[runs] = query
                          /\ runs \notin Asked' =>
                               newest' = runs /\ (overtaken' \/ failed' \/ users' = query)
  <2>1. CASE n = runs
    BY <1>1, <1>2, <1>5, <2>1 DEF SearchInv, Latest
  <2>2. CASE n # runs
    BY <1>1, <1>2, <1>5, <2>2 DEF SearchInv, Latest
  <2>3. QED
    BY <2>1, <2>2
<1>6. QED
  BY <1>1, <1>3, <1>4, <1>5 DEF SearchInv, Latest, LoadingIsAsked

LEMMA NextSearch ==
  ASSUME SearchInv, [SearchNext]_searchVars
  PROVE  SearchInv'
<1>1. ASSUME NEW n \in 1 .. MaxRuns, Answered(n) PROVE SearchInv'
  <2>1. n \in Asked /\ Settle(n, IF TRUE THEN asked[n] ELSE Blank, TRUE)
    BY <1>1 DEF Answered
  <2>2. QED
    BY <2>1, SettleSearch
<1>2. ASSUME NEW n \in 1 .. MaxRuns, Fails(n) PROVE SearchInv'
  <2>1. n \in Asked /\ Settle(n, IF FALSE THEN asked[n] ELSE Blank, FALSE)
    BY <1>2 DEF Fails, Settle
  <2>2. QED
    BY <2>1, SettleSearch
<1>3. CASE UNCHANGED searchVars
  BY <1>3 DEF searchVars, stateVars, Asked, SearchInv, SearchTypeOK,
         Latest, LoadingIsAsked
<1>4. QED
  BY <1>1, <1>2, <1>3, TypeSearch, FiresSearch DEF SearchNext

LEMMA AlwaysSearch == SearchSpec => []SearchInv
<1>1. SearchInit => SearchInv
  BY InitSearch
<1>2. SearchInv /\ [SearchNext]_searchVars => SearchInv'
  BY NextSearch
<1>3. QED
  BY <1>1, <1>2, PTL DEF SearchSpec

\* Contacts.tsx:2: the state of the page and of its requests keeps its types.
THEOREM SearchTypes == SearchSpec => []SearchTypeOK
<1>1. SearchInv => SearchTypeOK
  BY DEF SearchInv
<1>2. QED
  BY <1>1, AlwaysSearch, PTL

\* Contacts.tsx:2, the debounced effect: at rest the list is that of the input,
\* unless its request failed or an earlier answer came after it.
THEOREM SettledIsShown == SearchSpec => []SettledShowsQuery
<1>1. SearchInv => SettledShowsQuery
  BY DEF SearchInv, Latest, SettledShowsQuery
<1>2. QED
  BY <1>1, AlwaysSearch, PTL

\* Contacts.tsx:2, the finally: "Searching..." never outlives the last request.
THEOREM SearchingIsAsked == SearchSpec => []LoadingIsAsked
<1>1. SearchInv => LoadingIsAsked
  BY DEF SearchInv
<1>2. QED
  BY <1>1, AlwaysSearch, PTL
==============================================================================
