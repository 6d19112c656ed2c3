-------------------------- MODULE MessageStoreProofs --------------------------
(* Theorems about MessageStore for any messages, conversations, loads and   *)
(* page size.                                                                *)
EXTENDS MessageStore, TLAPS

USE ConversationAssumption, PageAssumption, SidesAssumption, OutcomeAssumption

Distinct(list) == \A i, j \in DOMAIN list : list[i].id = list[j].id => i = j

\* Entries of a list or page of conversation c say nothing of the server that
\* its table does not say.
Honest(c, e) ==
  /\ ConversationOf[e.id] = c
  /\ e.status = "pending" => stage[e.id] = "pending"
  /\ e.status # "pending" => Saved(e.id)
  /\ e.status = "read" => \E j \in DOMAIN log[c] : log[c][j] = e

HonestList(c, list) == Distinct(list) /\ \A i \in DOMAIN list : Honest(c, list[i])

\* The table holds each message that was saved once, in its conversation.
LogOK(c) ==
  /\ Distinct(log[c])
  /\ \A i \in DOMAIN log[c] :
       ConversationOf[log[c][i].id] = c /\ log[c][i].status # "pending"
StageOK(m) == Saved(m) <=> stage[m] \in {"saved", "announced"}

\* What the client was given is a row of the table or a pending copy.
Kept(m) == Saved(m) \/ stage[m] = "pending"

\* A page that was read holds what was among the newest then.
PageOK(l) ==
  loads[l].phase = "served" =>
    LET c == loads[l].conv IN
    /\ HonestList(c, loads[l].page)
    /\ loads[l].upto <= Len(log[c])
    /\ \A i \in DOMAIN log[c] :
         (i <= loads[l].upto /\ loads[l].upto < i + PageSize)
           => log[c][i].id \in Ids(loads[l].page)

\* Only saved messages are announced.
EventOK(e) == Saved(e.id) /\ (e.type = "receive" => e.id \in Incoming)

IInv ==
  /\ TypeOK
  /\ \A c \in Conversations : LogOK(c) /\ HonestList(c, store[c])
  /\ \A m \in Messages : StageOK(m)
  /\ \A l \in Loads : PageOK(l)
  /\ \A i \in DOMAIN events : EventOK(events[i])
  /\ \A m \in received : Kept(m)
  /\ MissingOnlyOffThePage

-----------------------------------------------------------------------------
\* Sequences of entries, as the steps below make them.
LEMMA Appended ==
  ASSUME NEW S, NEW s \in Seq(S), NEW e \in S
  PROVE  /\ Append(s, e) \in Seq(S)
         /\ Len(s) \in Nat /\ DOMAIN s = 1 .. Len(s)
         /\ Len(Append(s, e)) = Len(s) + 1
         /\ DOMAIN Append(s, e) = 1 .. Len(s) + 1
         /\ \A i \in DOMAIN s : i # Len(s) + 1 /\ Append(s, e)[i] = s[i]
         /\ Append(s, e)[Len(s) + 1] = e
  OBVIOUS

LEMMA Mapped ==
  ASSUME NEW S, NEW s \in Seq(S), NEW f, f \in [DOMAIN s -> S]
  PROVE  f \in Seq(S) /\ Len(f) = Len(s) /\ DOMAIN f = DOMAIN s
  OBVIOUS

\* The empty tables, lists and pages claim nothing.
LEMMA InitIInv == Init => IInv
<1> SUFFICES ASSUME Init PROVE IInv
  OBVIOUS
<1>1. /\ \A c \in Conversations : DOMAIN store[c] = {} /\ DOMAIN log[c] = {}
      /\ \A m \in Messages : stage[m] = "unwritten" /\ Ids(log[ConversationOf[m]]) = {}
      /\ \A l \in Loads : loads[l].phase = "idle"
      /\ DOMAIN events = {} /\ received = {} /\ hidden = {}
  BY DEF Init, Ids
<1>2. TypeOK
  <2>1. <<>> \in Seq(Entry) /\ <<>> \in Seq(Event)
    OBVIOUS
  <2>2. ASSUME NEW x \in [conv : Conversations, phase : {"idle"}, page : {<<>>}, upto : {0}]
        PROVE  x \in Load
    <3>1. x = [conv |-> x.conv, phase |-> x.phase, page |-> x.page, upto |-> x.upto]
      OBVIOUS
    <3>2. x.conv \in Conversations /\ x.phase = "idle" /\ x.upto \in Nat
      OBVIOUS
    <3>3. x.page \in Seq(Entry)
      BY <2>1
    <3>4. QED
      BY <3>1, <3>2, <3>3 DEF Load
  <2>3. loads \in [Loads -> Load]
    BY <2>2 DEF Init
  <2>4. /\ store \in [Conversations -> Seq(Entry)] /\ log \in [Conversations -> Seq(Entry)]
        /\ events \in Seq(Event)
    BY <2>1 DEF Init
  <2>5. QED
    BY <2>3, <2>4 DEF Init, TypeOK, Stages
<1>3. MissingOnlyOffThePage
  BY <1>1 DEF MissingOnlyOffThePage, Messages
<1>4. QED
  BY <1>1, <1>2, <1>3 DEF IInv, LogOK, HonestList, Distinct, StageOK, Saved, PageOK

-----------------------------------------------------------------------------
\* No row of a table is removed or renumbered, and none is unread.
LogKept ==
  \A c \in Conversations :
    /\ Len(log[c]) <= Len(log'[c])
    /\ \A i \in DOMAIN log[c] :
         /\ i \in DOMAIN log'[c] /\ log'[c][i].id = log[c][i].id
         /\ log[c][i].status = "read" => log'[c][i] = log[c][i]
PendingKept == \A m \in Messages : stage[m] = "pending" => stage'[m] = "pending"

\* What was saved stays saved, and what was off the page stays off it.
LEMMA SavedKept ==
  ASSUME LogKept, NEW m \in Messages
  PROVE  /\ Saved(m) => Saved(m)'
         /\ (OffThePage(m) /\ taken'[ConversationOf[m]] = taken[ConversationOf[m]])
              => OffThePage(m)'
<1>1. ConversationOf[m] \in Conversations
  OBVIOUS
<1>2. Saved(m) => Saved(m)'
  BY <1>1 DEF LogKept, Saved, Ids
<1>3. (OffThePage(m) /\ taken'[ConversationOf[m]] = taken[ConversationOf[m]])
        => OffThePage(m)'
  BY <1>1 DEF LogKept, OffThePage
<1>4. QED
  BY <1>2, <1>3

\* A list that says nothing false goes on doing so.
LEMMA HonestKept ==
  ASSUME LogKept, PendingKept, NEW c \in Conversations, NEW list \in Seq(Entry),
         HonestList(c, list)
  PROVE  HonestList(c, list)'
<1>1. ASSUME NEW i \in DOMAIN list PROVE Honest(c, list[i])'
  <2>1. list[i] \in Entry
    OBVIOUS
  <2>2. PICK e \in Entry : e = list[i]
    BY <2>1
  <2>3. Honest(c, e) /\ e.id \in Messages
    BY <2>2 DEF HonestList, Entry
  <2>4. e.status = "read" => \E j \in DOMAIN log'[c] : log'[c][j] = e
    BY <2>3 DEF Honest, LogKept
  <2>5. Honest(c, e)'
    BY <2>3, <2>4, SavedKept DEF Honest, PendingKept
  <2>6. QED
    BY <2>2, <2>5
<1>2. QED
  BY <1>1 DEF HonestList, Distinct

\* A step that leaves the tables, the lists and what is known of them alone.
LEMMA QuietIInv ==
  ASSUME IInv, TypeOK', UNCHANGED <<store, log, received, hidden, taken>>,
         \A m \in Messages :
           \/ stage'[m] = stage[m]
           \/ {stage[m], stage'[m]} \cap {"saved", "announced", "pending"} = {}
           \/ stage[m] = "saved" /\ stage'[m] = "announced",
         \A l \in Loads : PageOK(l)',
         \A i \in DOMAIN events' : EventOK(events'[i])
  PROVE  IInv'
<1>1. LogKept /\ PendingKept
  <2>1. \A c \in Conversations : Len(log[c]) <= Len(log[c])
    BY DEF IInv, TypeOK
  <2>2. PendingKept
    BY DEF PendingKept
  <2>3. QED
    BY <2>1, <2>2 DEF LogKept
<1>2. ASSUME NEW c \in Conversations PROVE (LogOK(c) /\ HonestList(c, store[c]))'
  <2>1. PICK list \in Seq(Entry) : list = store[c]
    BY DEF IInv, TypeOK
  <2>2. HonestList(c, list)'
    BY <1>1, <2>1, HonestKept DEF IInv
  <2>3. QED
    BY <2>1, <2>2 DEF IInv, LogOK, Distinct, HonestList, Honest, Saved
<1>3. ASSUME NEW m \in Messages PROVE StageOK(m)'
  BY DEF IInv, StageOK, Saved
<1>4. (\A i \in DOMAIN events : EventOK(events[i]))' /\ (\A m \in received : Kept(m))'
  BY DEF IInv, EventOK, Saved, Kept, TypeOK
<1>5. MissingOnlyOffThePage'
  <2>1. ASSUME NEW m \in received'
        PROVE  Shown(m)' \/ (m \in hidden' /\ (OffThePage(m)' \/ stage'[m] = "pending"))
    <3>1. m \in received /\ m \in Messages /\ (m \in hidden => m \in hidden')
      BY DEF IInv, TypeOK
    <3>2. Shown(m) \/ (m \in hidden /\ (OffThePage(m) \/ stage[m] = "pending"))
      BY <3>1 DEF IInv, MissingOnlyOffThePage
    <3>3. (Shown(m) => Shown(m)') /\ (OffThePage(m) => OffThePage(m)')
      BY DEF Shown, OffThePage
    <3>4. QED
      BY <1>1, <3>1, <3>2, <3>3 DEF PendingKept
  <2>2. QED
    BY <2>1 DEF MissingOnlyOffThePage
<1>6. QED
  BY <1>2, <1>3, <1>4, <1>5 DEF IInv

-----------------------------------------------------------------------------
\* addMessage shows the message and hides none, if what it adds is true.
LEMMA AddOK ==
  ASSUME IInv, NEW id \in Messages, NEW status \in {"pending", "sent"},
         AddMessage(id, status), UNCHANGED log, PendingKept,
         status = "pending" => stage'[id] = "pending",
         status # "pending" => Saved(id)
  PROVE  /\ store' \in [Conversations -> Seq(Entry)]
         /\ \A c \in Conversations : HonestList(c, store[c])'
         /\ \A m \in Messages : Shown(m) => Shown(m)'
         /\ Shown(id)'
<1>1. PICK c \in Conversations : c = ConversationOf[id]
  OBVIOUS
<1>2. PICK e \in Entry : e = [id |-> id, status |-> status]
  BY DEF Entry
<1>3. LogKept
  BY DEF LogKept, IInv, TypeOK
<1>4. \A d \in Conversations : \E list \in Seq(Entry) : list = store[d] /\ HonestList(d, list)'
  BY <1>3, HonestKept DEF IInv, TypeOK
<1>5. Honest(c, e)'
  BY <1>1, <1>2, <1>3, SavedKept DEF Honest
<1>6. CASE AlreadyThere(store[c], id)
  <2>1. store' = store
    BY <1>1, <1>6 DEF AddMessage
  <2>2. \A d \in Conversations : HonestList(d, store[d])'
    BY <1>4, <2>1
  <2>3. QED
    BY <1>1, <1>6, <2>1, <2>2 DEF AlreadyThere, Shown, IInv, TypeOK
<1>7. CASE ~AlreadyThere(store[c], id)
  <2>1. store' = [store EXCEPT ![c] = Append(store[c], e)]
    BY <1>1, <1>2, <1>7 DEF AddMessage
  <2>2. /\ store'[c] = Append(store[c], e)
        /\ \A d \in Conversations : d # c => store'[d] = store[d]
    BY <2>1 DEF IInv, TypeOK
  <2>3. PICK list \in Seq(Entry) : list = store[c]
    BY <1>4
  <2>4. PICK new \in Seq(Entry) : new = Append(list, e)
    BY Appended
  <2>5. /\ Len(list) \in Nat /\ DOMAIN list = 1 .. Len(list) /\ DOMAIN new = 1 .. Len(list) + 1
        /\ \A i \in DOMAIN list : i # Len(list) + 1 /\ new[i] = list[i]
        /\ new[Len(list) + 1] = e
    BY <2>4, Appended
  <2>6. store'[c] = new
    BY <2>2, <2>3, <2>4
  <2>7. store' \in [Conversations -> Seq(Entry)]
    BY <2>1, <2>3, <2>4 DEF IInv, TypeOK
  <2>8. \A i \in DOMAIN list : list[i].id # e.id
    BY <1>2, <1>7, <2>3 DEF AlreadyThere, Ids
  <2>9. \A i \in DOMAIN new : i \in DOMAIN list \/ i = Len(list) + 1
    BY <2>5
  <2>10. Distinct(list)
    BY <2>3 DEF IInv, HonestList
  <2>11. Distinct(new)
    BY <2>5, <2>8, <2>9, <2>10 DEF Distinct
  <2>12. \A i \in DOMAIN new : Honest(c, new[i])'
    <3>1. \A i \in DOMAIN list : Honest(c, list[i])'
      BY <1>3, <2>3, HonestKept DEF IInv, HonestList
    <3>2. QED
      BY <1>5, <2>5, <2>9, <3>1
  <2>13. \A d \in Conversations : HonestList(d, store[d])'
    <3>1. HonestList(c, new)'
      BY <2>11, <2>12 DEF HonestList
    <3>2. QED
      BY <1>4, <2>2, <2>6, <3>1
  <2>14. Ids(store'[c]) = Ids(store[c]) \cup {id}
    BY <1>2, <2>3, <2>5, <2>6, <2>9 DEF Ids
  <2>15. QED
    BY <1>1, <2>2, <2>7, <2>13, <2>14 DEF Shown
<1>8. QED
  BY <1>6, <1>7

\* What is left to show of a step that adds to a list.
LEMMA AddIInv ==
  ASSUME IInv, TypeOK', NEW id \in Messages, NEW status \in {"pending", "sent"},
         AddMessage(id, status), UNCHANGED <<log, loads, taken>>,
         \A m \in Messages : \/ stage'[m] = stage[m]
                             \/ m = id /\ stage[id] = "bluetooth" /\ stage'[id] = "pending",
         status = "pending" => stage'[id] = "pending",
         status # "pending" => Saved(id),
         \A i \in DOMAIN events' : EventOK(events'[i]),
         received' = received \cup {id}, hidden' \in {hidden, hidden \ {id}}
  PROVE  IInv'
<1>1. PendingKept /\ LogKept
  <2>1. \A c \in Conversations : Len(log[c]) <= Len(log[c])
    BY DEF IInv, TypeOK
  <2>2. QED
    BY <2>1 DEF PendingKept, LogKept
<1>2. /\ \A c \in Conversations : HonestList(c, store[c])'
      /\ \A m \in Messages : Shown(m) => Shown(m)'
      /\ Shown(id)'
  BY <1>1, AddOK
<1>3. ASSUME NEW c \in Conversations PROVE LogOK(c)'
  BY DEF IInv, LogOK, Distinct
<1>4. ASSUME NEW m \in Messages PROVE StageOK(m)'
  BY DEF IInv, StageOK, Saved
<1>5. ASSUME NEW l \in Loads PROVE PageOK(l)'
  <2>1. loads[l] \in Load /\ loads' = loads
    BY DEF IInv, TypeOK
  <2>2. PICK c \in Conversations, list \in Seq(Entry) :
          c = loads[l].conv /\ list = loads[l].page
    BY <2>1 DEF Load
  <2>3. loads[l].phase = "served" => HonestList(c, list)'
    BY <1>1, <2>2, HonestKept DEF IInv, PageOK
  <2>4. QED
    BY <2>1, <2>2, <2>3 DEF IInv, PageOK
<1>6. (\A i \in DOMAIN events : EventOK(events[i]))' /\ (\A m \in received : Kept(m))'
  <2>1. \A m \in received' : m = id \/ (m \in received /\ m \in Messages)
    BY DEF IInv, TypeOK
  <2>2. Kept(id)'
    BY DEF Kept, Saved
  <2>3. \A m \in received : m \in Messages /\ Kept(m) => Kept(m)'
    BY DEF Kept, Saved
  <2>4. QED
    BY <2>1, <2>2, <2>3 DEF IInv, EventOK, Saved
<1>7. MissingOnlyOffThePage'
  <2>1. ASSUME NEW m \in Messages PROVE OffThePage(m) => OffThePage(m)'
    BY DEF OffThePage
  <2>2. ASSUME NEW m \in received', m # id
        PROVE  Shown(m)' \/ (m \in hidden' /\ (OffThePage(m)' \/ stage'[m] = "pending"))
    <3>1. m \in received /\ m \in Messages /\ (m \in hidden => m \in hidden')
      BY <2>2 DEF IInv, TypeOK
    <3>2. Shown(m) \/ (m \in hidden /\ (OffThePage(m) \/ stage[m] = "pending"))
      BY <3>1 DEF IInv, MissingOnlyOffThePage
    <3>3. QED
      BY <1>1, <1>2, <2>1, <3>1, <3>2 DEF PendingKept
  <2>3. QED
    BY <1>2, <2>2 DEF MissingOnlyOffThePage
<1>8. QED
  BY <1>2, <1>3, <1>4, <1>5, <1>6, <1>7 DEF IInv

-----------------------------------------------------------------------------
\* What is left to show of a step of the server that writes its table.
LEMMA LogIInv ==
  ASSUME IInv, TypeOK', LogKept, UNCHANGED <<store, loads, events, received, hidden, taken>>,
         \A m \in Messages : stage[m] = "pending" <=> stage'[m] = "pending",
         \A c \in Conversations : LogOK(c)',
         \A m \in Messages : StageOK(m)'
  PROVE  IInv'
<1>1. PendingKept
  BY DEF PendingKept
<1>2. ASSUME NEW c \in Conversations PROVE HonestList(c, store[c])'
  <2>1. PICK list \in Seq(Entry) : list = store[c]
    BY DEF IInv, TypeOK
  <2>2. HonestList(c, list)'
    BY <1>1, <2>1, HonestKept DEF IInv
  <2>3. QED
    BY <2>1, <2>2
<1>3. ASSUME NEW l \in Loads PROVE PageOK(l)'
  <2>1. loads[l] \in Load /\ loads' = loads
    BY DEF IInv, TypeOK
  <2>2. PICK c \in Conversations, list \in Seq(Entry) :
          c = loads[l].conv /\ list = loads[l].page
    BY <2>1 DEF Load
  <2>3. ASSUME loads[l].phase = "served" PROVE HonestList(c, list)'
    BY <1>1, <2>2, <2>3, HonestKept DEF IInv, PageOK
  <2>4. PICK upto \in Nat : upto = loads[l].upto
    BY <2>1 DEF Load
  <2>5. /\ log[c] \in Seq(Entry) /\ log'[c] \in Seq(Entry)
        /\ Len(log[c]) <= Len(log'[c])
        /\ \A i \in DOMAIN log[c] : log'[c][i].id = log[c][i].id
    BY DEF IInv, TypeOK, LogKept
  <2>6. /\ Len(log[c]) \in Nat /\ Len(log'[c]) \in Nat
        /\ DOMAIN log[c] = 1 .. Len(log[c]) /\ DOMAIN log'[c] = 1 .. Len(log'[c])
    BY <2>5
  <2>7. ASSUME loads[l].phase = "served"
        PROVE  /\ upto <= Len(log'[c])
               /\ \A i \in DOMAIN log'[c] :
                    (i <= upto /\ upto < i + PageSize) => log'[c][i].id \in Ids(list)
    <3>1. /\ upto <= Len(log[c])
          /\ \A i \in DOMAIN log[c] :
               (i <= upto /\ upto < i + PageSize) => log[c][i].id \in Ids(list)
      BY <2>2, <2>4, <2>7 DEF IInv, PageOK
    <3>2. upto <= Len(log'[c])
      BY <2>5, <2>6, <3>1
    <3>3. ASSUME NEW i \in DOMAIN log'[c], i <= upto, upto < i + PageSize
          PROVE  log'[c][i].id \in Ids(list)
      <4>1. i \in DOMAIN log[c]
        BY <2>6, <3>1, <3>3
      <4>2. QED
        BY <2>5, <3>1, <3>3, <4>1
    <3>4. QED
      BY <3>2, <3>3
  <2>8. loads'[l].phase = "served" => loads[l].phase = "served"
    BY <2>1
  <2>9. QED
    BY <2>1, <2>2, <2>3, <2>4, <2>7, <2>8 DEF PageOK
<1>4. \A m \in Messages : Saved(m) => Saved(m)'
  BY SavedKept
<1>5. (\A i \in DOMAIN events : EventOK(events[i]))'
  <2>1. ASSUME NEW i \in DOMAIN events' PROVE \E e \in Event : e = events'[i] /\ EventOK(e)'
    <3>1. PICK e \in Event : e = events[i] /\ EventOK(e)
      BY DEF IInv, TypeOK
    <3>2. EventOK(e)'
      BY <1>4, <3>1 DEF EventOK, Event
    <3>3. QED
      BY <3>1, <3>2
  <2>2. QED
    BY <2>1
<1>6. \A m \in received' : Kept(m)'
  BY <1>4 DEF IInv, TypeOK, Kept
<1>7. MissingOnlyOffThePage'
  <2>1. \A m \in Messages : (Shown(m) => Shown(m)') /\ (OffThePage(m) => OffThePage(m)')
    BY SavedKept DEF Shown
  <2>2. QED
    BY <2>1 DEF IInv, TypeOK, MissingOnlyOffThePage
<1>8. QED
  <2>1. (\A c \in Conversations : LogOK(c) /\ HonestList(c, store[c]))'
    BY <1>2
  <2>2. (\A m \in received : Kept(m))' /\ (\A m \in Messages : StageOK(m))'
    BY <1>6
  <2>3. (\A l \in Loads : PageOK(l))'
    BY <1>3
  <2>4. QED
    BY <1>5, <1>7, <2>1, <2>2, <2>3 DEF IInv

\* A saved message is a new row.
LEMMA SaveIInv == ASSUME IInv, NEW m \in Messages, Save(m) PROVE IInv'
<1>1. PICK c \in Conversations : c = ConversationOf[m]
  OBVIOUS
<1>2. PICK e \in Entry : e = [id |-> m, status |-> "sent"]
  BY DEF Entry
<1>3. /\ stage[m] = "wire" /\ stage' = [stage EXCEPT ![m] = "saved"]
      /\ log' = [log EXCEPT ![c] = Append(log[c], e)]
      /\ UNCHANGED <<store, listed, received, hidden, taken, linkUp, events, loads>>
  BY <1>1, <1>2 DEF Save, clientVars, historyVars, netVars
<1>4. /\ log[c] \in Seq(Entry) /\ Append(log[c], e) \in Seq(Entry) /\ Len(log[c]) \in Nat
      /\ log \in [Conversations -> Seq(Entry)] /\ stage \in [Messages -> Stages]
  BY Appended DEF IInv, TypeOK
<1>5. /\ DOMAIN log[c] = 1 .. Len(log[c]) /\ DOMAIN log'[c] = 1 .. Len(log[c]) + 1
      /\ Len(log'[c]) = Len(log[c]) + 1
      /\ \A i \in DOMAIN log[c] : i # Len(log[c]) + 1 /\ log'[c][i] = log[c][i]
      /\ log'[c][Len(log[c]) + 1] = e
      /\ \A d \in Conversations : d # c => log'[d] = log[d]
  BY <1>3, <1>4, Appended
<1>6. TypeOK'
  <2>1. log' \in [Conversations -> Seq(Entry)] /\ stage' \in [Messages -> Stages]
    BY <1>3, <1>4 DEF Stages
  <2>2. QED
    BY <1>3, <2>1 DEF IInv, TypeOK
<1>7. LogKept
  <2>1. \A d \in Conversations : Len(log[d]) <= Len(log[d])
    BY <1>4
  <2>2. /\ Len(log[c]) <= Len(log'[c])
        /\ \A i \in DOMAIN log[c] : i \in DOMAIN log'[c] /\ log'[c][i] = log[c][i]
    BY <1>4, <1>5
  <2>3. QED
    BY <1>5, <2>1, <2>2 DEF LogKept
<1>8. ~Saved(m)
  BY <1>3 DEF IInv, StageOK
<1>9. ASSUME NEW d \in Conversations PROVE LogOK(d)'
  <2>1. CASE d # c
    BY <1>5, <2>1 DEF IInv, LogOK, Distinct
  <2>2. CASE d = c
    <3>1. \A i \in DOMAIN log[c] : log[c][i].id # m
      BY <1>1, <1>8 DEF Saved, Ids
    <3>2. LogOK(c) /\ e.id = m /\ e.status = "sent"
      BY <1>2 DEF IInv
    <3>3. \A i \in DOMAIN log'[c] : i \in DOMAIN log[c] \/ i = Len(log[c]) + 1
      BY <1>4, <1>5
    <3>4. PICK new \in Seq(Entry) : new = log'[c]
      BY <1>6 DEF TypeOK
    <3>5. /\ \A i \in DOMAIN new : i \in DOMAIN log[c] \/ i = Len(log[c]) + 1
          /\ \A i \in DOMAIN log[c] : new[i] = log[c][i]
          /\ new[Len(log[c]) + 1] = e
      BY <1>5, <3>3, <3>4
    <3>6. Distinct(new)
      BY <3>1, <3>2, <3>5 DEF LogOK, Distinct
    <3>7. \A i \in DOMAIN new : ConversationOf[new[i].id] = c /\ new[i].status # "pending"
      BY <1>1, <3>2, <3>5 DEF LogOK
    <3>8. QED
      BY <2>2, <3>4, <3>6, <3>7 DEF LogOK
  <2>3. QED
    BY <2>1, <2>2
<1>10. \A n \in Messages : Saved(n)' <=> Saved(n) \/ n = m
  <2>1. Ids(log'[c]) = Ids(log[c]) \cup {m}
    <3>1. \A i \in DOMAIN log'[c] : i \in DOMAIN log[c] \/ i = Len(log[c]) + 1
      BY <1>4, <1>5
    <3>2. DOMAIN log[c] \subseteq DOMAIN log'[c] /\ Len(log[c]) + 1 \in DOMAIN log'[c]
      BY <1>4, <1>5
    <3>3. QED
      BY <1>2, <1>5, <3>1, <3>2 DEF Ids
  <2>2. QED
    BY <1>1, <1>5, <2>1 DEF Saved
<1>11. \A n \in Messages : StageOK(n)'
  BY <1>3, <1>4, <1>10 DEF IInv, StageOK
<1>12. \A n \in Messages : stage[n] = "pending" <=> stage'[n] = "pending"
  BY <1>3, <1>4
<1>13. QED
  BY <1>3, <1>6, <1>7, <1>9, <1>11, <1>12, LogIInv

\* A receipt changes a status and nothing else.
LEMMA MarkReadIInv == ASSUME IInv, NEW o \in Outgoing, MarkRead(o) PROVE IInv'
<1>1. PICK c \in Conversations : c = ConversationOf[o]
  BY DEF Messages
<1>2. log[c] \in Seq(Entry) /\ log \in [Conversations -> Seq(Entry)]
  BY DEF IInv, TypeOK
<1>3. PICK new : new = [i \in DOMAIN log[c] |->
                         IF log[c][i].id = o THEN [log[c][i] EXCEPT !.status = "read"]
                         ELSE log[c][i]]
  OBVIOUS
<1>4. /\ log' = [log EXCEPT ![c] = new]
      /\ UNCHANGED <<store, listed, received, hidden, taken, stage, linkUp, events, loads>>
  BY <1>1, <1>3 DEF MarkRead, clientVars, historyVars, netVars
<1>5. ASSUME NEW i \in DOMAIN log[c]
      PROVE  /\ new[i] \in Entry /\ new[i].id = log[c][i].id
             /\ log[c][i].status # "pending" => new[i].status # "pending"
             /\ log[c][i].status = "read" => new[i] = log[c][i]
  <2>1. log[c][i] \in Entry
    BY <1>2
  <2>2. QED
    BY <1>3, <2>1 DEF Entry
<1>6. new \in Seq(Entry) /\ Len(new) = Len(log[c]) /\ DOMAIN new = DOMAIN log[c]
  <2>1. new \in [DOMAIN log[c] -> Entry]
    BY <1>3, <1>5
  <2>2. QED
    BY <1>2, <2>1, Mapped
<1>7. /\ log' \in [Conversations -> Seq(Entry)] /\ log'[c] = new
      /\ \A d \in Conversations : d # c => log'[d] = log[d]
  BY <1>2, <1>4, <1>6
<1>8. TypeOK'
  BY <1>4, <1>7 DEF IInv, TypeOK
<1>9. LogKept
  <2>1. \A d \in Conversations : Len(log[d]) <= Len(log[d])
    BY <1>2
  <2>2. QED
    BY <1>5, <1>6, <1>7, <2>1 DEF LogKept
<1>10. ASSUME NEW d \in Conversations PROVE LogOK(d)' /\ Ids(log'[d]) = Ids(log[d])
  <2>1. CASE d # c
    BY <1>7, <2>1 DEF IInv, LogOK, Distinct
  <2>2. CASE d = c
    <3>1. LogOK(c)
      BY DEF IInv
    <3>2. Distinct(new) /\ Ids(new) = Ids(log[c])
      BY <1>5, <1>6, <3>1 DEF LogOK, Distinct, Ids
    <3>3. \A i \in DOMAIN new : ConversationOf[new[i].id] = c /\ new[i].status # "pending"
      BY <1>5, <1>6, <3>1 DEF LogOK
    <3>4. QED
      BY <1>7, <2>2, <3>2, <3>3 DEF LogOK
  <2>3. QED
    BY <2>1, <2>2
<1>11. \A n \in Messages : StageOK(n)'
  BY <1>4, <1>10 DEF IInv, StageOK, Saved
<1>12. QED
  BY <1>4, <1>8, <1>9, <1>10, <1>11, LogIInv

-----------------------------------------------------------------------------
\* A call of loadMessages that does not move keeps its page true.
LEMMA PageKept ==
  ASSUME IInv, log' = log, PendingKept, NEW l \in Loads, loads'[l] = loads[l]
  PROVE  PageOK(l)'
<1>1. LogKept
  BY DEF IInv, TypeOK, LogKept
<1>2. PICK c \in Conversations, list \in Seq(Entry) :
        c = loads[l].conv /\ list = loads[l].page
  BY DEF IInv, TypeOK, Load
<1>3. loads[l].phase = "served" => HonestList(c, list)'
  BY <1>1, <1>2, HonestKept DEF IInv, PageOK
<1>4. QED
  BY <1>2, <1>3 DEF IInv, PageOK

\* The actions of the client and the network that touch neither a list nor a
\* table, and no page that was read.
LEMMA CallIInv ==
  ASSUME IInv, UNCHANGED <<store, log, stage, received, hidden, taken, linkUp, events>>,
         \/ listed' = TRUE /\ loads' = loads
         \/ listed' = listed /\ \E l \in Loads, p \in {"asked", "done"} :
                                  loads' = [loads EXCEPT ![l].phase = p]
  PROVE  IInv'
<1>1. TypeOK'
  <2>1. loads \in [Loads -> Load] /\ listed' \in BOOLEAN
    BY DEF IInv, TypeOK
  <2>2. ASSUME NEW l \in Loads, NEW p \in {"asked", "done"}
        PROVE  [loads EXCEPT ![l].phase = p] \in [Loads -> Load]
    <3>1. PICK x \in Load : x = loads[l]
      BY <2>1
    <3>2. PICK y : y = [x EXCEPT !.phase = p]
      OBVIOUS
    <3>3. y \in Load
      BY <3>2 DEF Load
    <3>4. [loads EXCEPT ![l].phase = p] = [loads EXCEPT ![l] = y]
      BY <3>1, <3>2
    <3>5. QED
      BY <2>1, <3>3, <3>4
  <2>3. loads' \in [Loads -> Load]
    <3>1. CASE \E l \in Loads, p \in {"asked", "done"} :
                 loads' = [loads EXCEPT ![l].phase = p]
      <4>1. PICK l \in Loads, p \in {"asked", "done"} :
              loads' = [loads EXCEPT ![l].phase = p]
        BY <3>1
      <4>2. QED
        BY ONLY <2>2, <4>1
    <3>2. QED
      BY <2>1, <3>1
  <2>4. QED
    BY <2>1, <2>3 DEF IInv, TypeOK
<1>2. ASSUME NEW l \in Loads PROVE PageOK(l)'
  <2>1. CASE loads'[l] = loads[l]
    BY <2>1, PageKept DEF PendingKept
  <2>2. CASE loads'[l] # loads[l]
    <3>1. loads \in [Loads -> Load]
      BY DEF IInv, TypeOK
    <3>2. loads'[l].phase \in {"asked", "done"}
      BY <2>2, <3>1 DEF Load
    <3>3. QED
      BY <3>2 DEF PageOK
  <2>3. QED
    BY <2>1, <2>2
<1>3. QED
  BY <1>1, <1>2, QuietIInv DEF IInv

\* The steps of a message that leave lists and tables alone.
LEMMA StageIInv ==
  ASSUME IInv, UNCHANGED <<store, listed, received, hidden, taken, log, loads>>,
         stage' \in [Messages -> Stages], linkUp' \in BOOLEAN, events' \in Seq(Event),
         \A m \in Messages :
           \/ stage'[m] = stage[m]
           \/ {stage[m], stage'[m]} \cap {"saved", "announced", "pending"} = {}
           \/ stage[m] = "saved" /\ stage'[m] = "announced",
         \A i \in DOMAIN events' : EventOK(events'[i])
  PROVE  IInv'
<1>1. TypeOK'
  BY DEF IInv, TypeOK
<1>2. \A l \in Loads : PageOK(l)'
  BY PageKept DEF PendingKept
<1>3. QED
  BY <1>1, <1>2, QuietIInv

LEMMA SendIInv == ASSUME IInv, NEW o \in Outgoing, Send(o) PROVE IInv'
<1>1. stage \in [Messages -> Stages] /\ o \in Messages
  BY DEF IInv, TypeOK, Messages
<1>2. PICK s \in {"wire", "bluetooth", "unlisted"} : stage' = [stage EXCEPT ![o] = s]
  BY DEF Send
<1>3. stage[o] = "unwritten" /\ UNCHANGED <<store, listed, received, hidden, taken, log, loads, linkUp, events>>
  BY DEF Send, clientVars, historyVars, netVars
<1>4. stage' \in [Messages -> Stages]
  BY <1>1, <1>2 DEF Stages
<1>5. \A m \in Messages : \/ stage'[m] = stage[m]
                          \/ stage[m] = "unwritten" /\ stage'[m] = s
  BY <1>1, <1>2, <1>3
<1>6. QED
  BY <1>3, <1>4, <1>5, StageIInv DEF IInv, TypeOK

LEMMA PeerWritesIInv == ASSUME IInv, NEW m \in Incoming, PeerWrites(m) PROVE IInv'
<1>1. stage \in [Messages -> Stages] /\ m \in Messages
  BY DEF IInv, TypeOK, Messages
<1>2. /\ stage[m] = "unwritten" /\ stage' = [stage EXCEPT ![m] = "wire"]
      /\ UNCHANGED <<store, listed, received, hidden, taken, log, loads, linkUp, events>>
  BY DEF PeerWrites, clientVars, historyVars, netVars
<1>3. stage' \in [Messages -> Stages]
  BY <1>1, <1>2 DEF Stages
<1>4. \A n \in Messages : \/ stage'[n] = stage[n]
                          \/ stage[n] = "unwritten" /\ stage'[n] = "wire"
  BY <1>1, <1>2
<1>5. QED
  BY <1>2, <1>3, <1>4, StageIInv DEF IInv, TypeOK

\* What is announced was saved first, so every event is of a saved message.
LEMMA AnnounceIInv == ASSUME IInv, NEW m \in Messages, Announce(m) PROVE IInv'
<1>1. stage \in [Messages -> Stages]
  BY DEF IInv, TypeOK
<1>2. /\ stage[m] = "saved" /\ stage' = [stage EXCEPT ![m] = "announced"]
      /\ UNCHANGED <<store, listed, received, hidden, taken, log, loads, linkUp>>
  BY DEF Announce, clientVars, historyVars
<1>3. PICK t \in {"receive", "sent"} : t = IF m \in Incoming THEN "receive" ELSE "sent"
  OBVIOUS
<1>4. PICK e \in Event : e = [type |-> t, id |-> m]
  BY DEF Event
<1>5. EventOK(e)
  BY <1>2, <1>3, <1>4 DEF IInv, StageOK, EventOK
<1>6. events' = events \/ events' = Append(events, e)
  BY <1>3, <1>4 DEF Announce
<1>7. events \in Seq(Event) /\ \A i \in DOMAIN events : EventOK(events[i])
  BY DEF IInv, TypeOK
<1>8. events' \in Seq(Event) /\ \A i \in DOMAIN events' : EventOK(events'[i])
  <2>1. CASE events' = Append(events, e)
    <3>1. \A i \in DOMAIN events' : i \in DOMAIN events \/ i = Len(events) + 1
      BY <1>7, <2>1, Appended
    <3>2. QED
      BY <1>5, <1>7, <2>1, <3>1, Appended
  <2>2. QED
    BY <1>6, <1>7, <2>1
<1>9. stage' \in [Messages -> Stages]
  BY <1>1, <1>2 DEF Stages
<1>10. \A n \in Messages : \/ stage'[n] = stage[n]
                           \/ stage[n] = "saved" /\ stage'[n] = "announced"
  BY <1>1, <1>2
<1>11. QED
  BY <1>2, <1>8, <1>9, <1>10, StageIInv DEF IInv, TypeOK

LEMMA LinkIInv == ASSUME IInv, LinkUp \/ LinkDown PROVE IInv'
<1>1. stage \in [Messages -> Stages] /\ events \in Seq(Event)
  BY DEF IInv, TypeOK
<1>2. CASE LinkUp
  <2>1. /\ linkUp' = TRUE
        /\ UNCHANGED <<store, listed, received, hidden, taken, log, loads, events, stage>>
    BY <1>2 DEF LinkUp, clientVars, historyVars, serverVars
  <2>2. \A i \in DOMAIN events' : EventOK(events'[i])
    BY <2>1 DEF IInv
  <2>3. QED
    BY <1>1, <2>1, <2>2, StageIInv
<1>3. CASE LinkDown
  <2>1. PICK gone \in SUBSET {o \in Outgoing : stage[o] = "wire"} :
          stage' = [m \in Messages |-> IF m \in gone THEN "lost" ELSE stage[m]]
    BY <1>3 DEF LinkDown
  <2>2. /\ linkUp' = FALSE /\ events' = <<>>
        /\ UNCHANGED <<store, listed, received, hidden, taken, log, loads>>
    BY <1>3 DEF LinkDown, clientVars, historyVars
  <2>3. /\ stage' \in [Messages -> Stages]
        /\ \A m \in Messages : \/ stage'[m] = stage[m]
                               \/ stage[m] = "wire" /\ stage'[m] = "lost"
    BY <1>1, <2>1 DEF Stages
  <2>4. events' \in Seq(Event) /\ DOMAIN events' = {}
    BY <2>2
  <2>5. QED
    BY <2>2, <2>3, <2>4, StageIInv
<1>4. QED
  BY <1>2, <1>3

-----------------------------------------------------------------------------
\* What is handled was announced, and what waits behind it still was.
LEMMA NextEvent ==
  ASSUME IInv, events # <<>>
  PROVE  /\ Head(events) \in Event /\ EventOK(Head(events))
         /\ Tail(events) \in Seq(Event)
         /\ \A i \in DOMAIN Tail(events) : EventOK(Tail(events)[i])
<1>1. events \in Seq(Event) /\ \A i \in DOMAIN events : EventOK(events[i])
  BY DEF IInv, TypeOK
<1>2. /\ Head(events) \in Event /\ Head(events) = events[1] /\ 1 \in DOMAIN events
      /\ Tail(events) \in Seq(Event)
      /\ \A i \in DOMAIN Tail(events) :
           i + 1 \in DOMAIN events /\ Tail(events)[i] = events[i + 1]
  BY <1>1
<1>3. QED
  BY <1>1, <1>2

LEMMA ReceiveIInv ==
  ASSUME IInv, events # <<>>, events' = Tail(events),
         Head(events).type = "receive", AddMessage(Head(events).id, "sent"),
         received' = received \cup {Head(events).id}, hidden' = hidden \ {Head(events).id},
         UNCHANGED <<listed, taken, log, stage, linkUp, loads>>
  PROVE  IInv'
<1>1. PICK e \in Event : e = Head(events)
  BY NextEvent
<1>2. PICK id \in Messages : id = e.id
  BY DEF Event
<1>3. EventOK(e) /\ Saved(id) /\ id \in Incoming
  BY <1>1, <1>2, NextEvent DEF EventOK
<1>4. AddMessage(id, "sent") /\ received' = received \cup {id} /\ hidden' = hidden \ {id}
  BY <1>1, <1>2
<1>5. store' \in [Conversations -> Seq(Entry)]
  BY <1>3, <1>4, AddOK DEF PendingKept
<1>6. events' \in Seq(Event) /\ \A i \in DOMAIN events' : EventOK(events'[i])
  BY NextEvent
<1>7. TypeOK'
  BY <1>3, <1>4, <1>5, <1>6 DEF IInv, TypeOK
<1>8. QED
  BY <1>3, <1>4, <1>6, <1>7, AddIInv

\* updateMessageStatus shows and hides nothing, and what it says is true of a
\* message that was saved.
LEMMA SentIInv ==
  ASSUME IInv, events # <<>>, events' = Tail(events),
         UpdateMessageStatus(Head(events).id, SentStatus),
         UNCHANGED <<listed, received, hidden, taken, log, stage, linkUp, loads>>
  PROVE  IInv'
<1>1. PICK e \in Event : e = Head(events)
  BY NextEvent
<1>2. PICK id \in Messages : id = e.id
  BY DEF Event
<1>3. Saved(id)
  BY <1>1, <1>2, NextEvent DEF EventOK
<1>4. ASSUME NEW c \in Conversations
      PROVE  /\ store'[c] \in Seq(Entry) /\ DOMAIN store'[c] = DOMAIN store[c]
             /\ \A i \in DOMAIN store[c] :
                  /\ store'[c][i].id = store[c][i].id
                  /\ \/ store'[c][i] = store[c][i]
                     \/ store[c][i].id = id /\ store'[c][i].status = "sent"
  <2>1. PICK list \in Seq(Entry) : list = store[c]
    BY DEF IInv, TypeOK
  <2>2. PICK new : new = [i \in DOMAIN list |->
                           IF IsEntry(list[i], id)
                           THEN [list[i] EXCEPT !.status = SentStatus] ELSE list[i]]
    OBVIOUS
  <2>3. store'[c] = new
    BY <1>1, <1>2, <2>1, <2>2 DEF UpdateMessageStatus
  <2>4. ASSUME NEW i \in DOMAIN list
        PROVE  /\ new[i] \in Entry /\ new[i].id = list[i].id
               /\ \/ new[i] = list[i]
                  \/ list[i].id = id /\ new[i].status = "sent"
    <3>1. list[i] \in Entry
      OBVIOUS
    <3>2. QED
      BY <2>2, <3>1 DEF IsEntry, SentStatus, Entry
  <2>5. new \in Seq(Entry) /\ DOMAIN new = DOMAIN list
    <3>1. new \in [DOMAIN list -> Entry]
      BY <2>2, <2>4
    <3>2. QED
      BY <3>1, Mapped
  <2>6. QED
    BY <2>1, <2>3, <2>4, <2>5
<1>5. store' \in [Conversations -> Seq(Entry)]
  <2>1. PICK new : new = [c \in Conversations |->
                           [i \in DOMAIN store[c] |->
                             IF IsEntry(store[c][i], id)
                             THEN [store[c][i] EXCEPT !.status = SentStatus]
                             ELSE store[c][i]]]
    OBVIOUS
  <2>2. store' = new
    BY <1>1, <1>2, <2>1 DEF UpdateMessageStatus
  <2>3. \A c \in Conversations : new[c] \in Seq(Entry)
    BY <1>4, <2>2
  <2>4. QED
    BY <2>1, <2>2, <2>3
<1>6. events' \in Seq(Event) /\ \A i \in DOMAIN events' : EventOK(events'[i])
  BY NextEvent
<1>7. TypeOK'
  BY <1>5, <1>6 DEF IInv, TypeOK
<1>8. ASSUME NEW c \in Conversations PROVE (LogOK(c) /\ HonestList(c, store[c]))'
  <2>1. PICK new \in Seq(Entry) : new = store'[c]
    BY <1>4
  <2>2. HonestList(c, store[c])
    BY DEF IInv
  <2>3. Distinct(new)
    BY <1>4, <2>1, <2>2 DEF HonestList, Distinct
  <2>4. \A i \in DOMAIN new : Honest(c, new[i])
    BY <1>3, <1>4, <2>1, <2>2 DEF HonestList, Honest
  <2>5. HonestList(c, new)'
    BY <2>3, <2>4 DEF HonestList, Honest, Saved
  <2>6. QED
    BY <2>1, <2>5 DEF IInv, LogOK, Distinct
<1>9. \A m \in Messages : StageOK(m)'
  BY DEF IInv, StageOK, Saved
<1>10. \A l \in Loads : PageOK(l)'
  BY PageKept DEF PendingKept
<1>11. (\A i \in DOMAIN events : EventOK(events[i]))' /\ (\A m \in received : Kept(m))'
  BY <1>6 DEF IInv, EventOK, Saved, Kept
<1>12. MissingOnlyOffThePage'
  <2>1. \A c \in Conversations : Ids(store'[c]) = Ids(store[c])
    BY <1>4 DEF Ids
  <2>2. \A m \in Messages : Shown(m)' <=> Shown(m)
    BY <2>1 DEF Shown
  <2>3. QED
    BY <2>2 DEF IInv, TypeOK, MissingOnlyOffThePage, OffThePage, Messages
<1>13. QED
  BY <1>7, <1>8, <1>9, <1>10, <1>11, <1>12 DEF IInv

LEMMA HandleEventIInv == ASSUME IInv, HandleEvent PROVE IInv'
<1>1. /\ events # <<>> /\ events' = Tail(events)
      /\ UNCHANGED <<listed, taken, log, stage, linkUp, loads>>
  BY DEF HandleEvent, serverVars
<1>2. CASE /\ Head(events).type = "receive" /\ AddMessage(Head(events).id, "sent")
           /\ received' = received \cup {Head(events).id}
           /\ hidden' = hidden \ {Head(events).id}
  BY <1>1, <1>2, ReceiveIInv
<1>3. CASE UpdateMessageStatus(Head(events).id, SentStatus) /\ UNCHANGED <<received, hidden>>
  BY <1>1, <1>3, SentIInv
<1>4. QED
  BY <1>2, <1>3 DEF HandleEvent

\* A draft that cannot leave is kept as pending; the rest of what the attempt
\* over Bluetooth may bring leaves the lists alone.
LEMMA BluetoothIInv == ASSUME IInv, NEW o \in Outgoing, BluetoothAnswers(o) PROVE IInv'
<1>1. /\ stage \in [Messages -> Stages] /\ o \in Messages
      /\ events \in Seq(Event) /\ \A i \in DOMAIN events : EventOK(events[i])
  BY DEF IInv, TypeOK, Messages
<1>2. /\ stage[o] \in {"bluetooth", "unlisted"}
      /\ UNCHANGED <<listed, hidden, taken, log, linkUp, events, loads>>
  BY DEF BluetoothAnswers, netVars
<1>3. CASE /\ stage[o] = "bluetooth" /\ stage' = [stage EXCEPT ![o] = "pending"]
           /\ AddMessage(o, "pending") /\ received' = received \cup {o}
  <2>1. /\ stage' \in [Messages -> Stages] /\ stage'[o] = "pending"
        /\ \A m \in Messages : m # o => stage'[m] = stage[m]
    BY <1>1, <1>3 DEF Stages
  <2>2. store' \in [Conversations -> Seq(Entry)]
    BY <1>1, <1>2, <1>3, <2>1, AddOK DEF PendingKept
  <2>3. TypeOK'
    BY <1>1, <1>2, <1>3, <2>1, <2>2 DEF IInv, TypeOK
  <2>4. QED
    BY <1>1, <1>2, <1>3, <2>1, <2>3, AddIInv DEF IInv, TypeOK
<1>4. CASE /\ UNCHANGED <<store, received>>
           /\ \E s \in {"dropped", "by bluetooth"} : stage' = [stage EXCEPT ![o] = s]
  <2>1. PICK s \in {"dropped", "by bluetooth"} : stage' = [stage EXCEPT ![o] = s]
    BY <1>4
  <2>2. /\ stage' \in [Messages -> Stages]
        /\ \A m \in Messages : \/ stage'[m] = stage[m]
                               \/ stage[m] \in {"bluetooth", "unlisted"} /\ stage'[m] = s
    BY <1>1, <1>2, <2>1 DEF Stages
  <2>3. QED
    BY <1>1, <1>2, <1>4, <2>2, StageIInv DEF IInv, TypeOK
<1>5. QED
  BY <1>3, <1>4 DEF BluetoothAnswers

-----------------------------------------------------------------------------
\* The page of a table is true, and holds its newest messages.
LEMMA PageRead ==
  ASSUME IInv, NEW c \in Conversations
  PROVE  /\ Page(c) \in Seq(Entry) /\ HonestList(c, Page(c)) /\ Len(log[c]) \in Nat
         /\ \A i \in DOMAIN log[c] :
              Len(log[c]) < i + PageSize => log[c][i].id \in Ids(Page(c))
<1>1. PICK rows \in Seq(Entry) : rows = log[c]
  BY DEF IInv, TypeOK
<1>2. PICK n \in Nat : n = Len(rows)
  OBVIOUS
<1>3. PICK k \in Nat : k = IF n < PageSize THEN n ELSE PageSize
  OBVIOUS
<1>4. PICK page : page = [i \in 1 .. k |-> rows[n + 1 - i]]
  OBVIOUS
<1>5. Page(c) = page
  BY <1>1, <1>2, <1>3, <1>4 DEF Page
<1>6. DOMAIN rows = 1 .. n /\ k <= n /\ k <= PageSize
  BY <1>2, <1>3
<1>7. \A i \in 1 .. k : n + 1 - i \in 1 .. n /\ page[i] = rows[n + 1 - i] /\ page[i] \in Entry
  BY <1>2, <1>4, <1>6
<1>8. page \in [1 .. k -> Entry]
  BY <1>4, <1>7
<1>9. page \in Seq(Entry) /\ DOMAIN page = 1 .. k
  BY <1>8
<1>10. LogOK(c) /\ Distinct(rows)
  BY <1>1 DEF IInv, LogOK
<1>11. Distinct(page)
  <2>1. ASSUME NEW i \in 1 .. k, NEW j \in 1 .. k, page[i].id = page[j].id PROVE i = j
    <3>1. n + 1 - i = n + 1 - j
      BY <1>6, <1>7, <1>10, <2>1 DEF Distinct
    <3>2. QED
      BY <3>1
  <2>2. QED
    BY <1>9, <2>1 DEF Distinct
<1>12. \A i \in 1 .. k : Honest(c, page[i])
  <2>1. ASSUME NEW j \in DOMAIN rows PROVE Honest(c, rows[j])
    <3>1. ConversationOf[rows[j].id] = c /\ rows[j].status # "pending"
      BY <1>1, <1>10 DEF LogOK
    <3>2. rows[j].id \in Ids(log[c])
      BY <1>1 DEF Ids
    <3>3. QED
      BY <1>1, <3>1, <3>2 DEF Honest, Saved
  <2>2. QED
    BY <1>6, <1>7, <2>1
<1>13. ASSUME NEW i \in 1 .. n, n < i + PageSize PROVE rows[i].id \in Ids(page)
  <2>1. n + 1 - i \in 1 .. k /\ n + 1 - (n + 1 - i) = i
    BY <1>3, <1>13
  <2>2. page[n + 1 - i] = rows[i]
    BY <1>4, <2>1
  <2>3. QED
    BY <1>9, <2>1, <2>2 DEF Ids
<1>14. QED
  BY <1>1, <1>2, <1>5, <1>6, <1>9, <1>11, <1>12, <1>13 DEF HonestList

LEMMA ServeLoadIInv == ASSUME IInv, NEW l \in Loads, ServeLoad(l) PROVE IInv'
<1>1. loads \in [Loads -> Load]
  BY DEF IInv, TypeOK
<1>2. PICK x \in Load : x = loads[l]
  BY <1>1
<1>3. PICK c \in Conversations : c = x.conv
  BY DEF Load
<1>4. PICK page \in Seq(Entry), n \in Nat : page = Page(c) /\ n = Len(log[c])
  BY PageRead
<1>5. PICK y : y = [conv |-> c, phase |-> "served", page |-> page, upto |-> n]
  OBVIOUS
<1>6. /\ loads' = [loads EXCEPT ![l] = y] /\ y \in Load
      /\ UNCHANGED <<store, listed, received, hidden, taken, log, stage, linkUp, events>>
  <2>1. y \in Load
    BY <1>5 DEF Load
  <2>2. loads' = [loads EXCEPT ![l] = [[[x EXCEPT !.phase = "served"]
                                          EXCEPT !.page = page] EXCEPT !.upto = n]]
    BY <1>1, <1>2, <1>3, <1>4 DEF ServeLoad
  <2>3. [[[x EXCEPT !.phase = "served"] EXCEPT !.page = page] EXCEPT !.upto = n] = y
    <3>1. x = [conv |-> x.conv, phase |-> x.phase, page |-> x.page, upto |-> x.upto]
      BY DEF Load
    <3>2. [x EXCEPT !.phase = "served"]
            = [conv |-> x.conv, phase |-> "served", page |-> x.page, upto |-> x.upto]
      BY <3>1
    <3>3. [[conv |-> x.conv, phase |-> "served", page |-> x.page, upto |-> x.upto]
             EXCEPT !.page = page]
            = [conv |-> x.conv, phase |-> "served", page |-> page, upto |-> x.upto]
      OBVIOUS
    <3>4. [[conv |-> x.conv, phase |-> "served", page |-> page, upto |-> x.upto]
             EXCEPT !.upto = n]
            = [conv |-> x.conv, phase |-> "served", page |-> page, upto |-> n]
      OBVIOUS
    <3>5. QED
      BY <1>3, <1>5, <3>2, <3>3, <3>4
  <2>4. QED
    BY <2>1, <2>2, <2>3 DEF ServeLoad, clientVars, historyVars, serverVars, netVars
<1>7. loads' \in [Loads -> Load] /\ loads'[l] = y /\ \A k \in Loads : k # l => loads'[k] = loads[k]
  BY <1>1, <1>6
<1>8. TypeOK'
  BY <1>6, <1>7 DEF IInv, TypeOK
<1>9. ASSUME NEW k \in Loads PROVE PageOK(k)'
  <2>1. CASE k # l
    BY <1>6, <1>7, <2>1, PageKept DEF PendingKept
  <2>2. CASE k = l
    <3>1. HonestList(c, page)
      BY <1>4, PageRead
    <3>2. HonestList(c, page)'
      BY <1>6, <3>1 DEF HonestList, Honest, Distinct, Saved
    <3>3. \A i \in DOMAIN log[c] : n < i + PageSize => log[c][i].id \in Ids(page)
      BY <1>4, PageRead
    <3>4. n <= Len(log[c])
      BY <1>4
    <3>5. QED
      BY <1>5, <1>6, <1>7, <2>2, <3>2, <3>3, <3>4 DEF PageOK
  <2>3. QED
    BY <2>1, <2>2
<1>10. QED
  BY <1>6, <1>8, <1>9, QuietIInv DEF IInv

\* The page replaces the list: what it does not hold is off the page from now on.
LEMMA ApplyLoadIInv == ASSUME IInv, NEW l \in Loads, ApplyLoad(l) PROVE IInv'
<1>1. loads \in [Loads -> Load]
  BY DEF IInv, TypeOK
<1>2. PICK x \in Load : x = loads[l]
  BY <1>1
<1>3. PICK c \in Conversations, page \in Seq(Entry), upto \in Nat :
        c = x.conv /\ page = x.page /\ upto = x.upto
  BY DEF Load
<1>4. /\ x.phase = "served" /\ store' = [store EXCEPT ![c] = page]
      /\ taken' = [taken EXCEPT ![c] = {upto}]
      /\ received' = received \cup Ids(page)
      /\ hidden' = {m \in received : m \notin Ids(page)
                                      /\ (ConversationOf[m] = c \/ m \in hidden)}
      /\ UNCHANGED <<listed, log, stage, linkUp, events>>
  BY <1>2, <1>3 DEF ApplyLoad, serverVars, netVars
<1>5. PICK y \in Load : y = [x EXCEPT !.phase = "done"]
  BY DEF Load
<1>6. loads' = [loads EXCEPT ![l] = y] /\ y.phase = "done"
  BY <1>2, <1>5 DEF ApplyLoad, Load
<1>7. loads' \in [Loads -> Load] /\ loads'[l] = y /\ \A k \in Loads : k # l => loads'[k] = loads[k]
  BY <1>1, <1>6
<1>8. /\ store' \in [Conversations -> Seq(Entry)] /\ store'[c] = page
      /\ taken' \in [Conversations -> SUBSET Nat] /\ taken'[c] = {upto}
      /\ \A d \in Conversations : d # c => store'[d] = store[d] /\ taken'[d] = taken[d]
  BY <1>4 DEF IInv, TypeOK
<1>9. TypeOK'
  <2>1. Ids(page) \subseteq Messages
    <3>1. \A i \in DOMAIN page : page[i] \in Entry
      OBVIOUS
    <3>2. \A i \in DOMAIN page : page[i].id \in Messages
      BY <3>1 DEF Entry
    <3>3. QED
      BY <3>2 DEF Ids
  <2>2. QED
    BY <1>4, <1>7, <1>8, <2>1 DEF IInv, TypeOK
<1>10. /\ HonestList(c, page)
       /\ \A i \in DOMAIN log[c] :
            (i <= upto /\ upto < i + PageSize) => log[c][i].id \in Ids(page)
  BY <1>2, <1>3, <1>4 DEF IInv, PageOK
<1>11. ASSUME NEW d \in Conversations PROVE (LogOK(d) /\ HonestList(d, store[d]))'
  <2>1. PICK list \in Seq(Entry) : list = store'[d]
    BY <1>8
  <2>2. HonestList(d, list)
    BY <1>8, <1>10, <2>1 DEF IInv
  <2>3. HonestList(d, list)'
    BY <1>4, <2>2 DEF HonestList, Honest, Distinct, Saved
  <2>4. QED
    BY <1>4, <2>1, <2>3 DEF IInv, LogOK, Distinct
<1>12. \A m \in Messages : StageOK(m)'
  BY <1>4 DEF IInv, StageOK, Saved
<1>13. ASSUME NEW k \in Loads PROVE PageOK(k)'
  <2>1. CASE k # l
    BY <1>4, <1>7, <2>1, PageKept DEF PendingKept
  <2>2. CASE k = l
    BY <1>6, <1>7, <2>2 DEF PageOK
  <2>3. QED
    BY <2>1, <2>2
<1>14. /\ (\A i \in DOMAIN events : EventOK(events[i]))'
       /\ (\A m \in received : Kept(m))'
  <2>1. \A m \in received' : m \in received \/ m \in Ids(page)
    BY <1>4
  <2>2. \A m \in Ids(page) : Kept(m)
    <3>1. ASSUME NEW i \in DOMAIN page PROVE Kept(page[i].id)
      BY <1>10 DEF HonestList, Honest, Kept
    <3>2. QED
      BY <3>1 DEF Ids
  <2>3. QED
    BY <1>4, <2>1, <2>2 DEF IInv, EventOK, Saved, Kept
<1>15. MissingOnlyOffThePage'
  <2> SUFFICES ASSUME NEW m \in received'
               PROVE  Shown(m)' \/ (m \in hidden' /\ (OffThePage(m)' \/ stage'[m] = "pending"))
    BY DEF MissingOnlyOffThePage
  <2>1. CASE m \in Ids(page)
    <3>1. ConversationOf[m] = c
      BY <1>10, <2>1 DEF HonestList, Honest, Ids
    <3>2. QED
      BY <1>8, <2>1, <3>1 DEF Shown
  <2>2. CASE m \notin Ids(page) /\ ConversationOf[m] = c
    <3>1. m \in received /\ m \in hidden'
      BY <1>4, <2>2
    <3>2. CASE stage[m] = "pending"
      BY <1>4, <3>1, <3>2
    <3>3. CASE stage[m] # "pending"
      <4>1. PICK i \in DOMAIN log[c] : log[c][i].id = m
        BY <2>2, <3>1, <3>3 DEF IInv, Kept, Saved, Ids
      <4>2. i \in Nat /\ PageSize \in Nat
        <5>1. log[c] \in Seq(Entry)
          BY DEF IInv, TypeOK
        <5>2. QED
          BY <5>1
      <4>3. ~(i <= upto /\ upto < i + PageSize)
        BY <1>10, <2>2, <4>1
      <4>4. i > upto \/ i + PageSize <= upto
        BY <4>2, <4>3
      <4>5. OffThePage(m)'
        BY <1>4, <1>8, <2>2, <4>1, <4>4 DEF OffThePage
      <4>6. QED
        BY <3>1, <4>5
    <3>4. QED
      BY <3>2, <3>3
  <2>3. CASE m \notin Ids(page) /\ ConversationOf[m] # c
    <3>1. m \in received /\ m \in Messages /\ (m \in hidden => m \in hidden')
      BY <1>4, <2>3 DEF IInv, TypeOK
    <3>2. (Shown(m) => Shown(m)') /\ (OffThePage(m) => OffThePage(m)')
      BY <1>4, <1>8, <2>3, <3>1 DEF Shown, OffThePage
    <3>3. QED
      BY <1>4, <3>1, <3>2 DEF IInv, MissingOnlyOffThePage
  <2>4. QED
    BY <2>1, <2>2, <2>3
<1>16. QED
  BY <1>9, <1>11, <1>12, <1>13, <1>14, <1>15 DEF IInv

LEMMA NextIInv == IInv /\ [Next]_vars => IInv'
<1> SUFFICES ASSUME IInv, [Next]_vars PROVE IInv'
  OBVIOUS
<1>1. CASE LoadConversations
  BY <1>1, CallIInv DEF LoadConversations, historyVars, serverVars, netVars
<1>2. ASSUME NEW l \in Loads, AskLoad(l) \/ FailLoad(l) PROVE IInv'
  BY <1>2, CallIInv DEF AskLoad, FailLoad, clientVars, historyVars, serverVars, netVars
<1>3. CASE UNCHANGED vars
  <2>1. UNCHANGED <<store, listed, received, hidden, taken, log, stage, linkUp, events, loads>>
    BY <1>3 DEF vars, clientVars, historyVars, serverVars, netVars
  <2>2. QED
    BY <2>1, StageIInv DEF IInv, TypeOK
<1>4. QED
  BY <1>1, <1>2, <1>3, SendIInv, BluetoothIInv, MarkReadIInv, HandleEventIInv,
     ServeLoadIInv, ApplyLoadIInv, PeerWritesIInv, SaveIInv, AnnounceIInv, LinkIInv
     DEF Next

-----------------------------------------------------------------------------
LEMMA AlwaysIInv == Spec => []IInv
  BY InitIInv, NextIInv, PTL DEF Spec

\* The lists, tables, pages and events of chatStore.ts and chat.service.ts keep
\* their types, whatever the size of a page and the order of the answers.
THEOREM StoreTypes == Spec => []TypeOK
<1>1. IInv => TypeOK
  BY DEF IInv
<1>2. QED
  BY <1>1, AlwaysIInv, PTL

\* chatStore.ts:94, 118: no list ever shows a message twice.
THEOREM NoMessageTwice == Spec => []NoDuplicateIds
<1>1. IInv => NoDuplicateIds
  BY DEF IInv, HonestList, Distinct, NoDuplicateIds
<1>2. QED
  BY <1>1, AlwaysIInv, PTL

\* chatStore.ts:89-98, 115-120: what a list was given, by an event, in a page or as
\* a pending copy, leaves it only when a page replaces the list afterwards, and
\* then only if that page rightly lacks it.
THEOREM OnlyPagesHide == Spec => []MissingOnlyOffThePage
<1>1. IInv => MissingOnlyOffThePage
  BY DEF IInv
<1>2. QED
  BY <1>1, AlwaysIInv, PTL

\* chatStore.ts:109, 124-127: no list claims that a message was read, or left
\* this device, or did not, when the table of the server says otherwise.
THEOREM ReceiptsAreTrue == Spec => []NoFalseReceipt
<1>1. IInv => NoFalseReceipt
  <2> SUFFICES ASSUME IInv, NEW c \in Conversations, NEW i \in DOMAIN store[c]
               PROVE  /\ store[c][i].status = "pending" <=> ~Saved(store[c][i].id)
                      /\ store[c][i].status = "read" =>
                           \E j \in DOMAIN log[c] : log[c][j] = store[c][i]
    BY DEF NoFalseReceipt
  <2>1. Honest(c, store[c][i]) /\ store[c][i].id \in Messages
    <3>1. store[c] \in Seq(Entry) /\ HonestList(c, store[c])
      BY DEF IInv, TypeOK
    <3>2. store[c][i] \in Entry
      BY <3>1
    <3>3. QED
      BY <3>1, <3>2 DEF HonestList, Entry
  <2>2. stage[store[c][i].id] = "pending" => ~Saved(store[c][i].id)
    BY <2>1 DEF IInv, StageOK
  <2>3. QED
    BY <2>1, <2>2 DEF Honest
<1>2. QED
  BY <1>1, AlwaysIInv, PTL
===============================================================================
