---------------------------- MODULE MessageStore ----------------------------
(***************************************************************************)
(* The message lists of one client's chatStore.ts and everything that      *)
(* writes them: answers of loadMessages, events of the socket, and the     *)
(* pending copies sendMessage leaves when it cannot send.  The other end is *)
(* chat.service.ts behind websocket.gateway.ts: it saves a message and only *)
(* then, after the await, announces it.                                    *)
(*                                                                         *)
(* Messages are identities.  The id the server gives a sent message and    *)
(* the clientMessageId of the same send never meet in one list (a draft is *)
(* either emitted or kept), so one identity stands for both.               *)
(***************************************************************************)
EXTENDS Naturals, Sequences

CONSTANTS Conversations,
          Incoming,          \* what the peers write to this user
          Outgoing,          \* what this user writes, one send each
          ConversationOf,    \* the conversation of each message
          Loads,             \* the calls of loadMessages
          PageSize,          \* the limit of listMessages (50)
          BluetoothOutcomes  \* what sendMessageViaBluetooth may do

Messages == Incoming \cup Outgoing

ASSUME ConversationAssumption == ConversationOf \in [Messages -> Conversations]
ASSUME PageAssumption == PageSize \in Nat \ {0}
ASSUME SidesAssumption == Incoming \cap Outgoing = {}
ASSUME OutcomeAssumption == BluetoothOutcomes \subseteq {"rejects", "sent"}

VARIABLES store,     \* messages of chatStore: a list per conversation
          listed,    \* conversations of chatStore has been loaded
          log,       \* the messages table, per conversation in order of createdAt
          stage,     \* how far each message got
          linkUp,    \* this client's socket is connected
          events,    \* events emitted to this client and not handled yet
          loads,     \* the calls of loadMessages
          received,  \* history: what this client was given for its lists: by a
                     \* message:receive, in a page, or as a pending copy
          hidden,    \* history: those of it that a page applied since then lacks
          taken      \* history: {n} if the list was last replaced with a page
                     \* read when the log had n messages, {} if it never was

historyVars == <<received, hidden, taken>>
clientVars == <<store, listed, historyVars>>
serverVars == <<log, stage>>
netVars == <<linkUp, events>>
vars == <<clientVars, serverVars, netVars, loads>>

Entry == [id : Messages, status : {"pending", "sent", "read"}]
Event == [type : {"receive", "sent"}, id : Messages]
Stages == {"unwritten", "wire", "saved", "announced", "lost",
           "bluetooth", "unlisted", "pending", "dropped", "by bluetooth"}
Load == [conv : Conversations, phase : {"idle", "asked", "served", "done"},
         page : Seq(Entry), upto : Nat]

Ids(list) == {list[i].id : i \in DOMAIN list}
Saved(m) == m \in Ids(log[ConversationOf[m]])

Init ==
  /\ store = [c \in Conversations |-> <<>>]
  /\ listed = FALSE
  /\ log = [c \in Conversations |-> <<>>]
  /\ stage = [m \in Messages |-> "unwritten"]
  /\ linkUp = FALSE
  /\ events = <<>>
  /\ loads \in [Loads -> [conv : Conversations, phase : {"idle"},
                          page : {<<>>}, upto : {0}]]
  /\ received = {} /\ hidden = {}
  /\ taken = [c \in Conversations |-> {}]

-----------------------------------------------------------------------------
\* The store's two writers.

\* The test of addMessage (line 118).  The variants drop whatever comes to a
\* conversation that already has messages, and nothing.
AlreadyThereNever(list, id) == FALSE
AlreadyThereAny(list, id) == list # <<>>
AlreadyThere(list, id) == id \in Ids(list)

AddMessage(id, status) ==
  LET c == ConversationOf[id] IN
  store' = IF AlreadyThere(store[c], id) THEN store
           ELSE [store EXCEPT ![c] = Append(@, [id |-> id, status |-> status])]

\* Which entries updateMessageStatus rewrites (line 125), and a variant that
\* forgets to compare.
AnyEntry(entry, id) == TRUE
IsEntry(entry, id) == entry.id = id

UpdateMessageStatus(id, status) ==
  store' = [c \in Conversations |->
             [i \in DOMAIN store[c] |->
               IF IsEntry(store[c][i], id)
               THEN [store[c][i] EXCEPT !.status = status] ELSE store[c][i]]]

\* The status message:sent writes (socket.service.ts:77), and the one
\* message:read-confirmation would.
SentStatusRead == "read"
SentStatus == "sent"

-----------------------------------------------------------------------------
\* The client.

LoadConversations ==
  /\ ~listed
  /\ listed' = TRUE
  /\ UNCHANGED <<store, historyVars, serverVars, netVars, loads>>

\* sendMessage: over the socket if it is connected, with no copy in the list;
\* otherwise an attempt over Bluetooth is awaited.  The id of the conversation
\* is looked up before that.
Send(o) ==
  /\ stage[o] = "unwritten"
  /\ stage' = [stage EXCEPT ![o] = IF linkUp THEN "wire"
                                  ELSE IF listed THEN "bluetooth" ELSE "unlisted"]
  /\ UNCHANGED <<clientVars, log, netVars, loads>>

\* The rejection is caught, and the message kept as pending if it had a
\* conversation (lines 106-111).  A
\* write that fails rejects as well: emit('error') has no listener and throws
\* before bluetooth.service.ts:152 can return false.
BluetoothAnswers(o) ==
  /\ stage[o] \in {"bluetooth", "unlisted"}
  /\ \/ /\ "rejects" \in BluetoothOutcomes
        /\ \/ /\ stage[o] = "bluetooth"
              /\ stage' = [stage EXCEPT ![o] = "pending"]
              /\ AddMessage(o, "pending")
              /\ received' = received \cup {o}
           \/ /\ stage[o] = "unlisted"
              /\ stage' = [stage EXCEPT ![o] = "dropped"]
              /\ UNCHANGED <<store, received>>
     \/ /\ "sent" \in BluetoothOutcomes
        /\ stage' = [stage EXCEPT ![o] = "by bluetooth"]
        /\ UNCHANGED <<store, received>>
  /\ UNCHANGED <<listed, hidden, taken, log, netVars, loads>>

HandleEvent ==
  /\ events # <<>>
  /\ events' = Tail(events)
  /\ LET e == Head(events) IN
       \/ /\ e.type = "receive"
          /\ AddMessage(e.id, "sent")
          /\ received' = received \cup {e.id} /\ hidden' = hidden \ {e.id}
       \/ /\ e.type = "sent"
          /\ UpdateMessageStatus(e.id, SentStatus)
          /\ UNCHANGED <<received, hidden>>
  /\ UNCHANGED <<listed, taken, serverVars, linkUp, loads>>

\* loadMessages: the request, then, once answered, a list that replaces
\* whatever the conversation had.  Nothing relates concurrent calls.
AskLoad(l) ==
  /\ loads[l].phase = "idle"
  /\ loads' = [loads EXCEPT ![l].phase = "asked"]
  /\ UNCHANGED <<clientVars, serverVars, netVars>>

ApplyLoad(l) ==
  LET c == loads[l].conv
      inPage == Ids(loads[l].page) IN
  /\ loads[l].phase = "served"
  /\ store' = [store EXCEPT ![c] = loads[l].page]
  /\ received' = received \cup inPage
  /\ hidden' = {m \in received : m \notin inPage /\ (ConversationOf[m] = c \/ m \in hidden)}
  /\ taken' = [taken EXCEPT ![c] = {loads[l].upto}]
  /\ loads' = [loads EXCEPT ![l].phase = "done"]
  /\ UNCHANGED <<listed, serverVars, netVars>>

\* A failed request leaves the list alone (line 96).
FailLoad(l) ==
  /\ loads[l].phase \in {"asked", "served"}
  /\ loads' = [loads EXCEPT ![l].phase = "done"]
  /\ UNCHANGED <<clientVars, serverVars, netVars>>

-----------------------------------------------------------------------------
\* The server and the network.

PeerWrites(m) ==
  /\ stage[m] = "unwritten"
  /\ stage' = [stage EXCEPT ![m] = "wire"]
  /\ UNCHANGED <<clientVars, log, netVars, loads>>

\* ChatService.send saves the message.
Save(m) ==
  /\ stage[m] = "wire"
  /\ stage' = [stage EXCEPT ![m] = "saved"]
  /\ log' = [log EXCEPT ![ConversationOf[m]] =
                          Append(@, [id |-> m, status |-> "sent"])]
  /\ UNCHANGED <<clientVars, netVars, loads>>

\* WebsocketGateway.send, after the await: message:receive to the receiver,
\* message:sent to the sender.  A client that is away misses it.
Announce(m) ==
  /\ stage[m] = "saved"
  /\ stage' = [stage EXCEPT ![m] = "announced"]
  /\ events' = IF ~linkUp THEN events ELSE
       Append(events, [type |-> IF m \in Incoming THEN "receive" ELSE "sent",
                       id |-> m])
  /\ UNCHANGED <<clientVars, log, linkUp, loads>>

\* ChatService.markRead by the peer.
MarkRead(o) ==
  /\ Saved(o)
  /\ LET c == ConversationOf[o] IN
     log' = [log EXCEPT ![c] = [i \in DOMAIN @ |->
              IF @[i].id = o THEN [@[i] EXCEPT !.status = "read"] ELSE @[i]]]
  /\ UNCHANGED <<clientVars, stage, netVars, loads>>

\* ChatService.listMessages: the newest PageSize messages, newest first.
Page(c) ==
  LET n == Len(log[c]) IN
  [i \in 1 .. (IF n < PageSize THEN n ELSE PageSize) |-> log[c][n + 1 - i]]

ServeLoad(l) ==
  /\ loads[l].phase = "asked"
  /\ loads' = [loads EXCEPT ![l].phase = "served",
                            ![l].page = Page(loads[l].conv),
                            ![l].upto = Len(log[loads[l].conv])]
  /\ UNCHANGED <<clientVars, serverVars, netVars>>

LinkUp ==
  /\ ~linkUp
  /\ linkUp' = TRUE
  /\ UNCHANGED <<clientVars, serverVars, events, loads>>

\* The events on their way are lost, and any of the messages this client has
\* emitted that the server has not taken yet.
LinkDown ==
  /\ linkUp
  /\ linkUp' = FALSE
  /\ events' = <<>>
  /\ \E gone \in SUBSET {o \in Outgoing : stage[o] = "wire"} :
       stage' = [m \in Messages |-> IF m \in gone THEN "lost" ELSE stage[m]]
  /\ UNCHANGED <<clientVars, log, loads>>

Next ==
  \/ \E o \in Outgoing : Send(o) \/ BluetoothAnswers(o) \/ MarkRead(o)
  \/ HandleEvent \/ LoadConversations
  \/ \E l \in Loads : AskLoad(l) \/ ServeLoad(l) \/ ApplyLoad(l) \/ FailLoad(l)
  \/ \E m \in Incoming : PeerWrites(m)
  \/ \E m \in Messages : Save(m) \/ Announce(m)
  \/ LinkUp \/ LinkDown

Spec == Init /\ [][Next]_vars

\* Handlers that were started finish, and delivered events are handled; nobody
\* has to write, load, connect or stay connected.
FairSpec ==
  /\ Spec
  /\ WF_vars(HandleEvent)
  /\ \A m \in Messages : WF_vars(Save(m)) /\ WF_vars(Announce(m))

-----------------------------------------------------------------------------
\* Types; no list ever holds "delivered", which nothing sends.
TypeOK ==
  /\ store \in [Conversations -> Seq(Entry)]
  /\ listed \in BOOLEAN
  /\ log \in [Conversations -> Seq(Entry)]
  /\ stage \in [Messages -> Stages]
  /\ linkUp \in BOOLEAN
  /\ events \in Seq(Event)
  /\ loads \in [Loads -> Load]
  /\ received \subseteq Messages /\ hidden \subseteq received
  /\ taken \in [Conversations -> SUBSET Nat]

\* A list never shows a message twice, although an event and a page may both
\* bring it, in either order (chatStore.ts:94, 118).
NoDuplicateIds ==
  \A c \in Conversations : \A i, j \in DOMAIN store[c] :
    store[c][i].id = store[c][j].id => i = j

\* The page the list was last replaced with rightly lacks m: it was read before m
\* was saved, or m is older than the page reaches.
OffThePage(m) ==
  LET c == ConversationOf[m] IN
  \E i \in DOMAIN log[c], n \in taken[c] :
    log[c][i].id = m /\ (i > n \/ i + PageSize <= n)

Shown(m) == m \in Ids(store[ConversationOf[m]])

\* What the client was given stays in its list until a page replaces the list
\* afterwards that rightly lacks it: no event drops a message, and none that
\* comes after the page is missing.  Of a pending copy, which is in no page, it
\* means that "messages can be retained locally" (pages/Help.tsx:1) is true
\* until the next page, and then there is no copy (chatStore.ts:94, 109, 115-127).
MissingOnlyOffThePage ==
  \A m \in received :
    Shown(m) \/ (m \in hidden /\ (OffThePage(m) \/ stage[m] = "pending"))

\* A list never shows a receipt that the server does not have: no "read" for a
\* message its receiver has not read, and "pending" exactly for what never
\* reached the server (chatStore.ts:109, 124-127).
NoFalseReceipt ==
  \A c \in Conversations : \A i \in DOMAIN store[c] :
    LET e == store[c][i] IN
    /\ e.status = "pending" <=> ~Saved(e.id)
    /\ e.status = "read" => \E j \in DOMAIN log[c] : log[c][j] = e

\* A saved message reaches the list of a receiver who stays connected, whatever
\* pages were applied before (websocket.gateway.ts:1, socket.service.ts:64-65).
Delivered ==
  \A m \in Incoming : (stage[m] = "saved" /\ linkUp) ~> (Shown(m) \/ ~linkUp)
=============================================================================
