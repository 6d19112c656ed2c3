----------------------------- MODULE ChatService -----------------------------
(***************************************************************************)
(* backend/src/chat/chat.service.ts over its two tables, as the REST        *)
(* controller and the websocket gateway call it.  A call runs up to its     *)
(* next await in one step and may fail at each of them.                     *)
(*                                                                         *)
(* A conversation is named by its place in the table, which is also the     *)
(* order of updatedAt: nothing writes a row again.  A message is named by   *)
(* the call that sends it.                                                  *)
(***************************************************************************)
EXTENDS Naturals, Sequences

CONSTANTS Users,
          Contacts,  \* pairs of users of which the first writes to the second
          Calls,     \* requests to the service, each handled once
          PageCalls, \* those of them that come from the pages
          Pages,     \* open tabs of the client, each with one socket
          None

ASSUME ChatAssumption ==
  /\ PageCalls \subseteq Calls
  /\ Contacts \subseteq Users \X Users
  /\ None \notin Users \cup Pages \cup Calls

VARIABLES conversations,  \* rows of the conversations table
          messages,       \* rows of the messages table
          pc,             \* the step each call is at
          ctx,            \* its local variables
          user,           \* who is logged in to each page, or None: the
                          \* handshake.auth.userId of its socket
          joined,         \* pages whose socket is in the room of its user
          heard           \* per page, the message:receive events its user was sent

tableVars == <<conversations, messages>>
callVars == <<pc, ctx>>
gatewayVars == <<user, joined, heard>>
serverVars == <<tableVars, callVars, gatewayVars>>

Conversation == [participant1 : Users, participant2 : Users,
                 seen : Nat]     \* history: rows there were when it was looked for
Message == [id : Calls, senderId : Users, receiverId : Users, conversationId : Nat,
            typedIn : Nat,       \* history: the conversation on the screen, or 0
            foreign : BOOLEAN]   \* history: it was in the list of another user
Steps == {"idle", "insert", "save", "announce", "ended"}
Ctx == [op : {"none", "create", "send"}, via : {"rest", "socket"},
        sender : Users \cup {None}, receiver : Users \cup {None},
        conversation : Nat, typedIn : Nat, foreign : BOOLEAN, seen : Nat]

NoCall == [op |-> "none", via |-> "rest", sender |-> None, receiver |-> None,
           conversation |-> 0, typedIn |-> 0, foreign |-> FALSE, seen |-> 0]

ServerInit ==
  /\ conversations = <<>>
  /\ messages = {}
  /\ pc = [r \in Calls |-> "idle"]
  /\ ctx = [r \in Calls |-> NoCall]
  /\ user = [p \in Pages |-> None]
  /\ joined = {}
  /\ heard = [p \in Pages |-> {}]

-----------------------------------------------------------------------------
\* The rows findOrCreateConversation looks for, and a query that forgets the
\* other order of the two.
IsBetweenOrdered(row, a, b) == row.participant1 = a /\ row.participant2 = b
IsBetween(row, a, b) ==
  \/ row.participant1 = a /\ row.participant2 = b
  \/ row.participant1 = b /\ row.participant2 = a

\* getOne() takes any of them.
Found(a, b) == {c \in DOMAIN conversations : IsBetween(conversations[c], a, b)}

\* A call goes on, or ends and its locals are gone.
Goto(r, step, locals) ==
  /\ pc' = [pc EXCEPT ![r] = step]
  /\ ctx' = [ctx EXCEPT ![r] = IF step = "ended" THEN NoCall ELSE locals]

Begin(r, call, step) ==
  /\ pc[r] = "idle"
  /\ Goto(r, step, call)
  /\ UNCHANGED <<tableVars, gatewayVars>>

\* findOrCreateConversation up to its second await: an existing row goes to
\* the step after it, otherwise one is made and still has to be saved.
FindConversation(r, call, after) ==
  LET rows == Found(call.sender, call.receiver) IN
  IF rows = {} THEN Begin(r, [call EXCEPT !.seen = Len(conversations)], "insert")
  ELSE \E c \in rows : Begin(r, [call EXCEPT !.conversation = c], after)

\* POST chat/conversations.
CreateConversation(r, a, b) ==
  FindConversation(r, [NoCall EXCEPT !.op = "create", !.sender = a, !.receiver = b],
                   "ended")

\* send without a conversationId, by a client other than the page: POST
\* chat/messages, or message:send.
SendTo(r, a, b, via) ==
  FindConversation(r, [NoCall EXCEPT !.op = "send", !.sender = a, !.receiver = b,
                                     !.via = via], "save")

\* send with a conversationId: the row has to exist.
SendIn(r, p, b, c, typedIn, foreign) ==
  Begin(r, [NoCall EXCEPT !.op = "send", !.sender = user[p], !.receiver = b,
              !.conversation = c, !.via = "socket", !.typedIn = typedIn,
              !.foreign = foreign],
        IF c \in DOMAIN conversations THEN "save" ELSE "ended")

\* The second half of findOrCreateConversation saves, whatever was saved since
\* the read: the table has no unique column.
InsertConversation(r) ==
  /\ pc[r] = "insert"
  /\ conversations' = Append(conversations,
       [participant1 |-> ctx[r].sender, participant2 |-> ctx[r].receiver,
        seen |-> ctx[r].seen])
  /\ Goto(r, IF ctx[r].op = "create" THEN "ended" ELSE "save",
          [ctx[r] EXCEPT !.conversation = Len(conversations) + 1])
  /\ UNCHANGED <<messages, gatewayVars>>

\* The row of a message.
MessageOf(r) == [id |-> r, senderId |-> ctx[r].sender, receiverId |-> ctx[r].receiver,
                 conversationId |-> ctx[r].conversation, typedIn |-> ctx[r].typedIn,
                 foreign |-> ctx[r].foreign]

\* The last await of send.  The gateway awaits send before it announces; the
\* variant announces without waiting, so that the save may still fail.
SaveMessageUnawaited(r) ==
  /\ pc[r] = "save"
  /\ \/ messages' = messages \cup {MessageOf(r)}
     \/ UNCHANGED messages
  /\ Goto(r, IF ctx[r].via = "rest" THEN "ended" ELSE "announce", ctx[r])
  /\ UNCHANGED <<conversations, gatewayVars>>
SaveMessage(r) ==
  /\ pc[r] = "save"
  /\ messages' = messages \cup {MessageOf(r)}
  /\ Goto(r, IF ctx[r].via = "rest" THEN "ended" ELSE "announce", ctx[r])
  /\ UNCHANGED <<conversations, gatewayVars>>

\* WebsocketGateway.send after the await: message:receive to the room of the
\* receiver.  A message sent by REST is announced to nobody.
Announce(r) ==
  /\ pc[r] = "announce"
  /\ heard' = [p \in Pages |->
       IF p \in joined /\ user[p] = ctx[r].receiver
       THEN heard[p] \cup {MessageOf(r)} ELSE heard[p]]
  /\ Goto(r, "ended", ctx[r])
  /\ UNCHANGED <<tableVars, user, joined>>

\* An await rejects, or the process dies between two of them.
CallFails(r) ==
  /\ pc[r] \in {"insert", "save", "announce"}
  /\ Goto(r, "ended", ctx[r])
  /\ UNCHANGED <<tableVars, gatewayVars>>

HandleConnection(p) ==
  /\ p \notin joined /\ user[p] # None
  /\ joined' = joined \cup {p}
  /\ UNCHANGED <<tableVars, callVars, user, heard>>

HandleDisconnect(p) ==
  /\ p \in joined
  /\ joined' = joined \ {p}
  /\ UNCHANGED <<tableVars, callVars, user, heard>>

\* listConversations orders by updatedAt, newest first: by falling number, so
\* a set says as much.  The variant looks at one column.
Lists1(row, u) == row.participant1 = u
Lists(row, u) == u \in {row.participant1, row.participant2}
ListConversations(u) == {c \in DOMAIN conversations : Lists(conversations[c], u)}

\* Steps that no page decides on; other clients make the other calls.
ServerNext ==
  \/ \E r \in Calls : \/ InsertConversation(r) \/ SaveMessage(r)
                      \/ Announce(r) \/ CallFails(r)
                      \/ r \notin PageCalls /\ \E pair \in Contacts :
                           \/ CreateConversation(r, pair[1], pair[2])
                           \/ \E via \in {"rest", "socket"} :
                                SendTo(r, pair[1], pair[2], via)
  \/ \E p \in Pages : HandleConnection(p) \/ HandleDisconnect(p)

-----------------------------------------------------------------------------
ServerTypeOK ==
  /\ conversations \in Seq(Conversation)
  /\ messages \subseteq Message
  /\ pc \in [Calls -> Steps]
  /\ ctx \in [Calls -> Ctx]
  /\ user \in [Pages -> Users \cup {None}]
  /\ joined \subseteq Pages
  /\ heard \in [Pages -> SUBSET Message]

Between(c) == {conversations[c].participant1, conversations[c].participant2}

\* Two users get a second conversation only when two calls raced: the one that
\* saved the later row had read the table before the earlier row was saved.
\* Once a row can be seen nobody makes another, whichever of the two asks
\* (chat.service.ts:2, findOrCreateConversation).
SecondOnlyByRace ==
  \A c, d \in DOMAIN conversations :
    (c < d /\ Between(c) = Between(d)) => conversations[d].seen < c

\* A page is told of a message only if it is in the table and was written to
\* this page's user: nothing is announced that a reload would not show
\* (websocket.gateway.ts:1, send).
HeardIsSaved ==
  \A p \in Pages : \A m \in heard[p] : m \in messages /\ m.receiverId = user[p]
=============================================================================
