-------------------------- MODULE ChatServiceProofs --------------------------
(* Theorems about ChatPages, and through it about the chat service, for any *)
(* users, pages and calls.                                                  *)
EXTENDS ChatPages, TLAPS

USE ChatAssumption

Rows == DOMAIN conversations

\* A conversation that has the receiver of a message in it.
Reaches(c, b) == c \in Rows /\ Lists(conversations[c], b)

\* Where a message goes that was typed in conversation t, of a list read for
\* another user or not.
Filed(sender, receiver, c, t, foreign) ==
  t # 0 => /\ t \in Rows
           /\ receiver \in Between(t)
           /\ ~foreign => /\ {sender, receiver} = Between(t)
                          /\ OwnNotes(t) \/ Between(c) = Between(t)

\* What a call knows at its next step: the search it is about to act on found
\* nothing, the conversation it writes to exists, the row it announces is saved.
Locals(r) ==
  /\ pc[r] = "insert" =>
       /\ {ctx[r].sender, ctx[r].receiver} \subseteq Users
       /\ ctx[r].seen <= Len(conversations)
       /\ \A c \in Rows : c <= ctx[r].seen =>
            ~IsBetween(conversations[c], ctx[r].sender, ctx[r].receiver)
       /\ ctx[r].typedIn = 0
  /\ pc[r] \in {"save", "announce"} =>
       /\ {ctx[r].sender, ctx[r].receiver} \subseteq Users
       /\ Reaches(ctx[r].conversation, ctx[r].receiver)
       /\ Filed(ctx[r].sender, ctx[r].receiver, ctx[r].conversation, ctx[r].typedIn,
          ctx[r].foreign)
  /\ pc[r] = "announce" => MessageOf(r) \in messages

\* A row differs from all rows that its maker had seen.
LookedFirst(d) ==
  /\ conversations[d].seen < d
  /\ \A c \in Rows : c <= conversations[d].seen => Between(c) # Between(d)

\* The same of a message that is saved.
Placed(m) ==
  /\ Reaches(m.conversationId, m.receiverId)
  /\ Filed(m.senderId, m.receiverId, m.conversationId, m.typedIn, m.foreign)

\* A list is what the table held, when it was read, of the user it was read for.
Current(p) ==
  /\ read[p] <= Len(conversations)
  /\ listOf[p] = None => read[p] = 0
  /\ list[p] = {c \in Rows : c <= read[p] /\ Lists(conversations[c], listOf[p])}

\* A socket is open for a user.
JoinedIsUser == \A p \in joined : user[p] # None

IInv ==
  /\ TypeOK
  /\ \A r \in Calls : Locals(r)
  /\ \A d \in Rows : LookedFirst(d)
  /\ \A m \in messages : Placed(m)
  /\ HeardIsSaved
  /\ JoinedIsUser
  /\ \A p \in Pages : Current(p)

\* The initial tables are empty and no call has begun.
LEMMA InitIInv == Init => IInv
<1> SUFFICES ASSUME Init PROVE IInv
  OBVIOUS
<1>1. conversations \in Seq(Conversation) /\ Len(conversations) = 0 /\ Rows = {}
  BY DEF Init, ServerInit, Rows
<1>2. TypeOK
  BY <1>1 DEF Init, ServerInit, TypeOK, ServerTypeOK, Steps, Ctx, NoCall
<1>3. /\ \A r \in Calls : Locals(r)
      /\ \A d \in Rows : LookedFirst(d)
      /\ \A m \in messages : Placed(m)
      /\ HeardIsSaved /\ JoinedIsUser
      /\ \A p \in Pages : Current(p)
  BY <1>1 DEF Init, ServerInit, Locals, HeardIsSaved, JoinedIsUser, Current
<1>4. QED
  BY <1>2, <1>3 DEF IInv

-----------------------------------------------------------------------------
\* Rows are added and never changed.
Kept ==
  /\ Len(conversations) <= Len(conversations')
  /\ \A c \in Rows : c \in Rows' /\ conversations'[c] = conversations[c]

\* A table of conversations is numbered from 1.
LEMMA RowsAre ==
  ASSUME conversations \in Seq(Conversation)
  PROVE  /\ Len(conversations) \in Nat
         /\ Rows = 1 .. Len(conversations)
         /\ \A c \in Rows : conversations[c] \in Conversation
  BY DEF Rows

\* What is said of rows that exist stays true of them.
LEMMA Keeping ==
  ASSUME Kept, NEW a, NEW b, NEW c, NEW t, NEW f
  PROVE  /\ Reaches(c, b) => Reaches(c, b)'
         /\ (Reaches(c, b) /\ Filed(a, b, c, t, f)) => Filed(a, b, c, t, f)'
<1>1. \A d \in Rows : d \in Rows' /\ Between(d)' = Between(d) /\ OwnNotes(d)' = OwnNotes(d)
  BY DEF Kept, Between, OwnNotes
<1>2. Reaches(c, b) => Reaches(c, b)'
  BY DEF Kept, Reaches, Lists
<1>3. (Reaches(c, b) /\ Filed(a, b, c, t, f)) => Filed(a, b, c, t, f)'
  BY <1>1 DEF Filed, Reaches
<1>4. QED
  BY <1>2, <1>3

\* A call that does not move knows what it knew, as long as the rows it has not
\* seen are new and no message is deleted.
LEMMA OthersKnow ==
  ASSUME TypeOK, Kept, messages \subseteq messages', NEW r \in Calls, Locals(r),
         conversations' \in Seq(Conversation), pc'[r] = pc[r], ctx'[r] = ctx[r]
  PROVE  Locals(r)'
<1>1. pc[r] = "insert" => \A c \in Rows' : c <= ctx[r].seen =>
        ~IsBetween(conversations'[c], ctx[r].sender, ctx[r].receiver)
  <2> SUFFICES ASSUME pc[r] = "insert", NEW c \in Rows', c <= ctx[r].seen
               PROVE  ~IsBetween(conversations'[c], ctx[r].sender, ctx[r].receiver)
    OBVIOUS
  <2>1. c \in 1 .. Len(conversations')
    BY DEF Rows
  <2>2. ctx[r].seen \in Nat /\ ctx[r].seen <= Len(conversations)
    BY DEF Locals, TypeOK, ServerTypeOK, Ctx
  <2>3. c \in Rows
    BY <2>1, <2>2, RowsAre DEF TypeOK, ServerTypeOK
  <2>4. QED
    BY <2>3 DEF Locals, Kept
<1>2. pc[r] = "insert" => ctx[r].seen <= Len(conversations')
  <2>1. ctx[r].seen \in Nat /\ Len(conversations) \in Nat /\ Len(conversations') \in Nat
    BY DEF TypeOK, ServerTypeOK, Ctx
  <2>2. QED
    BY <2>1 DEF Locals, Kept
<1>3. pc[r] \in {"save", "announce"} =>
        /\ Reaches(ctx[r].conversation, ctx[r].receiver)'
        /\ Filed(ctx[r].sender, ctx[r].receiver, ctx[r].conversation, ctx[r].typedIn,
          ctx[r].foreign)'
  <2>1. ASSUME NEW x, x = ctx[r], pc[r] \in {"save", "announce"}
        PROVE  /\ Reaches(x.conversation, x.receiver)'
               /\ Filed(x.sender, x.receiver, x.conversation, x.typedIn, x.foreign)'
    BY <2>1, Keeping DEF Locals
  <2>2. QED
    BY <2>1 DEF Reaches, Filed, Between, OwnNotes
<1>4. MessageOf(r)' = MessageOf(r)
  BY DEF MessageOf
<1>5. QED
  BY <1>1, <1>2, <1>3, <1>4 DEF Locals

\* What a call must know when it goes to a step.
Informed(step, x, r) ==
  /\ step = "insert" =>
       /\ {x.sender, x.receiver} \subseteq Users
       /\ x.seen <= Len(conversations)
       /\ \A c \in Rows : c <= x.seen => ~IsBetween(conversations[c], x.sender, x.receiver)
       /\ x.typedIn = 0
  /\ step \in {"save", "announce"} =>
       /\ {x.sender, x.receiver} \subseteq Users
       /\ Reaches(x.conversation, x.receiver)
       /\ Filed(x.sender, x.receiver, x.conversation, x.typedIn, x.foreign)
  /\ step = "announce" =>
       [id |-> r, senderId |-> x.sender, receiverId |-> x.receiver,
        conversationId |-> x.conversation, typedIn |-> x.typedIn,
        foreign |-> x.foreign] \in messages

\* A call that goes on knows what its next step needs, and the others what they
\* knew.
LEMMA GotoLocals ==
  ASSUME IInv, Kept, messages \subseteq messages', conversations' \in Seq(Conversation),
         NEW r \in Calls, NEW step \in Steps, NEW x \in Ctx,
         Goto(r, step, x), Informed(step, x, r)'
  PROVE  /\ pc' \in [Calls -> Steps]
         /\ ctx' \in [Calls -> Ctx]
         /\ \A q \in Calls : Locals(q)'
<1>1. NoCall \in Ctx
  BY DEF NoCall, Ctx
<1>2. pc' \in [Calls -> Steps] /\ ctx' \in [Calls -> Ctx]
  BY <1>1 DEF Goto, IInv, TypeOK, ServerTypeOK
<1>3. Locals(r)'
  <2>1. pc'[r] = step /\ (step # "ended" => ctx'[r] = x)
    BY DEF Goto, IInv, TypeOK, ServerTypeOK
  <2>2. CASE step = "ended"
    BY <2>1, <2>2 DEF Locals
  <2>3. CASE step # "ended"
    BY <2>1, <2>3 DEF Locals, Informed, MessageOf, Reaches, Filed, Between, OwnNotes
  <2>4. QED
    BY <2>2, <2>3
<1>4. ASSUME NEW q \in Calls, q # r PROVE Locals(q)'
  <2>1. pc'[q] = pc[q] /\ ctx'[q] = ctx[q]
    BY <1>4 DEF Goto, IInv, TypeOK, ServerTypeOK
  <2>2. QED
    BY <2>1, OthersKnow DEF IInv
<1>5. QED
  BY <1>2, <1>3, <1>4

\* A step of one call that leaves the tables and the pages alone.
LEMMA MoveIInv ==
  ASSUME IInv, NEW r \in Calls, NEW step \in Steps, NEW x \in Ctx,
         Goto(r, step, x), Informed(step, x, r), UNCHANGED <<tableVars, gatewayVars, pageVars>>
  PROVE  IInv'
<1>1. Kept /\ messages' = messages /\ conversations' = conversations
  BY DEF Kept, Rows, IInv, TypeOK, ServerTypeOK, tableVars
<1>2. Informed(step, x, r)'
  BY <1>1 DEF Informed, Rows, Reaches, Filed, Between, OwnNotes
<1>3. /\ pc' \in [Calls -> Steps] /\ ctx' \in [Calls -> Ctx]
      /\ \A q \in Calls : Locals(q)'
  BY <1>1, <1>2, GotoLocals DEF IInv, TypeOK, ServerTypeOK
<1>4. TypeOK'
  BY <1>1, <1>3 DEF IInv, TypeOK, ServerTypeOK, gatewayVars, pageVars
<1>5. (\A d \in Rows : LookedFirst(d))' /\ (\A m \in messages : Placed(m))'
  BY <1>1 DEF IInv, Rows, LookedFirst, Placed, Reaches, Filed, Between, OwnNotes
<1>6. HeardIsSaved' /\ JoinedIsUser' /\ (\A p \in Pages : Current(p))'
  BY <1>1 DEF IInv, HeardIsSaved, JoinedIsUser, Current, Rows, gatewayVars, pageVars
<1>7. QED
  BY <1>3, <1>4, <1>5, <1>6 DEF IInv

\* findOrCreateConversation goes on with a row between the two, or with the
\* knowledge that there is none.
LEMMA FindIInv ==
  ASSUME IInv, NEW r \in Calls, NEW call \in Ctx, NEW after \in {"ended", "save"},
         {call.sender, call.receiver} \subseteq Users, call.typedIn = 0,
         FindConversation(r, call, after), UNCHANGED pageVars
  PROVE  IInv'
<1> USE RowsAre DEF IInv, TypeOK, ServerTypeOK
<1>1. CASE Found(call.sender, call.receiver) = {}
  <2> DEFINE x == [call EXCEPT !.seen = Len(conversations)]
  <2>1. x \in Ctx /\ x.sender = call.sender /\ x.receiver = call.receiver
        /\ x.typedIn = call.typedIn /\ x.seen = Len(conversations)
    BY DEF Ctx
  <2>2. Begin(r, x, "insert")
    BY <1>1 DEF FindConversation
  <2> HIDE DEF x
  <2>3. Informed("insert", x, r)
    BY <1>1, <2>1 DEF Informed, Found, Rows
  <2>4. QED
    BY <2>1, <2>2, <2>3, MoveIInv DEF Begin, Steps
<1>2. CASE Found(call.sender, call.receiver) # {}
  <2>1. PICK c \in Found(call.sender, call.receiver) :
          Begin(r, [call EXCEPT !.conversation = c], after)
    BY <1>2 DEF FindConversation
  <2> DEFINE x == [call EXCEPT !.conversation = c]
  <2>2. c \in Rows /\ c \in Nat /\ IsBetween(conversations[c], call.sender, call.receiver)
    BY DEF Found, Rows
  <2>3. x \in Ctx /\ x.sender = call.sender /\ x.receiver = call.receiver
        /\ x.typedIn = call.typedIn /\ x.conversation = c
    BY <2>2 DEF Ctx
  <2>4. Begin(r, x, after)
    BY <2>1
  <2> HIDE DEF x
  <2>5. Informed(after, x, r)
    BY <2>2, <2>3 DEF Informed, Reaches, Lists, IsBetween, Filed
  <2>6. QED
    BY <2>3, <2>4, <2>5, MoveIInv DEF Begin, Steps
<1>3. QED
  BY <1>1, <1>2

\* A row is added that nobody had seen, by a call that has looked at all rows up
\* to the ones it names as seen.
LEMMA InsertIInv ==
  ASSUME IInv, NEW r \in Calls, InsertConversation(r), UNCHANGED pageVars
  PROVE  IInv'
<1> DEFINE n == Len(conversations)
           row == [participant1 |-> ctx[r].sender, participant2 |-> ctx[r].receiver,
                   seen |-> ctx[r].seen]
<1>1. /\ conversations \in Seq(Conversation) /\ messages \subseteq Message
      /\ pc \in [Calls -> Steps] /\ ctx \in [Calls -> Ctx] /\ Locals(r)
  BY DEF IInv, TypeOK, ServerTypeOK
<1>2. /\ pc[r] = "insert" /\ conversations' = Append(conversations, row)
      /\ Goto(r, IF ctx[r].op = "create" THEN "ended" ELSE "save",
              [ctx[r] EXCEPT !.conversation = n + 1])
      /\ UNCHANGED <<messages, user, joined, heard, list, active, asked, read, listOf>>
  BY DEF InsertConversation, gatewayVars, pageVars
<1>3. /\ ctx[r].sender \in Users /\ ctx[r].receiver \in Users /\ ctx[r].typedIn = 0
      /\ ctx[r].seen <= n
      /\ \A c \in Rows : c <= ctx[r].seen =>
           ~IsBetween(conversations[c], ctx[r].sender, ctx[r].receiver)
  BY <1>1, <1>2 DEF Locals
<1>4. ctx[r].seen \in Nat /\ row \in Conversation
  BY <1>1, <1>3 DEF Ctx, Conversation
<1>5. /\ n \in Nat /\ Rows = 1 .. n /\ Rows' = 1 .. n + 1 /\ Len(conversations') = n + 1
      /\ conversations' \in Seq(Conversation)
      /\ conversations'[n + 1] = row
      /\ \A c \in Rows : conversations'[c] = conversations[c]
  BY <1>1, <1>2, <1>4 DEF Rows
<1>6. Kept
  BY <1>5 DEF Kept
<1>7. ctx[r] \in Ctx /\ n + 1 \in Nat
  BY <1>1, <1>5
<1>8. [ctx[r] EXCEPT !.conversation = n + 1] \in Ctx
  BY <1>7 DEF Ctx
<1>9. PICK x \in Ctx : x = [ctx[r] EXCEPT !.conversation = n + 1]
  BY <1>8
<1>10. PICK step \in {"ended", "save"} : step = IF ctx[r].op = "create" THEN "ended" ELSE "save"
  OBVIOUS
<1>11. /\ x.sender = ctx[r].sender /\ x.receiver = ctx[r].receiver
       /\ x.conversation = n + 1 /\ x.typedIn = 0
  BY <1>1, <1>3, <1>9 DEF Ctx
<1>12. Informed(step, x, r)'
  BY <1>3, <1>5, <1>11 DEF Informed, Reaches, Lists, Filed
<1>13. /\ pc' \in [Calls -> Steps] /\ ctx' \in [Calls -> Ctx]
       /\ \A q \in Calls : Locals(q)'
  BY <1>2, <1>5, <1>6, <1>9, <1>10, <1>12, GotoLocals DEF Steps
<1>14. TypeOK'
  BY <1>2, <1>5, <1>13 DEF IInv, TypeOK, ServerTypeOK
<1>15. ASSUME NEW d \in Rows' PROVE LookedFirst(d)'
  <2>1. CASE d \in Rows
    <3>1. conversations[d].seen \in Nat /\ conversations[d].seen < d
      BY <1>1, <2>1, RowsAre DEF IInv, LookedFirst, Conversation
    <3>2. \A c \in Rows' : c <= conversations[d].seen => c \in Rows
      BY <1>5, <2>1, <3>1
    <3>3. QED
      BY <1>5, <2>1, <3>1, <3>2 DEF IInv, LookedFirst, Between
  <2>2. CASE d \notin Rows
    <3>1. d = n + 1
      BY <1>5, <2>2
    <3>2. \A c \in Rows' : c <= row.seen => c \in Rows
      BY <1>3, <1>4, <1>5
    <3>3. \A c \in Rows : c <= ctx[r].seen =>
            {conversations[c].participant1, conversations[c].participant2}
              # {ctx[r].sender, ctx[r].receiver}
      BY <1>3 DEF IsBetween
    <3>4. ASSUME NEW c \in Rows', c <= conversations'[d].seen
          PROVE  Between(c)' # Between(d)'
      <4>1. conversations'[d] = row /\ row.seen = ctx[r].seen
        BY <1>5, <3>1
      <4>2. c \in Rows /\ c <= ctx[r].seen /\ conversations'[c] = conversations[c]
        BY <1>5, <3>2, <3>4, <4>1
      <4>3. Between(d)' = {ctx[r].sender, ctx[r].receiver}
        BY <4>1 DEF Between
      <4>4. QED
        BY <3>3, <4>2, <4>3 DEF Between
    <3>5. QED
      BY <1>3, <1>4, <1>5, <3>1, <3>4 DEF LookedFirst
  <2>3. QED
    BY <2>1, <2>2
<1>16. ASSUME NEW m \in messages' PROVE Placed(m)'
  <2>1. Placed(m)
    BY <1>2, <1>16 DEF IInv
  <2>2. QED
    BY <1>6, <2>1, Keeping DEF Placed
<1>17. HeardIsSaved' /\ JoinedIsUser'
  BY <1>2 DEF IInv, HeardIsSaved, JoinedIsUser
<1>18. ASSUME NEW p \in Pages PROVE Current(p)'
  <2>1. read[p] \in Nat /\ Current(p)
    BY DEF IInv, TypeOK
  <2>2. \A c \in Rows' : c <= read[p] => c \in Rows
    BY <1>5, <2>1 DEF Current
  <2>3. {c \in Rows' : c <= read[p] /\ Lists(conversations'[c], listOf[p])}
          = {c \in Rows : c <= read[p] /\ Lists(conversations[c], listOf[p])}
    BY <1>5, <2>2
  <2>4. QED
    BY <1>2, <1>5, <2>1, <2>3 DEF Current
<1>19. QED
  BY <1>13, <1>14, <1>15, <1>16, <1>17, <1>18 DEF IInv

\* A message is saved where its call placed it, and only then announced.
LEMMA SaveIInv ==
  ASSUME IInv, NEW r \in Calls, SaveMessage(r), UNCHANGED pageVars
  PROVE  IInv'
<1>1. /\ conversations \in Seq(Conversation) /\ messages \subseteq Message
      /\ pc \in [Calls -> Steps] /\ ctx \in [Calls -> Ctx] /\ Locals(r)
  BY DEF IInv, TypeOK, ServerTypeOK
<1>2. /\ pc[r] = "save" /\ messages' = messages \cup {MessageOf(r)}
      /\ Goto(r, IF ctx[r].via = "rest" THEN "ended" ELSE "announce", ctx[r])
      /\ UNCHANGED <<conversations, user, joined, heard, list, active, asked, read, listOf>>
  BY DEF SaveMessage, gatewayVars, pageVars
<1>3. PICK step \in {"ended", "announce"} :
        step = IF ctx[r].via = "rest" THEN "ended" ELSE "announce"
  OBVIOUS
<1>4. PICK x \in Ctx : x = ctx[r]
  BY <1>1
<1>5. Kept
  BY <1>1, <1>2 DEF Kept, Rows
<1>6. MessageOf(r) \in Message /\ Placed(MessageOf(r))
  BY <1>1, <1>2 DEF MessageOf, Message, Ctx, Placed, Locals
<1>7. Informed(step, x, r)'
  BY <1>1, <1>2, <1>3, <1>4
     DEF Informed, MessageOf, Locals, Reaches, Filed, Between, OwnNotes, Rows
<1>8. /\ pc' \in [Calls -> Steps] /\ ctx' \in [Calls -> Ctx]
      /\ \A q \in Calls : Locals(q)'
  BY <1>1, <1>2, <1>3, <1>5, <1>7, <1>4, GotoLocals DEF Steps
<1>9. TypeOK'
  BY <1>1, <1>2, <1>6, <1>8 DEF IInv, TypeOK, ServerTypeOK
<1>10. (\A d \in Rows : LookedFirst(d))' /\ (\A p \in Pages : Current(p))'
  BY <1>2 DEF IInv, LookedFirst, Between, Current, Rows
<1>11. ASSUME NEW m \in messages' PROVE Placed(m)'
  BY <1>2, <1>5, <1>6, <1>11, Keeping DEF IInv, Placed
<1>12. HeardIsSaved' /\ JoinedIsUser'
  BY <1>2 DEF IInv, HeardIsSaved, JoinedIsUser
<1>13. QED
  BY <1>8, <1>9, <1>10, <1>11, <1>12 DEF IInv

\* What is announced is in the table, and goes to pages of its receiver.
LEMMA AnnounceIInv ==
  ASSUME IInv, NEW r \in Calls, Announce(r), UNCHANGED pageVars
  PROVE  IInv'
<1>1. /\ conversations \in Seq(Conversation) /\ messages \subseteq Message
      /\ heard \in [Pages -> SUBSET Message]
      /\ pc \in [Calls -> Steps] /\ ctx \in [Calls -> Ctx] /\ Locals(r)
  BY DEF IInv, TypeOK, ServerTypeOK
<1>2. /\ pc[r] = "announce" /\ Goto(r, "ended", ctx[r])
      /\ UNCHANGED <<conversations, messages, user, joined, list, active, asked, read, listOf>>
  BY DEF Announce, tableVars, pageVars
<1>3. MessageOf(r) \in messages /\ MessageOf(r).receiverId = ctx[r].receiver
  BY <1>1, <1>2 DEF Locals, MessageOf
<1>4. \A p \in Pages : \/ heard'[p] = heard[p]
                      \/ /\ user[p] = ctx[r].receiver
                         /\ heard'[p] = heard[p] \cup {MessageOf(r)}
  BY DEF Announce
<1>5. HeardIsSaved' /\ JoinedIsUser'
  BY <1>2, <1>3, <1>4 DEF IInv, HeardIsSaved, JoinedIsUser
<1>6. heard' \in [Pages -> SUBSET Message]
  BY <1>1, <1>3 DEF Announce
<1>7. PICK x \in Ctx : x = ctx[r]
  BY <1>1
<1>8. Kept /\ Informed("ended", x, r)'
  BY <1>1, <1>2 DEF Kept, Rows, Informed
<1>9. /\ pc' \in [Calls -> Steps] /\ ctx' \in [Calls -> Ctx]
      /\ \A q \in Calls : Locals(q)'
  BY <1>1, <1>2, <1>8, <1>7, GotoLocals DEF Steps
<1>10. TypeOK'
  BY <1>1, <1>2, <1>6, <1>9 DEF IInv, TypeOK, ServerTypeOK
<1>11. /\ (\A d \in Rows : LookedFirst(d))' /\ (\A m \in messages : Placed(m))'
       /\ (\A p \in Pages : Current(p))'
  BY <1>2 DEF IInv, LookedFirst, Placed, Reaches, Filed, Between, OwnNotes, Current, Rows
<1>12. QED
  BY <1>5, <1>9, <1>10, <1>11 DEF IInv

\* The steps of the server.
LEMMA ServerIInv == ASSUME IInv, ServerNext, UNCHANGED pageVars PROVE IInv'
<1>1. ASSUME NEW r \in Calls, NEW pair \in Contacts, CreateConversation(r, pair[1], pair[2])
      PROVE  IInv'
  <2>1. PICK call \in Ctx :
          call = [NoCall EXCEPT !.op = "create", !.sender = pair[1], !.receiver = pair[2]]
    BY DEF NoCall, Ctx
  <2>2. {call.sender, call.receiver} \subseteq Users /\ call.typedIn = 0
    BY <2>1 DEF NoCall
  <2>3. FindConversation(r, call, "ended")
    BY <1>1, <2>1 DEF CreateConversation
  <2>4. QED
    BY <2>2, <2>3, FindIInv
<1>2. ASSUME NEW r \in Calls, NEW pair \in Contacts, NEW via \in {"rest", "socket"},
             SendTo(r, pair[1], pair[2], via)
      PROVE  IInv'
  <2>1. PICK call \in Ctx :
          call = [NoCall EXCEPT !.op = "send", !.sender = pair[1], !.receiver = pair[2],
                                !.via = via]
    BY DEF NoCall, Ctx
  <2>2. {call.sender, call.receiver} \subseteq Users /\ call.typedIn = 0
    BY <2>1 DEF NoCall
  <2>3. FindConversation(r, call, "save")
    BY <1>2, <2>1 DEF SendTo
  <2>4. QED
    BY <2>2, <2>3, FindIInv
<1>3. ASSUME NEW r \in Calls, CallFails(r) PROVE IInv'
  <2>1. PICK x \in Ctx : x = ctx[r]
    BY DEF IInv, TypeOK, ServerTypeOK
  <2>2. Goto(r, "ended", x) /\ Informed("ended", x, r)
    BY <1>3, <2>1 DEF CallFails, Informed
  <2>3. QED
    BY <1>3, <2>2, MoveIInv DEF CallFails, Steps
<1>4. ASSUME NEW p \in Pages, HandleConnection(p) \/ HandleDisconnect(p) PROVE IInv'
  <2>1. /\ joined' \subseteq Pages
        /\ \A q \in joined' : q \in joined \/ user[q] # None
        /\ UNCHANGED <<conversations, messages, pc, ctx, user, heard, list, active, asked,
                       read, listOf>>
    BY <1>4 DEF HandleConnection, HandleDisconnect, tableVars, callVars, pageVars,
                IInv, TypeOK, ServerTypeOK
  <2>2. TypeOK'
    BY <2>1 DEF IInv, TypeOK, ServerTypeOK
  <2>3. /\ (\A r \in Calls : Locals(r))' /\ (\A d \in Rows : LookedFirst(d))'
        /\ (\A m \in messages : Placed(m))' /\ HeardIsSaved'
        /\ (\A p_1 \in Pages : Current(p_1))'
    BY <2>1 DEF IInv, Locals, LookedFirst, Placed, HeardIsSaved, Current, MessageOf,
                Reaches, Filed, Between, OwnNotes, Rows
  <2>4. JoinedIsUser'
    BY <2>1 DEF IInv, JoinedIsUser
  <2>5. QED
    BY <2>2, <2>3, <2>4 DEF IInv
<1>5. QED
  BY <1>1, <1>2, <1>3, <1>4, InsertIInv, SaveIInv, AnnounceIInv DEF ServerNext

\* What is typed in a conversation of the list goes to one that has its receiver
\* in it, and both have the user in them that the list was read for.
LEMMA SendIInv ==
  ASSUME IInv, NEW p \in Pages, NEW r \in Calls, SendMessage(p, r) PROVE IInv'
<1> DEFINE t == active[p]
           b == Receiver(p, conversations[t])
           f == listOf[p] # user[p]
<1>1. /\ conversations \in Seq(Conversation) /\ list[p] \subseteq Rows
      /\ user[p] \in Users \cup {None}
      /\ \A c \in list[p] : Lists(conversations[c], listOf[p])
  BY DEF IInv, TypeOK, ServerTypeOK, Current
<1>2. PICK c \in Lookup(p, b) : SendIn(r, p, b, c, t, f)
  BY DEF SendMessage
<1>3. t \in list[p] /\ UNCHANGED pageVars
  BY DEF SendMessage
<1>4. c \in list[p] /\ Lists(conversations[c], b)
  BY DEF Lookup, First
<1>5. {c, t} \subseteq Rows /\ {c, t} \subseteq Nat /\ conversations[t] \in Conversation
  BY <1>1, <1>3, <1>4, RowsAre
<1>6. b \in Users /\ b \in Between(t)
  BY <1>5 DEF Receiver, Between, Conversation
<1>7. ASSUME ~f
      PROVE  {user[p], b} = Between(t) /\ (OwnNotes(t) \/ Between(c) = Between(t))
  <2>1. {user[p], b} = Between(t)
    BY <1>1, <1>3, <1>5, <1>7 DEF Receiver, Between, Lists, Conversation
  <2>2. CASE b = user[p]
    BY <2>1, <2>2 DEF OwnNotes, Between
  <2>3. CASE b # user[p]
    <3>1. Between(c) = {user[p], b}
      BY <1>1, <1>4, <1>7, <2>3 DEF Between, Lists
    <3>2. QED
      BY <2>1, <3>1
  <2>4. QED
    BY <2>1, <2>2, <2>3
<1>8. f \in BOOLEAN
  OBVIOUS
<1> HIDE DEF t, b, f
<1>9. user[p] \in Users
  <2>1. p \in joined
    BY DEF SendMessage
  <2>2. QED
    BY <1>1, <2>1 DEF IInv, JoinedIsUser
<1>10. PICK x \in Ctx : x = [NoCall EXCEPT !.op = "send", !.sender = user[p],
                            !.receiver = b, !.conversation = c, !.via = "socket",
                            !.typedIn = t, !.foreign = f]
  BY <1>5, <1>6, <1>8, <1>9 DEF NoCall, Ctx
<1>11. /\ x.sender = user[p] /\ x.receiver = b
       /\ x.conversation = c /\ x.typedIn = t /\ x.foreign = f
  BY <1>10 DEF NoCall
<1>12. Begin(r, x, "save")
  BY <1>2, <1>5, <1>10 DEF SendIn, Rows
<1>13. Informed("save", x, r)
  BY <1>4, <1>5, <1>6, <1>7, <1>9, <1>11 DEF Informed, Reaches, Filed
<1>14. QED
  BY <1>3, <1>12, <1>13, MoveIInv DEF Begin, Steps

\* A step of a page that leaves the server alone.
LEMMA PageIInv ==
  ASSUME IInv, UNCHANGED serverVars, TypeOK', \A p \in Pages : Current(p)'
  PROVE  IInv'
  BY DEF IInv, Locals, LookedFirst, Placed, HeardIsSaved, JoinedIsUser, MessageOf, Reaches,
         Filed, Between, OwnNotes, Rows, serverVars, tableVars, callVars, gatewayVars

\* Another user takes over a tab with a new socket, and nothing he was sent yet.
LEMMA SetUserIInv ==
  ASSUME IInv, NEW p \in Pages, NEW u \in Users \cup {None}, SetUser(p, u) PROVE IInv'
<1>1. /\ user' = [user EXCEPT ![p] = u] /\ joined' = joined \ {p}
      /\ heard' = [heard EXCEPT ![p] = {}]
      /\ UNCHANGED <<conversations, messages, pc, ctx, list, active, asked, read, listOf>>
  BY DEF SetUser, tableVars, callVars, pageVars
<1>2. TypeOK'
  BY <1>1 DEF IInv, TypeOK, ServerTypeOK
<1>3. /\ (\A r \in Calls : Locals(r))' /\ (\A d \in Rows : LookedFirst(d))'
      /\ (\A m \in messages : Placed(m))' /\ (\A q \in Pages : Current(q))'
  BY <1>1 DEF IInv, Locals, LookedFirst, Placed, Current, MessageOf,
              Reaches, Filed, Between, OwnNotes, Rows
<1>4. HeardIsSaved' /\ JoinedIsUser'
  BY <1>1 DEF IInv, TypeOK, ServerTypeOK, HeardIsSaved, JoinedIsUser
<1>5. QED
  BY <1>2, <1>3, <1>4 DEF IInv

\* The answer lists the rows there were, of the user that asked.
LEMMA LoadIInv ==
  ASSUME IInv, NEW l \in Loads, LoadConversations(l) PROVE IInv'
<1>1. /\ conversations \in Seq(Conversation) /\ Len(conversations) \in Nat
      /\ Rows = 1 .. Len(conversations) /\ asked[l] \in Asked
  BY RowsAre DEF IInv, TypeOK, ServerTypeOK, LoadConversations
<1>2. PICK p \in Pages, u \in Users, rows \in Nat :
        p = asked[l].page /\ u = asked[l].user /\ rows = asked[l].rows
  BY <1>1 DEF Asked
<1>3. PICK k \in rows .. Len(conversations) :
        /\ list' = [list EXCEPT ![p] = {c \in ListConversations(u) : c <= k}]
        /\ read' = [read EXCEPT ![p] = k]
  BY <1>2 DEF LoadConversations
<1>4. /\ listOf' = [listOf EXCEPT ![p] = u] /\ asked' = [asked EXCEPT ![l] = None]
      /\ UNCHANGED serverVars /\ active' = active
  BY <1>2 DEF LoadConversations
<1>5. k \in Nat /\ k <= Len(conversations) /\ conversations' = conversations
  BY <1>1, <1>3, <1>4 DEF serverVars, tableVars
<1>6. {c \in ListConversations(u) : c <= k} \subseteq Nat
  BY <1>1 DEF ListConversations, Rows
<1>7. TypeOK'
  BY <1>3, <1>4, <1>5, <1>6
     DEF IInv, TypeOK, ServerTypeOK, serverVars, tableVars, callVars, gatewayVars
<1>8. ASSUME NEW q \in Pages PROVE Current(q)'
  <2>1. CASE q = p
    <3>1. /\ list'[q] = {c \in Rows : c <= k /\ Lists(conversations[c], u)}
          /\ read'[q] = k /\ listOf'[q] = u
      BY <1>3, <1>4, <2>1 DEF IInv, TypeOK, ListConversations, Rows
    <3>2. QED
      BY <1>5, <3>1 DEF Current, Rows
  <2>2. CASE q # p
    BY <1>3, <1>4, <1>5, <2>2 DEF IInv, TypeOK, Current, Rows
  <2>3. QED
    BY <2>1, <2>2
<1>9. QED
  BY <1>4, <1>7, <1>8, PageIInv

\* The steps of a page; a stuttering step is one that changes nothing.
LEMMA NextIInv == IInv /\ [Next]_vars => IInv'
<1> SUFFICES ASSUME IInv, [Next]_vars PROVE IInv'
  OBVIOUS
<1>1. ASSUME UNCHANGED <<serverVars, list, read, listOf>>,
             active' \in [Pages -> Nat \cup Users \cup {None}],
             asked' \in [Loads -> Asked \cup {None}]
      PROVE  IInv'
  <2>1. TypeOK' /\ \A p \in Pages : Current(p)'
    BY <1>1 DEF IInv, TypeOK, ServerTypeOK, Current, Rows, serverVars, tableVars,
                callVars, gatewayVars
  <2>2. QED
    BY <1>1, <2>1, PageIInv
<1>2. ASSUME NEW p \in Pages, NEW l \in Loads, AskConversations(p, l) PROVE IInv'
  <2>1. Len(conversations) \in Nat /\ user[p] \in Users
    BY <1>2 DEF AskConversations, IInv, TypeOK, ServerTypeOK
  <2>2. [page |-> p, user |-> user[p], rows |-> Len(conversations)] \in Asked
    BY <2>1 DEF Asked
  <2>3. QED
    BY <1>1, <1>2, <2>2 DEF AskConversations, IInv, TypeOK
<1>3. ASSUME NEW l \in Loads, LoadFails(l) PROVE IInv'
  BY <1>1, <1>3 DEF LoadFails, IInv, TypeOK
<1>4. ASSUME NEW p \in Pages, NEW c \in Rows, SetActiveConversation(p, c) PROVE IInv'
  <2>1. c \in Nat
    BY <1>4, RowsAre DEF IInv, TypeOK, ServerTypeOK
  <2>2. QED
    BY <1>1, <1>4, <2>1 DEF SetActiveConversation, IInv, TypeOK
<1>5. ASSUME NEW p \in Pages, NEW u \in Users, PickContact(p, u) PROVE IInv'
  BY <1>1, <1>5 DEF PickContact, IInv, TypeOK
<1>6. CASE UNCHANGED vars
  BY <1>1, <1>6 DEF vars, pageVars, IInv, TypeOK
<1>7. ASSUME NEW p \in Pages, NEW r \in PageCalls, SendMessage(p, r) PROVE IInv'
  BY <1>7, SendIInv
<1>8. QED
  BY <1>2, <1>3, <1>4, <1>5, <1>6, <1>7, ServerIInv, SetUserIInv, LoadIInv DEF Next, Rows

\* IInv holds in every reachable state.
LEMMA AlwaysIInv == Spec => []IInv
  BY InitIInv, NextIInv, PTL DEF Spec

-----------------------------------------------------------------------------
\* The tables, the calls and the pages keep their types.
THEOREM ChatTypes == Spec => []TypeOK
<1>1. IInv => TypeOK
  BY DEF IInv
<1>2. QED
  BY <1>1, AlwaysIInv, PTL

\* A second conversation of two people was made by a call that had looked for one
\* before the first was saved: findOrCreateConversation makes a duplicate by a
\* race and in no other way.
THEOREM DuplicatesNeedARace == Spec => []SecondOnlyByRace
<1>1. IInv => SecondOnlyByRace
  <2> SUFFICES ASSUME IInv, NEW c \in Rows, NEW d \in Rows, c < d, Between(c) = Between(d)
               PROVE  conversations[d].seen < c
    BY DEF SecondOnlyByRace, Rows
  <2>1. LookedFirst(d)
    BY DEF IInv
  <2>2. conversations[d].seen \in Nat /\ c \in Nat
    BY RowsAre DEF IInv, TypeOK, ServerTypeOK, Conversation
  <2>3. QED
    BY <2>1, <2>2 DEF LookedFirst
<1>2. QED
  BY <1>1, AlwaysIInv, PTL

\* The gateway announces a message only after it is in the table, and only to
\* pages of its receiver.
THEOREM NothingHeardTooSoon == Spec => []HeardIsSaved
<1>1. IInv => HeardIsSaved
  BY DEF IInv
<1>2. QED
  BY <1>1, AlwaysIInv, PTL

\* What is typed in a conversation of one's own list goes to the other person in
\* it and is filed in a conversation of the two, whatever rows races have made and
\* whoever used the tab before; only notes to oneself can end elsewhere.  Typed in
\* the list of another user it still goes to somebody of that conversation.
THEOREM TypedTextIsFiled == Spec => []FiledWhereTyped
<1>1. IInv => FiledWhereTyped
  BY DEF IInv, Placed, Filed, Reaches, Lists, Between, FiledWhereTyped
<1>2. QED
  BY <1>1, AlwaysIInv, PTL

\* A page that is told of a message lists its conversation, or has read its list
\* before the conversation was made, or still holds the list of another user.
THEOREM AnnouncedIsListed == Spec => []UnlistedOnlyIfNewer
<1>1. IInv => UnlistedOnlyIfNewer
  <2> SUFFICES ASSUME IInv, NEW p \in Pages, NEW m \in heard[p],
                      m.conversationId \notin list[p], listOf[p] \in {user[p], None}
               PROVE  m.conversationId > read[p]
    BY DEF UnlistedOnlyIfNewer
  <2>1. Placed(m) /\ m.receiverId = user[p]
    BY DEF IInv, HeardIsSaved
  <2>2. /\ m.conversationId \in Rows
        /\ Lists(conversations[m.conversationId], user[p])
    BY <2>1 DEF Placed, Reaches
  <2>3. /\ Current(p) /\ read[p] \in Nat
        /\ m.conversationId \in Nat /\ m.conversationId > 0
    BY <2>2, RowsAre DEF IInv, TypeOK, ServerTypeOK
  <2>4. QED
    BY <2>2, <2>3 DEF Current
<1>2. QED
  BY <1>1, AlwaysIInv, PTL
=============================================================================
