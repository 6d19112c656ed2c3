------------------------------ MODULE ChatPages ------------------------------
(***************************************************************************)
(* The chat service together with the pages that use it: which             *)
(* conversations a page lists, which one it has open, and to whom and       *)
(* where the text typed there goes (pages/Chat.tsx, ChatSidebar.tsx,        *)
(* pages/Contacts.tsx, sendMessage of store/chatStore.ts).                  *)
(***************************************************************************)
EXTENDS ChatService

CONSTANT Loads      \* the calls of loadConversations that may be under way

VARIABLES list,     \* conversations of each page's chat store, newest first
          active,   \* its activeConversationId: a conversation, a user or None
          asked,    \* the calls of loadConversations, None if one is not under way
          read,     \* history: rows in the table when the list was read
          listOf    \* history: the user it was read for, None if it never was

pageVars == <<list, active, asked, read, listOf>>
vars == <<serverVars, pageVars>>

Init ==
  /\ ServerInit
  /\ list = [p \in Pages |-> {}]
  /\ active = [p \in Pages |-> None]
  /\ asked = [l \in Loads |-> None]
  /\ read = [p \in Pages |-> 0]
  /\ listOf = [p \in Pages |-> None]

\* What loadConversations has sent: the user is that of the token it took, rows
\* the length of the table then.
Asked == [page : Pages, user : Users, rows : Nat]

\* A login, registration, logout or refused checkAuth in the tab.  The effect of
\* App.tsx closes the socket of the user before; the chat store keeps the list
\* and the conversation that was open.
SetUser(p, u) ==
  /\ u # user[p]
  /\ user' = [user EXCEPT ![p] = u]
  /\ joined' = joined \ {p}
  /\ heard' = [heard EXCEPT ![p] = {}]
  /\ UNCHANGED <<tableVars, callVars, pageVars>>

\* The effect of Chat.tsx, whenever that page is shown.
AskConversations(p, l) ==
  /\ user[p] # None /\ asked[l] = None
  /\ asked' = [asked EXCEPT ![l] =
                 [page |-> p, user |-> user[p], rows |-> Len(conversations)]]
  /\ UNCHANGED <<serverVars, list, active, read, listOf>>

\* The answer holds what the table held of that user when the server read it,
\* and is taken whoever is logged in by then.
LoadConversations(l) ==
  /\ asked[l] # None
  /\ LET p == asked[l].page
         u == asked[l].user IN
     /\ \E k \in asked[l].rows .. Len(conversations) :
          /\ list' = [list EXCEPT ![p] = {c \in ListConversations(u) : c <= k}]
          /\ read' = [read EXCEPT ![p] = k]
     /\ listOf' = [listOf EXCEPT ![p] = u]
  /\ asked' = [asked EXCEPT ![l] = None]
  /\ UNCHANGED <<serverVars, active>>

\* A failed request leaves the list alone (chatStore.ts:86-88).
LoadFails(l) ==
  /\ asked[l] # None
  /\ asked' = [asked EXCEPT ![l] = None]
  /\ UNCHANGED <<serverVars, list, active, read, listOf>>

\* The sidebar shows the conversations that match its filter and search term,
\* and an empty term under "all" shows every one.
Offered(p) == list[p]

\* A click in the sidebar.
SetActiveConversation(p, c) ==
  /\ user[p] # None /\ c \in Offered(p)
  /\ active' = [active EXCEPT ![p] = c]
  /\ UNCHANGED <<serverVars, list, asked, read, listOf>>

\* A click on a result of Contacts.tsx.  The search answers with users, which
\* have no conversationId, so the page opens the id of a user.
PickContact(p, u) ==
  /\ <<user[p], u>> \in Contacts
  /\ active' = [active EXCEPT ![p] = u]
  /\ UNCHANGED <<serverVars, list, asked, read, listOf>>

\* The other end of a conversation (Chat.tsx:52-54), and a version without the
\* comparison.
ReceiverFirst(p, row) == row.participant1
Receiver(p, row) ==
  IF row.participant1 = user[p] THEN row.participant2 ELSE row.participant1

\* sendMessage looks the conversation up again, by the receiver alone
\* (chatStore.ts:101): the first that has the receiver in it.  The variant takes
\* the first one listed.
First(S) == {c \in S : \A d \in S : d <= c}
LookupFirst(p, b) == First(list[p])
Lookup(p, b) == First({c \in list[p] : Lists(conversations[c], b)})

\* handleSendMessage on a connected page; what a page does without a link is in
\* MessageStore.  A contact that was picked is in no list: the text goes nowhere.
SendMessage(p, r) ==
  /\ p \in joined
  /\ active[p] \in list[p]
  /\ LET b == Receiver(p, conversations[active[p]]) IN
     \E c \in Lookup(p, b) : SendIn(r, p, b, c, active[p], listOf[p] # user[p])
  /\ UNCHANGED pageVars

Next ==
  \/ ServerNext /\ UNCHANGED pageVars
  \/ \E l \in Loads : LoadConversations(l) \/ LoadFails(l)
  \/ \E p \in Pages : \/ \E u \in Users \cup {None} : SetUser(p, u)
                      \/ \E l \in Loads : AskConversations(p, l)
                      \/ \E c \in DOMAIN conversations : SetActiveConversation(p, c)
                      \/ \E u \in Users : PickContact(p, u)
                      \/ \E r \in PageCalls : SendMessage(p, r)

Spec == Init /\ [][Next]_vars

-----------------------------------------------------------------------------
TypeOK ==
  /\ ServerTypeOK
  /\ list \in [Pages -> SUBSET Nat]
  /\ active \in [Pages -> Nat \cup Users \cup {None}]
  /\ asked \in [Loads -> Asked \cup {None}]
  /\ read \in [Pages -> Nat]
  /\ listOf \in [Pages -> Users \cup {None}]

\* A conversation with oneself.
OwnNotes(c) == Between(c) = {conversations[c].participant1}

\* What was typed in a conversation is filed between the two people of that
\* conversation, and there, or else in a duplicate that a race has made.  Notes
\* to oneself go astray: sendMessage looks for any conversation that has the
\* receiver in it (Chat.tsx:49-56, chatStore.ts:101-103).  So does what a user
\* types in the list of the user before, which no login or logout clears
\* (authStore.ts:52, 64); it goes to somebody of the conversation on the screen
\* and is filed in one of his.
FiledWhereTyped ==
  \A m \in messages : m.typedIn # 0 =>
    LET c == m.conversationId
        t == m.typedIn IN
    /\ m.receiverId \in Between(t) \cap Between(c)
    /\ ~m.foreign => /\ {m.senderId, m.receiverId} = Between(t)
                     /\ OwnNotes(t) \/ Between(c) = Between(t)

\* A message a page was told of can be found there: its conversation is listed,
\* unless it was made after the list was read, which no event makes up for, or
\* the list is still, or again, that of a user who was logged in before
\* (Chat.tsx:36-38, chatStore.ts:85-88, socket.service.ts:64-65).
UnlistedOnlyIfNewer ==
  \A p \in Pages : \A m \in heard[p] :
    \/ m.conversationId \in list[p]
    \/ m.conversationId > read[p]
    \/ listOf[p] \notin {user[p], None}
=============================================================================
