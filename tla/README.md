# TLA+ models of OFfline_communication

OFfline_communication is a chat application: a NestJS backend (`src/backend`) and
a React client (`src/frontend`) that talks to it over REST and socket.io and is
meant to fall back to Web Bluetooth. This directory models the parts where
several things happen at once, model-checks them with TLC, and proves the central
properties with TLAPS. Paths below are relative to `src/`; line numbers are those
of the commit under `src/`.

## 1. Inventory

### Parts with a model

| Part | State | Operations | What is hard | What makes it correct |
|---|---|---|---|---|
| Socket service, `frontend/src/services/socket.service.ts` | the socket, a counter of failed attempts; in the chat store `connectionStatus`, `bluetoothMode` | `connect`, `disconnect`, three socket.io handlers | a replaced socket is not closed and keeps its handlers; its retries are counted in two places | the status tells the truth about some socket; the fallback is reached before socket.io gives up |
| Session effect, `App.tsx` | the user object the effect closed over | setup, cleanup | any order of user changes and socket events | no socket outlives its user; the status is that of the socket used for sending; a promised reconnection is coming |
| Chat store, `store/chatStore.ts` | a list of messages per conversation | `loadMessages`, `sendMessage`, `addMessage`, `updateMessageStatus` | pages read before a message and applied after it, overlapping loads, lost events | no message twice; what was given leaves only by a later page; no receipt the server does not have |
| Chat service and gateway, `chat.service.ts`, `websocket.gateway.ts` | the tables of conversations and messages, the rooms | `send`, `findOrCreateConversation`, `listConversations`, `listMessages`, `markRead`, connect, disconnect | reading, creating, saving and announcing are separate steps that may fail | one conversation per pair unless two calls race; only saved messages are announced |
| Chat pages, `pages/Chat.tsx`, `ChatSidebar.tsx`, `pages/Contacts.tsx` | the conversations listed, the active one | load, select, pick a contact, send; login and logout in the tab | the list is read once per mount, answers come late or not at all, and no login or logout clears it; the receiver is looked up twice in two ways | what is typed is filed between the two people it was typed for |
| Typing indicator, `Chat.tsx:58-79`, gateway | one timer per mount, the flag in each peer's store | keystroke, timer, events, link changes, remount | one timer for all conversations; a stop may be lost and the flag has no expiry | a flag that stays is one of the losses that are named |
| Contact search, `pages/Contacts.tsx` | input, list, flag, timer | type, timer, answer, failure | requests are not cancelled | at rest the list is that of the input, unless overtaken or failed |
| Authentication service, `auth/auth.service.ts` | users, refresh tokens, reset tokens | register, login, refresh, logout, change, forgot and reset password | every handler reads, awaits and writes; it may fail at every await | a dead token stays dead; a token is paid for with a dead one; a used reset has changed the password |
| Users service, `users/users.service.ts` | the profile columns | PATCH `users/me`, `updateLastLogin`, `update` | read, assign, await, save of the whole row | only an overlapping update loses a field; a password never reverts |
| Authentication store, `store/authStore.ts` | user, token, two flags, the persisted copy | `login`, `register`, `logout`, `checkAuth`, reload | late answers, reloads in the middle of a call | one session in memory and in storage; nothing protected is shown unconfirmed; a logout lasts |
| Bluetooth service and list, `services/bluetooth.service.ts`, `BluetoothDeviceList.tsx` | an entry per device, the scan flag, the rows | scan, connect, disconnect, receive | overlapping connects, failures half-way, new scans of linked devices, silent link losses | list, service and radio agree, with the exceptions named |
| Queue service, `queue/queue.service.ts` | jobs under Bull, the two finished sets | add, bulk, pause, resume, clean, start, stop | retries across pauses, lost workers and restarts; limits carried by jobs, applied to sets | no job is given up early, none leaves unfinished, finished jobs do not pile up |

### How they interact

`App.tsx` runs `checkAuth` when it mounts, and opens or closes the socket whenever
the `user` object of the authentication store is replaced. The chat store is not told
of such a change: it keeps the list, the open conversation and the messages of the
user before. The handlers of the socket write the chat store through `getState()`. `sendMessage` of the chat store
calls the socket service and, if that returns false, the Bluetooth service. REST
answers and socket events reach the chat store by separate ways, so nothing
orders one against the other. On the server the gateway and the REST controller
call the chat service; the gateway announces what was saved to the room of the
receiver and the controller announces nothing. The authentication service and
`PATCH users/me` share the users table without transactions. The authentication
service asks the queue service for a queue that does not exist.

### Parts without a model

`PROJECT.json` lists each component with its status. The ones without a model:

- cache service: nothing calls it, and every method is one synchronous access to
  a map; notifications: an array without an await between read and write;
- encryption and files: pure functions and one write under a random name.
  `AuthService` keeps the one fact that matters, which password a key is under;
- guards, interceptors, filters, bootstrap, configuration, health: stateless, or
  run once. The timeout interceptor (`main.ts:65`) only stops waiting; the handler
  goes on, as every request of `AuthService` does whatever its client was told;
- `hooks/useSocket.ts`, `hooks/useBluetooth.ts`: no component uses them;
- the small stores: setters with nothing to relate them;
- rendering components. `UserProfile.tsx` is on no route and imports two modules
  that do not exist.

Left out of modelled parts because nothing reaches them: `updateUserPresence`
(no server code emits `user:online`), `markConversationAsRead`,
`markMessagesAsRead`, `setOnline` and `remove` of the users service,
`disconnectAll` of the Bluetooth service, the account lock (no writer). `updateUser`
of the authentication store is left out too: `pages/Profile.tsx:2` calls it to merge a
name and a bio into the user object, which changes no identity and is never sent to
the server. That it replaces the object, so that the effect of `App.tsx` runs again,
is a `SetUser` of `AppSession`.

Simplifications of modelled parts:

- `AuthStore` is one tab. The tabs of a browser share `localStorage`, and no code
  listens to it: what two tabs do to the persisted copy is not covered.
- A change of user in a tab is an action of `AppSession` (the socket), `AuthStore` (the
  session) and `ChatPages` (the list and the open conversation). `MessageStore` and
  `Typing` are one user's session in one page load; the lists of messages and the typing
  flags, which such a change keeps as well, are not followed across it.

Many files of the commit are empty (several entities, the queue processors, all
tests, the mobile client under `MOb/`), and several parts are not wired together:

- the client connects with `path: '/chat'` (`socket.service.ts:25`), the gateway
  serves the namespace `/chat`;
- the client asks for `/conversations`, the server has `/chat/conversations`;
- `authStore.ts:52` reads `data.token`, the service returns `accessToken`, and the
  server has no `/auth/me`;
- `App.tsx:25` takes `initializeBluetooth` from an object that has no such member;
- `Chat.tsx` calls `sendTypingStart` on the class of the socket service, where the
  method belongs to the instance;
- `users` has no `encryptedPrivateKey` column, so the update of
  `auth.service.ts:74` throws, and no registration gets past it;
- `@nestjs/bull` and `bull` are imported but are in no `package.json`.

The models take each side as its code is written and assume the wiring that the
code intends: a mismatch would otherwise hide every behaviour behind it. Where
the mismatch is a possible failure of a step (line 74) the model has that failure.

## 2. Modules

| Module | Models | Notes |
|---|---|---|
| `SocketLink` | socket service, connection half | actions named after the handlers; socket.io is external: a socket makes `1 + MaxReconnect` attempts, `MaxReconnect` after a drop |
| `AppSession` | the effect of `App.tsx` | extends `SocketLink`: `Setup` and `Cleanup` contain its `Connect` and `Disconnect`; proved to refine it |
| `MessageStore` | message lists of one client, its server and the network | messages are identities |
| `ChatService` | chat service, controller, gateway rooms | `pc` and `ctx` hold where each call waits and what it has read |
| `ChatPages` | pages that list, open and write in conversations, and whose user changes | extends `ChatService`; `SendMessage` starts a call of it, one of `PageCalls`; the other calls come from other clients. A load of the list is `AskConversations`, then `LoadConversations` or `LoadFails` |
| `Typing` | typing indicator from keystroke to the stores of the peers | the gateway takes and delivers events one by one |
| `ContactSearch` | the debounced search | a list is named by the query it answers |
| `AuthService` | `auth.service.ts` and profile updates over their tables | `pc` and `ctx` as above |
| `TokenLedger` | abstract specification of refresh tokens | implemented by `AuthService` through the mapping `Ledger` |
| `AuthStore` | authentication store, persistence, reload | the server's answers are any |
| `BluetoothService` | Bluetooth service and the device list | GATT links and the device dialog are external |
| `QueueService` | one queue of the queue service over Bull | Bull and the processors are external |
| `AppSessionProofs`, `MessageStoreProofs`, `ChatServiceProofs`, `AuthServiceProofs`, `AuthStoreProofs`, `PageProofs`, `BluetoothProofs`, `QueueServiceProofs` | theorems | each extends the module it is about and `TLAPS`; `AppSessionProofs` is also about `SocketLink`, `ChatServiceProofs` about `ChatPages`; `PageProofs` is about `Typing` and `ContactSearch`, which are two pages that share no state: the names of `ContactSearch` (`SearchInit`, `debounce`) differ so that it can extend both |
| `MC...` | values of the constants for TLC | one per checked module |

Correspondence that is not by name:

- An asynchronous function is one action up to its first `await` and one for each
  part after it. What the code has in local variables across an `await` is in the
  state: `ctx` of `AuthService` and `ChatService`, the page of a load, the phase of
  a `call`, `asked` of `AuthStore`, `ContactSearch` and `ChatPages`.
- `gatt.disconnect()` returns nothing, so `disconnectDevice` is one action.
- A message and its `clientMessageId` are one identity: a draft is either emitted
  or kept as pending, so both ids never meet in one list.
- In `AuthService` tokens are named after the request that made them. A stored
  password is the plain one, how often it was hashed and by which request, since
  double hashing is something the code does. A profile value is named by who
  wrote it. `changePassword` ends in an error: it compares with a password column
  that `findById` does not select. `bio` and `deviceName` of the profile dto are no
  columns and change nothing.
- In `ChatService` a conversation is its place in the table, which is also the
  order of `updatedAt`, since no code writes a row again; a list sorted by it is
  therefore the set of its members. `getOne()` may return any matching row.
- In `ChatPages` a user is logged in to each page, or nobody (`SetUser`, which ends the
  membership of its socket as the effect of `App.tsx` does). A load belongs to the user
  whose token it took (`Asked`), and its answer holds what the table held at some
  moment since; whoever is logged in by then gets it.
- In `Typing` a conversation is named by the other user in it.
- In `QueueService` a job that ends gets the time `ends + 1`, which stands for Bull's
  `finishedOn`; `Kept` cuts a set by these times, as Bull's scripts do by score. With a
  limit of 0, which is how `removeOnComplete: true` is written here, only the job that
  ends is removed. Two jobs never end in the same millisecond there. Which jobs are older than the grace period is left open: any
  subset of a finished set may be. A grace of 0 becomes a day (`||`, line 119),
  which the open choice includes.
- In `MessageStore`, `BluetoothOutcomes` says whether a send over Bluetooth may
  succeed. At this commit it always rejects (the characteristic it needs is set
  only by `startAdvertising`, which throws); the main run allows both.
- History variables guard no action. They name the exceptions of a property:
  `received`, `hidden` and `taken` (MessageStore), `behind` and `last` (AuthService), `late` and
  `signedOut` (AuthStore), `dropped`, `abandoned` and `again` (BluetoothService),
  `seen`, `typedIn`, `foreign`, `read` and `listOf` (chat), `owed` (Typing), `given` and `bulk`
  (QueueService), `newest`, `failed` and `overtaken` (ContactSearch).

Definitions such as `FallbackDueLate`, next to `FallbackDue`, are variants with a
plausible mistake. No specification uses them; they are there to show that the
properties notice such a mistake.

## 3. Runs

| Run | Shows | Bounds, and why they are enough |
|---|---|---|
| `SocketLink` | status, fallback and the end of retrying, with up to three sockets alive | three sockets: an orphan, its replacement and the replacement of that; two retries instead of ten, so that counter and budget can differ by a reset at each position |
| `AppSession` | the same under `App.tsx`, with the stronger promises that use gives | two users, three sockets: two restarts, the second while the first socket still retries |
| `MessageStore` | lists under events, pages, losses and receipts; delivery | three messages and pages of two: a page can miss old and new messages, and a message can come before it, during it and after it; two loads: they can overlap and answer in either order |
| `ChatPages` | who talks where: races for conversations, what is announced, where typed text goes, also after a change of user | two users and a note to oneself; one page that either may use in turn, any number of times; one load under way, whose answer may come after such a change or fail; two calls of other clients that race, which are symmetric, and one text typed in the page, which meets their duplicates |
| `Typing` | the flag at the peers under timers, remounts and link changes | two peers, two mounts, three keystrokes: a switch inside the second and one more; the old timer next to the new one |
| `ContactSearch` | what is shown at rest under overlapping requests | two queries and a blank one, four firings of the timer: three answers in any order after a blank or before it |
| `AuthService` | the tables under interleaved, failing requests; refinement of `TokenLedger` | three requests of any kind: two that race and one that sets them up; one account that exists and one that does not |
| `AuthStore` | memory, storage and page under late answers and reloads | three logins, two users, two reloads, `MountChecks = 1` |
| `BluetoothService` | list, service, radio, and what they receive | two devices, three connects, two rows: two calls overlap and a third comes after; a device is listed twice; two values and two milliseconds |
| `QueueService` | retries, limits and removal | three jobs, which are symmetric, two attempts, limits of one, callers who want a single attempt or a completed job removed at once: each limit and each budget is met and passed; a worker may be lost twice |

Two runs end in a counterexample: a comment says one thing and the code does
another.

| Run | The text | What happens |
|---|---|---|
| `RotatedOnce` | `auth.service.ts:151` "Rotate refresh token" | two refreshes read the row before either saves it, and both get a token |
| `ResetEndsOldLogins` | `auth.service.ts:255` "Revoke all refresh tokens" | a login that compared the old password saves its token after the update |

Other disagreements need no run of their own. Where the model reaches one, a
property of a passing run names it as its only exception:

- an answer that was under way at a logout signs in again (`authStore.ts:52`):
  exception of `SignOutLasts`. With two checks per mount (React's strict mode,
  `main.tsx:6`, in development) `OneSession` fails too;
- a page replaces the list, and with it the only copy of a pending message
  (`chatStore.ts:94`), although `Help.tsx:1` says it is kept: exception of
  `MissingOnlyOffThePage`. Nothing ever sends a pending message again;
- a reset leaves the private key under the old password (`auth.service.ts:250`):
  exception of `KeyUnderPassword`;
- two overlapping first messages make two conversations (`chat.service.ts:2`):
  exception of `SecondOnlyByRace`; notes to oneself are filed elsewhere
  (`chatStore.ts:101`): exception of `FiledWhereTyped`;
- a login in a tab that had another user (`authStore.ts:52`, `:64`; `/login` and
  `/register` are open, `App.tsx:52-53`) leaves that user's conversations on the screen
  until `loadConversations` answers, or for good if it fails (`chatStore.ts:86-88`), and
  an answer asked for before brings them back. What is typed there goes to
  `participant1` of that conversation, and is filed in the first listed one that he is
  in, perhaps one with somebody else: exception `foreign` of `FiledWhereTyped`.
  Messages to the new user belong to conversations that are not listed: exception
  `listOf` of `UnlistedOnlyIfNewer`. Both properties fail without these exceptions;
- a profile update writes back what an overlapping one wrote (`users.service.ts:14`):
  exception of `LostOnlyToOverlap`;
- a late answer replaces the list of a later query (`Contacts.tsx:2`): exception of
  `SettledShowsQuery`.

Others are shown by a line: `bluetoothMode` is never cleared, so the banner of
`ConnectionStatus.tsx:17` stays when the socket is back; after a disconnection by
the server nobody connects again; a registered password is hashed twice
(`user.entity.ts:58`); the queue `send-email` does not exist
(`queue.service.ts:137`); two resets may both use one reset token
(`auth.service.ts:237-253`); a row says Connected after the radio dropped the link,
because nobody subscribes to `gattserverdisconnected`; a click on a found contact
opens the id of a user as a conversation (`Contacts.tsx:2`); `PATCH users/me`
answers with a `bio` that no column keeps.

`CHECK_DEADLOCK FALSE` is set where a model has a finite supply of sockets,
messages, requests or jobs and rightly stops when it is used up, and because a
user need not do anything.

### Fairness

- socket.io's timer makes the next attempt of a socket in retry: `Attempt`. That
  the attempt succeeds is not assumed.
- React runs the effects of a committed render: `Cleanup`, `Setup`, `Mount`.
- A timer of the browser fires: `TimerFires` of `Typing`,
  `DebounceFires` of `ContactSearch`.
- An event that was delivered is handled, and a handler on the server that was
  started goes on: `HandleEvent`, `Save`, `Announce`, `Forward`, `HandleTypingEvent`.
- The browser settles every request, either way: `CheckAnswered \/ CheckFails`,
  `LoginAnswered \/ LoginFails`, `Answered \/ Fails`.

No fairness is assumed of users, of connections, of the Bluetooth radio or of Bull;
`ChatPages`, `AuthService`, `BluetoothService` and `QueueService` have none, and
state no liveness.

### What each property says

*Socket.* `ConnectedIsLive`: "connected" needs a live socket. `FallbackReached`:
retrying ends in Bluetooth mode.

*Session.* `NoOrphan`: used by `App.tsx` the service has no second live socket.
`StatusFaithful`: the status is that of the socket `sendMessage` uses.
`ReconnectPromiseKept`: an attached user who reads "Attempting to reconnect..." has
an attempt coming. `SessionNeverStranded`, `LogoutSilences`: nobody is left between
the transports, and a lasting logout silences every socket.

*Messages.* `NoDuplicateIds`, `NoFalseReceipt`, `Delivered`, and
`MissingOnlyOffThePage`, the exact form of "no message is lost": whatever the list was
given, by an event, in a page or as a pending copy, is shown until a page replaces the
list afterwards (`hidden`), and that page rightly lacks it: it was read before the
message was saved or does not reach back to it (`OffThePage`), or the message is a
pending copy, which is in no page. A message whose event is handled after the page
is shown, whenever that page was read. `Delivered`: a saved message reaches the list
of a receiver who stays connected, after any pages.

*Chat.* `SecondOnlyByRace`: the call that made a duplicate had read the table before
the first row was there. `HeardIsSaved`: nothing is announced that a reload would
not show. `FiledWhereTyped`: text goes to the two people of the conversation on the
screen, if the list is the user's own; in the list of the user before it goes at least
to one of its two people, and into a conversation of his. `UnlistedOnlyIfNewer`: a
message is announced in a conversation the page lists, or in one made after the list
was read, unless the list is that of another user.

*Typing.* `TypingHasEnd`: a flag at a peer has its end on the way (a timer, an event)
or its stop is one that was lost (`owed`). `TypingEnds`: it goes away, or is lost.

*Search.* `SettledShowsQuery` and `LoadingEnds`, that "Searching..." goes away.

*Authentication.* `LedgerSpec`: the tokens behave as `TokenLedger` says.
`UsedTokenChangedPassword`, `KeyUnderPassword`: what the steps of resets and
registrations leave when any of them fails or races. `LostOnlyToOverlap`,
`PasswordNeverReverts`: what whole-row saves can and cannot overwrite.

*Session store.* `OneSession`, `ShownWhenConfirmed`, `SignOutLasts`, and `LoadingEnds`,
that the loading screen goes away.

*Bluetooth.* `NewestRowAgrees`, `ConnectedUnlessDropped`, `LinkedIsAccounted`,
`HeardOnce`, `ScanFlagHonest`, `LostToSameMillisecond`. The history variables
`dropped`, `abandoned` and `again` name the only ways in which list, service and
radio come apart.

*Queue.* `GivenUpAfterRetries`: no pause, restart or cleaning costs a job an attempt.
`FinishedBounded`: jobs of `addJob` stay within their limits next to bulk jobs that
have none. `OnlyFinishedLeave`: nothing unfinished is removed.

`TypeOK` is a theorem of every module but `TokenLedger`, which only `AuthService` uses;
the runs of `Typing`, `BluetoothService` and `QueueService` check it too.

## 4. Proofs

Each theorem holds for all values of the constants that satisfy the assumptions the
modules declare, which TLC evaluates in the runs. `AuthStoreProofs` also assumes
`MountChecks = 1`.

- `AppSessionProofs`, first part (`SocketLink`). `TypeOK` alone is not inductive: `budget` could go below zero;
  `TInv` adds that a retrying socket has an attempt left. `ConnectedIsLiveHolds` is
  inductive with it. `NeverStrandedHolds`, that the fallback has been taken once
  every opened socket has given up, goes through `Covered`: while the fallback is
  off and a socket was opened, some socket is connected, was closed on purpose, or
  has enough attempts left to carry the shared counter to the threshold by itself.
- `AppSessionProofs`, second part. Lemma `AppStep`: every step of the session is a step of the
  service or leaves it alone, so `UsesTheService` gives `TInv` and
  `ConnectedIsLive` for nothing. `SInv` adds that a live socket is the attached
  user's current one (`Attached`), that the status is that socket's, and that its
  attempts left carry the shared counter to the threshold (`Reported`). From it
  `NoOrphanHolds`, `StatusIsFaithful`, `PromiseIsKept`, `SessionIsNeverStranded`.
- `MessageStoreProofs`. `IInv`: the log of the server holds each saved message once
  (`LogOK`, `StageOK`); a list holds each message once and says nothing the server
  does not (`HonestList`); a page on its way holds the newest messages of the log as
  it was read (`PageOK`); an event is about a saved message (`EventOK`); what a list was
  given is in the log or pending (`Kept`). Pages and events are needed because `ApplyLoad` and
  `HandleEvent` use what was made several steps before. From it `NoMessageTwice`,
  `ReceiptsAreTrue`, and with `MissingOnlyOffThePage` itself, `OnlyPagesHide`.
- `ChatServiceProofs`. `IInv` has, for each call, what it knows at its step
  (`Locals`): the rows it has looked through, or the place of the message it will
  save. Of each row it says that its maker had seen no other of the same two
  (`LookedFirst`), of each message where it lies (`Placed`), of each list that it is
  what the table held, when it was read, of the user it was read for (`Current`), who
  need not be the user of the page; of an open socket, that it has a user
  (`JoinedIsUser`). What a call typed in a foreign list still knows is the weaker half of
  `Filed`. Its four properties follow.
- `AuthServiceProofs`. `IInv` is `TypeOK` and, for each request, what its code knows
  (`Locals`), that it has issued nothing before `generateTokens` (`Fresh`) and that a
  refresh has killed the token it paid with (`Spent`). Two requests must not issue
  one token, and `RevokeOld` and `GenerateTokens` are separate steps, hence the last
  two. `ParentSpentHolds`, `DeadStaysDeadHolds` and `ImplementsLedger` follow, the
  last from the lemma `TokenStep`: each step issues the token of one request, kills
  some tokens, or leaves them alone.
- `AuthServiceProofs`, second part, over `IInv`: `UInv` adds what a request that has read the table
  still relies on when it writes (`Knows`): a registration that its row is under its
  own password or a later reset's, an update that was not overtaken that it holds
  the row as it is. `Paid` relates a used reset token to the password. `ResetPaysOut`, `KeyIsUnderPassword`, `LossNeedsOverlap`,
  `NoOldPassword`.
- `AuthStoreProofs`. `OneSession` needs that the loading screen covers a page that has
  not asked or waits, so that an answer of `checkAuth` meets the token it was asked
  for (`Covered`), and that each token has its owner (`OwnerKnown`), and
  `SignOutLasts` that a login that is still asked is remembered (`LateKnown`).
- `PageProofs`, `Typing`. The property looks at the flag only, but a start under way
  will set the flag, so the starts need an end too. `Ends(r)`: if the flag is set, or
  the last word on `r` in a queue is a start (`Open`), then a timer holds the stop, or
  it was lost (`Held`), or a stop follows on the way. The lemmas `Appended` and `Taken`
  say what the two ends of a queue do to that. `TypingTypes`, `FlagHasEnd`.
- `PageProofs`, `ContactSearch`. `Latest`: with the timer at rest the latest run is that
  of the input, and once it has settled only an earlier one can write after it.
  `SettledIsShown`, `SearchingIsAsked`.
- `BluetoothProofs`. None of the seven properties is inductive alone. `LinkInv` has,
  for each call (`CallOK`), that past its first await its device is linked and past
  the second it was announced or found again since; for each device (`DeviceOK`), that
  handlers need a link, and that two calls, or a call next to a handler, are one of
  the named exceptions; for each row (`RowOK`), that only the newest may say more or
  less than the entry, and no row says "not connected" of an entry that says connected,
  so the Connect button shows only where it may. Links and what is received share no
  variable that both write, so `InboxInv`, for `LostToSameMillisecond`, has an induction of its own.
- `QueueServiceProofs`. `IInv` gives each job of `addJob` the options it was promised,
  attempts left while it may run again, and each ended job a time of its own
  (`JobOK`, `Ended`, `Distinct`). `KeptBounded`, by the pigeonhole principle: cutting a
  set by distinct times leaves no more than the limit, since each job that is kept has
  a different number of newer ones. `FinishStep` uses it for the job that ends; no other
  step lets a job of `addJob` into a finished set. `QueueTypes`, `AttemptsUsed`,
  `SetsBounded`, `NoneLeavesEarly`.

Three theorems are about properties no run needs to check, because a run checks a
stronger one: `ParentSpent` and `DeadStaysDead` follow from `LedgerSpec`;
`NeverStranded` is for the service alone what `SessionNeverStranded` is under
`App.tsx`.

Only model-checked: the liveness properties (`FallbackReached`, `LogoutSilences`,
`Delivered`, `TypingEnds` and both `LoadingEnds`), since fairness is out of the
prover's reach. Every invariant and every action property the passing runs check is
also a theorem, and so is the refinement of `TokenLedger`.

## 5. Plan

Done: the modules above. What is left, in this order:

1. `ChatSystem`: two `MessageStore` clients over `ChatPages`, in place of the
   external peer and the log of one conversation that `MessageStore` has.
2. `MessageInput.tsx:4`: its input is emptied after the await of the send, so text
   typed meanwhile is lost; no other state depends on it.
3. Presence and the cache, if a later commit calls them.
