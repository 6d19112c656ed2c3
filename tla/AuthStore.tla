----------------------------- MODULE AuthStore -----------------------------
(***************************************************************************)
(* frontend/src/store/authStore.ts, its persisted copy, and the page that  *)
(* uses it: App.tsx runs checkAuth when it mounts and shows nothing else   *)
(* while isLoading is set; ProtectedRoute.tsx shows its pages on           *)
(* isAuthenticated alone.                                                  *)
(*                                                                         *)
(* Each login or registration that succeeds gives a token of its own; a    *)
(* token is named by that call.  The server's answers are any.             *)
(***************************************************************************)
EXTENDS Naturals

CONSTANTS Logins,       \* calls of login and register
          Users,
          MountChecks,  \* runs of App's effect per page load: 1, or 2 under
                        \* React.StrictMode in a development build
          MaxReloads,   \* bound on page reloads
          None

ASSUME StoreAssumption ==
  None \notin Logins \cup Users /\ MountChecks \in Nat \ {0} /\ MaxReloads \in Nat

VARIABLES user, token, isAuthenticated, isLoading,  \* the store
          stored,      \* the copy in localStorage
          login,       \* the calls of login and register
          checks,      \* runs of checkAuth that await /auth/me
          asked,       \* the token they sent
          page,        \* "boot" until App has mounted, then "up"
          reloads,
          confirmed,   \* history: tokens the server vouched for to this page
          signedOut,   \* history: the user signed out, and has not begun to
                       \* sign in again
          late         \* history: logins that were on their way at that time

storeVars == <<user, token, isAuthenticated, isLoading, stored>>
callVars == <<login, checks, asked>>
pageVars == <<page, reloads>>
historyVars == <<confirmed, signedOut, late>>
vars == <<storeVars, callVars, pageVars, historyVars>>

Persisted == [user : Users \cup {None}, token : Logins \cup {None},
              isAuthenticated : BOOLEAN]

\* partialize (line 87), and a version that keeps the token out of storage.
PartializeNoToken(u, t, auth) == [user |-> u, token |-> None, isAuthenticated |-> auth]
Partialize(u, t, auth) == [user |-> u, token |-> t, isAuthenticated |-> auth]

\* isLoading of a store that was just created (line 44).
CreatedReady == FALSE
CreatedLoading == TRUE

\* Every set() writes the persisted fields at once.
Set(u, t, auth, loading) ==
  /\ user' = u /\ token' = t /\ isAuthenticated' = auth /\ isLoading' = loading
  /\ stored' = Partialize(u, t, auth)

\* App shows its pages, the forms among them, when it is not loading (App.tsx:42);
\* ProtectedRoute shows those of a session on the flag alone.
PagesShown == ~isLoading
ProtectedShown == PagesShown /\ isAuthenticated

Init ==
  /\ user = None /\ token = None /\ isAuthenticated = FALSE /\ isLoading = CreatedLoading
  /\ stored = Partialize(None, None, FALSE)
  /\ login = [k \in Logins |-> [who |-> None, phase |-> "idle"]]
  /\ checks = 0 /\ asked = None
  /\ page = "boot" /\ reloads = 0
  /\ confirmed = {} /\ signedOut = FALSE /\ late = {}

\* The login and registration forms: shown whenever App is not loading.
Login(k, u) ==
  /\ login[k].phase = "idle"
  /\ page = "up" /\ PagesShown
  /\ login' = [login EXCEPT ![k] = [who |-> u, phase |-> "asked"]]
  /\ signedOut' = FALSE
  /\ UNCHANGED <<storeVars, checks, asked, pageVars, confirmed, late>>

LoginAnswered(k) ==
  /\ login[k].phase = "asked"
  /\ login' = [login EXCEPT ![k].phase = "done"]
  /\ Set(login[k].who, k, TRUE, FALSE)
  /\ confirmed' = confirmed \cup {k}
  /\ UNCHANGED <<checks, asked, pageVars, signedOut, late>>

LoginFails(k) ==
  /\ login[k].phase = "asked"
  /\ login' = [login EXCEPT ![k].phase = "done"]
  /\ UNCHANGED <<storeVars, checks, asked, pageVars, historyVars>>

\* The token logout leaves (line 64), and a version that forgets it.
LoggedOutTokenKept == token
LoggedOutToken == None

\* logout, from a protected page.  Its request to the server carries neither
\* token nor body, and its failure is ignored (line 65).
Logout ==
  /\ page = "up" /\ ProtectedShown
  /\ Set(None, LoggedOutToken, FALSE, isLoading)
  /\ signedOut' = TRUE
  /\ late' = {k \in Logins : login[k].phase = "asked"}
  /\ UNCHANGED <<callVars, pageVars, confirmed>>

\* isLoading after a checkAuth without token (line 72), and without that reset.
NoTokenStillLoading == TRUE
NoTokenLoading == FALSE

\* When checkAuth asks the server (lines 70-71).
Asks == token # None

\* App has rendered once, and its effect runs: checkAuth up to its await, as
\* often as the effect runs.
Mount ==
  /\ page = "boot"
  /\ page' = "up"
  /\ \/ /\ ~Asks
        /\ Set(None, token, FALSE, NoTokenLoading)
        /\ UNCHANGED <<checks, asked>>
     \/ /\ Asks
        /\ Set(user, token, isAuthenticated, TRUE)
        /\ checks' = MountChecks
        /\ asked' = token
  /\ UNCHANGED <<login, reloads, historyVars>>

\* /auth/me answers with the owner of the token that was sent.
CheckAnswered ==
  /\ checks > 0
  /\ checks' = checks - 1
  /\ Set(login[asked].who, token, TRUE, FALSE)
  /\ confirmed' = confirmed \cup {asked}
  /\ UNCHANGED <<login, asked, pageVars, signedOut, late>>

\* It refuses, or cannot be reached: line 81 treats both alike.
CheckFails ==
  /\ checks > 0
  /\ checks' = checks - 1
  /\ Set(None, None, FALSE, FALSE)
  /\ UNCHANGED <<login, asked, pageVars, historyVars>>

\* The page is loaded again: calls on their way are dropped and the store is
\* made anew from its persisted copy.
Reload ==
  /\ reloads < MaxReloads
  /\ reloads' = reloads + 1
  /\ page' = "boot"
  /\ user' = stored.user /\ token' = stored.token
  /\ isAuthenticated' = stored.isAuthenticated /\ isLoading' = CreatedLoading
  /\ login' = [k \in Logins |->
                IF login[k].phase = "asked" THEN [login[k] EXCEPT !.phase = "done"]
                ELSE login[k]]
  /\ checks' = 0 /\ asked' = None
  /\ confirmed' = {}
  /\ UNCHANGED <<stored, signedOut, late>>

Next ==
  \/ \E k \in Logins : \/ \E u \in Users : Login(k, u)
                       \/ LoginAnswered(k) \/ LoginFails(k)
  \/ Logout \/ Mount \/ CheckAnswered \/ CheckFails \/ Reload

Spec == Init /\ [][Next]_vars

\* React mounts App; the browser settles every fetch one way or the other.
FairSpec ==
  /\ Spec
  /\ WF_vars(Mount)
  /\ WF_vars(CheckAnswered \/ CheckFails)
  /\ \A k \in Logins : WF_vars(LoginAnswered(k) \/ LoginFails(k))

-----------------------------------------------------------------------------
\* Types; and a check that waits has a token to check.
TypeOK ==
  /\ user \in Users \cup {None}
  /\ token \in Logins \cup {None}
  /\ isAuthenticated \in BOOLEAN
  /\ isLoading \in BOOLEAN
  /\ stored \in Persisted
  /\ login \in [Logins -> [who : Users \cup {None}, phase : {"idle", "asked", "done"}]]
  /\ checks \in 0 .. MountChecks
  /\ asked \in Logins \cup {None}
  /\ checks > 0 => asked # None
  /\ page \in {"boot", "up"}
  /\ reloads \in 0 .. MaxReloads
  /\ confirmed \subseteq Logins
  /\ signedOut \in BOOLEAN
  /\ late \subseteq Logins

\* User, token and flag always tell of the same session, in the store and in
\* the copy a reload starts from, although login, logout and checkAuth write
\* them around awaits (authStore.ts:52, 64, 72-81, 87).
OneSession ==
  /\ isAuthenticated <=> token # None
  /\ user = IF token = None THEN None ELSE login[token].who
  /\ stored = [user |-> user, token |-> token, isAuthenticated |-> isAuthenticated]

\* A protected page is shown only on a token the server has accepted since this
\* page was loaded: a persisted session is not believed before checkAuth's
\* answer (authStore.ts:44, 69; App.tsx:42; ProtectedRoute.tsx:8-9).
ShownWhenConfirmed ==
  ProtectedShown => token \in confirmed

\* The loading screen always goes away (App.tsx:42).
LoadingEnds == isLoading ~> ~isLoading

\* "Sign out this device" (pages/Security.tsx:1) lasts, through reloads too, until
\* the user begins to sign in again.  The one exception is a login or a
\* registration that was on its way at the time: its answer signs in whatever
\* happened meanwhile (authStore.ts:52, 64, 87).
SignOutLasts == (signedOut /\ isAuthenticated) => token \in late
=============================================================================
