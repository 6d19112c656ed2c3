--------------------------- MODULE AuthStoreProofs ---------------------------
(* Theorems about AuthStore for any logins, users and number of reloads, of *)
(* a build in which App's effect runs once per page load.  Under StrictMode *)
(* a second answer may follow a logout, and OneSession fails.               *)
EXTENDS AuthStore, TLAPS

USE StoreAssumption

\* The loading screen covers a page that has not asked or waits for its check:
\* no form is open then, and the token that was sent is the one in the store.
Covered ==
  /\ page = "boot" => isLoading
  /\ checks > 0 => checks = 1 /\ isLoading /\ page = "up" /\ asked = token
  /\ \A k \in Logins : login[k].phase = "asked" => page = "up" /\ ~isLoading

\* A token is of a login that is over, so its owner does not change.
OwnerKnown == token # None => login[token].phase = "done"

\* What is still on its way after a logout was so when it happened.
LateKnown ==
  signedOut => \A k \in Logins : login[k].phase = "asked" => k \in late

IInv ==
  /\ TypeOK /\ OneSession /\ ShownWhenConfirmed /\ SignOutLasts
  /\ Covered /\ OwnerKnown /\ LateKnown

LEMMA InitIInv == Init => IInv
<1> SUFFICES ASSUME Init PROVE IInv
  OBVIOUS
<1>1. \A k \in Logins : login[k] = [who |-> None, phase |-> "idle"]
  BY DEF Init
<1>2. TypeOK
  <2>1. checks \in 0 .. MountChecks /\ reloads \in 0 .. MaxReloads /\ ~(checks > 0)
    BY DEF Init
  <2>2. stored \in Persisted
    BY DEF Init, Partialize, Persisted
  <2>3. login \in [Logins -> [who : Users \cup {None}, phase : {"idle", "asked", "done"}]]
    BY DEF Init
  <2>4. QED
    BY <2>1, <2>2, <2>3 DEF Init, TypeOK, CreatedLoading
<1>3. OneSession /\ ShownWhenConfirmed /\ SignOutLasts
  BY DEF Init, OneSession, ShownWhenConfirmed, SignOutLasts, Partialize, ProtectedShown
<1>4. Covered /\ OwnerKnown /\ LateKnown
  BY <1>1 DEF Init, Covered, OwnerKnown, LateKnown, CreatedLoading
<1>5. QED
  BY <1>2, <1>3, <1>4 DEF IInv

\* The calls, one phase further.
LEMMA CallMoves ==
  ASSUME IInv, NEW k \in Logins, NEW u \in Users \cup {None},
         NEW p \in {"idle", "asked", "done"},
         login' = [login EXCEPT ![k] = [who |-> u, phase |-> p]]
  PROVE  /\ login' \in [Logins -> [who : Users \cup {None}, phase : {"idle", "asked", "done"}]]
         /\ login'[k].who = u /\ login'[k].phase = p
         /\ \A j \in Logins : j # k => login'[j] = login[j]
  BY DEF IInv, TypeOK

LEMMA LoginIInv == ASSUME IInv, NEW k \in Logins, NEW u \in Users, Login(k, u) PROVE IInv'
<1>1. /\ login[k].phase = "idle" /\ page = "up" /\ ~isLoading /\ signedOut' = FALSE
      /\ login' = [login EXCEPT ![k] = [who |-> u, phase |-> "asked"]]
      /\ UNCHANGED <<user, token, isAuthenticated, isLoading, stored, checks, asked,
                     page, reloads, confirmed, late>>
  BY DEF Login, PagesShown, storeVars, pageVars
<1>2. /\ login' \in [Logins -> [who : Users \cup {None}, phase : {"idle", "asked", "done"}]]
      /\ \A j \in Logins : j # k => login'[j] = login[j]
  BY <1>1, CallMoves
<1>3. token # None => token \in Logins /\ token # k
  BY <1>1 DEF IInv, TypeOK, OwnerKnown
<1>4. TypeOK'
  BY <1>1, <1>2 DEF IInv, TypeOK
<1>5. OneSession' /\ OwnerKnown'
  BY <1>1, <1>2, <1>3 DEF IInv, OneSession, OwnerKnown
<1>6. Covered' /\ LateKnown' /\ SignOutLasts' /\ ShownWhenConfirmed'
  BY <1>1, <1>2 DEF IInv, Covered, LateKnown, SignOutLasts, ShownWhenConfirmed,
     ProtectedShown, PagesShown
<1>7. QED
  BY <1>4, <1>5, <1>6 DEF IInv

\* Both ends of a login: the record of the call keeps its user.
LEMMA DoneIs ==
  ASSUME IInv, NEW k \in Logins, login' = [login EXCEPT ![k].phase = "done"]
  PROVE  \E u \in Users \cup {None} :
           u = login[k].who /\ login' = [login EXCEPT ![k] = [who |-> u, phase |-> "done"]]
<1>1. PICK x \in [who : Users \cup {None}, phase : {"idle", "asked", "done"}] : x = login[k]
  BY DEF IInv, TypeOK
<1>2. [x EXCEPT !.phase = "done"] = [who |-> x.who, phase |-> "done"]
  OBVIOUS
<1>3. login' = [login EXCEPT ![k] = [x EXCEPT !.phase = "done"]]
  BY <1>1
<1>4. QED
  BY <1>1, <1>2, <1>3

LEMMA AnsweredIInv == ASSUME IInv, NEW k \in Logins, LoginAnswered(k) PROVE IInv'
<1>1. PICK u \in Users \cup {None} :
        u = login[k].who /\ login' = [login EXCEPT ![k] = [who |-> u, phase |-> "done"]]
  BY DoneIs DEF LoginAnswered
<1>2. /\ login[k].phase = "asked" /\ confirmed' = confirmed \cup {k}
      /\ user' = u /\ token' = k /\ isAuthenticated' = TRUE /\ isLoading' = FALSE
      /\ stored' = [user |-> u, token |-> k, isAuthenticated |-> TRUE]
      /\ UNCHANGED <<checks, asked, page, reloads, signedOut, late>>
  BY <1>1 DEF LoginAnswered, Set, Partialize, pageVars
<1>3. /\ login' \in [Logins -> [who : Users \cup {None}, phase : {"idle", "asked", "done"}]]
      /\ login'[k].who = u /\ login'[k].phase = "done"
      /\ \A j \in Logins : j # k => login'[j] = login[j]
  BY <1>1, CallMoves
<1>4. page = "up" /\ ~isLoading /\ k # None /\ checks = 0
  BY <1>2 DEF IInv, TypeOK, Covered
<1>5. TypeOK'
  BY <1>2, <1>3, <1>4 DEF IInv, TypeOK, Persisted
<1>6. OneSession' /\ OwnerKnown' /\ ShownWhenConfirmed'
  BY <1>2, <1>3, <1>4 DEF OneSession, OwnerKnown, ShownWhenConfirmed
<1>7. Covered' /\ LateKnown' /\ SignOutLasts'
  BY <1>2, <1>3, <1>4 DEF IInv, Covered, LateKnown, SignOutLasts
<1>8. QED
  BY <1>5, <1>6, <1>7 DEF IInv

LEMMA FailsIInv == ASSUME IInv, NEW k \in Logins, LoginFails(k) PROVE IInv'
<1>1. PICK u \in Users \cup {None} :
        u = login[k].who /\ login' = [login EXCEPT ![k] = [who |-> u, phase |-> "done"]]
  BY DoneIs DEF LoginFails
<1>2. UNCHANGED <<user, token, isAuthenticated, isLoading, stored, checks, asked,
                  page, reloads, confirmed, signedOut, late>>
  BY DEF LoginFails, storeVars, pageVars, historyVars
<1>3. /\ login' \in [Logins -> [who : Users \cup {None}, phase : {"idle", "asked", "done"}]]
      /\ login'[k].who = login[k].who /\ login'[k].phase = "done"
      /\ \A j \in Logins : j # k => login'[j] = login[j]
  BY <1>1, CallMoves
<1>4. TypeOK'
  BY <1>2, <1>3 DEF IInv, TypeOK
<1>5. OneSession' /\ OwnerKnown' /\ ShownWhenConfirmed'
  BY <1>2, <1>3 DEF IInv, TypeOK, OneSession, OwnerKnown, ShownWhenConfirmed,
     ProtectedShown, PagesShown
<1>6. Covered' /\ LateKnown' /\ SignOutLasts'
  BY <1>2, <1>3 DEF IInv, Covered, LateKnown, SignOutLasts
<1>7. QED
  BY <1>4, <1>5, <1>6 DEF IInv

LEMMA LogoutIInv == ASSUME IInv, Logout PROVE IInv'
<1>1. /\ ~isLoading /\ isLoading' = FALSE
      /\ user' = None /\ token' = None /\ isAuthenticated' = FALSE
      /\ stored' = [user |-> None, token |-> None, isAuthenticated |-> FALSE]
      /\ late' = {k \in Logins : login[k].phase = "asked"} /\ signedOut' = TRUE
      /\ UNCHANGED <<login, checks, asked, page, reloads, confirmed>>
  BY DEF Logout, Set, Partialize, LoggedOutToken, ProtectedShown, PagesShown, callVars,
     pageVars, IInv, TypeOK
<1>2. TypeOK'
  BY <1>1 DEF IInv, TypeOK, Persisted
<1>3. QED
  BY <1>1, <1>2 DEF IInv, TypeOK, OneSession, ShownWhenConfirmed, SignOutLasts, Covered,
     OwnerKnown, LateKnown, ProtectedShown, PagesShown

LEMMA MountIInv == ASSUME MountChecks = 1, IInv, Mount PROVE IInv'
<1>1. /\ page = "boot" /\ page' = "up" /\ isLoading
      /\ UNCHANGED <<login, reloads, confirmed, signedOut, late>>
      /\ \A k \in Logins : login[k].phase # "asked"
  BY DEF Mount, historyVars, IInv, Covered
<1>2. checks = 0
  BY <1>1 DEF IInv, TypeOK, Covered
<1>3. CASE ~Asks
  <2>1. /\ token = None /\ token' = None /\ user' = None /\ isAuthenticated' = FALSE
        /\ isLoading' = FALSE /\ UNCHANGED <<checks, asked>>
        /\ stored' = [user |-> None, token |-> None, isAuthenticated |-> FALSE]
    BY <1>3 DEF Mount, Asks, Set, Partialize, NoTokenLoading
  <2>2. TypeOK'
    BY <1>1, <2>1 DEF IInv, TypeOK, Persisted
  <2>3. QED
    BY <1>1, <1>2, <2>1, <2>2 DEF IInv, OneSession, ShownWhenConfirmed, SignOutLasts,
       Covered, OwnerKnown, LateKnown, ProtectedShown, PagesShown
<1>4. CASE Asks
  <2>1. /\ token # None /\ checks' = 1 /\ asked' = token /\ isLoading' = TRUE
        /\ UNCHANGED <<user, token, isAuthenticated>>
        /\ stored' = [user |-> user, token |-> token, isAuthenticated |-> isAuthenticated]
    BY <1>4 DEF Mount, Asks, Set, Partialize
  <2>2. TypeOK'
    BY <1>1, <2>1 DEF IInv, TypeOK, Persisted
  <2>3. QED
    BY <1>1, <2>1, <2>2 DEF IInv, OneSession, ShownWhenConfirmed, SignOutLasts,
       Covered, OwnerKnown, LateKnown, ProtectedShown, PagesShown
<1>5. QED
  BY <1>3, <1>4

LEMMA CheckIInv == ASSUME IInv, CheckAnswered \/ CheckFails PROVE IInv'
<1>1. /\ checks = 1 /\ checks' = 0 /\ asked = token /\ token \in Logins
      /\ isLoading /\ page = "up"
      /\ UNCHANGED <<login, asked, page, reloads, signedOut, late>>
  <2>1. /\ checks > 0 /\ checks' = checks - 1
        /\ UNCHANGED <<login, asked, page, reloads, signedOut, late>>
    BY DEF CheckAnswered, CheckFails, pageVars, historyVars
  <2>2. checks = 1 /\ isLoading /\ page = "up" /\ asked = token
    BY <2>1 DEF IInv, Covered
  <2>3. token \in Logins
    BY <2>1, <2>2 DEF IInv, TypeOK
  <2>4. QED
    BY <2>1, <2>2, <2>3
<1>2. /\ login[token] \in [who : Users \cup {None}, phase : {"idle", "asked", "done"}]
      /\ token # None /\ isAuthenticated /\ user = login[token].who
      /\ \A k \in Logins : login[k].phase # "asked"
  BY <1>1 DEF IInv, TypeOK, OneSession, Covered
<1>3. CASE CheckAnswered
  <2>1. /\ user' = user /\ token' = token /\ isAuthenticated' = TRUE /\ isLoading' = FALSE
        /\ stored' = [user |-> user, token |-> token, isAuthenticated |-> TRUE]
        /\ confirmed' = confirmed \cup {token}
    BY <1>1, <1>2, <1>3 DEF CheckAnswered, Set, Partialize
  <2>2. TypeOK'
    <3>1. checks' \in 0 .. MountChecks /\ ~(checks' > 0)
      BY <1>1
    <3>2. stored' \in Persisted
      BY <1>1, <2>1 DEF IInv, TypeOK, Persisted
    <3>3. QED
      BY <1>1, <2>1, <3>1, <3>2 DEF IInv, TypeOK
  <2>3. QED
    BY <1>1, <1>2, <2>1, <2>2 DEF IInv, OneSession, ShownWhenConfirmed, SignOutLasts,
       Covered, OwnerKnown, LateKnown
<1>4. CASE CheckFails
  <2>1. /\ user' = None /\ token' = None /\ isAuthenticated' = FALSE /\ isLoading' = FALSE
        /\ stored' = [user |-> None, token |-> None, isAuthenticated |-> FALSE]
        /\ confirmed' = confirmed
    BY <1>4 DEF CheckFails, Set, Partialize, historyVars
  <2>2. TypeOK'
    <3>1. checks' \in 0 .. MountChecks /\ ~(checks' > 0)
      BY <1>1
    <3>2. stored' \in Persisted
      BY <2>1 DEF Persisted
    <3>3. QED
      BY <1>1, <2>1, <3>1, <3>2 DEF IInv, TypeOK
  <2>3. OneSession' /\ ShownWhenConfirmed' /\ SignOutLasts' /\ OwnerKnown'
    BY <2>1 DEF OneSession, ShownWhenConfirmed, SignOutLasts, OwnerKnown, ProtectedShown
  <2>4. Covered' /\ LateKnown'
    BY <1>1, <1>2, <2>1 DEF Covered, LateKnown
  <2>5. QED
    BY <2>2, <2>3, <2>4 DEF IInv
<1>5. QED
  BY <1>3, <1>4

\* A reload restores the copy, which is that of the session in memory.
LEMMA ReloadIInv == ASSUME IInv, Reload PROVE IInv'
<1>1. /\ page' = "boot" /\ isLoading' = TRUE /\ checks' = 0 /\ asked' = None
      /\ reloads < MaxReloads /\ reloads' = reloads + 1
      /\ UNCHANGED <<user, token, isAuthenticated, stored, signedOut, late>>
      /\ confirmed' = {}
  BY DEF Reload, CreatedLoading, IInv, OneSession
<1>2. ASSUME NEW k \in Logins
      PROVE  /\ login'[k] \in [who : Users \cup {None}, phase : {"idle", "asked", "done"}]
             /\ login'[k].who = login[k].who /\ login'[k].phase # "asked"
             /\ login[k].phase = "done" => login'[k].phase = "done"
  <2>1. PICK x \in [who : Users \cup {None}, phase : {"idle", "asked", "done"}] : x = login[k]
    BY DEF IInv, TypeOK
  <2>2. login'[k] = IF x.phase = "asked" THEN [x EXCEPT !.phase = "done"] ELSE x
    BY <2>1 DEF Reload
  <2>3. [x EXCEPT !.phase = "done"] = [who |-> x.who, phase |-> "done"]
    OBVIOUS
  <2>4. QED
    BY <2>1, <2>2, <2>3
<1>3. login' \in [Logins -> [who : Users \cup {None}, phase : {"idle", "asked", "done"}]]
  <2>1. PICK f : f = [k \in Logins |->
                       IF login[k].phase = "asked" THEN [login[k] EXCEPT !.phase = "done"]
                       ELSE login[k]]
    OBVIOUS
  <2>2. login' = f
    BY <2>1 DEF Reload
  <2>3. \A k \in Logins : f[k] \in [who : Users \cup {None}, phase : {"idle", "asked", "done"}]
    BY <1>2, <2>2
  <2>4. QED
    BY <2>1, <2>2, <2>3
<1>4. TypeOK'
  BY <1>1, <1>3 DEF IInv, TypeOK
<1>5. OneSession' /\ OwnerKnown'
  BY <1>1, <1>2 DEF IInv, TypeOK, OneSession, OwnerKnown
<1>6. Covered' /\ LateKnown' /\ SignOutLasts' /\ ShownWhenConfirmed'
  BY <1>1, <1>2 DEF IInv, Covered, LateKnown, SignOutLasts, ShownWhenConfirmed,
     ProtectedShown, PagesShown
<1>7. QED
  BY <1>4, <1>5, <1>6 DEF IInv

LEMMA AlwaysIInv == ASSUME MountChecks = 1 PROVE Spec => []IInv
<1>1. IInv /\ [Next]_vars => IInv'
  <2> SUFFICES ASSUME IInv, [Next]_vars PROVE IInv'
    OBVIOUS
  <2>1. CASE UNCHANGED vars
    BY <2>1 DEF vars, storeVars, callVars, pageVars, historyVars, IInv, TypeOK, OneSession,
       ShownWhenConfirmed, SignOutLasts, Covered, OwnerKnown, LateKnown, ProtectedShown,
       PagesShown
  <2>2. QED
    BY <2>1, LoginIInv, AnsweredIInv, FailsIInv, LogoutIInv, MountIInv, CheckIInv, ReloadIInv
       DEF Next
<1>2. QED
  BY <1>1, InitIInv, PTL DEF Spec

-----------------------------------------------------------------------------
\* authStore.ts:39-45: the members of the store and the answers asked for keep
\* their types.
THEOREM SessionTypes == ASSUME MountChecks = 1 PROVE Spec => []TypeOK
<1>1. IInv => TypeOK
  BY DEF IInv
<1>2. QED
  BY <1>1, AlwaysIInv, PTL

\* authStore.ts:52, 64, 72-81, 87: memory and storage tell of one session, over
\* any number of logins and reloads, if App's effect runs once per page load.
THEOREM OneSessionHolds == ASSUME MountChecks = 1 PROVE Spec => []OneSession
<1>1. IInv => OneSession
  BY DEF IInv
<1>2. QED
  BY <1>1, AlwaysIInv, PTL

\* authStore.ts:44, 69 and ProtectedRoute.tsx:8-9: nothing protected is shown on
\* a token the server has not accepted since the page was loaded.
THEOREM ShownIsConfirmed == ASSUME MountChecks = 1 PROVE Spec => []ShownWhenConfirmed
<1>1. IInv => ShownWhenConfirmed
  BY DEF IInv
<1>2. QED
  BY <1>1, AlwaysIInv, PTL

\* authStore.ts:52, 64: after a logout only a login that was on its way then can
\* sign the user in again.
THEOREM SignOutIsKept == ASSUME MountChecks = 1 PROVE Spec => []SignOutLasts
<1>1. IInv => SignOutLasts
  BY DEF IInv
<1>2. QED
  BY <1>1, AlwaysIInv, PTL
===============================================================================
