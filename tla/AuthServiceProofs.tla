-------------------------- MODULE AuthServiceProofs --------------------------
(* Theorems about AuthService for any requests, accounts and passwords: its *)
(* tokens first, then what it leaves in the users table.                    *)
EXTENDS AuthService, TLAPS

USE AuthAssumption

Dead == {"revoked", "removed"}

\* What the code of each handler knows at its next step: the argument checks
\* it has made and the row it has read.
Locals(r) ==
  /\ pc[r] = "create" => /\ ctx[r].op = "register"
                         /\ ctx[r].account \in Accounts
                         /\ ctx[r].password \in Passwords
  /\ pc[r] = "key" => ctx[r].op = "register"
  /\ pc[r] = "seen" => ctx[r].op = "login"
  /\ pc[r] = "password" => ctx[r].password \in Passwords
  /\ pc[r] \in {"remove", "revoke", "logout"} =>
       ctx[r].target \in Tokens /\ token[ctx[r].target] # "none"
  /\ (pc[r] = "tokens" /\ ctx[r].op = "refresh") =>
       ctx[r].target \in Tokens /\ token[ctx[r].target] \in Dead

\* A request that has not reached generateTokens has issued nothing.
Fresh(r) ==
  pc[r] \in {"idle", "create", "key", "seen", "remove", "revoke", "tokens"} => token[r] = "none"

\* ParentSpent, with the fact that the token paid with is one.
Spent(r) ==
  (ctx[r].op = "refresh" /\ token[r] # "none") =>
    ctx[r].target \in Tokens /\ token[ctx[r].target] \in Dead

IInv == TypeOK /\ \A r \in Requests : Locals(r) /\ Fresh(r) /\ Spent(r)

\* The initial state has the types and no request under way.
LEMMA InitIInv == Init => IInv
<1> SUFFICES ASSUME Init PROVE IInv
  OBVIOUS
<1>1. TypeOK
  <2>1. /\ hash \in [Accounts -> Hash]
        /\ key \in [Accounts -> Passwords \cup {None}]
    BY DEF Init, Hash
  <2>2. /\ token \in [Tokens -> {"none", "live", "revoked", "removed"}]
        /\ owner \in [Tokens -> Accounts \cup {None}]
    BY DEF Init
  <2>3. /\ ctx \in [Requests -> Ctx]
        /\ profile \in [Accounts -> Profile] /\ last = profile /\ behind \subseteq Requests
    BY DEF Init, Ctx, Call, Ops, NewProfile, Profile
  <2>4. /\ pc \in [Requests -> Steps]
        /\ reset \in [Requests -> {"none", "open", "used"}]
    BY DEF Init, Steps
  <2>5. QED
    BY <2>1, <2>2, <2>3, <2>4 DEF TypeOK, Init
<1>2. ASSUME NEW r \in Requests PROVE Locals(r) /\ Fresh(r) /\ Spent(r)
  BY DEF Init, Locals, Fresh, Spent, Tokens, Call
<1>3. QED
  BY <1>1, <1>2 DEF IInv

\* A handler that starts: only its own step and locals change.
LEMMA BeginIInv ==
  ASSUME IInv, NEW r \in Requests, NEW call \in Ctx, NEW step \in Steps,
         Begin(r, call, step),
         UNCHANGED <<userVars, tokenVars, expired, reset>>,
         step = "create" => /\ call.op = "register"
                            /\ call.account \in Accounts
                            /\ call.password \in Passwords,
         step # "key",
         step = "seen" => call.op = "login",
         step = "password" => call.password \in Passwords,
         step \in {"remove", "revoke", "logout"} =>
           call.target \in Tokens /\ token[call.target] # "none",
         step = "tokens" => call.op # "refresh"
  PROVE  IInv'
<1>1. TypeOK'
  BY DEF IInv, TypeOK, Begin, userVars, profileVars, tokenVars
<1>2. ASSUME NEW q \in Requests PROVE (Locals(q) /\ Fresh(q) /\ Spent(q))'
  <2>1. CASE q = r
    BY <2>1 DEF IInv, TypeOK, Begin, tokenVars, Locals, Fresh, Spent
  <2>2. CASE q # r
    <3>1. pc'[q] = pc[q] /\ ctx'[q] = ctx[q] /\ token' = token
      BY <2>2 DEF IInv, TypeOK, Begin, tokenVars
    <3>2. QED
      BY <3>1 DEF IInv, Locals, Fresh, Spent
  <2>3. QED
    BY <2>1, <2>2
<1>3. QED
  BY <1>1, <1>2 DEF IInv

\* The records the handlers begin with have the type of the locals.
LEMMA CallType ==
  ASSUME NEW op \in Ops, NEW a \in Accounts \cup {None},
         NEW p \in Passwords \cup {None}, NEW t \in Tokens \cup {None}
  PROVE  /\ Call(op, a, p, t) \in Ctx
         /\ Call(op, a, p, t).op = op
         /\ Call(op, a, p, t).account = a
         /\ Call(op, a, p, t).password = p
         /\ Call(op, a, p, t).target = t
  BY DEF Call, Ctx, NewProfile, Profile

\* Every first step of a handler.
LEMMA StartIInv == ASSUME IInv, NEW r \in Requests, Start(r) PROVE IInv'
<1>1. ASSUME NEW a \in Accounts, NEW p \in Passwords, Register(r, a, p) PROVE IInv'
  <2>1. Call("register", a, p, None) \in Ctx
    BY CallType DEF Ops
  <2>2. QED
    BY <1>1, <2>1, BeginIInv, CallType DEF Register, Steps, Ops
<1>2. ASSUME NEW a \in Accounts, NEW p \in Passwords, Login(r, a, p) PROVE IInv'
  <2> DEFINE call == [Call("login", a, p, None) EXCEPT !.key = key[a], !.by = hash[a].by]
  <2>1. call \in Ctx /\ call.op = "login"
    BY DEF IInv, TypeOK, Hash, Call, Ctx, Ops, NewProfile, Profile
  <2> HIDE DEF call
  <2>2. \E step \in {"seen", "failed"} : Begin(r, call, step)
    BY <1>2 DEF Login, call
  <2>3. UNCHANGED <<userVars, tokenVars, expired, reset>>
    BY <1>2 DEF Login
  <2>4. QED
    BY <2>1, <2>2, <2>3, BeginIInv DEF Steps
<1>3. ASSUME NEW t \in Tokens, Refresh(r, t) PROVE IInv'
  <2> DEFINE call == Call("refresh", owner[t], None, t)
  <2>1. owner[t] \in Accounts \cup {None}
    BY DEF IInv, TypeOK
  <2>2. /\ call \in Ctx
        /\ call.op = "refresh"
        /\ call.target = t
    BY <2>1, CallType DEF Ops
  <2> HIDE DEF call
  <2>3. \E step \in {"failed", "remove", "revoke"} : Begin(r, call, step)
    BY <1>3 DEF Refresh, Held, call, IInv, TypeOK
  <2>4. token[t] # "none" /\ UNCHANGED <<userVars, tokenVars, expired, reset>>
    BY <1>3 DEF Refresh, Held
  <2>5. QED
    BY <2>2, <2>3, <2>4, BeginIInv DEF Steps
<1>4. ASSUME NEW t \in Tokens, NEW a \in Accounts, Logout(r, a, t) PROVE IInv'
  <2> DEFINE call == Call("logout", a, None, t)
  <2>1. /\ call \in Ctx
        /\ call.op = "logout"
        /\ call.target = t
    BY CallType DEF Ops
  <2> HIDE DEF call
  <2>2. \E step \in {"logout", "ok"} : Begin(r, call, step)
    BY <1>4 DEF Logout, call
  <2>3. token[t] # "none" /\ UNCHANGED <<userVars, tokenVars, expired, reset>>
    BY <1>4 DEF Logout, Held
  <2>4. QED
    BY <2>1, <2>2, <2>3, BeginIInv DEF Steps
<1>5. ASSUME NEW a \in Accounts, ChangePassword(r, a) PROVE IInv'
  <2>1. Call("change", a, None, None) \in Ctx
    BY CallType DEF Ops
  <2>2. QED
    BY <1>5, <2>1, BeginIInv DEF ChangePassword, Steps
<1>6. ASSUME NEW a \in Accounts, ForgotPassword(r, a) PROVE IInv'
  <2>1. Call("forgot", a, None, None) \in Ctx
    BY CallType DEF Ops
  <2>2. QED
    BY <1>6, <2>1, BeginIInv DEF ForgotPassword, Steps
<1>7. ASSUME NEW x \in Requests, NEW p \in Passwords, ResetPassword(r, x, p) PROVE IInv'
  <2> DEFINE call == Call("reset", ctx[x].account, p, x)
  <2>1. ctx[x].account \in Accounts \cup {None} /\ x \in Tokens
    BY DEF IInv, TypeOK, Ctx, Tokens
  <2>2. call \in Ctx /\ call.password = p
    BY <2>1, CallType DEF Ops
  <2> HIDE DEF call
  <2>3. \E step \in {"password", "failed"} : Begin(r, call, step)
    BY <1>7 DEF ResetPassword, call
  <2>4. UNCHANGED <<userVars, tokenVars, expired, reset>>
    BY <1>7 DEF ResetPassword
  <2>5. QED
    BY <2>2, <2>3, <2>4, BeginIInv DEF Steps
<1>8. ASSUME NEW a \in Accounts, NEW avatar \in BOOLEAN, UpdateProfile(r, a, avatar)
      PROVE  IInv'
  <2> DEFINE t == IF avatar THEN r ELSE None
             call == [Call("profile", a, None, t) EXCEPT
                       !.row = Assigned(r, profile[a], avatar), !.by = hash[a].by]
  <2>1. Assigned(r, profile[a], avatar) \in Profile
    BY DEF IInv, TypeOK, Assigned, Profile
  <2>2. t \in Tokens \cup {None} /\ hash[a].by \in Requests \cup {None}
    BY DEF Tokens, IInv, TypeOK, Hash
  <2>3. call \in Ctx
    BY <2>1, <2>2 DEF Call, Ctx, Ops
  <2> HIDE DEF call
  <2>4. \E step \in {"save", "failed"} : Begin(r, call, step)
    BY <1>8 DEF UpdateProfile, call
  <2>5. UNCHANGED <<userVars, tokenVars, expired, reset>>
    BY <1>8 DEF UpdateProfile
  <2>6. QED
    BY <2>3, <2>4, <2>5, BeginIInv DEF Steps
<1>9. QED
  BY <1>1, <1>2, <1>3, <1>4, <1>5, <1>6, <1>7, <1>8 DEF Start

\* A step that leaves the tokens alone and moves r on, past generateTokens or
\* along register.
LEMMA QuietIInv ==
  ASSUME IInv, NEW r \in Requests, NEW from \in Steps, NEW to \in Steps,
         Goto(r, from, to), token' = token, TypeOK',
         to \in {"key", "tokens", "mail", "row", "used", "revokeAll"} \cup Ended,
         to = "key" => from = "create",
         to = "tokens" => from \in {"key", "seen"}
  PROVE  IInv'
<1>1. ASSUME NEW q \in Requests PROVE (Locals(q) /\ Fresh(q) /\ Spent(q))'
  <2>1. CASE q = r
    BY <2>1 DEF IInv, TypeOK, Goto, Ended, Locals, Fresh, Spent
  <2>2. CASE q # r
    <3>1. pc'[q] = pc[q] /\ ctx'[q] = ctx[q]
      BY <2>2 DEF IInv, TypeOK, Goto
    <3>2. QED
      BY <3>1 DEF IInv, Locals, Fresh, Spent
  <2>3. QED
    BY <2>1, <2>2
<1>2. QED
  BY <1>1 DEF IInv

\* A step that kills tokens which exist, and ends or moves on.
LEMMA KillIInv ==
  ASSUME IInv, NEW r \in Requests, NEW from \in Steps, NEW to \in Steps,
         Goto(r, from, to), TypeOK',
         \A t \in Tokens : token'[t] = token[t] \/ (token[t] # "none" /\ token'[t] \in Dead),
         to \in {"tokens"} \cup Ended,
         to = "tokens" => from = "revoke" /\ token'[ctx[r].target] \in Dead
  PROVE  IInv'
<1>1. ASSUME NEW q \in Requests PROVE (Locals(q) /\ Fresh(q) /\ Spent(q))'
  <2>1. \A t \in Tokens : /\ token[t] \in Dead => token'[t] \in Dead
                          /\ token[t] # "none" => token'[t] # "none"
                          /\ token[t] = "none" => token'[t] = "none"
    BY DEF Dead
  <2>2. q \in Tokens
    BY DEF Tokens
  <2>3. CASE q = r
    BY <2>1, <2>2, <2>3 DEF IInv, TypeOK, Goto, Ended, Locals, Fresh, Spent
  <2>4. CASE q # r
    <3>1. pc'[q] = pc[q] /\ ctx'[q] = ctx[q]
      BY <2>4 DEF IInv, TypeOK, Goto
    <3>2. QED
      BY <2>1, <2>2, <3>1 DEF IInv, Locals, Fresh, Spent
  <2>5. QED
    BY <2>3, <2>4
<1>2. QED
  BY <1>1 DEF IInv
\* Every later step of a handler.
LEMMA ContinueIInv == ASSUME IInv, NEW r \in Requests, Continue(r) PROVE IInv'
<1> USE DEF userVars, profileVars, tokenVars
<1>1. CASE CreateUser(r)
  <2>1. CASE ctx[r].account \in users
    <3>1. Goto(r, "create", "failed") /\ token' = token
      BY <1>1, <2>1 DEF CreateUser, Taken
    <3>2. TypeOK'
      BY <1>1, <2>1 DEF CreateUser, Taken, Goto, IInv, TypeOK, Steps
    <3>3. QED
      BY <3>1, <3>2, QuietIInv DEF Steps, Ended
  <2>2. CASE ctx[r].account \notin users
    <3>1. Goto(r, "create", "key") /\ token' = token
      BY <1>1, <2>2 DEF CreateUser, Taken
    <3>2. ctx[r].account \in Accounts /\ ctx[r].password \in Passwords
      BY <3>1 DEF Goto, IInv, Locals
    <3>3. [pw |-> ctx[r].password, rounds |-> 2, by |-> r] \in Hash
      BY <3>2 DEF Hash
    <3>4. TypeOK'
      BY <1>1, <2>2, <3>2, <3>3 DEF CreateUser, Taken, Goto, IInv, TypeOK, Steps
    <3>5. QED
      BY <3>1, <3>4, QuietIInv DEF Steps, Ended
  <2>3. QED
    BY <2>1, <2>2
<1>2. CASE StoreKey(r)
  <2>1. Goto(r, "key", "tokens") /\ token' = token
    BY <1>2 DEF StoreKey
  <2>2. ctx[r].password \in Passwords \cup {None}
    BY DEF IInv, TypeOK, Ctx
  <2>3. TypeOK'
    BY <1>2, <2>2 DEF StoreKey, Goto, IInv, TypeOK, Steps
  <2>4. QED
    BY <2>1, <2>3, QuietIInv DEF Steps
<1>3. CASE GenerateTokens(r)
  <2>1. PICK to \in {"mail", "decrypt", "ok"} : Goto(r, "tokens", to)
    BY <1>3 DEF GenerateTokens
  <2>2. ctx[r].account \in Accounts \cup {None}
    BY DEF IInv, TypeOK, Ctx
  <2>3. TypeOK'
    BY <1>3, <2>1, <2>2 DEF GenerateTokens, Goto, IInv, TypeOK, Steps
  <2>4. r \in Tokens /\ token[r] = "none"
    BY <2>1 DEF Tokens, Goto, IInv, Fresh
  <2>5. \A t \in Tokens : t # r => token'[t] = token[t]
    BY <1>3 DEF GenerateTokens, IInv, TypeOK
  <2>6. ASSUME NEW q \in Requests PROVE (Locals(q) /\ Fresh(q) /\ Spent(q))'
    <3>1. CASE q = r
      BY <2>1, <2>4, <2>5, <3>1 DEF IInv, TypeOK, Goto, Locals, Fresh, Spent, Dead
    <3>2. CASE q # r
      <4>1. pc'[q] = pc[q] /\ ctx'[q] = ctx[q] /\ q \in Tokens
        BY <2>1, <3>2 DEF IInv, TypeOK, Goto, Tokens
      <4>2. \A t \in Tokens : token[t] # "none" => token'[t] = token[t]
        BY <2>4, <2>5
      <4>3. token'[q] = token[q]
        BY <2>5, <3>2, <4>1
      <4>4. QED
        BY <4>1, <4>2, <4>3 DEF IInv, Locals, Fresh, Spent, Dead
    <3>3. QED
      BY <3>1, <3>2
  <2>7. QED
    BY <2>3, <2>6 DEF IInv
<1>4. CASE SendMail(r)
  <2>1. TypeOK'
    BY <1>4 DEF SendMail, Goto, IInv, TypeOK, Steps
  <2>2. QED
    BY <1>4, <2>1, QuietIInv DEF SendMail, Steps, Ended
<1>5. CASE DecryptKey(r)
  <2>1. PICK to \in {"ok", "failed"} : Goto(r, "decrypt", to)
    BY <1>5 DEF DecryptKey
  <2>2. TypeOK'
    BY <1>5, <2>1 DEF DecryptKey, Goto, IInv, TypeOK, Steps
  <2>3. QED
    BY <1>5, <2>1, <2>2, QuietIInv DEF DecryptKey, Steps, Ended
<1>6. CASE RemoveExpired(r)
  <2>1. TypeOK'
    BY <1>6 DEF RemoveExpired, Goto, IInv, TypeOK, Steps
  <2>2. token[ctx[r].target] # "none"
    BY <1>6 DEF RemoveExpired, Goto, IInv, Locals
  <2>3. \A t \in Tokens : token'[t] = token[t] \/ (token[t] # "none" /\ token'[t] \in Dead)
    BY <1>6, <2>2 DEF RemoveExpired, IInv, TypeOK, Dead
  <2>4. QED
    BY <1>6, <2>1, <2>3, KillIInv DEF RemoveExpired, Steps, Ended
<1>7. CASE RevokeOld(r)
  <2>1. TypeOK'
    BY <1>7 DEF RevokeOld, CopySaved, Goto, IInv, TypeOK, Steps
  <2>2. ctx[r].target \in Tokens /\ token[ctx[r].target] # "none"
    BY <1>7 DEF RevokeOld, Goto, IInv, Locals
  <2>3. /\ \A t \in Tokens : token'[t] = token[t] \/ (token[t] # "none" /\ token'[t] \in Dead)
        /\ token'[ctx[r].target] \in Dead
    BY <1>7, <2>2 DEF RevokeOld, CopySaved, IInv, TypeOK, Dead
  <2>4. QED
    BY <1>7, <2>1, <2>3, KillIInv DEF RevokeOld, Steps
<1>8. CASE RevokeOnLogout(r)
  <2>1. TypeOK'
    BY <1>8 DEF RevokeOnLogout, CopySaved, Goto, IInv, TypeOK, Steps
  <2>2. ctx[r].target \in Tokens /\ token[ctx[r].target] # "none"
    BY <1>8 DEF RevokeOnLogout, Goto, IInv, Locals
  <2>3. \A t \in Tokens : token'[t] = token[t] \/ (token[t] # "none" /\ token'[t] \in Dead)
    BY <1>8, <2>2 DEF RevokeOnLogout, CopySaved, IInv, TypeOK, Dead
  <2>4. QED
    BY <1>8, <2>1, <2>3, KillIInv DEF RevokeOnLogout, Steps, Ended
<1>9. CASE SaveReset(r)
  <2>1. TypeOK'
    BY <1>9 DEF SaveReset, Goto, IInv, TypeOK, Steps
  <2>2. QED
    BY <1>9, <2>1, QuietIInv DEF SaveReset, Steps
<1>10. CASE UpdatePassword(r)
  <2>1. ctx[r].password \in Passwords
    BY <1>10 DEF UpdatePassword, Goto, IInv, Locals
  <2>2. [pw |-> ctx[r].password, rounds |-> 1, by |-> r] \in Hash
    BY <2>1 DEF Hash
  <2>3. TypeOK'
    BY <1>10, <2>2 DEF UpdatePassword, Goto, IInv, TypeOK, Steps
  <2>4. QED
    BY <1>10, <2>3, QuietIInv DEF UpdatePassword, Steps
<1>11. CASE MarkUsed(r)
  <2>1. TypeOK'
    BY <1>11 DEF MarkUsed, Goto, IInv, TypeOK, Steps
  <2>2. QED
    BY <1>11, <2>1, QuietIInv DEF MarkUsed, Steps
<1>12. CASE RevokeAll(r)
  <2>1. TypeOK'
    BY <1>12 DEF RevokeAll, Goto, IInv, TypeOK, Steps
  <2>2. \A t \in Tokens : token'[t] = token[t] \/ (token[t] # "none" /\ token'[t] \in Dead)
    BY <1>12 DEF RevokeAll, Dead
  <2>3. QED
    BY <1>12, <2>1, <2>2, KillIInv DEF RevokeAll, Steps, Ended
<1>13. CASE UpdateLastLogin(r)
  <2>1. /\ profile' \in [Accounts -> Profile] /\ last' \in [Accounts -> Profile]
        /\ behind' \subseteq Requests
    BY <1>13 DEF UpdateLastLogin, Overtake, IInv, TypeOK, Profile, Fields
  <2>2. TypeOK'
    BY <1>13, <2>1 DEF UpdateLastLogin, Goto, IInv, TypeOK, Steps
  <2>3. Goto(r, "seen", "tokens") /\ token' = token
    BY <1>13 DEF UpdateLastLogin
  <2>4. QED
    BY <2>2, <2>3, QuietIInv DEF Steps
<1>14. CASE SaveProfile(r)
  <2>1. ctx[r].row \in Profile
    BY DEF IInv, TypeOK, Ctx
  <2>2. /\ profile' \in [Accounts -> Profile] /\ last' \in [Accounts -> Profile]
        /\ behind' \subseteq Requests /\ hash' = hash
    BY <1>14, <2>1 DEF SaveProfile, HashAfterSave, Overtake, IInv, TypeOK, Profile, Fields
  <2>3. TypeOK'
    BY <1>14, <2>2 DEF SaveProfile, Goto, IInv, TypeOK, Steps
  <2>4. Goto(r, "save", "ok") /\ token' = token
    BY <1>14 DEF SaveProfile
  <2>5. QED
    BY <2>3, <2>4, QuietIInv DEF Steps, Ended
<1>15. QED
  BY <1>1, <1>2, <1>3, <1>4, <1>5, <1>6, <1>7, <1>8, <1>9, <1>10, <1>11, <1>12,
     <1>13, <1>14 DEF Continue

\* IInv is inductive.
LEMMA NextIInv == IInv /\ [Next]_vars => IInv'
<1> SUFFICES ASSUME IInv, [Next]_vars PROVE IInv'
  OBVIOUS
<1>1. ASSUME NEW r \in Requests, DbFails(r) PROVE IInv'
  <2>1. TypeOK'
    BY <1>1 DEF DbFails, IInv, TypeOK, Steps, userVars, profileVars, tokenVars
  <2>2. ASSUME NEW q \in Requests PROVE (Locals(q) /\ Fresh(q) /\ Spent(q))'
    BY <1>1 DEF DbFails, IInv, TypeOK, tokenVars, Locals, Fresh, Spent
  <2>3. QED
    BY <2>1, <2>2 DEF IInv
<1>2. ASSUME NEW t \in Tokens, Expire(t) PROVE IInv'
  BY <1>2 DEF Expire, IInv, TypeOK, userVars, profileVars, tokenVars, Locals, Fresh, Spent
<1>3. CASE UNCHANGED vars
  BY <1>3 DEF vars, IInv, TypeOK, userVars, profileVars, tokenVars, Locals, Fresh, Spent
<1>4. QED
  BY <1>1, <1>2, <1>3, StartIInv, ContinueIInv DEF Next

LEMMA Inductive == Spec => []IInv
  BY InitIInv, NextIInv, PTL DEF Spec

\* The types of the tables and of the requests' locals.
THEOREM TypeCorrect == Spec => []TypeOK
<1>1. IInv => TypeOK
  BY DEF IInv
<1>2. QED
  BY Inductive, <1>1, PTL

\* A token is paid for with a dead one, for any number of racing requests.
THEOREM ParentSpentHolds == Spec => []ParentSpent
<1>1. IInv => ParentSpent
  BY DEF IInv, Spent, ParentSpent, Dead
<1>2. QED
  BY Inductive, <1>1, PTL

\* A step that only kills tokens, and one that issues one.
KillStep ==
  /\ \A t \in Tokens : token'[t] = token[t] \/ (token[t] # "none" /\ token'[t] \in Dead)
  /\ \A r \in Requests : token[r] # "none" => ctx'[r] = ctx[r]

IssueStep(r) ==
  /\ pc[r] = "tokens"
  /\ token' = [token EXCEPT ![r] = "live"]
  /\ ctx' = ctx

\* Every step of the service is one or the other.
LEMMA TokenStep ==
  ASSUME IInv, [Next]_vars PROVE KillStep \/ \E r \in Requests : IssueStep(r)
<1> USE DEF userVars, tokenVars
<1>1. ASSUME NEW r \in Requests, Start(r) PROVE KillStep
  <2>1. token' = token
    BY <1>1 DEF Start, Register, Login, Refresh, Logout, ChangePassword,
                ForgotPassword, ResetPassword, UpdateProfile
  <2>2. pc[r] = "idle" /\ \E call : ctx' = [ctx EXCEPT ![r] = call]
    BY <1>1 DEF Start, Register, Login, Refresh, Logout, ChangePassword,
                ForgotPassword, ResetPassword, UpdateProfile, Begin
  <2>3. token[r] = "none"
    BY <2>2 DEF IInv, Fresh
  <2>4. QED
    BY <2>1, <2>2, <2>3 DEF KillStep, IInv, TypeOK
<1>2. ASSUME NEW r \in Requests, Continue(r) PROVE KillStep \/ IssueStep(r)
  <2>1. CASE GenerateTokens(r)
    BY <2>1 DEF GenerateTokens, Goto, IssueStep
  <2>2. CASE \/ CreateUser(r) \/ StoreKey(r) \/ SendMail(r) \/ DecryptKey(r)
             \/ SaveReset(r) \/ UpdatePassword(r) \/ MarkUsed(r)
             \/ UpdateLastLogin(r) \/ SaveProfile(r)
    BY <2>2 DEF CreateUser, StoreKey, SendMail, DecryptKey, SaveReset,
                UpdatePassword, MarkUsed, UpdateLastLogin, SaveProfile, Goto, KillStep
  <2>3. CASE RemoveExpired(r)
    BY <2>3 DEF RemoveExpired, Goto, KillStep, IInv, TypeOK, Locals, Dead
  <2>4. CASE RevokeOld(r)
    BY <2>4 DEF RevokeOld, CopySaved, Goto, KillStep, IInv, TypeOK, Locals, Dead
  <2>5. CASE RevokeOnLogout(r)
    BY <2>5 DEF RevokeOnLogout, CopySaved, Goto, KillStep, IInv, TypeOK, Locals, Dead
  <2>6. CASE RevokeAll(r)
    BY <2>6 DEF RevokeAll, Goto, KillStep, Dead
  <2>7. QED
    BY <1>2, <2>1, <2>2, <2>3, <2>4, <2>5, <2>6 DEF Continue
<1>3. ASSUME NEW r \in Requests, DbFails(r) PROVE KillStep
  BY <1>3 DEF DbFails, KillStep
<1>4. ASSUME NEW t \in Tokens, Expire(t) PROVE KillStep
  BY <1>4 DEF Expire, KillStep
<1>5. CASE UNCHANGED vars
  BY <1>5 DEF vars, KillStep
<1>6. QED
  BY <1>1, <1>2, <1>3, <1>4, <1>5 DEF Next

\* A token that was revoked or removed is never accepted again.
THEOREM DeadStaysDeadHolds == Spec => DeadStaysDead
<1> DEFINE Stays == \A t \in Tokens : token[t] \in {"revoked", "removed"} =>
                                      token'[t] \in {"revoked", "removed"}
<1>1. IInv /\ [Next]_vars => [Stays]_vars
  <2> SUFFICES ASSUME IInv, [Next]_vars PROVE Stays
    OBVIOUS
  <2>1. CASE KillStep
    BY <2>1 DEF KillStep, Dead
  <2>2. ASSUME NEW r \in Requests, IssueStep(r) PROVE Stays
    <3>1. token[r] = "none" /\ r \in Tokens
      BY <2>2 DEF IssueStep, IInv, Fresh, Tokens
    <3>2. QED
      BY <2>2, <3>1 DEF IssueStep, IInv, TypeOK
  <2>3. QED
    BY <2>1, <2>2, TokenStep
<1>2. QED
  BY Inductive, <1>1, PTL DEF Spec, DeadStaysDead

\* The service starts as an empty ledger with the provisioned sessions.
LEMMA LedgerInit == Init => Ledger!Init
  BY DEF Init, Ledger!Init, Tokens, Call

\* Each step is one of the ledger, or one it does not see.
LEMMA LedgerNext == IInv /\ [Next]_vars => [Ledger!Next]_(Ledger!vars)
<1> SUFFICES ASSUME IInv, [Next]_vars PROVE [Ledger!Next]_(Ledger!vars)
  OBVIOUS
<1> DEFINE state == [t \in Tokens |-> CASE token[t] = "none" -> "unissued"
                                        [] token[t] = "live" -> "live"
                                        [] OTHER -> "dead"]
           parent == [t \in Tokens |->
                       IF t \in Requests /\ token[t] # "none" /\ ctx[t].op = "refresh"
                       THEN ctx[t].target ELSE None]
<1>1. CASE KillStep
  <2> DEFINE dying == {t \in Tokens : token[t] = "live" /\ token'[t] # "live"}
  <2>1. \A t \in dying : state[t] = "live"
    OBVIOUS
  <2>2. state' = [t \in Tokens |-> IF t \in dying THEN "dead" ELSE state[t]]
    BY <1>1 DEF KillStep, Dead
  <2>3. parent' = parent
    BY <1>1 DEF KillStep, Dead, Tokens
  <2>4. Ledger!Kill(dying)
    BY <2>1, <2>2, <2>3 DEF Ledger!Kill
  <2>5. dying \in SUBSET Tokens
    OBVIOUS
  <2> HIDE DEF dying
  <2>6. QED
    BY <2>4, <2>5, Zenon DEF Ledger!Next, Ledger!Kill
<1>2. ASSUME NEW r \in Requests, IssueStep(r) PROVE Ledger!Next
  <2> DEFINE p == IF ctx[r].op = "refresh" THEN ctx[r].target ELSE None
  <2>1. token[r] = "none" /\ r \in Tokens
    BY <1>2 DEF IssueStep, IInv, Fresh, Tokens
  <2>2. p = None \/ (p \in Tokens /\ state[p] = "dead")
    BY <1>2 DEF IssueStep, IInv, Locals, Dead
  <2>3. state' = [state EXCEPT ![r] = "live"]
    BY <1>2, <2>1 DEF IssueStep, IInv, TypeOK
  <2>4. parent' = [parent EXCEPT ![r] = p]
    BY <1>2, <2>1 DEF IssueStep, IInv, TypeOK
  <2>5. state[r] = "unissued"
    BY <2>1
  <2>6. Ledger!Issue(r, p)
    BY <2>2, <2>3, <2>4, <2>5 DEF Ledger!Issue
  <2> HIDE DEF p
  <2>7. p \in Tokens \cup {None}
    BY <2>2
  <2>8. QED
    BY <2>1, <2>6, <2>7, Zenon DEF Ledger!Next, Ledger!Issue
<1>3. QED
  BY <1>1, <1>2, TokenStep

\* The service implements the ledger: every token is issued once, dies once,
\* and is exchanged only when dead.
THEOREM ImplementsLedger == Spec => LedgerSpec
  BY Inductive, LedgerInit, LedgerNext, PTL DEF Spec, LedgerSpec, Ledger!Spec

-----------------------------------------------------------------------------
\* What is left in the users table: passwords, keys and profiles.

\* The password of the account was written by a reset.
ByReset(a) == \E q \in Requests : ctx[q].op = "reset" /\ hash[a].by = q

\* What a request that has read the users table still relies on when it writes.
Knows(r) ==
  /\ pc[r] = "idle" => ctx[r].op = "none"
  /\ pc[r] = "key" => /\ ctx[r].account \in users
                      /\ hash[ctx[r].account].pw = ctx[r].password \/ ByReset(ctx[r].account)
  /\ pc[r] = "row" => ctx[r].account \in users
  /\ pc[r] \in {"password", "used"} =>
       /\ ctx[r].op = "reset"
       /\ ctx[r].target \in Requests /\ reset[ctx[r].target] # "none"
       /\ ctx[r].account = ctx[ctx[r].target].account
  /\ pc[r] = "used" => ByReset(ctx[r].account)
  /\ (pc[r] = "save" /\ r \notin behind) =>
       /\ ctx[r].account \in Accounts
       /\ ctx[r].row = Assigned(r, profile[ctx[r].account], ctx[r].target # None)
       /\ ctx[r].target \in {r, None}

\* A reset token belongs to a user, and is used only when its password is there.
Paid(x) ==
  /\ reset[x] # "none" => pc[x] # "idle" /\ ctx[x].account \in users
  /\ reset[x] = "used" => ByReset(ctx[x].account)

UInv ==
  /\ IInv
  /\ \A r \in Requests : Knows(r) /\ Paid(r)
  /\ \A a \in Accounts \ users : key[a] = None
  /\ KeyUnderPassword
  /\ LostOnlyToOverlap

\* At the start no request runs, and no account but the provisioned has a key.
LEMMA InitUInv == Init => UInv
<1> SUFFICES ASSUME Init PROVE UInv
  OBVIOUS
<1>1. \A r \in Requests : Knows(r) /\ Paid(r)
  BY DEF Init, Knows, Paid, Call
<1>2. \A a \in Accounts : /\ hash[a].pw = FirstPassword /\ profile[a] = last[a]
                          /\ key[a] = IF a \in users THEN FirstPassword ELSE None
  BY DEF Init
<1>3. /\ \A a \in Accounts \ users : key[a] = None
      /\ KeyUnderPassword /\ LostOnlyToOverlap
  <2>1. users \subseteq Accounts
    BY DEF Init
  <2>2. KeyUnderPassword
    BY <1>2, <2>1 DEF KeyUnderPassword
  <2>3. LostOnlyToOverlap
    BY <1>2 DEF LostOnlyToOverlap
  <2>4. QED
    BY <1>2, <2>2, <2>3
<1>4. QED
  BY <1>1, <1>3, InitIInv DEF UInv

-----------------------------------------------------------------------------
\* A handler that starts has not written a table, and its first step relies on
\* what it has just read.
LEMMA BeginUInv ==
  ASSUME UInv, IInv', NEW r \in Requests, NEW call \in Ctx, NEW step \in Steps,
         Begin(r, call, step), UNCHANGED <<userVars, reset>>,
         step \notin {"idle", "key", "used"},
         step = "row" => call.account \in users,
         step = "password" =>
           /\ call.op = "reset"
           /\ call.target \in Requests /\ reset[call.target] # "none"
           /\ call.account = ctx[call.target].account,
         step = "save" =>
           /\ call.account \in Accounts
           /\ call.row = Assigned(r, profile[call.account], call.target # None)
           /\ call.target \in {r, None}
  PROVE  UInv'
<1>1. /\ pc[r] = "idle" /\ pc'[r] = step /\ ctx'[r] = call /\ ctx[r].op = "none"
      /\ \A q \in Requests \ {r} : pc'[q] = pc[q] /\ ctx'[q] = ctx[q]
  BY DEF Begin, UInv, IInv, TypeOK, Knows
<1>2. UNCHANGED <<users, hash, key, profile, last, behind, reset>>
  BY DEF userVars, profileVars
<1>3. \A a \in Accounts \cup {None} : ByReset(a) => ByReset(a)'
  BY <1>1, <1>2 DEF ByReset
<1>4. \A q \in Requests : ctx[q].account \in Accounts \cup {None}
  BY DEF UInv, IInv, TypeOK, Ctx
<1>5. reset[r] = "none"
  BY <1>1 DEF UInv, Paid, IInv, TypeOK
<1>6. ASSUME NEW q \in Requests PROVE (Knows(q) /\ Paid(q))'
  <2>1. CASE q = r
    BY <1>1, <1>2, <1>5, <2>1 DEF Knows, Paid
  <2>2. CASE q # r
    BY <1>1, <1>2, <1>3, <1>4, <1>5, <2>2 DEF UInv, Knows, Paid
  <2>3. QED
    BY <2>1, <2>2
<1>7. KeyUnderPassword'
  <2>1. \A a \in users : a \in Accounts
    BY DEF UInv, IInv, TypeOK
  <2>2. QED
    BY <1>2, <1>3, <2>1 DEF UInv, KeyUnderPassword, ByReset
<1>8. LostOnlyToOverlap'
  BY <1>1, <1>2 DEF UInv, LostOnlyToOverlap, IInv, TypeOK
<1>9. QED
  BY <1>2, <1>6, <1>7, <1>8 DEF UInv

\* Every first step of a handler.
LEMMA StartUInv == ASSUME UInv, IInv', NEW r \in Requests, Start(r) PROVE UInv'
<1>1. ASSUME NEW a \in Accounts, NEW p \in Passwords, Register(r, a, p) PROVE UInv'
  <2>1. Call("register", a, p, None) \in Ctx
    BY CallType DEF Ops
  <2>2. QED
    BY <1>1, <2>1, BeginUInv DEF Register, Steps
<1>2. ASSUME NEW a \in Accounts, NEW p \in Passwords, Login(r, a, p) PROVE UInv'
  <2>1. PICK call \in Ctx :
          call = [Call("login", a, p, None) EXCEPT !.key = key[a], !.by = hash[a].by]
    BY DEF UInv, IInv, TypeOK, Hash, Call, Ctx, Ops, NewProfile, Profile
  <2>2. \E step \in {"seen", "failed"} : Begin(r, call, step)
    BY <1>2, <2>1 DEF Login
  <2>3. QED
    BY <1>2, <2>2, BeginUInv DEF Login, Steps
<1>3. ASSUME NEW t \in Tokens, Refresh(r, t) PROVE UInv'
  <2>1. PICK call \in Ctx : call = Call("refresh", owner[t], None, t)
    BY CallType DEF UInv, IInv, TypeOK, Ops
  <2>2. \E step \in {"failed", "remove", "revoke"} : Begin(r, call, step)
    BY <1>3, <2>1 DEF Refresh, Held, UInv, IInv, TypeOK
  <2>3. QED
    BY <1>3, <2>2, BeginUInv DEF Refresh, Steps
<1>4. ASSUME NEW t \in Tokens, NEW a \in Accounts, Logout(r, a, t) PROVE UInv'
  <2>1. PICK call \in Ctx : call = Call("logout", a, None, t)
    BY CallType DEF Ops
  <2>2. \E step \in {"logout", "ok"} : Begin(r, call, step)
    BY <1>4, <2>1 DEF Logout
  <2>3. QED
    BY <1>4, <2>2, BeginUInv DEF Logout, Steps
<1>5. ASSUME NEW a \in Accounts, ChangePassword(r, a) PROVE UInv'
  <2>1. Call("change", a, None, None) \in Ctx
    BY CallType DEF Ops
  <2>2. QED
    BY <1>5, <2>1, BeginUInv DEF ChangePassword, Steps
<1>6. ASSUME NEW a \in Accounts, ForgotPassword(r, a) PROVE UInv'
  <2>1. Call("forgot", a, None, None) \in Ctx /\ Call("forgot", a, None, None).account = a
    BY CallType DEF Ops
  <2>2. QED
    BY <1>6, <2>1, BeginUInv DEF ForgotPassword, Steps
<1>7. ASSUME NEW x \in Requests, NEW p \in Passwords, ResetPassword(r, x, p) PROVE UInv'
  <2>1. ctx[x].account \in Accounts \cup {None} /\ x \in Tokens
    BY DEF UInv, IInv, TypeOK, Ctx, Tokens
  <2>2. PICK call \in Ctx : call = Call("reset", ctx[x].account, p, x)
    BY <2>1, CallType DEF Ops
  <2>3. call.op = "reset" /\ call.account = ctx[x].account /\ call.target = x
    BY <2>2 DEF Call
  <2>4. \E step \in {"password", "failed"} : Begin(r, call, step)
    BY <1>7, <2>2 DEF ResetPassword
  <2>5. reset[x] # "none" /\ UNCHANGED <<userVars, reset>>
    BY <1>7 DEF ResetPassword
  <2>6. QED
    BY <2>3, <2>4, <2>5, BeginUInv DEF Steps
<1>8. ASSUME NEW a \in Accounts, NEW avatar \in BOOLEAN, UpdateProfile(r, a, avatar)
      PROVE  UInv'
  <2>1. Assigned(r, profile[a], avatar) \in Profile
    BY DEF UInv, IInv, TypeOK, Assigned, Profile
  <2>2. PICK t \in {r, None} : t = IF avatar THEN r ELSE None
    OBVIOUS
  <2>3. t \in Tokens \cup {None} /\ hash[a].by \in Requests \cup {None}
    BY DEF Tokens, UInv, IInv, TypeOK, Hash
  <2>4. PICK call \in Ctx : call = [Call("profile", a, None, t) EXCEPT
                              !.row = Assigned(r, profile[a], avatar), !.by = hash[a].by]
    BY <2>1, <2>3 DEF Call, Ctx, Ops
  <2>5. /\ call.account = a /\ call.target = t
        /\ call.row = Assigned(r, profile[a], avatar)
    BY <2>4 DEF Call
  <2>6. Assigned(r, profile[a], avatar) = Assigned(r, profile[a], t # None)
    <3>1. r # None
      BY DEF Tokens
    <3>2. CASE avatar = TRUE
      BY <2>2, <3>1, <3>2
    <3>3. CASE avatar = FALSE
      BY <2>2, <3>3
    <3>4. QED
      BY <3>2, <3>3
  <2>7. \E step \in {"save", "failed"} : Begin(r, call, step)
    BY <1>8, <2>2, <2>4 DEF UpdateProfile
  <2>8. UNCHANGED <<userVars, reset>>
    BY <1>8 DEF UpdateProfile
  <2>9. QED
    BY <2>5, <2>6, <2>7, <2>8, BeginUInv DEF Steps
<1>9. QED
  BY <1>1, <1>2, <1>3, <1>4, <1>5, <1>6, <1>7, <1>8 DEF Start

-----------------------------------------------------------------------------
\* What every later step of a handler does to the requests.
LEMMA GotoEffect ==
  ASSUME IInv, NEW r \in Requests, NEW from, NEW to, Goto(r, from, to)
  PROVE  /\ ctx' = ctx /\ pc[r] = from /\ pc'[r] = to
         /\ \A q \in Requests \ {r} : pc'[q] = pc[q]
         /\ \A q \in Requests : ctx[q].account \in Accounts \cup {None}
  BY DEF Goto, IInv, TypeOK, Ctx

\* A step that writes neither the users nor the reset tokens.
LEMMA QuietUInv ==
  ASSUME UInv, IInv', NEW r \in Requests, NEW from, NEW to, Goto(r, from, to),
         UNCHANGED <<userVars, reset>>, from \notin {"idle", "ok"},
         to \notin {"idle", "key", "row", "password", "used", "save"}
  PROVE  UInv'
<1>1. UNCHANGED <<users, hash, key, profile, last, behind, reset, ctx>>
  BY DEF userVars, profileVars, Goto
<1>2. \A q \in Requests : (Knows(q) /\ Paid(q))'
  BY <1>1, GotoEffect DEF UInv, Knows, Paid, ByReset
<1>3. KeyUnderPassword' /\ (\A a \in Accounts \ users : key[a] = None)'
  BY <1>1 DEF UInv, KeyUnderPassword
<1>4. LostOnlyToOverlap'
  BY <1>1, GotoEffect DEF UInv, LostOnlyToOverlap, IInv, TypeOK
<1>5. QED
  BY <1>2, <1>3, <1>4 DEF UInv

\* A registration makes a row that has no key yet.
LEMMA CreateUInv ==
  ASSUME UInv, IInv', NEW r \in Requests, CreateUser(r) PROVE UInv'
<1> DEFINE b == ctx[r].account
<1>1. CASE Taken(b)
  BY <1>1, QuietUInv DEF CreateUser
<1>2. CASE ~Taken(b)
  <2>1. /\ Goto(r, "create", "key") /\ users' = users \cup {b}
        /\ hash' = [hash EXCEPT ![b] = [pw |-> ctx[r].password, rounds |-> 2, by |-> r]]
        /\ UNCHANGED <<key, profile, last, behind, reset>>
    BY <1>2 DEF CreateUser, profileVars
  <2>2. b \in Accounts /\ b \notin users
    BY <1>2, <2>1, GotoEffect DEF UInv, IInv, Locals, Taken
  <2>3. /\ \A a \in users : a \in Accounts /\ hash'[a] = hash[a]
        /\ hash'[b].pw = ctx[r].password
    BY <2>1, <2>2 DEF UInv, IInv, TypeOK
  <2>4. \A a \in users : ByReset(a) => ByReset(a)'
    BY <2>1, <2>3, GotoEffect DEF UInv, ByReset
  <2>5. ASSUME NEW q \in Requests PROVE (Knows(q) /\ Paid(q))'
    <3>1. CASE q = r
      BY <2>1, <2>3, <2>4, <3>1, GotoEffect DEF UInv, Knows, Paid
    <3>2. CASE q # r
      <4>1. pc'[q] = pc[q] /\ ctx' = ctx /\ ctx[r] = ctx[r]
        BY <2>1, <3>2, GotoEffect DEF UInv
      <4>2. pc[q] = "used" => ctx[q].account \in users
        BY DEF UInv, Knows, Paid
      <4>3. Paid(q)'
        BY <2>1, <2>4, <4>1 DEF UInv, Paid
      <4>4. Knows(q)'
        BY <2>1, <2>3, <2>4, <4>1, <4>2 DEF UInv, Knows
      <4>5. QED
        BY <4>3, <4>4
    <3>3. QED
      BY <3>1, <3>2
  <2>6. key[b] = None
    BY <2>2 DEF UInv
  <2>7. KeyUnderPassword' /\ (\A a \in Accounts \ users : key[a] = None)'
    BY <2>1, <2>3, <2>4, <2>6 DEF UInv, KeyUnderPassword, ByReset
  <2>8. LostOnlyToOverlap'
    BY <2>1, GotoEffect DEF UInv, LostOnlyToOverlap, IInv, TypeOK
  <2>9. QED
    BY <2>5, <2>7, <2>8 DEF UInv
<1>3. QED
  BY <1>1, <1>2

\* The key goes under the password that was registered, which is still there or
\* was replaced by a reset.
LEMMA StoreKeyUInv ==
  ASSUME UInv, IInv', NEW r \in Requests, StoreKey(r) PROVE UInv'
<1>1. /\ Goto(r, "key", "tokens") /\ key' = [key EXCEPT ![ctx[r].account] = ctx[r].password]
      /\ UNCHANGED <<users, hash, profile, last, behind, reset>>
  BY DEF StoreKey, profileVars
<1>2. /\ ctx[r].account \in users
      /\ hash[ctx[r].account].pw = ctx[r].password \/ ByReset(ctx[r].account)
  BY <1>1, GotoEffect DEF UInv, Knows
<1>3. \A q \in Requests : (Knows(q) /\ Paid(q))'
  BY <1>1, GotoEffect DEF UInv, Knows, Paid, ByReset
<1>4. /\ \A a \in Accounts : a # ctx[r].account => key'[a] = key[a]
      /\ key'[ctx[r].account] = ctx[r].password
      /\ users \subseteq Accounts
  BY <1>1, <1>2 DEF UInv, IInv, TypeOK
<1>5. (\A a \in Accounts \ users : key[a] = None)'
  BY <1>1, <1>2, <1>4 DEF UInv
<1>6. KeyUnderPassword'
  BY <1>1, <1>2, <1>4, GotoEffect DEF UInv, KeyUnderPassword, ByReset
<1>7. LostOnlyToOverlap'
  BY <1>1, GotoEffect DEF UInv, LostOnlyToOverlap, IInv, TypeOK
<1>8. QED
  BY <1>3, <1>5, <1>6, <1>7 DEF UInv

\* A reset token is made for a user, and no other step makes one.
LEMMA SaveResetUInv ==
  ASSUME UInv, IInv', NEW r \in Requests, SaveReset(r) PROVE UInv'
<1>1. /\ Goto(r, "row", "mail") /\ reset' = [reset EXCEPT ![r] = "open"]
      /\ UNCHANGED <<users, hash, key, profile, last, behind>>
  BY DEF SaveReset, userVars, profileVars
<1>2. ctx[r].account \in users
  BY <1>1, GotoEffect DEF UInv, Knows
<1>3. /\ reset'[r] = "open" /\ \A q \in Requests : q # r => reset'[q] = reset[q]
  BY <1>1 DEF UInv, IInv, TypeOK
<1>4. \A q \in Requests : (Knows(q) /\ Paid(q))'
  BY <1>1, <1>2, <1>3, GotoEffect DEF UInv, Knows, Paid, ByReset
<1>5. KeyUnderPassword' /\ (\A a \in Accounts \ users : key[a] = None)'
  BY <1>1, GotoEffect DEF UInv, KeyUnderPassword
<1>6. LostOnlyToOverlap'
  BY <1>1, GotoEffect DEF UInv, LostOnlyToOverlap, IInv, TypeOK
<1>7. QED
  BY <1>4, <1>5, <1>6 DEF UInv

\* From here on the password of the account is a reset's.
LEMMA PasswordUInv ==
  ASSUME UInv, IInv', NEW r \in Requests, UpdatePassword(r) PROVE UInv'
<1>1. /\ Goto(r, "password", "used")
      /\ hash' = [hash EXCEPT ![ctx[r].account] =
                                [pw |-> ctx[r].password, rounds |-> 1, by |-> r]]
      /\ UNCHANGED <<users, key, profile, last, behind, reset>>
  BY DEF UpdatePassword, profileVars
<1>2. /\ ctx[r].op = "reset" /\ ctx[r].target \in Requests /\ ctx[r].account \in users
      /\ reset[ctx[r].target] # "none" /\ ctx[r].account = ctx[ctx[r].target].account
  BY <1>1, GotoEffect DEF UInv, Knows, Paid
<1>3. PICK b \in users : b = ctx[r].account
  BY <1>2
<1>4. /\ users \subseteq Accounts /\ hash'[b].by = r
      /\ \A a \in Accounts : a # b => hash'[a] = hash[a]
  BY <1>1, <1>2, <1>3 DEF UInv, IInv, TypeOK
<1>5. ByReset(b)' /\ \A a \in users : ByReset(a) => ByReset(a)'
  <2>1. ByReset(b)'
    BY <1>1, <1>2, <1>4, GotoEffect DEF UInv, ByReset
  <2>2. ASSUME NEW a \in users, ByReset(a), a # b PROVE ByReset(a)'
    BY <1>1, <1>4, <2>2, GotoEffect DEF UInv, ByReset
  <2>3. QED
    BY <2>1, <2>2
<1>6. ASSUME NEW q \in Requests PROVE (Knows(q) /\ Paid(q))'
  <2>1. ctx' = ctx /\ pc'[r] = "used" /\ (q # r => pc'[q] = pc[q])
    BY <1>1, GotoEffect DEF UInv
  <2>2. /\ pc[q] = "used" => ctx[q].account \in users
        /\ pc[q] = "key" => ctx[q].account \in users
    BY DEF UInv, Knows, Paid
  <2>3. Paid(q)'
    BY <1>1, <1>2, <1>5, <1>3, <2>1 DEF UInv, Paid
  <2>4. CASE q = r
    BY <1>1, <1>2, <1>5, <1>3, <2>1, <2>3, <2>4 DEF Knows
  <2>5. CASE q # r
    <3>1. \A a \in users : hash[a].pw = ctx[q].password \/ ByReset(a) =>
                          hash'[a].pw = ctx[q].password \/ ByReset(a)'
      BY <1>4, <1>5, <1>3
    <3>2. QED
      BY <1>1, <1>5, <2>1, <2>2, <2>3, <2>5, <3>1 DEF UInv, Knows
  <2>6. QED
    BY <2>4, <2>5
<1>7. KeyUnderPassword' /\ (\A a \in Accounts \ users : key[a] = None)'
  <2>1. \A a \in users : key[a] \in {None, hash[a].pw} \/ ByReset(a) =>
                         key[a] \in {None, hash'[a].pw} \/ ByReset(a)'
    BY <1>4, <1>5, <1>3
  <2>2. QED
    BY <1>1, <2>1 DEF UInv, KeyUnderPassword, ByReset
<1>8. LostOnlyToOverlap'
  BY <1>1, GotoEffect DEF UInv, LostOnlyToOverlap, IInv, TypeOK
<1>9. QED
  BY <1>6, <1>7, <1>8 DEF UInv

\* The token is used up after its password was written.
LEMMA MarkUsedUInv ==
  ASSUME UInv, IInv', NEW r \in Requests, MarkUsed(r) PROVE UInv'
<1> DEFINE x == ctx[r].target
<1>1. /\ Goto(r, "used", "revokeAll") /\ reset' = [reset EXCEPT ![x] = "used"]
      /\ UNCHANGED <<users, hash, key, profile, last, behind>>
  BY DEF MarkUsed, userVars, profileVars
<1>2. /\ x \in Requests /\ reset[x] # "none" /\ ByReset(ctx[x].account)
      /\ ctx[x].account \in users
  BY <1>1, GotoEffect DEF UInv, Knows, Paid
<1>3. /\ \A q \in Requests : reset[q] # "none" => reset'[q] # "none"
      /\ \A q \in Requests : q # x => reset'[q] = reset[q]
  BY <1>1, <1>2 DEF UInv, IInv, TypeOK
<1>4. \A a : ByReset(a) => ByReset(a)'
  BY <1>1, GotoEffect DEF UInv, ByReset
<1>5. ASSUME NEW q \in Requests PROVE (Knows(q) /\ Paid(q))'
  <2>1. ctx' = ctx /\ pc'[r] = "revokeAll" /\ (q # r => pc'[q] = pc[q]) /\ pc[r] = "used"
    BY <1>1, GotoEffect DEF UInv
  <2>2. Paid(q)'
    BY <1>1, <1>2, <1>3, <1>4, <2>1 DEF UInv, Paid
  <2>3. Knows(q)'
    BY <1>1, <1>2, <1>3, <1>4, <2>1 DEF UInv, Knows
  <2>4. QED
    BY <2>2, <2>3
<1>6. KeyUnderPassword' /\ (\A a \in Accounts \ users : key[a] = None)'
  BY <1>1, GotoEffect DEF UInv, KeyUnderPassword
<1>7. LostOnlyToOverlap'
  BY <1>1, GotoEffect DEF UInv, LostOnlyToOverlap, IInv, TypeOK
<1>8. QED
  BY <1>5, <1>6, <1>7 DEF UInv

\* The last login goes to the row as it is.
LEMMA LastLoginUInv ==
  ASSUME UInv, IInv', NEW r \in Requests, UpdateLastLogin(r) PROVE UInv'
<1>1. /\ Goto(r, "seen", "tokens") /\ Overtake(r)
      /\ profile' = [profile EXCEPT ![ctx[r].account]["lastSeen"] = r]
      /\ last' = [last EXCEPT ![ctx[r].account]["lastSeen"] = r]
      /\ UNCHANGED <<users, hash, key, reset>>
  BY DEF UpdateLastLogin
<1>2. /\ behind \subseteq behind'
      /\ \A q \in Requests \ {r} :
           pc[q] = "save" /\ q \notin behind' => ctx[q].account # ctx[r].account
  BY <1>1 DEF Overtake
<1>3. /\ \A a \in Accounts : a # ctx[r].account => profile'[a] = profile[a] /\ last'[a] = last[a]
      /\ \A a \in Accounts : profile[a] = last[a] => profile'[a] = last'[a]
  BY <1>1 DEF UInv, IInv, TypeOK
<1>4. ASSUME NEW q \in Requests PROVE (Knows(q) /\ Paid(q))'
  <2>1. /\ ctx' = ctx /\ pc'[r] = "tokens" /\ (q # r => pc'[q] = pc[q])
        /\ \A a : ByReset(a) => ByReset(a)'
    BY <1>1, GotoEffect DEF UInv, ByReset
  <2>2. Paid(q)'
    BY <1>1, <2>1, GotoEffect DEF UInv, Paid
  <2>3. Knows(q)'
    BY <1>1, <1>2, <1>3, <2>1 DEF UInv, Knows
  <2>4. QED
    BY <2>2, <2>3
<1>5. KeyUnderPassword' /\ (\A a \in Accounts \ users : key[a] = None)'
  BY <1>1, GotoEffect DEF UInv, KeyUnderPassword
<1>6. LostOnlyToOverlap'
  BY <1>1, <1>2, <1>3, GotoEffect DEF UInv, LostOnlyToOverlap, IInv, TypeOK
<1>7. QED
  BY <1>4, <1>5, <1>6 DEF UInv

\* A profile update that is not behind saves the row with its own field set; one
\* that is behind answers for what it overwrites.
LEMMA SaveProfileUInv ==
  ASSUME UInv, IInv', NEW r \in Requests, SaveProfile(r) PROVE UInv'
<1>1. /\ Goto(r, "save", "ok") /\ Overtake(r)
      /\ profile' = [profile EXCEPT ![ctx[r].account] = ctx[r].row]
      /\ last' = IF ctx[r].target = None THEN last
                 ELSE [last EXCEPT ![ctx[r].account]["avatarUrl"] = r]
      /\ UNCHANGED <<users, hash, key, reset>>
  BY DEF SaveProfile, HashAfterSave
<1>2. /\ behind \subseteq behind'
      /\ \A q \in Requests \ {r} :
           pc[q] = "save" /\ q \notin behind' => ctx[q].account # ctx[r].account
  BY <1>1 DEF Overtake
<1>3. /\ profile \in [Accounts -> Profile] /\ last \in [Accounts -> Profile]
      /\ behind \subseteq Requests
  BY DEF UInv, IInv, TypeOK
<1>4. \A a \in Accounts : a # ctx[r].account => profile'[a] = profile[a] /\ last'[a] = last[a]
  BY <1>1, <1>3
<1>5. ASSUME NEW q \in Requests PROVE (Knows(q) /\ Paid(q))'
  <2>1. /\ ctx' = ctx /\ pc'[r] = "ok" /\ (q # r => pc'[q] = pc[q])
        /\ \A a : ByReset(a) => ByReset(a)'
    BY <1>1, GotoEffect DEF UInv, ByReset
  <2>2. Paid(q)'
    BY <1>1, <2>1, GotoEffect DEF UInv, Paid
  <2>3. Knows(q)'
    BY <1>1, <1>2, <1>4, <2>1 DEF UInv, Knows
  <2>4. QED
    BY <2>2, <2>3
<1>6. KeyUnderPassword' /\ (\A a \in Accounts \ users : key[a] = None)'
  BY <1>1, GotoEffect DEF UInv, KeyUnderPassword
<1>7. ASSUME NEW a \in Accounts, profile'[a] # last'[a]
      PROVE  \E q \in behind' : pc'[q] = "ok" /\ ctx'[q].account = a
  <2>1. ctx' = ctx /\ pc'[r] = "ok" /\ \A q \in Requests : pc[q] = "ok" => pc'[q] = "ok"
    BY <1>1, GotoEffect DEF UInv
  <2>2. CASE profile[a] # last[a]
    BY <1>2, <1>3, <2>1, <2>2 DEF UInv, LostOnlyToOverlap
  <2>3. CASE profile[a] = last[a] /\ a = ctx[r].account /\ r \in behind
    BY <1>2, <2>1, <2>3
  <2>4. CASE profile[a] = last[a] /\ a = ctx[r].account /\ r \notin behind
    <3>1. /\ profile'[a] = Assigned(r, profile[a], ctx[r].target # None)
          /\ ctx[r].target \in {r, None}
      BY <1>1, <1>3, <2>4, GotoEffect DEF UInv, Knows
    <3>2. last'[a] = Assigned(r, last[a], ctx[r].target # None)
      BY <1>1, <1>3, <2>4 DEF Assigned
    <3>3. QED
      BY <1>7, <2>4, <3>1, <3>2
  <2>5. QED
    BY <1>4, <1>7, <2>2, <2>3, <2>4
<1>8. LostOnlyToOverlap'
  BY <1>7 DEF LostOnlyToOverlap
<1>9. QED
  BY <1>5, <1>6, <1>8 DEF UInv

\* UInv is inductive, given IInv.
LEMMA NextUInv == UInv /\ IInv' /\ [Next]_vars => UInv'
<1> SUFFICES ASSUME UInv, IInv', [Next]_vars PROVE UInv'
  OBVIOUS
<1>1. ASSUME NEW r \in Requests, Continue(r) PROVE UInv'
  <2>1. CASE GenerateTokens(r)
    <3>1. PICK to \in {"mail", "decrypt", "ok"} : Goto(r, "tokens", to)
      BY <2>1 DEF GenerateTokens
    <3>2. QED
      BY <2>1, <3>1, QuietUInv DEF GenerateTokens
  <2>2. CASE DecryptKey(r)
    <3>1. PICK to \in {"ok", "failed"} : Goto(r, "decrypt", to)
      BY <2>2 DEF DecryptKey
    <3>2. QED
      BY <2>2, <3>1, QuietUInv DEF DecryptKey
  <2>3. CASE SendMail(r) \/ RemoveExpired(r) \/ RevokeOld(r) \/ RevokeOnLogout(r)
             \/ RevokeAll(r)
    BY <2>3, QuietUInv DEF SendMail, RemoveExpired, RevokeOld, RevokeOnLogout, RevokeAll
  <2>4. QED
    BY <1>1, <2>1, <2>2, <2>3, CreateUInv, StoreKeyUInv, SaveResetUInv, PasswordUInv,
       MarkUsedUInv, LastLoginUInv, SaveProfileUInv DEF Continue
<1>2. ASSUME NEW r \in Requests, DbFails(r) PROVE UInv'
  <2>1. PICK from : from = pc[r]
    OBVIOUS
  <2>2. Goto(r, from, "failed") /\ from \notin {"idle", "ok"} /\ UNCHANGED <<userVars, reset>>
    BY <1>2, <2>1 DEF DbFails, Goto, Ended
  <2>3. QED
    BY <2>2, QuietUInv
<1>3. CASE UNCHANGED <<userVars, reset, pc, ctx>>
  BY <1>3 DEF UInv, userVars, profileVars, Knows, Paid, ByReset, KeyUnderPassword,
              LostOnlyToOverlap
<1>4. ASSUME NEW t \in Tokens, Expire(t) PROVE UInv'
  BY <1>3, <1>4 DEF Expire
<1>5. CASE UNCHANGED vars
  BY <1>3, <1>5 DEF vars
<1>6. QED
  BY <1>1, <1>2, <1>4, <1>5, StartUInv DEF Next

\* UInv holds in every reachable state.
LEMMA AlwaysUInv == Spec => []UInv
  BY Inductive, InitUInv, NextUInv, PTL DEF Spec

-----------------------------------------------------------------------------
\* A reset token that is used up has changed the password of its account, at
\* whatever await a reset fails (auth.service.ts:250-253).
THEOREM ResetPaysOut == Spec => []UsedTokenChangedPassword
<1>1. UInv => UsedTokenChangedPassword
  BY DEF UInv, Paid, ByReset, UsedTokenChangedPassword
<1>2. QED
  BY <1>1, AlwaysUInv, PTL

\* The private key is under the password of its account unless a reset changed
\* the password, whatever registrations of one name race.
THEOREM KeyIsUnderPassword == Spec => []KeyUnderPassword
<1>1. UInv => KeyUnderPassword
  BY DEF UInv
<1>2. QED
  BY <1>1, AlwaysUInv, PTL

\* A profile field is lost only to an update that overlapped the write of it.
THEOREM LossNeedsOverlap == Spec => []LostOnlyToOverlap
<1>1. UInv => LostOnlyToOverlap
  BY DEF UInv
<1>2. QED
  BY <1>1, AlwaysUInv, PTL

\* A password changes only to that of the request that takes the step.
THEOREM NoOldPassword == Spec => PasswordNeverReverts
<1> DEFINE Own == \A a \in Accounts : hash'[a] # hash[a] =>
                    \E r \in Requests : hash'[a].by = r /\ pc'[r] # pc[r]
<1>1. IInv /\ [Next]_vars => [Own]_vars
  <2> SUFFICES ASSUME IInv, [Next]_vars PROVE Own
    OBVIOUS
  <2>1. ASSUME NEW r \in Requests, NEW from, NEW to, Goto(r, from, to), from # to,
               NEW b \in Accounts, NEW h, h.by = r, hash' = [hash EXCEPT ![b] = h]
        PROVE  Own
    BY <2>1, GotoEffect DEF IInv, TypeOK
  <2>2. ASSUME NEW r \in Requests, CreateUser(r) PROVE Own
    <3>1. CASE UNCHANGED hash
      BY <3>1
    <3>2. CASE ~UNCHANGED hash
      <4>1. PICK b, h : b = ctx[r].account
                        /\ h = [pw |-> ctx[r].password, rounds |-> 2, by |-> r]
        OBVIOUS
      <4>2. Goto(r, "create", "key") /\ hash' = [hash EXCEPT ![b] = h]
        BY <2>2, <3>2, <4>1 DEF CreateUser, userVars
      <4>3. b \in Accounts /\ h.by = r
        BY <4>1, <4>2, GotoEffect DEF IInv, Locals
      <4>4. QED
        BY <2>1, <4>2, <4>3
    <3>3. QED
      BY <3>1, <3>2
  <2>3. ASSUME NEW r \in Requests, UpdatePassword(r) PROVE Own
    <3>1. PICK b, h : b = ctx[r].account
                      /\ h = [pw |-> ctx[r].password, rounds |-> 1, by |-> r]
      OBVIOUS
    <3>2. Goto(r, "password", "used") /\ hash' = [hash EXCEPT ![b] = h] /\ h.by = r
      BY <2>3, <3>1 DEF UpdatePassword
    <3>3. pc'[r] # pc[r] /\ \A a \in Accounts : hash'[a] # hash[a] => hash'[a] = h
      BY <3>2, GotoEffect DEF IInv, TypeOK
    <3>4. QED
      BY <3>2, <3>3
  <2>4. ASSUME NEW r \in Requests,
               Start(r) \/ DbFails(r) \/ (Continue(r) /\ ~CreateUser(r) /\ ~UpdatePassword(r))
        PROVE  UNCHANGED hash
    BY <2>4 DEF Start, Register, Login, Refresh, Logout, ChangePassword, ForgotPassword,
                ResetPassword, UpdateProfile, DbFails, Continue, StoreKey, GenerateTokens,
                SendMail, DecryptKey, RemoveExpired, RevokeOld, RevokeOnLogout, SaveReset,
                MarkUsed, RevokeAll, UpdateLastLogin, SaveProfile, HashAfterSave, userVars
  <2>5. ASSUME NEW t \in Tokens, Expire(t) PROVE UNCHANGED hash
    BY <2>5 DEF Expire, userVars
  <2>6. CASE UNCHANGED vars
    BY <2>6 DEF vars, userVars
  <2>7. QED
    BY <2>2, <2>3, <2>4, <2>5, <2>6 DEF Next
<1>2. QED
  BY Inductive, <1>1, PTL DEF Spec, PasswordNeverReverts
=============================================================================
