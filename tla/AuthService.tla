----------------------------- MODULE AuthService -----------------------------
(***************************************************************************)
(* backend/src/auth/auth.service.ts over its three tables: users, refresh  *)
(* tokens and password resets, and the one other writer of the users table *)
(* that is called, PATCH users/me of users.controller.ts.  A request runs   *)
(* up to its next await in one step, and any number of requests interleave *)
(* between steps.                                                          *)
(*                                                                         *)
(* A refresh token or a reset token is named by the request that made it,  *)
(* the session an account had before by the account.  A stored password is *)
(* the plain one, the number of times it was hashed and the request that   *)
(* hashed it.                                                              *)
(***************************************************************************)
EXTENDS Naturals

CONSTANTS Requests,         \* calls of the service, each handled once
          Accounts,
          Provisioned,      \* accounts that exist at the start, with a session
          Passwords,
          StrongPasswords,  \* those isPasswordStrong accepts
          FirstPassword,    \* the password of the provisioned accounts
          None

Tokens == Requests \cup Accounts

ASSUME AuthAssumption ==
  /\ Provisioned \subseteq Accounts
  /\ StrongPasswords \subseteq Passwords
  /\ FirstPassword \in Passwords
  /\ Requests \cap Accounts = {}
  /\ None \notin Tokens \cup Passwords

VARIABLES users,    \* accounts with a row
          hash,     \* users.password
          key,      \* the password users.encryptedPrivateKey is encrypted under
          profile,  \* users.avatarUrl and users.lastSeen, as who wrote them
          last,     \* history: who wrote them last on purpose
          behind,   \* history: profile updates that were overtaken between
                    \* their read and their save
          token,    \* rows of the refresh token table
          owner,    \* their userId
          expired,  \* refresh and reset tokens past their expiresAt
          reset,    \* rows of the password reset table
          pc,       \* the step each request is at
          ctx       \* the local variables of each request

profileVars == <<profile, last, behind>>
userVars == <<users, hash, key, profileVars>>
tokenVars == <<token, owner>>
vars == <<userVars, tokenVars, expired, reset, pc, ctx>>

Hash == [pw : Passwords, rounds : {1, 2}, by : Requests \cup {None}]
Fields == {"avatarUrl", "lastSeen"}
Profile == [Fields -> Requests \cup {None}]
Ops == {"none", "register", "login", "refresh", "logout", "change", "forgot",
        "reset", "profile"}
Steps == {"idle", "create", "key", "tokens", "seen", "decrypt", "remove", "revoke", "save",
          "logout", "row", "password", "used", "revokeAll", "mail",
          "ok", "failed", "noQueue"}
Ended == {"ok", "failed", "noQueue"}
Ctx == [op : Ops, account : Accounts \cup {None}, password : Passwords \cup {None},
        target : Tokens \cup {None}, key : Passwords \cup {None},
        by : Requests \cup {None}, row : Profile]

NewProfile == [f \in Fields |-> None]
Call(op, account, password, target) ==
  [op |-> op, account |-> account, password |-> password, target |-> target,
   key |-> None, by |-> None, row |-> NewProfile]

Init ==
  /\ users = Provisioned
  /\ hash = [a \in Accounts |-> [pw |-> FirstPassword, rounds |-> 1, by |-> None]]
  /\ profile = [a \in Accounts |-> NewProfile] /\ last = profile /\ behind = {}
  /\ key = [a \in Accounts |-> IF a \in Provisioned THEN FirstPassword ELSE None]
  /\ token = [t \in Tokens |-> IF t \in Provisioned THEN "live" ELSE "none"]
  /\ owner = [t \in Tokens |-> IF t \in Provisioned THEN t ELSE None]
  /\ expired = {}
  /\ reset = [r \in Requests |-> "none"]
  /\ pc = [r \in Requests |-> "idle"]
  /\ ctx = [r \in Requests |-> Call("none", None, None, None)]

\* bcrypt.compare: a password hashed twice matches nothing a user types.
Verifies(h, p) == h.rounds = 1 /\ h.pw = p

\* Refresh tokens a client was given: by a reply, or before the start.
Held == {t \in Tokens : /\ token[t] # "none"
                        /\ t \in Provisioned \/ (t \in Requests /\ pc[t] = "ok")}

isPasswordStrong(p) == p \in StrongPasswords

Begin(r, call, step) ==
  /\ pc[r] = "idle"
  /\ pc' = [pc EXCEPT ![r] = step]
  /\ ctx' = [ctx EXCEPT ![r] = call]

Goto(r, from, to) ==
  /\ pc[r] = from
  /\ pc' = [pc EXCEPT ![r] = to]
  /\ UNCHANGED ctx

-----------------------------------------------------------------------------
\* register: lines 42-90.
Register(r, a, p) ==
  /\ Begin(r, Call("register", a, p, None), IF a \in users THEN "failed" ELSE "create")
  /\ UNCHANGED <<userVars, tokenVars, expired, reset>>

\* The unique columns (user.entity.ts:12, 15), and a table without them.
TakenNever(a) == FALSE
Taken(a) == a \in users

\* usersService.create: a second row is rejected, and the entity's hook
\* (user.entity.ts:58-63) hashes the hash it is given.
CreateUser(r) ==
  LET a == ctx[r].account IN
  IF Taken(a)
  THEN Goto(r, "create", "failed") /\ UNCHANGED <<userVars, tokenVars, expired, reset>>
  ELSE /\ Goto(r, "create", "key")
       /\ users' = users \cup {a}
       /\ hash' = [hash EXCEPT ![a] = [pw |-> ctx[r].password, rounds |-> 2, by |-> r]]
       /\ UNCHANGED <<key, profileVars, tokenVars, expired, reset>>

StoreKey(r) ==
  /\ Goto(r, "key", "tokens")
  /\ key' = [key EXCEPT ![ctx[r].account] = ctx[r].password]
  /\ UNCHANGED <<users, hash, profileVars, tokenVars, expired, reset>>

\* generateTokens, and what follows it in its three callers.
GenerateTokens(r) ==
  /\ Goto(r, "tokens", CASE ctx[r].op = "register" -> "mail"
                         [] ctx[r].op = "login" -> "decrypt"
                         [] OTHER -> "ok")
  /\ token' = [token EXCEPT ![r] = "live"]
  /\ owner' = [owner EXCEPT ![r] = ctx[r].account]
  /\ UNCHANGED <<userVars, expired, reset>>

\* addJob('send-email', ..): getQueue knows no such queue and throws
\* (queue.service.ts:128-139), so the call ends in an error.
SendMail(r) ==
  /\ Goto(r, "mail", "noQueue")
  /\ UNCHANGED <<userVars, tokenVars, expired, reset>>

-----------------------------------------------------------------------------
\* login: lines 92-126.  The row read here, its key included, is what the rest
\* of the handler uses.
Login(r, a, p) ==
  /\ Begin(r, [Call("login", a, p, None) EXCEPT !.key = key[a], !.by = hash[a].by],
           IF a \in users /\ Verifies(hash[a], p) THEN "seen" ELSE "failed")
  /\ UNCHANGED <<userVars, tokenVars, expired, reset>>

\* A row of the users table is written: profile updates that have read it are
\* behind.
Overtake(r) ==
  behind' = behind \cup {q \in Requests \ {r} :
                           pc[q] = "save" /\ ctx[q].account = ctx[r].account}

UpdateLastLogin(r) ==
  LET a == ctx[r].account IN
  /\ Goto(r, "seen", "tokens")
  /\ profile' = [profile EXCEPT ![a]["lastSeen"] = r]
  /\ last' = [last EXCEPT ![a]["lastSeen"] = r]
  /\ Overtake(r)
  /\ UNCHANGED <<users, hash, key, tokenVars, expired, reset>>

DecryptKey(r) ==
  /\ Goto(r, "decrypt", IF ctx[r].key = ctx[r].password THEN "ok" ELSE "failed")
  /\ UNCHANGED <<userVars, tokenVars, expired, reset>>

-----------------------------------------------------------------------------
\* refreshToken: lines 128-156.
Refresh(r, t) ==
  /\ t \in Held
  /\ Begin(r, Call("refresh", owner[t], None, t),
           CASE token[t] = "removed" -> "failed"
             [] token[t] # "removed" /\ t \in expired -> "remove"
             [] token[t] = "revoked" /\ t \notin expired -> "failed"
             [] token[t] = "live" /\ t \notin expired -> "revoke")
  /\ UNCHANGED <<userVars, tokenVars, expired, reset>>

RemoveExpired(r) ==
  /\ Goto(r, "remove", "failed")
  /\ token' = [token EXCEPT ![ctx[r].target] = "removed"]
  /\ UNCHANGED <<userVars, owner, expired, reset>>

\* What save() leaves of a row: the request's copy, with isRevoked set, whatever
\* happened to the row meanwhile; a removed row comes back.  The variant saves
\* the copy as it was read.
CopySavedUnchanged(t) == "live"
CopySaved(t) == "revoked"

RevokeOld(r) ==
  /\ Goto(r, "revoke", "tokens")
  /\ token' = [token EXCEPT ![ctx[r].target] = CopySaved(ctx[r].target)]
  /\ UNCHANGED <<userVars, owner, expired, reset>>

\* logout: lines 158-167.
Logout(r, a, t) ==
  /\ t \in Held
  /\ Begin(r, Call("logout", a, None, t),
           IF token[t] \in {"live", "revoked"} /\ owner[t] = a THEN "logout" ELSE "ok")
  /\ UNCHANGED <<userVars, tokenVars, expired, reset>>

RevokeOnLogout(r) ==
  /\ Goto(r, "logout", "ok")
  /\ token' = [token EXCEPT ![ctx[r].target] = CopySaved(ctx[r].target)]
  /\ UNCHANGED <<userVars, owner, expired, reset>>

-----------------------------------------------------------------------------
\* changePassword: findById reads a row without its password column
\* (user.entity.ts:18), so bcrypt.compare at line 177 always throws.
ChangePassword(r, a) ==
  /\ Begin(r, Call("change", a, None, None), "failed")
  /\ UNCHANGED <<userVars, tokenVars, expired, reset>>

\* forgotPassword: lines 204-232.
ForgotPassword(r, a) ==
  /\ Begin(r, Call("forgot", a, None, None), IF a \in users THEN "row" ELSE "ok")
  /\ UNCHANGED <<userVars, tokenVars, expired, reset>>

SaveReset(r) ==
  /\ Goto(r, "row", "mail")
  /\ reset' = [reset EXCEPT ![r] = "open"]
  /\ UNCHANGED <<userVars, tokenVars, expired>>

\* resetPassword: lines 234-260.  The mail that carries the token is never
\* queued, so x is any token of the table, handed over by whoever can read it.
ResetPassword(r, x, p) ==
  /\ reset[x] # "none"
  /\ Begin(r, Call("reset", ctx[x].account, p, x),
           IF reset[x] = "open" /\ x \notin expired /\ isPasswordStrong(p)
           THEN "password" ELSE "failed")
  /\ UNCHANGED <<userVars, tokenVars, expired, reset>>

\* Line 250, and line 250 without its await: a failure of the write goes unseen.
UpdatePasswordUnawaited(r) ==
  /\ Goto(r, "password", "used")
  /\ \/ hash' = [hash EXCEPT ![ctx[r].account] =
                               [pw |-> ctx[r].password, rounds |-> 1, by |-> r]]
     \/ UNCHANGED hash
  /\ UNCHANGED <<users, key, profileVars, tokenVars, expired, reset>>
UpdatePassword(r) ==
  /\ Goto(r, "password", "used")
  /\ hash' = [hash EXCEPT ![ctx[r].account] =
                            [pw |-> ctx[r].password, rounds |-> 1, by |-> r]]
  /\ UNCHANGED <<users, key, profileVars, tokenVars, expired, reset>>

\* Lines 252-253.
MarkUsed(r) ==
  /\ Goto(r, "used", "revokeAll")
  /\ reset' = [reset EXCEPT ![ctx[r].target] = "used"]
  /\ UNCHANGED <<userVars, tokenVars, expired>>

RevokeAll(r) ==
  /\ Goto(r, "revokeAll", "ok")
  /\ token' = [t \in Tokens |->
                IF owner[t] = ctx[r].account /\ token[t] = "live" THEN "revoked"
                ELSE token[t]]
  /\ UNCHANGED <<userVars, owner, expired, reset>>

-----------------------------------------------------------------------------
\* UsersService.update (users.service.ts:14), for PATCH users/me: Object.assign
\* over the row that was read.  Of the fields the request may carry only
\* avatarUrl is a column.  The variant clears what the request does not carry.
AssignedWhole(r, row, avatar) == [row EXCEPT !["avatarUrl"] = IF avatar THEN r ELSE None]
Assigned(r, row, avatar) == IF avatar THEN [row EXCEPT !["avatarUrl"] = r] ELSE row

UpdateProfile(r, a, avatar) ==
  /\ Begin(r, [Call("profile", a, None, IF avatar THEN r ELSE None) EXCEPT
                 !.row = Assigned(r, profile[a], avatar), !.by = hash[a].by],
           IF a \in users THEN "save" ELSE "failed")
  /\ UNCHANGED <<userVars, tokenVars, expired, reset>>

\* save() writes back every column that was read and differs by now.  The
\* password is not read (user.entity.ts:18); in the variant it is.
HashAfterSaveSelected(r) ==
  LET by == ctx[r].by IN
  [hash EXCEPT ![ctx[r].account] =
    IF by = None THEN [pw |-> FirstPassword, rounds |-> 1, by |-> None]
    ELSE [@ EXCEPT !.pw = ctx[by].password, !.by = by]]
HashAfterSave(r) == hash

SaveProfile(r) ==
  LET a == ctx[r].account IN
  /\ Goto(r, "save", "ok")
  /\ profile' = [profile EXCEPT ![a] = ctx[r].row]
  /\ last' = IF ctx[r].target = None THEN last
             ELSE [last EXCEPT ![a]["avatarUrl"] = r]
  /\ Overtake(r)
  /\ hash' = HashAfterSave(r)
  /\ UNCHANGED <<users, key, tokenVars, expired, reset>>

-----------------------------------------------------------------------------
\* An await rejects or the process dies: the request ends where it is.  At this
\* commit line 74 always does (users has no encryptedPrivateKey column).
DbFails(r) ==
  /\ pc[r] \notin Ended \cup {"idle"}
  /\ pc' = [pc EXCEPT ![r] = "failed"]
  /\ UNCHANGED <<userVars, tokenVars, expired, reset, ctx>>

\* A refresh or reset token passes its expiresAt.
Expire(t) ==
  /\ t \notin expired
  /\ token[t] # "none" \/ (t \in Requests /\ reset[t] # "none")
  /\ expired' = expired \cup {t}
  /\ UNCHANGED <<userVars, tokenVars, reset, pc, ctx>>

Start(r) ==
  \/ \E a \in Accounts, p \in Passwords : Register(r, a, p) \/ Login(r, a, p)
  \/ \E t \in Tokens : Refresh(r, t) \/ \E a \in Accounts : Logout(r, a, t)
  \/ \E a \in Accounts : \/ ChangePassword(r, a) \/ ForgotPassword(r, a)
                         \/ \E avatar \in BOOLEAN : UpdateProfile(r, a, avatar)
  \/ \E x \in Requests, p \in Passwords : ResetPassword(r, x, p)

Continue(r) ==
  \/ CreateUser(r) \/ StoreKey(r) \/ GenerateTokens(r) \/ SendMail(r)
  \/ DecryptKey(r) \/ RemoveExpired(r) \/ RevokeOld(r) \/ RevokeOnLogout(r)
  \/ SaveReset(r) \/ UpdatePassword(r) \/ MarkUsed(r) \/ RevokeAll(r)
  \/ UpdateLastLogin(r) \/ SaveProfile(r)

Next ==
  \/ \E r \in Requests : Start(r) \/ Continue(r) \/ DbFails(r)
  \/ \E t \in Tokens : Expire(t)

Spec == Init /\ [][Next]_vars

-----------------------------------------------------------------------------
TypeOK ==
  /\ users \subseteq Accounts
  /\ hash \in [Accounts -> Hash]
  /\ key \in [Accounts -> Passwords \cup {None}]
  /\ profile \in [Accounts -> Profile] /\ last \in [Accounts -> Profile]
  /\ behind \subseteq Requests
  /\ token \in [Tokens -> {"none", "live", "revoked", "removed"}]
  /\ owner \in [Tokens -> Accounts \cup {None}]
  /\ expired \subseteq Tokens
  /\ reset \in [Requests -> {"none", "open", "used"}]
  /\ pc \in [Requests -> Steps]
  /\ ctx \in [Requests -> Ctx]

\* A refresh token that was revoked or removed is never accepted again, not
\* even when a request that read it before saves its copy over the row
\* (auth.service.ts:142, 153, 165, 256-259).
DeadStaysDead ==
  [][\A t \in Tokens :
       token[t] \in {"revoked", "removed"} => token'[t] \in {"revoked", "removed"}]_vars

\* The token a refresh was paid with is dead before the new one exists, so a
\* failure between lines 153 and 155 loses a session but never doubles it.
ParentSpent ==
  \A r \in Requests :
    (ctx[r].op = "refresh" /\ token[r] # "none") =>
      token[ctx[r].target] \in {"revoked", "removed"}

\* A reset token is only used up once the password it was for has been written:
\* a failure between lines 250 and 253 costs the user nothing.
UsedTokenChangedPassword ==
  \A x \in Requests : reset[x] = "used" =>
    \E r \in Requests : ctx[r].op = "reset" /\ hash[ctx[x].account].by = r

\* The private key of an account is encrypted under its password (line 69), or
\* not stored yet, until a reset replaces the one and leaves the other.  In
\* particular, when two registrations of one name both pass the check of line
\* 46, the loser never puts its key under the winner's password.
KeyUnderPassword ==
  \A a \in users :
    \/ key[a] \in {None, hash[a].pw}
    \/ \E r \in Requests : hash[a].by = r /\ ctx[r].op = "reset"

\* A step that changes a stored password stores that of its own request: a
\* profile update that overlaps a reset does not bring the old one back, as it
\* does with the other columns (users.service.ts:14, user.entity.ts:18).
PasswordNeverReverts ==
  [][\A a \in Accounts : hash'[a] # hash[a] =>
       \E r \in Requests : hash'[a].by = r /\ pc'[r] # pc[r]]_vars

\* An avatar or a last login that was written is gone only if a profile update
\* which had read the row before saved it afterwards (users.service.ts:14).
LostOnlyToOverlap ==
  \A a \in Accounts : profile[a] # last[a] =>
    \E r \in behind : pc[r] = "ok" /\ ctx[r].account = a

Ledger == INSTANCE TokenLedger WITH
  Initial <- Provisioned,
  state <- [t \in Tokens |-> CASE token[t] = "none" -> "unissued"
                               [] token[t] = "live" -> "live"
                               [] OTHER -> "dead"],
  parent <- [t \in Tokens |->
              IF t \in Requests /\ token[t] # "none" /\ ctx[t].op = "refresh"
              THEN ctx[t].target ELSE None]

\* The service implements the ledger.
LedgerSpec == Ledger!Spec

-----------------------------------------------------------------------------
(* What two comments of auth.service.ts say; each is refuted by a run.     *)

\* Line 151, "Rotate refresh token".  Refuted: two requests read the row before
\* either saves it, and both get a token for it.
RotatedOnce ==
  \A r, q \in Requests :
    (/\ r # q
     /\ ctx[r].op = "refresh" /\ ctx[q].op = "refresh"
     /\ token[r] # "none" /\ token[q] # "none") => ctx[r].target # ctx[q].target

\* Line 255, "Revoke all refresh tokens".  Refuted: a login that compared the
\* old password before the reset saves its token after the revocation.
ResetEndsOldLogins ==
  \A r, q \in Requests :
    (/\ ctx[r].op = "reset" /\ pc[r] = "ok" /\ hash[ctx[r].account].by = r
     /\ ctx[q].op = "login" /\ ctx[q].account = ctx[r].account /\ token[q] = "live")
      => ctx[q].by = r
=============================================================================
