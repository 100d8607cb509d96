------------------------------ MODULE Sessions ------------------------------
(***************************************************************************)
(* Accounts, their passwords and the rows of user_sessions, under the RPC  *)
(* handlers of AuthService and UserService that read and write them.       *)
(*                                                                         *)
(* A handler is a sequence of database statements; another handler may run *)
(* between any two of them, and a handler may stop after any of them (a    *)
(* statement fails, the client goes away and cancels ctx, the process      *)
(* dies).  One action is one statement; a transaction is two, its          *)
(* statements and its COMMIT, for what it writes is seen from then on.     *)
(*                                                                         *)
(* A password is a generation number: the value of users.password_hash     *)
(* after that many updates.  Brute-force protection is in LoginGuard.      *)
(***************************************************************************)
EXTENDS Naturals, FiniteSets

CONSTANTS
  User,           \* accounts
  Sid,            \* session ids (uuid.NewString never repeats one)
  Token,          \* password-reset tokens
  Req,            \* concurrent requests
  None,           \* "no value" in a request's locals
  SingleSession,  \* AUTH_SINGLE_SESSION
  Serial,         \* TRUE: write transactions never overlap (sqlite);
                  \* FALSE: READ COMMITTED (postgres)
  MaxPw,          \* bound on the password updates of one account
  MaxUses         \* bound on the confirmations with one reset token

ASSUME SessionsAssumption ==
  /\ IsFiniteSet(Req)
  /\ None \notin User \cup Sid \cup Token
  /\ SingleSession \in BOOLEAN
  /\ Serial \in BOOLEAN
  /\ MaxPw \in Nat
  /\ MaxUses \in Nat

VARIABLES
  users,        \* users[u]: password generation and state of the account
  session,      \* the row of user_sessions with a given id, if any
  owner,        \* user_id of the session row, None before it is created
  reset,        \* rows of password_reset_tokens
  req,          \* locals of the running requests
  cred,         \* history: the generation the session's login verified
  raced,        \* history: sessions created after that generation was replaced,
                \* or inside the transaction that replaces it
  interrupted,  \* history: users whose password change stopped half-way
  uses          \* history: password changes made with a reset token

dbVars == <<users, session, owner, reset>>
history == <<cred, raced, interrupted, uses>>
vars == <<dbVars, req, history>>

Pc == {"idle", "login", "committing", "refresh", "change", "changed",
       "confirm", "confirming"}

(* users.status, and "deleted" once deleted_at is set: from then on no      *)
(* handler sees the row, whatever its status.                               *)
Account == [pw : 0 .. MaxPw, state : {"enabled", "disabled", "deleted"}]

(* "expired": the row is there and its expires_at has passed.               *)
RowState == {"none", "live", "expired", "gone"}

ResetRow == [user : User \cup {None},
             state : {"none", "unused", "expired", "used"}]

Request == [pc : Pc, user : User \cup {None}, sid : Sid \cup {None},
            tok : Token \cup {None}, gen : 0 .. MaxPw, doomed : SUBSET Sid]

Idle == [pc |-> "idle", user |-> None, sid |-> None,
         tok |-> None, gen |-> 0, doomed |-> {}]

TypeOK ==
  /\ users \in [User -> Account]
  /\ session \in [Sid -> RowState]
  /\ owner \in [Sid -> User \cup {None}]
  /\ reset \in [Token -> ResetRow]
  /\ req \in [Req -> Request]
  /\ cred \in [Sid -> 0 .. MaxPw]
  /\ raced \subseteq Sid
  /\ interrupted \subseteq User
  /\ uses \in [Token -> 0 .. MaxUses]
  /\ \A s \in Sid : session[s] # "none" => owner[s] \in User
  /\ \A t \in Token : reset[t].state # "none" => reset[t].user \in User
  /\ \A r \in Req :
       /\ req[r].pc \in {"login", "committing", "change", "changed",
                        "confirm", "confirming"}
            => req[r].user \in User
       /\ req[r].pc \in {"committing", "refresh"}
            => req[r].sid \in Sid /\ owner[req[r].sid] \in User
       /\ req[r].pc \in {"committing", "confirming"}
            => \A s \in req[r].doomed : owner[s] \in User
       /\ req[r].pc \in {"confirm", "confirming"}
            => req[r].tok \in Token /\ reset[req[r].tok].user \in User

(* Accounts exist and are enabled; nobody has logged in yet. *)
Init ==
  /\ users = [u \in User |-> [pw |-> 0, state |-> "enabled"]]
  /\ session = [s \in Sid |-> "none"]
  /\ owner = [s \in Sid |-> None]
  /\ reset = [t \in Token |-> [user |-> None, state |-> "none"]]
  /\ req = [r \in Req |-> Idle]
  /\ cred = [s \in Sid |-> 0]
  /\ raced = {}
  /\ interrupted = {}
  /\ uses = [t \in Token |-> 0]

-----------------------------------------------------------------------------
rows == {s \in Sid : session[s] \in {"live", "expired"}}

RowsOf(u) == {s \in rows : owner[s] = u}

(* DELETE FROM user_sessions WHERE id IN S *)
Delete(S) == session' = [s \in Sid |-> IF s \in S THEN "gone" ELSE session[s]]

(* The client holds the token pair of a session from the login on; access   *)
(* tokens are stateless, so the pair outlives the session's row.            *)
HasToken(u) == \E s \in Sid : owner[s] = u /\ session[s] # "none"

(* gorm.First on users, with the soft-delete scope. *)
Exists(u) == users[u].state # "deleted"

Begin(r, fields) ==
  /\ req[r] = Idle
  /\ req' = [req EXCEPT ![r] = fields]

At(r, label) == req[r].pc = label

Goto(r, label) == req' = [req EXCEPT ![r].pc = label]

Finish(r) == req' = [req EXCEPT ![r] = Idle]

(* No statement writes while another connection holds sqlite's write lock,  *)
(* which a transaction keeps from its first write to its commit.            *)
Writable ==
  Serial => \A r \in Req : ~At(r, "committing") /\ ~At(r, "confirming")

(* An open ConfirmPasswordReset has updated the row of its user, if the     *)
(* account is not deleted: until the COMMIT every other UPDATE of it waits. *)
(* (So does a DELETE of rows that a transaction has deleted; here it takes  *)
(* them at once, which comes to the same once it has waited.)               *)
Unlocked(u) ==
  Exists(u) => \A r \in Req : At(r, "confirming") => req[r].user # u

-----------------------------------------------------------------------------
(* Login up to the last check: the row is read once and its hash and status *)
(* are compared with the request.  The caller knows the password of the     *)
(* generation now in the row; every other request is refused here.          *)
LoginVerify(r, u) ==
  /\ users[u].state = "enabled"
  /\ Begin(r, [Idle EXCEPT !.pc = "login", !.user = u, !.gen = users[u].pw])
  /\ UNCHANGED <<dbVars, history>>

(* Variants named "...Bug" are not part of the specification: each is a      *)
(* slip of the code it stands before, kept to show which property sees it.  *)

(* No eviction of the user's other sessions. *)
StartSessionEvictBug(r, s) ==
  /\ Writable
  /\ At(r, "login")
  /\ owner[s] = None
  /\ req' = [req EXCEPT ![r].pc = "committing", ![r].sid = s]
  /\ owner' = [owner EXCEPT ![s] = req[r].user]
  /\ cred' = [cred EXCEPT ![s] = req[r].gen]
  /\ UNCHANGED <<users, session, reset, raced, interrupted, uses>>

(* startSessionTx, the INSERT and the eviction: the DELETE takes the rows   *)
(* that are committed when it runs.                                         *)
StartSession(r, s) ==
  /\ At(r, "login")
  /\ owner[s] = None
  /\ Writable
  /\ req' = [req EXCEPT ![r] =
               [@ EXCEPT !.pc = "committing", !.sid = s,
                         !.doomed = IF SingleSession THEN RowsOf(req[r].user) ELSE {}]]
  /\ owner' = [owner EXCEPT ![s] = req[r].user]
  /\ cred' = [cred EXCEPT ![s] = req[r].gen]
  /\ UNCHANGED <<users, session, reset, raced, interrupted, uses>>

(* ... COMMIT.  The token pair (IssueAccess, IssueRefresh with jti = s) is   *)
(* minted in memory and goes out with the response.                         *)
CommitSession(r) ==
  /\ At(r, "committing")
  /\ session' = [s \in Sid |-> IF s = req[r].sid THEN "live"
                              ELSE IF s \in req[r].doomed THEN "gone"
                              ELSE session[s]]
  /\ raced' = IF \/ req[r].gen # users[req[r].user].pw
                 \/ \E q \in Req : At(q, "confirming") /\ req[q].user = req[r].user
                THEN raced \cup {req[r].sid} ELSE raced
  /\ Finish(r)
  /\ UNCHANGED <<users, owner, reset, cred, interrupted, uses>>

-----------------------------------------------------------------------------
(* Refresh: the session row is read by the token's jti ... *)
RefreshFind(r, s) ==
  /\ session[s] = "live"
  /\ Begin(r, [Idle EXCEPT !.pc = "refresh", !.user = owner[s], !.sid = s])
  /\ UNCHANGED <<dbVars, history>>

(* last_seen_at is saved with the row that was read (an upsert). *)
RefreshTouchBug(r) ==
  /\ Writable
  /\ At(r, "refresh")
  /\ session' = [session EXCEPT ![req[r].sid] = "live"]
  /\ Finish(r)
  /\ UNCHANGED <<users, owner, reset, history>>

(* ... and last_seen_at is set by an UPDATE, which changes no row when the   *)
(* session has gone meanwhile and never creates one.  The reads of user and *)
(* roles that follow, and the access token, change nothing stored.          *)
RefreshTouch(r) ==
  /\ Writable
  /\ At(r, "refresh")
  /\ Finish(r)
  /\ UNCHANGED <<dbVars, history>>

Logout(r, u) ==
  /\ Writable
  /\ HasToken(u)
  /\ req[r] = Idle
  /\ Delete(RowsOf(u))
  /\ UNCHANGED <<users, owner, reset, req, history>>

(* RevokeSession: the row is read to compare its user with the caller (that  *)
(* user, or an administrator) and deleted by id.  A row keeps its user, so  *)
(* nothing that runs between the two statements matters.                    *)
RevokeSession(r, s) ==
  /\ Writable
  /\ s \in rows
  /\ req[r] = Idle
  /\ Delete({s})
  /\ UNCHANGED <<users, owner, reset, req, history>>

-----------------------------------------------------------------------------
(* UPDATE users SET password_hash WHERE id = u: gorm's soft-delete scope    *)
(* makes it a no-op on a deleted account.  MaxPw bounds the model.          *)
PasswordUpdated(u) ==
  /\ users[u].pw < MaxPw
  /\ users' = [users EXCEPT ![u].pw = IF Exists(u) THEN @ + 1 ELSE @]

(* ChangePassword (the account itself, knowing the old password) and        *)
(* ResetPassword (an administrator, on any account) start with a read of    *)
(* the user's row and share their write side.  Policy and history checks    *)
(* only refuse requests.                                                    *)
ChangeFind(r, u) ==
  /\ Exists(u)
  /\ Begin(r, [Idle EXCEPT !.pc = "change", !.user = u])
  /\ UNCHANGED <<dbVars, history>>

UpdatePassword(r) ==
  /\ Writable
  /\ At(r, "change")
  /\ Unlocked(req[r].user)
  /\ PasswordUpdated(req[r].user)
  /\ Goto(r, "changed")
  /\ UNCHANGED <<session, owner, reset, history>>

(* ... then, as a statement of its own, every session of the user goes.     *)
DeleteSessions(r) ==
  /\ Writable
  /\ At(r, "changed")
  /\ Delete(RowsOf(req[r].user))
  /\ interrupted' = interrupted \ {req[r].user}
  /\ Finish(r)
  /\ UNCHANGED <<users, owner, reset, cred, raced, uses>>

-----------------------------------------------------------------------------
RequestPasswordReset(r, u, t) ==
  /\ Writable
  /\ req[r] = Idle
  /\ Exists(u)
  /\ reset[t].state = "none"
  /\ reset' = [reset EXCEPT ![t] = [user |-> u, state |-> "unused"]]
  /\ UNCHANGED <<users, session, owner, req, history>>

(* The lookup forgets used_at IS NULL. *)
ConfirmFindBug(r, t) ==
  /\ reset[t].state \in {"unused", "used"}
  /\ Begin(r, [Idle EXCEPT !.pc = "confirm", !.user = reset[t].user, !.tok = t])
  /\ UNCHANGED <<dbVars, history>>

(* ConfirmPasswordReset: the token is looked up unused and unexpired ...    *)
ConfirmFind(r, t) ==
  /\ reset[t].state = "unused"
  /\ Begin(r, [Idle EXCEPT !.pc = "confirm", !.user = reset[t].user, !.tok = t])
  /\ UNCHANGED <<dbVars, history>>

(* The transaction leaves the sessions alone. *)
ConfirmTxBug(r) ==
  /\ Writable
  /\ At(r, "confirm")
  /\ Unlocked(req[r].user)
  /\ \A q \in Req : At(q, "confirming") => req[q].tok # req[r].tok
  /\ Goto(r, "confirming")
  /\ UNCHANGED <<dbVars, history>>

(* ... and one transaction sets the password, stamps used_at by id, which   *)
(* locks both rows, and deletes the sessions that are committed when its    *)
(* DELETE runs; ...                                                         *)
ConfirmTx(r) ==
  /\ Writable
  /\ At(r, "confirm")
  /\ Unlocked(req[r].user)
  /\ \A q \in Req : At(q, "confirming") => req[q].tok # req[r].tok
  /\ req' = [req EXCEPT ![r] =
               [@ EXCEPT !.pc = "confirming", !.doomed = RowsOf(req[r].user)]]
  /\ UNCHANGED <<dbVars, history>>

(* ... COMMIT: new password, used token and deleted rows are there at once. *)
(* A login that had checked the old password may have committed its row     *)
(* since the DELETE (READ COMMITTED): that row stays.                       *)
ConfirmCommit(r) ==
  /\ At(r, "confirming")
  /\ PasswordUpdated(req[r].user)
  /\ reset' = [reset EXCEPT ![req[r].tok].state = "used"]
  /\ Delete(req[r].doomed)
  /\ uses[req[r].tok] < MaxUses
  /\ uses' = [uses EXCEPT ![req[r].tok] = @ + 1]
  /\ interrupted' = interrupted \ {req[r].user}
  /\ Finish(r)
  /\ UNCHANGED <<owner, cred, raced>>

-----------------------------------------------------------------------------
(* UserService.UpdateUser by an administrator, its transaction: of the      *)
(* columns it sets only status matters here; sessions stay.                 *)
UpdateUser(u, status) ==
  /\ Writable
  /\ Exists(u)
  /\ Unlocked(u)
  /\ users' = [users EXCEPT ![u].state = status]
  /\ UNCHANGED <<session, owner, reset, req, history>>

(* UserService.DeleteUser is a soft delete; sessions stay. *)
DeleteUser(u) ==
  /\ Writable
  /\ Exists(u)
  /\ Unlocked(u)
  /\ users' = [users EXCEPT ![u].state = "deleted"]
  /\ UNCHANGED <<session, owner, reset, req, history>>

(* Time passes expires_at of a session row, or of a reset token. *)
ExpireSession(s) ==
  /\ session[s] = "live"
  /\ session' = [session EXCEPT ![s] = "expired"]
  /\ UNCHANGED <<users, owner, reset, req, history>>

ExpireToken(t) ==
  /\ reset[t].state = "unused"
  /\ reset' = [reset EXCEPT ![t].state = "expired"]
  /\ UNCHANGED <<users, session, owner, req, history>>

(* The session_cleanup job. *)
SessionCleanup ==
  /\ Writable
  /\ Delete({s \in Sid : session[s] = "expired"})
  /\ UNCHANGED <<users, owner, reset, req, history>>

(* A handler stops before its next statement: a statement error, a client   *)
(* that disconnected (every statement runs under the request's ctx), or a   *)
(* crash.  An open transaction rolls back, and has raced nobody.            *)
Abort(r) ==
  /\ req[r] # Idle
  /\ Finish(r)
  /\ raced' = IF At(r, "confirming")
                THEN raced \ {s \in RowsOf(req[r].user) :
                               cred[s] = users[req[r].user].pw}
                ELSE raced
  /\ interrupted' = IF At(r, "changed") THEN interrupted \cup {req[r].user}
                                        ELSE interrupted
  /\ UNCHANGED <<dbVars, cred, uses>>

Login(r) ==
  \/ \E u \in User : LoginVerify(r, u)
  \/ \E s \in Sid : StartSession(r, s)
  \/ CommitSession(r)

Refresh(r) ==
  \/ \E s \in Sid : RefreshFind(r, s)
  \/ RefreshTouch(r)

ChangePassword(r) ==
  \/ \E u \in User : ChangeFind(r, u)
  \/ UpdatePassword(r)
  \/ DeleteSessions(r)

PasswordReset(r) ==
  \/ \E u \in User, t \in Token : RequestPasswordReset(r, u, t)
  \/ \E t \in Token : ConfirmFind(r, t)
  \/ ConfirmTx(r)
  \/ ConfirmCommit(r)

Environment ==
  \/ \E u \in User, status \in {"enabled", "disabled"} : UpdateUser(u, status)
  \/ \E u \in User : DeleteUser(u)
  \/ \E s \in Sid : ExpireSession(s)
  \/ \E t \in Token : ExpireToken(t)
  \/ SessionCleanup

Next ==
  \/ \E r \in Req :
       \/ Login(r)
       \/ Refresh(r)
       \/ \E u \in User : Logout(r, u)
       \/ \E s \in Sid : RevokeSession(r, s)
       \/ ChangePassword(r)
       \/ PasswordReset(r)
       \/ Abort(r)
  \/ Environment

Spec == Init /\ [][Next]_vars

-----------------------------------------------------------------------------
(* With AUTH_SINGLE_SESSION and overlapping logins of one user, the last    *)
(* commit leaves that user one session row (startSessionTx).                *)
OneSessionPerUser ==
  SingleSession => \A s, t \in rows : owner[s] = owner[t] => s = t

(* A session opened with a replaced password is on its way out: its user's  *)
(* change has yet to run its DELETE.  The exceptions are what the handlers  *)
(* allow: the password was replaced, or a transaction that replaces it had  *)
(* run its DELETE, between that login's check and its COMMIT; or the change *)
(* stopped between its UPDATE and its DELETE.                               *)
CredentialRevocation ==
  \A s \in rows :
    cred[s] < users[owner[s]].pw =>
      \/ s \in raced
      \/ owner[s] \in interrupted
      \/ \E r \in Req : At(r, "changed") /\ req[r].user = owner[s]

(* A reset token is accepted again only for requests that had looked it up  *)
(* before its first use committed, so never more often than requests can    *)
(* overlap (ConfirmPasswordReset, used_at IS NULL).                         *)
UsesBoundedByOverlap ==
  \A t \in Token :
    uses[t] > 0 =>
      uses[t] + Cardinality({r \in Req : /\ At(r, "confirm") \/ At(r, "confirming")
                                         /\ req[r].tok = t})
        <= Cardinality(Req)

(* Revocation is final: a session row that has been deleted never comes     *)
(* back, so a refresh that starts afterwards is refused (Refresh updates    *)
(* last_seen_at of a row it read earlier, and must not re-create it).       *)
NoResurrection ==
  [][\A s \in Sid : session[s] = "gone" => session'[s] = "gone"]_vars

-----------------------------------------------------------------------------
(* "tokens are single-use" (model/password.go).  The code does not keep     *)
(* this: a token is read unused and marked used by its id, so that calls    *)
(* that overlap all use it (UsesBoundedByOverlap is what holds).            *)
ResetTokenSingleUse == \A t \in Token : uses[t] <= 1

(* "revokes all their sessions so the change takes effect immediately"      *)
(* (user_service.go): once the change has run to its end, no session opened *)
(* with the old password is left.  The code does not keep this: a login     *)
(* that has checked the old password may open its session afterwards        *)
(* (CredentialRevocation is what holds).                                    *)
ChangeTakesEffect ==
  \A s \in rows :
    cred[s] < users[owner[s]].pw =>
      \/ owner[s] \in interrupted
      \/ \E r \in Req : At(r, "changed") /\ req[r].user = owner[s]
=============================================================================
