--------------------------- MODULE SessionsProofs ---------------------------
(***************************************************************************)
(* Proofs about Sessions, for every set of users, ids, tokens and requests *)
(* and every bound.                                                        *)
(***************************************************************************)
EXTENDS Sessions, FiniteSetTheorems, TLAPS

(* What is known of a login between its INSERT and its COMMIT: the id it    *)
(* drew has no visible row yet and is no other login's, and the rows it is  *)
(* about to delete had been committed.                                      *)
CommitInv ==
  /\ \A r \in Req : At(r, "committing") =>
       /\ session[req[r].sid] = "none"
       /\ owner[req[r].sid] = req[r].user
       /\ cred[req[r].sid] = req[r].gen
       /\ \A x \in req[r].doomed : session[x] # "none"
  /\ \A q, r \in Req :
       At(q, "committing") /\ At(r, "committing") /\ req[q].sid = req[r].sid => q = r

(* A credential on record is never newer than the account's password. *)
GenInv ==
  /\ \A r \in Req : req[r].pc \in {"login", "committing"} =>
       req[r].gen <= users[req[r].user].pw
  /\ \A s \in Sid : session[s] # "none" => cred[s] <= users[owner[s]].pw

(* With serialised writers one login at a time is inside its transaction,   *)
(* and its DELETE covers every row its user still has.                      *)
EvictionInv ==
  /\ \A q, r \in Req : At(q, "committing") /\ At(r, "committing") => q = r
  /\ SingleSession => \A r \in Req :
       At(r, "committing") => RowsOf(req[r].user) \subseteq req[r].doomed

(* What is known of a ConfirmPasswordReset between its DELETE and its       *)
(* COMMIT: it is alone with the row of its user, and the rows of that user  *)
(* are those it deletes and those that came in between.  An account that is *)
(* deleted has no row to lock, and no password to replace.                  *)
Transacting(r, u) ==
  /\ \A x \in req[r].doomed : session[x] # "none"
  /\ \A x \in RowsOf(u) \ req[r].doomed :
       x \in raced \/ (~Exists(u) /\ cred[x] = users[u].pw)
  /\ Exists(u) => \A q \in Req : At(q, "confirming") /\ req[q].user = u => q = r

ConfirmInv ==
  \A r \in Req, u \in User :
    At(r, "confirming") /\ req[r].user = u => Transacting(r, u)

(* A password change of u is under way or was cut short. *)
Excused(u) ==
  \/ u \in interrupted
  \/ \E r \in Req : At(r, "changed") /\ req[r].user = u

(* No row of u needs an excuse: each is of the password of now, or raced.   *)
Settled(u) == \A s \in RowsOf(u) : s \in raced \/ cred[s] = users[u].pw

(* What every step does, except the two that create a row: rows only expire *)
(* or go, ...                                                               *)
QuietRows ==
  /\ owner' = owner /\ cred' = cred
  /\ \A s \in Sid :
       \/ session'[s] = session[s]
       \/ session[s] = "live" /\ session'[s] = "expired"
       \/ session[s] \in {"live", "expired"} /\ session'[s] = "gone"

(* ... what counts as raced does so for good, unless it is of the password  *)
(* of now and no transaction is at work that would replace it, ...          *)
QuietRaces ==
  /\ raced' \subseteq raced
  /\ \A s \in raced \ raced' :
       /\ users' = users
       /\ cred[s] = users[owner[s]].pw
       /\ \A q \in Req :
            At(q, "confirming")' /\ req'[q].user = owner[s] => ~Exists(owner[s])

(* ... no request enters a login's transaction, or logs in with an old      *)
(* password, a reset enters its own with every row of its user in view, ... *)
QuietReqs ==
  \A r \in Req :
    /\ req'[r].pc = "committing" => req'[r] = req[r]
    /\ req'[r].pc = "confirming" =>
         \/ req'[r] = req[r]
         \/ /\ req'[r].doomed = RowsOf(req'[r].user)
            /\ \A q \in Req \ {r} : req'[q] = req[q]
            /\ Exists(req'[r].user) =>
                 \A q \in Req : At(q, "confirming") => req[q].user # req'[r].user
    /\ req'[r].pc = "login" =>
         req'[r] = req[r] \/ req'[r].gen = users[req'[r].user].pw

(* ... deleted accounts keep what they have, passwords only get newer, and  *)
(* a step that replaces a password or ends an excuse leaves an excuse or no *)
(* row that needs one.                                                      *)
QuietUsers ==
  \A u \in User :
    /\ users[u].pw <= users'[u].pw
    /\ ~Exists(u) => users'[u] = users[u]
    /\ Excused(u) \/ users'[u].pw # users[u].pw => Excused(u)' \/ Settled(u)'

Quiet == QuietRows /\ QuietRaces /\ QuietReqs /\ QuietUsers

LEMMA IdleType == Idle \in Request
  BY SessionsAssumption DEF Idle, Request, Pc

LEMMA TypeInit == Init => TypeOK
  BY SessionsAssumption, IdleType
  DEF Init, TypeOK, Account, RowState, ResetRow, Idle

(* The UPDATE of a password changes no other column and no other account.   *)
LEMMA AccountUpdated ==
  ASSUME NEW u \in User, users \in [User -> Account], PasswordUpdated(u)
  PROVE  /\ users' \in [User -> Account]
         /\ \A v \in User : users[v].pw <= users'[v].pw
         /\ \A v \in User \ {u} : users'[v] = users[v]
         /\ ~Exists(u) => users'[u] = users[u]
  <1>1. users' = [users EXCEPT ![u] =
                    [users[u] EXCEPT !.pw = IF Exists(u) THEN @ + 1 ELSE @]]
    BY DEF PasswordUpdated
  <1>2. users[u].pw \in 0 .. MaxPw /\ users[u].pw + 1 \in 0 .. MaxPw
    BY SessionsAssumption DEF PasswordUpdated, Account
  <1>3. users'[u] \in Account /\ users[u].pw <= users'[u].pw
    BY <1>1, <1>2 DEF Account
  <1>4. \A v \in User : users[v].pw <= users[v].pw
    BY SessionsAssumption DEF Account
  <1>5. ~Exists(u) => users'[u] = users[u]
    BY <1>1 DEF Account
  <1> QED
    BY <1>1, <1>3, <1>4, <1>5

LEMMA TypeNext == TypeOK /\ [Next]_vars => TypeOK'
<1> SUFFICES ASSUME TypeOK, [Next]_vars PROVE TypeOK'
  OBVIOUS
<1> USE SessionsAssumption, IdleType
    DEF TypeOK, Account, RowState, ResetRow, Request, Pc, Idle, vars, dbVars,
        history, At, Goto, Finish, Begin, Delete
<1>1. ASSUME NEW r \in Req, NEW u \in User, LoginVerify(r, u) PROVE TypeOK'
  BY <1>1, ZenonT(30) DEF LoginVerify
<1>2. ASSUME NEW r \in Req, NEW s \in Sid, StartSession(r, s) PROVE TypeOK'
  <2> DEFINE gone == IF SingleSession THEN RowsOf(req[r].user) ELSE {}
  <2>1. gone \in SUBSET Sid /\ \A x \in gone : owner[x] = req[r].user
    BY DEF RowsOf, rows
  <2> HIDE DEF gone
  <2>2. req' = [req EXCEPT ![r] = [req[r] EXCEPT !.pc = "committing", !.sid = s,
                                                !.doomed = gone]]
    BY <1>2 DEF StartSession, gone
  <2>3. req'[r] \in Request /\ req' \in [Req -> Request]
    BY <2>1, <2>2, ZenonT(30)
  <2>4. req[r].user \in User /\ req[r].gen \in 0 .. MaxPw
    BY <1>2 DEF StartSession
  <2>5. /\ owner' \in [Sid -> User \cup {None}]
        /\ cred' \in [Sid -> 0 .. MaxPw]
        /\ \A t \in Sid : session'[t] # "none" => owner'[t] \in User
    BY <1>2, <2>4 DEF StartSession
  <2>6. ASSUME NEW q \in Req
        PROVE
          /\ req'[q].pc \in {"login", "committing", "change", "changed", "confirm", "confirming"}
               => req'[q].user \in User
          /\ req'[q].pc \in {"committing", "refresh"}
               => req'[q].sid \in Sid /\ owner'[req'[q].sid] \in User
          /\ req'[q].pc \in {"committing", "confirming"}
               => \A x \in req'[q].doomed : owner'[x] \in User
          /\ req'[q].pc \in {"confirm", "confirming"}
               => req'[q].tok \in Token /\ reset'[req'[q].tok].user \in User
    <3>1. \A x \in Sid : owner[x] \in User => owner'[x] \in User
      BY <1>2, <2>4 DEF StartSession
    <3>2. \A p \in Req \ {r} : req'[p] = req[p]
      BY <2>2
    <3>3. /\ req'[r].pc = "committing" /\ req'[r].user = req[r].user
          /\ req'[r].sid = s /\ req'[r].doomed = gone
      BY <2>2
    <3>4. reset' = reset /\ owner'[s] \in User
      BY <1>2, <2>4 DEF StartSession
    <3>5. CASE q = r
      <4>1. \A x \in gone : owner'[x] \in User
        BY <3>1, <2>1, <2>4
      <4> QED
        BY <4>1, <3>3, <3>4, <3>5, <2>4
    <3>6. CASE q # r
      BY <3>1, <3>2, <3>4, <3>6
    <3> QED
      BY <3>5, <3>6
  <2> QED
    BY <1>2, <2>3, <2>5, <2>6 DEF StartSession
<1>3. ASSUME NEW r \in Req, CommitSession(r) PROVE TypeOK'
  <2>1. session' \in [Sid -> RowState]
    BY <1>3 DEF CommitSession
  <2>2. req[r].user \in User /\ req[r].sid \in Sid
    BY <1>3 DEF CommitSession
  <2>3. \A s \in Sid : session'[s] # "none" => owner'[s] \in User
    BY <1>3, <2>2 DEF CommitSession
  <2> QED
    BY <1>3, <2>1, <2>2, <2>3 DEF CommitSession
<1>4. ASSUME NEW r \in Req, NEW s \in Sid, RefreshFind(r, s) PROVE TypeOK'
  BY <1>4, ZenonT(30) DEF RefreshFind
<1>5. ASSUME NEW r \in Req, RefreshTouch(r) PROVE TypeOK'
  BY <1>5 DEF RefreshTouch
<1>6. ASSUME NEW r \in Req, NEW u \in User, Logout(r, u) PROVE TypeOK'
  BY <1>6 DEF Logout, RowsOf, rows
<1>7. ASSUME NEW r \in Req, NEW s \in Sid, RevokeSession(r, s) PROVE TypeOK'
  BY <1>7 DEF RevokeSession, rows
<1>8. ASSUME NEW r \in Req, NEW u \in User, ChangeFind(r, u) PROVE TypeOK'
  BY <1>8, ZenonT(30) DEF ChangeFind
<1>9. ASSUME NEW r \in Req, UpdatePassword(r) PROVE TypeOK'
  <2>1. req[r].user \in User
    BY <1>9 DEF UpdatePassword
  <2>2. users' \in [User -> Account]
    BY <1>9, <2>1, AccountUpdated DEF UpdatePassword
  <2>3. req' = [req EXCEPT ![r] = [req[r] EXCEPT !.pc = "changed"]]
    BY <1>9 DEF UpdatePassword
  <2>4. req' \in [Req -> Request]
    BY <2>3, ZenonT(30)
  <2>5. /\ req'[r].user = req[r].user /\ req'[r].pc = "changed"
        /\ \A q \in Req \ {r} : req'[q] = req[q]
    BY <2>3
  <2> QED
    BY <1>9, <2>1, <2>2, <2>4, <2>5 DEF UpdatePassword
<1>10. ASSUME NEW r \in Req, DeleteSessions(r) PROVE TypeOK'
  BY <1>10 DEF DeleteSessions, RowsOf, rows
<1>11. ASSUME NEW r \in Req, NEW u \in User, NEW t \in Token,
              RequestPasswordReset(r, u, t)
       PROVE TypeOK'
  BY <1>11 DEF RequestPasswordReset
<1>12. ASSUME NEW r \in Req, NEW t \in Token, ConfirmFind(r, t) PROVE TypeOK'
  BY <1>12, ZenonT(30) DEF ConfirmFind
<1>13. ASSUME NEW r \in Req, ConfirmTx(r) PROVE TypeOK'
  <2> DEFINE gone == RowsOf(req[r].user)
  <2>1. /\ gone \in SUBSET Sid /\ \A x \in gone : owner[x] = req[r].user
        /\ req[r].user \in User
    BY <1>13 DEF ConfirmTx, RowsOf, rows
  <2>2. /\ req' = [req EXCEPT ![r] = [req[r] EXCEPT !.pc = "confirming", !.doomed = gone]]
        /\ UNCHANGED <<users, session, owner, reset, cred, raced, interrupted, uses>>
    BY <1>13 DEF ConfirmTx
  <2> HIDE DEF gone
  <2>3. req'[r] \in Request /\ req' \in [Req -> Request]
    BY <2>1, <2>2, ZenonT(30)
  <2>4. /\ req'[r].pc = "confirming" /\ req'[r].user = req[r].user
        /\ req'[r].tok = req[r].tok /\ req'[r].doomed = gone
        /\ \A q \in Req \ {r} : req'[q] = req[q]
    BY <2>2
  <2>5. req[r].tok \in Token /\ reset[req[r].tok].user \in User
    BY <1>13 DEF ConfirmTx
  <2> QED
    BY <2>1, <2>2, <2>3, <2>4, <2>5
<1>17. ASSUME NEW r \in Req, ConfirmCommit(r) PROVE TypeOK'
  <2>1. req[r].user \in User /\ req[r].tok \in Token
    BY <1>17 DEF ConfirmCommit
  <2>2. users' \in [User -> Account]
    BY <1>17, <2>1, AccountUpdated DEF ConfirmCommit
  <2>3. session' \in [Sid -> RowState]
    BY <1>17 DEF ConfirmCommit
  <2>4. \A s \in Sid : session'[s] # "none" => owner'[s] \in User
    BY <1>17 DEF ConfirmCommit
  <2>5. reset' \in [Token -> ResetRow]
    BY <1>17, <2>1 DEF ConfirmCommit
  <2>6. uses' \in [Token -> 0 .. MaxUses]
    BY <1>17, <2>1 DEF ConfirmCommit
  <2>7. req' \in [Req -> Request]
    BY <1>17 DEF ConfirmCommit
  <2>8. interrupted' \subseteq User
    BY <1>17 DEF ConfirmCommit
  <2>9. \A t \in Token : reset'[t].state # "none" => reset'[t].user \in User
    BY <1>17, <2>1 DEF ConfirmCommit
  <2>10. \A q \in Req :
          /\ req'[q].pc \in {"login", "committing", "change", "changed", "confirm", "confirming"}
               => req'[q].user \in User
          /\ req'[q].pc \in {"committing", "refresh"}
               => req'[q].sid \in Sid /\ owner'[req'[q].sid] \in User
          /\ req'[q].pc \in {"committing", "confirming"}
               => \A x \in req'[q].doomed : owner'[x] \in User
          /\ req'[q].pc \in {"confirm", "confirming"}
               => req'[q].tok \in Token /\ reset'[req'[q].tok].user \in User
    BY <1>17, <2>1 DEF ConfirmCommit
  <2> QED
    BY <1>17, <2>2, <2>3, <2>4, <2>5, <2>6, <2>7, <2>8, <2>9, <2>10 DEF ConfirmCommit
<1>14. ASSUME NEW r \in Req, Abort(r) PROVE TypeOK'
  BY <1>14 DEF Abort
<1>15. CASE Environment
  <2>1. ASSUME NEW u \in User, NEW status \in {"enabled", "disabled"},
               UpdateUser(u, status)
        PROVE TypeOK'
    BY <2>1 DEF UpdateUser
  <2>2. ASSUME NEW u \in User, DeleteUser(u) PROVE TypeOK'
    BY <2>2 DEF DeleteUser
  <2>3. ASSUME NEW s \in Sid, ExpireSession(s) PROVE TypeOK'
    BY <2>3 DEF ExpireSession
  <2>4. ASSUME NEW t \in Token, ExpireToken(t) PROVE TypeOK'
    BY <2>4 DEF ExpireToken
  <2>5. CASE SessionCleanup
    BY <2>5 DEF SessionCleanup
  <2> QED
    BY <1>15, <2>1, <2>2, <2>3, <2>4, <2>5 DEF Environment
<1>16. CASE UNCHANGED vars
  BY <1>16
<1> QED
  BY <1>1, <1>2, <1>3, <1>4, <1>5, <1>6, <1>7, <1>8, <1>9, <1>10, <1>11, <1>12,
     <1>13, <1>14, <1>15, <1>16, <1>17
  DEF Next, Login, Refresh, ChangePassword, PasswordReset

(* Type correctness of Sessions, for every instance. *)
THEOREM TypeCorrect == Spec => []TypeOK
  BY TypeInit, TypeNext, PTL DEF Spec

-----------------------------------------------------------------------------
(* Deleting rows is quiet, and leaves no row behind. *)
LEMMA DeleteRows ==
  ASSUME TypeOK, NEW S \in SUBSET rows, Delete(S), owner' = owner, cred' = cred
  PROVE  QuietRows
  BY DEF TypeOK, Delete, rows, QuietRows

LEMMA DeleteAllRows ==
  ASSUME TypeOK, NEW u \in User, Delete(RowsOf(u)), owner' = owner
  PROVE  RowsOf(u)' = {}
  BY DEF TypeOK, Delete, rows, RowsOf

LEMMA KeepRows ==
  ASSUME session' = session, owner' = owner, cred' = cred
  PROVE  QuietRows
  BY DEF QuietRows

LEMMA KeepRaces ==
  ASSUME raced' = raced
  PROVE  QuietRaces
  BY DEF QuietRaces

(* A request that moves, and not into a transaction. *)
LEMMA MoveReq ==
  ASSUME TypeOK, NEW r \in Req, NEW x, req' = [req EXCEPT ![r] = x],
         x.pc \notin {"committing", "confirming"}, x.pc = "login" => x.gen = users[x.user].pw
  PROVE  QuietReqs
  BY DEF TypeOK, QuietReqs

LEMMA KeepReqs ==
  ASSUME req' = req
  PROVE  QuietReqs
  BY DEF QuietReqs

LEMMA PwReflexive ==
  ASSUME TypeOK, NEW u \in User
  PROVE  users[u].pw \in Nat /\ users[u].pw <= users[u].pw
  BY SessionsAssumption DEF TypeOK, Account

(* A request that neither starts nor ends a half-way password change leaves *)
(* the excuses alone.                                                       *)
LEMMA MoveUsers ==
  ASSUME TypeOK, NEW r \in Req, NEW x, req' = [req EXCEPT ![r] = x],
         req[r].pc # "changed", users' = users, interrupted' = interrupted
  PROVE  QuietUsers
  <1>1. \A q \in Req : req[q].pc = "changed" => req'[q] = req[q]
    BY DEF TypeOK
  <1>2. ASSUME NEW u \in User, Excused(u) PROVE Excused(u)'
    BY <1>1, <1>2 DEF Excused, At
  <1> QED
    BY <1>2, PwReflexive DEF QuietUsers

LEMMA KeepUsers ==
  ASSUME TypeOK, req' = req, interrupted' = interrupted,
         \A u \in User : /\ users'[u].pw = users[u].pw
                         /\ ~Exists(u) => users'[u] = users[u]
  PROVE  QuietUsers
  <1>1. ASSUME NEW u \in User, Excused(u) PROVE Excused(u)'
    BY <1>1 DEF Excused, At
  <1> QED
    BY <1>1, PwReflexive DEF QuietUsers

LEMMA QuietNext ==
  ASSUME TypeOK, ConfirmInv, [Next]_vars
  PROVE  \/ Quiet
         \/ \E r \in Req, s \in Sid : StartSession(r, s)
         \/ \E r \in Req : CommitSession(r)
<1> USE DEF Quiet, At, Finish
<1>0. Idle.pc = "idle"
  BY DEF Idle
<1>1. ASSUME NEW r \in Req, NEW u \in User, LoginVerify(r, u) PROVE Quiet
  <2> DEFINE x == [Idle EXCEPT !.pc = "login", !.user = u, !.gen = users[u].pw]
  <2>1. /\ req' = [req EXCEPT ![r] = x] /\ req[r].pc = "idle"
        /\ UNCHANGED <<users, session, owner, cred, raced, interrupted>>
    BY <1>0, <1>1 DEF LoginVerify, Begin, dbVars, history
  <2>2. x.pc = "login" /\ x.gen = users[x.user].pw
    BY DEF Idle
  <2> HIDE DEF x
  <2> QED
    BY <2>1, <2>2, KeepRows, KeepRaces, MoveReq, MoveUsers
<1>2. ASSUME NEW r \in Req, NEW s \in Sid, RefreshFind(r, s) PROVE Quiet
  <2> DEFINE x == [Idle EXCEPT !.pc = "refresh", !.user = owner[s], !.sid = s]
  <2>1. /\ req' = [req EXCEPT ![r] = x] /\ req[r].pc = "idle"
        /\ UNCHANGED <<users, session, owner, cred, raced, interrupted>>
    BY <1>0, <1>2 DEF RefreshFind, Begin, dbVars, history
  <2>2. x.pc = "refresh"
    BY DEF Idle
  <2> HIDE DEF x
  <2> QED
    BY <2>1, <2>2, KeepRows, KeepRaces, MoveReq, MoveUsers
<1>3. ASSUME NEW r \in Req, RefreshTouch(r) PROVE Quiet
  <2>1. /\ req' = [req EXCEPT ![r] = Idle] /\ req[r].pc = "refresh"
        /\ UNCHANGED <<users, session, owner, cred, raced, interrupted>>
    BY <1>3 DEF RefreshTouch, dbVars, history
  <2> QED
    BY <1>0, <2>1, KeepRows, KeepRaces, MoveReq, MoveUsers
<1>4. ASSUME NEW r \in Req, NEW u \in User, Logout(r, u) PROVE Quiet
  <2>1. RowsOf(u) \in SUBSET rows /\ Delete(RowsOf(u))
    BY <1>4 DEF Logout, RowsOf
  <2>2. UNCHANGED <<users, owner, req, cred, raced, interrupted>>
    BY <1>4 DEF Logout, history
  <2> QED
    BY <2>1, <2>2, DeleteRows, KeepRaces, KeepReqs, KeepUsers
<1>5. ASSUME NEW r \in Req, NEW s \in Sid, RevokeSession(r, s) PROVE Quiet
  <2>1. {s} \in SUBSET rows /\ Delete({s})
    BY <1>5 DEF RevokeSession
  <2>2. UNCHANGED <<users, owner, req, cred, raced, interrupted>>
    BY <1>5 DEF RevokeSession, history
  <2> QED
    BY <2>1, <2>2, DeleteRows, KeepRaces, KeepReqs, KeepUsers
<1>6. ASSUME NEW r \in Req, NEW u \in User, ChangeFind(r, u) PROVE Quiet
  <2> DEFINE x == [Idle EXCEPT !.pc = "change", !.user = u]
  <2>1. /\ req' = [req EXCEPT ![r] = x] /\ req[r].pc = "idle"
        /\ UNCHANGED <<users, session, owner, cred, raced, interrupted>>
    BY <1>0, <1>6 DEF ChangeFind, Begin, dbVars, history
  <2>2. x.pc = "change"
    BY DEF Idle
  <2> HIDE DEF x
  <2> QED
    BY <2>1, <2>2, KeepRows, KeepRaces, MoveReq, MoveUsers
<1>7. ASSUME NEW r \in Req, UpdatePassword(r) PROVE Quiet
  <2> DEFINE x == [req[r] EXCEPT !.pc = "changed"]
  <2>0. PICK v \in User : v = req[r].user
    BY <1>7 DEF UpdatePassword, TypeOK
  <2>1. /\ req' = [req EXCEPT ![r] = x] /\ req[r].pc = "change"
        /\ UNCHANGED <<session, owner, cred, raced, interrupted>>
        /\ PasswordUpdated(v)
    BY <1>7, <2>0 DEF UpdatePassword, Goto, history
  <2>2. x.pc = "changed" /\ x.user = v
    BY <2>0, <2>1 DEF TypeOK, Request
  <2>3. /\ \A u \in User : users[u].pw <= users'[u].pw
        /\ \A u \in User \ {v} : users'[u] = users[u]
        /\ ~Exists(v) => users'[v] = users[v]
    BY <2>1, <2>2, AccountUpdated DEF TypeOK
  <2> HIDE DEF x
  <2>4. req'[r] = x /\ \A q \in Req \ {r} : req'[q] = req[q]
    BY <2>1 DEF TypeOK
  <2>5. Excused(v)'
    BY <2>2, <2>4 DEF Excused
  <2>6. ASSUME NEW u \in User \ {v}, Excused(u) PROVE Excused(u)'
    BY <2>1, <2>4, <2>6 DEF Excused
  <2>7. QuietUsers
    BY <2>3, <2>5, <2>6 DEF QuietUsers
  <2> QED
    BY <2>1, <2>2, <2>7, KeepRows, KeepRaces, MoveReq
<1>8. ASSUME NEW r \in Req, DeleteSessions(r) PROVE Quiet
  <2>0. PICK v \in User : v = req[r].user
    BY <1>8 DEF DeleteSessions, TypeOK
  <2>1. /\ req' = [req EXCEPT ![r] = Idle] /\ Delete(RowsOf(v))
        /\ UNCHANGED <<users, owner, cred, raced>>
        /\ interrupted' = interrupted \ {v}
    BY <1>8, <2>0 DEF DeleteSessions
  <2>2. RowsOf(v) \in SUBSET rows
    BY DEF RowsOf
  <2>3. Settled(v)'
    BY <2>1, <2>2, DeleteAllRows DEF Settled
  <2>4. ASSUME NEW u \in User \ {v}, Excused(u) PROVE Excused(u)'
    BY <2>0, <2>1, <2>4, <1>0 DEF Excused, TypeOK
  <2>5. QuietUsers
    BY <2>1, <2>3, <2>4, PwReflexive DEF QuietUsers
  <2> QED
    BY <1>0, <2>1, <2>2, <2>5, DeleteRows, KeepRaces, MoveReq
<1>9. ASSUME NEW r \in Req, NEW u \in User, NEW t \in Token,
             RequestPasswordReset(r, u, t)
      PROVE Quiet
  BY <1>9, KeepRows, KeepRaces, KeepReqs, KeepUsers DEF RequestPasswordReset, history
<1>10. ASSUME NEW r \in Req, NEW t \in Token, ConfirmFind(r, t) PROVE Quiet
  <2> DEFINE x == [Idle EXCEPT !.pc = "confirm", !.user = reset[t].user, !.tok = t]
  <2>1. /\ req' = [req EXCEPT ![r] = x] /\ req[r].pc = "idle"
        /\ UNCHANGED <<users, session, owner, cred, raced, interrupted>>
    BY <1>0, <1>10 DEF ConfirmFind, Begin, dbVars, history
  <2>2. x.pc = "confirm"
    BY DEF Idle
  <2> HIDE DEF x
  <2> QED
    BY <2>1, <2>2, KeepRows, KeepRaces, MoveReq, MoveUsers
<1>11. ASSUME NEW r \in Req, ConfirmTx(r) PROVE Quiet
  <2> DEFINE x == [req[r] EXCEPT !.pc = "confirming", !.doomed = RowsOf(req[r].user)]
  <2>1. /\ req' = [req EXCEPT ![r] = x] /\ req[r].pc = "confirm"
        /\ UNCHANGED <<users, session, owner, cred, raced, interrupted>>
        /\ Unlocked(req[r].user)
    BY <1>11 DEF ConfirmTx, dbVars, history
  <2>2. x.pc = "confirming" /\ x.user = req[r].user /\ x.doomed = RowsOf(x.user)
    BY <2>1 DEF TypeOK, Request
  <2> HIDE DEF x
  <2>3. req'[r] = x /\ \A q \in Req \ {r} : req'[q] = req[q]
    BY <2>1 DEF TypeOK
  <2>4. QuietReqs
    BY <2>1, <2>2, <2>3 DEF QuietReqs, Unlocked
  <2> QED
    BY <2>1, <2>4, KeepRows, KeepRaces, MoveUsers
<1>15. ASSUME NEW r \in Req, ConfirmCommit(r) PROVE Quiet
  <2>0. PICK v \in User : v = req[r].user
    BY <1>15 DEF ConfirmCommit, TypeOK
  <2> DEFINE D == req[r].doomed
  <2>1. /\ req' = [req EXCEPT ![r] = Idle] /\ Delete(D)
        /\ UNCHANGED <<owner, cred, raced>>
        /\ interrupted' = interrupted \ {v} /\ PasswordUpdated(v)
    BY <1>15, <2>0 DEF ConfirmCommit
  <2>2. /\ D \subseteq Sid /\ \A y \in D : session[y] # "none"
        /\ \A y \in RowsOf(v) \ D :
             y \in raced \/ (~Exists(v) /\ cred[y] = users[v].pw)
    BY <1>15, <2>0 DEF ConfirmCommit, ConfirmInv, Transacting, TypeOK, Request
  <2> HIDE DEF D
  <2>3. QuietRows
    BY <2>1, <2>2 DEF QuietRows, Delete, TypeOK, RowState
  <2>4. /\ \A u \in User : users[u].pw <= users'[u].pw
        /\ \A u \in User \ {v} : users'[u] = users[u]
        /\ ~Exists(v) => users'[v] = users[v]
    BY <2>1, AccountUpdated DEF TypeOK
  <2>5. RowsOf(v)' \subseteq RowsOf(v) \ D
    BY <2>1 DEF RowsOf, rows, Delete
  <2>6. Settled(v)'
    BY <2>1, <2>2, <2>4, <2>5 DEF Settled
  <2>7. ASSUME NEW u \in User \ {v}, Excused(u) PROVE Excused(u)'
    BY <2>0, <2>1, <2>7, <1>0 DEF Excused, TypeOK
  <2>8. QuietUsers
    BY <2>4, <2>6, <2>7 DEF QuietUsers
  <2> QED
    BY <1>0, <2>1, <2>3, <2>8, KeepRaces, MoveReq
<1>12. ASSUME NEW r \in Req, Abort(r) PROVE Quiet
  <2> DEFINE u == req[r].user
  <2>1. /\ req' = [req EXCEPT ![r] = Idle]
        /\ UNCHANGED <<users, session, owner, cred>>
        /\ interrupted' = IF req[r].pc = "changed" THEN interrupted \cup {u}
                                                   ELSE interrupted
        /\ raced' = IF req[r].pc = "confirming"
                      THEN raced \ {s \in RowsOf(u) : cred[s] = users[u].pw} ELSE raced
    BY <1>12 DEF Abort, dbVars
  <2>2. /\ req'[r] = Idle
        /\ \A q \in Req \ {r} : req'[q] = req[q]
    BY <2>1 DEF TypeOK
  <2>3. ASSUME NEW v \in User, Excused(v) PROVE Excused(v)'
    BY <2>1, <2>2, <2>3 DEF Excused
  <2>4. QuietUsers
    BY <2>1, <2>3, PwReflexive DEF QuietUsers
  <2>5. QuietRaces
    <3>1. raced' \subseteq raced
      BY <2>1
    <3>2. ASSUME NEW s \in raced \ raced'
          PROVE  /\ users' = users
                 /\ cred[s] = users[owner[s]].pw
                 /\ \A q \in Req :
                      At(q, "confirming")' /\ req'[q].user = owner[s] => ~Exists(owner[s])
      <4>1. /\ req[r].pc = "confirming" /\ owner[s] = u /\ cred[s] = users[u].pw
        BY <2>1, <3>2 DEF RowsOf
      <4>2. ASSUME NEW q \in Req, At(q, "confirming")', req'[q].user = owner[s]
            PROVE  ~Exists(owner[s])
        <5>1. q # r /\ req'[q] = req[q]
          BY <1>0, <2>2, <4>2
        <5> QED
          BY <4>1, <4>2, <5>1 DEF ConfirmInv, Transacting, TypeOK
      <4> QED
        BY <2>1, <4>1, <4>2
    <3> QED
      BY <3>1, <3>2 DEF QuietRaces
  <2> QED
    BY <1>0, <2>1, <2>4, <2>5, KeepRows, MoveReq
<1>13. CASE Environment
  <2>1. ASSUME NEW u \in User, NEW status \in {"enabled", "disabled"},
               UpdateUser(u, status)
        PROVE Quiet
    <3>1. \A v \in User : /\ users'[v].pw = users[v].pw
                            /\ ~Exists(v) => users'[v] = users[v]
      BY <2>1 DEF UpdateUser, TypeOK, Account
    <3> QED
      BY <2>1, <3>1, KeepRows, KeepRaces, KeepReqs, KeepUsers DEF UpdateUser, history
  <2>2. ASSUME NEW u \in User, DeleteUser(u) PROVE Quiet
    <3>1. \A v \in User : /\ users'[v].pw = users[v].pw
                            /\ ~Exists(v) => users'[v] = users[v]
      BY <2>2 DEF DeleteUser, TypeOK, Account
    <3> QED
      BY <2>2, <3>1, KeepRows, KeepRaces, KeepReqs, KeepUsers DEF DeleteUser, history
  <2>3. ASSUME NEW s \in Sid, ExpireSession(s) PROVE Quiet
    <3>1. QuietRows
      BY <2>3 DEF ExpireSession, QuietRows, TypeOK, history
    <3> QED
      BY <2>3, <3>1, KeepRaces, KeepReqs, KeepUsers DEF ExpireSession, history
  <2>4. ASSUME NEW t \in Token, ExpireToken(t) PROVE Quiet
    BY <2>4, KeepRows, KeepRaces, KeepReqs, KeepUsers DEF ExpireToken, history
  <2>5. CASE SessionCleanup
    <3> DEFINE S == {s \in Sid : session[s] = "expired"}
    <3>1. S \in SUBSET rows /\ Delete(S)
      BY <2>5 DEF SessionCleanup, rows
    <3> HIDE DEF S
    <3> QED
      BY <2>5, <3>1, DeleteRows, KeepRaces, KeepReqs, KeepUsers DEF SessionCleanup, history
  <2> QED
    BY <1>13, <2>1, <2>2, <2>3, <2>4, <2>5 DEF Environment
<1>14. CASE UNCHANGED vars
  BY <1>14, KeepRows, KeepRaces, KeepReqs, KeepUsers DEF vars, dbVars, history
<1> QED
  BY <1>1, <1>2, <1>3, <1>4, <1>5, <1>6, <1>7, <1>8, <1>9, <1>10, <1>11, <1>12,
     <1>13, <1>14, <1>15
  DEF Next, Login, Refresh, ChangePassword, PasswordReset

-----------------------------------------------------------------------------
(* The two steps that create a row, in the shape the proofs below use.      *)
LEMMA StartStep ==
  ASSUME TypeOK, NEW r \in Req, NEW s \in Sid, StartSession(r, s)
  PROVE  /\ users' = users /\ session' = session
         /\ interrupted' = interrupted /\ raced' = raced
         /\ req[r].pc = "login" /\ req[r].user \in User
         /\ owner[s] = None /\ session[s] = "none"
         /\ owner' = [owner EXCEPT ![s] = req[r].user]
         /\ cred' = [cred EXCEPT ![s] = req[r].gen]
         /\ req'[r].pc = "committing" /\ req'[r].sid = s
         /\ req'[r].user = req[r].user /\ req'[r].gen = req[r].gen
         /\ SingleSession => req'[r].doomed = RowsOf(req[r].user)
         /\ ~SingleSession => req'[r].doomed = {}
         /\ \A q \in Req \ {r} : req'[q] = req[q]
  <1>1. /\ req[r].pc = "login" /\ owner[s] = None
        /\ UNCHANGED <<users, session, interrupted, raced>>
        /\ owner' = [owner EXCEPT ![s] = req[r].user]
        /\ cred' = [cred EXCEPT ![s] = req[r].gen]
    BY DEF StartSession, At
  <1>2. req' = [req EXCEPT ![r] =
          [req[r] EXCEPT !.pc = "committing", !.sid = s,
             !.doomed = IF SingleSession THEN RowsOf(req[r].user) ELSE {}]]
    BY DEF StartSession
  <1>3. req[r].user \in User /\ req[r] \in Request
    BY <1>1 DEF TypeOK
  <1>4. session[s] = "none"
    BY <1>1, SessionsAssumption DEF TypeOK
  <1>5. /\ req'[r].pc = "committing" /\ req'[r].sid = s
        /\ req'[r].user = req[r].user /\ req'[r].gen = req[r].gen
        /\ SingleSession => req'[r].doomed = RowsOf(req[r].user)
        /\ ~SingleSession => req'[r].doomed = {}
    BY <1>2, <1>3 DEF TypeOK, Request
  <1>6. \A q \in Req \ {r} : req'[q] = req[q]
    BY <1>2 DEF TypeOK
  <1> QED
    BY <1>1, <1>3, <1>4, <1>5, <1>6

LEMMA CommitStep ==
  ASSUME TypeOK, NEW r \in Req, CommitSession(r)
  PROVE  /\ users' = users /\ owner' = owner /\ cred' = cred
         /\ interrupted' = interrupted
         /\ req[r].pc = "committing" /\ req[r].sid \in Sid /\ req[r].user \in User
         /\ session'[req[r].sid] = "live"
         /\ \A s \in Sid \ {req[r].sid} :
              session'[s] = IF s \in req[r].doomed THEN "gone" ELSE session[s]
         /\ raced' \in {raced, raced \cup {req[r].sid}}
         /\ \/ req[r].gen # users[req[r].user].pw
            \/ \E q \in Req : At(q, "confirming") /\ req[q].user = req[r].user
            => req[r].sid \in raced'
         /\ req'[r].pc = "idle"
         /\ \A q \in Req \ {r} : req'[q] = req[q]
  <1>1. /\ UNCHANGED <<users, owner, cred, interrupted>>
        /\ req[r].pc = "committing"
        /\ req' = [req EXCEPT ![r] = Idle]
        /\ session' = [s \in Sid |-> IF s = req[r].sid THEN "live"
                                    ELSE IF s \in req[r].doomed THEN "gone"
                                    ELSE session[s]]
    BY DEF CommitSession, At, Finish
  <1>7. /\ raced' \in {raced, raced \cup {req[r].sid}}
        /\ \/ req[r].gen # users[req[r].user].pw
           \/ \E q \in Req : At(q, "confirming") /\ req[q].user = req[r].user
           => req[r].sid \in raced'
    BY DEF CommitSession
  <1>2. req[r].sid \in Sid /\ req[r].user \in User
    BY <1>1 DEF TypeOK
  <1>3. req'[r] = Idle /\ \A q \in Req \ {r} : req'[q] = req[q]
    BY <1>1 DEF TypeOK
  <1>4. session'[req[r].sid] = "live"
    BY <1>1, <1>2
  <1>5. ASSUME NEW s \in Sid \ {req[r].sid}
        PROVE  session'[s] = IF s \in req[r].doomed THEN "gone" ELSE session[s]
    <2>1. CASE s \in req[r].doomed
      BY <1>1, <2>1
    <2>2. CASE s \notin req[r].doomed
      BY <1>1, <2>2
    <2> QED
      BY <2>1, <2>2
  <1>6. req'[r].pc = "idle"
    BY <1>3 DEF Idle
  <1> QED
    BY <1>1, <1>2, <1>3, <1>4, <1>5, <1>6, <1>7

LEMMA CommitInvInit == Init => CommitInv
  BY DEF Init, CommitInv, At, Idle

LEMMA CommitInvNext ==
  ASSUME TypeOK, CommitInv, ConfirmInv, [Next]_vars
  PROVE  CommitInv'
<1>1. CASE Quiet
  <2>1. ASSUME NEW r \in Req, At(r, "committing")'
        PROVE  At(r, "committing") /\ req'[r] = req[r]
    BY <1>1, <2>1 DEF Quiet, QuietReqs, At
  <2>2. \A s \in Sid : session[s] = "none" <=> session'[s] = "none"
    BY <1>1 DEF Quiet, QuietRows
  <2>3. owner' = owner /\ cred' = cred
    BY <1>1 DEF Quiet, QuietRows
  <2>4. \A r \in Req : At(r, "committing") => req[r].sid \in Sid /\ req[r].doomed \subseteq Sid
    BY DEF TypeOK, At, Request
  <2> QED
    BY <2>1, <2>2, <2>3, <2>4 DEF CommitInv
<1>2. ASSUME NEW r \in Req, NEW s \in Sid, StartSession(r, s) PROVE CommitInv'
  <2>1. \A q \in Req : At(q, "committing") => req[q].sid \in Sid /\ req[q].sid # s
    BY <1>2, StartStep, SessionsAssumption DEF CommitInv, TypeOK, At
  <2>2. \A x \in req'[r].doomed : session'[x] # "none"
    BY <1>2, StartStep DEF RowsOf, rows
  <2>3. /\ session'[s] = "none" /\ owner'[s] = req'[r].user /\ cred'[s] = req'[r].gen
        /\ req'[r].sid = s /\ session' = session
        /\ \A q \in Req \ {r} : req'[q] = req[q]
        /\ \A x \in Sid \ {s} : owner'[x] = owner[x] /\ cred'[x] = cred[x]
    BY <1>2, StartStep DEF TypeOK
  <2> QED
    BY <2>1, <2>2, <2>3 DEF CommitInv, At
<1>3. ASSUME NEW r \in Req, CommitSession(r) PROVE CommitInv'
  <2>1. \A q \in Req : At(q, "committing")' =>
          q # r /\ At(q, "committing") /\ req'[q] = req[q]
    BY <1>3, CommitStep DEF At
  <2>2. \A q \in Req : At(q, "committing")' =>
          req[q].sid \in Sid /\ req[q].sid # req[r].sid /\ req[q].doomed \subseteq Sid
    BY <1>3, <2>1, CommitStep DEF CommitInv, At, TypeOK, Request
  <2>3. \A s \in Sid : session[s] # "none" => session'[s] # "none"
    BY <1>3, CommitStep
  <2>4. \A q \in Req : At(q, "committing")' => session'[req[q].sid] = "none"
    BY <1>3, <2>1, <2>2, CommitStep DEF CommitInv, At
  <2>5. owner' = owner /\ cred' = cred
    BY <1>3, CommitStep
  <2> QED
    BY <2>1, <2>2, <2>3, <2>4, <2>5 DEF CommitInv
<1> QED
  BY <1>1, <1>2, <1>3, QuietNext

LEMMA ConfirmInvInit == Init => ConfirmInv
  BY DEF Init, ConfirmInv, At, Idle

LEMMA ConfirmInvNext ==
  ASSUME TypeOK, CommitInv, ConfirmInv, [Next]_vars
  PROVE  ConfirmInv'
<1>0. \A r \in Req : req[r].doomed \subseteq Sid
  BY DEF TypeOK, Request
<1>1. CASE Quiet
  <2> SUFFICES ASSUME NEW r \in Req, NEW u \in User, At(r, "confirming")', req'[r].user = u
               PROVE  Transacting(r, u)'
    BY DEF ConfirmInv
  <2>1. /\ owner' = owner /\ cred' = cred /\ RowsOf(u)' \subseteq RowsOf(u)
        /\ \A s \in Sid : session[s] # "none" => session'[s] # "none"
    BY <1>1 DEF Quiet, QuietRows, RowsOf, rows
  <2>2. ~Exists(u) => users'[u] = users[u] /\ ~Exists(u)'
    BY <1>1 DEF Quiet, QuietUsers, Exists
  <2>3. CASE req'[r] = req[r]
    <3>1. Transacting(r, u)
      BY <2>3 DEF At, ConfirmInv
    <3>2. \A x \in req'[r].doomed : session'[x] # "none"
      BY <1>0, <2>1, <2>3, <3>1 DEF Transacting
    <3>3. ASSUME NEW x \in RowsOf(u)' \ req'[r].doomed, x \notin raced'
          PROVE  ~Exists(u)' /\ cred'[x] = users'[u].pw
      <4>1. x \in RowsOf(u) \ req[r].doomed /\ owner[x] = u
        BY <2>1, <2>3, <3>3 DEF RowsOf
      <4>2. ~Exists(u) /\ cred[x] = users[u].pw
        BY <1>1, <3>1, <3>3, <4>1 DEF Quiet, QuietRaces, Transacting
      <4> QED
        BY <2>1, <2>2, <4>2
    <3>4. ASSUME Exists(u)', NEW q \in Req, At(q, "confirming")', req'[q].user = u
          PROVE  q = r
      <4>1. CASE req'[q] = req[q]
        BY <2>2, <3>1, <3>4, <4>1 DEF Transacting, At
      <4>2. CASE req'[q] # req[q]
        BY <1>1, <2>2, <2>3, <3>4, <4>2 DEF Quiet, QuietReqs, At
      <4> QED
        BY <4>1, <4>2
    <3> QED
      BY <3>2, <3>3, <3>4 DEF Transacting
  <2>4. CASE req'[r] # req[r]
    <3>1. /\ req'[r].doomed = RowsOf(u)
          /\ \A q \in Req \ {r} : req'[q] = req[q]
          /\ Exists(u) => \A q \in Req : At(q, "confirming") => req[q].user # u
      BY <1>1, <2>4 DEF Quiet, QuietReqs, At
    <3>2. \A x \in RowsOf(u) : x \in Sid /\ session[x] # "none"
      BY DEF RowsOf, rows
    <3> QED
      BY <2>1, <2>2, <3>1, <3>2 DEF At, Transacting
  <2> QED
    BY <2>3, <2>4
<1>2. ASSUME NEW r \in Req, NEW s \in Sid, StartSession(r, s) PROVE ConfirmInv'
  <2>1. /\ users' = users /\ session' = session /\ raced' = raced /\ session[s] = "none"
        /\ \A q \in Req : At(q, "confirming")' => At(q, "confirming") /\ req'[q] = req[q]
    BY <1>2, StartStep DEF At
  <2>2. \A x \in Sid \ {s} : owner'[x] = owner[x] /\ cred'[x] = cred[x]
    BY <1>2, StartStep DEF TypeOK
  <2> SUFFICES ASSUME NEW q \in Req, NEW u \in User, At(q, "confirming")', req'[q].user = u
               PROVE  Transacting(q, u)'
    BY DEF ConfirmInv
  <2>3. RowsOf(u)' = RowsOf(u) /\ RowsOf(u) \subseteq Sid \ {s}
    BY <2>1, <2>2 DEF RowsOf, rows
  <2>4. Transacting(q, u)
    BY <2>1 DEF ConfirmInv
  <2> QED
    BY <2>1, <2>2, <2>3, <2>4 DEF Transacting, Exists
<1>3. ASSUME NEW r \in Req, CommitSession(r) PROVE ConfirmInv'
  <2>1. /\ users' = users /\ owner' = owner /\ cred' = cred /\ raced \subseteq raced'
        /\ req[r].sid \in Sid /\ owner[req[r].sid] = req[r].user
        /\ \A q \in Req : At(q, "confirming")' => At(q, "confirming") /\ req'[q] = req[q]
        /\ \A x \in Sid : session[x] # "none" => session'[x] # "none"
    BY <1>3, CommitStep DEF At, CommitInv
  <2> SUFFICES ASSUME NEW q \in Req, NEW u \in User, At(q, "confirming")', req'[q].user = u
               PROVE  Transacting(q, u)'
    BY DEF ConfirmInv
  <2>2. Transacting(q, u) /\ At(q, "confirming") /\ req'[q] = req[q]
    BY <2>1 DEF ConfirmInv
  <2>3. ASSUME NEW x \in RowsOf(u)' \ req[q].doomed
        PROVE  x \in raced' \/ (~Exists(u) /\ cred[x] = users[u].pw)
    <3>1. CASE x = req[r].sid
      <4>1. req[q].user = req[r].user
        BY <2>1, <2>2, <2>3, <3>1 DEF RowsOf
      <4> QED
        BY <1>3, <2>2, <3>1, <4>1, CommitStep
    <3>2. CASE x # req[r].sid
      <4>1. x \in RowsOf(u)
        BY <1>3, <2>1, <2>3, <3>2, CommitStep DEF RowsOf, rows
      <4> QED
        BY <2>1, <2>2, <2>3, <4>1 DEF Transacting
    <3> QED
      BY <3>1, <3>2
  <2> QED
    BY <1>0, <2>1, <2>2, <2>3 DEF Transacting, Exists
<1> QED
  BY <1>1, <1>2, <1>3, QuietNext

(* A deleted session row never comes back, whatever runs concurrently.      *)
THEOREM RevocationFinal == Spec => NoResurrection
<1>1. ASSUME TypeOK, CommitInv, ConfirmInv, [Next]_vars
      PROVE  [\A s \in Sid : session[s] = "gone" => session'[s] = "gone"]_vars
  <2> SUFFICES ASSUME NEW s \in Sid, session[s] = "gone" PROVE session'[s] = "gone"
    OBVIOUS
  <2>1. CASE Quiet
    BY <2>1 DEF Quiet, QuietRows
  <2>2. CASE \E r \in Req, t \in Sid : StartSession(r, t)
    BY <1>1, <2>2, StartStep
  <2>3. ASSUME NEW r \in Req, CommitSession(r) PROVE session'[s] = "gone"
    BY <1>1, <2>3, CommitStep DEF CommitInv, At
  <2> QED
    BY <1>1, <2>1, <2>2, <2>3, QuietNext
<1> QED
  BY <1>1, TypeInit, TypeNext, CommitInvInit, CommitInvNext,
     ConfirmInvInit, ConfirmInvNext, PTL
  DEF Spec, NoResurrection

-----------------------------------------------------------------------------
LEMMA EvictionInit == Init => EvictionInv
  BY DEF Init, EvictionInv, At, Idle

LEMMA EvictionNext ==
  ASSUME Serial, TypeOK, EvictionInv, ConfirmInv, [Next]_vars
  PROVE  EvictionInv'
<1>1. CASE Quiet
  <2>1. ASSUME NEW r \in Req, At(r, "committing")'
        PROVE  At(r, "committing") /\ req'[r] = req[r]
    BY <1>1, <2>1 DEF Quiet, QuietReqs, At
  <2>2. \A u \in User : RowsOf(u)' \subseteq RowsOf(u)
    BY <1>1 DEF Quiet, QuietRows, RowsOf, rows
  <2>3. \A r \in Req : At(r, "committing") => req[r].user \in User
    BY DEF TypeOK, At
  <2> QED
    BY <2>1, <2>2, <2>3 DEF EvictionInv
<1>2. ASSUME NEW r \in Req, NEW s \in Sid, StartSession(r, s) PROVE EvictionInv'
  <2>1. \A q \in Req : ~At(q, "committing")
    BY <1>2 DEF StartSession, Writable
  <2>2. \A q \in Req \ {r} : ~At(q, "committing")'
    BY <1>2, <2>1, StartStep DEF At
  <2>3. RowsOf(req[r].user)' \subseteq RowsOf(req[r].user)
    BY <1>2, StartStep DEF RowsOf, rows, TypeOK
  <2> QED
    BY <1>2, <2>2, <2>3, StartStep DEF EvictionInv
<1>3. ASSUME NEW r \in Req, CommitSession(r) PROVE EvictionInv'
  <2>1. \A q \in Req : ~At(q, "committing")'
    BY <1>3, CommitStep DEF EvictionInv, At
  <2> QED
    BY <2>1 DEF EvictionInv
<1> QED
  BY <1>1, <1>2, <1>3, QuietNext

(* Single session: if write transactions are serialised, no two rows of     *)
(* user_sessions belong to the same user, for any number of concurrent      *)
(* logins, refreshes and revocations.                                       *)
THEOREM SingleSessionHolds ==
  ASSUME Serial
  PROVE  Spec => []OneSessionPerUser
<1>1. Init => OneSessionPerUser
  BY DEF Init, OneSessionPerUser, rows
<1>2. ASSUME TypeOK, CommitInv, EvictionInv, ConfirmInv, OneSessionPerUser, [Next]_vars
      PROVE  OneSessionPerUser'
  <2> SUFFICES ASSUME SingleSession PROVE OneSessionPerUser'
    BY DEF OneSessionPerUser
  <2>1. CASE Quiet
    <3>1. rows' \subseteq rows /\ owner' = owner
      BY <2>1 DEF Quiet, QuietRows, rows
    <3> QED
      BY <1>2, <3>1 DEF OneSessionPerUser
  <2>2. ASSUME NEW r \in Req, NEW s \in Sid, StartSession(r, s)
        PROVE  OneSessionPerUser'
    <3>1. rows' = rows /\ s \notin rows /\ \A x \in rows : owner'[x] = owner[x]
      BY <1>2, <2>2, StartStep DEF rows, TypeOK
    <3> QED
      BY <1>2, <3>1 DEF OneSessionPerUser
  <2>3. ASSUME NEW r \in Req, CommitSession(r) PROVE OneSessionPerUser'
    <3>1. /\ owner' = owner
          /\ rows' \subseteq (rows \ req[r].doomed) \cup {req[r].sid}
      BY <1>2, <2>3, CommitStep DEF rows
    <3>2. owner[req[r].sid] = req[r].user
      BY <1>2, <2>3, CommitStep DEF CommitInv, At
    <3>3. \A x \in rows \ req[r].doomed : owner[x] # req[r].user
      BY <1>2, <2>3, CommitStep DEF EvictionInv, At, RowsOf
    <3> QED
      BY <1>2, <3>1, <3>2, <3>3 DEF OneSessionPerUser
  <2> QED
    BY <1>2, <2>1, <2>2, <2>3, QuietNext
<1> QED
  BY <1>1, <1>2, TypeInit, TypeNext, CommitInvInit, CommitInvNext,
     ConfirmInvInit, ConfirmInvNext, EvictionInit,
     EvictionNext, PTL
  DEF Spec

-----------------------------------------------------------------------------
LEMMA GenInit == Init => GenInv
  BY SessionsAssumption DEF Init, GenInv, Idle

LEMMA GenNext ==
  ASSUME TypeOK, CommitInv, GenInv, ConfirmInv, [Next]_vars
  PROVE  GenInv'
<1>0. /\ \A u \in User : users[u].pw \in Nat
      /\ \A r \in Req : req[r].gen \in Nat
      /\ \A s \in Sid : cred[s] \in Nat
  BY SessionsAssumption DEF TypeOK, Account, Request
<1>1. CASE Quiet
  <2>1. \A u \in User : users[u].pw <= users'[u].pw /\ users'[u].pw \in Nat
    BY <1>1, TypeNext, SessionsAssumption DEF Quiet, QuietUsers, TypeOK, Account
  <2>2. ASSUME NEW r \in Req, req'[r].pc \in {"login", "committing"}
        PROVE  req'[r].gen <= users'[req'[r].user].pw
    <3>1. req'[r].user \in User
      BY <2>2, TypeNext DEF TypeOK
    <3>2. CASE req'[r] = req[r]
      BY <1>0, <2>1, <2>2, <3>1, <3>2 DEF GenInv
    <3>3. CASE req'[r].gen = users[req'[r].user].pw
      BY <2>1, <3>1, <3>3
    <3> QED
      BY <1>1, <2>2, <3>2, <3>3 DEF Quiet, QuietReqs
  <2>3. ASSUME NEW s \in Sid, session'[s] # "none"
        PROVE  cred'[s] <= users'[owner'[s]].pw
    <3>1. session[s] # "none" /\ owner' = owner /\ cred' = cred
      BY <1>1, <2>3 DEF Quiet, QuietRows
    <3> QED
      BY <1>0, <2>1, <3>1 DEF GenInv, TypeOK
  <2> QED
    BY <2>2, <2>3 DEF GenInv
<1>2. ASSUME NEW r \in Req, NEW s \in Sid, StartSession(r, s) PROVE GenInv'
  <2>1. /\ session' = session /\ session[s] = "none" /\ users' = users
        /\ \A x \in Sid \ {s} : owner'[x] = owner[x] /\ cred'[x] = cred[x]
    BY <1>2, StartStep DEF TypeOK
  <2>2. ASSUME NEW q \in Req, req'[q].pc \in {"login", "committing"}
        PROVE  req'[q].gen <= users'[req'[q].user].pw
    <3>1. CASE q = r
      BY <1>2, <3>1, StartStep DEF GenInv
    <3>2. CASE q # r
      BY <1>2, <2>2, <3>2, StartStep DEF GenInv
    <3> QED
      BY <3>1, <3>2
  <2> QED
    BY <2>1, <2>2 DEF GenInv
<1>3. ASSUME NEW r \in Req, CommitSession(r) PROVE GenInv'
  <2>1. ASSUME NEW s \in Sid, session'[s] # "none"
        PROVE  cred'[s] <= users'[owner'[s]].pw
    <3>1. CASE s = req[r].sid
      BY <1>3, <3>1, CommitStep DEF GenInv, CommitInv, At
    <3>2. CASE s # req[r].sid
      BY <1>3, <2>1, <3>2, CommitStep DEF GenInv, CommitInv, At
    <3> QED
      BY <3>1, <3>2
  <2> QED
    BY <1>3, <2>1, CommitStep DEF GenInv
<1> QED
  BY <1>1, <1>2, <1>3, QuietNext

(* A session opened with a replaced password survives only until the change *)
(* that replaced it runs its DELETE, unless that change was cut short or    *)
(* the login straddled it - be write transactions serial or not.            *)
THEOREM RevocationHolds == Spec => []CredentialRevocation
<1>1. Init => CredentialRevocation
  BY DEF Init, CredentialRevocation, rows
<1>2. ASSUME TypeOK, CommitInv, GenInv, ConfirmInv, CredentialRevocation,
             [Next]_vars
      PROVE  CredentialRevocation'
  <2>0. ASSUME NEW s \in rows, cred[s] < users[owner[s]].pw, s \notin raced
        PROVE  Excused(owner[s])
    BY <1>2, <2>0 DEF CredentialRevocation, Excused
  <2> SUFFICES ASSUME NEW s \in rows', cred'[s] < users'[owner'[s]].pw, s \notin raced'
               PROVE  Excused(owner[s])'
    BY DEF CredentialRevocation, Excused
  <2>1. CASE Quiet
    <3>1. s \in rows /\ owner' = owner /\ cred' = cred
      BY <2>1 DEF Quiet, QuietRows, rows
    <3>2. PICK u \in User : u = owner[s]
      BY <1>2, <3>1 DEF TypeOK, rows
    <3>3. s \in RowsOf(u)' /\ cred'[s] < users'[u].pw
      BY <3>1, <3>2 DEF RowsOf
    <3>4. users'[u].pw \in Nat /\ users[u].pw \in Nat /\ cred[s] \in Nat
      BY <1>2, <3>1, TypeNext, SessionsAssumption DEF TypeOK, Account, rows
    <3>5. s \notin raced
      BY <2>1, <3>1, <3>2, <3>3, <3>4 DEF Quiet, QuietRaces
    <3>6. Excused(u) \/ users'[u].pw # users[u].pw
      BY <2>0, <3>1, <3>2, <3>5
    <3>7. ~Settled(u)'
      BY <3>3, <3>4 DEF Settled
    <3>8. Excused(u)'
      BY <2>1, <3>6, <3>7 DEF Quiet, QuietUsers
    <3> QED
      BY <3>1, <3>2, <3>8 DEF Excused
  <2>2. ASSUME NEW r \in Req, NEW t \in Sid, StartSession(r, t)
        PROVE  Excused(owner[s])'
    <3>1. s \in rows /\ s # t /\ owner'[s] = owner[s] /\ cred'[s] = cred[s]
      BY <1>2, <2>2, StartStep DEF rows, TypeOK
    <3>2. Excused(owner[s])
      BY <1>2, <2>0, <2>2, <3>1, StartStep
    <3>3. \A q \in Req : At(q, "changed") => req'[q] = req[q]
      BY <1>2, <2>2, StartStep DEF At
    <3> QED
      BY <1>2, <2>2, <3>1, <3>2, <3>3, StartStep DEF Excused, At
  <2>3. ASSUME NEW r \in Req, CommitSession(r)
        PROVE  Excused(owner[s])'
    <3>1. s # req[r].sid
      BY <1>2, <2>3, CommitStep, PwReflexive DEF CommitInv, At
    <3>2. s \in rows /\ owner'[s] = owner[s] /\ cred'[s] = cred[s] /\ s \notin raced
      BY <1>2, <2>3, <3>1, CommitStep DEF rows
    <3>3. Excused(owner[s])
      BY <1>2, <2>0, <2>3, <3>2, CommitStep
    <3>4. \A q \in Req : At(q, "changed") => req'[q] = req[q]
      BY <1>2, <2>3, CommitStep DEF At
    <3> QED
      BY <1>2, <2>3, <3>2, <3>3, <3>4, CommitStep DEF Excused, At
  <2> QED
    BY <1>2, <2>1, <2>2, <2>3, QuietNext
<1> QED
  BY <1>1, <1>2, TypeInit, TypeNext, CommitInvInit, CommitInvNext,
     ConfirmInvInit, ConfirmInvNext, GenInit, GenNext, PTL
  DEF Spec

-----------------------------------------------------------------------------
(* The requests that have looked token t up and are about to use it. *)
Confirming(t) ==
  {r \in Req : (At(r, "confirm") \/ At(r, "confirming")) /\ req[r].tok = t}

(* A token that was used stays marked, so that nobody joins those that had  *)
(* looked it up before; and all of these, with the uses made, were among    *)
(* the requests there are.                                                  *)
UsesInv ==
  \A t \in Token :
    /\ uses[t] > 0 => reset[t].state = "used"
    /\ uses[t] + Cardinality(Confirming(t)) <= Cardinality(Req)

(* What every step does, but the look-up of a token and its use. *)
QuietTokens ==
  /\ uses' = uses
  /\ \A t \in Token : reset[t].state = "used" => reset'[t].state = "used"
  /\ \A r \in Req : At(r, "confirm")' \/ At(r, "confirming")' =>
       /\ At(r, "confirm") \/ At(r, "confirming")
       /\ req'[r].tok = req[r].tok

(* Counting requests. *)
LEMMA Requests ==
  ASSUME NEW S \in SUBSET Req
  PROVE  /\ IsFiniteSet(S) /\ Cardinality(S) \in Nat /\ Cardinality(Req) \in Nat
         /\ Cardinality(S) <= Cardinality(Req)
  BY SessionsAssumption, FS_Subset, FS_CardinalityType

LEMMA OneLess ==
  ASSUME NEW S \in SUBSET Req, NEW T \in SUBSET S, NEW r \in S, r \notin T
  PROVE  Cardinality(T) + 1 <= Cardinality(S)
<1>1. IsFiniteSet(S) /\ Cardinality(S) \in Nat
  BY Requests
<1>2. Cardinality(S \ {r}) = Cardinality(S) - 1
  BY <1>1, FS_RemoveElement
<1>3. Cardinality(T) \in Nat /\ Cardinality(T) <= Cardinality(S \ {r})
  <2>1. T \subseteq S \ {r} /\ IsFiniteSet(S \ {r})
    BY <1>1, FS_Subset
  <2> QED
    BY <2>1, FS_Subset, FS_CardinalityType
<1> QED
  BY <1>1, <1>2, <1>3

LEMMA QuietTokensNext ==
  ASSUME TypeOK, [Next]_vars
  PROVE  \/ QuietTokens
         \/ \E r \in Req, t \in Token : ConfirmFind(r, t)
         \/ \E r \in Req : ConfirmCommit(r)
<1> USE DEF QuietTokens, At
<1>0. Idle.pc = "idle"
  BY DEF Idle
<1>1. ASSUME NEW r \in Req, NEW x, req' = [req EXCEPT ![r] = x], x.pc \notin {"confirm", "confirming"},
             UNCHANGED <<reset, uses>>
      PROVE  QuietTokens
  BY <1>1 DEF TypeOK
<1>2. ASSUME NEW r \in Req, Login(r) PROVE QuietTokens
  <2>1. ASSUME NEW u \in User, LoginVerify(r, u) PROVE QuietTokens
    BY <2>1, <1>1 DEF LoginVerify, Begin, Idle, dbVars, history
  <2>2. ASSUME NEW s \in Sid, StartSession(r, s) PROVE QuietTokens
    <3>1. UNCHANGED <<reset, uses>>
      BY <2>2 DEF StartSession
    <3> QED
      BY <2>2, <3>1, StartStep
  <2>3. CASE CommitSession(r)
    BY <2>3, <1>0, <1>1 DEF CommitSession, Finish
  <2> QED
    BY <1>2, <2>1, <2>2, <2>3 DEF Login
<1>3. ASSUME NEW r \in Req, Refresh(r) PROVE QuietTokens
  <2>1. ASSUME NEW s \in Sid, RefreshFind(r, s) PROVE QuietTokens
    BY <2>1, <1>1 DEF RefreshFind, Begin, Idle, dbVars, history
  <2>2. CASE RefreshTouch(r)
    BY <2>2, <1>0, <1>1 DEF RefreshTouch, Finish, dbVars, history
  <2> QED
    BY <1>3, <2>1, <2>2 DEF Refresh
<1>4. ASSUME NEW r \in Req, NEW u \in User, Logout(r, u) PROVE QuietTokens
  BY <1>4 DEF Logout, history
<1>5. ASSUME NEW r \in Req, ChangePassword(r) PROVE QuietTokens
  <2>1. ASSUME NEW u \in User, ChangeFind(r, u) PROVE QuietTokens
    BY <2>1, <1>1 DEF ChangeFind, Begin, Idle, dbVars, history
  <2>2. CASE UpdatePassword(r)
    <3> DEFINE x == [req[r] EXCEPT !.pc = "changed"]
    <3>1. /\ req' = [req EXCEPT ![r] = x] /\ UNCHANGED <<reset, uses>>
          /\ x.pc = "changed"
      BY <2>2 DEF UpdatePassword, Goto, history, TypeOK, Request
    <3> HIDE DEF x
    <3> QED
      BY <3>1, <1>1
  <2>3. CASE DeleteSessions(r)
    BY <2>3, <1>0, <1>1 DEF DeleteSessions, Finish
  <2> QED
    BY <1>5, <2>1, <2>2, <2>3 DEF ChangePassword
<1>6. ASSUME NEW r \in Req, NEW u \in User, NEW t \in Token, RequestPasswordReset(r, u, t)
      PROVE  QuietTokens
  BY <1>6 DEF RequestPasswordReset, history, TypeOK
<1>7. ASSUME NEW r \in Req, Abort(r) PROVE QuietTokens
  BY <1>7, <1>0, <1>1 DEF Abort, Finish, dbVars
<1>8. CASE Environment
  <2>1. ASSUME NEW t \in Token, ExpireToken(t) PROVE QuietTokens
    BY <2>1 DEF ExpireToken, history, TypeOK
  <2> QED
    BY <1>8, <2>1 DEF Environment, UpdateUser, DeleteUser, ExpireSession, SessionCleanup, history
<1>9. CASE UNCHANGED vars
  BY <1>9 DEF vars, dbVars, history
<1>10. ASSUME NEW r \in Req, NEW s \in Sid, RevokeSession(r, s) PROVE QuietTokens
  BY <1>10 DEF RevokeSession, history
<1>11. ASSUME NEW r \in Req, ConfirmTx(r) PROVE QuietTokens
  <2> DEFINE x == [req[r] EXCEPT !.pc = "confirming", !.doomed = RowsOf(req[r].user)]
  <2>1. /\ req' = [req EXCEPT ![r] = x] /\ UNCHANGED <<reset, uses>>
        /\ x.tok = req[r].tok /\ req[r].pc = "confirm"
    BY <1>11 DEF ConfirmTx, dbVars, history, TypeOK, Request
  <2> HIDE DEF x
  <2> QED
    BY <2>1 DEF TypeOK
<1> HIDE DEF QuietTokens
<1> QED
  BY <1>2, <1>3, <1>4, <1>5, <1>6, <1>7, <1>8, <1>9, <1>10, <1>11 DEF Next, PasswordReset

LEMMA UsesInit == Init => UsesInv
<1> SUFFICES ASSUME Init PROVE UsesInv
  OBVIOUS
<1>1. \A t \in Token : Confirming(t) = {} /\ uses[t] = 0
  BY DEF Init, Confirming, At, Idle
<1>2. Cardinality({}) = 0 /\ Cardinality(Req) \in Nat
  BY FS_EmptySet, Requests
<1> QED
  BY <1>1, <1>2 DEF UsesInv

LEMMA UsesNext ==
  ASSUME TypeOK, UsesInv, [Next]_vars
  PROVE  UsesInv'
<1> SUFFICES ASSUME NEW t \in Token
             PROVE  /\ uses'[t] > 0 => reset'[t].state = "used"
                    /\ uses'[t] + Cardinality(Confirming(t)') <= Cardinality(Req)
  BY DEF UsesInv
<1>1. Confirming(t) \in SUBSET Req /\ Confirming(t)' \in SUBSET Req
  BY DEF Confirming
<1>2. /\ IsFiniteSet(Confirming(t)) /\ Cardinality(Confirming(t)) \in Nat
      /\ Cardinality(Confirming(t)') \in Nat /\ Cardinality(Confirming(t)') <= Cardinality(Req)
      /\ Cardinality(Req) \in Nat
  BY <1>1, Requests
<1>3. uses[t] \in Nat
  BY SessionsAssumption DEF TypeOK
<1>4. Confirming(t)' \subseteq Confirming(t) =>
        Cardinality(Confirming(t)') <= Cardinality(Confirming(t))
  BY <1>2, FS_Subset
<1>5. CASE QuietTokens
  <2>1. Confirming(t)' \subseteq Confirming(t)
    BY <1>5 DEF QuietTokens, Confirming, At
  <2> QED
    BY <1>2, <1>3, <1>4, <1>5, <2>1 DEF QuietTokens, UsesInv
<1>6. ASSUME NEW r \in Req, NEW k \in Token, ConfirmFind(r, k)
      PROVE  /\ uses'[t] > 0 => reset'[t].state = "used"
             /\ uses'[t] + Cardinality(Confirming(t)') <= Cardinality(Req)
  <2>1. UNCHANGED <<reset, uses>> /\ reset[k].state = "unused"
    BY <1>6 DEF ConfirmFind, dbVars, history
  <2>2. CASE k = t
    <3>1. uses[t] = 0
      BY <1>3, <2>1, <2>2 DEF UsesInv
    <3> QED
      BY <1>2, <2>1, <3>1
  <2>3. CASE k # t
    <3> DEFINE x == [Idle EXCEPT !.pc = "confirm", !.user = reset[k].user, !.tok = k]
    <3>1. req' = [req EXCEPT ![r] = x] /\ x.tok = k
      BY <1>6 DEF ConfirmFind, Begin, Idle
    <3> HIDE DEF x
    <3>2. Confirming(t)' \subseteq Confirming(t)
      BY <2>3, <3>1 DEF Confirming, At, TypeOK
    <3> QED
      BY <1>2, <1>3, <1>4, <2>1, <3>2 DEF UsesInv
  <2> QED
    BY <2>2, <2>3
<1>7. ASSUME NEW r \in Req, ConfirmCommit(r)
      PROVE  /\ uses'[t] > 0 => reset'[t].state = "used"
             /\ uses'[t] + Cardinality(Confirming(t)') <= Cardinality(Req)
  <2>1. /\ At(r, "confirming") /\ req' = [req EXCEPT ![r] = Idle]
        /\ uses' = [uses EXCEPT ![req[r].tok] = @ + 1]
        /\ reset' = [reset EXCEPT ![req[r].tok].state = "used"]
    BY <1>7 DEF ConfirmCommit, Finish
  <2>2. r \notin Confirming(t)' /\ Confirming(t)' \subseteq Confirming(t)
    BY <2>1 DEF Confirming, At, TypeOK, Idle
  <2>3. CASE req[r].tok = t
    <3>1. r \in Confirming(t)
      BY <2>1, <2>3 DEF Confirming
    <3>2. Cardinality(Confirming(t)') + 1 <= Cardinality(Confirming(t))
      BY <1>1, <2>2, <3>1, OneLess
    <3>3. uses'[t] = uses[t] + 1 /\ reset'[t].state = "used"
      BY <2>1, <2>3 DEF TypeOK, ResetRow
    <3> QED
      BY <1>2, <1>3, <3>2, <3>3 DEF UsesInv
  <2>4. CASE req[r].tok # t
    <3>1. uses'[t] = uses[t] /\ reset'[t] = reset[t]
      BY <2>1, <2>4 DEF TypeOK
    <3> QED
      BY <1>2, <1>3, <1>4, <2>2, <3>1 DEF UsesInv
  <2> QED
    BY <2>3, <2>4
<1> QED
  BY <1>5, <1>6, <1>7, QuietTokensNext

(* A reset token is used again only by requests that had looked it up       *)
(* before its first use: never more often than requests can overlap         *)
(* (ConfirmPasswordReset).                                                  *)
THEOREM UsesBounded == Spec => []UsesBoundedByOverlap
<1>1. UsesInv => UsesBoundedByOverlap
  BY DEF UsesInv, Confirming, UsesBoundedByOverlap
<1> QED
  BY <1>1, TypeInit, TypeNext, UsesInit, UsesNext, PTL DEF Spec
=============================================================================
