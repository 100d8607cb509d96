--------------------------- MODULE AccountsProofs ---------------------------
(***************************************************************************)
(* Proofs about Accounts, for any number of e-mails and roles and any      *)
(* finite number of requests.                                              *)
(***************************************************************************)
EXTENDS Accounts, FiniteSetTheorems, TLAPS

(* Whoever has a role that a DeleteRole is about to delete got it after the *)
(* DeleteRole had looked.                                                   *)
DeletionInv ==
  \A r \in Req, u \in User :
    At(r, "delete") /\ req[r].role \in assigned[u] => <<u, req[r].role>> \in crossed

OrphanInv == DeletionInv /\ OrphansCrossed

(* Registrations that have counted no account. *)
Pending == {r \in Req : At(r, "register") /\ req[r].roles = {Admin}}

(* Founders and those who may still become founders are no more than the    *)
(* requests that can run at once.  As long as there is a founder there is   *)
(* an account, so that nobody else joins them.                              *)
FounderInv ==
  /\ IsFiniteSet(founders)
  /\ founders # {} => Live # {}
  /\ Cardinality(founders) + Cardinality(Pending) <= Cardinality(Req)

-----------------------------------------------------------------------------
(* Type correctness *)

LEMMA IdleRequest ==
  /\ Idle \in Request /\ Idle.pc = "idle" /\ Idle.role = None
  /\ Idle.user = None /\ Idle.roles = {} /\ Known(Idle)
  BY DEF Idle, Request, Pc, Known

LEMMA InitType == Init => TypeOK
  BY IdleRequest, AccountsAssumption DEF Init, TypeOK, Builtin, RowState

LEMMA Begun ==
  ASSUME TypeOK, NEW r \in Req, NEW x \in Request, Begin(r, x)
  PROVE  /\ req' \in [Req -> Request] /\ req'[r] = x /\ req[r].pc = "idle"
         /\ \A q \in Req \ {r} : req'[q] = req[q]
  BY DEF TypeOK, Begin, At

LEMMA Gone ==
  ASSUME TypeOK, NEW r \in Req, Finish(r)
  PROVE  /\ req' \in [Req -> Request] /\ req'[r] = Idle
         /\ \A q \in Req \ {r} : req'[q] = req[q]
  BY IdleRequest DEF TypeOK, Finish

(* A step of one request, which then knows enough; no account vanishes. *)
LEMMA Stepped ==
  ASSUME TypeOK, NEW r \in Req,
         \A q \in Req \ {r} : req'[q] = req[q],
         Known(req'[r]),
         req'[r].pc \in {"update", "roles", "mint"} => users'[req'[r].user] # "none",
         \A u \in User : users[u] # "none" => users'[u] # "none"
  PROVE  \A q \in Req :
           /\ Known(req'[q])
           /\ req'[q].pc \in {"update", "roles", "mint"} => users'[req'[q].user] # "none"
  BY DEF TypeOK, Known

LEMMA AssignType ==
  ASSUME TypeOK, NEW u \in User, NEW R \in SUBSET Role, Assign(u, R)
  PROVE  /\ assigned' \in [User -> SUBSET Role] /\ assigned'[u] = R
         /\ \A v \in User \ {u} : assigned'[v] = assigned[v]
         /\ crossed' \subseteq User \X Role
  BY DEF TypeOK, Assign

LEMMA InsertType ==
  ASSUME TypeOK, NEW u \in User, Insert(u)
  PROVE  /\ users' \in [User -> RowState] /\ users'[u] = "live"
         /\ \A v \in User \ {u} : users'[v] = users[v]
  BY DEF TypeOK, Insert, RowState

(* What a request that begins knows. *)
LEMMA RequestBuilds ==
  ASSUME TypeOK, NEW r \in Req,
         NEW u \in User, NEW R \in SUBSET Role, NEW p \in {"register", "create", "update", "roles"},
         Begin(r, [Idle EXCEPT !.pc = p, !.user = u, !.roles = R]),
         p = "roles" \/ R # {}
  PROVE  /\ req' \in [Req -> Request]
         /\ req'[r].pc = p /\ req'[r].user = u /\ req'[r].roles = R
         /\ Known(req'[r]) /\ req[r].pc = "idle"
         /\ \A q \in Req \ {r} : req'[q] = req[q]
  <1> DEFINE x == [Idle EXCEPT !.pc = p, !.user = u, !.roles = R]
  <1>1. x \in Request /\ x.pc = p /\ x.user = u /\ x.roles = R /\ Known(x)
    BY IdleRequest DEF Request, Known, Pc
  <1>2. Begin(r, x)
    OBVIOUS
  <1> HIDE DEF x
  <1> QED
    BY <1>1, <1>2, Begun

LEMMA RegisterType ==
  ASSUME TypeOK, NEW r \in Req, Register(r)
  PROVE  TypeOK'
  <1>1. ASSUME NEW u \in User, RegisterCount(r, u) PROVE TypeOK'
    <2>1. /\ {Admin} \in SUBSET Role /\ {Basic} \in SUBSET Role
          /\ {Admin} # {} /\ {Basic} # {}
      BY AccountsAssumption DEF Builtin
    <2>2. PICK R \in SUBSET Role : R # {} /\ R = IF Live = {} THEN {Admin} ELSE {Basic}
      BY <2>1
    <2>3. /\ Begin(r, [Idle EXCEPT !.pc = "register", !.user = u, !.roles = R])
          /\ UNCHANGED <<users, assigned, role, claims, crossed, founders>>
      BY <1>1, <2>2 DEF RegisterCount
    <2>4. /\ req' \in [Req -> Request] /\ Known(req'[r]) /\ req'[r].pc = "register"
          /\ \A q \in Req \ {r} : req'[q] = req[q]
      BY <2>2, <2>3, RequestBuilds
    <2> QED
      BY <2>3, <2>4, Stepped DEF TypeOK
  <1>2. CASE RegisterTx(r)
    <2>1. PICK u \in User, R \in SUBSET Role : req[r].user = u /\ req[r].roles = R
      BY <1>2 DEF RegisterTx, At, TypeOK, Known, Request
    <2>2. /\ Insert(u) /\ Assign(u, R) /\ At(r, "register") /\ R # {}
          /\ founders' \subseteq founders \cup {u}
          /\ req' = [req EXCEPT ![r].pc = "mint"]
          /\ UNCHANGED <<role, claims>>
      BY <1>2, <2>1 DEF RegisterTx, At, TypeOK, Known
    <2> DEFINE x == [req[r] EXCEPT !.pc = "mint"]
    <2>3. x \in Request /\ Known(x) /\ x.user = u
      BY <2>1 DEF TypeOK, Request, Pc, Known
    <2>4. req' = [req EXCEPT ![r] = x]
      BY <2>2 DEF TypeOK
    <2> HIDE DEF x
    <2>5. /\ req' \in [Req -> Request] /\ Known(req'[r]) /\ req'[r].user = u
          /\ \A q \in Req \ {r} : req'[q] = req[q]
      BY <2>3, <2>4 DEF TypeOK
    <2>6. /\ users' \in [User -> RowState] /\ users'[u] = "live"
          /\ \A v \in User \ {u} : users'[v] = users[v]
      BY <2>2, InsertType
    <2>7. /\ assigned' \in [User -> SUBSET Role] /\ assigned'[u] = R
          /\ \A v \in User \ {u} : assigned'[v] = assigned[v]
          /\ crossed' \subseteq User \X Role
      BY <2>2, AssignType
    <2>8. \A q \in Req :
            /\ Known(req'[q])
            /\ req'[q].pc \in {"update", "roles", "mint"} => users'[req'[q].user] # "none"
      BY <2>5, <2>6, Stepped
    <2>9. \A v \in User : users'[v] # "none" <=> assigned'[v] # {}
      BY <2>2, <2>6, <2>7 DEF TypeOK
    <2> QED
      BY <2>2, <2>5, <2>6, <2>7, <2>8, <2>9 DEF TypeOK
  <1> QED
    BY <1>1, <1>2 DEF Register

LEMMA CreateUserType ==
  ASSUME TypeOK, NEW r \in Req, CreateUser(r)
  PROVE  TypeOK'
  <1>1. ASSUME NEW u \in User, NEW R \in RoleSet, CreateCheck(r, u, R) PROVE TypeOK'
    <2>1. R \in SUBSET Role /\ R # {}
      BY <1>1 DEF RoleSet, CreateCheck, rolesExist
    <2>2. /\ Begin(r, [Idle EXCEPT !.pc = "create", !.user = u, !.roles = R])
          /\ UNCHANGED <<users, assigned, role, claims, crossed, founders>>
      BY <1>1 DEF CreateCheck
    <2>3. /\ req' \in [Req -> Request] /\ Known(req'[r]) /\ req'[r].pc = "create"
          /\ \A q \in Req \ {r} : req'[q] = req[q]
      BY <2>1, <2>2, RequestBuilds
    <2> QED
      BY <2>2, <2>3, Stepped DEF TypeOK
  <1>2. CASE CreateTx(r)
    <2>1. PICK u \in User, R \in SUBSET Role : req[r].user = u /\ req[r].roles = R
      BY <1>2 DEF CreateTx, At, TypeOK, Known, Request
    <2>2. /\ Insert(u) /\ Assign(u, R) /\ Finish(r) /\ R # {}
          /\ UNCHANGED <<role, claims, founders>>
      BY <1>2, <2>1 DEF CreateTx, At, TypeOK, Known
    <2>3. /\ req' \in [Req -> Request] /\ Known(req'[r]) /\ req'[r].pc = "idle"
          /\ \A q \in Req \ {r} : req'[q] = req[q]
      BY <2>2, Gone, IdleRequest
    <2>4. /\ users' \in [User -> RowState] /\ users'[u] = "live"
          /\ \A v \in User \ {u} : users'[v] = users[v]
      BY <2>2, InsertType
    <2>5. /\ assigned' \in [User -> SUBSET Role] /\ assigned'[u] = R
          /\ \A v \in User \ {u} : assigned'[v] = assigned[v]
          /\ crossed' \subseteq User \X Role
      BY <2>2, AssignType
    <2>6. \A q \in Req :
            /\ Known(req'[q])
            /\ req'[q].pc \in {"update", "roles", "mint"} => users'[req'[q].user] # "none"
      BY <2>3, <2>4, Stepped
    <2>7. \A v \in User : users'[v] # "none" <=> assigned'[v] # {}
      BY <2>2, <2>4, <2>5 DEF TypeOK
    <2> QED
      BY <2>2, <2>3, <2>4, <2>5, <2>6, <2>7 DEF TypeOK
  <1> QED
    BY <1>1, <1>2 DEF CreateUser

LEMMA UpdateUserType ==
  ASSUME TypeOK, NEW r \in Req, UpdateUser(r)
  PROVE  TypeOK'
  <1>1. ASSUME NEW u \in User, NEW R \in RoleSet, UpdateCheck(r, u, R) PROVE TypeOK'
    <2>1. R \in SUBSET Role /\ R # {} /\ users[u] # "none"
      BY <1>1 DEF RoleSet, UpdateCheck, rolesExist
    <2>2. /\ Begin(r, [Idle EXCEPT !.pc = "update", !.user = u, !.roles = R])
          /\ UNCHANGED <<users, assigned, role, claims, crossed, founders>>
      BY <1>1 DEF UpdateCheck
    <2>3. /\ req' \in [Req -> Request] /\ Known(req'[r]) /\ req'[r].user = u
          /\ \A q \in Req \ {r} : req'[q] = req[q]
      BY <2>1, <2>2, RequestBuilds
    <2> QED
      BY <2>1, <2>2, <2>3, Stepped DEF TypeOK
  <1>2. CASE UpdateTx(r)
    <2>1. PICK u \in User, R \in SUBSET Role : req[r].user = u /\ req[r].roles = R
      BY <1>2 DEF UpdateTx, At, TypeOK, Known, Request
    <2>2. /\ Assign(u, R) /\ Finish(r) /\ R # {} /\ users[u] # "none"
          /\ UNCHANGED <<users, role, claims, founders>>
      BY <1>2, <2>1 DEF UpdateTx, At, TypeOK, Known
    <2>3. /\ req' \in [Req -> Request] /\ Known(req'[r]) /\ req'[r].pc = "idle"
          /\ \A q \in Req \ {r} : req'[q] = req[q]
      BY <2>2, Gone, IdleRequest
    <2>4. /\ assigned' \in [User -> SUBSET Role] /\ assigned'[u] = R
          /\ \A v \in User \ {u} : assigned'[v] = assigned[v]
          /\ crossed' \subseteq User \X Role
      BY <2>2, AssignType
    <2>5. \A q \in Req :
            /\ Known(req'[q])
            /\ req'[q].pc \in {"update", "roles", "mint"} => users'[req'[q].user] # "none"
      BY <2>2, <2>3, Stepped
    <2> QED
      BY <2>2, <2>3, <2>4, <2>5 DEF TypeOK
  <1> QED
    BY <1>1, <1>2 DEF UpdateUser

LEMMA TokenType ==
  ASSUME TypeOK, NEW r \in Req, Token(r)
  PROVE  TypeOK'
  <1>1. ASSUME NEW u \in User, TokenFind(r, u) PROVE TypeOK'
    <2> DEFINE x == [Idle EXCEPT !.pc = "roles", !.user = u]
    <2>1. x \in Request /\ Known(x) /\ x.user = u
      BY IdleRequest DEF Request, Known, Pc
    <2>2. /\ Begin(r, x) /\ users[u] # "none"
          /\ UNCHANGED <<users, assigned, role, claims, crossed, founders>>
      BY <1>1 DEF TokenFind
    <2> HIDE DEF x
    <2>3. /\ req' \in [Req -> Request] /\ Known(req'[r]) /\ req'[r].user = u
          /\ \A q \in Req \ {r} : req'[q] = req[q]
      BY <2>1, <2>2, Begun
    <2> QED
      BY <2>2, <2>3, Stepped DEF TypeOK
  <1>2. CASE TokenRoles(r)
    <2>1. PICK u \in User : req[r].user = u /\ users[u] # "none"
      BY <1>2 DEF TokenRoles, At, TypeOK, Known
    <2> DEFINE x == [req[r] EXCEPT !.pc = "mint", !.roles = assigned[u]]
    <2>2. x \in Request /\ Known(x) /\ x.user = u
      BY <2>1 DEF TypeOK, Request, Pc, Known
    <2>3. /\ req' = [req EXCEPT ![r] = x]
          /\ UNCHANGED <<users, assigned, role, claims, crossed, founders>>
      BY <1>2, <2>1 DEF TokenRoles, TypeOK
    <2> HIDE DEF x
    <2>4. /\ req' \in [Req -> Request] /\ Known(req'[r]) /\ req'[r].user = u
          /\ \A q \in Req \ {r} : req'[q] = req[q]
      BY <2>2, <2>3 DEF TypeOK
    <2> QED
      BY <2>1, <2>3, <2>4, Stepped DEF TypeOK
  <1>3. CASE IssueAccess(r)
    <2>1. req[r].user \in User /\ req[r].roles \subseteq Role
      BY <1>3 DEF IssueAccess, At, TypeOK, Known, Request
    <2>2. /\ claims' = claims \cup ({req[r].user} \X req[r].roles) /\ Finish(r)
          /\ UNCHANGED <<users, assigned, role, crossed, founders>>
      BY <1>3 DEF IssueAccess
    <2>3. claims' \subseteq User \X Role
      BY <2>1, <2>2 DEF TypeOK
    <2>4. /\ req' \in [Req -> Request] /\ Known(req'[r]) /\ req'[r].pc = "idle"
          /\ \A q \in Req \ {r} : req'[q] = req[q]
      BY <2>2, Gone, IdleRequest
    <2> QED
      BY <2>2, <2>3, <2>4, Stepped DEF TypeOK
  <1> QED
    BY <1>1, <1>2, <1>3 DEF Token

LEMMA DeleteRoleType ==
  ASSUME TypeOK, NEW r \in Req, DeleteRole(r)
  PROVE  TypeOK'
  <1>1. ASSUME NEW c \in Role, DeleteRoleCheck(r, c) PROVE TypeOK'
    <2> DEFINE x == [Idle EXCEPT !.pc = "delete", !.role = c]
    <2>1. x \in Request /\ Known(x) /\ x.pc = "delete"
      BY <1>1, IdleRequest DEF DeleteRoleCheck, Request, Known, Pc
    <2>2. /\ Begin(r, x)
          /\ UNCHANGED <<users, assigned, role, claims, crossed, founders>>
      BY <1>1 DEF DeleteRoleCheck
    <2> HIDE DEF x
    <2>3. /\ req' \in [Req -> Request] /\ Known(req'[r]) /\ req'[r].pc = "delete"
          /\ \A q \in Req \ {r} : req'[q] = req[q]
      BY <2>1, <2>2, Begun
    <2> QED
      BY <2>2, <2>3, Stepped DEF TypeOK
  <1>2. CASE DeleteRoleTx(r)
    <2>1. PICK c \in Role \ Builtin : req[r].role = c
      BY <1>2 DEF DeleteRoleTx, At, TypeOK, Known
    <2>2. /\ role' = [role EXCEPT ![c] = "deleted"] /\ Finish(r)
          /\ UNCHANGED <<users, assigned, claims, crossed, founders>>
      BY <1>2, <2>1 DEF DeleteRoleTx
    <2>3. role' \in [Role -> RowState] /\ \A b \in Builtin : role'[b] = "live"
      BY <2>1, <2>2, AccountsAssumption DEF TypeOK, RowState
    <2>4. /\ req' \in [Req -> Request] /\ Known(req'[r]) /\ req'[r].pc = "idle"
          /\ \A q \in Req \ {r} : req'[q] = req[q]
      BY <2>2, Gone, IdleRequest
    <2> QED
      BY <2>2, <2>3, <2>4, Stepped DEF TypeOK
  <1> QED
    BY <1>1, <1>2 DEF DeleteRole

LEMMA TypeNext == TypeOK /\ [Next]_vars => TypeOK'
  <1> SUFFICES ASSUME TypeOK, [Next]_vars PROVE TypeOK'
    OBVIOUS
  <1>1. ASSUME NEW r \in Req, Abort(r) PROVE TypeOK'
    <2>1. /\ req' \in [Req -> Request] /\ Known(req'[r]) /\ req'[r].pc = "idle"
          /\ \A q \in Req \ {r} : req'[q] = req[q]
          /\ UNCHANGED <<users, assigned, role, claims, crossed, founders>>
      BY <1>1, Gone, IdleRequest DEF Abort
    <2> QED
      BY <2>1, Stepped DEF TypeOK
  <1>2. ASSUME NEW u \in User, DeleteUser(u) PROVE TypeOK'
    <2>1. /\ users' \in [User -> RowState]
          /\ \A v \in User : users'[v] = "none" <=> users[v] = "none"
      BY <1>2 DEF DeleteUser, TypeOK, RowState
    <2> QED
      BY <1>2, <2>1 DEF DeleteUser, TypeOK, Known
  <1>3. ASSUME NEW c \in Role, CreateRole(c) PROVE TypeOK'
    BY <1>3, AccountsAssumption DEF CreateRole, TypeOK, RowState
  <1>4. ASSUME NEW u \in User, NEW c \in Role, ExpireClaim(u, c) PROVE TypeOK'
    BY <1>4 DEF ExpireClaim, TypeOK
  <1>5. CASE UNCHANGED vars
    BY <1>5 DEF vars, TypeOK
  <1> QED
    BY <1>1, <1>2, <1>3, <1>4, <1>5, RegisterType, CreateUserType, UpdateUserType,
       TokenType, DeleteRoleType DEF Next

(* Every variable keeps its type. *)
THEOREM AccountsType == Spec => []TypeOK
  BY InitType, TypeNext, PTL DEF Spec

-----------------------------------------------------------------------------
(* Roles that are no more *)

LEMMA InitOrphan == Init => OrphanInv
  BY DEF Init, OrphanInv, DeletionInv, OrphansCrossed

(* Whoever assigns sees the DeleteRole that is under way, if any. *)
LEMMA AssignOrphan ==
  ASSUME TypeOK, OrphanInv, NEW u \in User, NEW R \in SUBSET Role, Assign(u, R),
         UNCHANGED role,
         \A q \in Req : req'[q].pc = "delete" => req'[q] = req[q]
  PROVE  OrphanInv'
  <1>1. /\ assigned'[u] = R
        /\ \A v \in User \ {u} : assigned'[v] = assigned[v]
    BY AssignType
  <1>2. \A v \in User \ {u}, c \in Role : <<v, c>> \in crossed => <<v, c>> \in crossed'
    BY DEF Assign
  <1>3. \A c \in R : \/ role[c] = "deleted"
                     \/ \E q \in Req : At(q, "delete") /\ req[q].role = c
                     => <<u, c>> \in crossed'
    BY DEF Assign
  <1>4. DeletionInv'
    <2> SUFFICES ASSUME NEW q \in Req, NEW v \in User, NEW c \in Role,
                        req'[q].pc = "delete", req'[q].role = c, c \in assigned'[v]
                 PROVE  <<v, c>> \in crossed'
      BY <1>1 DEF DeletionInv, At, TypeOK, Known
    <2>1. req[q].pc = "delete" /\ req[q].role = c
      OBVIOUS
    <2>2. CASE v = u
      BY <1>1, <1>3, <2>1, <2>2 DEF At
    <2>3. CASE v # u
      BY <1>1, <1>2, <2>1, <2>3 DEF OrphanInv, DeletionInv, At
    <2> QED
      BY <2>2, <2>3
  <1>5. OrphansCrossed'
    <2> SUFFICES ASSUME NEW v \in User, NEW c \in Role, c \in assigned'[v], role[c] = "deleted"
                 PROVE  <<v, c>> \in crossed'
      BY AssignType DEF OrphansCrossed
    <2>1. CASE v = u
      BY <1>1, <1>3, <2>1
    <2>2. CASE v # u
      BY <1>1, <1>2, <2>2 DEF OrphanInv, OrphansCrossed
    <2> QED
      BY <2>1, <2>2
  <1> QED
    BY <1>4, <1>5 DEF OrphanInv

(* Steps that assign nothing and delete no role. *)
LEMMA QuietOrphan ==
  ASSUME TypeOK, OrphanInv, UNCHANGED <<assigned, crossed>>,
         \A c \in Role : role'[c] = "deleted" => role[c] = "deleted",
         \A q \in Req : req'[q].pc = "delete" => req'[q] = req[q]
  PROVE  OrphanInv'
  BY DEF OrphanInv, DeletionInv, OrphansCrossed, At, TypeOK

LEMMA DeleteRoleOrphan ==
  ASSUME TypeOK, OrphanInv, NEW r \in Req, DeleteRole(r)
  PROVE  OrphanInv'
  <1>1. ASSUME NEW c \in Role, DeleteRoleCheck(r, c) PROVE OrphanInv'
    <2>1. /\ UNCHANGED <<assigned, crossed, role>>
          /\ \A u \in User : c \notin assigned[u]
          /\ \A q \in Req \ {r} : req'[q] = req[q]
          /\ req'[r].role = c
      BY <1>1 DEF DeleteRoleCheck, Begin, TypeOK, Idle
    <2> QED
      BY <2>1 DEF OrphanInv, DeletionInv, OrphansCrossed, At
  <1>2. CASE DeleteRoleTx(r)
    <2>1. PICK c \in Role : req[r].role = c
      BY <1>2 DEF DeleteRoleTx, At, TypeOK, Known
    <2>2. /\ UNCHANGED <<assigned, crossed>> /\ At(r, "delete")
          /\ \A b \in Role \ {c} : role'[b] = role[b]
          /\ \A q \in Req \ {r} : req'[q] = req[q]
          /\ req'[r].pc = "idle"
      BY <1>2, <2>1, Gone, IdleRequest DEF DeleteRoleTx, TypeOK
    <2>3. \A u \in User : c \in assigned[u] => <<u, c>> \in crossed
      BY <2>1, <2>2 DEF OrphanInv, DeletionInv
    <2>4. DeletionInv'
      BY <2>2 DEF OrphanInv, DeletionInv, At
    <2>5. OrphansCrossed'
      BY <2>2, <2>3 DEF OrphanInv, OrphansCrossed, TypeOK
    <2> QED
      BY <2>4, <2>5 DEF OrphanInv
  <1> QED
    BY <1>1, <1>2 DEF DeleteRole

LEMMA OrphanNext == TypeOK /\ OrphanInv /\ [Next]_vars => OrphanInv'
  <1> SUFFICES ASSUME TypeOK, OrphanInv, [Next]_vars PROVE OrphanInv'
    OBVIOUS
  <1>1. ASSUME NEW r \in Req, RegisterTx(r) PROVE OrphanInv'
    <2>1. PICK u \in User, R \in SUBSET Role : req[r].user = u /\ req[r].roles = R
      BY <1>1 DEF RegisterTx, At, TypeOK, Known, Request
    <2>2. /\ Assign(u, R) /\ UNCHANGED role
          /\ req' = [req EXCEPT ![r].pc = "mint"]
      BY <1>1, <2>1 DEF RegisterTx
    <2>3. \A q \in Req : req'[q].pc = "delete" => req'[q] = req[q]
      BY <2>2 DEF TypeOK, Request
    <2> QED
      BY <2>2, <2>3, AssignOrphan
  <1>2. ASSUME NEW r \in Req, CreateTx(r) \/ UpdateTx(r) PROVE OrphanInv'
    <2>1. PICK u \in User, R \in SUBSET Role : req[r].user = u /\ req[r].roles = R
      BY <1>2 DEF CreateTx, UpdateTx, At, TypeOK, Known, Request
    <2>2. Assign(u, R) /\ UNCHANGED role /\ Finish(r)
      BY <1>2, <2>1 DEF CreateTx, UpdateTx
    <2>3. \A q \in Req : req'[q].pc = "delete" => req'[q] = req[q]
      BY <2>2, Gone, IdleRequest
    <2> QED
      BY <2>2, <2>3, AssignOrphan
  <1>3. ASSUME NEW r \in Req, NEW u \in User, NEW R \in SUBSET Role,
               \/ RegisterCount(r, u) \/ CreateCheck(r, u, R)
               \/ UpdateCheck(r, u, R) \/ TokenFind(r, u)
        PROVE  OrphanInv'
    <2>1. UNCHANGED <<assigned, role, crossed>>
      BY <1>3 DEF RegisterCount, CreateCheck, UpdateCheck, TokenFind
    <2>2. req'[r].pc \in {"register", "create", "update", "roles"}
      <3>1. RegisterCount(r, u) => req'[r].pc = "register"
        BY DEF RegisterCount, Begin, TypeOK, Idle
      <3>2. CreateCheck(r, u, R) => req'[r].pc = "create"
        BY DEF CreateCheck, Begin, TypeOK, Idle
      <3>3. UpdateCheck(r, u, R) => req'[r].pc = "update"
        BY DEF UpdateCheck, Begin, TypeOK, Idle
      <3>4. TokenFind(r, u) => req'[r].pc = "roles"
        BY DEF TokenFind, Begin, TypeOK, Idle
      <3> QED
        BY <1>3, <3>1, <3>2, <3>3, <3>4
    <2>3. \A q \in Req \ {r} : req'[q] = req[q]
      BY <1>3 DEF RegisterCount, CreateCheck, UpdateCheck, TokenFind, Begin, TypeOK
    <2> QED
      BY <2>1, <2>2, <2>3, QuietOrphan
  <1>4. ASSUME NEW r \in Req, TokenRoles(r) PROVE OrphanInv'
    <2>1. /\ UNCHANGED <<assigned, role, crossed>>
          /\ req'[r].pc = "mint" /\ \A q \in Req \ {r} : req'[q] = req[q]
      BY <1>4 DEF TokenRoles, TypeOK, Request
    <2> QED
      BY <2>1, QuietOrphan
  <1>5. ASSUME NEW r \in Req, IssueAccess(r) \/ Abort(r) PROVE OrphanInv'
    <2>1. UNCHANGED <<assigned, role, crossed>> /\ Finish(r)
      BY <1>5 DEF IssueAccess, Abort
    <2> QED
      BY <2>1, Gone, IdleRequest, QuietOrphan
  <1>6. ASSUME NEW u \in User, DeleteUser(u) PROVE OrphanInv'
    BY <1>6, QuietOrphan DEF DeleteUser
  <1>7. ASSUME NEW c \in Role, CreateRole(c) PROVE OrphanInv'
    BY <1>7, QuietOrphan DEF CreateRole, TypeOK
  <1>8. ASSUME NEW u \in User, NEW c \in Role, ExpireClaim(u, c) PROVE OrphanInv'
    BY <1>8, QuietOrphan DEF ExpireClaim
  <1>9. CASE UNCHANGED vars
    BY <1>9, QuietOrphan DEF vars
  <1>10. \A R \in RoleSet : R \in SUBSET Role
    BY DEF RoleSet
  <1> QED
    BY <1>1, <1>2, <1>3, <1>4, <1>5, <1>6, <1>7, <1>8, <1>9, <1>10, DeleteRoleOrphan
    DEF Next, Register, CreateUser, UpdateUser, Token

(* An account has a role that has been deleted only if it was assigned      *)
(* while a DeleteRole was between its check and its transaction, or later.  *)
THEOREM OrphansHold == Spec => []OrphansCrossed
  <1>1. TypeOK /\ OrphanInv => OrphansCrossed
    BY DEF OrphanInv
  <1> QED
    BY <1>1, InitType, TypeNext, InitOrphan, OrphanNext, PTL DEF Spec

-----------------------------------------------------------------------------
(* Founders *)

LEMMA PendingBound ==
  /\ IsFiniteSet(Pending) /\ Cardinality(Pending) \in Nat
  /\ Cardinality(Req) \in Nat /\ Cardinality(Pending) <= Cardinality(Req)
  <1>1. Pending \subseteq Req /\ IsFiniteSet(Req)
    BY AccountsAssumption DEF Pending
  <1> QED
    BY <1>1, FS_Subset, FS_CardinalityType

LEMMA PendingBoundNext ==
  /\ IsFiniteSet(Pending') /\ Cardinality(Pending') \in Nat
  /\ Cardinality(Pending') <= Cardinality(Req)
  <1>1. Pending' \subseteq Req /\ IsFiniteSet(Req)
    BY AccountsAssumption DEF Pending
  <1> QED
    BY <1>1, FS_Subset, FS_CardinalityType

LEMMA InitFounder == Init => FounderInv
  <1> SUFFICES ASSUME Init PROVE FounderInv
    OBVIOUS
  <1>1. founders = {} /\ IsFiniteSet({}) /\ Cardinality({}) = 0
    BY FS_EmptySet DEF Init
  <1> QED
    BY <1>1, PendingBound DEF FounderInv

(* Steps by which nobody becomes a founder and nobody comes to hope so. *)
LEMMA QuietFounder ==
  ASSUME FounderInv, UNCHANGED founders, Live # {} => Live' # {},
         Pending' \subseteq Pending
  PROVE  FounderInv'
  <1>1. Cardinality(Pending') <= Cardinality(Pending)
    BY PendingBound, FS_Subset
  <1>2. Cardinality(founders) \in Nat
    BY FS_CardinalityType DEF FounderInv
  <1> QED
    BY <1>1, <1>2, PendingBound, PendingBoundNext DEF FounderInv

LEMMA RegisterFounder ==
  ASSUME TypeOK, FounderInv, NEW r \in Req, Register(r)
  PROVE  FounderInv'
  <1>1. ASSUME NEW u \in User, RegisterCount(r, u) PROVE FounderInv'
    <2>1. UNCHANGED <<users, founders>> /\ Live' = Live
      BY <1>1 DEF RegisterCount, Live
    <2>2. CASE Live = {}
      <3>1. founders' = {}
        BY <2>1, <2>2 DEF FounderInv
      <3>2. IsFiniteSet({}) /\ Cardinality({}) = 0
        BY FS_EmptySet
      <3> QED
        BY <3>1, <3>2, PendingBoundNext DEF FounderInv
    <2>3. CASE Live # {}
      <3>1. Begin(r, [Idle EXCEPT !.pc = "register", !.user = u, !.roles = {Basic}])
        BY <1>1, <2>3 DEF RegisterCount
      <3>2. /\ req'[r].roles = {Basic}
            /\ \A q \in Req \ {r} : req'[q] = req[q]
        BY <3>1 DEF Begin, TypeOK, Idle
      <3>3. {Basic} # {Admin}
        BY AccountsAssumption
      <3>4. Pending' \subseteq Pending
        BY <3>2, <3>3 DEF Pending, At
      <3> QED
        BY <2>1, <3>4, QuietFounder
    <2> QED
      BY <2>2, <2>3
  <1>2. CASE RegisterTx(r)
    <2>1. PICK u \in User : req[r].user = u
      BY <1>2 DEF RegisterTx, At, TypeOK, Known
    <2>2. /\ Insert(u) /\ At(r, "register")
          /\ founders' = IF req[r].roles = {Admin} THEN founders \cup {u} ELSE founders
          /\ req' = [req EXCEPT ![r].pc = "mint"]
      BY <1>2, <2>1 DEF RegisterTx
    <2>3. u \in Live'
      BY <2>2, InsertType DEF Live
    <2>4. req'[r].pc = "mint" /\ \A q \in Req \ {r} : req'[q] = req[q]
      BY <2>2 DEF TypeOK, Request
    <2>5. Pending' = Pending \ {r}
      BY <2>4 DEF Pending, At
    <2>6. CASE req[r].roles # {Admin}
      <3>1. UNCHANGED founders /\ Pending' \subseteq Pending
        BY <2>2, <2>5, <2>6
      <3> QED
        BY <2>3, <3>1, QuietFounder
    <2>7. CASE req[r].roles = {Admin}
      <3>1. r \in Pending
        BY <2>2, <2>7 DEF Pending
      <3>2. Cardinality(Pending') = Cardinality(Pending) - 1
        BY <2>5, <3>1, PendingBound, FS_RemoveElement
      <3>3. founders' = founders \cup {u} /\ IsFiniteSet(founders)
        BY <2>2, <2>7 DEF FounderInv
      <3>4. /\ IsFiniteSet(founders')
            /\ \/ Cardinality(founders') = Cardinality(founders)
               \/ Cardinality(founders') = Cardinality(founders) + 1
        BY <3>3, FS_AddElement
      <3>5. Cardinality(founders) \in Nat
        BY <3>3, FS_CardinalityType
      <3> QED
        BY <2>3, <3>2, <3>4, <3>5, PendingBound DEF FounderInv
    <2> QED
      BY <2>6, <2>7
  <1> QED
    BY <1>1, <1>2 DEF Register

LEMMA DeleteUserFounder ==
  ASSUME TypeOK, FounderInv, NEW u \in User, DeleteUser(u)
  PROVE  FounderInv'
  <1>1. /\ Pending' = Pending /\ Live' = Live \ {u}
        /\ founders' = IF Live = {u} THEN {} ELSE founders
    BY DEF DeleteUser, Pending, At, Live, TypeOK, RowState
  <1>2. CASE Live = {u}
    <2>1. founders' = {} /\ IsFiniteSet({}) /\ Cardinality({}) = 0
      BY <1>1, <1>2, FS_EmptySet
    <2> QED
      BY <2>1, PendingBoundNext DEF FounderInv
  <1>3. CASE Live # {u}
    BY <1>1, <1>3, QuietFounder
  <1> QED
    BY <1>2, <1>3

LEMMA FounderNext == TypeOK /\ FounderInv /\ [Next]_vars => FounderInv'
  <1> SUFFICES ASSUME TypeOK, FounderInv, [Next]_vars PROVE FounderInv'
    OBVIOUS
  <1>1. ASSUME UNCHANGED <<users, founders>>,
               \A q \in Req : req'[q].pc = "register" => req'[q] = req[q]
        PROVE  FounderInv'
    BY <1>1, QuietFounder DEF Pending, At, Live
  <1>2. ASSUME NEW r \in Req, NEW c \in Role, DeleteRoleCheck(r, c) PROVE FounderInv'
    <2>1. /\ UNCHANGED <<users, founders>>
          /\ req'[r].pc = "delete" /\ \A q \in Req \ {r} : req'[q] = req[q]
      BY <1>2 DEF DeleteRoleCheck, Begin, TypeOK, Idle
    <2> QED
      BY <1>1, <2>1
  <1>3. ASSUME NEW r \in Req, CreateTx(r) PROVE FounderInv'
    <2>1. PICK u \in User : req[r].user = u
      BY <1>3 DEF CreateTx, At, TypeOK, Known
    <2>2. Insert(u) /\ Finish(r) /\ UNCHANGED founders
      BY <1>3, <2>1 DEF CreateTx
    <2>3. u \in Live'
      BY <2>2, InsertType DEF Live
    <2>4. Pending' \subseteq Pending
      BY <2>2, Gone, IdleRequest DEF Pending, At
    <2> QED
      BY <2>2, <2>3, <2>4, QuietFounder
  <1>4. ASSUME NEW r \in Req, UpdateTx(r) \/ DeleteRoleTx(r) \/ IssueAccess(r) \/ Abort(r)
        PROVE  FounderInv'
    <2>1. UNCHANGED <<users, founders>> /\ Finish(r)
      BY <1>4 DEF UpdateTx, DeleteRoleTx, IssueAccess, Abort
    <2> QED
      BY <1>1, <2>1, Gone, IdleRequest
  <1>5. ASSUME NEW r \in Req, NEW u \in User, NEW R \in SUBSET Role,
               CreateCheck(r, u, R) \/ UpdateCheck(r, u, R) \/ TokenFind(r, u)
        PROVE  FounderInv'
    <2>1. /\ UNCHANGED <<users, founders>>
          /\ \A q \in Req \ {r} : req'[q] = req[q]
      BY <1>5 DEF CreateCheck, UpdateCheck, TokenFind, Begin, TypeOK
    <2>2. CreateCheck(r, u, R) => req'[r].pc = "create"
      BY DEF CreateCheck, Begin, TypeOK, Idle
    <2>3. UpdateCheck(r, u, R) => req'[r].pc = "update"
      BY DEF UpdateCheck, Begin, TypeOK, Idle
    <2>4. TokenFind(r, u) => req'[r].pc = "roles"
      BY DEF TokenFind, Begin, TypeOK, Idle
    <2> QED
      BY <1>1, <1>5, <2>1, <2>2, <2>3, <2>4
  <1>6. ASSUME NEW r \in Req, TokenRoles(r) PROVE FounderInv'
    <2>1. /\ UNCHANGED <<users, founders>>
          /\ req'[r].pc = "mint" /\ \A q \in Req \ {r} : req'[q] = req[q]
      BY <1>6 DEF TokenRoles, TypeOK, Request
    <2> QED
      BY <1>1, <2>1
  <1>7. ASSUME NEW c \in Role, CreateRole(c) PROVE FounderInv'
    BY <1>1, <1>7 DEF CreateRole
  <1>8. ASSUME NEW u \in User, NEW c \in Role, ExpireClaim(u, c) PROVE FounderInv'
    BY <1>1, <1>8 DEF ExpireClaim
  <1>9. CASE UNCHANGED vars
    BY <1>1, <1>9 DEF vars
  <1>10. \A R \in RoleSet : R \in SUBSET Role
    BY DEF RoleSet
  <1> QED
    BY <1>2, <1>3, <1>4, <1>5, <1>6, <1>7, <1>8, <1>9, <1>10, RegisterFounder,
       DeleteUserFounder
    DEF Next, CreateUser, UpdateUser, Token, DeleteRole

(* Never more founders than requests that can overlap: the first            *)
(* registration is only first among those that counted when it was not yet  *)
(* there.                                                                   *)
THEOREM FoundersHold == Spec => []FoundersBoundedByOverlap
  <1>1. TypeOK /\ FounderInv => FoundersBoundedByOverlap
    BY DEF FounderInv, FoundersBoundedByOverlap, Pending
  <1> QED
    BY <1>1, InitType, TypeNext, InitFounder, FounderNext, PTL DEF Spec
=============================================================================
