------------------------------ MODULE Accounts ------------------------------
(***************************************************************************)
(* Who has which role: accounts, their rows of user_roles, the roles they  *)
(* may refer to, and the roles carried by access tokens, under the         *)
(* handlers that register, create, update, import and delete accounts,     *)
(* create and delete roles, and mint tokens.                               *)
(*                                                                         *)
(* One action is one database statement or transaction.  Passwords and     *)
(* sessions are in Sessions; what a role may call is in RolePolicy.        *)
(***************************************************************************)
EXTENDS Naturals, FiniteSets

CONSTANTS
  User,     \* e-mail addresses; an account keeps the one it was created with
  Role,     \* role codes
  Admin,    \* model.RoleAdmin
  Basic,    \* model.RoleUser
  Req,      \* concurrent requests
  None,     \* "no value" in a request's locals
  MaxRoles, \* bound on the roles a request asks for
  MaxClaims \* bound on claims

Builtin == {Admin, Basic}

ASSUME AccountsAssumption ==
  /\ Builtin \subseteq Role
  /\ Admin # Basic
  /\ None \notin User \cup Role
  /\ IsFiniteSet(Req)
  /\ MaxRoles \in Nat \ {0}
  /\ MaxClaims \in Nat \ {0}

RoleSet == {R \in SUBSET Role : Cardinality(R) \in 1 .. MaxRoles}

VARIABLES
  users,     \* the row of users with that e-mail
  assigned,  \* rows of user_roles: the roles of the account
  role,      \* the row of roles
  claims,    \* <<u, c>>: an access token of u that has not expired carries c
  req,       \* locals of the running requests
  crossed,   \* history: <<u, c>> assigned while c was being deleted, or later
  founders   \* history: accounts that registered as administrators since
             \* there last was no account

vars == <<users, assigned, role, claims, req, crossed, founders>>

RowState == {"none", "live", "deleted"}

Pc == {"idle", "register", "create", "update", "roles", "mint", "delete"}

Request == [pc : Pc, user : User \cup {None}, role : Role \cup {None},
            roles : SUBSET Role]

Idle == [pc |-> "idle", user |-> None, role |-> None, roles |-> {}]

(* What a request has found out is there for its next statement. *)
Known(x) ==
  /\ x.pc \in {"register", "create", "update", "roles", "mint"} => x.user \in User
  /\ x.pc \in {"register", "create", "update"} => x.roles # {}
  /\ x.pc = "delete" => x.role \in Role \ Builtin

TypeOK ==
  /\ users \in [User -> RowState]
  /\ assigned \in [User -> SUBSET Role]
  /\ role \in [Role -> RowState]
  /\ claims \subseteq User \X Role
  /\ req \in [Req -> Request]
  /\ crossed \subseteq User \X Role
  /\ founders \subseteq User
  /\ \A c \in Builtin : role[c] = "live"
  /\ \A u \in User : users[u] # "none" <=> assigned[u] # {}
  /\ \A r \in Req :
       /\ Known(req[r])
       /\ req[r].pc \in {"update", "roles", "mint"} => users[req[r].user] # "none"

(* After Seed, before the first registration. *)
Init ==
  /\ users = [u \in User |-> "none"]
  /\ assigned = [u \in User |-> {}]
  /\ role = [c \in Role |-> IF c \in Builtin THEN "live" ELSE "none"]
  /\ claims = {}
  /\ req = [r \in Req |-> Idle]
  /\ crossed = {}
  /\ founders = {}

-----------------------------------------------------------------------------
At(r, label) == req[r].pc = label

Begin(r, fields) ==
  /\ At(r, "idle")
  /\ req' = [req EXCEPT ![r] = fields]

Finish(r) == req' = [req EXCEPT ![r] = Idle]

Live == {u \in User : users[u] = "live"}

(* rolesExist, and the same question asked of allRoleCodes by an import. *)
rolesExist(R) == R # {} /\ \A c \in R : role[c] = "live"

(* R is written to user_roles as the roles of u. *)
Assign(u, R) ==
  /\ assigned' = [assigned EXCEPT ![u] = R]
  /\ crossed' = {x \in crossed : x[1] # u} \cup
       {u} \X {c \in R : \/ role[c] = "deleted"
                         \/ \E q \in Req : At(q, "delete") /\ req[q].role = c}

(* INSERT INTO users: the unique index on email holds deleted accounts too. *)
Insert(u) ==
  /\ users[u] = "none"
  /\ users' = [users EXCEPT ![u] = "live"]

-----------------------------------------------------------------------------
(* Variants named "...Bug" are not part of the specification: each is a      *)
(* slip of the code it stands before, kept to show which property sees it.  *)

(* Everybody is first. *)
RegisterCountBug(r, u) ==
  /\ users[u] # "live"
  /\ Begin(r, [Idle EXCEPT !.pc = "register", !.user = u, !.roles = {Admin}])
  /\ UNCHANGED <<users, assigned, role, claims, crossed, founders>>

(* Register: the accounts are counted, which decides on the role, and the    *)
(* e-mail is looked up (both without the deleted ones) ...                  *)
RegisterCount(r, u) ==
  /\ users[u] # "live"
  /\ Begin(r, [Idle EXCEPT !.pc = "register", !.user = u,
                           !.roles = IF Live = {} THEN {Admin} ELSE {Basic}])
  /\ UNCHANGED <<users, assigned, role, claims, crossed, founders>>

(* ... a transaction creates the account with its role, and a session is    *)
(* started with that role, not with what user_roles says by then.           *)
RegisterTx(r) ==
  LET u == req[r].user
      R == req[r].roles
  IN
  /\ At(r, "register")
  /\ Insert(u)
  /\ Assign(u, R)
  /\ founders' = IF R = {Admin} THEN founders \cup {u} ELSE founders
  /\ req' = [req EXCEPT ![r].pc = "mint"]
  /\ UNCHANGED <<role, claims>>

(* CreateUser, and each row of an import: the e-mail is free and the roles  *)
(* exist ...                                                                *)
CreateCheck(r, u, R) ==
  /\ users[u] # "live"
  /\ rolesExist(R)
  /\ Begin(r, [Idle EXCEPT !.pc = "create", !.user = u, !.roles = R])
  /\ UNCHANGED <<users, assigned, role, claims, crossed, founders>>

(* ... a transaction creates the account and its roles. *)
CreateTx(r) ==
  /\ At(r, "create")
  /\ Insert(req[r].user)
  /\ Assign(req[r].user, req[r].roles)
  /\ Finish(r)
  /\ UNCHANGED <<role, claims, founders>>

(* UpdateUser: the account and the roles exist ... *)
UpdateCheck(r, u, R) ==
  /\ users[u] = "live"
  /\ rolesExist(R)
  /\ Begin(r, [Idle EXCEPT !.pc = "update", !.user = u, !.roles = R])
  /\ UNCHANGED <<users, assigned, role, claims, crossed, founders>>

(* ... a transaction replaces the roles, even of an account that has been   *)
(* deleted since (the UPDATE of users then affects no row, and nobody asks).*)
UpdateTx(r) ==
  /\ At(r, "update")
  /\ Assign(req[r].user, req[r].roles)
  /\ Finish(r)
  /\ UNCHANGED <<users, role, claims, founders>>

(* DeleteUser is a soft delete: the rows of user_roles stay. *)
DeleteUser(u) ==
  /\ users[u] = "live"
  /\ users' = [users EXCEPT ![u] = "deleted"]
  /\ founders' = IF Live = {u} THEN {} ELSE founders
  /\ UNCHANGED <<assigned, role, claims, req, crossed>>

-----------------------------------------------------------------------------
(* Deleted accounts are found too. *)
TokenFindBug(r, u) ==
  /\ users[u] # "none"
  /\ Begin(r, [Idle EXCEPT !.pc = "roles", !.user = u])
  /\ UNCHANGED <<users, assigned, role, claims, crossed, founders>>

(* Login and Refresh find the account (a live session and, at login, the    *)
(* credentials are Sessions' matter) ...                                    *)
TokenFind(r, u) ==
  /\ users[u] = "live"
  /\ Begin(r, [Idle EXCEPT !.pc = "roles", !.user = u])
  /\ UNCHANGED <<users, assigned, role, claims, crossed, founders>>

(* ... read its roles ... *)
TokenRoles(r) ==
  /\ At(r, "roles")
  /\ req' = [req EXCEPT ![r].pc = "mint", ![r].roles = assigned[req[r].user]]
  /\ UNCHANGED <<users, assigned, role, claims, crossed, founders>>

(* ... and put them into the access token, as Register does.                *)
IssueAccess(r) ==
  /\ At(r, "mint")
  /\ claims' = claims \cup ({req[r].user} \X req[r].roles)
  /\ Cardinality(claims') <= MaxClaims
  /\ Finish(r)
  /\ UNCHANGED <<users, assigned, role, crossed, founders>>

(* JWT_ACCESS_TTL passes for the last token of u that carries c. *)
ExpireClaim(u, c) ==
  /\ <<u, c>> \in claims
  /\ claims' = claims \ {<<u, c>>}
  /\ UNCHANGED <<users, assigned, role, req, crossed, founders>>

-----------------------------------------------------------------------------
CreateRole(c) ==
  /\ role[c] = "none"
  /\ role' = [role EXCEPT ![c] = "live"]
  /\ UNCHANGED <<users, assigned, claims, req, crossed, founders>>

(* The count of the users who have the role is forgotten. *)
DeleteRoleCheckBug(r, c) ==
  /\ role[c] = "live"
  /\ c \notin Builtin
  /\ Begin(r, [Idle EXCEPT !.pc = "delete", !.role = c])
  /\ UNCHANGED <<users, assigned, role, claims, crossed, founders>>

(* DeleteRole: the role exists, is not built in, and user_roles, whose rows *)
(* outlive their accounts, has no row of it ...                             *)
DeleteRoleCheck(r, c) ==
  /\ role[c] = "live"
  /\ c \notin Builtin
  /\ \A u \in User : c \notin assigned[u]
  /\ Begin(r, [Idle EXCEPT !.pc = "delete", !.role = c])
  /\ UNCHANGED <<users, assigned, role, claims, crossed, founders>>

(* ... a transaction deletes it (its menus and policies are in RolePolicy). *)
DeleteRoleTx(r) ==
  /\ At(r, "delete")
  /\ role' = [role EXCEPT ![req[r].role] = "deleted"]
  /\ Finish(r)
  /\ UNCHANGED <<users, assigned, claims, crossed, founders>>

(* A statement fails, the client goes away, or the process dies. *)
Abort(r) ==
  /\ ~At(r, "idle")
  /\ Finish(r)
  /\ UNCHANGED <<users, assigned, role, claims, crossed, founders>>

Register(r) == RegisterTx(r) \/ \E u \in User : RegisterCount(r, u)

CreateUser(r) ==
  CreateTx(r) \/ \E u \in User, R \in RoleSet : CreateCheck(r, u, R)

UpdateUser(r) ==
  UpdateTx(r) \/ \E u \in User, R \in RoleSet : UpdateCheck(r, u, R)

Token(r) == TokenRoles(r) \/ IssueAccess(r) \/ \E u \in User : TokenFind(r, u)

DeleteRole(r) == DeleteRoleTx(r) \/ \E c \in Role : DeleteRoleCheck(r, c)

Next ==
  \/ \E r \in Req :
       \/ Register(r) \/ CreateUser(r) \/ UpdateUser(r)
       \/ Token(r) \/ DeleteRole(r) \/ Abort(r)
  \/ \E u \in User : DeleteUser(u)
  \/ \E c \in Role : CreateRole(c)
  \/ \E u \in User, c \in Role : ExpireClaim(u, c)

(* A handler that has read the roles ends, and tokens grow old. *)
Fairness ==
  /\ \A r \in Req : WF_vars(IssueAccess(r))
  /\ \A u \in User, c \in Role : WF_vars(ExpireClaim(u, c))

Spec == Init /\ [][Next]_vars /\ Fairness

-----------------------------------------------------------------------------
(* An account has a role that is no more only if the assignment crossed the *)
(* role's deletion: neither handler's check is part of its transaction      *)
(* (rolesExist, and inUse in DeleteRole).                                   *)
OrphansCrossed ==
  \A u \in User : \A c \in assigned[u] : role[c] = "deleted" => <<u, c>> \in crossed

(* Only registrations that counted no account before the first of them was  *)
(* there become administrators: never more than requests can overlap        *)
(* (Register, count == 0).                                                  *)
FoundersBoundedByOverlap ==
  founders # {} =>
    Cardinality(founders)
      + Cardinality({r \in Req : At(r, "register") /\ req[r].roles = {Admin}})
      <= Cardinality(Req)

(* A role that has been taken away for good, or whose account has been      *)
(* deleted, is carried by no token in the end, although a token minted from *)
(* a list read before may still come (Refresh re-reads "so role changes     *)
(* propagate").                                                             *)
RevokedRoleFades ==
  \A u \in User, c \in Role :
    <>[](c \notin assigned[u] \/ users[u] = "deleted") => <>[](<<u, c>> \notin claims)

-----------------------------------------------------------------------------
(* "The first user to register becomes admin; all subsequent self-          *)
(* registrations are regular users" (auth_service.go).  The code does not   *)
(* keep this: registrations that overlap may all count no users             *)
(* (FoundersBoundedByOverlap is what holds).                                *)
OneFounder == Cardinality(founders) <= 1
=============================================================================
