----------------------------- MODULE RolePolicy -----------------------------
(***************************************************************************)
(* What roles may call: the rows of roles, role_menus and casbin_rule, and *)
(* each instance's Casbin enforcer with the policies it holds in memory    *)
(* and its cache of decisions, under RoleService, ApiService, PluginService *)
(* and the authorization of ordinary calls.                                *)
(*                                                                         *)
(* One action is one database statement or transaction, or one call of the *)
(* enforcer that holds its lock.  The enforcer is a library: what is said  *)
(* of it here is what internal/casbin relies on.  Who has which role is in *)
(* Accounts.                                                               *)
(***************************************************************************)
EXTENDS FiniteSets

CONSTANTS
  Role,      \* role codes
  Builtin,   \* those that are seeded and cannot be deleted
  Proc,      \* procedures
  Instance,  \* server processes on one database
  Req,       \* concurrent requests
  None       \* "no value" in a request's locals

ASSUME RolePolicyAssumption ==
  /\ Builtin \subseteq Role
  /\ None \notin Role \cup Proc \cup Instance

VARIABLES
  role,      \* the row of roles
  menus,     \* role_menus and role_buttons, named by the procedures that the
             \* SetRolePermissions call that wrote them asked for
  rule,      \* rows of casbin_rule
  memory,    \* memory[i]: the policies in the enforcer of instance i
  cache,     \* cache[i]: its decisions
  req,       \* locals of the running requests
  torn,      \* history: roles whose menus and rules may come from two calls
  late       \* history: decisions stored after the policies had changed

vars == <<role, menus, rule, memory, cache, req, torn, late>>

Decision == {"none", "allow", "deny"}

Pc == {"idle", "set", "clear", "add", "delete", "remove", "invalidate",
       "compute", "store"}

Request == [pc : Pc, inst : Instance \cup {None}, role : Role \cup {None},
            procs : SUBSET Proc, proc : Proc \cup {None}, result : Decision]

Idle == [pc |-> "idle", inst |-> None, role |-> None,
         procs |-> {}, proc |-> None, result |-> "none"]

(* What a request has found out is there for its next statement. *)
Known(x) ==
  /\ x.pc # "idle" => x.inst \in Instance
  /\ x.pc \in {"set", "clear", "add"} => x.role \in Role
  /\ x.pc \in {"delete", "remove"} => x.role \in Role \ Builtin
  /\ x.pc \in {"compute", "store"} => x.role \in Role /\ x.proc \in Proc

TypeOK ==
  /\ role \in [Role -> {"none", "live", "deleted"}]
  /\ menus \in [Role -> SUBSET Proc]
  /\ rule \in [Role -> SUBSET Proc]
  /\ memory \in [Instance -> [Role -> SUBSET Proc]]
  /\ cache \in [Instance -> [Role \X Proc -> Decision]]
  /\ req \in [Req -> Request]
  /\ torn \subseteq Role
  /\ late \subseteq Instance \X Role \X Proc
  /\ \A c \in Builtin : role[c] = "live"
  /\ \A r \in Req : Known(req[r])

(* After Seed: the built-in roles, without a policy. *)
Init ==
  /\ role = [c \in Role |-> IF c \in Builtin THEN "live" ELSE "none"]
  /\ menus = [c \in Role |-> {}]
  /\ rule = [c \in Role |-> {}]
  /\ memory = [i \in Instance |-> [c \in Role |-> {}]]
  /\ cache = [i \in Instance |-> [d \in Role \X Proc |-> "none"]]
  /\ req = [r \in Req |-> Idle]
  /\ torn = {}
  /\ late = {}

-----------------------------------------------------------------------------
Begin(r, fields) ==
  /\ req[r] = Idle
  /\ req' = [req EXCEPT ![r] = fields]

At(r, label) == req[r].pc = label

Goto(r, label) == req' = [req EXCEPT ![r].pc = label]

Finish(r) == req' = [req EXCEPT ![r] = Idle]

(* A SetRolePermissions call has written the menus of c, not yet its rules. *)
HalfSet(r, c) == req[r].role = c /\ req[r].pc \in {"clear", "add"}

Forget(i, D) ==
  /\ cache' = [cache EXCEPT ![i] = [d \in Role \X Proc |-> IF d \in D THEN "none" ELSE @[d]]]
  /\ late' = {l \in late : l[1] # i \/ <<l[2], l[3]>> \notin D}

(* RemoveFilteredPolicy of the rules that c and the set P select: rows and  *)
(* memory change together, under the enforcer's lock; the cache does not.   *)
RemoveFilteredPolicy(i, C, P) ==
  /\ rule' = [c \in Role |-> IF c \in C THEN rule[c] \ P ELSE rule[c]]
  /\ memory' = [memory EXCEPT ![i] =
                  [c \in Role |-> IF c \in C THEN @[c] \ P ELSE @[c]]]

-----------------------------------------------------------------------------
(* The unique index on code still holds the codes of deleted roles. *)
CreateRole(c) ==
  /\ role[c] = "none"
  /\ role' = [role EXCEPT ![c] = "live"]
  /\ UNCHANGED <<menus, rule, memory, cache, req, torn, late>>

(* Variants named "...Bug" are not part of the specification: each is a      *)
(* slip of the code it stands before, kept to show which property sees it.  *)

(* SetRolePermissions: the role is there ... *)
SetFind(r, i, c, P) ==
  /\ role[c] = "live"
  /\ Begin(r, [Idle EXCEPT !.pc = "set", !.inst = i, !.role = c, !.procs = P])
  /\ UNCHANGED <<role, menus, rule, memory, cache, torn, late>>

(* ... a transaction replaces its menus and buttons ... *)
SetTx(r) ==
  /\ At(r, "set")
  /\ menus' = [menus EXCEPT ![req[r].role] = req[r].procs]
  /\ Goto(r, "clear")
  /\ torn' = IF \E q \in Req : HalfSet(q, req[r].role)
               THEN torn \cup {req[r].role} ELSE torn \ {req[r].role}
  /\ UNCHANGED <<role, rule, memory, cache, late>>

(* The old policies stay. *)
ClearBug(r) ==
  /\ At(r, "clear")
  /\ Goto(r, IF req[r].procs = {} THEN "invalidate" ELSE "add")
  /\ UNCHANGED <<role, menus, rule, memory, cache, torn, late>>

(* ... SetRoleProcedures drops the role's policies ... *)
Clear(r) ==
  /\ At(r, "clear")
  /\ RemoveFilteredPolicy(req[r].inst, {req[r].role}, Proc)
  /\ Goto(r, IF req[r].procs = {} THEN "invalidate" ELSE "add")
  /\ UNCHANGED <<role, menus, cache, torn, late>>

(* ... adds the new ones: AddPolicies forgets the decisions on them and adds *)
(* none of them if memory holds one already (the answer false is ignored).  *)
(* A row that another instance has inserted makes it fail (Abort) ...       *)
Add(r) ==
  LET i == req[r].inst
      c == req[r].role
      P == req[r].procs
      present == memory[i][c] \cap P # {}
  IN
  /\ At(r, "add")
  /\ present \/ rule[c] \cap P = {}
  /\ Forget(i, {c} \X P)
  /\ rule' = IF present THEN rule ELSE [rule EXCEPT ![c] = @ \cup P]
  /\ memory' = IF present THEN memory ELSE [memory EXCEPT ![i][c] = @ \cup P]
  /\ torn' = IF role[c] = "deleted" THEN torn \cup {c} ELSE torn
  /\ Goto(r, "invalidate")
  /\ UNCHANGED <<role, menus>>

(* The cache is left as it is. *)
InvalidateBug(r) ==
  /\ At(r, "invalidate")
  /\ Finish(r)
  /\ UNCHANGED <<role, menus, rule, memory, cache, torn, late>>

(* ... and InvalidateCache empties the cache. *)
InvalidateCache(r) ==
  /\ At(r, "invalidate")
  /\ Forget(req[r].inst, Role \X Proc)
  /\ Finish(r)
  /\ UNCHANGED <<role, menus, rule, memory, torn>>

(* DeleteRole: the role is there, not built in and nobody has it (Accounts) *)
(* ...                                                                      *)
DeleteFind(r, i, c) ==
  /\ role[c] = "live"
  /\ c \notin Builtin
  /\ Begin(r, [Idle EXCEPT !.pc = "delete", !.inst = i, !.role = c])
  /\ UNCHANGED <<role, menus, rule, memory, cache, torn, late>>

(* ... a transaction deletes it with its menus and buttons ... *)
DeleteTx(r) ==
  /\ At(r, "delete")
  /\ role' = [role EXCEPT ![req[r].role] = "deleted"]
  /\ menus' = [menus EXCEPT ![req[r].role] = {}]
  /\ Goto(r, "remove")
  /\ UNCHANGED <<rule, memory, cache, torn, late>>

(* The policies stay. *)
RemoveRoleBug(r) ==
  /\ At(r, "remove")
  /\ Goto(r, "invalidate")
  /\ UNCHANGED <<role, menus, rule, memory, cache, torn, late>>

(* ... and RemoveRole drops its policies, InvalidateCache following. *)
RemoveRole(r) ==
  /\ At(r, "remove")
  /\ RemoveFilteredPolicy(req[r].inst, {req[r].role}, Proc)
  /\ Goto(r, "invalidate")
  /\ UNCHANGED <<role, menus, cache, torn, late>>

(* DeleteApi, and SyncApis for a procedure that is gone, after the row of   *)
(* the catalogue is deleted.                                                *)
RemoveProcedure(r, i, p) ==
  /\ Begin(r, [Idle EXCEPT !.pc = "invalidate", !.inst = i])
  /\ RemoveFilteredPolicy(i, Role, {p})
  /\ torn' = torn \cup {c \in Role : p \in rule[c]}
  /\ UNCHANGED <<role, menus, cache, late>>

(* UninstallPlugin with purge_data deletes the rows of the plugin's         *)
(* procedures itself: no enforcer notices.                                  *)
PurgeProcedure(p) ==
  /\ rule' = [c \in Role |-> rule[c] \ {p}]
  /\ torn' = torn \cup {c \in Role : p \in rule[c]}
  /\ UNCHANGED <<role, menus, memory, cache, req, late>>

-----------------------------------------------------------------------------
(* Authorization of a call by one of its roles, an admin's and a public one *)
(* apart.  A decision in the cache is the answer; without one the enforcer  *)
(* goes to the policies.  The interceptor asks for one role after the other *)
(* and keeps nothing between them.                                          *)
EnforceMiss(r, i, c, p) ==
  /\ cache[i][<<c, p>>] = "none"
  /\ Begin(r, [Idle EXCEPT !.pc = "compute", !.inst = i, !.role = c, !.proc = p])
  /\ UNCHANGED <<role, menus, rule, memory, cache, torn, late>>

Holds(i, c, p) == IF p \in memory[i][c] THEN "allow" ELSE "deny"

EnforceCompute(r) ==
  /\ At(r, "compute")
  /\ req' = [req EXCEPT ![r] =
               [@ EXCEPT !.pc = "store",
                         !.result = Holds(req[r].inst, req[r].role, req[r].proc)]]
  /\ UNCHANGED <<role, menus, rule, memory, cache, torn, late>>

EnforceStore(r) ==
  LET i == req[r].inst
      c == req[r].role
      p == req[r].proc
  IN
  /\ At(r, "store")
  /\ cache' = [cache EXCEPT ![i][<<c, p>>] = req[r].result]
  /\ late' = IF req[r].result = Holds(i, c, p) THEN late \ {<<i, c, p>>}
                                               ELSE late \cup {<<i, c, p>>}
  /\ Finish(r)
  /\ UNCHANGED <<role, menus, rule, memory, torn>>

(* Decisions that allow are kept for ever. *)
CacheExpireBug(i, d) ==
  /\ cache[i][d] = "deny"
  /\ Forget(i, {d})
  /\ UNCHANGED <<role, menus, rule, memory, req, torn>>

(* SetExpireTime: a decision is kept for an hour. *)
CacheExpire(i, d) ==
  /\ cache[i][d] # "none"
  /\ Forget(i, {d})
  /\ UNCHANGED <<role, menus, rule, memory, req, torn>>

(* Decisions in the cache that are not those the policies give. *)
OutOfDate(i) ==
  {l \in {i} \X Role \X Proc : cache[i][<<l[2], l[3]>>] \notin {"none", Holds(i, l[2], l[3])}}

(* A statement fails.  SetRoleProcedures and RemoveRole then return before   *)
(* InvalidateCache, which itself cannot fail.                               *)
Abort(r) ==
  /\ req[r].pc \in {"set", "clear", "add", "delete", "remove", "compute"}
  /\ Finish(r)
  /\ torn' = IF req[r].pc \in {"clear", "add", "remove"}
               THEN torn \cup {req[r].role} ELSE torn
  /\ late' = IF At(r, "add") THEN late \cup OutOfDate(req[r].inst) ELSE late
  /\ UNCHANGED <<role, menus, rule, memory, cache>>

(* A process dies and is started again: New loads the policies. *)
Restart(i) ==
  /\ memory' = [memory EXCEPT ![i] = rule]
  /\ Forget(i, Role \X Proc)
  /\ req' = [r \in Req |-> IF req[r].inst = i THEN Idle ELSE req[r]]
  /\ torn' = torn \cup {c \in Role : \E r \in Req : req[r].inst = i /\ req[r].role = c
                                       /\ req[r].pc \in {"clear", "add", "remove"}}
  /\ UNCHANGED <<role, menus, rule>>

SetRolePermissions(r) ==
  \/ \E i \in Instance, c \in Role, P \in SUBSET Proc : SetFind(r, i, c, P)
  \/ SetTx(r)
  \/ Clear(r)
  \/ Add(r)

DeleteRole(r) ==
  \/ \E i \in Instance, c \in Role : DeleteFind(r, i, c)
  \/ DeleteTx(r)
  \/ RemoveRole(r)

Enforce(r) ==
  \/ \E i \in Instance, c \in Role, p \in Proc : EnforceMiss(r, i, c, p)
  \/ EnforceCompute(r)
  \/ EnforceStore(r)

Next ==
  \/ \E c \in Role : CreateRole(c)
  \/ \E r \in Req :
       \/ SetRolePermissions(r)
       \/ DeleteRole(r)
       \/ \E i \in Instance, p \in Proc : RemoveProcedure(r, i, p)
       \/ InvalidateCache(r)
       \/ Enforce(r)
       \/ Abort(r)
  \/ \E p \in Proc : PurgeProcedure(p)
  \/ \E i \in Instance, d \in Role \X Proc : CacheExpire(i, d)
  \/ \E i \in Instance : Restart(i)

(* A decision that has been computed is stored, and an hour passes. *)
Fairness ==
  /\ \A r \in Req : WF_vars(EnforceStore(r))
  /\ \A i \in Instance, d \in Role \X Proc : WF_vars(CacheExpire(i, d))

Spec == Init /\ [][Next]_vars /\ Fairness

-----------------------------------------------------------------------------
(* Menus and policies of a role are those of one SetRolePermissions call,   *)
(* although they are written in three pieces: they may differ only while a  *)
(* call is half-way, and after calls that overlapped, broke off, or were    *)
(* followed by the removal of a procedure.                                  *)
PermissionsFromOneCall ==
  \A c \in Role :
    role[c] = "live" /\ c \notin torn /\ (\A r \in Req : ~HalfSet(r, c))
      => rule[c] = menus[c]

(* A deleted role is left without a policy, but for a DeleteRole that broke *)
(* off after its commit, or a SetRolePermissions that had found the role    *)
(* before.                                                                  *)
DeadRoleGrantsNothing ==
  \A c \in Role :
    role[c] = "deleted" /\ c \notin torn
      /\ (\A r \in Req : req[r].role = c => req[r].pc \notin {"clear", "add", "remove"})
      => rule[c] = {}

(* A decision in the cache is the one the policies in memory give, unless a *)
(* call that changed them has yet to empty the cache, or the decision was   *)
(* stored late: computed before the change, or missed by a call that broke  *)
(* off before InvalidateCache.                                              *)
CacheFollowsMemory ==
  \A i \in Instance :
    \/ \E r \in Req : req[r].inst = i /\ req[r].pc \in {"add", "invalidate"}
    \/ OutOfDate(i) \subseteq late

(* A grant that has been taken away for good stops working on every         *)
(* instance that knows, even when a decision from before is stored after    *)
(* the cache has been emptied (SetExpireTime).                              *)
RevocationTakesHold ==
  \A i \in Instance, c \in Role, p \in Proc :
    <>[](p \notin memory[i][c]) => <>[](cache[i][<<c, p>>] # "allow")

-----------------------------------------------------------------------------
(* "granting any procedure to a role takes effect at once" (zerx-authz):    *)
(* when no call that changes policies is in progress, a procedure that the  *)
(* role has been granted is allowed.  The code does not keep this: a        *)
(* refusal from before may be stored after the cache has been emptied.      *)
GrantTakesEffect ==
  (\A r \in Req : req[r].pc \in {"idle", "compute", "store"}) =>
    \A i \in Instance, c \in Role, p \in Proc :
      p \in rule[c] =>
        IF cache[i][<<c, p>>] = "none" THEN p \in memory[i][c]
                                       ELSE cache[i][<<c, p>>] = "allow"
=============================================================================
