-------------------------- MODULE RolePolicyProofs --------------------------
(***************************************************************************)
(* Proofs about RolePolicy, for any number of roles, procedures, instances *)
(* and requests.                                                           *)
(***************************************************************************)
EXTENDS RolePolicy, TLAPS

Busy == {"set", "clear", "add", "delete", "remove"}

(* Nothing is known of a role before it has been created. *)
FreshInv ==
  /\ \A c \in Role : role[c] = "none" => rule[c] = {} /\ menus[c] = {}
  /\ \A r \in Req :
       /\ req[r].pc \in Busy => role[req[r].role] # "none"
       /\ At(r, "remove") => role[req[r].role] = "deleted"

(* While a call is half-way, and no other has crossed it: it is alone, the  *)
(* menus are its own, and after Clear there is nothing it could collide     *)
(* with.                                                                    *)
HalfSetInv ==
  \A c \in Role : role[c] = "live" /\ c \notin torn =>
    \A r \in Req : HalfSet(r, c) =>
      /\ \A q \in Req : HalfSet(q, c) => q = r
      /\ menus[c] = req[r].procs
      /\ At(r, "add") => rule[c] = {} /\ memory[req[r].inst][c] = {}

(* DeadRoleGrantsNothing, of requests that are past Clear as well. *)
DeadInv ==
  \A c \in Role :
    role[c] = "deleted" /\ c \notin torn
      /\ (\A r \in Req : req[r].role = c => req[r].pc \notin {"clear", "remove"})
      => rule[c] = {}

PolicyInv == FreshInv /\ HalfSetInv /\ PermissionsFromOneCall /\ DeadInv

-----------------------------------------------------------------------------
(* Type correctness *)

LEMMA IdleRequest ==
  /\ Idle \in Request /\ Idle.pc = "idle" /\ Idle.role = None
  /\ Idle.inst = None /\ Idle.procs = {}
  BY DEF Idle, Request, Pc, Decision

LEMMA InitType == Init => TypeOK
  <1> SUFFICES ASSUME Init PROVE TypeOK
    OBVIOUS
  <1>1. \A i \in Instance : [c \in Role |-> {}] \in [Role -> SUBSET Proc]
    OBVIOUS
  <1>2. [d \in Role \X Proc |-> "none"] \in [Role \X Proc -> Decision]
    BY DEF Decision
  <1>3. \A r \in Req : req[r] = Idle
    BY DEF Init
  <1> QED
    BY <1>1, <1>2, <1>3, IdleRequest, RolePolicyAssumption DEF Init, TypeOK, Known

(* What Begin, Goto and Finish leave of the locals. *)
LEMMA Begun ==
  ASSUME TypeOK, NEW r \in Req, NEW x \in Request, Begin(r, x)
  PROVE  /\ req' \in [Req -> Request] /\ req'[r] = x /\ req[r] = Idle
         /\ \A q \in Req \ {r} : req'[q] = req[q]
  BY DEF TypeOK, Begin

LEMMA Gone ==
  ASSUME TypeOK, NEW r \in Req, Finish(r)
  PROVE  /\ req' \in [Req -> Request] /\ req'[r] = Idle
         /\ \A q \in Req \ {r} : req'[q] = req[q]
  BY IdleRequest DEF TypeOK, Finish

LEMMA Moved ==
  ASSUME TypeOK, NEW r \in Req, NEW p \in Pc, Goto(r, p)
  PROVE  /\ req' \in [Req -> Request]
         /\ req'[r].pc = p
         /\ req'[r].inst = req[r].inst
         /\ req'[r].role = req[r].role
         /\ req'[r].procs = req[r].procs
         /\ req'[r].proc = req[r].proc
         /\ \A q \in Req \ {r} : req'[q] = req[q]
  <1> DEFINE x == [req[r] EXCEPT !.pc = p]
  <1>1. /\ x \in Request /\ x.pc = p /\ x.inst = req[r].inst /\ x.role = req[r].role
        /\ x.procs = req[r].procs /\ x.proc = req[r].proc
    BY DEF TypeOK, Request
  <1>2. req' = [req EXCEPT ![r] = x]
    BY DEF Goto, TypeOK
  <1> HIDE DEF x
  <1> QED
    BY <1>1, <1>2 DEF TypeOK

LEMMA ForgetType ==
  ASSUME TypeOK, NEW i \in Instance, NEW D, Forget(i, D)
  PROVE  /\ cache' \in [Instance -> [Role \X Proc -> Decision]]
         /\ late' \subseteq late
         /\ \A d \in Role \X Proc :
              cache'[i][d] = IF d \in D THEN "none" ELSE cache[i][d]
         /\ \A j \in Instance \ {i} : cache'[j] = cache[j]
  <1> DEFINE x == [d \in Role \X Proc |-> IF d \in D THEN "none" ELSE cache[i][d]]
  <1>1. x \in [Role \X Proc -> Decision]
    BY DEF TypeOK, Decision
  <1>2. cache' = [cache EXCEPT ![i] = x] /\ late' \subseteq late
    BY DEF Forget, TypeOK
  <1>3. \A d \in Role \X Proc : x[d] = IF d \in D THEN "none" ELSE cache[i][d]
    OBVIOUS
  <1> HIDE DEF x
  <1> QED
    BY <1>1, <1>2, <1>3 DEF TypeOK

LEMMA RemovedType ==
  ASSUME TypeOK, NEW i \in Instance, NEW C \in SUBSET Role, NEW P \in SUBSET Proc,
         RemoveFilteredPolicy(i, C, P)
  PROVE  /\ rule' \in [Role -> SUBSET Proc]
         /\ memory' \in [Instance -> [Role -> SUBSET Proc]]
         /\ \A c \in Role :
              /\ rule'[c] = IF c \in C THEN rule[c] \ P ELSE rule[c]
              /\ memory'[i][c] = IF c \in C THEN memory[i][c] \ P ELSE memory[i][c]
         /\ \A j \in Instance \ {i} : memory'[j] = memory[j]
  <1> DEFINE x == [c \in Role |-> IF c \in C THEN memory[i][c] \ P ELSE memory[i][c]]
  <1>1. /\ x \in [Role -> SUBSET Proc]
        /\ \A c \in Role : x[c] = IF c \in C THEN memory[i][c] \ P ELSE memory[i][c]
    BY DEF TypeOK
  <1>2. memory' = [memory EXCEPT ![i] = x]
    BY DEF RemoveFilteredPolicy, TypeOK
  <1>3. /\ rule' \in [Role -> SUBSET Proc]
        /\ \A c \in Role : rule'[c] = IF c \in C THEN rule[c] \ P ELSE rule[c]
    BY DEF RemoveFilteredPolicy, TypeOK
  <1> HIDE DEF x
  <1> QED
    BY <1>1, <1>2, <1>3 DEF TypeOK

(* What Add does, once its two cases are told apart. *)
LEMMA Added ==
  ASSUME TypeOK, NEW r \in Req, Add(r)
  PROVE  /\ req[r].inst \in Instance /\ req[r].role \in Role
         /\ req[r].procs \in SUBSET Proc
         /\ rule' \in [Role -> SUBSET Proc]
         /\ memory' \in [Instance -> [Role -> SUBSET Proc]]
         /\ \A c \in Role \ {req[r].role} : rule'[c] = rule[c]
         /\ \A j \in Instance, c \in Role :
              j # req[r].inst \/ c # req[r].role => memory'[j][c] = memory[j][c]
         /\ memory[req[r].inst][req[r].role] = {} =>
              rule'[req[r].role] = rule[req[r].role] \cup req[r].procs
  <1> DEFINE i == req[r].inst
             c == req[r].role
             P == req[r].procs
  <1>1. i \in Instance /\ c \in Role /\ P \in SUBSET Proc
    BY DEF TypeOK, Known, Request, Add, At
  <1>2. CASE memory[i][c] \cap P # {}
    BY <1>1, <1>2 DEF Add, TypeOK
  <1>3. CASE memory[i][c] \cap P = {}
    <2> DEFINE x == [memory[i] EXCEPT ![c] = @ \cup P]
    <2>1. /\ x \in [Role -> SUBSET Proc]
          /\ \A b \in Role \ {c} : x[b] = memory[i][b]
      BY <1>1 DEF TypeOK
    <2>2. memory' = [memory EXCEPT ![i] = x]
      BY <1>1, <1>3 DEF Add, TypeOK
    <2>3. rule' = [rule EXCEPT ![c] = @ \cup P]
      BY <1>3 DEF Add
    <2> HIDE DEF x
    <2>4. /\ memory' \in [Instance -> [Role -> SUBSET Proc]]
          /\ \A j \in Instance, b \in Role :
               j # i \/ b # c => memory'[j][b] = memory[j][b]
      BY <1>1, <2>1, <2>2 DEF TypeOK
    <2> QED
      BY <1>1, <2>3, <2>4 DEF TypeOK
  <1> QED
    BY <1>1, <1>2, <1>3

(* Restart drops the locals of the instance's requests, and only those. *)
LEMMA Restarted ==
  ASSUME TypeOK, NEW i \in Instance, Restart(i)
  PROVE  /\ req' \in [Req -> Request]
         /\ \A r \in Req : req'[r] = IF req[r].inst = i THEN Idle ELSE req[r]
  BY IdleRequest DEF TypeOK, Restart

-----------------------------------------------------------------------------
(* A step of one request, of which its next statement knows enough. *)
LEMMA Stepped ==
  ASSUME TypeOK, NEW r \in Req, req' \in [Req -> Request],
         \A q \in Req \ {r} : req'[q] = req[q], Known(req'[r])
  PROVE  \A q \in Req : Known(req'[q])
  BY DEF TypeOK

(* Steps that change neither roles nor menus. *)
LEMMA Typed ==
  ASSUME TypeOK, UNCHANGED <<role, menus>>,
         rule' \in [Role -> SUBSET Proc],
         memory' \in [Instance -> [Role -> SUBSET Proc]],
         cache' \in [Instance -> [Role \X Proc -> Decision]],
         req' \in [Req -> Request],
         torn' \subseteq Role,
         late' \subseteq Instance \X Role \X Proc,
         \A q \in Req : Known(req'[q])
  PROVE  TypeOK'
  BY DEF TypeOK

LEMMA SetRolePermissionsType ==
  ASSUME TypeOK, NEW r \in Req, SetRolePermissions(r)
  PROVE  TypeOK'
  <1> USE DEF At
  <1>1. ASSUME NEW i \in Instance, NEW c \in Role, NEW P \in SUBSET Proc,
               SetFind(r, i, c, P)
        PROVE  TypeOK'
    <2> DEFINE x == [Idle EXCEPT !.pc = "set", !.inst = i, !.role = c, !.procs = P]
    <2>1. x \in Request /\ Known(x)
      BY IdleRequest DEF Request, Pc, Known
    <2>2. Begin(r, x)
      BY <1>1 DEF SetFind
    <2> HIDE DEF x
    <2>3. /\ req' \in [Req -> Request] /\ Known(req'[r])
          /\ \A q \in Req \ {r} : req'[q] = req[q]
      BY <2>1, <2>2, Begun
    <2>4. \A q \in Req : Known(req'[q])
      BY <2>3, Stepped
    <2> QED
      BY <1>1, <2>3, <2>4, Typed DEF SetFind, TypeOK
  <1>2. CASE SetTx(r)
    <2>1. req[r] \in Request /\ Known(req[r])
      BY DEF TypeOK
    <2>2. /\ req' \in [Req -> Request] /\ Known(req'[r])
          /\ \A q \in Req \ {r} : req'[q] = req[q]
      BY <1>2, <2>1, Moved DEF SetTx, Known, Pc
    <2>3. \A q \in Req : Known(req'[q])
      BY <2>2, Stepped
    <2>4. req[r].role \in Role /\ req[r].procs \in SUBSET Proc
      BY <1>2, <2>1 DEF SetTx, Known, Request
    <2>5. menus' \in [Role -> SUBSET Proc] /\ torn' \subseteq Role
      BY <1>2, <2>4 DEF SetTx, TypeOK
    <2> QED
      BY <1>2, <2>2, <2>3, <2>5 DEF SetTx, TypeOK
  <1>3. CASE Clear(r)
    <2>1. req[r] \in Request /\ Known(req[r])
      BY DEF TypeOK
    <2>2. req[r].role \in Role /\ req[r].inst \in Instance
      BY <1>3, <2>1 DEF Clear, Known
    <2>3. PICK p \in {"invalidate", "add"} : Goto(r, p)
      BY <1>3 DEF Clear
    <2>4. /\ req' \in [Req -> Request] /\ Known(req'[r])
          /\ \A q \in Req \ {r} : req'[q] = req[q]
      BY <2>1, <2>2, <2>3, Moved DEF Known, Pc
    <2>5. \A q \in Req : Known(req'[q])
      BY <2>4, Stepped
    <2>6. /\ rule' \in [Role -> SUBSET Proc]
          /\ memory' \in [Instance -> [Role -> SUBSET Proc]]
      BY <1>3, <2>2, RemovedType DEF Clear
    <2> QED
      BY <1>3, <2>4, <2>5, <2>6, Typed DEF Clear, TypeOK
  <1>4. CASE Add(r)
    <2>1. /\ Goto(r, "invalidate")
          /\ Forget(req[r].inst, {req[r].role} \X req[r].procs)
      BY <1>4 DEF Add
    <2>2. Known(req[r]) /\ req[r].inst \in Instance /\ req[r].role \in Role
      BY <1>4, Added DEF TypeOK
    <2>3. /\ req' \in [Req -> Request] /\ Known(req'[r])
          /\ \A q \in Req \ {r} : req'[q] = req[q]
      BY <2>1, <2>2, Moved DEF Known, Pc
    <2>4. \A q \in Req : Known(req'[q])
      BY <2>3, Stepped
    <2>5. /\ cache' \in [Instance -> [Role \X Proc -> Decision]]
          /\ late' \subseteq late
      BY <2>1, <2>2, ForgetType
    <2>6. torn' \subseteq Role /\ UNCHANGED <<role, menus>>
      BY <1>4, <2>2 DEF Add, TypeOK
    <2>7. /\ rule' \in [Role -> SUBSET Proc]
          /\ memory' \in [Instance -> [Role -> SUBSET Proc]]
      BY <1>4, Added
    <2> QED
      BY <2>3, <2>4, <2>5, <2>6, <2>7, Typed DEF TypeOK
  <1> QED
    BY <1>1, <1>2, <1>3, <1>4 DEF SetRolePermissions

LEMMA InvalidateType ==
  ASSUME TypeOK, NEW r \in Req,
         InvalidateCache(r) \/ \E i \in Instance, p \in Proc : RemoveProcedure(r, i, p)
  PROVE  TypeOK'
  <1>1. ASSUME NEW i \in Instance, NEW p \in Proc, RemoveProcedure(r, i, p)
        PROVE  TypeOK'
    <2> DEFINE x == [Idle EXCEPT !.pc = "invalidate", !.inst = i]
    <2>1. x \in Request /\ Known(x)
      BY IdleRequest DEF Request, Pc, Known
    <2>2. Begin(r, x)
      BY <1>1 DEF RemoveProcedure
    <2> HIDE DEF x
    <2>3. /\ req' \in [Req -> Request] /\ Known(req'[r])
          /\ \A q \in Req \ {r} : req'[q] = req[q]
      BY <2>1, <2>2, Begun
    <2>4. \A q \in Req : Known(req'[q])
      BY <2>3, Stepped
    <2>5. /\ rule' \in [Role -> SUBSET Proc]
          /\ memory' \in [Instance -> [Role -> SUBSET Proc]]
      BY <1>1, RemovedType DEF RemoveProcedure
    <2> QED
      BY <1>1, <2>3, <2>4, <2>5, Typed DEF RemoveProcedure, TypeOK
  <1>2. CASE InvalidateCache(r)
    <2>1. req[r].inst \in Instance
      BY <1>2 DEF InvalidateCache, At, TypeOK, Known
    <2>2. /\ req' \in [Req -> Request] /\ Known(req'[r])
          /\ \A q \in Req \ {r} : req'[q] = req[q]
      BY <1>2, Gone, IdleRequest DEF InvalidateCache, Known
    <2>3. \A q \in Req : Known(req'[q])
      BY <2>2, Stepped
    <2>4. /\ cache' \in [Instance -> [Role \X Proc -> Decision]]
          /\ late' \subseteq late
      BY <1>2, <2>1, ForgetType DEF InvalidateCache
    <2> QED
      BY <1>2, <2>2, <2>3, <2>4, Typed DEF InvalidateCache, TypeOK
  <1> QED
    BY <1>1, <1>2

LEMMA DeleteRoleType ==
  ASSUME TypeOK, NEW r \in Req, DeleteRole(r)
  PROVE  TypeOK'
  <1> USE DEF At
  <1>1. ASSUME NEW i \in Instance, NEW c \in Role, DeleteFind(r, i, c)
        PROVE  TypeOK'
    <2> DEFINE x == [Idle EXCEPT !.pc = "delete", !.inst = i, !.role = c]
    <2>1. x \in Request /\ Known(x)
      BY <1>1, IdleRequest DEF Request, Pc, Known, DeleteFind
    <2>2. Begin(r, x)
      BY <1>1 DEF DeleteFind
    <2> HIDE DEF x
    <2>3. /\ req' \in [Req -> Request] /\ Known(req'[r])
          /\ \A q \in Req \ {r} : req'[q] = req[q]
      BY <2>1, <2>2, Begun
    <2>4. \A q \in Req : Known(req'[q])
      BY <2>3, Stepped
    <2> QED
      BY <1>1, <2>3, <2>4, Typed DEF DeleteFind, TypeOK
  <1>2. CASE DeleteTx(r)
    <2>1. req[r] \in Request /\ Known(req[r])
      BY DEF TypeOK
    <2>2. req[r].role \in Role \ Builtin
      BY <1>2, <2>1 DEF DeleteTx, Known
    <2>3. /\ req' \in [Req -> Request] /\ Known(req'[r])
          /\ \A q \in Req \ {r} : req'[q] = req[q]
      BY <1>2, <2>1, Moved DEF DeleteTx, Known, Pc
    <2>4. \A q \in Req : Known(req'[q])
      BY <2>3, Stepped
    <2>5. /\ role' \in [Role -> {"none", "live", "deleted"}]
          /\ menus' \in [Role -> SUBSET Proc]
          /\ \A c \in Builtin : role'[c] = "live"
      BY <1>2, <2>2, RolePolicyAssumption DEF DeleteTx, TypeOK
    <2> QED
      BY <1>2, <2>3, <2>4, <2>5 DEF DeleteTx, TypeOK
  <1>3. CASE RemoveRole(r)
    <2>1. req[r] \in Request /\ Known(req[r])
      BY DEF TypeOK
    <2>2. req[r].role \in Role /\ req[r].inst \in Instance
      BY <1>3, <2>1 DEF RemoveRole, Known
    <2>3. /\ req' \in [Req -> Request] /\ Known(req'[r])
          /\ \A q \in Req \ {r} : req'[q] = req[q]
      BY <1>3, <2>1, <2>2, Moved DEF RemoveRole, Known, Pc
    <2>4. \A q \in Req : Known(req'[q])
      BY <2>3, Stepped
    <2>5. /\ rule' \in [Role -> SUBSET Proc]
          /\ memory' \in [Instance -> [Role -> SUBSET Proc]]
      BY <1>3, <2>2, RemovedType DEF RemoveRole
    <2> QED
      BY <1>3, <2>3, <2>4, <2>5, Typed DEF RemoveRole, TypeOK
  <1> QED
    BY <1>1, <1>2, <1>3 DEF DeleteRole

LEMMA EnforceType ==
  ASSUME TypeOK, NEW r \in Req, Enforce(r)
  PROVE  TypeOK'
  <1> USE DEF At
  <1>1. ASSUME NEW i \in Instance, NEW c \in Role, NEW p \in Proc, EnforceMiss(r, i, c, p)
        PROVE  TypeOK'
    <2> DEFINE x == [Idle EXCEPT !.pc = "compute", !.inst = i, !.role = c, !.proc = p]
    <2>1. x \in Request /\ Known(x)
      BY IdleRequest DEF Request, Pc, Known
    <2>2. Begin(r, x)
      BY <1>1 DEF EnforceMiss
    <2> HIDE DEF x
    <2>3. /\ req' \in [Req -> Request] /\ Known(req'[r])
          /\ \A q \in Req \ {r} : req'[q] = req[q]
      BY <2>1, <2>2, Begun
    <2>4. \A q \in Req : Known(req'[q])
      BY <2>3, Stepped
    <2> QED
      BY <1>1, <2>3, <2>4, Typed DEF EnforceMiss, TypeOK
  <1>2. CASE EnforceCompute(r)
    <2> DEFINE x == [req[r] EXCEPT !.pc = "store",
                       !.result = Holds(req[r].inst, req[r].role, req[r].proc)]
    <2>1. req[r] \in Request /\ Known(req[r])
      BY DEF TypeOK
    <2>2. x \in Request /\ Known(x)
      BY <1>2, <2>1 DEF EnforceCompute, Request, Known, Pc, Holds, Decision
    <2>3. req' = [req EXCEPT ![r] = x]
      BY <1>2 DEF EnforceCompute, TypeOK
    <2> HIDE DEF x
    <2>4. /\ req' \in [Req -> Request] /\ Known(req'[r])
          /\ \A q \in Req \ {r} : req'[q] = req[q]
      BY <2>2, <2>3 DEF TypeOK
    <2>5. \A q \in Req : Known(req'[q])
      BY <2>4, Stepped
    <2> QED
      BY <1>2, <2>4, <2>5, Typed DEF EnforceCompute, TypeOK
  <1>3. CASE EnforceStore(r)
    <2> DEFINE i == req[r].inst
               d == <<req[r].role, req[r].proc>>
               x == [cache[i] EXCEPT ![d] = req[r].result]
    <2>1. /\ i \in Instance /\ d \in Role \X Proc /\ req[r].result \in Decision
          /\ req[r].role \in Role /\ req[r].proc \in Proc
      BY <1>3 DEF EnforceStore, TypeOK, Known, Request
    <2>2. /\ req' \in [Req -> Request] /\ Known(req'[r])
          /\ \A q \in Req \ {r} : req'[q] = req[q]
      BY <1>3, Gone, IdleRequest DEF EnforceStore, Known
    <2>3. \A q \in Req : Known(req'[q])
      BY <2>2, Stepped
    <2>4. x \in [Role \X Proc -> Decision]
      BY <2>1 DEF TypeOK
    <2>5. cache' = [cache EXCEPT ![i] = x]
      BY <1>3 DEF EnforceStore, TypeOK
    <2> HIDE DEF x
    <2>6. cache' \in [Instance -> [Role \X Proc -> Decision]]
      BY <2>1, <2>4, <2>5 DEF TypeOK
    <2>7. late' \subseteq late \cup {<<i, req[r].role, req[r].proc>>}
      BY <1>3 DEF EnforceStore
    <2>8. late' \subseteq Instance \X Role \X Proc
      BY <2>1, <2>7 DEF TypeOK
    <2> QED
      BY <1>3, <2>2, <2>3, <2>6, <2>8, Typed DEF EnforceStore, TypeOK
  <1> QED
    BY <1>1, <1>2, <1>3 DEF Enforce

LEMMA BreakType ==
  ASSUME TypeOK, (\E r \in Req : Abort(r)) \/ (\E i \in Instance : Restart(i))
  PROVE  TypeOK'
  <1>1. ASSUME NEW r \in Req, Abort(r) PROVE TypeOK'
    <2>1. /\ req' \in [Req -> Request] /\ Known(req'[r])
          /\ \A q \in Req \ {r} : req'[q] = req[q]
      BY <1>1, Gone, IdleRequest DEF Abort, Known
    <2>2. \A q \in Req : Known(req'[q])
      BY <2>1, Stepped
    <2>3. torn' \subseteq Role
      BY <1>1 DEF Abort, TypeOK, Known
    <2>4. OutOfDate(req[r].inst) \subseteq {req[r].inst} \X Role \X Proc
      BY DEF OutOfDate
    <2>5. late' \subseteq Instance \X Role \X Proc
      BY <1>1, <2>4 DEF Abort, At, TypeOK, Known
    <2> QED
      BY <1>1, <2>1, <2>2, <2>3, <2>5, Typed DEF Abort, TypeOK
  <1>2. ASSUME NEW i \in Instance, Restart(i) PROVE TypeOK'
    <2>1. /\ req' \in [Req -> Request]
          /\ \A q \in Req : Known(req'[q])
      BY <1>2, Restarted, IdleRequest DEF TypeOK, Known
    <2>2. /\ cache' \in [Instance -> [Role \X Proc -> Decision]]
          /\ late' \subseteq late
      BY <1>2, ForgetType DEF Restart
    <2>3. memory' \in [Instance -> [Role -> SUBSET Proc]]
      BY <1>2 DEF Restart, TypeOK
    <2>4. torn' \subseteq Role
      BY <1>2 DEF Restart, TypeOK
    <2> QED
      BY <1>2, <2>1, <2>2, <2>3, <2>4, Typed DEF Restart, TypeOK
  <1> QED
    BY <1>1, <1>2

LEMMA TypeNext == TypeOK /\ [Next]_vars => TypeOK'
  <1> SUFFICES ASSUME TypeOK, [Next]_vars PROVE TypeOK'
    OBVIOUS
  <1>1. ASSUME NEW c \in Role, CreateRole(c) PROVE TypeOK'
    BY <1>1, RolePolicyAssumption DEF CreateRole, TypeOK
  <1>2. ASSUME NEW p \in Proc, PurgeProcedure(p) PROVE TypeOK'
    BY <1>2 DEF PurgeProcedure, TypeOK
  <1>3. ASSUME NEW i \in Instance, NEW d \in Role \X Proc, CacheExpire(i, d)
        PROVE  TypeOK'
    BY <1>3, ForgetType DEF CacheExpire, TypeOK
  <1>4. CASE UNCHANGED vars
    BY <1>4 DEF vars, TypeOK
  <1> QED
    BY <1>1, <1>2, <1>3, <1>4, SetRolePermissionsType, InvalidateType,
       DeleteRoleType, EnforceType, BreakType DEF Next

(* Every variable keeps its type. *)
THEOREM RolePolicyType == Spec => []TypeOK
  BY InitType, TypeNext, PTL DEF Spec

-----------------------------------------------------------------------------
(* Menus and policies *)

LEMMA InitPolicy == Init => PolicyInv
  <1> SUFFICES ASSUME Init PROVE PolicyInv
    OBVIOUS
  <1>1. \A r \in Req : req[r].pc = "idle"
    BY IdleRequest DEF Init
  <1>2. \A c \in Role : role[c] # "deleted" /\ rule[c] = {} /\ menus[c] = {}
    BY DEF Init
  <1> QED
    BY <1>1, <1>2
    DEF PolicyInv, FreshInv, HalfSetInv, PermissionsFromOneCall, DeadInv, HalfSet, Busy, At

(* Steps that take policies away from torn roles only, that bring an        *)
(* instance nothing that has no row, and that end requests only where they  *)
(* leave nothing half done behind.                                          *)
LEMMA Shrunk ==
  ASSUME TypeOK, PolicyInv, TypeOK',
         UNCHANGED <<role, menus>>,
         torn \subseteq torn',
         \A c \in Role : /\ rule'[c] \subseteq rule[c]
                         /\ rule'[c] = rule[c] \/ c \in torn',
         \A i \in Instance, c \in Role : memory'[i][c] \subseteq memory[i][c] \cup rule[c],
         \A r \in Req :
           \/ req'[r] = req[r]
           \/ /\ req'[r].pc \notin {"clear", "add", "remove"}
              /\ req'[r].pc \in Busy => role[req'[r].role] # "none"
              /\ req[r].pc \in {"clear", "add", "remove"} => req[r].role \in torn'
  PROVE  PolicyInv'
  <1> USE DEF PolicyInv, At
  <1>1. FreshInv'
    BY DEF FreshInv, Busy
  <1>2. ASSUME NEW r \in Req, NEW c \in Role, HalfSet(r, c)'
        PROVE  HalfSet(r, c) /\ req'[r] = req[r]
    BY <1>2 DEF HalfSet
  <1>3. ASSUME NEW r \in Req, NEW c \in Role, HalfSet(r, c), c \notin torn'
        PROVE  HalfSet(r, c)'
    BY <1>3 DEF HalfSet
  <1>4. HalfSetInv'
    <2> SUFFICES ASSUME NEW c \in Role, role[c] = "live", c \notin torn',
                        NEW r \in Req, HalfSet(r, c)'
                 PROVE  /\ \A q \in Req : HalfSet(q, c)' => q = r
                        /\ menus[c] = req'[r].procs
                        /\ At(r, "add")' =>
                             rule'[c] = {} /\ memory'[req'[r].inst][c] = {}
      BY DEF HalfSetInv
    <2>1. HalfSet(r, c) /\ req'[r] = req[r] /\ req[r].inst \in Instance
      BY <1>2 DEF HalfSet, TypeOK, Known
    <2>2. /\ \A q \in Req : HalfSet(q, c) => q = r
          /\ menus[c] = req[r].procs
          /\ At(r, "add") => rule[c] = {} /\ memory[req[r].inst][c] = {}
      BY <2>1 DEF HalfSetInv
    <2> QED
      BY <1>2, <2>1, <2>2
  <1>5. PermissionsFromOneCall'
    BY <1>3 DEF PermissionsFromOneCall
  <1>6. DeadInv'
    BY DEF DeadInv
  <1> QED
    BY <1>1, <1>4, <1>5, <1>6

LEMMA CreateRolePolicy ==
  ASSUME TypeOK, PolicyInv, NEW c \in Role, CreateRole(c)
  PROVE  PolicyInv'
  <1> USE DEF PolicyInv, At
  <1>1. /\ role' \in [Role -> {"none", "live", "deleted"}]
        /\ role[c] = "none" /\ role'[c] = "live"
        /\ \A b \in Role \ {c} : role'[b] = role[b]
        /\ UNCHANGED <<menus, rule, memory, req, torn>>
    BY DEF CreateRole, TypeOK
  <1>2. \A r \in Req : req[r].pc \in Busy => req[r].role \in Role /\ req[r].role # c
    BY <1>1 DEF FreshInv, TypeOK, Known, Busy
  <1>3. FreshInv'
    BY <1>1, <1>2 DEF FreshInv, Busy
  <1>4. \A r \in Req : ~HalfSet(r, c)
    BY <1>2 DEF HalfSet, Busy
  <1>5. \A r \in Req, b \in Role : HalfSet(r, b)' <=> HalfSet(r, b)
    BY <1>1 DEF HalfSet
  <1>6. HalfSetInv'
    BY <1>1, <1>4, <1>5 DEF HalfSetInv
  <1>7. PermissionsFromOneCall'
    BY <1>1, <1>5 DEF FreshInv, PermissionsFromOneCall
  <1>8. DeadInv'
    BY <1>1 DEF DeadInv
  <1> QED
    BY <1>3, <1>6, <1>7, <1>8

LEMMA SetTxPolicy ==
  ASSUME TypeOK, PolicyInv, NEW r \in Req, SetTx(r)
  PROVE  PolicyInv'
  <1> USE DEF PolicyInv, At
  <1>0. PICK c \in Role : req[r].role = c
    BY DEF SetTx, TypeOK, Known
  <1>1. /\ req[r] \in Request /\ c \in Role /\ At(r, "set")
        /\ UNCHANGED <<role, rule, memory>>
        /\ menus' \in [Role -> SUBSET Proc]
        /\ menus'[c] = req[r].procs
        /\ \A b \in Role \ {c} : menus'[b] = menus[b]
    BY <1>0 DEF SetTx, TypeOK, Known, Request
  <1>2. /\ req'[r].pc = "clear" /\ req'[r].role = c /\ req'[r].procs = req[r].procs
        /\ req'[r].inst = req[r].inst
        /\ \A q \in Req \ {r} : req'[q] = req[q]
    BY <1>0, Moved DEF SetTx, Pc
  <1>3. /\ \A b \in Role \ {c} : b \in torn' <=> b \in torn
        /\ c \notin torn' => \A q \in Req : ~HalfSet(q, c)
    BY <1>0, <1>1 DEF SetTx, TypeOK
  <1>4. role[c] # "none"
    BY <1>0, <1>1 DEF FreshInv, Busy
  <1>5. FreshInv'
    BY <1>1, <1>2, <1>4 DEF FreshInv, Busy
  <1>6. \A b \in Role \ {c}, q \in Req : HalfSet(q, b)' <=> HalfSet(q, b) /\ q # r
    BY <1>0, <1>1, <1>2 DEF HalfSet
  <1>7. ~HalfSet(r, c) /\ HalfSet(r, c)'
    BY <1>0, <1>1, <1>2 DEF HalfSet
  <1>8. \A q \in Req \ {r} : HalfSet(q, c)' <=> HalfSet(q, c)
    BY <1>2 DEF HalfSet
  <1>9. HalfSetInv'
    BY <1>1, <1>2, <1>3, <1>6, <1>7, <1>8 DEF HalfSetInv
  <1>10. \A b \in Role : ~HalfSet(r, b)
    BY <1>1 DEF HalfSet
  <1>11. PermissionsFromOneCall'
    BY <1>1, <1>3, <1>6, <1>7, <1>10 DEF PermissionsFromOneCall
  <1>12. DeadInv'
    BY <1>0, <1>1, <1>2, <1>3 DEF DeadInv
  <1> QED
    BY <1>5, <1>9, <1>11, <1>12

LEMMA ClearPolicy ==
  ASSUME TypeOK, PolicyInv, NEW r \in Req, Clear(r)
  PROVE  PolicyInv'
  <1> USE DEF PolicyInv, At
  <1>0. PICK c \in Role, i \in Instance : req[r].role = c /\ req[r].inst = i
    BY DEF Clear, TypeOK, Known
  <1>1. /\ c \in Role /\ i \in Instance /\ At(r, "clear") /\ HalfSet(r, c)
        /\ UNCHANGED <<role, menus, torn>> /\ RemoveFilteredPolicy(i, {c}, Proc)
    BY <1>0 DEF Clear, TypeOK, Known, HalfSet
  <1>2. /\ rule' \in [Role -> SUBSET Proc]
        /\ rule'[c] = {} /\ memory'[i][c] = {}
        /\ \A b \in Role \ {c} : rule'[b] = rule[b] /\ memory'[i][b] = memory[i][b]
        /\ \A j \in Instance \ {i} : memory'[j] = memory[j]
    <2>1. /\ {c} \in SUBSET Role /\ Proc \in SUBSET Proc
          /\ rule[c] \subseteq Proc /\ memory[i][c] \subseteq Proc
      BY <1>1 DEF TypeOK
    <2>2. /\ rule' \in [Role -> SUBSET Proc]
          /\ \A b \in Role :
               /\ rule'[b] = IF b \in {c} THEN rule[b] \ Proc ELSE rule[b]
               /\ memory'[i][b] = IF b \in {c} THEN memory[i][b] \ Proc ELSE memory[i][b]
          /\ \A j \in Instance \ {i} : memory'[j] = memory[j]
      BY <1>1, <2>1, RemovedType, ZenonT(30)
    <2> QED
      BY <1>1, <2>1, <2>2
  <1>3. PICK p \in {"invalidate", "add"} :
          Goto(r, p) /\ (p = "invalidate" <=> req[r].procs = {})
    BY DEF Clear
  <1>4. /\ req'[r].pc = p /\ req'[r].role = c /\ req'[r].procs = req[r].procs
        /\ req'[r].inst = i
        /\ \A q \in Req \ {r} : req'[q] = req[q]
    BY <1>0, <1>3, Moved DEF Pc
  <1>5. role[c] # "none"
    BY <1>0, <1>1 DEF FreshInv, Busy
  <1>6. FreshInv'
    BY <1>1, <1>2, <1>4, <1>5 DEF FreshInv, Busy
  <1>7. \A b \in Role \ {c}, q \in Req : HalfSet(q, b)' <=> HalfSet(q, b)
    BY <1>0, <1>4 DEF HalfSet
  <1>8. \A b \in Role \ {c} : ~HalfSet(r, b)
    BY <1>0 DEF HalfSet
  <1>9. \A q \in Req \ {r} : HalfSet(q, c)' <=> HalfSet(q, c)
    BY <1>4 DEF HalfSet
  <1>10. role[c] = "live" /\ c \notin torn =>
           /\ \A q \in Req : HalfSet(q, c) => q = r
           /\ menus[c] = req[r].procs
    BY <1>1 DEF HalfSetInv
  <1>11. HalfSetInv'
    <2> SUFFICES ASSUME NEW b \in Role, role[b] = "live", b \notin torn,
                        NEW q \in Req, HalfSet(q, b)'
                 PROVE  /\ \A o \in Req : HalfSet(o, b)' => o = q
                        /\ menus[b] = req'[q].procs
                        /\ At(q, "add")' => rule'[b] = {} /\ memory'[req'[q].inst][b] = {}
      BY <1>1 DEF HalfSetInv
    <2>1. CASE b = c
      <3>1. q = r /\ \A o \in Req : HalfSet(o, b)' => o = q
        BY <2>1, <1>9, <1>10
      <3> QED
        BY <2>1, <3>1, <1>2, <1>4, <1>10
    <2>2. CASE b # c
      <3>1. HalfSet(q, b) /\ q # r /\ req'[q] = req[q]
        BY <2>2, <1>4, <1>7, <1>8
      <3>2. req[q].inst \in Instance
        BY <3>1 DEF TypeOK, Known, HalfSet
      <3>3. memory'[req[q].inst][b] = memory[req[q].inst][b] /\ rule'[b] = rule[b]
        BY <2>2, <3>2, <1>2
      <3> QED
        BY <2>2, <3>1, <3>3, <1>7 DEF HalfSetInv
    <2> QED
      BY <2>1, <2>2
  <1>12. PermissionsFromOneCall'
    <2> SUFFICES ASSUME NEW b \in Role, role[b] = "live", b \notin torn,
                        \A q \in Req : ~HalfSet(q, b)'
                 PROVE  rule'[b] = menus[b]
      BY <1>1 DEF PermissionsFromOneCall
    <2>1. CASE b = c
      BY <2>1, <1>2, <1>3, <1>4, <1>10 DEF HalfSet
    <2>2. CASE b # c
      BY <2>2, <1>2, <1>7 DEF PermissionsFromOneCall
    <2> QED
      BY <2>1, <2>2
  <1>13. DeadInv'
    BY <1>0, <1>1, <1>2, <1>4 DEF DeadInv
  <1> QED
    BY <1>6, <1>11, <1>12, <1>13

LEMMA AddPolicy ==
  ASSUME TypeOK, PolicyInv, NEW r \in Req, Add(r)
  PROVE  PolicyInv'
  <1> USE DEF PolicyInv, At
  <1>0. PICK c \in Role, i \in Instance, P \in SUBSET Proc :
          req[r].role = c /\ req[r].inst = i /\ req[r].procs = P
    BY Added
  <1>1. /\ At(r, "add") /\ HalfSet(r, c)
        /\ UNCHANGED <<role, menus>>
        /\ torn' = IF role[c] = "deleted" THEN torn \cup {c} ELSE torn
    BY <1>0 DEF Add, HalfSet
  <1>2. /\ \A b \in Role \ {c} : rule'[b] = rule[b]
        /\ \A j \in Instance, b \in Role :
             j # i \/ b # c => memory'[j][b] = memory[j][b]
        /\ memory[i][c] = {} => rule'[c] = rule[c] \cup P
    BY <1>0, Added
  <1>3. /\ req'[r].pc = "invalidate" /\ req'[r].role = c
        /\ \A q \in Req \ {r} : req'[q] = req[q]
    BY <1>0, Moved DEF Add, Pc
  <1>4. role[c] # "none"
    BY <1>0, <1>1 DEF FreshInv, Busy
  <1>5. FreshInv'
    BY <1>1, <1>2, <1>3, <1>4 DEF FreshInv, Busy
  <1>6. \A b \in Role, q \in Req : HalfSet(q, b)' <=> HalfSet(q, b) /\ q # r
    BY <1>3 DEF HalfSet
  <1>7. role[c] = "live" /\ c \notin torn =>
          /\ \A q \in Req : HalfSet(q, c) => q = r
          /\ menus[c] = P /\ rule[c] = {} /\ memory[i][c] = {}
    BY <1>0, <1>1 DEF HalfSetInv
  <1>8. HalfSetInv'
    <2> SUFFICES ASSUME NEW b \in Role, role[b] = "live", b \notin torn,
                        NEW q \in Req, HalfSet(q, b)'
                 PROVE  /\ \A o \in Req : HalfSet(o, b)' => o = q
                        /\ menus[b] = req'[q].procs
                        /\ At(q, "add")' => rule'[b] = {} /\ memory'[req'[q].inst][b] = {}
      BY <1>1 DEF HalfSetInv
    <2>1. HalfSet(q, b) /\ q # r /\ req'[q] = req[q] /\ req[q].inst \in Instance
      BY <1>3, <1>6 DEF HalfSet, TypeOK, Known
    <2>2. b # c
      BY <1>7, <2>1
    <2>3. memory'[req[q].inst][b] = memory[req[q].inst][b] /\ rule'[b] = rule[b]
      BY <1>2, <2>1, <2>2
    <2> QED
      BY <1>6, <2>1, <2>3 DEF HalfSetInv
  <1>9. PermissionsFromOneCall'
    <2> SUFFICES ASSUME NEW b \in Role, role[b] = "live", b \notin torn,
                        \A q \in Req : ~HalfSet(q, b)'
                 PROVE  rule'[b] = menus[b]
      BY <1>1 DEF PermissionsFromOneCall
    <2>1. CASE b = c
      BY <2>1, <1>2, <1>7
    <2>2. CASE b # c
      <3>1. \A q \in Req : ~HalfSet(q, b)
        BY <2>2, <1>0, <1>6 DEF HalfSet
      <3> QED
        BY <2>2, <3>1, <1>2 DEF PermissionsFromOneCall
    <2> QED
      BY <2>1, <2>2
  <1>10. DeadInv'
    BY <1>0, <1>1, <1>2, <1>3 DEF DeadInv
  <1> QED
    BY <1>5, <1>8, <1>9, <1>10

LEMMA DeleteTxPolicy ==
  ASSUME TypeOK, PolicyInv, NEW r \in Req, DeleteTx(r)
  PROVE  PolicyInv'
  <1> USE DEF PolicyInv, At
  <1>0. PICK c \in Role : req[r].role = c
    BY DEF DeleteTx, TypeOK, Known
  <1>1. /\ At(r, "delete") /\ UNCHANGED <<rule, memory, torn>>
        /\ role'[c] = "deleted" /\ \A b \in Role \ {c} : role'[b] = role[b]
        /\ menus'[c] = {} /\ \A b \in Role \ {c} : menus'[b] = menus[b]
    BY <1>0 DEF DeleteTx, TypeOK
  <1>2. /\ req'[r].pc = "remove" /\ req'[r].role = c
        /\ \A q \in Req \ {r} : req'[q] = req[q]
    BY <1>0, Moved DEF DeleteTx, Pc
  <1>3. \A q \in Req : req[q].pc \in Busy => req[q].role \in Role
    BY DEF TypeOK, Known, Busy
  <1>4. FreshInv'
    BY <1>1, <1>2, <1>3 DEF FreshInv, Busy
  <1>5. \A b \in Role, q \in Req : HalfSet(q, b)' <=> HalfSet(q, b)
    BY <1>1, <1>2 DEF HalfSet
  <1>6. \A q \in Req, b \in Role : HalfSet(q, b) => req'[q] = req[q]
    BY <1>1, <1>2 DEF HalfSet
  <1>7. HalfSetInv'
    BY <1>1, <1>5, <1>6 DEF HalfSetInv
  <1>8. PermissionsFromOneCall'
    BY <1>1, <1>5 DEF PermissionsFromOneCall
  <1>9. DeadInv'
    BY <1>0, <1>1, <1>2 DEF DeadInv
  <1> QED
    BY <1>4, <1>7, <1>8, <1>9

LEMMA RemoveRolePolicy ==
  ASSUME TypeOK, PolicyInv, NEW r \in Req, RemoveRole(r)
  PROVE  PolicyInv'
  <1> USE DEF PolicyInv, At
  <1>0. PICK c \in Role, i \in Instance : req[r].role = c /\ req[r].inst = i
    BY DEF RemoveRole, TypeOK, Known
  <1>1. /\ At(r, "remove") /\ role[c] = "deleted"
        /\ UNCHANGED <<role, menus, torn>> /\ RemoveFilteredPolicy(i, {c}, Proc)
    BY <1>0 DEF RemoveRole, FreshInv
  <1>2. /\ rule'[c] = {}
        /\ \A b \in Role \ {c} : rule'[b] = rule[b] /\ memory'[i][b] = memory[i][b]
        /\ \A j \in Instance \ {i} : memory'[j] = memory[j]
    <2>1. /\ {c} \in SUBSET Role /\ Proc \in SUBSET Proc
          /\ rule[c] \subseteq Proc
      BY DEF TypeOK
    <2>2. /\ \A b \in Role :
               /\ rule'[b] = IF b \in {c} THEN rule[b] \ Proc ELSE rule[b]
               /\ memory'[i][b] = IF b \in {c} THEN memory[i][b] \ Proc ELSE memory[i][b]
          /\ \A j \in Instance \ {i} : memory'[j] = memory[j]
      BY <1>1, <2>1, RemovedType, ZenonT(30)
    <2> QED
      BY <1>1, <2>1, <2>2
  <1>3. /\ req'[r].pc = "invalidate" /\ req'[r].role = c
        /\ \A q \in Req \ {r} : req'[q] = req[q]
    BY <1>0, Moved DEF RemoveRole, Pc
  <1>4. FreshInv'
    BY <1>1, <1>2, <1>3 DEF FreshInv, Busy
  <1>5. \A b \in Role, q \in Req : HalfSet(q, b)' <=> HalfSet(q, b)
    BY <1>1, <1>3 DEF HalfSet
  <1>6. \A q \in Req, b \in Role : HalfSet(q, b) =>
          /\ req'[q] = req[q] /\ req[q].inst \in Instance
          /\ b # c => memory'[req[q].inst][b] = memory[req[q].inst][b]
    BY <1>1, <1>2, <1>3, ZenonT(30) DEF HalfSet, TypeOK, Known
  <1>7. \A b \in Role : role[b] = "live" => b # c /\ rule'[b] = rule[b]
    BY <1>1, <1>2
  <1>8. HalfSetInv'
    BY <1>1, <1>5, <1>6, <1>7 DEF HalfSetInv
  <1>9. PermissionsFromOneCall'
    BY <1>1, <1>5, <1>7 DEF PermissionsFromOneCall
  <1>10. DeadInv'
    BY <1>0, <1>1, <1>2, <1>3 DEF DeadInv
  <1> QED
    BY <1>4, <1>8, <1>9, <1>10

(* Steps after which nobody is half-way who was not before. *)
LEMMA QuietPolicy ==
  ASSUME TypeOK, PolicyInv, TypeOK', UNCHANGED <<role, menus, rule, memory, torn>>,
         NEW r \in Req,
         \A q \in Req \ {r} : req'[q] = req[q],
         req[r].pc \notin {"clear", "add", "remove"},
         req'[r].pc \notin {"clear", "add", "remove"},
         req'[r].pc \in Busy => role[req'[r].role] # "none"
  PROVE  PolicyInv'
  <1>1. \A q \in Req :
           \/ req'[q] = req[q]
           \/ /\ req'[q].pc \notin {"clear", "add", "remove"}
              /\ req'[q].pc \in Busy => role[req'[q].role] # "none"
              /\ req[q].pc \in {"clear", "add", "remove"} => req[q].role \in torn'
    OBVIOUS
  <1>2. /\ \A c \in Role : rule'[c] \subseteq rule[c] /\ (rule'[c] = rule[c] \/ c \in torn')
        /\ \A i \in Instance, c \in Role : memory'[i][c] \subseteq memory[i][c] \cup rule[c]
    OBVIOUS
  <1> QED
    BY <1>1, <1>2, Shrunk

LEMMA FindPolicy ==
  ASSUME TypeOK, PolicyInv, TypeOK', NEW r \in Req, NEW i \in Instance, NEW c \in Role,
         DeleteFind(r, i, c) \/ \E P \in SUBSET Proc : SetFind(r, i, c, P)
  PROVE  PolicyInv'
  <1>1. /\ UNCHANGED <<role, menus, rule, memory, torn>>
        /\ role[c] = "live" /\ req[r] = Idle
        /\ \A q \in Req \ {r} : req'[q] = req[q]
    BY DEF DeleteFind, SetFind, Begin, TypeOK
  <1>2. ASSUME DeleteFind(r, i, c)
        PROVE  req'[r].pc = "delete" /\ req'[r].role = c
    BY <1>2 DEF DeleteFind, Begin, TypeOK, Idle
  <1>3. ASSUME NEW P \in SUBSET Proc, SetFind(r, i, c, P)
        PROVE  req'[r].pc = "set" /\ req'[r].role = c
    BY <1>3 DEF SetFind, Begin, TypeOK, Idle
  <1>4. req'[r].pc \in {"set", "delete"} /\ req'[r].role = c
    BY <1>2, <1>3
  <1> QED
    BY <1>1, <1>4, IdleRequest, QuietPolicy

LEMMA EnforcePolicy ==
  ASSUME TypeOK, PolicyInv, TypeOK', NEW r \in Req, Enforce(r) \/ InvalidateCache(r)
  PROVE  PolicyInv'
  <1>1. /\ UNCHANGED <<role, menus, rule, memory, torn>>
        /\ \A q \in Req \ {r} : req'[q] = req[q]
    BY DEF Enforce, EnforceMiss, EnforceCompute, EnforceStore, InvalidateCache, Begin, Finish,
           TypeOK
  <1>2. /\ req[r].pc \in {"idle", "compute", "store", "invalidate"}
        /\ req'[r].pc \in {"compute", "store", "idle"}
    <2>1. ASSUME NEW i \in Instance, NEW c \in Role, NEW p \in Proc, EnforceMiss(r, i, c, p)
          PROVE  req[r].pc = "idle" /\ req'[r].pc = "compute"
      BY <2>1, IdleRequest DEF EnforceMiss, Begin, TypeOK, Idle
    <2>2. ASSUME EnforceCompute(r) PROVE req[r].pc = "compute" /\ req'[r].pc = "store"
      BY <2>2 DEF EnforceCompute, TypeOK, Request, At
    <2>3. ASSUME EnforceStore(r) \/ InvalidateCache(r)
          PROVE  req[r].pc \in {"store", "invalidate"} /\ req'[r].pc = "idle"
      BY <2>3, Gone, IdleRequest DEF EnforceStore, InvalidateCache, At
    <2> QED
      BY <2>1, <2>2, <2>3 DEF Enforce
  <1> QED
    BY <1>1, <1>2, QuietPolicy DEF Busy

LEMMA RemoveProcedurePolicy ==
  ASSUME TypeOK, PolicyInv, TypeOK', NEW r \in Req, NEW i \in Instance, NEW p \in Proc,
         RemoveProcedure(r, i, p)
  PROVE  PolicyInv'
  <1>0. req[r].pc = "idle" /\ req'[r].pc = "invalidate"
    BY IdleRequest DEF RemoveProcedure, Begin, TypeOK, Idle
  <1>1. /\ UNCHANGED <<role, menus>> /\ torn \subseteq torn'
        /\ RemoveFilteredPolicy(i, Role, {p})
        /\ \A c \in Role : p \in rule[c] => c \in torn'
        /\ \A q \in Req \ {r} : req'[q] = req[q]
    BY DEF RemoveProcedure, Begin, TypeOK
  <1>2. /\ \A c \in Role : /\ rule'[c] = rule[c] \ {p}
                            /\ memory'[i][c] = memory[i][c] \ {p}
        /\ \A j \in Instance \ {i} : memory'[j] = memory[j]
    <2>1. Role \in SUBSET Role /\ {p} \in SUBSET Proc
      OBVIOUS
    <2> QED
      BY <1>1, <2>1, RemovedType, ZenonT(30)
  <1>3. \A c \in Role : rule'[c] \subseteq rule[c] /\ (rule'[c] = rule[c] \/ c \in torn')
    <2> SUFFICES ASSUME NEW c \in Role
                 PROVE  rule'[c] \subseteq rule[c] /\ (rule'[c] = rule[c] \/ c \in torn')
      OBVIOUS
    <2>1. p \notin rule[c] => rule[c] \ {p} = rule[c]
      OBVIOUS
    <2> QED
      BY <1>1, <1>2, <2>1
  <1>4. \A j \in Instance, c \in Role : memory'[j][c] \subseteq memory[j][c] \cup rule[c]
    BY <1>2
  <1>5. \A q \in Req :
           \/ req'[q] = req[q]
           \/ /\ req'[q].pc \notin {"clear", "add", "remove"}
              /\ req'[q].pc \in Busy => role[req'[q].role] # "none"
              /\ req[q].pc \in {"clear", "add", "remove"} => req[q].role \in torn'
    BY <1>0, <1>1 DEF Busy
  <1> QED
    BY <1>1, <1>3, <1>4, <1>5, Shrunk

LEMMA BreakPolicy ==
  ASSUME TypeOK, PolicyInv, TypeOK',
         \/ \E r \in Req : Abort(r)
         \/ \E i \in Instance : Restart(i)
         \/ \E p \in Proc : PurgeProcedure(p)
  PROVE  PolicyInv'
  <1>1. ASSUME NEW r \in Req, Abort(r) PROVE PolicyInv'
    <2>1. /\ UNCHANGED <<role, menus, rule, memory>> /\ torn \subseteq torn'
          /\ req'[r].pc = "idle"
          /\ req[r].pc \in {"clear", "add", "remove"} => req[r].role \in torn'
          /\ \A q \in Req \ {r} : req'[q] = req[q]
      BY <1>1, Gone, IdleRequest DEF Abort
    <2>2. \A q \in Req :
             \/ req'[q] = req[q]
             \/ /\ req'[q].pc \notin {"clear", "add", "remove"}
                /\ req'[q].pc \in Busy => role[req'[q].role] # "none"
                /\ req[q].pc \in {"clear", "add", "remove"} => req[q].role \in torn'
      BY <2>1 DEF Busy
    <2>3. /\ \A c \in Role : rule'[c] \subseteq rule[c] /\ (rule'[c] = rule[c] \/ c \in torn')
          /\ \A i \in Instance, c \in Role : memory'[i][c] \subseteq memory[i][c] \cup rule[c]
      BY <2>1
    <2> QED
      BY <2>1, <2>2, <2>3, Shrunk
  <1>2. ASSUME NEW i \in Instance, Restart(i) PROVE PolicyInv'
    <2>1. /\ UNCHANGED <<role, menus, rule>> /\ torn \subseteq torn'
          /\ memory' = [memory EXCEPT ![i] = rule]
          /\ \A r \in Req : req'[r] = IF req[r].inst = i THEN Idle ELSE req[r]
      BY <1>2, Restarted DEF Restart
    <2>2. \A r \in Req : req[r].inst = i /\ req[r].pc \in {"clear", "add", "remove"}
                           => req[r].role \in torn'
      BY <1>2 DEF Restart, TypeOK, Known
    <2>3. \A r \in Req :
             \/ req'[r] = req[r]
             \/ /\ req'[r].pc \notin {"clear", "add", "remove"}
                /\ req'[r].pc \in Busy => role[req'[r].role] # "none"
                /\ req[r].pc \in {"clear", "add", "remove"} => req[r].role \in torn'
      BY <2>1, <2>2, IdleRequest DEF Busy
    <2>4. /\ \A c \in Role : rule'[c] \subseteq rule[c] /\ (rule'[c] = rule[c] \/ c \in torn')
          /\ \A j \in Instance, c \in Role : memory'[j][c] \subseteq memory[j][c] \cup rule[c]
      BY <2>1 DEF TypeOK
    <2> QED
      BY <2>1, <2>3, <2>4, Shrunk
  <1>3. ASSUME NEW p \in Proc, PurgeProcedure(p) PROVE PolicyInv'
    <2>1. /\ UNCHANGED <<role, menus, memory, req>>
          /\ torn' = torn \cup {c \in Role : p \in rule[c]}
          /\ rule' = [c \in Role |-> rule[c] \ {p}]
      BY <1>3 DEF PurgeProcedure
    <2>2. /\ \A c \in Role : rule'[c] \subseteq rule[c] /\ (rule'[c] = rule[c] \/ c \in torn')
          /\ torn \subseteq torn'
          /\ \A i \in Instance, c \in Role : memory'[i][c] \subseteq memory[i][c] \cup rule[c]
      BY <2>1 DEF TypeOK
    <2> QED
      BY <2>1, <2>2, Shrunk
  <1> QED
    BY <1>1, <1>2, <1>3

LEMMA PolicyNext == TypeOK /\ PolicyInv /\ [Next]_vars => PolicyInv'
  <1> SUFFICES ASSUME TypeOK, PolicyInv, [Next]_vars PROVE PolicyInv'
    OBVIOUS
  <1>1. TypeOK'
    BY TypeNext
  <1>2. ASSUME NEW r \in Req, SetRolePermissions(r) PROVE PolicyInv'
    BY <1>1, <1>2, FindPolicy, SetTxPolicy, ClearPolicy, AddPolicy DEF SetRolePermissions
  <1>3. ASSUME NEW r \in Req, DeleteRole(r) PROVE PolicyInv'
    BY <1>1, <1>3, FindPolicy, DeleteTxPolicy, RemoveRolePolicy DEF DeleteRole
  <1>4. ASSUME NEW r \in Req,
               \/ Enforce(r) \/ InvalidateCache(r)
               \/ \E i \in Instance, p \in Proc : RemoveProcedure(r, i, p)
        PROVE  PolicyInv'
    BY <1>1, <1>4, EnforcePolicy, RemoveProcedurePolicy
  <1>5. ASSUME UNCHANGED <<role, menus, rule, memory, req, torn>> PROVE PolicyInv'
    BY <1>5 DEF PolicyInv, FreshInv, HalfSetInv, PermissionsFromOneCall, DeadInv, HalfSet, At
  <1>6. ASSUME NEW i \in Instance, NEW d \in Role \X Proc, CacheExpire(i, d)
        PROVE  PolicyInv'
    BY <1>5, <1>6 DEF CacheExpire
  <1>7. CASE UNCHANGED vars
    BY <1>5, <1>7 DEF vars
  <1> QED
    BY <1>1, <1>2, <1>3, <1>4, <1>6, <1>7, CreateRolePolicy, BreakPolicy DEF Next

(* Outside a call, and unless calls overlapped or broke off, a role has the *)
(* menus and the policies that one SetRolePermissions call gave it.         *)
THEOREM PermissionsHold == Spec => []PermissionsFromOneCall
  <1>1. TypeOK /\ PolicyInv => PermissionsFromOneCall
    BY DEF PolicyInv
  <1> QED
    BY <1>1, InitType, TypeNext, InitPolicy, PolicyNext, PTL DEF Spec

(* No policy outlives a DeleteRole that ran to its end, unless a            *)
(* SetRolePermissions that had found the role brings one back.              *)
THEOREM DeadRoleHolds == Spec => []DeadRoleGrantsNothing
  <1>1. TypeOK /\ PolicyInv => DeadRoleGrantsNothing
    BY DEF PolicyInv, DeadInv, DeadRoleGrantsNothing
  <1> QED
    BY <1>1, InitType, TypeNext, InitPolicy, PolicyNext, PTL DEF Spec

-----------------------------------------------------------------------------
(* Decisions in the cache *)

Changing(i) == \E r \in Req : req[r].inst = i /\ req[r].pc \in {"add", "invalidate"}

(* OutOfDate(i) \subseteq late, decision by decision. *)
Covered(i) ==
  \A c \in Role, p \in Proc :
    cache[i][<<c, p>>] \notin {"none", Holds(i, c, p)} => <<i, c, p>> \in late

LEMMA CacheDef ==
  /\ CacheFollowsMemory <=> \A i \in Instance : Changing(i) \/ Covered(i)
  /\ CacheFollowsMemory' <=> \A i \in Instance : Changing(i)' \/ Covered(i)'
  <1>1. ASSUME NEW i \in Instance
        PROVE  /\ OutOfDate(i) \subseteq late <=> Covered(i)
               /\ OutOfDate(i)' \subseteq late' <=> Covered(i)'
    <2>1. \A l \in {i} \X Role \X Proc : l = <<i, l[2], l[3]>> /\ l[2] \in Role /\ l[3] \in Proc
      OBVIOUS
    <2>2. \A c \in Role, p \in Proc :
            LET l == <<i, c, p>> IN l \in {i} \X Role \X Proc /\ l[2] = c /\ l[3] = p
      OBVIOUS
    <2>3. OutOfDate(i) \subseteq late <=> Covered(i)
      BY <2>1, <2>2 DEF OutOfDate, Covered
    <2>4. OutOfDate(i)' \subseteq late' <=> Covered(i)'
      BY <2>1, <2>2 DEF OutOfDate, Covered
    <2> QED
      BY <2>3, <2>4
  <1>2. CacheFollowsMemory <=> \A i \in Instance : Changing(i) \/ Covered(i)
    BY <1>1, Zenon DEF CacheFollowsMemory, Changing
  <1>3. CacheFollowsMemory' <=> \A i \in Instance : Changing(i)' \/ Covered(i)'
    BY <1>1, Zenon DEF CacheFollowsMemory, Changing
  <1> QED
    BY <1>2, <1>3

LEMMA InitCache == Init => CacheFollowsMemory
  BY CacheDef DEF Init, Covered

(* Steps of an instance are no concern of another. *)
LEMMA Elsewhere ==
  ASSUME TypeOK, CacheFollowsMemory, NEW i \in Instance,
         \A j \in Instance \ {i} :
           /\ memory'[j] = memory[j] /\ cache'[j] = cache[j]
           /\ \A c \in Role, p \in Proc : <<j, c, p>> \in late => <<j, c, p>> \in late',
         \A r \in Req : req[r].inst # i /\ req[r].pc \in {"add", "invalidate"}
                          => req'[r] = req[r],
         Changing(i)' \/ Covered(i)'
  PROVE  CacheFollowsMemory'
  <1> SUFFICES ASSUME NEW j \in Instance \ {i} PROVE Changing(j)' \/ Covered(j)'
    BY CacheDef
  <1>1. CASE Changing(j)
    BY <1>1 DEF Changing
  <1>2. CASE Covered(j)
    BY <1>2 DEF Covered, Holds
  <1> QED
    BY <1>1, <1>2, CacheDef

(* Steps that touch neither policies nor decisions. *)
LEMMA SameDecisions ==
  ASSUME TypeOK, CacheFollowsMemory, UNCHANGED <<memory, cache, late>>,
         \A r \in Req : req[r].pc \in {"add", "invalidate"} => req'[r] = req[r]
  PROVE  CacheFollowsMemory'
  BY CacheDef DEF Changing, Covered, Holds

LEMMA SetRolePermissionsCache ==
  ASSUME TypeOK, CacheFollowsMemory, NEW r \in Req, SetRolePermissions(r)
  PROVE  CacheFollowsMemory'
  <1>1. ASSUME NEW i \in Instance, NEW c \in Role, NEW P \in SUBSET Proc,
               SetFind(r, i, c, P)
        PROVE  CacheFollowsMemory'
    BY <1>1, IdleRequest, SameDecisions DEF SetFind, Begin, TypeOK
  <1>2. CASE SetTx(r)
    BY <1>2, Moved, SameDecisions DEF SetTx, At, Pc
  <1>3. CASE Clear(r)
    <2>1. PICK i \in Instance, c \in Role : req[r].role = c /\ req[r].inst = i
      BY <1>3 DEF Clear, At, TypeOK, Known
    <2>2. PICK p \in {"invalidate", "add"} : Goto(r, p)
      BY <1>3 DEF Clear
    <2>3. RemoveFilteredPolicy(i, {c}, Proc) /\ UNCHANGED <<cache, late>>
      BY <1>3, <2>1 DEF Clear
    <2>4. \A j \in Instance \ {i} : memory'[j] = memory[j]
      BY <2>3 DEF RemoveFilteredPolicy, TypeOK
    <2>5. /\ \A q \in Req \ {r} : req'[q] = req[q]
          /\ Changing(i)'
      BY <2>1, <2>2, Moved DEF Changing, Pc
    <2> QED
      BY <2>1, <2>3, <2>4, <2>5, Elsewhere
  <1>4. CASE Add(r)
    <2>1. PICK i \in Instance, c \in Role, P \in SUBSET Proc :
            req[r].role = c /\ req[r].inst = i /\ req[r].procs = P
      BY <1>4, Added
    <2>2. Goto(r, "invalidate") /\ Forget(i, {c} \X P)
      BY <1>4, <2>1 DEF Add
    <2>3. \A j \in Instance \ {i} : memory'[j] = memory[j]
      BY <1>4, <2>1 DEF Add, TypeOK
    <2>4. /\ \A q \in Req \ {r} : req'[q] = req[q]
          /\ Changing(i)'
      BY <2>1, <2>2, Moved DEF Changing, Pc
    <2>5. \A j \in Instance \ {i} :
            /\ cache'[j] = cache[j]
            /\ \A b \in Role, p \in Proc : <<j, b, p>> \in late => <<j, b, p>> \in late'
      BY <2>2 DEF Forget, TypeOK
    <2> QED
      BY <2>1, <2>3, <2>4, <2>5, Elsewhere
  <1> QED
    BY <1>1, <1>2, <1>3, <1>4 DEF SetRolePermissions

LEMMA DeleteRoleCache ==
  ASSUME TypeOK, CacheFollowsMemory, NEW r \in Req, DeleteRole(r)
  PROVE  CacheFollowsMemory'
  <1>1. ASSUME NEW i \in Instance, NEW c \in Role, DeleteFind(r, i, c)
        PROVE  CacheFollowsMemory'
    BY <1>1, IdleRequest, SameDecisions DEF DeleteFind, Begin, TypeOK
  <1>2. CASE DeleteTx(r)
    BY <1>2, Moved, SameDecisions DEF DeleteTx, At, Pc
  <1>3. CASE RemoveRole(r)
    <2>1. PICK i \in Instance, c \in Role : req[r].role = c /\ req[r].inst = i
      BY <1>3 DEF RemoveRole, At, TypeOK, Known
    <2>2. /\ RemoveFilteredPolicy(i, {c}, Proc) /\ UNCHANGED <<cache, late>>
          /\ Goto(r, "invalidate")
      BY <1>3, <2>1 DEF RemoveRole
    <2>3. \A j \in Instance \ {i} : memory'[j] = memory[j]
      BY <2>2 DEF RemoveFilteredPolicy, TypeOK
    <2>4. /\ \A q \in Req \ {r} : req'[q] = req[q]
          /\ Changing(i)'
      BY <2>1, <2>2, Moved DEF Changing, Pc
    <2> QED
      BY <2>1, <2>2, <2>3, <2>4, Elsewhere
  <1> QED
    BY <1>1, <1>2, <1>3 DEF DeleteRole

LEMMA RemoveProcedureCache ==
  ASSUME TypeOK, CacheFollowsMemory, NEW r \in Req, NEW i \in Instance, NEW p \in Proc,
         RemoveProcedure(r, i, p)
  PROVE  CacheFollowsMemory'
  <1>1. RemoveFilteredPolicy(i, Role, {p}) /\ UNCHANGED <<cache, late>>
    BY DEF RemoveProcedure
  <1>2. \A j \in Instance \ {i} : memory'[j] = memory[j]
    BY <1>1 DEF RemoveFilteredPolicy, TypeOK
  <1>3. /\ \A q \in Req \ {r} : req'[q] = req[q]
        /\ req[r].pc = "idle" /\ req'[r].inst = i /\ req'[r].pc = "invalidate"
    BY IdleRequest DEF RemoveProcedure, Begin, TypeOK, Idle
  <1>4. Changing(i)'
    BY <1>3 DEF Changing
  <1> QED
    BY <1>1, <1>2, <1>3, <1>4, Elsewhere

(* An instance whose cache has been emptied has nothing out of date. *)
LEMMA Emptied ==
  ASSUME TypeOK, CacheFollowsMemory, NEW i \in Instance, Forget(i, Role \X Proc),
         \A j \in Instance \ {i} : memory'[j] = memory[j],
         \A r \in Req : req[r].inst # i => req'[r] = req[r]
  PROVE  CacheFollowsMemory'
  <1>1. \A d \in Role \X Proc : cache'[i][d] = "none"
    BY ForgetType
  <1>2. Covered(i)'
    BY <1>1 DEF Covered
  <1>3. \A j \in Instance \ {i} :
          /\ cache'[j] = cache[j]
          /\ \A c \in Role, p \in Proc : <<j, c, p>> \in late => <<j, c, p>> \in late'
    BY DEF Forget, TypeOK
  <1> QED
    BY <1>2, <1>3, Elsewhere

LEMMA ForgetKeeps ==
  ASSUME TypeOK, NEW i \in Instance, NEW D, Forget(i, D), Covered(i), UNCHANGED memory
  PROVE  Covered(i)'
  <1> SUFFICES ASSUME NEW c \in Role, NEW p \in Proc,
                      cache'[i][<<c, p>>] \notin {"none", Holds(i, c, p)'}
               PROVE  <<i, c, p>> \in late'
    BY DEF Covered
  <1>1. cache'[i][<<c, p>>] = IF <<c, p>> \in D THEN "none" ELSE cache[i][<<c, p>>]
    BY ForgetType
  <1>2. <<c, p>> \notin D /\ cache[i][<<c, p>>] \notin {"none", Holds(i, c, p)}
    BY <1>1 DEF Holds
  <1>3. <<i, c, p>> \in late
    BY <1>2 DEF Covered
  <1> QED
    BY <1>2, <1>3 DEF Forget

LEMMA CacheExpireCache ==
  ASSUME TypeOK, CacheFollowsMemory, NEW i \in Instance, NEW d \in Role \X Proc,
         CacheExpire(i, d)
  PROVE  CacheFollowsMemory'
  <1>1. Forget(i, {d}) /\ UNCHANGED <<memory, req>>
    BY DEF CacheExpire
  <1>2. Changing(i)' \/ Covered(i)'
    BY <1>1, CacheDef, ForgetKeeps DEF Changing
  <1>3. \A j \in Instance \ {i} :
          /\ cache'[j] = cache[j]
          /\ \A c \in Role, p \in Proc : <<j, c, p>> \in late => <<j, c, p>> \in late'
    BY <1>1 DEF Forget, TypeOK
  <1> QED
    BY <1>1, <1>2, <1>3, Elsewhere

LEMMA EnforceCache ==
  ASSUME TypeOK, CacheFollowsMemory, NEW r \in Req, Enforce(r)
  PROVE  CacheFollowsMemory'
  <1>1. ASSUME NEW i \in Instance, NEW c \in Role, NEW p \in Proc, EnforceMiss(r, i, c, p)
        PROVE  CacheFollowsMemory'
    BY <1>1, IdleRequest, SameDecisions DEF EnforceMiss, Begin, TypeOK
  <1>2. CASE EnforceCompute(r)
    BY <1>2, SameDecisions DEF EnforceCompute, At, TypeOK
  <1>3. CASE EnforceStore(r)
    <2>1. PICK i \in Instance, c \in Role, p \in Proc :
            req[r].inst = i /\ req[r].role = c /\ req[r].proc = p
      BY <1>3 DEF EnforceStore, At, TypeOK, Known
    <2>2. /\ cache' = [cache EXCEPT ![i][<<c, p>>] = req[r].result]
          /\ late' = IF req[r].result = Holds(i, c, p) THEN late \ {<<i, c, p>>}
                                                       ELSE late \cup {<<i, c, p>>}
          /\ UNCHANGED memory /\ Finish(r) /\ req[r].pc = "store"
      BY <1>3, <2>1 DEF EnforceStore, At
    <2> DEFINE x == [cache[i] EXCEPT ![<<c, p>>] = req[r].result]
    <2>3. /\ x[<<c, p>>] = req[r].result
          /\ \A d \in Role \X Proc : d # <<c, p>> => x[d] = cache[i][d]
      BY DEF TypeOK
    <2>4. cache'[i] = x /\ \A j \in Instance \ {i} : cache'[j] = cache[j]
      BY <2>2 DEF TypeOK
    <2> HIDE DEF x
    <2>5. \A q \in Req \ {r} : req'[q] = req[q]
      BY <2>2, Gone
    <2>6. ASSUME Covered(i) PROVE Covered(i)'
      <3> SUFFICES ASSUME NEW b \in Role, NEW o \in Proc,
                          cache'[i][<<b, o>>] \notin {"none", Holds(i, b, o)}
                   PROVE  <<i, b, o>> \in late'
        BY <2>2 DEF Covered, Holds
      <3>1. CASE b = c /\ o = p
        BY <3>1, <2>2, <2>3, <2>4
      <3>2. CASE b # c \/ o # p
        <4>1. <<b, o>> # <<c, p>> /\ <<i, b, o>> # <<i, c, p>>
          BY <3>2
        <4>2. cache'[i][<<b, o>>] = cache[i][<<b, o>>]
          BY <4>1, <2>3, <2>4
        <4>3. <<i, b, o>> \in late
          BY <4>2, <2>6 DEF Covered
        <4> QED
          BY <4>1, <4>3, <2>2
      <3> QED
        BY <3>1, <3>2
    <2>7. Changing(i)' \/ Covered(i)'
      BY <2>2, <2>5, <2>6, CacheDef DEF Changing
    <2>8. \A j \in Instance \ {i}, b \in Role, o \in Proc :
            <<j, b, o>> \in late => <<j, b, o>> \in late'
      BY <2>2
    <2> QED
      BY <2>2, <2>4, <2>5, <2>7, <2>8, Elsewhere
  <1> QED
    BY <1>1, <1>2, <1>3 DEF Enforce

LEMMA AbortCache ==
  ASSUME TypeOK, CacheFollowsMemory, NEW r \in Req, Abort(r)
  PROVE  CacheFollowsMemory'
  <1>1. /\ UNCHANGED <<memory, cache>>
        /\ req[r].pc # "invalidate"
        /\ \A q \in Req \ {r} : req'[q] = req[q]
    BY Gone DEF Abort
  <1>2. CASE At(r, "add")
    <2>1. PICK i \in Instance : req[r].inst = i
      BY <1>2 DEF At, TypeOK, Known
    <2>2. late' = late \cup OutOfDate(i)
      BY <1>2, <2>1 DEF Abort
    <2>3. ASSUME NEW c \in Role, NEW p \in Proc,
                 cache[i][<<c, p>>] \notin {"none", Holds(i, c, p)}
          PROVE  <<i, c, p>> \in OutOfDate(i)
      BY <2>3 DEF OutOfDate
    <2>4. Covered(i)'
      BY <1>1, <2>2, <2>3 DEF Covered, Holds
    <2>5. \A j \in Instance \ {i}, c \in Role, p \in Proc :
            <<j, c, p>> \in late => <<j, c, p>> \in late'
      BY <2>2
    <2> QED
      BY <1>1, <2>1, <2>4, <2>5, Elsewhere
  <1>3. CASE ~At(r, "add")
    BY <1>1, <1>3, SameDecisions DEF Abort, At
  <1> QED
    BY <1>2, <1>3

LEMMA CacheNext == TypeOK /\ CacheFollowsMemory /\ [Next]_vars => CacheFollowsMemory'
  <1> SUFFICES ASSUME TypeOK, CacheFollowsMemory, [Next]_vars PROVE CacheFollowsMemory'
    OBVIOUS
  <1>1. ASSUME NEW r \in Req, InvalidateCache(r) PROVE CacheFollowsMemory'
    <2>1. PICK i \in Instance : req[r].inst = i
      BY <1>1 DEF InvalidateCache, At, TypeOK, Known
    <2> QED
      BY <1>1, <2>1, Gone, Emptied DEF InvalidateCache
  <1>2. ASSUME NEW i \in Instance, Restart(i) PROVE CacheFollowsMemory'
    <2>1. /\ Forget(i, Role \X Proc)
          /\ \A j \in Instance \ {i} : memory'[j] = memory[j]
      BY <1>2 DEF Restart, TypeOK
    <2> QED
      BY <1>2, <2>1, Restarted, Emptied
  <1>3. ASSUME UNCHANGED <<memory, cache, req, late>> PROVE CacheFollowsMemory'
    BY <1>3, SameDecisions
  <1>4. ASSUME NEW c \in Role, CreateRole(c) PROVE CacheFollowsMemory'
    BY <1>3, <1>4 DEF CreateRole
  <1>5. ASSUME NEW p \in Proc, PurgeProcedure(p) PROVE CacheFollowsMemory'
    BY <1>3, <1>5 DEF PurgeProcedure
  <1>6. CASE UNCHANGED vars
    BY <1>3, <1>6 DEF vars
  <1> QED
    BY <1>1, <1>2, <1>4, <1>5, <1>6, SetRolePermissionsCache, DeleteRoleCache,
       RemoveProcedureCache, CacheExpireCache, EnforceCache, AbortCache DEF Next

(* A decision in the cache of an instance agrees with the policies in its   *)
(* memory, unless a call has yet to empty the cache or it was stored late.  *)
THEOREM CacheHolds == Spec => []CacheFollowsMemory
  BY InitType, TypeNext, InitCache, CacheNext, PTL DEF Spec
=============================================================================
