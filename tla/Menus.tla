-------------------------------- MODULE Menus --------------------------------
(***************************************************************************)
(* The navigation menus as the server keeps them: the rows an              *)
(* administrator edits, the menus granted to the roles of one user, the    *)
(* entries that the core and one plugin declare, and the tree a user gets. *)
(***************************************************************************)
EXTENDS Naturals, FiniteSets, Sequences

CONSTANTS
  Id,          \* ids: 1..n
  Path,        \* the paths administrators enter; <<>>: a group
  Seed,        \* the declared entries, parents first: name, in, path, plugin, visible
  MaxChanges,  \* bound: changes of menus, grants and the plugin, and restarts
  Null         \* no number

VARIABLES
  menus,      \* menus[i]: the row with id i; Null: not there
  lastId,     \* the last id given
  roleMenus,  \* the ids granted to the roles of the user
  installed,  \* whether the plugin is built into the running server
  disabled,   \* whether the plugin is switched off
  changes     \* changes so far

menuVars == <<menus, lastId, roleMenus, installed, disabled, changes>>

ASSUME MenusAssumption == Id \subseteq Nat \ {0} /\ IsFiniteSet(Id) /\ Len(Seed) \in Nat

Declared(there) == {Seed[n] : n \in {n \in 1..Len(Seed) : there \/ ~Seed[n].plugin}}

IsPluginMenuName(name) == \E x \in Declared(TRUE) : x.plugin /\ x.name = name

Present == {i \in Id : menus[i] # Null}

Change == changes < MaxChanges /\ changes' = changes + 1

-----------------------------------------------------------------------------
(* (Bug: the id of a deleted menu is given again.) *)
FreshIdBug(rows, last) ==
  LET free == {i \in Id : rows[i] = Null} \cup {last + 1} IN CHOOSE i \in free : \A j \in free : i <= j

FreshId(rows, last) == last + 1

Greater(m, n) == IF m > n THEN m ELSE n

(* The parent may be any menu; it may go away later.                        *)
CreateMenu(parent, path) ==
  LET i == FreshId(menus, lastId) IN
  /\ Change
  /\ i \in Id
  /\ menus' = [menus EXCEPT ![i] = [name |-> Null, parent |-> parent, path |-> path]]
  /\ lastId' = Greater(i, lastId)
  /\ UNCHANGED <<roleMenus, installed, disabled>>

UpdateMenu(i, parent, path) ==
  /\ Change
  /\ i \in Present
  /\ menus' = [menus EXCEPT ![i].parent = parent, ![i].path = path]
  /\ UNCHANGED <<lastId, roleMenus, installed, disabled>>

(* One transaction.  The children stay. *)
DeleteMenu(i) ==
  /\ Change
  /\ i \in Present
  /\ menus' = [menus EXCEPT ![i] = Null]
  /\ roleMenus' = roleMenus \ {i}
  /\ UNCHANGED <<lastId, installed, disabled>>

(* One transaction, too. *)
SetRolePermissions(ids) ==
  /\ Change
  /\ roleMenus' = ids
  /\ UNCHANGED <<menus, lastId, installed, disabled>>

SetPluginEnabled(on) ==
  /\ Change
  /\ installed
  /\ disabled' = ~on
  /\ UNCHANGED <<menus, lastId, roleMenus, installed>>

(* One declared entry, in the state s of syncMenus: inserted with its grants*)
(* unless a row has its name; a plugin's row is given its declared place.   *)
Synced(s, seed) ==
  LET Named(name) == {i \in Id : s.rows[i] # Null /\ s.rows[i].name = name}
      parent == IF seed.in = Null THEN 0 ELSE CHOOSE i \in Named(seed.in) : TRUE
      row == [name |-> seed.name, parent |-> parent, path |-> seed.path]
      i == FreshId(s.rows, s.last) IN
  IF Named(seed.name) = {} THEN
    [rows |-> [s.rows EXCEPT ![i] = row], last |-> Greater(i, s.last),
     granted |-> IF seed.visible THEN s.granted \cup {i} ELSE s.granted]
  ELSE IF seed.plugin THEN
    [s EXCEPT !.rows = [i2 \in Id |-> IF i2 \in Named(seed.name) THEN row ELSE s.rows[i2]]]
  ELSE s

Missing(there) == {x \in Declared(there) : \A i \in Present : menus[i].name # x.name}

syncMenus(there) ==
  LET s[n \in 0..Len(Seed)] ==
        IF n = 0 THEN [rows |-> menus, last |-> lastId, granted |-> roleMenus]
        ELSE IF Seed[n] \in Declared(there) THEN Synced(s[n - 1], Seed[n])
        ELSE s[n - 1]
  IN s[Len(Seed)]

(* pruneOrphanPluginMenus: the rows of a plugin that is no longer there.    *)
Orphans(rows, there) ==
  {i \in Id : /\ rows[i] # Null
              /\ IsPluginMenuName(rows[i].name)
              /\ \A x \in Declared(there) : x.name # rows[i].name}

(* The server starts again, rebuilt with or without the plugin.  Declared   *)
(* entries that had been deleted are there again.                           *)
Start(there) ==
  LET s == syncMenus(there)
      orphans == Orphans(s.rows, there) IN
  /\ Change
  /\ lastId + Cardinality(Missing(there)) <= Cardinality(Id)
  /\ menus' = [i \in Id |-> IF i \in orphans THEN Null ELSE s.rows[i]]
  /\ lastId' = s.last
  /\ roleMenus' = s.granted \ orphans
  /\ installed' = there
  /\ UNCHANGED disabled

-----------------------------------------------------------------------------
(* GetUserMenus. *)
IsOwned(row) == IsPluginMenuName(row.name)

keepMenu(row) == IsOwned(row) /\ installed => ~disabled

(* The rows that are read, those of a disabled plugin dropped.              *)
Loaded == [i \in {i \in Present : keepMenu(menus[i])} |-> menus[i]]

ParentOf(byID, i) == IF i \in DOMAIN byID THEN byID[i].parent ELSE 0

(* (Bug: only the parent is included.) *)
ClimbBug(byID, granted, i) == granted \cup ({ParentOf(byID, i)} \ {0})

(* The top (0), the rows, and where they say they are.                      *)
Places(byID) == {0} \cup DOMAIN byID \cup {byID[i].parent : i \in DOMAIN byID}

(* From i to the top, as far as nobody has climbed yet: the parent of i and *)
(* the parent of whatever is added, unless it is granted already.           *)
Climb(byID, granted, i) ==
  granted \cup {p \in Places(byID) : \A s \in SUBSET Places(byID) :
    (\A j \in s \cup {i} : ParentOf(byID, j) \in s \cup granted \cup {0}) => p \in s}

(* The granted menus and the groups above them, walked in the order keys.   *)
WithGroups(byID, granted, keys) ==
  LET g[n \in 0..Len(keys)] == IF n = 0 THEN granted ELSE Climb(byID, g[n - 1], keys[n])
  IN g[Len(keys)]

(* A tree, as the set of its entries, each with its parent; siblings come   *)
(* in the order of their ids.  A row is in it if it is at the top, or its   *)
(* parent is in it.                                                         *)
buildMenuTree(byID) ==
  LET ids == {i \in DOMAIN byID : \A s \in SUBSET DOMAIN byID :
                (\A j \in DOMAIN byID : byID[j].parent \in s \cup {0} => j \in s) => i \in s}
  IN {[id |-> i, parent |-> byID[i].parent, path |-> byID[i].path, owned |-> IsOwned(byID[i])] : i \in ids}

(* The orders in which Go may walk a map with these keys.                   *)
Orders(ids) ==
  {keys \in [1..Cardinality(ids) -> ids] : \A i \in ids : \E n \in DOMAIN keys : keys[n] = i}

(* The trees that the rows byID and the grants may give. *)
UserTrees(byID, granted) ==
  {LET g == WithGroups(byID, granted, keys) IN
   buildMenuTree([i \in DOMAIN byID \cap g |-> byID[i]]) : keys \in Orders(granted)}

-----------------------------------------------------------------------------
(* What it should be: the entries that are on the way from the top to one   *)
(* that is granted, no row of that way missing.                             *)
WayUp(byID, i) ==
  {p \in Places(byID) : \A s \in SUBSET Places(byID) :
     i \in s /\ (\A j \in s \cap DOMAIN byID : byID[j].parent \in s) => p \in s}

Reachable(byID, granted) ==
  {i \in DOMAIN byID : 0 \in WayUp(byID, i) /\ \E g \in granted \cap DOMAIN byID : i \in WayUp(byID, g)}

-----------------------------------------------------------------------------
MenusInit ==
  /\ menus = [i \in Id |->
       IF i > Len(Seed) THEN Null
       ELSE [name |-> Seed[i].name, path |-> Seed[i].path,
             parent |-> IF Seed[i].in = Null THEN 0
                        ELSE CHOOSE j \in 1..Len(Seed) : Seed[j].name = Seed[i].in]]
  /\ lastId = Len(Seed)
  /\ roleMenus = {i \in 1..Len(Seed) : Seed[i].visible}
  /\ installed = TRUE
  /\ disabled = FALSE
  /\ changes = 0

(* Other administrators, and restarts; a role is given one of `grants`.     *)
MenusNext(grants) ==
  \/ \E parent \in Present \cup {0}, path \in Path :
       CreateMenu(parent, path) \/ \E i \in Id : UpdateMenu(i, parent, path)
  \/ \E i \in Id : DeleteMenu(i)
  \/ \E ids \in grants : SetRolePermissions(ids)
  \/ \E on \in BOOLEAN : SetPluginEnabled(on)
  \/ \E there \in BOOLEAN : Start(there)
=============================================================================
