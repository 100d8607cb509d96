------------------------------- MODULE Sidebar -------------------------------
(***************************************************************************)
(* What surrounds the pages of the admin area in a tab: the sidebar with   *)
(* the menus of its user, its groups, which are folded and unfolded, the   *)
(* title over the page, the pages of a plugin, and the plugin's switch.    *)
(* The pages for the public come from the same server.                     *)
(*                                                                         *)
(* The menus are a query of react-query, loaded in two reads (the rows,    *)
(* then the grants).                                                       *)
(***************************************************************************)
EXTENDS Menus

CONSTANTS
  Slash,        \* the pieces of paths that begin with a slash
  PluginsPath,  \* where the plugin is switched on and off
  PublicPath,   \* the plugin's page for the public
  Address,      \* the addresses that pages are loaded from
  Codes,        \* the codes of the buttons that the user's roles are granted
  MaxFold       \* bound: groups folded in a history

VARIABLES
  admin,     \* whether the user is an administrator
  location,
  data,      \* the tree in the cache (public: the pages)
  stale,     \* whether it has been invalidated
  request,   \* the fetch under way, at: sent, loaded, answered
  closed,    \* the groups that are folded
  toggle,    \* the tab's call of SetPluginEnabled, at: wire, done
  switched,  \* history: this tab was told that it is off, and it has been off since
  touched    \* history: the groups somebody has folded or unfolded

tabVars == <<admin, location, data, stale, request, closed, toggle, switched, touched>>

shellVars == <<menus, lastId, roleMenus, installed, disabled, changes,
          admin, location, data, stale, request, closed, toggle, switched, touched>>

ASSUME SidebarAssumption == PluginsPath # <<>> /\ PublicPath # <<>> /\ <<>> \notin Address

NewRequest == [at |-> "sent", rows |-> [i \in {} |-> 0], granted |-> {}, tree |-> {}]

Nodes == IF data = Null THEN {} ELSE data

Groups == {m \in Nodes : m.path = <<>>}

(* m and the entries above it.                                              *)
Above(tree, m) ==
  {a \in tree : \A s \in SUBSET tree :
     m \in s /\ (\A b \in s, c \in tree : c.id = b.parent => c \in s) => a \in s}

(* Whether m comes before x when the tree is searched: m is above x, or     *)
(* there are siblings, one at or above m, the next at or above x.           *)
Before(tree, m, x) ==
  \/ m \in Above(tree, x)
  \/ \E a \in Above(tree, m), b \in Above(tree, x) : a.parent = b.parent /\ a.id < b.id

First(tree, found) ==
  IF found = {} THEN Null ELSE CHOOSE m \in found : \A x \in found \ {m} : Before(tree, m, x)

startsWith(at, path) == DOMAIN path \subseteq DOMAIN at /\ \A n \in DOMAIN path : at[n] = path[n]

-----------------------------------------------------------------------------
(* Three searches of the tree.                                              *)

(* (Bug: groups, whose path is empty, match.) *)
TitlesBug(tree, at) == {m \in tree : startsWith(at, m.path)}

Titles(tree, at) == {m \in tree : m.path # <<>> /\ startsWith(at, m.path)}

(* The entry whose title stands over the page. *)
findMenuTitle(tree, at) == First(tree, Titles(tree, at))

(* The entry whose component is the page of the plugin. *)
findByPath(tree, at) == First(tree, {m \in tree : m.path = at})

leafMatches(path, at) ==
  /\ path # <<>>
  /\ startsWith(at, path)
  /\ Len(path) < Len(at) => at[Len(path) + 1] \in Slash

hasActiveDescendant(tree, node, at) ==
  \E m \in tree : node \in Above(tree, m) /\ leafMatches(m.path, at)

(* The first group at the top with the location's entry in it. *)
activeGroupId ==
  First(Nodes, {top \in Nodes :
    /\ top.parent = 0
    /\ top.path = <<>>
    /\ \E child \in Nodes : child.parent = top.id /\ hasActiveDescendant(Nodes, child, location)})

isGroupOpen(m) == m = activeGroupId \/ m.id \notin closed

(* The links that can be followed: below groups only, and below no folded   *)
(* group, unless the sidebar is collapsed to its icons.                     *)
Links(tree, collapsed) ==
  {m.path : m \in {m \in tree :
     /\ m.path # <<>>
     /\ \A a \in Above(tree, m) \ {m} : a.path = <<>> /\ (collapsed \/ isGroupOpen(a))}}

-----------------------------------------------------------------------------
(* The server's side of the query: the rows are read, then the grants.  An  *)
(* administrator's tree needs no grants.                                    *)
LoadMenus ==
  /\ request # Null
  /\ request.at = "sent"
  /\ location # PublicPath
  /\ request' = IF admin
       THEN [at |-> "answered", rows |-> Loaded, granted |-> DOMAIN Loaded, tree |-> buildMenuTree(Loaded)]
       ELSE [request EXCEPT !.at = "loaded", !.rows = Loaded]
  /\ UNCHANGED <<menus, lastId, roleMenus, installed, disabled, changes>>
  /\ UNCHANGED <<admin, location, data, stale, closed, toggle, switched, touched>>

GetUserMenus ==
  /\ request # Null
  /\ request.at = "loaded"
  /\ \E tree \in UserTrees(request.rows, roleMenus) :
       request' = [request EXCEPT !.at = "answered", !.granted = roleMenus, !.tree = tree]
  /\ UNCHANGED <<menus, lastId, roleMenus, installed, disabled, changes>>
  /\ UNCHANGED <<admin, location, data, stale, closed, toggle, switched, touched>>

(* The pages of a plugin that is not disabled. *)
ListPublicPages ==
  /\ request # Null
  /\ request.at = "sent"
  /\ location = PublicPath
  /\ request' = [request EXCEPT !.at = "answered",
       !.tree = IF installed /\ ~disabled
                  THEN {[id |-> 0, parent |-> 0, path |-> PublicPath, owned |-> TRUE]} ELSE {}]
  /\ UNCHANGED <<menus, lastId, roleMenus, installed, disabled, changes>>
  /\ UNCHANGED <<admin, location, data, stale, closed, toggle, switched, touched>>

(* Only an administrator's call is served. *)
ServeToggle ==
  /\ admin
  /\ toggle # Null
  /\ toggle.at = "wire"
  /\ SetPluginEnabled(toggle.on)
  /\ toggle' \in {[toggle EXCEPT !.at = "done"], Null}
  /\ switched' = (switched /\ ~toggle.on)
  /\ UNCHANGED <<admin, location, data, stale, request, closed, touched>>

(* The call fails: an error is shown. *)
LoseToggle ==
  /\ toggle # Null
  /\ toggle.at = "wire"
  /\ toggle' = Null
  /\ UNCHANGED <<menus, lastId, roleMenus, installed, disabled, changes>>
  /\ UNCHANGED <<admin, location, data, stale, request, closed, switched, touched>>

(* A change by somebody else.  (What is granted is nothing to an            *)
(* administrator.)                                                          *)
OthersChange ==
  /\ MenusNext(IF admin THEN {} ELSE SUBSET Present)
  /\ switched' = (switched /\ disabled' /\ installed')
  /\ touched' = touched \ {i \in Present : menus'[i] = Null}
  /\ UNCHANGED <<admin, location, data, stale, request, closed, toggle>>

-----------------------------------------------------------------------------
(* The answer, or the end of the fetch and its retry. *)
Fetched ==
  /\ request # Null
  /\ \/ /\ request.at = "answered"
        /\ data' = request.tree
        /\ stale' = FALSE
     \/ UNCHANGED <<data, stale>>
  /\ request' = Null
  /\ UNCHANGED <<menus, lastId, roleMenus, installed, disabled, changes>>
  /\ UNCHANGED <<admin, location, closed, toggle, switched, touched>>

(* The focus, or another component that asks for the menus. *)
Refetch ==
  /\ request = Null
  /\ request' = NewRequest
  /\ UNCHANGED <<menus, lastId, roleMenus, installed, disabled, changes>>
  /\ UNCHANGED <<admin, location, data, stale, closed, toggle, switched, touched>>

Follow(path) ==
  /\ location # PublicPath
  /\ path # location
  /\ location' = path
  /\ UNCHANGED <<menus, lastId, roleMenus, installed, disabled, changes>>
  /\ UNCHANGED <<admin, data, stale, request, closed, toggle, switched, touched>>

(* A page is loaded, from its address.  The folded groups are in            *)
(* localStorage; a call under way is given up.                              *)
Load(path) ==
  /\ location' = path
  /\ data' = Null
  /\ stale' = FALSE
  /\ request' = NewRequest
  /\ toggle' = Null
  /\ UNCHANGED <<menus, lastId, roleMenus, installed, disabled, changes>>
  /\ UNCHANGED <<admin, closed, switched, touched>>

toggleGroup(m) ==
  /\ location # PublicPath
  /\ m \in Groups
  /\ Cardinality(touched \cup {m.id}) <= MaxFold
  /\ closed' = IF m.id \in closed THEN closed \ {m.id} ELSE closed \cup {m.id}
  /\ touched' = touched \cup {m.id}
  /\ UNCHANGED <<menus, lastId, roleMenus, installed, disabled, changes>>
  /\ UNCHANGED <<admin, location, data, stale, request, toggle, switched>>

(* Buttons are for those who are granted them, and for administrators. *)
can(code) == admin \/ code \in Codes

PressSwitch(on) ==
  /\ can("plugin:manage")
  /\ location = PluginsPath
  /\ toggle = Null
  /\ changes < MaxChanges
  /\ toggle' = [at |-> "wire", on |-> on]
  /\ UNCHANGED <<menus, lastId, roleMenus, installed, disabled, changes>>
  /\ UNCHANGED <<admin, location, data, stale, request, closed, switched, touched>>

Loading == data = Null /\ request # Null

(* (Bug: only the list of plugins is invalidated.) *)
InvalidateMenusBug == UNCHANGED <<stale, request>>

(* Again, unless they are being loaded for the first time. *)
InvalidateMenus ==
  /\ stale' = (data # Null)
  /\ request' = IF Loading THEN request ELSE NewRequest

ToggleDone ==
  /\ toggle # Null
  /\ toggle.at = "done"
  /\ toggle' = Null
  /\ InvalidateMenus
  /\ switched' = (~toggle.on /\ disabled /\ installed /\ ~Loading)
  /\ UNCHANGED <<menus, lastId, roleMenus, installed, disabled, changes>>
  /\ UNCHANGED <<admin, location, data, closed, touched>>

-----------------------------------------------------------------------------
ShellInit ==
  /\ MenusInit
  /\ admin \in BOOLEAN
  /\ location = PluginsPath
  /\ data = Null
  /\ stale = FALSE
  /\ request = NewRequest
  /\ closed = {}
  /\ toggle = Null
  /\ switched = FALSE
  /\ touched = {}

ShellNext ==
  \/ LoadMenus \/ GetUserMenus \/ ListPublicPages \/ ServeToggle \/ LoseToggle \/ OthersChange
  \/ Fetched \/ Refetch \/ ToggleDone
  \/ \E collapsed \in BOOLEAN : \E path \in Links(Nodes, collapsed) : Follow(path)
  \/ \E path \in Address : Load(path)
  \/ \E m \in Groups : toggleGroup(m)
  \/ \E on \in BOOLEAN : PressSwitch(on)

ShellSpec == ShellInit /\ [][ShellNext]_shellVars

-----------------------------------------------------------------------------
(* A user gets the menus granted to her roles and the groups above them,    *)
(* and an administrator all - in a tree from which nothing hangs loose,     *)
(* however menus have been moved (under each other, too), deleted or        *)
(* granted, and in whatever order Go walks the map of the grants.           *)
MenusAsGranted ==
  request # Null /\ request.at = "answered" /\ location # PublicPath =>
    {m.id : m \in request.tree} = Reachable(request.rows, request.granted)

(* A plugin that this tab has switched off is nowhere to be seen in it,     *)
(* neither in menus that pass for fresh, whatever fetch was under way, nor  *)
(* as a public page, until somebody switches it on.                         *)
ToggledOffGone ==
  switched /\ data # Null /\ ~stale => \A m \in Nodes : ~m.owned

(* Title, page and highlighted group are those of the entry whose path is   *)
(* the location, unless the path of another one is, or how it begins.       *)
SearchesAgree ==
  \A m \in Nodes :
    /\ m.path = location
    /\ \A x \in Nodes \ {m} : x.path = <<>> \/ ~startsWith(location, x.path)
    => /\ findMenuTitle(Nodes, location) = m
       /\ findByPath(Nodes, location) = m
       /\ activeGroupId # Null => activeGroupId \in Above(Nodes, m)

(* A group that is new is open: what has been folded is never confused with *)
(* another group, not even with one that was deleted.                       *)
NewGroupsOpen ==
  \A m \in Groups : m.id \in Present /\ m.id \notin touched => isGroupOpen(m)
=============================================================================
