----------------------------- MODULE MCAdminArea -----------------------------
(* The admin area in one tab, for TLC.  A page and the shell around it share*)
(* no state; so a behavior is that of one component of one page, the shell  *)
(* resting, or, on the dashboard, which only shows figures, the shell's.    *)
EXTENDS AdminPages, Sidebar

Declare(name, in, path, plugin, visible) ==
  [name |-> name, in |-> in, path |-> path, plugin |-> plugin, visible |-> visible]

MCPluginsPath == <<"/plugins">>

MCPublicPath == <<"/pub", "/shop">>

MCSeed ==
  <<Declare("system", Null, <<>>, FALSE, FALSE),
    Declare("plugins", "system", MCPluginsPath, FALSE, TRUE),
    Declare("plg_shop", Null, <<"/p", "/shop">>, TRUE, FALSE)>>

MCPath == {<<>>, <<"/plugins", "-old">>}

MCAddress == {MCPluginsPath, MCPublicPath}

(* The components on their pages; of those that are alike in every respect, *)
(* one is checked.                                                          *)
Used == {x \in (DOMAIN Pages) \X DOMAIN Dialog : x[2] \in Pages[x[1]].holds}

Like(x) ==
  <<[Pages[x[1]] EXCEPT !.holds = {}], Dialog[x[2]],
    x[1] = "UsersPage" /\ Dialog[x[2]].does = "search">>

Checked == {CHOOSE x \in Used : Like(x) = k : k \in {Like(x) : x \in Used}}

(* Administrators are those who switch plugins, the others fold groups.     *)
(* Two handlers at once where it is one for the page: its own earlier one   *)
(* is what its guard is for.  Two components where one says where the rows  *)
(* of the other go.                                                         *)
MCInit ==
  /\ Init
  /\ \/ /\ Cardinality(hand) = Least(1, Cardinality(This.holds))
        /\ \A d \in hand : <<page, d>> \in Checked
     \/ hand = {"CreateDictItemDialog", "DictSelect"}
  /\ ShellInit
  /\ Len(tasks) = IF \A d \in hand : Dialog[d].per = "page" THEN MaxTask ELSE 1
  /\ hand = {} => page = "DashboardPage"
  /\ hand # {} => ~admin

MCNext ==
  \/ page # "DashboardPage" /\ Next /\ UNCHANGED shellVars
  \/ /\ page = "DashboardPage"
     /\ ShellNext
     /\ admin => UNCHANGED touched
     /\ UNCHANGED vars

MCSpec == MCInit /\ [][MCNext]_<<vars, shellVars>>
=============================================================================
