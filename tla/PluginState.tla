---------------------------- MODULE PluginState ----------------------------
(***************************************************************************)
(* Whether one plugin is enabled: its row of plugin_states, the map each   *)
(* replica answers from (plugin.State), the calls that set it and the      *)
(* reloaders.                                                              *)
(***************************************************************************)
CONSTANTS
  Replica,
  Toggle,     \* SetPluginEnabled calls in flight
  Reloading   \* TRUE on postgres and mysql, where main starts the reloader

VARIABLES
  row,       \* the plugin's row: absent means enabled
  disabled,  \* the replicas in whose map the plugin is disabled
  snapshot,  \* snapshot[i]: the row a Reload of i has read, not yet swapped in
  toggle     \* toggle[t]: progress of a call of SetEnabled

vars == <<row, disabled, snapshot, toggle>>

Row == {"absent", "on", "off"}

Idle == [pc |-> "idle"]

Call == {Idle} \cup
        [pc : {"row", "map"}, at : Replica, found : BOOLEAN, to : {"on", "off"}]

TypeOK ==
  /\ row \in Row
  /\ disabled \subseteq Replica
  /\ snapshot \in [Replica -> Row \cup {"unread"}]
  /\ toggle \in [Toggle -> Call]

Init ==
  /\ row = "absent"
  /\ disabled = {}
  /\ snapshot = [i \in Replica |-> "unread"]
  /\ toggle = [t \in Toggle |-> Idle]

-----------------------------------------------------------------------------
Enabled(i) == i \notin disabled

(* The map of i after r has been put into it. *)
Stored(i, r) == IF r = "off" THEN disabled \cup {i} ELSE disabled \ {i}

(* SetEnabled, First. *)
SetFind(t, i, to) ==
  /\ toggle[t] = Idle
  /\ toggle' = [toggle EXCEPT ![t] =
       [pc |-> "row", at |-> i, found |-> row # "absent", to |-> to]]
  /\ UNCHANGED <<row, disabled, snapshot>>

(* SetEnabled, Create or Updates.  Create fails on the primary key if the   *)
(* row has appeared; Updates of a row that has been purged changes nothing, *)
(* and is no error.                                                         *)
SetRow(t) ==
  LET c == toggle[t] IN
  /\ c.pc = "row"
  /\ ~c.found => row = "absent"
  /\ row' = IF c.found /\ row = "absent" THEN row ELSE c.to
  /\ toggle' = [toggle EXCEPT ![t].pc = "map"]
  /\ UNCHANGED <<disabled, snapshot>>

(* SetEnabled, the map, under the lock. *)
SetMap(t) ==
  LET c == toggle[t] IN
  /\ c.pc = "map"
  /\ disabled' = Stored(c.at, c.to)
  /\ toggle' = [toggle EXCEPT ![t] = Idle]
  /\ UNCHANGED <<row, snapshot>>

(* SetEnabled returns early: a failed statement, a cancelled ctx, or an     *)
(* answer lost after the row was written.                                   *)
SetAbort(t) ==
  /\ toggle[t] # Idle
  /\ toggle' = [toggle EXCEPT ![t] = Idle]
  /\ UNCHANGED <<row, disabled, snapshot>>

(* teardownData deletes the row of a plugin that is uninstalled; no map     *)
(* hears of it.                                                             *)
Purge ==
  /\ row # "absent"
  /\ row' = "absent"
  /\ UNCHANGED <<disabled, snapshot, toggle>>

(* Reload, the query.  One that fails keeps the map: no step. *)
ReloadRead(i) ==
  /\ Reloading
  /\ snapshot[i] = "unread"
  /\ snapshot' = [snapshot EXCEPT ![i] = row]
  /\ UNCHANGED <<row, disabled, toggle>>

(* Variants named "...Bug" are not part of the specification: each is a      *)
(* slip of the code it stands before, kept to show which property sees it.  *)

(* A Reload that adds what it read to the map it finds. *)
ReloadSwapBug(i) ==
  /\ snapshot[i] # "unread"
  /\ disabled' = IF snapshot[i] = "off" THEN disabled \cup {i} ELSE disabled
  /\ snapshot' = [snapshot EXCEPT ![i] = "unread"]
  /\ UNCHANGED <<row, toggle>>

(* Reload, the swap: whatever was stored since the query is overwritten. *)
ReloadSwap(i) ==
  /\ snapshot[i] # "unread"
  /\ disabled' = Stored(i, snapshot[i])
  /\ snapshot' = [snapshot EXCEPT ![i] = "unread"]
  /\ UNCHANGED <<row, toggle>>

(* Replica i starts again: its calls are gone, the map is loaded before     *)
(* anything is served.                                                      *)
NewState(i) ==
  /\ disabled' = Stored(i, row)
  /\ snapshot' = [snapshot EXCEPT ![i] = "unread"]
  /\ toggle' = [t \in Toggle |->
       IF toggle[t] # Idle /\ toggle[t].at = i THEN Idle ELSE toggle[t]]
  /\ UNCHANGED row

SetEnabled(t) ==
  \/ \E i \in Replica, to \in {"on", "off"} : SetFind(t, i, to)
  \/ SetRow(t)
  \/ SetMap(t)
  \/ SetAbort(t)

Reload(i) == ReloadRead(i) \/ ReloadSwap(i)

Next ==
  \/ \E t \in Toggle : SetEnabled(t)
  \/ \E i \in Replica : Reload(i) \/ NewState(i)
  \/ Purge

(* The reloader ticks for ever, and one of its queries succeeds in the end. *)
Fairness ==
  \A i \in Replica : WF_vars(ReloadRead(i)) /\ WF_vars(ReloadSwap(i))

Spec == Init /\ [][Next]_vars /\ Fairness

-----------------------------------------------------------------------------
(* Once the row stays as it is, replica i ends up answering by it, whatever  *)
(* calls and reloads were in flight (StartReloader: a toggle on one replica *)
(* propagates to the others).                                               *)
Agrees(i) ==
  \A r \in Row : <>[](row = r) => <>[](Enabled(i) <=> r # "off")
=============================================================================
