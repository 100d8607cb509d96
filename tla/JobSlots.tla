------------------------------ MODULE JobSlots ------------------------------
(***************************************************************************)
(* What the distributed locker promises of each scheduled job, however     *)
(* many instances of the server run: a firing of its cron expression (a    *)
(* slot) is taken by one instance at most, its slots are taken in order,   *)
(* and it never runs twice at the same time.                               *)
(***************************************************************************)
EXTENDS Naturals

CONSTANTS
  Instance,
  Slot,   \* firings, numbered in order for each job
  JobOf   \* JobOf[k]: whose firing slot k is

VARIABLES
  takers,  \* takers[k]: who took slot k
  active   \* the slots whose run is in progress

vars == <<takers, active>>

Init ==
  /\ takers = [k \in Slot |-> {}]
  /\ active = {}

Take(k, i) ==
  /\ \A m \in Slot : JobOf[m] = JobOf[k] /\ m >= k => takers[m] = {}
  /\ takers' = [takers EXCEPT ![k] = {i}]
  /\ UNCHANGED active

Run(k) ==
  /\ takers[k] # {}
  /\ \A m \in active : JobOf[m] # JobOf[k]
  /\ active' = active \cup {k}
  /\ UNCHANGED takers

Stop(k) ==
  /\ k \in active
  /\ active' = active \ {k}
  /\ UNCHANGED takers

Next == \E k \in Slot : (\E i \in Instance : Take(k, i)) \/ Run(k) \/ Stop(k)

Spec == Init /\ [][Next]_vars
=============================================================================
