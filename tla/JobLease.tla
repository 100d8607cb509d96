------------------------------ MODULE JobLease ------------------------------
(***************************************************************************)
(* The lease row of job_locks (dbLocker), the instances whose gocron       *)
(* schedulers compete for it each time a scheduled job is due, and the run *)
(* that the winner makes (Scheduler.wrap).                                 *)
(*                                                                         *)
(* There is one row for all jobs.  gocron locks by the job's name, schedule*)
(* gives it none, and the default is the name of the task's function: the  *)
(* closure of wrap, whatever the job.                                      *)
(*                                                                         *)
(* There is no global clock: an instance reads its own, and expires_at is  *)
(* written from one clock and compared with another.  One action is one    *)
(* statement, or one step of the job's run.  Where Scheduler has the same  *)
(* name, this module takes another: a module can extend both.              *)
(***************************************************************************)
EXTENDS Naturals

CONSTANTS
  Server,       \* server processes; a restarted one is another
  Slot,         \* firings of the jobs' cron expressions, in order for each job
  JobOf,        \* JobOf[k]: the job that is due
  Due,          \* Due[k]: wall-clock time of slot k
  NoRow,        \* the row does not exist
  Period,       \* smallest distance between two slots of one job
  TTL,          \* dbLocker.ttl
  FireDelay,    \* from a slot's time to the time.Now() in Lock
  LockLatency,  \* from that time.Now() to the end of the UPDATE
  RunTime,      \* from there to the end of the job's run
  Skew,         \* between any two clocks
  MaxClock      \* bound on the clocks

ASSUME JobLeaseAssumption ==
  /\ Slot \subseteq Nat
  /\ Due \in [Slot -> Nat]
  /\ NoRow \notin Server \cup Nat
  /\ {Period, TTL, FireDelay, LockLatency, RunTime, Skew, MaxClock} \subseteq Nat
  /\ \A k \in Slot : Due[k] > 0
  /\ \A k, m \in Slot : k < m /\ JobOf[k] = JobOf[m] => Due[k] + Period <= Due[m]

(* The comment on dbLocker asks for Skew < TTL < Period and runs that are   *)
(* shorter than TTL; this is what the lease needs.                          *)
ASSUME TimingAssumption ==
  /\ FireDelay <= TTL
  /\ LockLatency + RunTime + Skew <= TTL
  /\ TTL + FireDelay < Period

VARIABLES
  clock,  \* clock[i]: what time.Now() returns on i
  lease,  \* expires_at of the row
  try     \* try[i][k]: what instance i does about slot k

leaseVars == <<clock, lease, try>>

TryPc == {"waiting", "ensure", "update", "claimed", "running",
          "done", "crashed", "refused", "failed"}

(* at: the time.Now() of Lock. *)
Try == [pc : TryPc, at : Nat]

LeaseTypeOK ==
  /\ clock \in [Server -> Nat]
  /\ lease \in Nat \cup {NoRow}
  /\ try \in [Server -> [Slot -> Try]]

LeaseInit ==
  /\ clock = [i \in Server |-> 0]
  /\ lease = NoRow
  /\ try = [i \in Server |-> [k \in Slot |-> [pc |-> "waiting", at |-> 0]]]

-----------------------------------------------------------------------------
AtStage(i, k, label) == try[i][k].pc = label

Goto(i, k, label) == try' = [try EXCEPT ![i][k].pc = label]

(* The clock of i may advance: it keeps within Skew of the others, and no   *)
(* statement and no run outlasts its bound.                                 *)
InTime(i) ==
  /\ \A j \in Server \ {i} : clock[i] < clock[j] + Skew
  /\ \A k \in Slot :
       /\ AtStage(i, k, "ensure") \/ AtStage(i, k, "update") =>
            clock[i] < try[i][k].at + LockLatency
       /\ AtStage(i, k, "claimed") \/ AtStage(i, k, "running") =>
            clock[i] < try[i][k].at + LockLatency + RunTime

Tick(i) ==
  /\ clock[i] < MaxClock
  /\ InTime(i)
  /\ clock' = [clock EXCEPT ![i] = @ + 1]
  /\ UNCHANGED <<lease, try>>

(* Variants named "...Bug" are not part of the specification: each is a      *)
(* slip of the code it stands before, kept to show which property sees it.  *)

(* gocron fires the job, once per slot, and Lock takes its time.Now().  An  *)
(* instance that is down, or too late, lets the slot pass.                  *)
FireSlot(i, k) ==
  /\ AtStage(i, k, "waiting")
  /\ Due[k] <= clock[i]
  /\ clock[i] <= Due[k] + FireDelay
  /\ try' = [try EXCEPT ![i][k] = [pc |-> "ensure", at |-> clock[i]]]
  /\ UNCHANGED <<clock, lease>>

(* Lock, INSERT ... ON CONFLICT DO NOTHING: an expired row (0, the epoch)   *)
(* if there is none.                                                        *)
Ensure(i, k) ==
  /\ AtStage(i, k, "ensure")
  /\ lease' = IF lease = NoRow THEN 0 ELSE lease
  /\ Goto(i, k, "update")
  /\ UNCHANGED clock

(* A lease that outlives the distance to the next slot. *)
ClaimLongBug(i, k, answered) ==
  /\ AtStage(i, k, "update")
  /\ lease < try[i][k].at
  /\ lease' = try[i][k].at + Period + FireDelay
  /\ Goto(i, k, IF answered THEN "claimed" ELSE "crashed")
  /\ UNCHANGED clock

(* Lock, UPDATE ... WHERE expires_at < now that affects the row.  The       *)
(* answer may be lost on its way back: the slot is taken and nobody runs.   *)
Claim(i, k, answered) ==
  /\ AtStage(i, k, "update")
  /\ lease < try[i][k].at
  /\ lease' = try[i][k].at + TTL
  /\ Goto(i, k, IF answered THEN "claimed" ELSE "crashed")
  /\ UNCHANGED clock

(* ... that affects none: errLockHeld, and gocron skips the run, though the *)
(* lease may be another job's.                                              *)
Refuse(i, k) ==
  /\ AtStage(i, k, "update")
  /\ lease >= try[i][k].at
  /\ Goto(i, k, "refused")
  /\ UNCHANGED <<clock, lease>>

(* Either statement returns an error, or the process dies in between: no    *)
(* run on this instance.                                                    *)
LockError(i, k) ==
  /\ AtStage(i, k, "ensure") \/ AtStage(i, k, "update")
  /\ Goto(i, k, "failed")
  /\ UNCHANGED <<clock, lease>>

(* wrap: the handler is allowed and runs ... *)
StartRun(i, k) ==
  /\ AtStage(i, k, "claimed")
  /\ Goto(i, k, "running")
  /\ UNCHANGED <<clock, lease>>

(* ... or its plugin is disabled and the run is skipped. *)
Skip(i, k) ==
  /\ AtStage(i, k, "claimed")
  /\ Goto(i, k, "done")
  /\ UNCHANGED <<clock, lease>>

(* The end of the run gives the lease back. *)
FinishUnlockBug(i, k) ==
  /\ AtStage(i, k, "running")
  /\ Goto(i, k, "done")
  /\ lease' = 0
  /\ UNCHANGED clock

(* The run ends, well or not (an error, a panic); the execution is recorded.*)
(* Unlock does nothing: the lease stays until it expires.                   *)
FinishRun(i, k) ==
  /\ AtStage(i, k, "running")
  /\ Goto(i, k, "done")
  /\ UNCHANGED <<clock, lease>>

(* The process dies with the slot taken, before or during the run. *)
Crash(i, k) ==
  /\ AtStage(i, k, "claimed") \/ AtStage(i, k, "running")
  /\ Goto(i, k, "crashed")
  /\ UNCHANGED <<clock, lease>>

Lock(i, k) ==
  \/ Ensure(i, k)
  \/ \E answered \in BOOLEAN : Claim(i, k, answered)
  \/ Refuse(i, k)
  \/ LockError(i, k)

wrapSlot(i, k) == StartRun(i, k) \/ Skip(i, k) \/ FinishRun(i, k) \/ Crash(i, k)

LeaseNext ==
  \E i \in Server :
    \/ Tick(i)
    \/ \E k \in Slot : FireSlot(i, k) \/ Lock(i, k) \/ wrapSlot(i, k)

LeaseSpec == LeaseInit /\ [][LeaseNext]_leaseVars

-----------------------------------------------------------------------------
Took(i, k) == try[i][k].pc \in {"claimed", "running", "done", "crashed"}

Holds(i, k) == try[i][k].pc \in {"claimed", "running"}

(* No slot is taken twice, wherever the instances' clocks stand ("never     *)
(* double-runs", dbLocker).                                                 *)
OnePerSlot ==
  \A i, j \in Server, k \in Slot : Took(i, k) /\ Took(j, k) => i = j

(* Two runs never overlap, be they of one job or of two. *)
NoOverlap ==
  \A i, j \in Server, k, m \in Slot :
    AtStage(i, k, "running") /\ AtStage(j, m, "running") => i = j /\ k = m

(* What slot m's lease can reach: an attempt at slot k that is due before   *)
(* the lease ends, or a little earlier than m and answered late.            *)
Near(m, k) ==
  /\ Due[k] <= Due[m] + FireDelay + TTL
  /\ Due[m] <= Due[k] + FireDelay + LockLatency + Skew

(* A lease never reaches another firing of its own job: an instance is      *)
(* turned away from a slot only because that slot has been taken, or one of *)
(* another job that was due within a ttl of it.                             *)
RefusedOnlyNearby ==
  \A i \in Server, k \in Slot :
    AtStage(i, k, "refused") =>
      \E j \in Server, m \in Slot :
        Took(j, m) /\ Near(m, k) /\ (m = k \/ JobOf[m] # JobOf[k])

(* What a row for each task name (model/joblock.go) would give besides: the *)
(* slot itself has been taken.  It does not hold: of two jobs that are due  *)
(* together one is skipped, by every instance.                              *)
RefusedOnlyIfTaken ==
  \A i \in Server, k \in Slot :
    AtStage(i, k, "refused") => \E j \in Server : Took(j, k)

-----------------------------------------------------------------------------
(* The lease implements JobSlots. *)
takers == [k \in Slot |-> {i \in Server : Took(i, k)}]

active == {k \in Slot : \E i \in Server : AtStage(i, k, "running")}

Slots == INSTANCE JobSlots WITH
  Instance <- Server, Slot <- Slot, JobOf <- JobOf, takers <- takers, active <- active

(* Every behaviour of the lease is one that JobSlots allows: the slots of a *)
(* job are taken once, in order, and run one at a time.                     *)
ImplementsJobSlots == Slots!Spec
=============================================================================
