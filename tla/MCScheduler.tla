---------------------------- MODULE MCScheduler ----------------------------
(* Instances of Scheduler for TLC. *)
EXTENDS Scheduler

(* No step of the schedule and none of its invariants looks at runs. *)
View == <<up, rows, jobs, live, req, loose, pluginVars>>
=============================================================================
