----------------------------- MODULE Scheduler -----------------------------
(***************************************************************************)
(* The rows of scheduled_jobs, the calls of JobService that change them,   *)
(* and each instance's in-memory schedule: Scheduler.jobs (name -> gocron  *)
(* id) and the jobs gocron runs.  A call writes the row in one statement   *)
(* and changes the schedule of its own instance in several more steps, on  *)
(* a map that has no lock.  Composed with PluginState, whose map decides   *)
(* at fire time whether a handler may run.                                 *)
(***************************************************************************)
EXTENDS Naturals, FiniteSets

CONSTANTS
  Instance,       \* the replicas whose schedulers are modelled
  Replica, Toggle, Reloading,
  Job,            \* primary keys of scheduled_jobs
  Name, Handler,
  PluginHandler,  \* the handlers that belong to the plugin
  Builtin,        \* the names syncJobs wants to exist
  Gid,            \* gocron's ids; one is used again only when forgotten
  Req,            \* calls of JobService in flight
  MaxLoose,       \* bound: calls begin while at most this many names are loose
  None

ASSUME SchedulerAssumption ==
  /\ Instance \subseteq Replica
  /\ Reloading \in BOOLEAN
  /\ PluginHandler \subseteq Handler
  /\ Builtin \subseteq Name
  /\ None \notin Job \cup Name \cup Gid
  /\ IsFiniteSet(Job) /\ IsFiniteSet(Gid)
  /\ Cardinality(Gid) >= Cardinality(Job)

VARIABLES
  up,     \* the instances that serve and schedule
  rows,   \* scheduled_jobs: None before the row exists
  jobs,   \* jobs[i]: Scheduler.jobs, None for an absent key
  live,   \* live[i]: the jobs gocron holds, by id
  req,    \* req[r]: progress of a call
  runs,   \* runs[i]: handlers in progress on i
  loose,  \* history: loose[i], names whose schedule on i need not follow
          \* the rows: calls on them overlapped, broke off, or ran elsewhere
  row, disabled, snapshot, toggle

Plugin == INSTANCE PluginState

own == <<up, rows, jobs, live, req, runs, loose>>

pluginVars == <<row, disabled, snapshot, toggle>>

vars == <<own, pluginVars>>

Asked == [name : Name, handler : Handler, enabled : BOOLEAN]

Row == [name : Name, handler : Handler, enabled : BOOLEAN, deleted : BOOLEAN]

Entry == [id : Job, name : Name, handler : Handler]

Pc == {"create", "update", "reread", "delete",
       "oldstop", "olddrop", "stop", "drop", "new", "set"}

Idle == [pc |-> "idle"]

(* id: the row, None until CreateJob has one.  before: the name First found. *)
(* job: what the request asks for, then the row as read back.  gid: NewJob's.*)
Active ==
  [pc : Pc, at : Instance, id : Job \cup {None}, before : Name \cup {None},
   job : Asked \cup {None}, gid : Gid \cup {None}]

Call == {Idle} \cup Active

ASSUME NoneAssumption == None \notin Asked \cup Row \cup Entry

TypeOK ==
  /\ up \subseteq Instance
  /\ rows \in [Job -> Row \cup {None}]
  /\ jobs \in [Instance -> [Name -> Gid \cup {None}]]
  /\ live \in [Instance -> [Gid -> Entry \cup {None}]]
  /\ req \in [Req -> Call]
  /\ runs \in [Instance -> SUBSET Handler]
  /\ loose \in [Instance -> SUBSET Name]
  /\ Plugin!TypeOK

(* The unique index on names, which knows nothing of deleted_at. *)
NameFree(n, j) == \A k \in Job \ {j} : rows[k] # None => rows[k].name # n

(* The table as some earlier run of the server left it, with nothing        *)
(* deleted yet.                                                             *)
Init ==
  /\ up = {}
  /\ rows \in [Job -> Row \cup {None}]
  /\ \A j \in Job : rows[j] # None => ~rows[j].deleted /\ NameFree(rows[j].name, j)
  /\ jobs = [i \in Instance |-> [n \in Name |-> None]]
  /\ live = [i \in Instance |-> [g \in Gid |-> None]]
  /\ req = [r \in Req |-> Idle]
  /\ runs = [i \in Instance |-> {}]
  /\ loose = [i \in Instance |-> {}]
  /\ Plugin!Init

-----------------------------------------------------------------------------
Live(j) == rows[j] # None /\ ~rows[j].deleted

(* IsJobHandlerEnabled, as instance i answers it. *)
HandlerEnabled(i, h) == h \in PluginHandler => Plugin!Enabled(i)

(* The database never gives a primary key twice. *)
Fresh(j) ==
  /\ rows[j] = None
  /\ \A r \in Req : req[r] # Idle => req[r].id # j
  /\ \A i \in Instance, g \in Gid : live[i][g] # None => live[i][g].id # j

Names(j) == IF rows[j] = None THEN {} ELSE {rows[j].name}

(* The names whose schedule the call of r has changed or may still change. *)
Touched(r) ==
  ({req[r].before} \cup (IF req[r].job = None THEN {} ELSE {req[r].job.name})
     \cup (IF req[r].id = None THEN {} ELSE Names(req[r].id))) \ {None}

Wrote(r) == req[r] # Idle /\ req[r].pc \notin {"create", "update", "delete"}

Crossing(r) ==
  {q \in Req \ {r} : /\ req[q] # Idle
                     /\ \/ req[r].id # None /\ req[q].id = req[r].id
                        \/ Touched(q) \cap Touched(r) # {}}

(* The statement of r that changes a row: its names come loose on the other *)
(* instances, which are not told, and on its own if calls overlap.          *)
Loosened(r) ==
  LET crossed == UNION {Touched(q) : q \in Crossing(r)} IN
  [i \in Instance |->
     IF i # req[r].at \/ Crossing(r) # {}
       THEN loose[i] \cup Touched(r) \cup crossed
       ELSE loose[i]]

Advance(r, pc) == req' = [req EXCEPT ![r].pc = pc]

(* On to the next step, or the answer. *)
Continue(r, next) ==
  IF next = "return" THEN req' = [req EXCEPT ![r] = Idle] ELSE Advance(r, next)

Unused(i) ==
  {g \in Gid : /\ live[i][g] = None
               /\ \A n \in Name : jobs[i][n] # g
               /\ \A r \in Req : req[r] # Idle => req[r].gid # g}

Serving == up \cup (Replica \ Instance)

-----------------------------------------------------------------------------
(* JobService.validate.  No property depends on its answer, so it is taken  *)
(* together with the read that comes before it.                             *)
Valid(i, job) == HandlerEnabled(i, job.handler)

Begin(r, i, pc, id, before, job) ==
  /\ req[r] = Idle
  /\ i \in up
  /\ Cardinality(loose[i]) <= MaxLoose
  /\ req' = [req EXCEPT ![r] =
       [pc |-> pc, at |-> i, id |-> id, before |-> before, job |-> job, gid |-> None]]
  /\ UNCHANGED <<up, rows, jobs, live, runs, loose, pluginVars>>

CreateFind(r, i, job) ==
  /\ Valid(i, job)
  /\ Begin(r, i, "create", None, None, job)

(* CreateJob, the INSERT.  Enabled has a column default of true, which wins *)
(* over a zero value in a struct insert (see plugin/state.go:174-176): the  *)
(* row is enabled whatever was asked for, and gorm sets the struct, too.    *)
CreateRow(r, j) ==
  LET c == req[r]
      job == [c.job EXCEPT !.enabled = TRUE] IN
  /\ c.pc = "create"
  /\ Fresh(j)
  /\ NameFree(c.job.name, j)
  /\ rows' = [rows EXCEPT ![j] =
       [name |-> job.name, handler |-> job.handler, enabled |-> TRUE, deleted |-> FALSE]]
  /\ req' = [req EXCEPT ![r].pc = "stop", ![r].id = j, ![r].job = job]
  /\ loose' = Loosened(r)
  /\ UNCHANGED <<up, jobs, live, runs, pluginVars>>

(* UpdateJob, First (before) and validate. *)
UpdateFind(r, i, j, job) ==
  /\ Live(j)
  /\ Valid(i, job)
  /\ Begin(r, i, "update", j, rows[j].name, job)

(* UpdateJob, Updates: none if the row is deleted by now, which is no error.*)
UpdateRow(r) ==
  LET c == req[r] IN
  /\ c.pc = "update"
  /\ Live(c.id) => NameFree(c.job.name, c.id)
  /\ rows' = IF Live(c.id)
               THEN [rows EXCEPT ![c.id] =
                      [name |-> c.job.name, handler |-> c.job.handler,
                       enabled |-> c.job.enabled, deleted |-> FALSE]]
               ELSE rows
  /\ Advance(r, "reread")
  /\ loose' = Loosened(r)
  /\ UNCHANGED <<up, jobs, live, runs, pluginVars>>

(* UpdateJob, the second First: the row as it is now.  (If it is gone the   *)
(* call returns: Abort.)                                                    *)
Reread(r) ==
  LET c == req[r] IN
  /\ c.pc = "reread"
  /\ Live(c.id)
  /\ req' = [req EXCEPT ![r].pc = "oldstop", ![r].job =
       [name |-> rows[c.id].name, handler |-> rows[c.id].handler,
        enabled |-> rows[c.id].enabled]]
  /\ UNCHANGED <<up, rows, jobs, live, runs, loose, pluginVars>>

DeleteFind(r, i, j) ==
  /\ Live(j)
  /\ Begin(r, i, "delete", j, rows[j].name, None)

(* DeleteJob, the soft delete; it is no error if there is nothing to delete.*)
DeleteRow(r) ==
  LET c == req[r] IN
  /\ c.pc = "delete"
  /\ rows' = IF rows[c.id] = None THEN rows ELSE [rows EXCEPT ![c.id].deleted = TRUE]
  /\ Advance(r, "oldstop")
  /\ loose' = Loosened(r)
  /\ UNCHANGED <<up, jobs, live, runs, pluginVars>>

-----------------------------------------------------------------------------
(* Variants named "...Bug" are not part of the specification: each is a      *)
(* slip of the code it stands before, kept to show which property sees it.  *)

(* Only the key is deleted; gocron keeps the job. *)
StopJobBug(r, name, drop, absent) ==
  LET g == jobs[req[r].at][name] IN
  /\ Continue(r, IF g = None THEN absent ELSE drop)
  /\ UNCHANGED <<up, rows, jobs, live, runs, loose, pluginVars>>

(* Remove, and what schedule does first: look the name up and take the job  *)
(* away from gocron ...                                                     *)
StopJob(r, name, drop, absent) ==
  LET i == req[r].at
      g == jobs[i][name] IN
  /\ live' = IF g = None THEN live ELSE [live EXCEPT ![i][g] = None]
  /\ Continue(r, IF g = None THEN absent ELSE drop)
  /\ UNCHANGED <<up, rows, jobs, runs, loose, pluginVars>>

(* ... then delete the key. *)
DropKey(r, name, next) ==
  /\ jobs' = [jobs EXCEPT ![req[r].at][name] = None]
  /\ Continue(r, next)
  /\ UNCHANGED <<up, rows, live, runs, loose, pluginVars>>

(* UpdateJob forgets that the name may have changed. *)
RemoveBeforeBug(r) ==
  LET c == req[r] IN
  \/ /\ c.pc = "oldstop"
     /\ IF c.job = None THEN StopJob(r, c.before, "olddrop", "return")
        ELSE /\ Advance(r, "stop")
             /\ UNCHANGED <<up, rows, jobs, live, runs, loose, pluginVars>>
  \/ c.pc = "olddrop" /\ DropKey(r, c.before, "return")

(* UpdateJob and DeleteJob: Remove(before.Name). *)
RemoveBefore(r) ==
  LET c == req[r]
      next == IF c.job = None THEN "return" ELSE "stop" IN
  \/ c.pc = "oldstop" /\ StopJob(r, c.before, "olddrop", next)
  \/ c.pc = "olddrop" /\ DropKey(r, c.before, next)

(* Reschedule: Remove, or schedule up to NewJob. *)
Replace(r) ==
  LET c == req[r]
      next == IF c.job.enabled THEN "new" ELSE "return" IN
  \/ c.pc = "stop" /\ StopJob(r, c.job.name, "drop", next)
  \/ c.pc = "drop" /\ DropKey(r, c.job.name, next)

(* schedule, NewJob. *)
NewJob(r) ==
  LET c == req[r]
      g == CHOOSE x \in Unused(c.at) : TRUE IN
  /\ c.pc = "new"
  /\ Unused(c.at) # {}
  /\ live' = [live EXCEPT ![c.at][g] =
       [id |-> c.id, name |-> c.job.name, handler |-> c.job.handler]]
  /\ req' = [req EXCEPT ![r].pc = "set", ![r].gid = g]
  /\ UNCHANGED <<up, rows, jobs, runs, loose, pluginVars>>

(* schedule, the key of the new job. *)
SetKey(r) ==
  LET c == req[r] IN
  /\ c.pc = "set"
  /\ jobs' = [jobs EXCEPT ![c.at][c.job.name] = c.gid]
  /\ Continue(r, "return")
  /\ UNCHANGED <<up, rows, live, runs, loose, pluginVars>>

(* A call returns early: the name is taken, the row is gone, a statement or *)
(* NewJob fails, ctx is cancelled.                                          *)
Abort(r) ==
  LET i == req[r].at IN
  /\ req[r] # Idle
  /\ Continue(r, "return")
  /\ loose' = IF Wrote(r) THEN [loose EXCEPT ![i] = @ \cup Touched(r)] ELSE loose
  /\ UNCHANGED <<up, rows, jobs, live, runs, pluginVars>>

CreateJob(r) ==
  \/ \E i \in Instance, job \in Asked : CreateFind(r, i, job)
  \/ \E j \in Job : CreateRow(r, j)

UpdateJob(r) ==
  \/ \E i \in Instance, j \in Job, job \in Asked : UpdateFind(r, i, j, job)
  \/ UpdateRow(r)
  \/ Reread(r)

DeleteJob(r) ==
  \/ \E i \in Instance, j \in Job : DeleteFind(r, i, j)
  \/ DeleteRow(r)

Reschedule(r) == Replace(r) \/ NewJob(r) \/ SetKey(r)

-----------------------------------------------------------------------------
(* wrap without the gate: the plugin was looked at when the job was made.   *)
wrapBug(i, h) ==
  /\ runs' = [runs EXCEPT ![i] = @ \cup {h}]
  /\ UNCHANGED <<up, rows, jobs, live, req, loose, pluginVars>>

(* wrap: the gate, then the handler runs. *)
wrap(i, h) ==
  /\ HandlerEnabled(i, h)
  /\ runs' = [runs EXCEPT ![i] = @ \cup {h}]
  /\ UNCHANGED <<up, rows, jobs, live, req, loose, pluginVars>>

(* gocron fires a job it holds (and i gets its lease, see JobLease). *)
Fire(i, g) ==
  /\ live[i][g] # None
  /\ wrap(i, live[i][g].handler)

(* RunJobNow: no lease, and the row need not be enabled. *)
RunNow(i, j) ==
  /\ i \in up
  /\ Live(j)
  /\ wrap(i, rows[j].handler)

(* The runs of h on i end; what they record (job_executions, last_run_at)   *)
(* is read by nobody here.                                                  *)
Finish(i, h) ==
  /\ h \in runs[i]
  /\ runs' = [runs EXCEPT ![i] = @ \ {h}]
  /\ UNCHANGED <<up, rows, jobs, live, req, loose, pluginVars>>

(* Shutdown or crash: schedule, runs and calls of i are gone. *)
Stop(i) ==
  /\ i \in up
  /\ up' = up \ {i}
  /\ jobs' = [jobs EXCEPT ![i] = [n \in Name |-> None]]
  /\ live' = [live EXCEPT ![i] = [g \in Gid |-> None]]
  /\ runs' = [runs EXCEPT ![i] = {}]
  /\ req' = [r \in Req |-> IF req[r] # Idle /\ req[r].at = i THEN Idle ELSE req[r]]
  /\ UNCHANGED <<rows, loose>>
  /\ Plugin!NewState(i)

HasRow(n) == \E j \in Job : Live(j) /\ rows[j].name = n

(* Seed at the start of i, syncJobs: a built-in job that is not there is    *)
(* inserted, which fails if a deleted row has its name.                     *)
syncJobs(i, n, j, h) ==
  /\ i \notin up
  /\ ~HasRow(n)
  /\ Fresh(j)
  /\ NameFree(n, j)
  /\ rows' = [rows EXCEPT ![j] =
       [name |-> n, handler |-> h, enabled |-> TRUE, deleted |-> FALSE]]
  /\ loose' = [k \in Instance |-> loose[k] \cup {n}]
  /\ UNCHANGED <<up, jobs, live, req, runs, pluginVars>>

(* Then the plugins' state is loaded and Start schedules the enabled rows.  *)
Start(i) ==
  LET on == {j \in Job : Live(j) /\ rows[j].enabled}
      gid == CHOOSE f \in [on -> Gid] : \A j, k \in on : f[j] = f[k] => j = k IN
  /\ i \notin up
  /\ \A n \in Builtin : HasRow(n)
  /\ up' = up \cup {i}
  /\ live' = [live EXCEPT ![i] = [g \in Gid |->
       IF \E j \in on : gid[j] = g
         THEN LET j == CHOOSE k \in on : gid[k] = g IN
              [id |-> j, name |-> rows[j].name, handler |-> rows[j].handler]
         ELSE None]]
  /\ jobs' = [jobs EXCEPT ![i] = [n \in Name |->
       IF \E j \in on : rows[j].name = n
         THEN gid[CHOOSE j \in on : rows[j].name = n] ELSE None]]
  /\ loose' = [loose EXCEPT ![i] = {}]
  /\ UNCHANGED <<rows, req, runs>>
  /\ Plugin!NewState(i)

-----------------------------------------------------------------------------
(* teardownData of the plugin: its rows are deleted for good, whatever any  *)
(* instance has scheduled.  (Its row of plugin_states is Plugin!Purge.)     *)
Purge ==
  LET purged == {j \in Job : rows[j] # None /\ rows[j].handler \in PluginHandler} IN
  /\ purged # {}
  /\ up # {}
  /\ rows' = [j \in Job |-> IF j \in purged THEN None ELSE rows[j]]
  /\ loose' = [i \in Instance |-> loose[i] \cup UNION {Names(j) : j \in purged}]
  /\ UNCHANGED <<up, jobs, live, req, runs, pluginVars>>

JobService(r) ==
  \/ CreateJob(r)
  \/ UpdateJob(r)
  \/ DeleteJob(r)
  \/ RemoveBefore(r)
  \/ Reschedule(r)
  \/ Abort(r)

Runner(i) ==
  \/ \E g \in Gid : Fire(i, g)
  \/ \E j \in Job : RunNow(i, j)
  \/ \E h \in Handler : Finish(i, h)

Process(i) ==
  \/ Stop(i)
  \/ \E n \in Builtin, j \in Job, h \in Handler \ PluginHandler : syncJobs(i, n, j, h)
  \/ Start(i)

(* The plugin's side: calls and reloads happen where a replica serves. *)
SetEnabled(t) ==
  \/ \E i \in Serving, to \in {"on", "off"} : Plugin!SetFind(t, i, to) /\ UNCHANGED own
  \/ Plugin!SetRow(t) /\ UNCHANGED own
  \/ Plugin!SetMap(t) /\ UNCHANGED own
  \/ Plugin!SetAbort(t) /\ UNCHANGED own

ReloadRead(i) == i \in Serving /\ Plugin!ReloadRead(i) /\ UNCHANGED own

ReloadSwap(i) == i \in Serving /\ Plugin!ReloadSwap(i) /\ UNCHANGED own

Next ==
  \/ \E r \in Req : JobService(r)
  \/ \E i \in Instance : Runner(i) \/ Process(i)
  \/ \E t \in Toggle : SetEnabled(t)
  \/ \E i \in Replica : ReloadRead(i) \/ ReloadSwap(i)
  \/ \E i \in Replica \ Instance : Plugin!NewState(i) /\ UNCHANGED own
  \/ Purge
  \/ Plugin!Purge /\ UNCHANGED own

(* Reloads succeed in the end while a replica serves; runs end. *)
Fairness ==
  /\ \A i \in Replica : WF_vars(ReloadRead(i)) /\ WF_vars(ReloadSwap(i))
  /\ \A i \in Instance, h \in Handler : WF_vars(Finish(i, h))

Spec == Init /\ [][Next]_vars /\ Fairness

-----------------------------------------------------------------------------
(* The calls on instance i that are past their write and still changing the *)
(* schedule of n.                                                           *)
Changing(i, n) ==
  \E r \in Req : req[r] # Idle /\ req[r].at = i /\ Wrote(r) /\ n \in Touched(r)

(* The schedule of an instance is the enabled rows, name by name - entry,   *)
(* row and handler - unless a call is at work on the name, or calls on it   *)
(* overlapped, broke off, or ran on another instance since this one started *)
(* (Reschedule: "applies the current DB state of a job").                   *)
ScheduleFollowsRows ==
  \A i \in up : \A n \in Name \ loose[i] :
    \/ Changing(i, n)
    \/ LET on == {j \in Job : Live(j) /\ rows[j].enabled /\ rows[j].name = n} IN
       IF on = {} THEN jobs[i][n] = None
       ELSE /\ jobs[i][n] # None
            /\ \E j \in on : live[i][jobs[i][n]] =
                 [id |-> j, name |-> n, handler |-> rows[j].handler]

(* gocron never fires a job that the scheduler has lost track of, and which *)
(* Remove could therefore never stop: every job it holds is the one stored  *)
(* under its name, or about to be, with the same exceptions.                *)
NoOrphanJob ==
  \A i \in up, g \in Gid :
    live[i][g] # None =>
      LET n == live[i][g].name IN
      \/ jobs[i][n] = g
      \/ \E r \in Req :
           req[r] # Idle /\ req[r].at = i /\ req[r].pc = "set" /\ req[r].gid = g
      \/ n \in loose[i]

(* A start finds nothing in the way of the built-in jobs ("idempotently     *)
(* inserts the built-in scheduled jobs ... Runs on every startup").         *)
syncJobsSucceeds ==
  \A i \in Instance \ up, n \in Builtin :
    HasRow(n) \/ \A j \in Job : rows[j] = None \/ rows[j].name # n

(* Once the plugin stays disabled its handlers come to rest everywhere,     *)
(* whether scheduled or run by hand ("its scheduled jobs are skipped").      *)
DisabledPluginRests ==
  <>[](row = "off") => <>[](\A i \in Instance : runs[i] \cap PluginHandler = {})

(* An instance that keeps serving ends up answering by the plugin's row,    *)
(* once that stays as it is, whatever calls and reloads were in flight.     *)
ServingAgrees ==
  \A i \in Replica : <>[](i \in Serving) => Plugin!Agrees(i)
=============================================================================
