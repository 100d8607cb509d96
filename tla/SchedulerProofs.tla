--------------------------- MODULE SchedulerProofs ---------------------------
(***************************************************************************)
(* Proofs about Scheduler, for any number of instances, calls, jobs, names *)
(* and gocron ids: what an instance fires is what the rows say, and nothing *)
(* it fires has been lost track of.  Then about JobLease, for any number   *)
(* of processes and slots, any cron times Period apart and any bounds that *)
(* satisfy TimingAssumption: who runs what is fired.                       *)
(***************************************************************************)
EXTENDS Scheduler, JobLease, FiniteSetTheorems, TLAPS

(* The calls whose row is written and whose schedule is to follow. *)
Moved == {"oldstop", "olddrop", "stop", "drop", "new", "set"}

(* What a call has in hand at each of its steps. *)
Shape(r) ==
  LET c == req[r] IN
  /\ c.at \in up
  /\ c.pc = "create" => c.id = None /\ c.before = None
  /\ c.pc # "create" => c.id \in Job
  /\ c.pc \in {"update", "delete", "reread", "oldstop", "olddrop"} => c.before \in Name
  /\ c.pc \in {"create", "update", "reread", "stop", "drop", "new", "set"} => c.job \in Asked
  /\ c.pc = "delete" => c.job = None
  /\ c.pc \in {"new", "set"} => c.job.enabled
  /\ c.pc = "set" => c.gid \in Gid
  /\ c.pc # "set" => c.gid = None

ShapeInv == \A r \in Req : req[r] # Idle => Shape(r)

(* No two rows, deleted or not, have the same name. *)
NamesInv == \A j \in Job : rows[j] # None => NameFree(rows[j].name, j)

Setting(r, i) == req[r] # Idle /\ req[r].at = i /\ req[r].pc = "set"

(* The map and gocron agree on whose job an id is, and an id between NewJob *)
(* and the map is its call's alone.                                         *)
BookInv ==
  \A i \in Instance :
    /\ \A n \in Name : jobs[i][n] # None =>
         /\ live[i][jobs[i][n]] # None => live[i][jobs[i][n]].name = n
         /\ \A m \in Name : jobs[i][m] = jobs[i][n] => m = n
    /\ \A r \in Req : Setting(r, i) =>
         /\ live[i][req[r].gid] =
              [id |-> req[r].id, name |-> req[r].job.name, handler |-> req[r].job.handler]
         /\ \A n \in Name : jobs[i][n] # req[r].gid
         /\ \A q \in Req : Setting(q, i) /\ req[q].gid = req[r].gid => q = r

(* What a call on instance i knows of the rows, by the names that are not   *)
(* loose there: before it writes, its row is as it found it; ...            *)
JobNames(r) == IF req[r].job = None THEN {} ELSE {req[r].job.name}

Found(r) ==
  LET c == req[r] IN
  c.pc \in {"update", "delete"} /\ c.before \notin loose[c.at] =>
    Live(c.id) /\ rows[c.id].name = c.before

(* ... after that nobody else has the name it had; ...                      *)
Left(r) ==
  LET c == req[r] IN
  c.pc \in Moved \cup {"reread"} /\ c.before # None /\ c.before \notin loose[c.at] =>
    c.before \in JobNames(r) \/ ~HasRow(c.before)

(* ... its row is what it wrote, and what it has read back.                 *)
Rewritten(r) ==
  LET c == req[r] IN
  c.pc = "reread" /\ Live(c.id) =>
    Touched(r) \subseteq loose[c.at] \/ rows[c.id].name = c.job.name

Written(r) ==
  LET c == req[r] IN
  c.pc \in Moved /\ c.job # None =>
    \/ c.job.name \in loose[c.at]
    \/ rows[c.id] = [name |-> c.job.name, handler |-> c.job.handler,
                     enabled |-> c.job.enabled, deleted |-> FALSE]

Known(r) ==
  LET c == req[r] IN
  c.id # None => Names(c.id) \subseteq loose[c.at] \cup {c.before} \cup JobNames(r)

RowsInv ==
  \A r \in Req : req[r] # Idle =>
    Found(r) /\ Left(r) /\ Rewritten(r) /\ Written(r) /\ Known(r)

(* Only one call at a time changes the schedule of a name that is not loose.*)
At(r, i, n) == req[r] # Idle /\ req[r].at = i /\ Wrote(r) /\ n \in Touched(r)

AloneInv ==
  \A i \in Instance : \A n \in Name \ loose[i] : \A q, r \in Req :
    At(q, i, n) /\ At(r, i, n) => q = r

(* gocron has let go of what is stored under n. *)
Stopped(i, n) == jobs[i][n] = None \/ live[i][jobs[i][n]] = None

(* What a call on i has done so far to the names that are not loose there.  *)
DoneBefore(r) ==
  LET c == req[r] IN
  c.before # None /\ c.before \notin loose[c.at] =>
    /\ c.pc = "olddrop" => Stopped(c.at, c.before)
    /\ c.pc \in {"stop", "drop", "new", "set"} =>
         c.before \in JobNames(r) \/ jobs[c.at][c.before] = None

DoneJob(r) ==
  LET c == req[r] IN
  c.job # None /\ c.job.name \notin loose[c.at] =>
    /\ c.pc = "drop" => Stopped(c.at, c.job.name)
    /\ c.pc \in {"new", "set"} => jobs[c.at][c.job.name] = None

DoneInv == \A r \in Req : req[r] # Idle => DoneBefore(r) /\ DoneJob(r)

(* A row is to be scheduled under n; the schedule of i has n as the rows do. *)
On(j, n) == Live(j) /\ rows[j].enabled /\ rows[j].name = n

Follows(i, n) ==
  \/ jobs[i][n] = None /\ \A j \in Job : ~On(j, n)
  \/ /\ jobs[i][n] # None
     /\ \E j \in Job : /\ On(j, n)
                       /\ live[i][jobs[i][n]] = [id |-> j, name |-> n, handler |-> rows[j].handler]

FollowInv ==
  \A i \in up : \A n \in Name \ loose[i] : (\E r \in Req : At(r, i, n)) \/ Follows(i, n)

OrphanInv ==
  \A i \in up, g \in Gid : live[i][g] # None =>
    \/ jobs[i][live[i][g].name] = g
    \/ \E r \in Req : Setting(r, i) /\ req[r].gid = g
    \/ live[i][g].name \in loose[i]

CoreType ==
  /\ up \in SUBSET Instance
  /\ rows \in [Job -> Row \cup {None}]
  /\ jobs \in [Instance -> [Name -> Gid \cup {None}]]
  /\ live \in [Instance -> [Gid -> Entry \cup {None}]]
  /\ req \in [Req -> Call]
  /\ loose \in [Instance -> SUBSET Name]

IInv ==
  /\ CoreType
  /\ ShapeInv
  /\ NamesInv
  /\ BookInv
  /\ RowsInv
  /\ AloneInv
  /\ DoneInv
  /\ FollowInv
  /\ OrphanInv
-----------------------------------------------------------------------------
LEMMA NoNone == None \notin Job /\ None \notin Name /\ None \notin Gid
                /\ None \notin Asked /\ None \notin Row /\ None \notin Entry
  BY SchedulerAssumption, NoneAssumption

LEMMA ActiveType ==
  ASSUME NEW c \in Active
  PROVE  /\ c # Idle
         /\ c.pc \in Pc /\ c.at \in Instance /\ c.id \in Job \cup {None}
         /\ c.before \in Name \cup {None} /\ c.job \in Asked \cup {None}
         /\ c.gid \in Gid \cup {None}
<1>1. /\ c.pc \in Pc /\ c.at \in Instance /\ c.id \in Job \cup {None}
      /\ c.before \in Name \cup {None} /\ c.job \in Asked \cup {None}
      /\ c.gid \in Gid \cup {None}
  BY DEF Active
<1>2. Idle.pc = "idle" /\ "idle" \notin Pc
  BY DEF Idle, Pc
<1> QED
  BY <1>1, <1>2

LEMMA CallType ==
  ASSUME CoreType, NEW r \in Req, req[r] # Idle
  PROVE  /\ req[r] \in Active
         /\ req[r].pc \in Pc /\ req[r].at \in Instance /\ req[r].id \in Job \cup {None}
         /\ req[r].before \in Name \cup {None} /\ req[r].job \in Asked \cup {None}
         /\ req[r].gid \in Gid \cup {None}
<1>1. req[r] \in Active
  BY DEF CoreType, Call
<1> QED
  BY <1>1, ActiveType

(* The step of one call. *)
LEMMA Advanced ==
  ASSUME CoreType, NEW r \in Req, req[r] # Idle, NEW pc \in Pc, Advance(r, pc)
  PROVE  /\ req' \in [Req -> Call]
         /\ req'[r] \in Active /\ req'[r] # Idle
         /\ req'[r].pc = pc /\ req'[r].at = req[r].at /\ req'[r].id = req[r].id
         /\ req'[r].before = req[r].before /\ req'[r].job = req[r].job
         /\ req'[r].gid = req[r].gid
         /\ \A q \in Req \ {r} : req'[q] = req[q]
<1> DEFINE c == [req[r] EXCEPT !.pc = pc]
<1>1. req[r] \in Active /\ req \in [Req -> Call]
  BY CallType DEF CoreType
<1>2. req' = [req EXCEPT ![r] = c]
  BY DEF Advance
<1>3. /\ c \in Active
      /\ c.pc = pc /\ c.at = req[r].at /\ c.id = req[r].id
      /\ c.before = req[r].before /\ c.job = req[r].job /\ c.gid = req[r].gid
  BY <1>1 DEF Active
<1> HIDE DEF c
<1>4. c # Idle /\ c \in Call
  BY <1>3, ActiveType DEF Call
<1> QED
  BY <1>1, <1>2, <1>3, <1>4

LEMMA Returned ==
  ASSUME CoreType, NEW r \in Req, Continue(r, "return")
  PROVE  /\ req' \in [Req -> Call] /\ req'[r] = Idle
         /\ \A q \in Req \ {r} : req'[q] = req[q]
<1>1. req' = [req EXCEPT ![r] = Idle] /\ Idle \in Call
  BY DEF Continue, Call
<1> QED
  BY <1>1 DEF CoreType

LEMMA Continued ==
  ASSUME CoreType, NEW r \in Req, req[r] # Idle, NEW pc \in Pc, Continue(r, pc)
  PROVE  Advance(r, pc)
<1>1. pc # "return"
  BY DEF Pc
<1> QED
  BY <1>1 DEF Continue

(* The call of q is as it was, or over; the names loose where it runs still *)
(* are.                                                                     *)
Kept(q) ==
  req'[q] # Idle =>
    /\ req[q] # Idle /\ req'[q].at = req[q].at /\ req'[q].id = req[q].id
    /\ req'[q].before = req[q].before /\ req'[q].job = req[q].job
    /\ \/ req'[q].pc = req[q].pc
       \/ req'[q].pc \in Moved /\ req[q].pc \in Moved
    /\ loose[req[q].at] \subseteq loose'[req[q].at]

LEMMA TouchedKept ==
  ASSUME NEW q \in Req, rows' = rows, Kept(q), req'[q] # Idle
  PROVE  /\ Touched(q)' = Touched(q)
         /\ Wrote(q)' => Wrote(q)
<1>1. Touched(q)' = Touched(q)
  BY DEF Kept, Touched, Names
<1>2. Wrote(q)' => Wrote(q)
  BY DEF Kept, Wrote, Moved
<1> QED
  BY <1>1, <1>2

LEMMA RowsKept ==
  ASSUME IInv, rows' = rows, \A q \in Req : Kept(q)
  PROVE  RowsInv' /\ AloneInv'
<1> USE DEF IInv
<1>1. RowsInv'
  <2> SUFFICES ASSUME NEW q \in Req, req'[q] # Idle
               PROVE  (Found(q) /\ Left(q) /\ Rewritten(q) /\ Written(q) /\ Known(q))'
    BY DEF RowsInv
  <2>1. Kept(q) /\ Touched(q)' = Touched(q)
    BY TouchedKept
  <2>2. Found(q) /\ Left(q) /\ Rewritten(q) /\ Written(q) /\ Known(q)
    BY <2>1 DEF Kept, RowsInv
  <2>3. Found(q)'
    BY <2>1, <2>2 DEF Kept, Found, Live, Moved
  <2>4. Left(q)'
    BY <2>1, <2>2 DEF Kept, Left, HasRow, Live, JobNames, Moved
  <2>5. Rewritten(q)'
    BY <2>1, <2>2 DEF Kept, Rewritten, Live, Moved
  <2>6. Written(q)'
    BY <2>1, <2>2 DEF Kept, Written, Moved
  <2>7. Known(q)'
    BY <2>1, <2>2 DEF Kept, Known, Names, JobNames
  <2> QED
    BY <2>3, <2>4, <2>5, <2>6, <2>7
<1>2. AloneInv'
  <2> SUFFICES ASSUME NEW i \in Instance, NEW n \in Name, n \notin loose'[i],
                      NEW q \in Req, NEW r \in Req, At(q, i, n)', At(r, i, n)'
               PROVE  q = r
    BY DEF AloneInv
  <2>1. At(q, i, n) /\ At(r, i, n) /\ n \notin loose[i]
    BY TouchedKept DEF At, Kept
  <2> QED
    BY <2>1 DEF AloneInv
<1> QED
  BY <1>1, <1>2

LEMMA DoneKept ==
  ASSUME NEW q \in Req, DoneBefore(q), DoneJob(q), req'[q] = req[q],
         loose[req[q].at] \subseteq loose'[req[q].at],
         jobs'[req[q].at] = jobs[req[q].at], live'[req[q].at] = live[req[q].at]
  PROVE  DoneBefore(q)' /\ DoneJob(q)'
  BY DEF DoneBefore, DoneJob, Stopped, JobNames
-----------------------------------------------------------------------------
(* A call works on the schedule of m, on its instance i; what is stored     *)
(* under the other names stays.                                             *)
LEMMA WorkInv ==
  ASSUME IInv, NEW r \in Req, req[r] # Idle, req[r].pc \in Moved,
         NEW i \in Instance, i = req[r].at,
         NEW m \in Name, m = req[r].before \/ m \in JobNames(r),
         UNCHANGED <<up, rows, loose>>,
         \A q \in Req \ {r} : req'[q] = req[q],
         \/ req'[r] = Idle /\ \A n \in Name \ loose[i] : n \in Touched(r) => Follows(i, n)'
         \/ /\ req'[r].at = req[r].at /\ req'[r].id = req[r].id
            /\ req'[r].before = req[r].before /\ req'[r].job = req[r].job
            /\ req'[r].pc \in Moved
            /\ Shape(r)' /\ DoneBefore(r)' /\ DoneJob(r)' /\ req'[r] # Idle,
         \A k \in Instance, n \in Name : k # i \/ n # m =>
           /\ jobs'[k][n] = jobs[k][n]
           /\ jobs[k][n] # None => live'[k][jobs[k][n]] = live[k][jobs[k][n]],
         CoreType', BookInv', OrphanInv'
  PROVE  IInv'
<1> USE DEF IInv
<1>1. \A q \in Req : Kept(q)
  <2>1. ASSUME NEW q \in Req, q # r PROVE Kept(q)
    <3>1. req'[q] = req[q] /\ loose' = loose
      BY <2>1
    <3> QED
      BY <3>1 DEF Kept
  <2>2. Kept(r)
    BY DEF Kept
  <2> QED
    BY <2>1, <2>2
<1>2. RowsInv' /\ AloneInv'
  BY <1>1, RowsKept
<1>3. ShapeInv'
  BY DEF ShapeInv, Shape
<1>4. NamesInv'
  BY DEF NamesInv, NameFree
<1>5. At(r, i, m)
  BY NoNone DEF At, Wrote, Touched, JobNames, Moved
<1>6. ASSUME NEW k \in Instance, NEW n \in Name, k # i \/ n # m
      PROVE  /\ Stopped(k, n) => Stopped(k, n)'
             /\ jobs[k][n] = None => jobs'[k][n] = None
             /\ Follows(k, n) => Follows(k, n)'
  <2>1. /\ jobs'[k][n] = jobs[k][n]
        /\ jobs[k][n] # None => live'[k][jobs[k][n]] = live[k][jobs[k][n]]
    BY <1>6
  <2>2. \A j \in Job : On(j, n)' <=> On(j, n)
    BY DEF On, Live
  <2> QED
    BY <2>1, <2>2, ZenonT(30) DEF Stopped, Follows
<1>7. DoneInv'
  <2> SUFFICES ASSUME NEW q \in Req, q # r, req'[q] # Idle
               PROVE  (DoneBefore(q) /\ DoneJob(q))'
    BY DEF DoneInv
  <2>1. req'[q] = req[q] /\ req[q] # Idle /\ DoneBefore(q) /\ DoneJob(q)
    BY DEF DoneInv
  <2>2. PICK k \in Instance : k = req[q].at
    BY <2>1, CallType
  <2>3. ASSUME NEW n \in Name, n \in Touched(q), n \notin loose[k], req[q].pc \in Moved
        PROVE  k # i \/ n # m
    <3>1. At(q, k, n)
      BY <2>1, <2>2, <2>3 DEF At, Wrote, Moved
    <3> QED
      BY <1>5, <2>3, <3>1 DEF AloneInv
  <2>4. DoneBefore(q)'
    <3> SUFFICES ASSUME req[q].before # None, req[q].before \notin loose[k],
                        req[q].pc \in Moved
                 PROVE  /\ req[q].pc = "olddrop" => Stopped(k, req[q].before)'
                        /\ req[q].pc \in {"stop", "drop", "new", "set"} =>
                             req[q].before \in JobNames(q) \/ jobs'[k][req[q].before] = None
      BY <2>1, <2>2 DEF DoneBefore, JobNames, Stopped, Moved
    <3>1. PICK n \in Name : n = req[q].before
      BY <2>1, CallType
    <3>2. n \in Touched(q)
      BY <3>1 DEF Touched
    <3>3. k # i \/ n # m
      BY <2>3, <3>1, <3>2
    <3>4. Stopped(k, n)' <=> Stopped(k, req[q].before)'
      BY <3>1 DEF Stopped
    <3>5. /\ req[q].pc = "olddrop" => Stopped(k, n)
          /\ req[q].pc \in {"stop", "drop", "new", "set"} =>
               n \in JobNames(q) \/ jobs[k][n] = None
      BY <2>1, <2>2, <3>1 DEF DoneBefore
    <3> QED
      BY <1>6, <3>1, <3>3, <3>4, <3>5
  <2>5. DoneJob(q)'
    <3> SUFFICES ASSUME req[q].job # None, req[q].job.name \notin loose[k],
                        req[q].pc \in Moved
                 PROVE  /\ req[q].pc = "drop" => Stopped(k, req[q].job.name)'
                        /\ req[q].pc \in {"new", "set"} => jobs'[k][req[q].job.name] = None
      BY <2>1, <2>2 DEF DoneJob, Stopped, Moved
    <3>1. PICK n \in Name : n = req[q].job.name
      BY <2>1, CallType DEF Asked
    <3>2. n \in Touched(q)
      BY <3>1, NoNone DEF Touched
    <3>3. k # i \/ n # m
      BY <2>3, <3>1, <3>2
    <3>4. Stopped(k, n)' <=> Stopped(k, req[q].job.name)'
      BY <3>1 DEF Stopped
    <3>5. /\ req[q].pc = "drop" => Stopped(k, n)
          /\ req[q].pc \in {"new", "set"} => jobs[k][n] = None
      BY <2>1, <2>2, <3>1 DEF DoneJob
    <3> QED
      BY <1>6, <3>1, <3>3, <3>4, <3>5
  <2> QED
    BY <2>4, <2>5
<1>8. FollowInv'
  <2> SUFFICES ASSUME NEW k \in up, NEW n \in Name, n \notin loose[k]
               PROVE  (\E q \in Req : At(q, k, n)') \/ Follows(k, n)'
    BY DEF FollowInv
  <2>1. k \in Instance
    BY DEF CoreType
  <2>2. ASSUME NEW q \in Req, q # r, At(q, k, n) PROVE At(q, k, n)'
    BY <2>2 DEF At, Wrote, Touched, Names
  <2>3. CASE At(r, k, n)
    <3>1. k = i /\ n \in Touched(r)
      BY <2>3 DEF At
    <3>2. CASE req'[r] = Idle
      BY <3>1, <3>2
    <3>3. CASE req'[r] # Idle
      <4>1. At(r, k, n)'
        BY <2>3, <3>3 DEF At, Wrote, Touched, Names, Moved
      <4> QED
        BY <4>1
    <3> QED
      BY <3>2, <3>3
  <2>4. CASE \A q \in Req : ~At(q, k, n)
    <3>1. Follows(k, n)
      BY <2>4 DEF FollowInv
    <3>2. k # i \/ n # m
      BY <1>5, <2>4
    <3> QED
      BY <1>6, <2>1, <3>1, <3>2
  <2> QED
    BY <2>2, <2>3, <2>4
<1> QED
  BY <1>2, <1>3, <1>4, <1>7, <1>8
LEMMA Stepped ==
  ASSUME CoreType, NEW r \in Req, req[r] # Idle, NEW next \in Pc \cup {"return"},
         Continue(r, next)
  PROVE  /\ req' \in [Req -> Call]
         /\ \A q \in Req \ {r} : req'[q] = req[q]
         /\ next = "return" => req'[r] = Idle
         /\ next # "return" =>
              /\ req'[r] # Idle /\ req'[r].pc = next
              /\ req'[r].at = req[r].at /\ req'[r].id = req[r].id
              /\ req'[r].before = req[r].before /\ req'[r].job = req[r].job
              /\ req'[r].gid = req[r].gid
<1>1. CASE next = "return"
  BY <1>1, Returned
<1>2. CASE next \in Pc
  <2>1. next # "return" /\ Advance(r, next)
    BY <1>2, Continued DEF Pc
  <2> QED
    BY <1>2, <2>1, Advanced
<1> QED
  BY <1>1, <1>2

(* What a call leaves behind: the names it may have touched are its row's,  *)
(* as it wrote it, and the one the row had, which nobody has now.           *)
LEMMA Ends ==
  ASSUME IInv, NEW r \in Req, req[r] # Idle, req[r].pc \in Moved,
         NEW n \in Name, n \in Touched(r), n \notin loose[req[r].at]
  PROVE  \/ /\ n \in JobNames(r) /\ req[r].id \in Job
            /\ rows[req[r].id] = [name |-> n, handler |-> req[r].job.handler,
                                  enabled |-> req[r].job.enabled, deleted |-> FALSE]
         \/ /\ n = req[r].before /\ n \notin JobNames(r)
            /\ \A j \in Job : ~On(j, n)
<1> USE DEF IInv
<1>1. Shape(r) /\ Left(r) /\ Written(r) /\ Known(r)
  BY DEF ShapeInv, RowsInv
<1>2. req[r].id \in Job /\ req[r].id # None
  BY <1>1, NoNone DEF Shape, Moved
<1>3. n = req[r].before \/ n \in JobNames(r)
  BY <1>1, <1>2 DEF Touched, Known, JobNames
<1>4. CASE n \in JobNames(r)
  <2>1. req[r].job # None /\ n = req[r].job.name
    BY <1>4 DEF JobNames
  <2> QED
    BY <1>1, <1>2, <1>4, <2>1 DEF Written
<1>5. CASE n \notin JobNames(r)
  <2>1. n = req[r].before /\ n # None
    BY <1>3, <1>5, NoNone
  <2>2. ~HasRow(n)
    BY <1>1, <1>5, <2>1 DEF Left
  <2> QED
    BY <1>5, <2>1, <2>2 DEF HasRow, On
<1> QED
  BY <1>4, <1>5

(* A row that is not enabled keeps its name off every schedule.             *)
LEMMA OffRow ==
  ASSUME NamesInv, NEW k \in Job, rows[k] # None, ~rows[k].enabled,
         NEW j \in Job
  PROVE  ~On(j, rows[k].name)
<1>1. NameFree(rows[k].name, k)
  BY DEF NamesInv
<1> QED
  BY <1>1 DEF NameFree, On, Live

LEMMA StopInv ==
  ASSUME IInv, NEW r \in Req, req[r] # Idle, req[r].pc \in Moved \ {"set"},
         NEW i \in Instance, i = req[r].at, NEW m \in Name,
         NEW drop \in Pc \ {"set"}, NEW absent \in (Pc \ {"set"}) \cup {"return"},
         StopJob(r, m, drop, absent)
  PROVE  /\ CoreType' /\ BookInv' /\ OrphanInv'
         /\ UNCHANGED <<up, rows, jobs, loose>>
         /\ Continue(r, IF jobs[i][m] = None THEN absent ELSE drop)
         /\ Stopped(i, m)'
         /\ \A k \in Instance, n \in Name : k # i \/ n # m =>
              (jobs[k][n] # None => live'[k][jobs[k][n]] = live[k][jobs[k][n]])
<1> USE DEF IInv
<1>1. PICK g : g = jobs[i][m]
  OBVIOUS
<1>2. /\ live' = IF g = None THEN live ELSE [live EXCEPT ![i][g] = None]
      /\ Continue(r, IF g = None THEN absent ELSE drop)
      /\ UNCHANGED <<up, rows, jobs, loose>>
  BY <1>1 DEF StopJob
<1>3. g \in Gid \cup {None}
  BY <1>1 DEF CoreType
<1>4. /\ req' \in [Req -> Call]
      /\ \A q \in Req \ {r} : req'[q] = req[q]
      /\ req'[r] # Idle => req'[r].pc # "set"
  <2>1. PICK next \in (Pc \ {"set"}) \cup {"return"} :
          next = IF g = None THEN absent ELSE drop
    OBVIOUS
  <2> QED
    BY <1>2, <2>1, Stepped
<1>5. /\ live' \in [Instance -> [Gid -> Entry \cup {None}]]
      /\ \A k \in Instance, h \in Gid :
           live'[k][h] = IF k = i /\ h = g THEN None ELSE live[k][h]
  BY <1>2, <1>3, NoNone DEF CoreType
<1>6. CoreType'
  BY <1>2, <1>4, <1>5 DEF CoreType
<1>7. \A k \in Instance, n \in Name : jobs[k][n] \in Gid \cup {None}
  BY DEF CoreType
<1>8. \A q \in Req, k \in Instance : Setting(q, k)' <=> Setting(q, k)
  <2>1. ~\E k \in Instance : Setting(r, k) \/ Setting(r, k)'
    BY <1>4 DEF Setting
  <2> QED
    BY <1>4, <2>1 DEF Setting
<1>9. \A q \in Req, k \in Instance : Setting(q, k) => req'[q] = req[q] /\ req[q].gid \in Gid
  BY <1>4 DEF Setting, ShapeInv, Shape
<1>10. ASSUME NEW k \in Instance, NEW n \in Name, k # i \/ n # m, jobs[k][n] # None
       PROVE  live'[k][jobs[k][n]] = live[k][jobs[k][n]]
  <2>1. k # i \/ jobs[k][n] # g
    BY <1>1, <1>10 DEF BookInv
  <2> QED
    BY <1>5, <1>7, <1>10, <2>1
<1>11. BookInv'
  <2> HIDE DEF IInv
  <2> SUFFICES ASSUME NEW k \in Instance
               PROVE  /\ \A n \in Name : jobs'[k][n] # None =>
                           /\ live'[k][jobs'[k][n]] # None => live'[k][jobs'[k][n]].name = n
                           /\ \A l \in Name : jobs'[k][l] = jobs'[k][n] => l = n
                      /\ \A q \in Req : Setting(q, k)' =>
                           /\ live'[k][req'[q].gid] =
                                [id |-> req'[q].id, name |-> req'[q].job.name,
                                 handler |-> req'[q].job.handler]
                           /\ \A n \in Name : jobs'[k][n] # req'[q].gid
                           /\ \A p \in Req : Setting(p, k)' /\ req'[p].gid = req'[q].gid => p = q
    BY DEF BookInv
  <2> USE DEF IInv
  <2>1. ASSUME NEW n \in Name, jobs'[k][n] # None
        PROVE  /\ live'[k][jobs'[k][n]] # None => live'[k][jobs'[k][n]].name = n
               /\ \A l \in Name : jobs'[k][l] = jobs'[k][n] => l = n
    BY <1>2, <1>5, <1>7, <2>1 DEF BookInv
  <2>2. ASSUME NEW q \in Req, Setting(q, k)'
        PROVE  /\ live'[k][req'[q].gid] =
                    [id |-> req'[q].id, name |-> req'[q].job.name,
                     handler |-> req'[q].job.handler]
               /\ \A n \in Name : jobs'[k][n] # req'[q].gid
               /\ \A p \in Req : Setting(p, k)' /\ req'[p].gid = req'[q].gid => p = q
    <3>1. Setting(q, k) /\ req'[q] = req[q] /\ req[q].gid \in Gid
      BY <1>8, <1>9, <2>2
    <3>2. k # i \/ req[q].gid # g
      <4>1. \A n \in Name : jobs[k][n] # req[q].gid
        BY <3>1 DEF BookInv
      <4> QED
        BY <1>1, <4>1
    <3>3. live'[k][req[q].gid] = live[k][req[q].gid]
      BY <1>5, <3>1, <3>2
    <3>4. \A p \in Req : Setting(p, k)' => Setting(p, k) /\ req'[p] = req[p]
      BY <1>8, <1>9
    <3> QED
      BY <1>2, <3>1, <3>3, <3>4 DEF BookInv
  <2> QED
    BY <2>1, <2>2
<1>12. OrphanInv'
  <2> SUFFICES ASSUME NEW k \in up, NEW h \in Gid, live'[k][h] # None
               PROVE  \/ jobs[k][live'[k][h].name] = h
                      \/ \E q \in Req : Setting(q, k)' /\ req'[q].gid = h
                      \/ live'[k][h].name \in loose[k]
    BY <1>2 DEF OrphanInv
  <2>1. k \in Instance
    BY DEF CoreType
  <2>2. live'[k][h] = live[k][h]
    BY <1>5, <2>1
  <2> QED
    BY <1>8, <1>9, <2>1, <2>2 DEF OrphanInv
<1>13. Stopped(i, m)'
  BY <1>1, <1>2, <1>3, <1>5 DEF Stopped
<1> QED
  BY <1>1, <1>2, <1>6, <1>10, <1>11, <1>12, <1>13

LEMMA DropInv ==
  ASSUME IInv, NEW r \in Req, req[r] # Idle, req[r].pc \in Moved \ {"set"},
         NEW i \in Instance, i = req[r].at, NEW m \in Name,
         Stopped(i, m) \/ m \in loose[i],
         NEW next \in (Pc \ {"set"}) \cup {"return"},
         DropKey(r, m, next)
  PROVE  /\ CoreType' /\ BookInv' /\ OrphanInv'
         /\ UNCHANGED <<up, rows, live, loose>>
         /\ jobs'[i][m] = None
         /\ \A k \in Instance, n \in Name : k # i \/ n # m => jobs'[k][n] = jobs[k][n]
<1> USE DEF IInv
<1>1. /\ jobs' = [jobs EXCEPT ![i][m] = None]
      /\ Continue(r, next)
      /\ UNCHANGED <<up, rows, live, loose>>
  BY DEF DropKey
<1>2. /\ req' \in [Req -> Call]
      /\ \A q \in Req \ {r} : req'[q] = req[q]
      /\ req'[r] # Idle => req'[r].pc # "set"
  BY <1>1, Stepped
<1>3. /\ jobs' \in [Instance -> [Name -> Gid \cup {None}]]
      /\ \A k \in Instance, n \in Name :
           jobs'[k][n] = IF k = i /\ n = m THEN None ELSE jobs[k][n]
  BY <1>1 DEF CoreType
<1>4. CoreType'
  BY <1>1, <1>2, <1>3 DEF CoreType
<1>5. \A q \in Req, k \in Instance : Setting(q, k)' <=> Setting(q, k)
  <2>1. ~\E k \in Instance : Setting(r, k) \/ Setting(r, k)'
    BY <1>2 DEF Setting
  <2> QED
    BY <1>2, <2>1 DEF Setting
<1>6. \A q \in Req, k \in Instance : Setting(q, k) => req'[q] = req[q] /\ req[q].gid \in Gid
  BY <1>2 DEF Setting, ShapeInv, Shape
<1>7. BookInv'
  <2> HIDE DEF IInv
  <2> SUFFICES ASSUME NEW k \in Instance
               PROVE  /\ \A n \in Name : jobs'[k][n] # None =>
                           /\ live'[k][jobs'[k][n]] # None => live'[k][jobs'[k][n]].name = n
                           /\ \A l \in Name : jobs'[k][l] = jobs'[k][n] => l = n
                      /\ \A q \in Req : Setting(q, k)' =>
                           /\ live'[k][req'[q].gid] =
                                [id |-> req'[q].id, name |-> req'[q].job.name,
                                 handler |-> req'[q].job.handler]
                           /\ \A n \in Name : jobs'[k][n] # req'[q].gid
                           /\ \A p \in Req : Setting(p, k)' /\ req'[p].gid = req'[q].gid => p = q
    BY DEF BookInv
  <2> USE DEF IInv
  <2>1. ASSUME NEW n \in Name, jobs'[k][n] # None
        PROVE  /\ live'[k][jobs'[k][n]] # None => live'[k][jobs'[k][n]].name = n
               /\ \A l \in Name : jobs'[k][l] = jobs'[k][n] => l = n
    BY <1>1, <1>3, <2>1 DEF BookInv
  <2>2. ASSUME NEW q \in Req, Setting(q, k)'
        PROVE  /\ live'[k][req'[q].gid] =
                    [id |-> req'[q].id, name |-> req'[q].job.name,
                     handler |-> req'[q].job.handler]
               /\ \A n \in Name : jobs'[k][n] # req'[q].gid
               /\ \A p \in Req : Setting(p, k)' /\ req'[p].gid = req'[q].gid => p = q
    <3>1. Setting(q, k) /\ req'[q] = req[q] /\ req[q].gid # None
      BY <1>5, <1>6, <2>2, NoNone
    <3>2. \A p \in Req : Setting(p, k)' => Setting(p, k) /\ req'[p] = req[p]
      BY <1>5, <1>6
    <3>3. \A n \in Name : jobs[k][n] # req[q].gid
      BY <3>1 DEF BookInv
    <3> QED
      BY <1>1, <1>3, <3>1, <3>2, <3>3 DEF BookInv
  <2> QED
    BY <2>1, <2>2
<1>8. OrphanInv'
  <2> SUFFICES ASSUME NEW k \in up, NEW h \in Gid, live[k][h] # None
               PROVE  \/ jobs'[k][live[k][h].name] = h
                      \/ \E q \in Req : Setting(q, k)' /\ req'[q].gid = h
                      \/ live[k][h].name \in loose[k]
    BY <1>1 DEF OrphanInv
  <2>1. k \in Instance /\ live[k][h].name \in Name
    BY DEF CoreType, Entry
  <2>2. CASE jobs[k][live[k][h].name] = h
    <3>1. CASE k = i /\ live[k][h].name = m
      <4>1. ~Stopped(i, m)
        BY <2>2, <3>1, NoNone DEF Stopped
      <4> QED
        BY <3>1, <4>1
    <3>2. CASE k # i \/ live[k][h].name # m
      BY <1>3, <2>1, <2>2, <3>2
    <3> QED
      BY <3>1, <3>2
  <2>3. CASE jobs[k][live[k][h].name] # h
    BY <1>5, <1>6, <2>1, <2>3 DEF OrphanInv
  <2> QED
    BY <2>2, <2>3
<1>9. jobs'[i][m] = None
  BY <1>3
<1>10. \A k \in Instance, n \in Name : k # i \/ n # m => jobs'[k][n] = jobs[k][n]
  BY <1>3
<1> QED
  BY <1>1, <1>4, <1>7, <1>8, <1>9, <1>10

(* A name no enabled row has, and nothing stored under it.                  *)
LEMMA Gone ==
  ASSUME NEW i \in Instance, NEW n \in Name, rows' = rows,
         \A j \in Job : ~On(j, n), jobs'[i][n] = None
  PROVE  Follows(i, n)'
<1>1. \A j \in Job : ~On(j, n)'
  BY DEF On, Live
<1> QED
  BY <1>1 DEF Follows

LEMMA RemoveBeforeInv ==
  ASSUME IInv, NEW r \in Req, RemoveBefore(r)
  PROVE  IInv'
<1>1. req[r] # Idle /\ req[r].pc \in {"oldstop", "olddrop"}
  BY DEF RemoveBefore, Idle
<1>2. /\ req[r].at \in Instance /\ req[r].before \in Name /\ req[r].before # None
      /\ req[r].job \in Asked \cup {None} /\ Shape(r) /\ DoneBefore(r)
      /\ req[r].id # None
  BY <1>1, CallType, NoNone DEF IInv, ShapeInv, Shape, DoneInv
<1>3. PICK i \in Instance, m \in Name : i = req[r].at /\ m = req[r].before
  BY <1>2
<1>4. PICK next : next = IF req[r].job = None THEN "return" ELSE "stop"
  OBVIOUS
<1>5. /\ next \in (Pc \ {"set"}) \cup {"return"}
      /\ "olddrop" \in Pc \ {"set"}
      /\ req[r].pc \in Moved \ {"set"}
  BY <1>1, <1>4 DEF Pc, Moved
<1>6. CoreType
  BY DEF IInv
<1>7. ASSUME next = "return", jobs'[i][m] = None, rows' = rows
      PROVE  \A n \in Name \ loose[i] : n \in Touched(r) => Follows(i, n)'
  <2> SUFFICES ASSUME NEW n \in Name \ loose[i], n \in Touched(r)
               PROVE  Follows(i, n)'
    OBVIOUS
  <2>1. JobNames(r) = {}
    BY <1>4, <1>7 DEF JobNames
  <2>2. n = m /\ \A j \in Job : ~On(j, n)
    BY <1>1, <1>3, <1>5, <2>1, Ends
  <2> QED
    BY <1>7, <2>2, Gone
<1>8. ASSUME UNCHANGED <<up, rows, loose>>,
             req'[r] # Idle /\ req'[r].pc \in {"olddrop", "stop"},
             req'[r].at = req[r].at /\ req'[r].id = req[r].id,
             req'[r].before = req[r].before /\ req'[r].job = req[r].job,
             req'[r].gid = req[r].gid,
             req'[r].pc = "olddrop" => Stopped(i, m)',
             req'[r].pc = "stop" => jobs'[i][m] = None /\ next = "stop"
      PROVE  Shape(r)' /\ DoneBefore(r)' /\ DoneJob(r)' /\ req'[r].pc \in Moved
  <2>1. Shape(r)'
    BY <1>1, <1>2, <1>4, <1>8 DEF Shape
  <2>2. DoneBefore(r)'
    BY <1>3, <1>8 DEF DoneBefore, Stopped
  <2>3. DoneJob(r)'
    BY <1>8 DEF DoneJob
  <2> QED
    BY <1>8, <2>1, <2>2, <2>3 DEF Moved
<1>9. CASE req[r].pc = "oldstop" /\ StopJob(r, m, "olddrop", next)
  <2>1. /\ CoreType' /\ BookInv' /\ OrphanInv'
        /\ UNCHANGED <<up, rows, jobs, loose>>
        /\ Continue(r, IF jobs[i][m] = None THEN next ELSE "olddrop")
        /\ Stopped(i, m)'
        /\ \A k \in Instance, n \in Name : k # i \/ n # m =>
             (jobs[k][n] # None => live'[k][jobs[k][n]] = live[k][jobs[k][n]])
    BY <1>1, <1>3, <1>5, <1>9, StopInv
  <2>2. PICK to \in Pc \cup {"return"} : to = IF jobs[i][m] = None THEN next ELSE "olddrop"
    BY <1>5
  <2>3. /\ \A q \in Req \ {r} : req'[q] = req[q]
        /\ to = "return" => req'[r] = Idle
        /\ to # "return" =>
             /\ req'[r] # Idle /\ req'[r].pc = to
             /\ req'[r].at = req[r].at /\ req'[r].id = req[r].id
             /\ req'[r].before = req[r].before /\ req'[r].job = req[r].job
             /\ req'[r].gid = req[r].gid
    BY <1>1, <1>6, <2>1, <2>2, Stepped
  <2>4. CASE to = "return"
    <3>1. next = "return" /\ jobs'[i][m] = None
      BY <2>1, <2>2, <2>4
    <3>2. \A n \in Name \ loose[i] : n \in Touched(r) => Follows(i, n)'
      BY <1>7, <2>1, <3>1
    <3> QED
      BY <1>1, <1>3, <1>5, <2>1, <2>3, <2>4, <3>2, WorkInv
  <2>5. CASE to # "return"
    <3>1. to \in {"olddrop", "stop"} /\ (to = "stop" => jobs'[i][m] = None /\ next = "stop")
      BY <1>4, <2>1, <2>2, <2>5
    <3>2. Shape(r)' /\ DoneBefore(r)' /\ DoneJob(r)' /\ req'[r].pc \in Moved
      BY <1>8, <2>1, <2>3, <2>5, <3>1
    <3> QED
      BY <1>1, <1>3, <1>5, <2>1, <2>3, <2>5, <3>2, WorkInv
  <2> QED
    BY <2>4, <2>5
<1>10. CASE req[r].pc = "olddrop" /\ DropKey(r, m, next)
  <2>1. Stopped(i, m) \/ m \in loose[i]
    BY <1>2, <1>3, <1>10 DEF DoneBefore
  <2>2. /\ CoreType' /\ BookInv' /\ OrphanInv'
        /\ UNCHANGED <<up, rows, live, loose>>
        /\ jobs'[i][m] = None
        /\ \A k \in Instance, n \in Name : k # i \/ n # m => jobs'[k][n] = jobs[k][n]
    BY <1>1, <1>3, <1>5, <1>10, <2>1, DropInv
  <2>3. /\ \A q \in Req \ {r} : req'[q] = req[q]
        /\ next = "return" => req'[r] = Idle
        /\ next # "return" =>
             /\ req'[r] # Idle /\ req'[r].pc = next
             /\ req'[r].at = req[r].at /\ req'[r].id = req[r].id
             /\ req'[r].before = req[r].before /\ req'[r].job = req[r].job
             /\ req'[r].gid = req[r].gid
    BY <1>1, <1>5, <1>6, <1>10, Stepped DEF DropKey
  <2>4. CASE next = "return"
    <3>1. \A n \in Name \ loose[i] : n \in Touched(r) => Follows(i, n)'
      BY <1>7, <2>2, <2>4
    <3> QED
      BY <1>1, <1>3, <1>5, <2>2, <2>3, <2>4, <3>1, WorkInv
  <2>5. CASE next # "return"
    <3>1. Shape(r)' /\ DoneBefore(r)' /\ DoneJob(r)' /\ req'[r].pc \in Moved
      BY <1>4, <1>8, <2>2, <2>3, <2>5
    <3> QED
      BY <1>1, <1>3, <1>5, <2>2, <2>3, <2>5, <3>1, WorkInv
  <2> QED
    BY <2>4, <2>5
<1> QED
  BY <1>3, <1>4, <1>9, <1>10 DEF RemoveBefore

LEMMA ReplaceInv ==
  ASSUME IInv, NEW r \in Req, Replace(r)
  PROVE  IInv'
<1>1. req[r] # Idle /\ req[r].pc \in {"stop", "drop"}
  BY DEF Replace, Idle
<1>2. /\ req[r].at \in Instance /\ req[r].job \in Asked /\ req[r].job.name \in Name
      /\ req[r].before \in Name \cup {None}
      /\ Shape(r) /\ DoneBefore(r) /\ DoneJob(r) /\ req[r].job # None
  BY <1>1, CallType, NoNone DEF IInv, ShapeInv, Shape, DoneInv, Asked
<1>3. PICK i \in Instance, m \in Name : i = req[r].at /\ m = req[r].job.name
  BY <1>2
<1>4. PICK next : next = IF req[r].job.enabled THEN "new" ELSE "return"
  OBVIOUS
<1>5. /\ next \in (Pc \ {"set"}) \cup {"return"}
      /\ "drop" \in Pc \ {"set"}
      /\ req[r].pc \in Moved \ {"set"}
  BY <1>1, <1>4 DEF Pc, Moved
<1>6. CoreType /\ NamesInv
  BY DEF IInv
<1>7. m \in JobNames(r)
  BY <1>2, <1>3 DEF JobNames
<1>8. ASSUME next = "return", jobs'[i][m] = None, rows' = rows,
             \A n \in Name : n # m => jobs'[i][n] = jobs[i][n]
      PROVE  \A n \in Name \ loose[i] : n \in Touched(r) => Follows(i, n)'
  <2> SUFFICES ASSUME NEW n \in Name \ loose[i], n \in Touched(r)
               PROVE  Follows(i, n)'
    OBVIOUS
  <2>1. ~req[r].job.enabled
    BY <1>4, <1>8
  <2>2. CASE n \in JobNames(r)
    <3>1. n = m
      BY <1>3, <2>2 DEF JobNames
    <3>2. /\ req[r].id \in Job
          /\ rows[req[r].id] = [name |-> n, handler |-> req[r].job.handler,
                                enabled |-> req[r].job.enabled, deleted |-> FALSE]
      BY <1>1, <1>3, <1>5, <2>2, Ends
    <3>3. rows[req[r].id] \in Row \cup {None}
      BY <1>6, <3>2 DEF CoreType
    <3>4. /\ rows[req[r].id] # None /\ ~rows[req[r].id].enabled
          /\ rows[req[r].id].name = n
      <4>1. rows[req[r].id] # None
        <5>1. rows[req[r].id] \in Row
          BY <1>2, <3>2 DEF Row, Asked
        <5> QED
          BY <5>1, NoNone
      <4> QED
        BY <2>1, <3>2, <4>1
    <3>5. \A j \in Job : ~On(j, n)
      BY <1>6, <3>2, <3>4, OffRow
    <3> QED
      BY <1>8, <3>1, <3>5, Gone
  <2>3. CASE n \notin JobNames(r)
    <3>1. n = req[r].before /\ \A j \in Job : ~On(j, n)
      BY <1>1, <1>3, <1>5, <2>3, Ends
    <3>2. n # m /\ n # None
      BY <1>7, <2>3, NoNone
    <3>3. jobs[i][n] = None
      BY <1>1, <1>2, <1>3, <2>3, <3>1, <3>2 DEF DoneBefore
    <3> QED
      BY <1>8, <3>1, <3>2, <3>3, Gone
  <2> QED
    BY <2>2, <2>3
<1>9. ASSUME UNCHANGED <<up, rows, loose>>,
             req'[r] # Idle /\ req'[r].pc \in {"drop", "new"},
             req'[r].at = req[r].at /\ req'[r].id = req[r].id,
             req'[r].before = req[r].before /\ req'[r].job = req[r].job,
             req'[r].gid = req[r].gid,
             \A n \in Name : n # m => jobs'[i][n] = jobs[i][n],
             req'[r].pc = "drop" => Stopped(i, m)',
             req'[r].pc = "new" => jobs'[i][m] = None /\ next = "new"
      PROVE  Shape(r)' /\ DoneBefore(r)' /\ DoneJob(r)' /\ req'[r].pc \in Moved
  <2>1. Shape(r)'
    BY <1>1, <1>2, <1>4, <1>9 DEF Shape
  <2>2. DoneBefore(r)'
    <3>1. JobNames(r)' = JobNames(r)
      BY <1>9 DEF JobNames
    <3> QED
      BY <1>1, <1>2, <1>3, <1>7, <1>9, <3>1 DEF DoneBefore
  <2>3. DoneJob(r)'
    BY <1>3, <1>9 DEF DoneJob, Stopped
  <2> QED
    BY <1>9, <2>1, <2>2, <2>3 DEF Moved
<1>10. CASE req[r].pc = "stop" /\ StopJob(r, m, "drop", next)
  <2>1. /\ CoreType' /\ BookInv' /\ OrphanInv'
        /\ UNCHANGED <<up, rows, jobs, loose>>
        /\ Continue(r, IF jobs[i][m] = None THEN next ELSE "drop")
        /\ Stopped(i, m)'
        /\ \A k \in Instance, n \in Name : k # i \/ n # m =>
             (jobs[k][n] # None => live'[k][jobs[k][n]] = live[k][jobs[k][n]])
    BY <1>1, <1>3, <1>5, <1>10, StopInv
  <2>2. PICK to \in Pc \cup {"return"} : to = IF jobs[i][m] = None THEN next ELSE "drop"
    BY <1>5
  <2>3. /\ \A q \in Req \ {r} : req'[q] = req[q]
        /\ to = "return" => req'[r] = Idle
        /\ to # "return" =>
             /\ req'[r] # Idle /\ req'[r].pc = to
             /\ req'[r].at = req[r].at /\ req'[r].id = req[r].id
             /\ req'[r].before = req[r].before /\ req'[r].job = req[r].job
             /\ req'[r].gid = req[r].gid
    BY <1>1, <1>6, <2>1, <2>2, Stepped
  <2>4. CASE to = "return"
    <3>1. next = "return" /\ jobs'[i][m] = None
      BY <2>1, <2>2, <2>4
    <3>2. \A n \in Name \ loose[i] : n \in Touched(r) => Follows(i, n)'
      BY <1>8, <2>1, <3>1
    <3> QED
      BY <1>1, <1>3, <1>5, <1>7, <2>1, <2>3, <2>4, <3>2, WorkInv
  <2>5. CASE to # "return"
    <3>1. to \in {"drop", "new"} /\ (to = "new" => jobs'[i][m] = None /\ next = "new")
      BY <1>4, <2>1, <2>2, <2>5
    <3>2. Shape(r)' /\ DoneBefore(r)' /\ DoneJob(r)' /\ req'[r].pc \in Moved
      BY <1>9, <2>1, <2>3, <2>5, <3>1
    <3> QED
      BY <1>1, <1>3, <1>5, <1>7, <2>1, <2>3, <2>5, <3>2, WorkInv
  <2> QED
    BY <2>4, <2>5
<1>11. CASE req[r].pc = "drop" /\ DropKey(r, m, next)
  <2>1. Stopped(i, m) \/ m \in loose[i]
    BY <1>2, <1>3, <1>11 DEF DoneJob
  <2>2. /\ CoreType' /\ BookInv' /\ OrphanInv'
        /\ UNCHANGED <<up, rows, live, loose>>
        /\ jobs'[i][m] = None
        /\ \A k \in Instance, n \in Name : k # i \/ n # m => jobs'[k][n] = jobs[k][n]
    BY <1>1, <1>3, <1>5, <1>11, <2>1, DropInv
  <2>3. /\ \A q \in Req \ {r} : req'[q] = req[q]
        /\ next = "return" => req'[r] = Idle
        /\ next # "return" =>
             /\ req'[r] # Idle /\ req'[r].pc = next
             /\ req'[r].at = req[r].at /\ req'[r].id = req[r].id
             /\ req'[r].before = req[r].before /\ req'[r].job = req[r].job
             /\ req'[r].gid = req[r].gid
    BY <1>1, <1>5, <1>6, <1>11, Stepped DEF DropKey
  <2>4. CASE next = "return"
    <3>1. \A n \in Name \ loose[i] : n \in Touched(r) => Follows(i, n)'
      BY <1>8, <2>2, <2>4
    <3> QED
      BY <1>1, <1>3, <1>5, <1>7, <2>2, <2>3, <2>4, <3>1, WorkInv
  <2>5. CASE next # "return"
    <3>1. Shape(r)' /\ DoneBefore(r)' /\ DoneJob(r)' /\ req'[r].pc \in Moved
      BY <1>4, <1>9, <2>2, <2>3, <2>5
    <3> QED
      BY <1>1, <1>3, <1>5, <1>7, <2>2, <2>3, <2>5, <3>1, WorkInv
  <2> QED
    BY <2>4, <2>5
<1> QED
  BY <1>3, <1>4, <1>10, <1>11 DEF Replace

LEMMA NewJobInv ==
  ASSUME IInv, NEW r \in Req, NewJob(r)
  PROVE  IInv'
<1>1. req[r] # Idle /\ req[r].pc = "new" /\ req[r].pc \in Moved
  BY DEF NewJob, Idle, Moved
<1>2. /\ req[r].at \in Instance /\ req[r].job \in Asked /\ req[r].job.name \in Name
      /\ req[r].id \in Job
      /\ Shape(r) /\ DoneBefore(r) /\ DoneJob(r) /\ req[r].job # None
      /\ req[r] \in Active
  BY <1>1, CallType, NoNone DEF IInv, ShapeInv, Shape, DoneInv, Asked
<1>3. PICK i \in Instance, m \in Name : i = req[r].at /\ m = req[r].job.name
  BY <1>2
<1>4. PICK g \in Unused(i) : g = CHOOSE x \in Unused(i) : TRUE
  BY <1>3 DEF NewJob
<1>5. PICK e : e = [id |-> req[r].id, name |-> m, handler |-> req[r].job.handler]
  OBVIOUS
<1>6. e \in Entry /\ e # None /\ e.name = m
  BY <1>2, <1>3, <1>5, NoNone DEF Entry, Asked
<1>7. /\ live' = [live EXCEPT ![i][g] = e]
      /\ UNCHANGED <<up, rows, jobs, loose>>
      /\ req' = [req EXCEPT ![r].pc = "set", ![r].gid = g]
  BY <1>3, <1>4, <1>5 DEF NewJob
<1>7a. UNCHANGED <<up, rows, jobs, loose>>
  BY <1>7
<1>8. g \in Gid /\ live[i][g] = None /\ (\A n \in Name : jobs[i][n] # g)
      /\ \A q \in Req : req[q] # Idle => req[q].gid # g
  BY <1>4 DEF Unused
<1>9. /\ req' \in [Req -> Call]
      /\ \A q \in Req \ {r} : req'[q] = req[q]
      /\ req'[r] # Idle /\ req'[r].pc = "set" /\ req'[r].gid = g
      /\ req'[r].at = req[r].at /\ req'[r].id = req[r].id
      /\ req'[r].before = req[r].before /\ req'[r].job = req[r].job
  <2> DEFINE c == [req[r] EXCEPT !.pc = "set", !.gid = g]
  <2>1. req' = [req EXCEPT ![r] = c]
    BY <1>7
  <2>2. c \in Active /\ c.pc = "set" /\ c.gid = g /\ c.at = req[r].at /\ c.id = req[r].id
        /\ c.before = req[r].before /\ c.job = req[r].job
    BY <1>2, <1>8 DEF Active, Pc
  <2> HIDE DEF c
  <2>3. c # Idle /\ c \in Call
    BY <2>2, ActiveType DEF Call
  <2> QED
    BY <2>1, <2>2, <2>3 DEF IInv, CoreType
<1>10. /\ live' \in [Instance -> [Gid -> Entry \cup {None}]]
       /\ \A k \in Instance, h \in Gid :
            live'[k][h] = IF k = i /\ h = g THEN e ELSE live[k][h]
  BY <1>6, <1>7, <1>8 DEF IInv, CoreType
<1>11. CoreType'
  BY <1>7, <1>9, <1>10 DEF IInv, CoreType
<1>12. \A k \in Instance, n \in Name : jobs[k][n] \in Gid \cup {None}
  BY DEF IInv, CoreType
<1>13. /\ \A q \in Req \ {r}, k \in Instance : Setting(q, k)' <=> Setting(q, k)
       /\ \A k \in Instance : Setting(r, k)' <=> k = i
       /\ \A q \in Req, k \in Instance : Setting(q, k) => q # r /\ req[q].gid \in Gid
  BY <1>1, <1>3, <1>9 DEF IInv, Setting, ShapeInv, Shape
<1>14. \A q \in Req, k \in Instance : Setting(q, k) => req[q].gid # g
  BY <1>8 DEF Setting
<1>15. \A k \in Instance, n \in Name : jobs[k][n] # None =>
         live'[k][jobs[k][n]] = live[k][jobs[k][n]]
  BY <1>8, <1>10, <1>12
<1>16. BookInv'
  <2> SUFFICES ASSUME NEW k \in Instance
               PROVE  /\ \A n \in Name : jobs[k][n] # None =>
                           /\ live'[k][jobs[k][n]] # None => live'[k][jobs[k][n]].name = n
                           /\ \A l \in Name : jobs[k][l] = jobs[k][n] => l = n
                      /\ \A q \in Req : Setting(q, k)' =>
                           /\ live'[k][req'[q].gid] =
                                [id |-> req'[q].id, name |-> req'[q].job.name,
                                 handler |-> req'[q].job.handler]
                           /\ \A n \in Name : jobs[k][n] # req'[q].gid
                           /\ \A p \in Req : Setting(p, k)' /\ req'[p].gid = req'[q].gid => p = q
    BY <1>7a DEF BookInv
  <2>1. ASSUME NEW n \in Name, jobs[k][n] # None
        PROVE  /\ live'[k][jobs[k][n]] # None => live'[k][jobs[k][n]].name = n
               /\ \A l \in Name : jobs[k][l] = jobs[k][n] => l = n
    BY <1>15, <2>1 DEF IInv, BookInv
  <2>2. ASSUME NEW q \in Req, q # r, Setting(q, k)'
        PROVE  /\ live'[k][req'[q].gid] =
                    [id |-> req'[q].id, name |-> req'[q].job.name,
                     handler |-> req'[q].job.handler]
               /\ \A n \in Name : jobs[k][n] # req'[q].gid
               /\ \A p \in Req : Setting(p, k)' /\ req'[p].gid = req'[q].gid => p = q
    <3>1. Setting(q, k) /\ req'[q] = req[q] /\ req[q].gid \in Gid /\ req[q].gid # g
      BY <1>9, <1>13, <1>14, <2>2
    <3>2. live'[k][req[q].gid] = live[k][req[q].gid]
      BY <1>10, <3>1
    <3>3. \A p \in Req : Setting(p, k)' /\ req'[p].gid = req[q].gid =>
            Setting(p, k) /\ req'[p] = req[p]
      BY <1>9, <1>13, <3>1
    <3> QED
      BY <3>1, <3>2, <3>3 DEF IInv, BookInv
  <2>3. ASSUME Setting(r, k)'
        PROVE  /\ live'[k][req'[r].gid] =
                    [id |-> req'[r].id, name |-> req'[r].job.name,
                     handler |-> req'[r].job.handler]
               /\ \A n \in Name : jobs[k][n] # req'[r].gid
               /\ \A p \in Req : Setting(p, k)' /\ req'[p].gid = req'[r].gid => p = r
    <3>1. k = i
      BY <1>13, <2>3
    <3>2. \A p \in Req \ {r} : Setting(p, k)' => req'[p].gid # g
      BY <1>9, <1>13, <1>14
    <3> QED
      BY <1>3, <1>5, <1>8, <1>9, <1>10, <3>1, <3>2
  <2> QED
    BY <2>1, <2>2, <2>3
<1>17. OrphanInv'
  <2> SUFFICES ASSUME NEW k \in up, NEW h \in Gid, live'[k][h] # None
               PROVE  \/ jobs[k][live'[k][h].name] = h
                      \/ \E q \in Req : Setting(q, k)' /\ req'[q].gid = h
                      \/ live'[k][h].name \in loose[k]
    BY <1>7a DEF OrphanInv
  <2>1. k \in Instance
    BY DEF IInv, CoreType
  <2>2. CASE k = i /\ h = g
    BY <1>9, <1>13, <2>2
  <2>3. CASE k # i \/ h # g
    <3>1. live'[k][h] = live[k][h]
      BY <1>10, <2>1, <2>3
    <3>2. \A q \in Req : Setting(q, k) => Setting(q, k)' /\ req'[q].gid = req[q].gid
      BY <1>9, <1>13, <2>1
    <3> QED
      BY <2>1, <3>1, <3>2 DEF IInv, OrphanInv
  <2> QED
    BY <2>2, <2>3
<1>18. Shape(r)' /\ DoneBefore(r)' /\ DoneJob(r)' /\ req'[r].pc \in Moved
  <2>1. Shape(r)'
    BY <1>1, <1>2, <1>8, <1>9, <1>7a DEF Shape
  <2>2. DoneBefore(r)'
    <3>1. JobNames(r)' = JobNames(r)
      BY <1>9 DEF JobNames
    <3> QED
      BY <1>1, <1>2, <1>9, <1>7a, <3>1 DEF DoneBefore
  <2>3. DoneJob(r)'
    BY <1>1, <1>2, <1>9, <1>7a DEF DoneJob
  <2> QED
    BY <1>9, <2>1, <2>2, <2>3 DEF Moved
<1>19. m \in JobNames(r)
  BY <1>2, <1>3 DEF JobNames
<1> QED
  BY <1>1, <1>3, <1>7a, <1>9, <1>11, <1>15, <1>16, <1>17, <1>18, <1>19, WorkInv

LEMMA SetKeyInv ==
  ASSUME IInv, NEW r \in Req, SetKey(r)
  PROVE  IInv'
<1>1. req[r] # Idle /\ req[r].pc = "set" /\ req[r].pc \in Moved
  BY DEF SetKey, Idle, Moved
<1>2. /\ req[r].at \in Instance /\ req[r].job \in Asked /\ req[r].job.name \in Name
      /\ req[r].id \in Job /\ req[r].gid \in Gid /\ req[r].job.enabled
      /\ DoneBefore(r) /\ DoneJob(r) /\ req[r].job # None
  BY <1>1, CallType, NoNone DEF IInv, ShapeInv, Shape, DoneInv, Asked
<1>3. PICK i \in Instance, m \in Name, g \in Gid :
        i = req[r].at /\ m = req[r].job.name /\ g = req[r].gid
  BY <1>2
<1>4. /\ jobs' = [jobs EXCEPT ![i][m] = g]
      /\ UNCHANGED <<up, rows, live, loose>>
      /\ Continue(r, "return")
  BY <1>3 DEF SetKey
<1>5. CoreType
  BY DEF IInv
<1>6. /\ req' \in [Req -> Call] /\ req'[r] = Idle
      /\ \A q \in Req \ {r} : req'[q] = req[q]
  BY <1>4, <1>5, Returned
<1>7. /\ jobs' \in [Instance -> [Name -> Gid \cup {None}]]
      /\ \A k \in Instance, n \in Name :
           jobs'[k][n] = IF k = i /\ n = m THEN g ELSE jobs[k][n]
  BY <1>4 DEF IInv, CoreType
<1>8. CoreType'
  BY <1>4, <1>6, <1>7 DEF IInv, CoreType
<1>9. Setting(r, i) /\ g # None
  BY <1>1, <1>3, NoNone DEF Setting
<1>10. /\ live[i][g] = [id |-> req[r].id, name |-> m, handler |-> req[r].job.handler]
       /\ \A n \in Name : jobs[i][n] # g
       /\ \A q \in Req : Setting(q, i) /\ req[q].gid = g => q = r
  BY <1>3, <1>9 DEF IInv, BookInv
<1>11. \A q \in Req, k \in Instance : Setting(q, k)' <=> Setting(q, k) /\ q # r
  BY <1>6 DEF Setting
<1>12. \A q \in Req, k \in Instance : Setting(q, k) => req[q].gid \in Gid
  BY DEF IInv, Setting, ShapeInv, Shape
<1>13. BookInv'
  <2> SUFFICES ASSUME NEW k \in Instance
               PROVE  /\ \A n \in Name : jobs'[k][n] # None =>
                           /\ live[k][jobs'[k][n]] # None => live[k][jobs'[k][n]].name = n
                           /\ \A l \in Name : jobs'[k][l] = jobs'[k][n] => l = n
                      /\ \A q \in Req : Setting(q, k)' =>
                           /\ live[k][req'[q].gid] =
                                [id |-> req'[q].id, name |-> req'[q].job.name,
                                 handler |-> req'[q].job.handler]
                           /\ \A n \in Name : jobs'[k][n] # req'[q].gid
                           /\ \A p \in Req : Setting(p, k)' /\ req'[p].gid = req'[q].gid => p = q
    BY <1>4 DEF BookInv
  <2>1. ASSUME NEW n \in Name, jobs'[k][n] # None
        PROVE  /\ live[k][jobs'[k][n]] # None => live[k][jobs'[k][n]].name = n
               /\ \A l \in Name : jobs'[k][l] = jobs'[k][n] => l = n
    <3>1. CASE k = i /\ n = m
      <4>1. jobs'[k][n] = g /\ live[k][g].name = n
        BY <1>7, <1>10, <3>1
      <4>2. \A l \in Name : l # m => jobs'[k][l] # g
        BY <1>7, <1>10, <3>1
      <4> QED
        BY <3>1, <4>1, <4>2
    <3>2. CASE k # i \/ n # m
      <4>1. jobs'[k][n] = jobs[k][n] /\ (k = i => jobs[k][n] # g)
        BY <1>7, <1>10, <3>2
      <4>2. /\ live[k][jobs[k][n]] # None => live[k][jobs[k][n]].name = n
            /\ \A l \in Name : jobs[k][l] = jobs[k][n] => l = n
        BY <2>1, <4>1 DEF IInv, BookInv
      <4> QED
        BY <1>7, <4>1, <4>2
    <3> QED
      BY <3>1, <3>2
  <2>2. ASSUME NEW q \in Req, Setting(q, k)'
        PROVE  /\ live[k][req'[q].gid] =
                    [id |-> req'[q].id, name |-> req'[q].job.name,
                     handler |-> req'[q].job.handler]
               /\ \A n \in Name : jobs'[k][n] # req'[q].gid
               /\ \A p \in Req : Setting(p, k)' /\ req'[p].gid = req'[q].gid => p = q
    <3>1. Setting(q, k) /\ q # r /\ req'[q] = req[q]
      BY <1>6, <1>11, <2>2
    <3>2. k = i => req[q].gid # g
      BY <1>10, <3>1
    <3>3. /\ live[k][req[q].gid] =
               [id |-> req[q].id, name |-> req[q].job.name, handler |-> req[q].job.handler]
          /\ \A n \in Name : jobs[k][n] # req[q].gid
          /\ \A p \in Req : Setting(p, k) /\ req[p].gid = req[q].gid => p = q
      BY <3>1 DEF IInv, BookInv
    <3>4. \A n \in Name : jobs'[k][n] # req[q].gid
      BY <1>7, <3>2, <3>3
    <3>5. \A p \in Req : Setting(p, k)' => Setting(p, k) /\ req'[p] = req[p]
      BY <1>6, <1>11
    <3> QED
      BY <3>1, <3>3, <3>4, <3>5
  <2> QED
    BY <2>1, <2>2
<1>14. OrphanInv'
  <2> SUFFICES ASSUME NEW k \in up, NEW h \in Gid, live[k][h] # None
               PROVE  \/ jobs'[k][live[k][h].name] = h
                      \/ \E q \in Req : Setting(q, k)' /\ req'[q].gid = h
                      \/ live[k][h].name \in loose[k]
    BY <1>4 DEF OrphanInv
  <2>1. k \in Instance /\ live[k][h].name \in Name
    BY DEF IInv, CoreType, Entry
  <2>2. CASE k = i /\ live[k][h].name = m
    <3>1. CASE h = g
      BY <1>7, <2>1, <2>2, <3>1
    <3>2. CASE h # g
      <4>1. m \in loose[i] \/ jobs[i][m] = None
        BY <1>1, <1>2, <1>3 DEF DoneJob
      <4>2. \/ jobs[k][m] = h
            \/ \E q \in Req : Setting(q, k) /\ req[q].gid = h
            \/ m \in loose[k]
        BY <2>2 DEF IInv, OrphanInv
      <4>3. \A q \in Req : Setting(q, k) /\ req[q].gid = h => q # r
        BY <1>3, <3>2
      <4> QED
        BY <1>6, <1>11, <2>1, <2>2, <4>1, <4>2, <4>3, NoNone
    <3> QED
      BY <3>1, <3>2
  <2>3. CASE k # i \/ live[k][h].name # m
    <3>1. jobs'[k][live[k][h].name] = jobs[k][live[k][h].name]
      BY <1>7, <2>1, <2>3
    <3>2. \A q \in Req : Setting(q, k) /\ req[q].gid = h => q # r
      <4>1. Setting(r, k) => k = i
        BY <1>3 DEF Setting
      <4>2. k = i /\ h = g => live[k][h].name = m
        BY <1>10
      <4> QED
        BY <1>3, <2>3, <4>1, <4>2
    <3>3. \/ jobs[k][live[k][h].name] = h
          \/ \E q \in Req : Setting(q, k) /\ req[q].gid = h
          \/ live[k][h].name \in loose[k]
      BY DEF IInv, OrphanInv
    <3> QED
      BY <1>6, <1>11, <2>1, <3>1, <3>2, <3>3
  <2> QED
    BY <2>2, <2>3
<1>15. m \in JobNames(r)
  BY <1>2, <1>3 DEF JobNames
<1>16. ASSUME NEW n \in Name \ loose[i], n \in Touched(r)
       PROVE  Follows(i, n)'
  <2>1. CASE n \in JobNames(r)
    <3>1. n = m
      BY <1>3, <2>1 DEF JobNames
    <3>2. rows[req[r].id] = [name |-> n, handler |-> req[r].job.handler,
                             enabled |-> req[r].job.enabled, deleted |-> FALSE]
      BY <1>1, <1>3, <1>16, <2>1, Ends
    <3>3. rows[req[r].id] # None
      <4>1. rows[req[r].id] \in Row
        BY <1>2, <3>2 DEF Row, Asked
      <4> QED
        BY <4>1, NoNone
    <3>4. PICK j \in Job : j = req[r].id
      BY <1>2
    <3>5. On(j, n)' /\ rows'[j].handler = req[r].job.handler
      BY <1>2, <1>4, <3>2, <3>3, <3>4 DEF On, Live
    <3>6. jobs'[i][n] = g /\ live'[i][g] =
            [id |-> req[r].id, name |-> n, handler |-> req[r].job.handler]
      BY <1>4, <1>7, <1>10, <3>1
    <3> QED
      BY <1>9, <3>4, <3>6, <3>5 DEF Follows
  <2>2. CASE n \notin JobNames(r)
    <3>1. n = req[r].before /\ \A j \in Job : ~On(j, n)
      BY <1>1, <1>3, <1>16, <2>2, Ends
    <3>2. n # m /\ n # None
      BY <1>15, <2>2, NoNone
    <3>3. jobs[i][n] = None
      BY <1>1, <1>2, <1>3, <1>16, <2>2, <3>1, <3>2 DEF DoneBefore
    <3>4. jobs'[i][n] = None
      BY <1>7, <3>2, <3>3
    <3> QED
      BY <1>4, <3>1, <3>4, Gone
  <2> QED
    BY <2>1, <2>2
<1> QED
  BY <1>1, <1>3, <1>4, <1>6, <1>7, <1>8, <1>13, <1>14, <1>15, <1>16, WorkInv
-----------------------------------------------------------------------------
LEMMA TouchedNames ==
  ASSUME CoreType, NEW r \in Req, req[r] # Idle
  PROVE  Touched(r) \subseteq Name
<1>1. /\ req[r].before \in Name \cup {None}
      /\ req[r].job \in Asked \cup {None}
      /\ req[r].id \in Job \cup {None}
  BY CallType
<1>2. \A j \in Job : Names(j) \subseteq Name
  BY DEF CoreType, Names, Row
<1> QED
  BY <1>1, <1>2 DEF Touched, Asked

(* What a statement of r makes loose.                                       *)
LEMMA LooseGrows ==
  ASSUME CoreType, NEW r \in Req, req[r] # Idle, loose' = Loosened(r)
  PROVE  /\ loose' \in [Instance -> SUBSET Name]
         /\ \A k \in Instance :
              /\ loose[k] \subseteq loose'[k]
              /\ k # req[r].at => Touched(r) \subseteq loose'[k]
              /\ \A q \in Crossing(r) :
                   Touched(r) \subseteq loose'[k] /\ Touched(q) \subseteq loose'[k]
<1> DEFINE crossed == UNION {Touched(q) : q \in Crossing(r)}
<1>1. Touched(r) \subseteq Name /\ crossed \subseteq Name
  BY TouchedNames DEF Crossing
<1>2. \A q \in Crossing(r) : Touched(q) \subseteq crossed
  OBVIOUS
<1>3. loose' = [k \in Instance |->
                  IF k # req[r].at \/ Crossing(r) # {}
                    THEN loose[k] \cup Touched(r) \cup crossed ELSE loose[k]]
  BY DEF Loosened
<1> HIDE DEF crossed
<1> QED
  BY <1>1, <1>2, <1>3 DEF CoreType

(* Nothing the invariant speaks of has changed.                             *)
LEMMA Unmoved ==
  ASSUME IInv, UNCHANGED <<up, rows, jobs, live, req, loose>>
  PROVE  IInv'
<1>1. CoreType' /\ ShapeInv' /\ NamesInv' /\ BookInv'
  BY DEF IInv, CoreType, ShapeInv, Shape, NamesInv, NameFree, BookInv, Setting
<1>2. \A q \in Req : Kept(q)
  BY DEF Kept
<1>3. RowsInv' /\ AloneInv'
  BY <1>2, RowsKept
<1>4. DoneInv'
  BY DoneKept DEF IInv, DoneInv
<1>5. FollowInv' /\ OrphanInv'
  <2>1. \A j \in Job, n \in Name : On(j, n)' <=> On(j, n)
    BY DEF On, Live
  <2>2. \A i \in Instance, n \in Name : Follows(i, n)' <=> Follows(i, n)
    BY <2>1 DEF Follows
  <2>3. \A q \in Req, i \in Instance, n \in Name : At(q, i, n)' <=> At(q, i, n)
    BY DEF At, Wrote, Touched, Names
  <2>4. up \in SUBSET Instance
    BY DEF IInv, CoreType
  <2>5. FollowInv'
    BY <2>2, <2>3, <2>4 DEF IInv, FollowInv
  <2>6. OrphanInv'
    BY DEF IInv, OrphanInv, Setting
  <2> QED
    BY <2>5, <2>6
<1> QED
  BY <1>1, <1>3, <1>4, <1>5 DEF IInv

(* Rows change under the names S, which come loose everywhere; the calls in *)
(* progress are told nothing.                                               *)
LEMMA LoosenInv ==
  ASSUME IInv, NEW S, UNCHANGED <<up, jobs, live, req>>,
         \A k \in Instance : loose[k] \subseteq loose'[k] /\ S \subseteq loose'[k],
         \A j \in Job :
           \/ rows'[j] = rows[j]
           \/ /\ Names(j) \subseteq S /\ Names(j)' \subseteq S
              /\ Names(j)' = {} \/ \A q \in Req : req[q] # Idle => req[q].id # j,
         CoreType', NamesInv'
  PROVE  IInv'
<1>1. ShapeInv' /\ BookInv'
  BY DEF IInv, ShapeInv, Shape, BookInv, Setting
<1>2. \A j \in Job : rows'[j] = rows[j] => Names(j)' = Names(j) /\ (Live(j)' <=> Live(j))
  BY DEF Names, Live
<1>3. \A j \in Job : Live(j) => rows[j].name \in Names(j)
  BY DEF Live, Names
<1>4. \A j \in Job : Live(j)' => rows'[j].name \in Names(j)'
  BY DEF Live, Names
<1>5. ASSUME NEW n \in Name, n \notin S
      PROVE  /\ HasRow(n)' <=> HasRow(n)
             /\ \A j \in Job : On(j, n)' <=> On(j, n)
             /\ \A j \in Job : On(j, n) => rows'[j] = rows[j]
  <2>1. \A j \in Job : Live(j) /\ rows[j].name = n => rows'[j] = rows[j] /\ Live(j)'
    BY <1>2, <1>3, <1>5
  <2>2. \A j \in Job : Live(j)' /\ rows'[j].name = n => rows'[j] = rows[j] /\ Live(j)
    BY <1>2, <1>4, <1>5
  <2> QED
    BY <2>1, <2>2 DEF HasRow, On
<1>6. ASSUME NEW q \in Req, req[q] # Idle
      PROVE  /\ Touched(q)' \subseteq Touched(q)
             /\ Touched(q) \subseteq Touched(q)' \cup S
             /\ req[q].id \in Job =>
                  \/ rows'[req[q].id] = rows[req[q].id]
                  \/ Names(req[q].id) \subseteq S /\ rows'[req[q].id] = None
  <2>1. req[q].id \in Job \cup {None}
    BY <1>6, CallType DEF IInv
  <2>2. req[q].id \in Job =>
           \/ rows'[req[q].id] = rows[req[q].id]
           \/ Names(req[q].id) \subseteq S /\ rows'[req[q].id] = None
    BY <1>6 DEF Names
  <2>3. req[q].id \in Job =>
           \/ Names(req[q].id)' = Names(req[q].id)
           \/ Names(req[q].id) \subseteq S /\ Names(req[q].id)' = {}
    BY <2>2 DEF Names
  <2> QED
    BY <2>1, <2>2, <2>3 DEF Touched
<1>7. RowsInv'
  <2> SUFFICES ASSUME NEW q \in Req, req[q] # Idle
               PROVE  (Found(q) /\ Left(q) /\ Rewritten(q) /\ Written(q) /\ Known(q))'
    BY DEF RowsInv
  <2>1. Found(q) /\ Left(q) /\ Rewritten(q) /\ Written(q) /\ Known(q) /\ Shape(q)
    BY DEF IInv, RowsInv, ShapeInv
  <2>2. PICK k \in Instance : k = req[q].at
    BY CallType DEF IInv
  <2>3. loose[k] \subseteq loose'[k] /\ S \subseteq loose'[k]
    OBVIOUS
  <2>4. CASE req[q].id = None
    <3>1. req[q].pc = "create"
      BY <2>1, <2>4, NoNone DEF Shape
    <3> QED
      BY <2>4, <3>1 DEF Found, Left, Rewritten, Written, Known, Moved
  <2>5. CASE req[q].id # None
    <3>1. PICK d \in Job : d = req[q].id
      BY <2>5, CallType DEF IInv
    <3>2. rows'[d] = rows[d] \/ (Names(d) \subseteq S /\ rows'[d] = None)
      BY <1>6, <3>1
    <3>3. rows[d] # None => Names(d) = {rows[d].name}
      BY DEF Names
    <3>4. Found(q)'
      BY <2>1, <2>2, <2>3, <3>1, <3>2, <3>3 DEF Found, Live
    <3>5. Left(q)'
      <4> SUFFICES ASSUME req[q].pc \in Moved \cup {"reread"}, req[q].before # None,
                          req[q].before \notin loose'[k]
                   PROVE  req[q].before \in JobNames(q) \/ ~HasRow(req[q].before)'
        BY <2>2 DEF Left, JobNames, HasRow, Live
      <4>1. PICK n \in Name : n = req[q].before
        BY CallType DEF IInv
      <4>2. HasRow(req[q].before)' <=> HasRow(n)
        BY <1>5, <2>3, <4>1 DEF HasRow, Live
      <4> QED
        BY <2>1, <2>2, <2>3, <4>1, <4>2 DEF Left
    <3>6. Rewritten(q)'
      BY <1>6, <2>1, <2>2, <2>3, <3>1, <3>2 DEF Rewritten, Live
    <3>7. Written(q)'
      <4> SUFFICES ASSUME req[q].pc \in Moved, req[q].job # None,
                          req[q].job.name \notin loose'[k]
                   PROVE  rows'[d] = [name |-> req[q].job.name,
                                      handler |-> req[q].job.handler,
                                      enabled |-> req[q].job.enabled, deleted |-> FALSE]
        BY <2>2, <3>1 DEF Written
      <4>1. rows[d] = [name |-> req[q].job.name, handler |-> req[q].job.handler,
                       enabled |-> req[q].job.enabled, deleted |-> FALSE]
        BY <2>1, <2>2, <2>3, <3>1 DEF Written
      <4>2. rows[d].name \notin S
        BY <2>3, <4>1
      <4>3. rows[d] # None
        <5>1. req[q].job \in Asked
          BY CallType DEF IInv
        <5>2. rows[d] \in Row
          BY <4>1, <5>1 DEF Row, Asked
        <5> QED
          BY <5>2, NoNone
      <4> QED
        BY <3>2, <3>3, <4>1, <4>2, <4>3
    <3>8. Known(q)'
      <4>1. Names(d)' \subseteq Names(d)
        BY <3>2 DEF Names
      <4>2. Names(req[q].id)' = Names(d)'
        BY <3>1
      <4> QED
        BY <2>1, <2>2, <2>3, <3>1, <4>1, <4>2 DEF Known, JobNames
    <3> QED
      BY <3>4, <3>5, <3>6, <3>7, <3>8
  <2> QED
    BY <2>4, <2>5
<1>8. AloneInv'
  <2>1. \A q \in Req, i \in Instance, n \in Name : At(q, i, n)' => At(q, i, n)
    BY <1>6 DEF At, Wrote
  <2> QED
    BY <2>1 DEF IInv, AloneInv
<1>9. DoneInv'
  <2> SUFFICES ASSUME NEW q \in Req, req[q] # Idle
               PROVE  DoneBefore(q)' /\ DoneJob(q)'
    BY DEF DoneInv
  <2>1. req[q].at \in Instance
    BY CallType DEF IInv
  <2> QED
    BY <2>1, DoneKept DEF IInv, DoneInv
<1>10. FollowInv'
  <2> SUFFICES ASSUME NEW k \in up, NEW n \in Name, n \notin loose'[k]
               PROVE  (\E q \in Req : At(q, k, n)') \/ Follows(k, n)'
    BY DEF FollowInv
  <2>1. k \in Instance
    BY DEF IInv, CoreType
  <2>2. n \notin S /\ n \notin loose[k]
    BY <2>1
  <2>3. \A q \in Req : At(q, k, n) => At(q, k, n)'
    BY <1>6, <2>2 DEF At, Wrote
  <2>4. Follows(k, n) => Follows(k, n)'
    BY <1>5, <2>2 DEF Follows
  <2> QED
    BY <2>2, <2>3, <2>4 DEF IInv, FollowInv
<1>11. OrphanInv'
  <2>1. up \subseteq Instance
    BY DEF IInv, CoreType
  <2> QED
    BY <2>1 DEF IInv, OrphanInv, Setting
<1> QED
  BY <1>1, <1>7, <1>8, <1>9, <1>10, <1>11 DEF IInv

LEMMA syncJobsInv ==
  ASSUME IInv, NEW i \in Instance, NEW n \in Builtin, NEW j \in Job, NEW h \in Handler,
         syncJobs(i, n, j, h)
  PROVE  IInv'
<1>1. /\ Fresh(j) /\ NameFree(n, j)
      /\ rows' = [rows EXCEPT ![j] =
           [name |-> n, handler |-> h, enabled |-> TRUE, deleted |-> FALSE]]
      /\ loose' = [k \in Instance |-> loose[k] \cup {n}]
      /\ UNCHANGED <<up, jobs, live, req>>
  BY DEF syncJobs
<1>2. n \in Name
  BY SchedulerAssumption
<1>3. PICK e \in Row :
        e = [name |-> n, handler |-> h, enabled |-> TRUE, deleted |-> FALSE]
  BY <1>2 DEF Row
<1>4. /\ rows' \in [Job -> Row \cup {None}]
      /\ rows'[j] = e /\ e # None /\ e.name = n
      /\ \A k \in Job : k # j => rows'[k] = rows[k]
  BY <1>1, <1>3, NoNone DEF IInv, CoreType
<1>5. CoreType'
  BY <1>1, <1>2, <1>4 DEF IInv, CoreType
<1>6. NamesInv'
  BY <1>1, <1>4 DEF IInv, NamesInv, NameFree
<1>7. rows[j] = None /\ \A q \in Req : req[q] # Idle => req[q].id # j
  BY <1>1 DEF Fresh
<1>8. Names(j) = {} /\ Names(j)' = {n}
  BY <1>4, <1>7 DEF Names
<1>9. \A k \in Instance : loose[k] \subseteq loose'[k] /\ {n} \subseteq loose'[k]
  BY <1>1
<1>10. \A k \in Job :
         \/ rows'[k] = rows[k]
         \/ /\ Names(k) \subseteq {n} /\ Names(k)' \subseteq {n}
            /\ Names(k)' = {} \/ \A q \in Req : req[q] # Idle => req[q].id # k
  BY <1>4, <1>7, <1>8
<1>11. UNCHANGED <<up, jobs, live, req>>
  BY <1>1
<1> QED
  BY <1>5, <1>6, <1>9, <1>10, <1>11, LoosenInv

LEMMA PurgeInv ==
  ASSUME IInv, Purge
  PROVE  IInv'
<1> DEFINE purged == {j \in Job : rows[j] # None /\ rows[j].handler \in PluginHandler}
           S == UNION {Names(j) : j \in purged}
<1>1. /\ rows' = [j \in Job |-> IF j \in purged THEN None ELSE rows[j]]
      /\ loose' = [i \in Instance |-> loose[i] \cup S]
      /\ UNCHANGED <<up, jobs, live, req>>
  BY DEF Purge
<1>2. S \subseteq Name
  BY DEF IInv, CoreType, Names, Row
<1>3. \A j \in purged : Names(j) \subseteq S
  OBVIOUS
<1> HIDE DEF S, purged
<1>4. CoreType'
  BY <1>1, <1>2 DEF IInv, CoreType
<1>5. NamesInv'
  BY <1>1 DEF IInv, NamesInv, NameFree
<1>6. \A k \in Instance : loose[k] \subseteq loose'[k] /\ S \subseteq loose'[k]
  BY <1>1
<1>7. \A j \in Job :
         \/ rows'[j] = rows[j]
         \/ /\ Names(j) \subseteq S /\ Names(j)' \subseteq S
            /\ Names(j)' = {} \/ \A q \in Req : req[q] # Idle => req[q].id # j
  BY <1>1, <1>3 DEF Names
<1> QED
  BY <1>1, <1>4, <1>5, <1>6, <1>7, LoosenInv

(* A call begins with what it has found; it has written nothing yet.        *)
LEMMA BeginInv ==
  ASSUME IInv, NEW r \in Req, NEW i \in Instance,
         NEW pc \in {"create", "update", "delete"},
         NEW id \in Job \cup {None}, NEW before \in Name \cup {None},
         NEW job \in Asked \cup {None},
         Begin(r, i, pc, id, before, job),
         pc = "create" => id = None /\ before = None,
         pc # "create" => id \in Job /\ before \in Name /\ Live(id) /\ rows[id].name = before,
         pc \in {"create", "update"} => job \in Asked,
         pc = "delete" => job = None
  PROVE  IInv'
<1>1. PICK c : c = [pc |-> pc, at |-> i, id |-> id, before |-> before, job |-> job,
                    gid |-> None]
  OBVIOUS
<1>2. /\ c \in Active /\ c.pc = pc /\ c.at = i /\ c.id = id /\ c.before = before
      /\ c.job = job /\ c.gid = None
  BY <1>1 DEF Active, Pc
<1>3. c # Idle /\ c \in Call
  BY <1>2, ActiveType DEF Call
<1>4. /\ req[r] = Idle /\ i \in up
      /\ req' = [req EXCEPT ![r] = c]
      /\ UNCHANGED <<up, rows, jobs, live, loose>>
  BY <1>1 DEF Begin
<1>5. /\ req' \in [Req -> Call]
      /\ req'[r] = c
      /\ \A q \in Req \ {r} : req'[q] = req[q]
  BY <1>3, <1>4 DEF IInv, CoreType
<1>6. UNCHANGED <<up, rows, jobs, live, loose>>
  BY <1>4
<1>7. CoreType' /\ NamesInv'
  BY <1>5, <1>6 DEF IInv, CoreType, NamesInv, NameFree
<1>8. ShapeInv'
  <2>1. Shape(r)'
    BY <1>2, <1>4, <1>5, <1>6 DEF Shape
  <2> QED
    BY <1>5, <1>6, <2>1 DEF IInv, ShapeInv, Shape
<1>9. \A q \in Req, k \in Instance : Setting(q, k)' <=> Setting(q, k)
  <2>1. \A k \in Instance : ~Setting(r, k) /\ ~Setting(r, k)'
    BY <1>2, <1>4, <1>5 DEF Setting
  <2> QED
    BY <1>5, <2>1 DEF Setting
<1>10. \A q \in Req, k \in Instance : Setting(q, k) => req'[q] = req[q]
  BY <1>4, <1>5 DEF Setting
<1>11. BookInv' /\ OrphanInv'
  <2>1. BookInv'
    <3> SUFFICES ASSUME NEW k \in Instance
                 PROVE  /\ \A n \in Name : jobs[k][n] # None =>
                             /\ live[k][jobs[k][n]] # None => live[k][jobs[k][n]].name = n
                             /\ \A l \in Name : jobs[k][l] = jobs[k][n] => l = n
                        /\ \A q \in Req : Setting(q, k)' =>
                             /\ live[k][req'[q].gid] =
                                  [id |-> req'[q].id, name |-> req'[q].job.name,
                                   handler |-> req'[q].job.handler]
                             /\ \A n \in Name : jobs[k][n] # req'[q].gid
                             /\ \A p \in Req : Setting(p, k)' /\ req'[p].gid = req'[q].gid
                                                 => p = q
      BY <1>6 DEF BookInv
    <3> QED
      BY <1>9, <1>10 DEF IInv, BookInv
  <2>2. OrphanInv'
    <3> SUFFICES ASSUME NEW k \in up, NEW g \in Gid, live[k][g] # None
                 PROVE  \/ jobs[k][live[k][g].name] = g
                        \/ \E q \in Req : Setting(q, k)' /\ req'[q].gid = g
                        \/ live[k][g].name \in loose[k]
      BY <1>6 DEF OrphanInv
    <3>1. k \in Instance
      BY DEF IInv, CoreType
    <3> QED
      BY <1>9, <1>10, <3>1 DEF IInv, OrphanInv
  <2> QED
    BY <2>1, <2>2
<1>12. ~Wrote(r) /\ ~Wrote(r)'
  BY <1>2, <1>4, <1>5 DEF Wrote
<1>13. \A q \in Req, k \in Instance, n \in Name : At(q, k, n)' <=> At(q, k, n)
  BY <1>5, <1>6, <1>12 DEF At, Wrote, Touched, Names
<1>14. AloneInv'
  BY <1>6, <1>13 DEF IInv, AloneInv
<1>15. RowsInv'
  <2>1. (Found(r) /\ Left(r) /\ Rewritten(r) /\ Written(r) /\ Known(r))'
    <3>1. Found(r)'
      BY <1>2, <1>5, <1>6 DEF Found, Live
    <3>2. (Left(r) /\ Rewritten(r) /\ Written(r))'
      BY <1>2, <1>5 DEF Left, Rewritten, Written, Moved
    <3>3. Known(r)'
      BY <1>2, <1>5, <1>6 DEF Known, Names, Live
    <3> QED
      BY <3>1, <3>2, <3>3
  <2>2. ASSUME NEW q \in Req, q # r, req[q] # Idle
        PROVE  (Found(q) /\ Left(q) /\ Rewritten(q) /\ Written(q) /\ Known(q))'
    <3>1. Found(q) /\ Left(q) /\ Rewritten(q) /\ Written(q) /\ Known(q) /\ req'[q] = req[q]
      BY <1>5, <2>2 DEF IInv, RowsInv
    <3>2. JobNames(q)' = JobNames(q) /\ Touched(q)' = Touched(q)
      BY <1>6, <3>1 DEF JobNames, Touched, Names
    <3>3. (Found(q) /\ Written(q) /\ Known(q))'
      BY <1>6, <3>1, <3>2 DEF Found, Written, Known, Live, Names
    <3>4. (Left(q) /\ Rewritten(q))'
      BY <1>6, <3>1, <3>2 DEF Left, Rewritten, Live, HasRow
    <3> QED
      BY <3>3, <3>4
  <2> QED
    BY <1>5, <2>1, <2>2 DEF RowsInv
<1>16. DoneInv'
  <2>1. DoneBefore(r)' /\ DoneJob(r)'
    BY <1>2, <1>5 DEF DoneBefore, DoneJob
  <2>2. ASSUME NEW q \in Req, q # r, req[q] # Idle
        PROVE  DoneBefore(q)' /\ DoneJob(q)'
    BY <1>5, <1>6, <2>2, DoneKept DEF IInv, DoneInv
  <2> QED
    BY <1>5, <2>1, <2>2 DEF DoneInv
<1>17. FollowInv'
  <2>1. up \subseteq Instance
    BY DEF IInv, CoreType
  <2>2. \A k \in Instance, n \in Name : Follows(k, n)' <=> Follows(k, n)
    BY <1>6 DEF Follows, On, Live
  <2> QED
    BY <1>6, <1>13, <2>1, <2>2 DEF IInv, FollowInv
<1> QED
  BY <1>7, <1>8, <1>11, <1>14, <1>15, <1>16, <1>17 DEF IInv

LEMMA BookKept ==
  ASSUME IInv, UNCHANGED <<jobs, live>>,
         \A q \in Req, k \in Instance : Setting(q, k)' => Setting(q, k) /\ req'[q] = req[q]
  PROVE  BookInv'
<1> SUFFICES ASSUME NEW k \in Instance
             PROVE  /\ \A n \in Name : jobs[k][n] # None =>
                         /\ live[k][jobs[k][n]] # None => live[k][jobs[k][n]].name = n
                         /\ \A l \in Name : jobs[k][l] = jobs[k][n] => l = n
                    /\ \A q \in Req : Setting(q, k)' =>
                         /\ live[k][req'[q].gid] =
                              [id |-> req'[q].id, name |-> req'[q].job.name,
                               handler |-> req'[q].job.handler]
                         /\ \A n \in Name : jobs[k][n] # req'[q].gid
                         /\ \A p \in Req : Setting(p, k)' /\ req'[p].gid = req'[q].gid => p = q
  BY DEF BookInv
<1> QED
  BY DEF IInv, BookInv

LEMMA AbortInv ==
  ASSUME IInv, NEW r \in Req, Abort(r)
  PROVE  IInv'
<1>1. PICK i \in Instance : i = req[r].at
  BY CallType DEF Abort, IInv
<1>2. /\ req[r] # Idle /\ Continue(r, "return")
      /\ loose' = IF Wrote(r) THEN [loose EXCEPT ![i] = @ \cup Touched(r)] ELSE loose
      /\ UNCHANGED <<up, rows, jobs, live>>
  BY <1>1 DEF Abort
<1>3. /\ req' \in [Req -> Call] /\ req'[r] = Idle
      /\ \A q \in Req \ {r} : req'[q] = req[q]
  BY <1>2, Returned DEF IInv
<1>4. UNCHANGED <<up, rows, jobs, live>> /\ req[r] # Idle
  BY <1>2
<1>5. Touched(r) \subseteq Name
  BY <1>4, TouchedNames DEF IInv
<1>6. /\ loose' \in [Instance -> SUBSET Name]
      /\ \A k \in Instance : loose[k] \subseteq loose'[k]
      /\ Wrote(r) => Touched(r) \subseteq loose'[i]
  BY <1>2, <1>5 DEF IInv, CoreType
<1>7. CoreType' /\ NamesInv'
  BY <1>3, <1>4, <1>6 DEF IInv, CoreType, NamesInv, NameFree
<1>8. ShapeInv'
  BY <1>3, <1>4 DEF IInv, ShapeInv, Shape
<1>9. \A q \in Req, k \in Instance : Setting(q, k)' => Setting(q, k) /\ req'[q] = req[q]
  BY <1>3 DEF Setting
<1>10. BookInv'
  BY <1>4, <1>9, BookKept
<1>11. \A q \in Req : Kept(q)
  <2>1. ASSUME NEW q \in Req, req'[q] # Idle PROVE Kept(q)
    <3>1. req'[q] = req[q] /\ req[q].at \in Instance
      BY <1>3, <2>1, CallType DEF IInv
    <3> QED
      BY <1>6, <3>1 DEF Kept
  <2> QED
    BY <2>1 DEF Kept
<1>12. RowsInv' /\ AloneInv'
  BY <1>4, <1>11, RowsKept
<1>13. DoneInv'
  <2> SUFFICES ASSUME NEW q \in Req, req'[q] # Idle
               PROVE  DoneBefore(q)' /\ DoneJob(q)'
    BY DEF DoneInv
  <2>1. req'[q] = req[q] /\ req[q].at \in Instance
    BY <1>3, CallType DEF IInv
  <2> QED
    BY <1>3, <1>4, <1>6, <2>1, DoneKept DEF IInv, DoneInv
<1>14. FollowInv'
  <2> SUFFICES ASSUME NEW k \in up, NEW n \in Name, n \notin loose'[k]
               PROVE  (\E q \in Req : At(q, k, n)') \/ Follows(k, n)'
    BY <1>4 DEF FollowInv
  <2>1. k \in Instance /\ n \notin loose[k]
    BY <1>6 DEF IInv, CoreType
  <2>2. ~At(r, k, n)
    BY <1>1, <1>6 DEF At
  <2>3. \A q \in Req : q # r /\ At(q, k, n) => At(q, k, n)'
    BY <1>3, <1>4 DEF At, Wrote, Touched, Names
  <2>4. Follows(k, n)' <=> Follows(k, n)
    BY <1>4 DEF Follows, On, Live
  <2> QED
    BY <2>1, <2>2, <2>3, <2>4 DEF IInv, FollowInv
<1>15. OrphanInv'
  <2> SUFFICES ASSUME NEW k \in up, NEW g \in Gid, live[k][g] # None
               PROVE  \/ jobs[k][live[k][g].name] = g
                      \/ \E q \in Req : Setting(q, k)' /\ req'[q].gid = g
                      \/ live[k][g].name \in loose'[k]
    BY <1>4 DEF OrphanInv
  <2>1. k \in Instance
    BY DEF IInv, CoreType
  <2>2. \A q \in Req \ {r} : Setting(q, k) => Setting(q, k)' /\ req'[q] = req[q]
    BY <1>3 DEF Setting
  <2>3. Setting(r, k) /\ req[r].gid = g => live[k][g].name \in loose'[k]
    <3> SUFFICES ASSUME Setting(r, k), req[r].gid = g
                 PROVE  live[k][g].name \in loose'[k]
      OBVIOUS
    <3>1. k = i /\ req[r].pc = "set" /\ Wrote(r)
      BY <1>1 DEF Setting, Wrote
    <3>2. live[k][g].name = req[r].job.name
      <4>1. live[k][req[r].gid] =
              [id |-> req[r].id, name |-> req[r].job.name, handler |-> req[r].job.handler]
        BY <2>1 DEF IInv, BookInv
      <4> QED
        BY <4>1
    <3>3. req[r].job \in Asked
      BY <1>4, <3>1 DEF IInv, ShapeInv, Shape
    <3>4. req[r].job.name \in Touched(r)
      BY <3>3, NoNone DEF Touched, Asked
    <3> QED
      BY <1>6, <3>1, <3>2, <3>4
  <2>4. \/ jobs[k][live[k][g].name] = g
        \/ \E q \in Req : Setting(q, k) /\ req[q].gid = g
        \/ live[k][g].name \in loose[k]
    BY DEF IInv, OrphanInv
  <2> QED
    BY <1>6, <2>1, <2>2, <2>3, <2>4
<1> QED
  BY <1>7, <1>8, <1>10, <1>12, <1>13, <1>14, <1>15 DEF IInv

LEMMA RereadInv ==
  ASSUME IInv, NEW r \in Req, Reread(r)
  PROVE  IInv'
<1>1. req[r] # Idle /\ req[r].pc = "reread" /\ Live(req[r].id)
  BY DEF Reread, Idle
<1>2. PICK i \in Instance, d \in Job : i = req[r].at /\ d = req[r].id
  BY <1>1, CallType DEF IInv, ShapeInv, Shape
<1>3. /\ req[r].before \in Name /\ req[r].job \in Asked /\ req[r] \in Active
      /\ req[r].gid = None /\ i \in up /\ req[r].id # None
      /\ Left(r) /\ Rewritten(r) /\ Written(r) /\ Known(r)
  BY <1>1, <1>2, CallType, NoNone DEF IInv, ShapeInv, Shape, RowsInv
<1>4. PICK job : job = [name |-> rows[d].name, handler |-> rows[d].handler,
                        enabled |-> rows[d].enabled]
  OBVIOUS
<1>5. rows[d] \in Row /\ ~rows[d].deleted
  BY <1>1, <1>2 DEF Live, IInv, CoreType
<1>6. /\ job \in Asked /\ job # None /\ job.name = rows[d].name
      /\ job.handler = rows[d].handler /\ job.enabled = rows[d].enabled
  BY <1>4, <1>5, NoNone DEF Row, Asked
<1>7. /\ req' \in [Req -> Call]
      /\ \A q \in Req \ {r} : req'[q] = req[q]
      /\ req'[r] # Idle /\ req'[r].pc = "oldstop" /\ req'[r].job = job
      /\ req'[r].at = req[r].at /\ req'[r].id = req[r].id
      /\ req'[r].before = req[r].before /\ req'[r].gid = req[r].gid
  <2> DEFINE c == [req[r] EXCEPT !.pc = "oldstop", !.job = job]
  <2>1. req' = [req EXCEPT ![r] = c]
    BY <1>2, <1>4 DEF Reread
  <2>2. c \in Active /\ c.pc = "oldstop" /\ c.job = job /\ c.at = req[r].at
        /\ c.id = req[r].id /\ c.before = req[r].before /\ c.gid = req[r].gid
    BY <1>3, <1>6 DEF Active, Pc
  <2> HIDE DEF c
  <2>3. c # Idle /\ c \in Call
    BY <2>2, ActiveType DEF Call
  <2> QED
    BY <2>1, <2>2, <2>3 DEF IInv, CoreType
<1>8. UNCHANGED <<up, rows, jobs, live, loose>>
  BY DEF Reread
<1>9. CoreType' /\ NamesInv'
  BY <1>7, <1>8 DEF IInv, CoreType, NamesInv, NameFree
<1>10. ShapeInv'
  <2>1. Shape(r)'
    BY <1>2, <1>3, <1>6, <1>7, <1>8 DEF Shape
  <2> QED
    BY <1>7, <1>8, <2>1 DEF IInv, ShapeInv, Shape
<1>11. /\ \A q \in Req, k \in Instance : Setting(q, k)' <=> Setting(q, k)
       /\ \A q \in Req, k \in Instance : Setting(q, k) => req'[q] = req[q]
  <2>1. \A k \in Instance : ~Setting(r, k) /\ ~Setting(r, k)'
    BY <1>1, <1>7 DEF Setting
  <2> QED
    BY <1>7, <2>1 DEF Setting
<1>12. BookInv'
  BY <1>8, <1>11, BookKept
<1>13. OrphanInv'
  <2> SUFFICES ASSUME NEW k \in up, NEW g \in Gid, live[k][g] # None
               PROVE  \/ jobs[k][live[k][g].name] = g
                      \/ \E q \in Req : Setting(q, k)' /\ req'[q].gid = g
                      \/ live[k][g].name \in loose[k]
    BY <1>8 DEF OrphanInv
  <2>1. k \in Instance
    BY DEF IInv, CoreType
  <2> QED
    BY <1>11, <2>1 DEF IInv, OrphanInv
<1>14. Names(d) = {rows[d].name} /\ Names(d)' = Names(d)
  BY <1>1, <1>2, <1>8 DEF Live, Names
(* It has the row as it wrote it, or nothing of its schedule need follow.   *)
<1>15. /\ Touched(r)' = Touched(r) \/ Touched(r) \subseteq loose[i]
       /\ Touched(r)' \subseteq Touched(r)
  <2>1. Touched(r)' = ({req[r].before} \cup {job.name} \cup Names(d)) \ {None}
    BY <1>2, <1>3, <1>6, <1>7, <1>14 DEF Touched, Names
  <2>2. Touched(r) = ({req[r].before} \cup {req[r].job.name} \cup Names(d)) \ {None}
    BY <1>2, <1>3, NoNone DEF Touched
  <2>3. Touched(r) \subseteq loose[i] \/ rows[d].name = req[r].job.name
    BY <1>1, <1>2, <1>3 DEF Rewritten
  <2> QED
    BY <1>6, <1>14, <2>1, <2>2, <2>3
<1>16. Wrote(r) /\ Wrote(r)'
  BY <1>1, <1>7 DEF Wrote
<1>17. ASSUME NEW k \in Instance, NEW n \in Name, n \notin loose[k], NEW q \in Req
       PROVE  At(q, k, n)' <=> At(q, k, n)
  <2>1. CASE q = r
    BY <1>1, <1>2, <1>7, <1>15, <1>16, <1>17, <2>1 DEF At
  <2>2. CASE q # r
    BY <1>7, <1>8, <2>2 DEF At, Wrote, Touched, Names
  <2> QED
    BY <2>1, <2>2
<1>18. AloneInv'
  BY <1>8, <1>17 DEF IInv, AloneInv
<1>19. RowsInv'
  <2>1. Left(r)'
    <3> SUFFICES ASSUME req[r].before # None, req[r].before \notin loose[i]
                 PROVE  req[r].before = job.name \/ ~HasRow(req[r].before)
      BY <1>2, <1>6, <1>7, <1>8 DEF Left, JobNames, HasRow, Live
    <3>1. req[r].before \in Touched(r)
      BY DEF Touched
    <3>2. rows[d].name = req[r].job.name
      BY <1>1, <1>2, <1>3, <3>1 DEF Rewritten
    <3> QED
      BY <1>1, <1>2, <1>3, <1>6, <3>2 DEF Left, JobNames
  <2>2. (Found(r) /\ Rewritten(r))'
    BY <1>7 DEF Found, Rewritten
  <2>3. Written(r)'
    <3>1. rows[d] = [name |-> job.name, handler |-> job.handler,
                     enabled |-> job.enabled, deleted |-> FALSE]
      BY <1>5, <1>6 DEF Row
    <3> QED
      BY <1>2, <1>7, <1>8, <3>1 DEF Written
  <2>4. Known(r)'
    BY <1>2, <1>6, <1>7, <1>14 DEF Known, JobNames, Names
  <2>5. ASSUME NEW q \in Req, q # r, req[q] # Idle
        PROVE  (Found(q) /\ Left(q) /\ Rewritten(q) /\ Written(q) /\ Known(q))'
    <3>1. Found(q) /\ Left(q) /\ Rewritten(q) /\ Written(q) /\ Known(q) /\ req'[q] = req[q]
      BY <1>7, <2>5 DEF IInv, RowsInv
    <3>2. JobNames(q)' = JobNames(q) /\ Touched(q)' = Touched(q)
      BY <1>8, <3>1 DEF JobNames, Touched, Names
    <3>3. (Found(q) /\ Written(q) /\ Known(q))'
      BY <1>8, <3>1, <3>2 DEF Found, Written, Known, Live, Names
    <3>4. (Left(q) /\ Rewritten(q))'
      BY <1>8, <3>1, <3>2 DEF Left, Rewritten, Live, HasRow
    <3> QED
      BY <3>3, <3>4
  <2> QED
    BY <1>7, <2>1, <2>2, <2>3, <2>4, <2>5 DEF RowsInv
<1>20. DoneInv'
  <2>1. DoneBefore(r)' /\ DoneJob(r)'
    BY <1>7 DEF DoneBefore, DoneJob
  <2>2. ASSUME NEW q \in Req, q # r, req[q] # Idle
        PROVE  DoneBefore(q)' /\ DoneJob(q)'
    BY <1>7, <1>8, <2>2, DoneKept DEF IInv, DoneInv
  <2> QED
    BY <1>7, <2>1, <2>2 DEF DoneInv
<1>21. FollowInv'
  <2>1. up \subseteq Instance
    BY DEF IInv, CoreType
  <2>2. \A k \in Instance, n \in Name : Follows(k, n)' <=> Follows(k, n)
    BY <1>8 DEF Follows, On, Live
  <2> QED
    BY <1>8, <1>17, <2>1, <2>2 DEF IInv, FollowInv
<1> QED
  BY <1>9, <1>10, <1>12, <1>13, <1>18, <1>19, <1>20, <1>21 DEF IInv

LEMMA StopInstanceInv ==
  ASSUME IInv, NEW i \in Instance, Stop(i)
  PROVE  IInv'
<1>1. /\ up' = up \ {i}
      /\ jobs' = [jobs EXCEPT ![i] = [n \in Name |-> None]]
      /\ live' = [live EXCEPT ![i] = [g \in Gid |-> None]]
      /\ req' = [r \in Req |-> IF req[r] # Idle /\ req[r].at = i THEN Idle ELSE req[r]]
      /\ UNCHANGED <<rows, loose>>
  BY DEF Stop
<1>2. /\ req' \in [Req -> Call]
      /\ \A q \in Req : req'[q] # Idle => req'[q] = req[q] /\ req[q].at # i
      /\ \A q \in Req : req[q] # Idle /\ req[q].at # i => req'[q] = req[q]
  BY <1>1 DEF IInv, CoreType, Call
<1>3. /\ jobs' \in [Instance -> [Name -> Gid \cup {None}]]
      /\ \A n \in Name : jobs'[i][n] = None
      /\ \A k \in Instance : k # i => jobs'[k] = jobs[k]
  BY <1>1 DEF IInv, CoreType
<1>4. /\ live' \in [Instance -> [Gid -> Entry \cup {None}]]
      /\ \A k \in Instance : k # i => live'[k] = live[k]
  BY <1>1 DEF IInv, CoreType
<1>5. UNCHANGED <<rows, loose>> /\ up' = up \ {i}
  BY <1>1
<1>6. CoreType' /\ NamesInv'
  BY <1>2, <1>3, <1>4, <1>5 DEF IInv, CoreType, NamesInv, NameFree
<1>7. ShapeInv'
  BY <1>2, <1>5 DEF IInv, ShapeInv, Shape
<1>8. \A q \in Req, k \in Instance :
        Setting(q, k)' => k # i /\ Setting(q, k) /\ req'[q] = req[q]
  BY <1>2 DEF Setting
<1>9. BookInv'
  <2> SUFFICES ASSUME NEW k \in Instance
               PROVE  /\ \A n \in Name : jobs'[k][n] # None =>
                           /\ live'[k][jobs'[k][n]] # None => live'[k][jobs'[k][n]].name = n
                           /\ \A l \in Name : jobs'[k][l] = jobs'[k][n] => l = n
                      /\ \A q \in Req : Setting(q, k)' =>
                           /\ live'[k][req'[q].gid] =
                                [id |-> req'[q].id, name |-> req'[q].job.name,
                                 handler |-> req'[q].job.handler]
                           /\ \A n \in Name : jobs'[k][n] # req'[q].gid
                           /\ \A p \in Req : Setting(p, k)' /\ req'[p].gid = req'[q].gid => p = q
    BY DEF BookInv
  <2>1. CASE k = i
    BY <1>3, <1>8, <2>1
  <2>2. CASE k # i
    <3>1. jobs'[k] = jobs[k] /\ live'[k] = live[k]
      BY <1>3, <1>4, <2>2
    <3> QED
      BY <1>8, <3>1 DEF IInv, BookInv
  <2> QED
    BY <2>1, <2>2
<1>10. \A q \in Req : Kept(q)
  <2>1. ASSUME NEW q \in Req, req'[q] # Idle PROVE Kept(q)
    <3>1. req'[q] = req[q] /\ loose' = loose
      BY <1>2, <1>5, <2>1
    <3> QED
      BY <3>1 DEF Kept
  <2> QED
    BY <2>1 DEF Kept
<1>11. RowsInv' /\ AloneInv'
  BY <1>5, <1>10, RowsKept
<1>12. DoneInv'
  <2> SUFFICES ASSUME NEW q \in Req, req'[q] # Idle
               PROVE  DoneBefore(q)' /\ DoneJob(q)'
    BY DEF DoneInv
  <2>1. req'[q] = req[q] /\ req[q].at \in Instance /\ req[q].at # i
    BY <1>2, CallType DEF IInv
  <2> QED
    BY <1>3, <1>4, <1>5, <2>1, DoneKept DEF IInv, DoneInv
<1>13. FollowInv'
  <2> SUFFICES ASSUME NEW k \in up', NEW n \in Name, n \notin loose[k]
               PROVE  (\E q \in Req : At(q, k, n)') \/ Follows(k, n)'
    BY <1>5 DEF FollowInv
  <2>1. k \in Instance /\ k # i /\ k \in up
    BY <1>5 DEF IInv, CoreType
  <2>2. \A q \in Req : At(q, k, n) => At(q, k, n)'
    BY <1>2, <1>5, <2>1 DEF At, Wrote, Touched, Names
  <2>3. jobs'[k] = jobs[k] /\ live'[k] = live[k]
    BY <1>3, <1>4, <2>1
  <2>4. Follows(k, n)' <=> Follows(k, n)
    BY <1>5, <2>3 DEF Follows, On, Live
  <2> QED
    BY <2>1, <2>2, <2>4 DEF IInv, FollowInv
<1>14. OrphanInv'
  <2> SUFFICES ASSUME NEW k \in up', NEW g \in Gid, live'[k][g] # None
               PROVE  \/ jobs'[k][live'[k][g].name] = g
                      \/ \E q \in Req : Setting(q, k)' /\ req'[q].gid = g
                      \/ live'[k][g].name \in loose[k]
    BY <1>5 DEF OrphanInv
  <2>1. k \in Instance /\ k # i /\ k \in up
    BY <1>5 DEF IInv, CoreType
  <2>2. jobs'[k] = jobs[k] /\ live'[k] = live[k]
    BY <1>3, <1>4, <2>1
  <2>3. \A q \in Req : Setting(q, k) => Setting(q, k)' /\ req'[q] = req[q]
    BY <1>2, <2>1 DEF Setting
  <2> QED
    BY <2>1, <2>2, <2>3 DEF IInv, OrphanInv
<1> QED
  BY <1>6, <1>7, <1>9, <1>11, <1>12, <1>13, <1>14 DEF IInv

(* An instance that starts schedules each enabled row under an id of its    *)
(* own: there are ids enough, as there are as many as rows.                 *)
LEMMA IdsEnough ==
  ASSUME NEW on \in SUBSET Job
  PROVE  \E f \in [on -> Gid] : \A j, k \in on : f[j] = f[k] => j = k
<1>1. /\ IsFiniteSet(Job) /\ IsFiniteSet(Gid) /\ Cardinality(Gid) >= Cardinality(Job)
      /\ Cardinality(Job) \in Nat /\ Cardinality(Gid) \in Nat
  BY SchedulerAssumption, FS_CardinalityType
<1>2. IsFiniteSet(on) /\ Cardinality(on) \in Nat /\ Cardinality(on) <= Cardinality(Job)
  BY <1>1, FS_Subset, FS_CardinalityType
<1>3. PICK a : a \in Bijection(1..Cardinality(on), on)
  BY <1>2, FS_NatBijection, FS_CardinalityType DEF ExistsBijection
<1>4. PICK b : b \in Bijection(1..Cardinality(Gid), Gid)
  BY <1>1, FS_NatBijection, FS_CardinalityType DEF ExistsBijection
<1>5. PICK p, q \in Nat : p = Cardinality(on) /\ q = Cardinality(Gid) /\ p <= q
  BY <1>1, <1>2
<1>6. /\ \A j \in on : \E x \in 1..p : a[x] = j
      /\ \A x \in 1..q : b[x] \in Gid
      /\ \A x, y \in 1..q : b[x] = b[y] => x = y
      /\ \A x \in 1..p : x \in 1..q
  <2>1. \A j \in on : \E x \in 1..p : a[x] = j
    BY <1>3, <1>5 DEF Bijection, Surjection
  <2>2. b \in [1..q -> Gid] /\ \A x, y \in 1..q : b[x] = b[y] => x = y
    BY <1>4, <1>5 DEF Bijection, Injection, IsInjective
  <2>3. \A x \in 1..p : x \in 1..q
    BY <1>5
  <2> QED
    BY <2>1, <2>2, <2>3
<1> DEFINE at(j) == CHOOSE x \in 1..p : a[x] = j
           f == [j \in on |-> b[at(j)]]
<1>7. \A j \in on : at(j) \in 1..p /\ a[at(j)] = j
  BY <1>6
<1> HIDE DEF at
<1>8. f \in [on -> Gid]
  BY <1>6, <1>7
<1>9. ASSUME NEW j \in on, NEW k \in on, f[j] = f[k] PROVE j = k
  <2>1. at(j) = at(k)
    BY <1>6, <1>7, <1>9
  <2> QED
    BY <1>7, <2>1
<1> QED
  BY <1>8, <1>9

LEMMA StartInv ==
  ASSUME IInv, NEW i \in Instance, Start(i)
  PROVE  IInv'
<1> DEFINE on == {j \in Job : Live(j) /\ rows[j].enabled}
           gid == CHOOSE f \in [on -> Gid] : \A j, k \in on : f[j] = f[k] => j = k
           entry(j) == [id |-> j, name |-> rows[j].name, handler |-> rows[j].handler]
<1>1. gid \in [on -> Gid] /\ \A j, k \in on : gid[j] = gid[k] => j = k
  BY IdsEnough
<1>2. /\ live' = [live EXCEPT ![i] = [g \in Gid |->
           IF \E j \in on : gid[j] = g THEN entry(CHOOSE k \in on : gid[k] = g) ELSE None]]
      /\ jobs' = [jobs EXCEPT ![i] = [n \in Name |->
           IF \E j \in on : rows[j].name = n
             THEN gid[CHOOSE j \in on : rows[j].name = n] ELSE None]]
  BY DEF Start
<1>3. /\ i \notin up /\ up' = up \cup {i}
      /\ loose' = [loose EXCEPT ![i] = {}]
      /\ UNCHANGED <<rows, req>>
  BY DEF Start
<1>4. PICK a : a = gid
  OBVIOUS
<1>5. a \in [on -> Gid] /\ \A j, k \in on : a[j] = a[k] => j = k
  BY <1>1, <1>4
<1> HIDE DEF on, gid, entry
<1>6. /\ live' = [live EXCEPT ![i] = [g \in Gid |->
           IF \E j \in on : a[j] = g THEN entry(CHOOSE k \in on : a[k] = g) ELSE None]]
      /\ jobs' = [jobs EXCEPT ![i] = [n \in Name |->
           IF \E j \in on : rows[j].name = n
             THEN a[CHOOSE j \in on : rows[j].name = n] ELSE None]]
  BY <1>2, <1>4
<1> USE DEF on, entry
<1>7. \A j \in on : j \in Job /\ Live(j) /\ rows[j] \in Row /\ rows[j].enabled
  BY DEF IInv, CoreType, Live
<1>8. \A j, k \in on : rows[j].name = rows[k].name => j = k
  BY <1>7 DEF IInv, NamesInv, NameFree, Live
<1>9. \A j \in Job, n \in Name : On(j, n) <=> j \in on /\ rows[j].name = n
  BY DEF On
<1> HIDE DEF on, gid
<1>10. \A j \in on : entry(j) \in Entry /\ entry(j) # None
  BY <1>7, NoNone DEF Entry, Row
<1>11. /\ live' \in [Instance -> [Gid -> Entry \cup {None}]]
       /\ \A k \in Instance : k # i => live'[k] = live[k]
       /\ \A j \in on : live'[i][a[j]] = entry(j)
       /\ \A g \in Gid : live'[i][g] # None => \E j \in on : a[j] = g
  <2> DEFINE new(g) == IF \E j \in on : a[j] = g THEN entry(CHOOSE k \in on : a[k] = g)
                       ELSE None
  <2>1. ASSUME NEW g \in Gid
        PROVE  new(g) \in Entry \cup {None} /\ (new(g) # None => \E j \in on : a[j] = g)
    <3>1. CASE \E j \in on : a[j] = g
      <4>1. (CHOOSE k \in on : a[k] = g) \in on
        BY <3>1
      <4> HIDE DEF entry
      <4> QED
        BY <1>10, <3>1, <4>1
    <3>2. CASE ~\E j \in on : a[j] = g
      BY <3>2
    <3> QED
      BY <3>1, <3>2
  <2>2. ASSUME NEW j \in on
        PROVE  new(a[j]) = entry(j)
    <3>1. (CHOOSE k \in on : a[k] = a[j]) = j
      BY <1>5
    <3> HIDE DEF entry
    <3> QED
      BY <3>1
  <2> HIDE DEF entry, new
  <2>3. live' = [live EXCEPT ![i] = [g \in Gid |-> new(g)]]
    BY <1>6 DEF new
  <2> QED
    BY <1>5, <2>1, <2>2, <2>3 DEF IInv, CoreType
<1>12. /\ jobs' \in [Instance -> [Name -> Gid \cup {None}]]
       /\ \A k \in Instance : k # i => jobs'[k] = jobs[k]
       /\ \A n \in Name, j \in on : rows[j].name = n => jobs'[i][n] = a[j]
       /\ \A n \in Name : jobs'[i][n] # None => \E j \in on : rows[j].name = n
  <2> DEFINE new(n) == IF \E j \in on : rows[j].name = n
                         THEN a[CHOOSE j \in on : rows[j].name = n] ELSE None
  <2>1. ASSUME NEW n \in Name
        PROVE  /\ new(n) \in Gid \cup {None}
               /\ new(n) # None => \E j \in on : rows[j].name = n
    <3>1. CASE \E j \in on : rows[j].name = n
      <4>1. (CHOOSE j \in on : rows[j].name = n) \in on
        BY <3>1
      <4> QED
        BY <1>5, <3>1, <4>1
    <3>2. CASE ~\E j \in on : rows[j].name = n
      BY <3>2
    <3> QED
      BY <3>1, <3>2
  <2>2. ASSUME NEW n \in Name, NEW j \in on, rows[j].name = n
        PROVE  new(n) = a[j]
    <3>1. (CHOOSE k \in on : rows[k].name = n) = j
      BY <1>8, <2>2
    <3> QED
      BY <2>2, <3>1
  <2> HIDE DEF new
  <2>3. jobs' = [jobs EXCEPT ![i] = [n \in Name |-> new(n)]]
    BY <1>6 DEF new
  <2> QED
    BY <2>1, <2>2, <2>3 DEF IInv, CoreType
<1>13. /\ loose' \in [Instance -> SUBSET Name]
       /\ loose'[i] = {}
       /\ \A k \in Instance : k # i => loose'[k] = loose[k]
  BY <1>3 DEF IInv, CoreType
<1>14. CoreType' /\ NamesInv' /\ ShapeInv'
  <2>1. CoreType'
    BY <1>3, <1>11, <1>12, <1>13 DEF IInv, CoreType
  <2>2. NamesInv'
    BY <1>3 DEF IInv, NamesInv, NameFree
  <2>3. ShapeInv'
    BY <1>3 DEF IInv, ShapeInv, Shape
  <2> QED
    BY <2>1, <2>2, <2>3
(* Nobody calls an instance that is down.                                   *)
<1>15. \A q \in Req : req[q] # Idle => req[q].at \in Instance /\ req[q].at # i
  BY <1>3, CallType DEF IInv, ShapeInv, Shape
<1>16. \A q \in Req, k \in Instance :
         (Setting(q, k)' <=> Setting(q, k)) /\ (Setting(q, k) => k # i)
  BY <1>3, <1>15 DEF Setting
<1>17. BookInv'
  <2> SUFFICES ASSUME NEW k \in Instance
               PROVE  /\ \A n \in Name : jobs'[k][n] # None =>
                           /\ live'[k][jobs'[k][n]] # None => live'[k][jobs'[k][n]].name = n
                           /\ \A l \in Name : jobs'[k][l] = jobs'[k][n] => l = n
                      /\ \A q \in Req : Setting(q, k)' =>
                           /\ live'[k][req[q].gid] =
                                [id |-> req[q].id, name |-> req[q].job.name,
                                 handler |-> req[q].job.handler]
                           /\ \A n \in Name : jobs'[k][n] # req[q].gid
                           /\ \A p \in Req : Setting(p, k)' /\ req[p].gid = req[q].gid => p = q
    BY <1>3 DEF BookInv
  <2>1. CASE k = i
    <3>1. ASSUME NEW n \in Name, jobs'[i][n] # None
          PROVE  /\ live'[i][jobs'[i][n]] # None => live'[i][jobs'[i][n]].name = n
                 /\ \A l \in Name : jobs'[i][l] = jobs'[i][n] => l = n
      <4>1. PICK j \in on : rows[j].name = n /\ jobs'[i][n] = a[j]
        BY <1>12, <3>1
      <4>2. live'[i][a[j]].name = n
        <5>1. live'[i][a[j]] = entry(j)
          BY <1>11
        <5> QED
          BY <4>1, <5>1
      <4>3. \A l \in Name : jobs'[i][l] = a[j] => l = n
        <5> SUFFICES ASSUME NEW l \in Name, jobs'[i][l] = a[j]
                     PROVE  l = n
          OBVIOUS
        <5>1. jobs'[i][l] # None
          BY <3>1, <4>1
        <5>2. PICK k2 \in on : rows[k2].name = l /\ jobs'[i][l] = a[k2]
          BY <1>12, <5>1
        <5> QED
          BY <1>5, <4>1, <5>2
      <4> QED
        BY <4>1, <4>2, <4>3
    <3> QED
      BY <1>16, <2>1, <3>1
  <2>2. CASE k # i
    <3>1. jobs'[k] = jobs[k] /\ live'[k] = live[k]
      BY <1>11, <1>12, <2>2
    <3> QED
      BY <1>16, <3>1 DEF IInv, BookInv
  <2> QED
    BY <2>1, <2>2
<1>18. \A q \in Req : Kept(q)
  <2>1. ASSUME NEW q \in Req, req'[q] # Idle PROVE Kept(q)
    BY <1>3, <1>13, <1>15, <2>1 DEF Kept
  <2> QED
    BY <2>1 DEF Kept
<1>19. RowsInv' /\ AloneInv'
  BY <1>3, <1>18, RowsKept
<1>20. DoneInv'
  <2> SUFFICES ASSUME NEW q \in Req, req[q] # Idle
               PROVE  DoneBefore(q)' /\ DoneJob(q)'
    BY <1>3 DEF DoneInv
  <2> QED
    BY <1>3, <1>11, <1>12, <1>13, <1>15, DoneKept DEF IInv, DoneInv
<1>21. FollowInv'
  <2> SUFFICES ASSUME NEW k \in up', NEW n \in Name, n \notin loose'[k]
               PROVE  (\E q \in Req : At(q, k, n)') \/ Follows(k, n)'
    BY DEF FollowInv
  <2>1. k \in Instance
    BY <1>3 DEF IInv, CoreType
  <2>2. CASE k = i
    <3>1. \A j \in Job : On(j, n)' <=> j \in on /\ rows[j].name = n
      BY <1>3, <1>9 DEF On, Live
    <3>2. CASE \E j \in on : rows[j].name = n
      <4>1. PICK j \in on : rows[j].name = n
        BY <3>2
      <4>2. /\ jobs'[i][n] = a[j] /\ a[j] \in Gid /\ a[j] # None
            /\ live'[i][a[j]] = [id |-> j, name |-> n, handler |-> rows[j].handler]
        BY <1>5, <1>11, <1>12, <4>1, NoNone
      <4>3. j \in Job /\ On(j, n)' /\ rows' = rows
        BY <1>3, <1>7, <3>1, <4>1
      <4> QED
        BY <2>2, <4>2, <4>3 DEF Follows
    <3>3. CASE ~\E j \in on : rows[j].name = n
      <4>1. jobs'[i][n] = None
        BY <1>12, <3>3
      <4> QED
        BY <2>2, <3>1, <3>3, <4>1 DEF Follows
    <3> QED
      BY <3>2, <3>3
  <2>3. CASE k # i
    <3>1. jobs'[k] = jobs[k] /\ live'[k] = live[k] /\ loose'[k] = loose[k] /\ k \in up
      BY <1>3, <1>11, <1>12, <1>13, <2>1, <2>3
    <3>2. Follows(k, n)' <=> Follows(k, n)
      BY <1>3, <3>1 DEF Follows, On, Live
    <3>3. \A q \in Req : At(q, k, n)' <=> At(q, k, n)
      BY <1>3 DEF At, Wrote, Touched, Names
    <3> QED
      BY <3>1, <3>2, <3>3 DEF IInv, FollowInv
  <2> QED
    BY <2>2, <2>3
<1>22. OrphanInv'
  <2> SUFFICES ASSUME NEW k \in up', NEW g \in Gid, live'[k][g] # None
               PROVE  \/ jobs'[k][live'[k][g].name] = g
                      \/ \E q \in Req : Setting(q, k)' /\ req'[q].gid = g
                      \/ live'[k][g].name \in loose'[k]
    BY DEF OrphanInv
  <2>1. k \in Instance
    BY <1>3 DEF IInv, CoreType
  <2>2. CASE k = i
    <3>1. PICK j \in on : a[j] = g
      BY <1>11, <2>2
    <3>2. live'[i][g].name = rows[j].name /\ rows[j].name \in Name
      <4>1. live'[i][a[j]] = entry(j)
        BY <1>11
      <4>2. rows[j].name \in Name
        BY <1>7 DEF Row
      <4> QED
        BY <3>1, <4>1, <4>2
    <3> QED
      BY <1>12, <2>2, <3>1, <3>2
  <2>3. CASE k # i
    <3>1. jobs'[k] = jobs[k] /\ live'[k] = live[k] /\ loose'[k] = loose[k] /\ k \in up
      BY <1>3, <1>11, <1>12, <1>13, <2>1, <2>3
    <3> QED
      BY <1>3, <1>16, <2>1, <3>1 DEF IInv, OrphanInv
  <2> QED
    BY <2>2, <2>3
<1> QED
  BY <1>14, <1>17, <1>19, <1>20, <1>21, <1>22 DEF IInv

(* The statement of r: it changes row d under the names r touches, and the  *)
(* calls it crosses have nothing more to follow anywhere.                   *)
LEMMA WriteInv ==
  ASSUME IInv, NEW r \in Req, req[r] # Idle, req[r].pc \in {"create", "update", "delete"},
         NEW d \in Job, req[r].id \in {d, None},
         \A q \in Req \ {r} : req'[q] = req[q],
         req'[r] # Idle, req'[r].pc \in {"reread", "oldstop", "stop"},
         req'[r].pc = "stop" => req[r].before = None,
         req'[r].at = req[r].at, req'[r].before = req[r].before, req'[r].id = d,
         JobNames(r)' = JobNames(r),
         \A j \in Job \ {d} : rows'[j] = rows[j],
         Names(d) \subseteq Touched(r), Names(d)' \subseteq Touched(r),
         \A q \in Req \ {r} : req[q] # Idle /\ req[q].id = d => req[r].id = d,
         loose' = Loosened(r), UNCHANGED <<up, jobs, live>>,
         CoreType', NamesInv', Shape(r)', Left(r)', Rewritten(r)', Written(r)', Known(r)'
  PROVE  IInv'
<1>1. PICK i \in Instance : i = req[r].at
  BY CallType DEF IInv
<1>2. /\ \A k \in Instance : loose[k] \subseteq loose'[k]
      /\ \A k \in Instance : k # i => Touched(r) \subseteq loose'[k]
      /\ \A q \in Crossing(r), k \in Instance :
           Touched(r) \subseteq loose'[k] /\ Touched(q) \subseteq loose'[k]
  BY <1>1, LooseGrows DEF IInv
<1>3. d # None
  BY NoNone
<1>4. \A q \in Req \ {r} : req[q] # Idle /\ req[q].id = d => q \in Crossing(r)
  BY <1>3 DEF Crossing
<1>5. \A q \in Req \ {r} : req[q] # Idle /\ q \notin Crossing(r) =>
        Touched(q) \cap Touched(r) = {}
  BY DEF Crossing
<1>6. ShapeInv'
  BY DEF IInv, ShapeInv, Shape
<1>7. \A q \in Req, k \in Instance :
        (Setting(q, k)' <=> Setting(q, k)) /\ (Setting(q, k) => req'[q] = req[q])
  BY DEF Setting
<1>8. BookInv'
  BY <1>7, BookKept
<1>9. OrphanInv'
  <2> SUFFICES ASSUME NEW k \in up, NEW g \in Gid, live[k][g] # None
               PROVE  \/ jobs[k][live[k][g].name] = g
                      \/ \E q \in Req : Setting(q, k)' /\ req'[q].gid = g
                      \/ live[k][g].name \in loose'[k]
    BY DEF OrphanInv
  <2>1. k \in Instance
    BY DEF IInv, CoreType
  <2> QED
    BY <1>2, <1>7, <2>1 DEF IInv, OrphanInv
(* What the rows say of a name that r does not touch.                       *)
<1>10. \A j \in Job : j # d => Names(j)' = Names(j) /\ (Live(j)' <=> Live(j))
  BY DEF Names, Live
<1>11. ASSUME NEW n \in Name, n \notin Touched(r)
       PROVE  /\ HasRow(n)' <=> HasRow(n)
              /\ \A j \in Job : (On(j, n)' <=> On(j, n)) /\ (On(j, n) => rows'[j] = rows[j])
  <2>1. ~(Live(d) /\ rows[d].name = n)
    BY <1>11 DEF Live, Names
  <2>2. ~(Live(d)' /\ rows'[d].name = n)
    BY <1>11 DEF Live, Names
  <2> QED
    BY <1>10, <2>1, <2>2 DEF HasRow, On
(* The other calls: those r crosses touch only loose names from now on ...  *)
<1>12. ASSUME NEW q \in Req \ {r}, q \in Crossing(r), NEW k \in Instance
       PROVE  Touched(q)' \subseteq loose'[k] /\ Touched(q) \subseteq loose'[k]
  <2>1. req'[q] = req[q] /\ Touched(r) \subseteq loose'[k] /\ Touched(q) \subseteq loose'[k]
    BY <1>2, <1>12
  <2>2. Touched(q)' \subseteq Touched(q) \cup Touched(r)
    <3>1. req[q] # Idle
      BY <1>12 DEF Crossing
    <3>2. req[q].id \in Job \cup {None}
      BY <3>1, CallType DEF IInv
    <3>3. CASE req[q].id = d
      <4>1. Names(req[q].id)' \subseteq Touched(r)
        BY <2>1, <3>3
      <4> QED
        BY <2>1, <4>1 DEF Touched
    <3>4. CASE req[q].id # d
      <4>1. req[q].id # None => Names(req[q].id)' = Names(req[q].id)
        BY <1>10, <2>1, <3>2, <3>4
      <4> QED
        BY <2>1, <4>1 DEF Touched
    <3> QED
      BY <3>3, <3>4
  <2> QED
    BY <2>1, <2>2
(* ... and for the rest, rows and names are as they were.                   *)
<1>13. ASSUME NEW q \in Req \ {r}, req[q] # Idle, q \notin Crossing(r)
       PROVE  /\ req'[q] = req[q] /\ req[q].id # d
              /\ req[q].id # None => rows'[req[q].id] = rows[req[q].id]
              /\ Touched(q)' = Touched(q)
  <2>1. req'[q] = req[q] /\ req[q].id # d
    BY <1>4, <1>13
  <2>2. req[q].id \in Job \cup {None}
    BY <1>13, CallType DEF IInv
  <2>3. req[q].id # None => rows'[req[q].id] = rows[req[q].id]
    BY <2>1, <2>2
  <2>4. Touched(q)' = Touched(q)
    BY <2>1, <2>3 DEF Touched, Names
  <2> QED
    BY <2>1, <2>3, <2>4
<1>14. RowsInv'
  <2>1. Found(r)'
    BY DEF Found
  <2>2. ASSUME NEW q \in Req \ {r}, req[q] # Idle, q \in Crossing(r)
        PROVE  (Found(q) /\ Left(q) /\ Rewritten(q) /\ Written(q) /\ Known(q))'
    <3>1. PICK k \in Instance : k = req[q].at
      BY <2>2, CallType DEF IInv
    <3>2. req'[q] = req[q] /\ Touched(q)' \subseteq loose'[k] /\ Touched(q) \subseteq loose'[k]
      BY <1>12, <2>2
    <3>3. /\ req[q].before # None => req[q].before \in Touched(q)
          /\ req[q].id # None => Names(req[q].id)' \subseteq Touched(q)'
      <4>1. CoreType' /\ None \notin Name
        BY NoNone
      <4>2. \A j \in Job : None \notin Names(j)'
        BY <4>1 DEF CoreType, Names, Row
      <4>3. req[q].id \in Job \cup {None}
        BY <2>2, CallType DEF IInv
      <4>4. \A j \in Job : req[q].id = j => Names(j)' \subseteq Touched(q)'
        BY <3>2, <4>2, NoNone DEF Touched
      <4>5. req[q].id # None => Names(req[q].id)' \subseteq Touched(q)'
        BY <3>2, <4>3, <4>4
      <4> QED
        BY <4>5 DEF Touched
    <3>4. req[q].job # None => req[q].job.name \in Touched(q)
      <4>1. req[q].job # None => req[q].job.name # None
        BY <2>2, CallType, NoNone DEF IInv, Asked
      <4> QED
        BY <4>1 DEF Touched
    <3>5. req[q].pc \in {"update", "delete"} => req[q].before # None
      BY <2>2, NoNone DEF IInv, ShapeInv, Shape
    <3>6. Found(q)'
      BY <3>1, <3>2, <3>3, <3>5 DEF Found
    <3>7. (Left(q) /\ Written(q))'
      BY <3>1, <3>2, <3>3, <3>4 DEF Left, Written
    <3>8. (Rewritten(q) /\ Known(q))'
      BY <3>1, <3>2, <3>3 DEF Rewritten, Known
    <3> QED
      BY <3>6, <3>7, <3>8
  <2>3. ASSUME NEW q \in Req \ {r}, req[q] # Idle, q \notin Crossing(r)
        PROVE  (Found(q) /\ Left(q) /\ Rewritten(q) /\ Written(q) /\ Known(q))'
    <3>1. PICK k \in Instance : k = req[q].at
      BY <2>3, CallType DEF IInv
    <3>2. /\ req'[q] = req[q]
          /\ req[q].id # None => rows'[req[q].id] = rows[req[q].id]
          /\ Touched(q)' = Touched(q) /\ loose[k] \subseteq loose'[k]
      BY <1>2, <1>13, <2>3
    <3>3. Found(q) /\ Left(q) /\ Rewritten(q) /\ Written(q) /\ Known(q) /\ Shape(q)
      BY <2>3 DEF IInv, RowsInv, ShapeInv
    <3>4. CASE req[q].id = None
      <4>1. req[q].pc = "create"
        BY <3>3, <3>4, NoNone DEF Shape
      <4> QED
        BY <3>2, <3>4, <4>1 DEF Found, Left, Rewritten, Written, Known, Moved
    <3>5. CASE req[q].id # None
      <4>1. rows'[req[q].id] = rows[req[q].id]
        BY <3>2, <3>5
      <4>2. JobNames(q)' = JobNames(q)
        BY <3>2 DEF JobNames
      <4>3. (Found(q) /\ Written(q) /\ Known(q))'
        BY <3>1, <3>2, <3>3, <4>1, <4>2 DEF Found, Written, Known, Live, Names
      <4>4. Rewritten(q)'
        BY <3>1, <3>2, <3>3, <4>1 DEF Rewritten, Live
      <4>5. Left(q)'
        <5> SUFFICES ASSUME req[q].pc \in Moved \cup {"reread"}, req[q].before # None,
                            req[q].before \notin loose'[k]
                     PROVE  req[q].before \in JobNames(q) \/ ~HasRow(req[q].before)'
          BY <3>1, <3>2, <4>2 DEF Left, HasRow, Live
        <5>1. PICK n \in Name : n = req[q].before
          BY <2>3, CallType DEF IInv
        <5>2. n \in Touched(q)
          BY <5>1 DEF Touched
        <5>3. n \notin Touched(r)
          BY <1>5, <2>3, <5>2
        <5>4. HasRow(req[q].before)' <=> HasRow(n)
          <6>1. HasRow(req[q].before)' <=> HasRow(n)'
            BY <3>2, <5>1 DEF HasRow, Live
          <6> QED
            BY <1>11, <5>3, <6>1
        <5> QED
          BY <3>1, <3>2, <3>3, <5>1, <5>4 DEF Left
      <4> QED
        BY <4>3, <4>4, <4>5
    <3> QED
      BY <3>4, <3>5
  <2> QED
    BY <2>1, <2>2, <2>3 DEF RowsInv
<1>15. Touched(r)' \subseteq Touched(r)
  <2>1. Touched(r)' \subseteq {req[r].before} \cup JobNames(r) \cup Names(d)'
    BY <1>3 DEF Touched, JobNames
  <2>2. None \notin Touched(r)'
    BY DEF Touched
  <2>3. ({req[r].before} \cup JobNames(r)) \ {None} \subseteq Touched(r)
    BY DEF Touched, JobNames
  <2> QED
    BY <2>1, <2>2, <2>3
<1>16. \A q \in Req \ {r}, k \in Instance, n \in Name :
         n \notin loose'[k] => (At(q, k, n)' <=> At(q, k, n))
  <2> SUFFICES ASSUME NEW q \in Req \ {r}, NEW k \in Instance, NEW n \in Name,
                      n \notin loose'[k]
               PROVE  At(q, k, n)' <=> At(q, k, n)
    OBVIOUS
  <2>1. CASE req[q] # Idle /\ q \in Crossing(r)
    <3>1. n \notin Touched(q) /\ n \notin Touched(q)'
      BY <1>12, <2>1
    <3> QED
      BY <3>1 DEF At
  <2>2. CASE req[q] # Idle /\ q \notin Crossing(r)
    BY <1>13, <2>2 DEF At, Wrote
  <2>3. CASE req[q] = Idle
    BY <2>3 DEF At
  <2> QED
    BY <2>1, <2>2, <2>3
<1>17. AloneInv'
  <2> SUFFICES ASSUME NEW k \in Instance, NEW n \in Name, n \notin loose'[k],
                      NEW q \in Req, NEW p \in Req, At(q, k, n)', At(p, k, n)'
               PROVE  q = p
    BY DEF AloneInv
  <2>1. ASSUME NEW o \in Req \ {r}, At(o, k, n)' PROVE n \notin Touched(r)
    <3>1. At(o, k, n)
      BY <1>16, <2>1
    <3>2. o \notin Crossing(r)
      BY <1>12, <3>1 DEF At
    <3> QED
      BY <1>5, <3>1, <3>2 DEF At
  <2>2. At(r, k, n)' => n \in Touched(r)
    BY <1>15 DEF At
  <2>3. CASE q # r /\ p # r
    <3>1. At(q, k, n) /\ At(p, k, n) /\ n \notin loose[k]
      BY <1>2, <1>16, <2>3
    <3> QED
      BY <3>1 DEF IInv, AloneInv
  <2>4. CASE q = r /\ p # r
    BY <2>1, <2>2, <2>4
  <2>5. CASE q # r /\ p = r
    BY <2>1, <2>2, <2>5
  <2> QED
    BY <2>3, <2>4, <2>5
<1>18. DoneInv'
  <2>1. DoneBefore(r)' /\ DoneJob(r)'
    <3>1. req'[r].pc \notin {"olddrop", "drop", "new", "set"}
      OBVIOUS
    <3>2. CASE req'[r].pc = "stop"
      <4>1. req'[r].before = None
        BY <3>2
      <4> QED
        BY <3>1, <3>2, <4>1 DEF DoneBefore, DoneJob
    <3>3. CASE req'[r].pc # "stop"
      BY <3>1, <3>3 DEF DoneBefore, DoneJob
    <3> QED
      BY <3>2, <3>3
  <2>2. ASSUME NEW q \in Req \ {r}, req[q] # Idle
        PROVE  DoneBefore(q)' /\ DoneJob(q)'
    <3>1. req[q].at \in Instance
      BY <2>2, CallType DEF IInv
    <3> QED
      BY <1>2, <2>2, <3>1, DoneKept DEF IInv, DoneInv
  <2> QED
    BY <2>1, <2>2 DEF DoneInv
<1>19. FollowInv'
  <2> SUFFICES ASSUME NEW k \in up, NEW n \in Name, n \notin loose'[k]
               PROVE  (\E q \in Req : At(q, k, n)') \/ Follows(k, n)'
    BY DEF FollowInv
  <2>1. k \in Instance /\ n \notin loose[k] /\ n # None
    BY <1>2, NoNone DEF IInv, CoreType
  <2>2. CASE n \in Touched(r)
    <3>1. k = i /\ Wrote(r)'
      BY <1>2, <2>1, <2>2 DEF Wrote
    <3>2. Known(r)
      BY DEF IInv, RowsInv
    <3>3. n \in {req[r].before} \cup JobNames(r)
      BY <1>1, <2>1, <2>2, <3>1, <3>2 DEF Touched, Known, JobNames
    <3>4. n \in Touched(r)'
      BY <2>1, <3>3 DEF Touched, JobNames
    <3> QED
      BY <1>1, <3>1, <3>4 DEF At
  <2>3. CASE n \notin Touched(r)
    <3>1. Follows(k, n) => Follows(k, n)'
      BY <1>11, <2>3 DEF Follows
    <3>2. ~At(r, k, n)
      BY <2>3 DEF At
    <3> QED
      BY <1>16, <2>1, <3>1, <3>2 DEF IInv, FollowInv
  <2> QED
    BY <2>2, <2>3
<1> QED
  BY <1>6, <1>8, <1>9, <1>14, <1>17, <1>18, <1>19 DEF IInv

LEMMA CreateRowInv ==
  ASSUME IInv, NEW r \in Req, NEW d \in Job, CreateRow(r, d)
  PROVE  IInv'
<1>1. req[r] # Idle /\ req[r].pc = "create"
  BY DEF CreateRow, Idle
<1>2. /\ req[r] \in Active /\ req[r].at \in up /\ req[r].id = None
      /\ req[r].before = None /\ req[r].job \in Asked /\ req[r].job # None
      /\ req[r].gid = None
  BY <1>1, CallType, NoNone DEF IInv, ShapeInv, Shape
<1>3. PICK job \in Asked : /\ job = [req[r].job EXCEPT !.enabled = TRUE]
                           /\ job.name = req[r].job.name
                           /\ job.handler = req[r].job.handler /\ job.enabled = TRUE
  <2> DEFINE w == [req[r].job EXCEPT !.enabled = TRUE]
  <2>1. /\ w \in Asked /\ w.name = req[r].job.name /\ w.handler = req[r].job.handler
        /\ w.enabled = TRUE
    BY <1>2 DEF Asked
  <2> QED
    BY <2>1
<1>4. PICK e \in Row :
        e = [name |-> job.name, handler |-> job.handler, enabled |-> TRUE,
             deleted |-> FALSE]
  BY DEF Row, Asked
<1>5. /\ Fresh(d) /\ NameFree(job.name, d)
      /\ rows' = [rows EXCEPT ![d] = e]
      /\ req' = [req EXCEPT ![r].pc = "stop", ![r].id = d, ![r].job = job]
      /\ loose' = Loosened(r) /\ UNCHANGED <<up, jobs, live>>
  BY <1>3, <1>4 DEF CreateRow
<1>6. /\ req' \in [Req -> Call]
      /\ \A q \in Req \ {r} : req'[q] = req[q]
      /\ req'[r] # Idle /\ req'[r].pc = "stop" /\ req'[r].id = d /\ req'[r].job = job
      /\ req'[r].at = req[r].at /\ req'[r].before = None /\ req'[r].gid = None
  <2> DEFINE c == [req[r] EXCEPT !.pc = "stop", !.id = d, !.job = job]
  <2>1. req' = [req EXCEPT ![r] = c]
    BY <1>5
  <2>2. c \in Active /\ c.pc = "stop" /\ c.id = d /\ c.job = job /\ c.at = req[r].at
        /\ c.before = None /\ c.gid = None
    BY <1>2, <1>3 DEF Active, Pc
  <2> HIDE DEF c
  <2>3. c # Idle /\ c \in Call
    BY <2>2, ActiveType DEF Call
  <2> QED
    BY <2>1, <2>2, <2>3 DEF IInv, CoreType
<1>7. /\ rows' \in [Job -> Row \cup {None}]
      /\ rows'[d] = e /\ e # None /\ e.name = job.name
      /\ \A j \in Job \ {d} : rows'[j] = rows[j]
  BY <1>4, <1>5, NoNone DEF IInv, CoreType
<1>8. loose' = Loosened(r) /\ UNCHANGED <<up, jobs, live>> /\ job # None /\ d # None
  BY <1>5, NoNone
<1>9. CoreType'
  BY <1>1, <1>6, <1>7, <1>8, LooseGrows DEF IInv, CoreType
<1>10. NamesInv'
  BY <1>5, <1>7 DEF IInv, NamesInv, NameFree
<1>11. rows[d] = None /\ \A q \in Req : req[q] # Idle => req[q].id # d
  BY <1>5 DEF Fresh
<1>12. Names(d) = {} /\ Names(d)' = {job.name}
  BY <1>7, <1>11 DEF Names
<1>13. JobNames(r) = {job.name} /\ JobNames(r)' = {job.name}
  BY <1>2, <1>3, <1>6, <1>8 DEF JobNames
<1>14. job.name \in Touched(r)
  BY <1>2, <1>3, NoNone DEF Touched, Asked
<1>15. Shape(r)'
  BY <1>2, <1>3, <1>6, <1>8 DEF Shape
<1>16. Left(r)' /\ Rewritten(r)'
  BY <1>6 DEF Left, Rewritten
<1>17. Written(r)'
  BY <1>3, <1>4, <1>6, <1>7 DEF Written
<1>18. Known(r)'
  <2>1. Names(req[r].id)' = {job.name}
    BY <1>6, <1>12 DEF Names
  <2> QED
    BY <1>13, <2>1 DEF Known
<1> QED
  BY <1>1, <1>2, <1>6, <1>7, <1>8, <1>9, <1>10, <1>11, <1>12, <1>13, <1>14, <1>15,
     <1>16, <1>17, <1>18, WriteInv, ZenonT(30)

LEMMA UpdateRowInv ==
  ASSUME IInv, NEW r \in Req, UpdateRow(r)
  PROVE  IInv'
<1>1. req[r] # Idle /\ req[r].pc = "update"
  BY DEF UpdateRow, Idle
<1>2. PICK d \in Job, i \in Instance : d = req[r].id /\ i = req[r].at
  BY <1>1, CallType DEF IInv, ShapeInv, Shape
<1>3. /\ req[r] \in Active /\ req[r].at \in up /\ req[r].before \in Name
      /\ req[r].job \in Asked /\ req[r].job # None /\ req[r].gid = None
      /\ Found(r) /\ Known(r)
  BY <1>1, CallType, NoNone DEF IInv, ShapeInv, Shape, RowsInv
<1>4. PICK e \in Row :
        /\ e = [name |-> req[r].job.name, handler |-> req[r].job.handler,
                enabled |-> req[r].job.enabled, deleted |-> FALSE]
        /\ e.name = req[r].job.name /\ ~e.deleted
  <2> DEFINE w == [name |-> req[r].job.name, handler |-> req[r].job.handler,
                   enabled |-> req[r].job.enabled, deleted |-> FALSE]
  <2>1. w \in Row /\ w.name = req[r].job.name /\ ~w.deleted
    BY <1>3 DEF Row, Asked
  <2> QED
    BY <2>1
<1>5. /\ Live(d) => NameFree(e.name, d)
      /\ rows' = IF Live(d) THEN [rows EXCEPT ![d] = e] ELSE rows
      /\ Advance(r, "reread")
      /\ loose' = Loosened(r) /\ UNCHANGED <<up, jobs, live>>
  BY <1>2, <1>4 DEF UpdateRow
<1>6. /\ req' \in [Req -> Call]
      /\ \A q \in Req \ {r} : req'[q] = req[q]
      /\ req'[r] # Idle /\ req'[r].pc = "reread" /\ req'[r].id = d
      /\ req'[r].job = req[r].job /\ req'[r].at = req[r].at
      /\ req'[r].before = req[r].before /\ req'[r].gid = None
  <2>1. "reread" \in Pc
    BY DEF Pc
  <2> QED
    BY <1>1, <1>2, <1>3, <1>5, <2>1, Advanced DEF IInv
<1>7. /\ rows' \in [Job -> Row \cup {None}]
      /\ rows'[d] = (IF Live(d) THEN e ELSE rows[d]) /\ e # None
      /\ \A j \in Job \ {d} : rows'[j] = rows[j]
  BY <1>4, <1>5, NoNone DEF IInv, CoreType
<1>8. loose' = Loosened(r) /\ UNCHANGED <<up, jobs, live>> /\ d # None
  BY <1>5, NoNone
<1>9. CoreType'
  BY <1>1, <1>6, <1>7, <1>8, LooseGrows DEF IInv, CoreType
<1>10. NamesInv'
  <2>1. CASE Live(d)
    BY <1>5, <1>7, <2>1 DEF IInv, NamesInv, NameFree
  <2>2. CASE ~Live(d)
    BY <1>5, <2>2 DEF IInv, NamesInv, NameFree
  <2> QED
    BY <2>1, <2>2
<1>11. Live(d)' <=> Live(d)
  BY <1>4, <1>7 DEF Live
<1>12. /\ Names(d)' = IF Live(d) THEN {req[r].job.name} ELSE Names(d)
       /\ JobNames(r)' = JobNames(r) /\ JobNames(r) = {req[r].job.name}
  BY <1>3, <1>4, <1>6, <1>7 DEF Names, JobNames
<1>13. /\ req[r].job.name \in Touched(r) /\ req[r].before \in Touched(r)
       /\ Names(d) \subseteq Touched(r)
  <2>1. None \notin Names(d)
    BY NoNone DEF IInv, CoreType, Names, Row
  <2>2. req[r].job.name # None /\ req[r].before # None
    BY <1>3, NoNone DEF Asked
  <2> QED
    BY <1>2, <1>3, <1>8, <2>1, <2>2 DEF Touched
<1>14. Names(d)' \subseteq Touched(r)
  BY <1>12, <1>13
<1>15. Shape(r)'
  BY <1>3, <1>6, <1>8 DEF Shape
<1>16. loose[i] \subseteq loose'[i]
  BY <1>1, <1>8, LooseGrows DEF IInv
<1>17. Left(r)'
  <2> SUFFICES ASSUME req[r].before \notin loose'[i], req[r].before # req[r].job.name,
                      NEW j \in Job, Live(j)', rows'[j].name = req[r].before
               PROVE  FALSE
    BY <1>2, <1>6, <1>12 DEF Left, HasRow, Live
  <2>1. Live(d) /\ rows[d].name = req[r].before
    BY <1>1, <1>2, <1>3, <1>16 DEF Found
  <2>2. j # d
    BY <1>4, <1>7, <2>1
  <2>3. rows[j] # None /\ rows[j].name = rows[d].name
    BY <1>7, <2>1, <2>2 DEF Live
  <2> QED
    BY <2>1, <2>2, <2>3 DEF IInv, NamesInv, NameFree, Live
<1>18. Rewritten(r)' /\ Written(r)'
  <2>1. Live(d)' => rows'[d].name = req[r].job.name
    BY <1>4, <1>7, <1>11
  <2>2. Live(req[r].id)' => Live(d)'
    BY <1>6 DEF Live
  <2> QED
    BY <1>6, <2>1, <2>2 DEF Rewritten, Written, Moved
<1>19. Known(r)'
  <2>1. Names(req[r].id)' = Names(d)'
    BY <1>6
  <2> QED
    BY <1>2, <1>3, <1>6, <1>8, <1>12, <1>16, <2>1 DEF Known
<1> QED
  BY <1>1, <1>2, <1>6, <1>7, <1>8, <1>9, <1>10, <1>12, <1>13, <1>14, <1>15,
     <1>17, <1>18, <1>19, WriteInv

LEMMA DeleteRowInv ==
  ASSUME IInv, NEW r \in Req, DeleteRow(r)
  PROVE  IInv'
<1>1. req[r] # Idle /\ req[r].pc = "delete"
  BY DEF DeleteRow, Idle
<1>2. PICK d \in Job, i \in Instance : d = req[r].id /\ i = req[r].at
  BY <1>1, CallType DEF IInv, ShapeInv, Shape
<1>3. /\ req[r] \in Active /\ req[r].at \in up /\ req[r].before \in Name
      /\ req[r].job = None /\ req[r].gid = None
      /\ Found(r) /\ Known(r)
  BY <1>1, CallType DEF IInv, ShapeInv, Shape, RowsInv
<1>4. PICK e : e = [rows[d] EXCEPT !.deleted = TRUE]
  OBVIOUS
<1>5. rows[d] # None => e \in Row /\ e # None /\ e.deleted /\ e.name = rows[d].name
  <2>1. rows[d] # None => e \in Row /\ e.deleted /\ e.name = rows[d].name
    BY <1>4 DEF IInv, CoreType, Row
  <2> QED
    BY <2>1, NoNone
<1>6. /\ rows' = IF rows[d] = None THEN rows ELSE [rows EXCEPT ![d] = e]
      /\ Advance(r, "oldstop")
      /\ loose' = Loosened(r) /\ UNCHANGED <<up, jobs, live>>
  BY <1>2, <1>4 DEF DeleteRow
<1>7. /\ req' \in [Req -> Call]
      /\ \A q \in Req \ {r} : req'[q] = req[q]
      /\ req'[r] # Idle /\ req'[r].pc = "oldstop" /\ req'[r].id = d
      /\ req'[r].job = None /\ req'[r].at = req[r].at
      /\ req'[r].before = req[r].before /\ req'[r].gid = None
  <2>1. "oldstop" \in Pc
    BY DEF Pc
  <2> QED
    BY <1>1, <1>2, <1>3, <1>6, <2>1, Advanced DEF IInv
<1>8. /\ rows' \in [Job -> Row \cup {None}]
      /\ rows'[d] = (IF rows[d] = None THEN None ELSE e)
      /\ \A j \in Job \ {d} : rows'[j] = rows[j]
  BY <1>5, <1>6 DEF IInv, CoreType
<1>9. loose' = Loosened(r) /\ UNCHANGED <<up, jobs, live>> /\ d # None
  BY <1>6, NoNone
<1>10. CoreType'
  BY <1>1, <1>7, <1>8, <1>9, LooseGrows DEF IInv, CoreType
<1>11. \A j \in Job : (rows'[j] = None <=> rows[j] = None)
                      /\ (rows[j] # None => rows'[j].name = rows[j].name)
  BY <1>5, <1>8
<1>12. NamesInv'
  BY <1>11 DEF IInv, NamesInv, NameFree
<1>13. ~Live(d)'
  BY <1>5, <1>8 DEF Live
<1>14. Names(d)' = Names(d) /\ JobNames(r)' = JobNames(r)
  BY <1>3, <1>7, <1>11 DEF Names, JobNames
<1>15. Names(d) \subseteq Touched(r)
  <2>1. None \notin Names(d)
    BY NoNone DEF IInv, CoreType, Names, Row
  <2> QED
    BY <1>2, <1>9, <2>1 DEF Touched
<1>16. Shape(r)'
  BY <1>3, <1>7, <1>9 DEF Shape
<1>17. loose[i] \subseteq loose'[i]
  BY <1>1, <1>9, LooseGrows DEF IInv
<1>18. Left(r)'
  <2> SUFFICES ASSUME req[r].before \notin loose'[i],
                      NEW j \in Job, Live(j)', rows'[j].name = req[r].before
               PROVE  FALSE
    BY <1>2, <1>7 DEF Left, HasRow, Live
  <2>1. Live(d) /\ rows[d].name = req[r].before
    BY <1>1, <1>2, <1>3, <1>17 DEF Found
  <2>2. j # d
    BY <1>13
  <2>3. rows[j] # None /\ rows[j].name = rows[d].name
    BY <1>8, <2>1, <2>2 DEF Live
  <2> QED
    BY <2>1, <2>2, <2>3 DEF IInv, NamesInv, NameFree, Live
<1>19. Rewritten(r)' /\ Written(r)'
  BY <1>7 DEF Rewritten, Written
<1>20. Known(r)'
  <2>1. Names(req[r].id)' = Names(d)'
    BY <1>7
  <2> QED
    BY <1>2, <1>3, <1>7, <1>9, <1>14, <1>17, <2>1 DEF Known
<1> QED
  BY <1>1, <1>2, <1>7, <1>8, <1>9, <1>10, <1>12, <1>14, <1>15, <1>16,
     <1>18, <1>19, <1>20, WriteInv
-----------------------------------------------------------------------------
LEMMA InitInv == Init => IInv
<1> SUFFICES ASSUME Init PROVE IInv
  OBVIOUS
<1>1. /\ up = {} /\ rows \in [Job -> Row \cup {None}]
      /\ jobs = [i \in Instance |-> [n \in Name |-> None]]
      /\ live = [i \in Instance |-> [g \in Gid |-> None]]
      /\ req = [r \in Req |-> Idle]
      /\ loose = [i \in Instance |-> {}]
      /\ \A j \in Job : rows[j] # None => NameFree(rows[j].name, j)
  BY DEF Init
<1>2. CoreType
  BY <1>1 DEF CoreType, Call
<1>3. \A r \in Req : req[r] = Idle
  BY <1>1
<1>4. ShapeInv /\ NamesInv /\ RowsInv /\ DoneInv /\ AloneInv
  BY <1>1, <1>3 DEF ShapeInv, NamesInv, RowsInv, DoneInv, AloneInv, At
<1>5. BookInv
  BY <1>1, <1>3 DEF BookInv, Setting
<1>6. FollowInv /\ OrphanInv
  BY <1>1 DEF FollowInv, OrphanInv
<1> QED
  BY <1>2, <1>4, <1>5, <1>6 DEF IInv

LEMMA JobServiceInv ==
  ASSUME IInv, NEW r \in Req, JobService(r)
  PROVE  IInv'
<1>1. ASSUME NEW i \in Instance, NEW job \in Asked, CreateFind(r, i, job) PROVE IInv'
  <2>1. Begin(r, i, "create", None, None, job)
    BY <1>1 DEF CreateFind
  <2> QED
    BY <2>1, BeginInv
<1>2. ASSUME NEW j \in Job, CreateRow(r, j) PROVE IInv'
  BY <1>2, CreateRowInv
<1>3. ASSUME NEW i \in Instance, NEW j \in Job, NEW job \in Asked, UpdateFind(r, i, j, job)
      PROVE  IInv'
  <2>1. Live(j) /\ Begin(r, i, "update", j, rows[j].name, job)
    BY <1>3 DEF UpdateFind
  <2>2. PICK n \in Name : n = rows[j].name
    BY <2>1 DEF Live, IInv, CoreType, Row
  <2> QED
    BY <2>1, <2>2, BeginInv
<1>4. ASSUME UpdateRow(r) PROVE IInv'
  BY <1>4, UpdateRowInv
<1>5. ASSUME Reread(r) PROVE IInv'
  BY <1>5, RereadInv
<1>6. ASSUME NEW i \in Instance, NEW j \in Job, DeleteFind(r, i, j) PROVE IInv'
  <2>1. Live(j) /\ Begin(r, i, "delete", j, rows[j].name, None)
    BY <1>6 DEF DeleteFind
  <2>2. PICK n \in Name : n = rows[j].name
    BY <2>1 DEF Live, IInv, CoreType, Row
  <2> QED
    BY <2>1, <2>2, BeginInv
<1>7. ASSUME DeleteRow(r) PROVE IInv'
  BY <1>7, DeleteRowInv
<1>8. ASSUME RemoveBefore(r) PROVE IInv'
  BY <1>8, RemoveBeforeInv
<1>9. ASSUME Replace(r) PROVE IInv'
  BY <1>9, ReplaceInv
<1>10. ASSUME NewJob(r) PROVE IInv'
  BY <1>10, NewJobInv
<1>11. ASSUME SetKey(r) PROVE IInv'
  BY <1>11, SetKeyInv
<1>12. ASSUME Abort(r) PROVE IInv'
  BY <1>12, AbortInv
<1> QED
  BY <1>1, <1>2, <1>3, <1>4, <1>5, <1>6, <1>7, <1>8, <1>9, <1>10, <1>11, <1>12
     DEF JobService, CreateJob, UpdateJob, DeleteJob, Reschedule

LEMMA InvNext == IInv /\ [Next]_vars => IInv'
<1> SUFFICES ASSUME IInv, [Next]_vars PROVE IInv'
  OBVIOUS
<1>1. ASSUME NEW r \in Req, JobService(r) PROVE IInv'
  BY <1>1, JobServiceInv
<1>2. ASSUME NEW i \in Instance, Runner(i) PROVE IInv'
  BY <1>2, Unmoved DEF Runner, Fire, RunNow, wrap, Finish
<1>3. ASSUME NEW i \in Instance, Stop(i) PROVE IInv'
  BY <1>3, StopInstanceInv
<1>4. ASSUME NEW i \in Instance, NEW n \in Builtin, NEW j \in Job,
             NEW h \in Handler \ PluginHandler, syncJobs(i, n, j, h)
      PROVE  IInv'
  BY <1>4, syncJobsInv
<1>5. ASSUME NEW i \in Instance, Start(i) PROVE IInv'
  BY <1>5, StartInv
<1>6. ASSUME Purge PROVE IInv'
  BY <1>6, PurgeInv
<1>7. ASSUME UNCHANGED own PROVE IInv'
  BY <1>7, Unmoved DEF own
<1>8. CASE UNCHANGED vars
  BY <1>7, <1>8 DEF vars
<1> QED
  BY <1>1, <1>2, <1>3, <1>4, <1>5, <1>6, <1>7, <1>8
     DEF Next, Process, SetEnabled, ReloadRead, ReloadSwap

(* What keeps each schedule and the rows together, through every overlap of *)
(* calls, starts, stops and purges (JobService, Scheduler and syncJobs).    *)
THEOREM SchedulerInvariant == Spec => []IInv
BY InitInv, InvNext, PTL DEF Spec

(* What an instance has scheduled under a name - the entry of Scheduler.jobs*)
(* and the job gocron holds - is the enabled row of that name, or nothing   *)
(* if there is none, unless a call is at work on the name or calls on it    *)
(* overlapped, broke off or ran elsewhere: CreateJob, UpdateJob and         *)
(* DeleteJob leave behind what the table says.                              *)
THEOREM ScheduleFollows == Spec => []ScheduleFollowsRows
<1>1. ASSUME IInv PROVE ScheduleFollowsRows
  <2> SUFFICES ASSUME NEW i \in up, NEW n \in Name, n \notin loose[i], ~Changing(i, n)
               PROVE  LET on == {j \in Job : Live(j) /\ rows[j].enabled
                                             /\ rows[j].name = n} IN
                      IF on = {} THEN jobs[i][n] = None
                      ELSE /\ jobs[i][n] # None
                           /\ \E j \in on : live[i][jobs[i][n]] =
                                [id |-> j, name |-> n, handler |-> rows[j].handler]
    BY DEF ScheduleFollowsRows
  <2>1. Follows(i, n)
    BY <1>1 DEF IInv, FollowInv, Changing, At
  <2> DEFINE on == {j \in Job : Live(j) /\ rows[j].enabled /\ rows[j].name = n}
  <2>2. \A j \in Job : On(j, n) <=> j \in on
    BY DEF On
  <2> QED
    BY <2>1, <2>2 DEF Follows
<1> QED
  BY <1>1, SchedulerInvariant, PTL

(* Every job gocron holds on an instance can be found again under its name, *)
(* or its call is about to put it there: Remove and Reschedule leave none   *)
(* running that they have lost, with the same exceptions.                   *)
THEOREM NoOrphans == Spec => []NoOrphanJob
<1>1. ASSUME IInv PROVE NoOrphanJob
  BY <1>1 DEF IInv, OrphanInv, NoOrphanJob, Setting
<1> QED
  BY <1>1, SchedulerInvariant, PTL
-----------------------------------------------------------------------------
(* The handlers in progress and the plugin's state.                         *)
Outside ==
  /\ runs \in [Instance -> SUBSET Handler]
  /\ Plugin!TypeOK

LEMMA PluginCall ==
  ASSUME Plugin!TypeOK, NEW t \in Toggle, toggle[t] # Plugin!Idle
  PROVE  /\ toggle[t] \in [pc : {"row", "map"}, at : Replica, found : BOOLEAN,
                           to : {"on", "off"}]
         /\ toggle[t].at \in Replica /\ toggle[t].to \in {"on", "off"}
BY DEF Plugin!TypeOK, Plugin!Call

LEMMA StoredType ==
  ASSUME Plugin!TypeOK, NEW i \in Replica, NEW s
  PROVE  Plugin!Stored(i, s) \subseteq Replica
BY DEF Plugin!TypeOK, Plugin!Stored

LEMMA NewStateType ==
  ASSUME Plugin!TypeOK, NEW i \in Replica, Plugin!NewState(i)
  PROVE  Plugin!TypeOK'
<1>1. /\ disabled' = Plugin!Stored(i, row)
      /\ snapshot' = [snapshot EXCEPT ![i] = "unread"]
      /\ toggle' = [t \in Toggle |->
           IF toggle[t] # Plugin!Idle /\ toggle[t].at = i THEN Plugin!Idle ELSE toggle[t]]
      /\ row' = row
  BY DEF Plugin!NewState
<1>2. disabled' \subseteq Replica
  BY <1>1, StoredType
<1>3. snapshot' \in [Replica -> Plugin!Row \cup {"unread"}] /\ row' \in Plugin!Row
  BY <1>1 DEF Plugin!TypeOK
<1>4. toggle' \in [Toggle -> Plugin!Call]
  BY <1>1 DEF Plugin!TypeOK, Plugin!Call
<1> QED
  BY <1>2, <1>3, <1>4 DEF Plugin!TypeOK

LEMMA ToggleType ==
  ASSUME Plugin!TypeOK, up \in SUBSET Instance, NEW t \in Toggle, SetEnabled(t)
  PROVE  Plugin!TypeOK'
<1> USE DEF Plugin!TypeOK
<1>1. ASSUME NEW i \in Serving, NEW to \in {"on", "off"}, Plugin!SetFind(t, i, to)
      PROVE  Plugin!TypeOK'
  <2>1. i \in Replica
    BY <1>1, SchedulerAssumption DEF Serving
  <2>2. [pc |-> "row", at |-> i, found |-> row # "absent", to |-> to] \in Plugin!Call
    BY <2>1 DEF Plugin!Call
  <2> QED
    BY <1>1, <2>2 DEF Plugin!SetFind
<1>2. ASSUME Plugin!SetRow(t) PROVE Plugin!TypeOK'
  <2>1. toggle[t] # Plugin!Idle
    BY <1>2 DEF Plugin!SetRow, Plugin!Idle
  <2>2. [toggle[t] EXCEPT !.pc = "map"] \in Plugin!Call
    BY <2>1, PluginCall DEF Plugin!Call
  <2>3. row' \in Plugin!Row
    BY <1>2, <2>1, PluginCall DEF Plugin!SetRow, Plugin!Row
  <2>4. toggle' \in [Toggle -> Plugin!Call]
    BY <1>2, <2>2 DEF Plugin!SetRow
  <2> QED
    BY <1>2, <2>3, <2>4 DEF Plugin!SetRow
<1>3. ASSUME Plugin!SetMap(t) PROVE Plugin!TypeOK'
  <2>1. toggle[t] # Plugin!Idle
    BY <1>3 DEF Plugin!SetMap, Plugin!Idle
  <2>2. disabled' \subseteq Replica
    BY <1>3, <2>1, PluginCall, StoredType DEF Plugin!SetMap
  <2> QED
    BY <1>3, <2>2 DEF Plugin!SetMap, Plugin!Call
<1>4. ASSUME Plugin!SetAbort(t) PROVE Plugin!TypeOK'
  BY <1>4 DEF Plugin!SetAbort, Plugin!Call
<1> QED
  BY <1>1, <1>2, <1>3, <1>4 DEF SetEnabled

LEMMA OutsideInit == Init => Outside
BY DEF Init, Outside, Plugin!Init, Plugin!TypeOK, Plugin!Row, Plugin!Call

LEMMA OutsideNext == CoreType /\ Outside /\ [Next]_vars => Outside'
<1> SUFFICES ASSUME CoreType, Outside, [Next]_vars PROVE Outside'
  OBVIOUS
<1>1. Plugin!TypeOK /\ runs \in [Instance -> SUBSET Handler] /\ up \in SUBSET Instance
  BY DEF Outside, CoreType
<1>2. Serving \subseteq Replica /\ Instance \subseteq Replica
  BY <1>1, SchedulerAssumption DEF Serving
<1>3. ASSUME UNCHANGED <<runs, pluginVars>> PROVE Outside'
  BY <1>1, <1>3 DEF Outside, pluginVars, Plugin!TypeOK
<1>4. ASSUME NEW r \in Req, JobService(r) PROVE Outside'
  <2>1. UNCHANGED <<runs, pluginVars>>
    BY <1>4 DEF JobService, CreateJob, UpdateJob, DeleteJob, RemoveBefore, Reschedule, Abort,
       CreateFind, CreateRow, UpdateFind, UpdateRow, Reread, DeleteFind, DeleteRow, Begin,
       StopJob, DropKey, Replace, NewJob, SetKey
  <2> QED
    BY <1>3, <2>1
<1>5. ASSUME NEW i \in Instance, NEW h \in Handler, wrap(i, h) PROVE Outside'
  <2>1. runs' \in [Instance -> SUBSET Handler] /\ UNCHANGED pluginVars
    BY <1>1, <1>5 DEF wrap
  <2> QED
    BY <1>1, <2>1 DEF Outside, pluginVars, Plugin!TypeOK
<1>6. ASSUME NEW i \in Instance, Runner(i) PROVE Outside'
  <2>1. ASSUME NEW g \in Gid, Fire(i, g) PROVE Outside'
    <3>1. live[i][g].handler \in Handler
      BY <2>1 DEF Fire, CoreType, Entry
    <3> QED
      BY <1>5, <2>1, <3>1 DEF Fire
  <2>2. ASSUME NEW j \in Job, RunNow(i, j) PROVE Outside'
    <3>1. rows[j].handler \in Handler
      BY <2>2 DEF RunNow, Live, CoreType, Row
    <3> QED
      BY <1>5, <2>2, <3>1 DEF RunNow
  <2>3. ASSUME NEW h \in Handler, Finish(i, h) PROVE Outside'
    <3>1. runs' \in [Instance -> SUBSET Handler] /\ UNCHANGED pluginVars
      BY <1>1, <2>3 DEF Finish
    <3> QED
      BY <1>1, <3>1 DEF Outside, pluginVars, Plugin!TypeOK
  <2> QED
    BY <1>6, <2>1, <2>2, <2>3 DEF Runner
<1>7. ASSUME NEW i \in Instance, Process(i) PROVE Outside'
  <2>1. CASE Stop(i)
    <3>1. Plugin!NewState(i) /\ runs' = [runs EXCEPT ![i] = {}]
      BY <2>1 DEF Stop
    <3>2. Plugin!TypeOK'
      BY <1>1, <1>2, <3>1, NewStateType
    <3> QED
      BY <1>1, <3>1, <3>2 DEF Outside
  <2>2. CASE Start(i)
    <3>1. Plugin!NewState(i) /\ runs' = runs
      BY <2>2 DEF Start
    <3>2. Plugin!TypeOK'
      BY <1>1, <1>2, <3>1, NewStateType
    <3> QED
      BY <1>1, <3>1, <3>2 DEF Outside
  <2>3. CASE \E n \in Builtin, j \in Job, h \in Handler \ PluginHandler :
               syncJobs(i, n, j, h)
    BY <1>3, <2>3 DEF syncJobs
  <2> QED
    BY <1>7, <2>1, <2>2, <2>3 DEF Process
<1>8. ASSUME UNCHANGED own, Plugin!TypeOK' PROVE Outside'
  BY <1>1, <1>8 DEF Outside, own
<1>9. ASSUME NEW t \in Toggle, SetEnabled(t) PROVE Outside'
  <2>1. Plugin!TypeOK' /\ UNCHANGED own
    BY <1>1, <1>9, ToggleType DEF SetEnabled
  <2> QED
    BY <1>8, <2>1
<1>10. ASSUME NEW i \in Replica, ReloadRead(i) \/ ReloadSwap(i) PROVE Outside'
  <2>1. CASE ReloadRead(i)
    BY <1>1, <1>8, <2>1 DEF ReloadRead, Plugin!ReloadRead, Plugin!TypeOK
  <2>2. CASE ReloadSwap(i)
    <3>1. Plugin!ReloadSwap(i) /\ UNCHANGED own
      BY <2>2 DEF ReloadSwap
    <3>2. disabled' \subseteq Replica
      BY <1>1, <3>1, StoredType DEF Plugin!ReloadSwap
    <3> QED
      BY <1>1, <1>8, <3>1, <3>2 DEF Plugin!ReloadSwap, Plugin!TypeOK
  <2> QED
    BY <1>10, <2>1, <2>2
<1>11. ASSUME NEW i \in Replica \ Instance, Plugin!NewState(i), UNCHANGED own PROVE Outside'
  BY <1>1, <1>8, <1>11, NewStateType
<1>12. CASE Purge
  BY <1>3, <1>12 DEF Purge
<1>13. CASE Plugin!Purge /\ UNCHANGED own
  BY <1>1, <1>8, <1>13 DEF Plugin!Purge, Plugin!TypeOK, Plugin!Row
<1>14. CASE UNCHANGED vars
  BY <1>3, <1>14 DEF vars, own
<1> QED
  BY <1>4, <1>6, <1>7, <1>9, <1>10, <1>11, <1>12, <1>13, <1>14 DEF Next

(* Rows, schedules, calls and runs, and the plugin's row, maps and calls,    *)
(* keep their types.                                                        *)
THEOREM SchedulerType == Spec => []TypeOK
<1>1. CoreType /\ Outside => TypeOK
  BY DEF CoreType, Outside, TypeOK
<1>2. IInv => CoreType
  BY DEF IInv
<1> QED
  BY <1>1, <1>2, InitInv, InvNext, OutsideInit, OutsideNext, PTL DEF Spec

-----------------------------------------------------------------------------
(* The lease. *)

(* The clocks stay together. *)
SkewInv == \A i, j \in Server : clock[i] <= clock[j] + Skew

(* Where an attempt's time lies, and how long each of its stages lasts. *)
TimeInv ==
  \A i \in Server, k \in Slot :
    /\ ~AtStage(i, k, "waiting") =>
         /\ Due[k] <= try[i][k].at
         /\ try[i][k].at <= Due[k] + FireDelay
         /\ try[i][k].at <= clock[i]
    /\ AtStage(i, k, "ensure") \/ AtStage(i, k, "update") =>
         clock[i] <= try[i][k].at + LockLatency
    /\ Holds(i, k) => clock[i] <= try[i][k].at + LockLatency + RunTime

(* The row's expires_at is the latest lease's, and covers every earlier one. *)
LeaseInv ==
  /\ \A i \in Server, k \in Slot :
       /\ AtStage(i, k, "update") => lease # NoRow
       /\ Took(i, k) => lease \in Nat /\ try[i][k].at + TTL <= lease
  /\ lease \in Nat \ {0} => \E i \in Server, k \in Slot :
                              Took(i, k) /\ lease = try[i][k].at + TTL

(* At most one attempt is between its UPDATE and the end of its run. *)
OneHolder ==
  \A i, j \in Server, k, m \in Slot : Holds(i, k) /\ Holds(j, m) => i = j /\ k = m

LeaseIInv ==
  /\ LeaseTypeOK /\ SkewInv /\ TimeInv /\ LeaseInv
  /\ OnePerSlot /\ OneHolder /\ RefusedOnlyNearby

LEMMA LeaseConstants ==
  /\ Period \in Nat /\ TTL \in Nat /\ FireDelay \in Nat /\ LockLatency \in Nat
  /\ RunTime \in Nat /\ Skew \in Nat /\ MaxClock \in Nat
  /\ \A k \in Slot : k \in Nat /\ Due[k] \in Nat /\ Due[k] > 0
  BY JobLeaseAssumption

LEMMA LeaseInvInit == LeaseInit => LeaseIInv
  <1> SUFFICES ASSUME LeaseInit PROVE LeaseIInv
    OBVIOUS
  <1>1. LeaseTypeOK /\ SkewInv
    BY LeaseConstants DEF LeaseInit, LeaseTypeOK, SkewInv, Try, TryPc
  <1>2. \A i \in Server, k \in Slot : try[i][k].pc = "waiting"
    BY DEF LeaseInit
  <1>3. lease \notin Nat
    BY JobLeaseAssumption DEF LeaseInit
  <1>4. \A i \in Server, k \in Slot :
          /\ ~Took(i, k) /\ ~Holds(i, k) /\ AtStage(i, k, "waiting")
          /\ ~AtStage(i, k, "ensure") /\ ~AtStage(i, k, "update") /\ ~AtStage(i, k, "refused")
    BY <1>2 DEF Took, Holds, AtStage
  <1>5. TimeInv /\ LeaseInv
    BY <1>3, <1>4 DEF TimeInv, LeaseInv
  <1> QED
    BY <1>1, <1>4, <1>5 DEF LeaseIInv, OnePerSlot, OneHolder, RefusedOnlyNearby

(* A step of one attempt leaves every other attempt alone. *)
LEMMA TryMoved ==
  ASSUME LeaseTypeOK, NEW i \in Server, NEW k \in Slot, NEW p \in TryPc, Goto(i, k, p)
  PROVE  /\ try' \in [Server -> [Slot -> Try]]
         /\ try'[i][k].pc = p /\ try'[i][k].at = try[i][k].at
         /\ \A j \in Server, m \in Slot :
              <<j, m>> # <<i, k>> => try'[j][m] = try[j][m]
  <1> DEFINE x == [try[i][k] EXCEPT !.pc = p]
  <1>1. x \in Try /\ x.pc = p /\ x.at = try[i][k].at
    BY DEF LeaseTypeOK, Try
  <1>2. try' = [try EXCEPT ![i] = [try[i] EXCEPT ![k] = x]]
    BY DEF LeaseTypeOK, Goto
  <1> HIDE DEF x
  <1>3. /\ [try[i] EXCEPT ![k] = x] \in [Slot -> Try]
        /\ try'[i] = [try[i] EXCEPT ![k] = x]
        /\ \A j \in Server \ {i} : try'[j] = try[j]
    BY <1>1, <1>2 DEF LeaseTypeOK
  <1>4. try'[i][k] = x /\ \A m \in Slot \ {k} : try'[i][m] = try[i][m]
    BY <1>3 DEF LeaseTypeOK
  <1>5. try' \in [Server -> [Slot -> Try]]
    BY <1>2, <1>3 DEF LeaseTypeOK
  <1> QED
    BY <1>1, <1>3, <1>4, <1>5

(* Two slots of one job are Period apart. *)
LEMMA SlotsApart ==
  ASSUME NEW k \in Slot, NEW m \in Slot, JobOf[k] = JobOf[m]
  PROVE  k = m \/ Due[k] + Period <= Due[m] \/ Due[m] + Period <= Due[k]
  BY LeaseConstants, JobLeaseAssumption

(* The heart of the argument.  When the UPDATE of an attempt at slot k      *)
(* matches the row, every earlier holder has stopped, the attempt itself    *)
(* has not succeeded, and of its job no attempt at slot k or a later one    *)
(* has ...                                                                  *)
LEMMA ClaimAlone ==
  ASSUME LeaseIInv, NEW i \in Server, NEW k \in Slot, AtStage(i, k, "update"),
         lease < try[i][k].at,
         NEW j \in Server, NEW m \in Slot, Took(j, m)
  PROVE  ~Holds(j, m) /\ (JobOf[m] = JobOf[k] => m < k)
  <1>1. /\ try[i][k].at \in Nat /\ try[j][m].at \in Nat
        /\ clock[i] \in Nat /\ clock[j] \in Nat
    BY DEF LeaseIInv, LeaseTypeOK, Try
  <1>2. lease \in Nat /\ try[j][m].at + TTL <= lease
    BY DEF LeaseIInv, LeaseInv
  <1>3. /\ try[i][k].at <= clock[i] /\ try[i][k].at <= Due[k] + FireDelay
        /\ Due[m] <= try[j][m].at
    BY DEF LeaseIInv, TimeInv, AtStage, Took
  <1>4. clock[i] <= clock[j] + Skew
    BY DEF LeaseIInv, SkewInv
  <1>5. ~Holds(j, m)
    <2> SUFFICES ASSUME Holds(j, m) PROVE FALSE
      OBVIOUS
    <2>1. clock[j] <= try[j][m].at + LockLatency + RunTime
      BY DEF LeaseIInv, TimeInv
    <2> QED
      BY <1>1, <1>2, <1>3, <1>4, <2>1, LeaseConstants, TimingAssumption
  <1>6. ASSUME JobOf[m] = JobOf[k] PROVE m < k
    <2>1. Due[m] < Due[k]
      BY <1>1, <1>2, <1>3, LeaseConstants, TimingAssumption
    <2> QED
      BY <1>6, <2>1, LeaseConstants, JobLeaseAssumption
  <1> QED
    BY <1>5, <1>6

(* ... and when it does not, that slot has been taken, or one of another job*)
(* that its lease reaches from.                                             *)
LEMMA RefusalJustified ==
  ASSUME LeaseIInv, NEW i \in Server, NEW k \in Slot, AtStage(i, k, "update"),
         lease >= try[i][k].at
  PROVE  \E j \in Server, m \in Slot :
           Took(j, m) /\ Near(m, k) /\ (m = k \/ JobOf[m] # JobOf[k])
  <1>1. try[i][k].at \in Nat /\ clock[i] \in Nat
    BY DEF LeaseIInv, LeaseTypeOK, Try
  <1>2. /\ Due[k] <= try[i][k].at /\ try[i][k].at <= Due[k] + FireDelay
        /\ try[i][k].at <= clock[i] /\ clock[i] <= try[i][k].at + LockLatency
    BY DEF LeaseIInv, TimeInv, AtStage
  <1>3. lease \in Nat \ {0}
    BY <1>1, <1>2, LeaseConstants DEF LeaseIInv, LeaseTypeOK, LeaseInv
  <1>4. PICK j \in Server, m \in Slot : Took(j, m) /\ lease = try[j][m].at + TTL
    BY <1>3 DEF LeaseIInv, LeaseInv
  <1>5. try[j][m].at \in Nat /\ clock[j] \in Nat
    BY DEF LeaseIInv, LeaseTypeOK, Try
  <1>6. /\ Due[m] <= try[j][m].at /\ try[j][m].at <= Due[m] + FireDelay
        /\ try[j][m].at <= clock[j] /\ clock[j] <= clock[i] + Skew
    BY <1>4 DEF LeaseIInv, TimeInv, SkewInv, Took, AtStage
  <1>7. ~(Due[m] + Period <= Due[k])
    BY <1>1, <1>2, <1>4, <1>5, <1>6, LeaseConstants, TimingAssumption
  <1>8. ~(Due[k] + Period <= Due[m])
    BY <1>1, <1>2, <1>5, <1>6, LeaseConstants, TimingAssumption
  <1>9. Near(m, k)
    <2>1. Due[k] <= Due[m] + FireDelay + TTL
      BY <1>1, <1>2, <1>4, <1>5, <1>6, LeaseConstants
    <2>2. Due[m] <= Due[k] + FireDelay + LockLatency + Skew
      BY <1>1, <1>2, <1>5, <1>6, LeaseConstants
    <2> QED
      BY <2>1, <2>2 DEF Near
  <1> QED
    BY <1>4, <1>7, <1>8, <1>9, SlotsApart

-----------------------------------------------------------------------------
LEMMA TickInv ==
  ASSUME LeaseIInv, NEW i \in Server, Tick(i)
  PROVE  LeaseIInv'
  <1>1. /\ lease' = lease /\ try' = try
        /\ clock' \in [Server -> Nat] /\ clock'[i] = clock[i] + 1
        /\ \A j \in Server \ {i} : clock'[j] = clock[j]
        /\ \A j \in Server : clock[j] \in Nat /\ clock[j] <= clock'[j]
    BY DEF Tick, LeaseIInv, LeaseTypeOK
  <1>2. \A j \in Server, k \in Slot : try[j][k].at \in Nat
    BY DEF LeaseIInv, LeaseTypeOK, Try
  <1>3. LeaseTypeOK'
    BY <1>1 DEF LeaseIInv, LeaseTypeOK
  <1>4. SkewInv'
    BY <1>1, LeaseConstants DEF LeaseIInv, SkewInv, Tick, InTime
  <1>5. TimeInv'
    <2> SUFFICES ASSUME NEW j \in Server, NEW k \in Slot
                 PROVE
                   /\ ~AtStage(j, k, "waiting") =>
                        /\ Due[k] <= try[j][k].at
                        /\ try[j][k].at <= Due[k] + FireDelay
                        /\ try[j][k].at <= clock'[j]
                   /\ AtStage(j, k, "ensure") \/ AtStage(j, k, "update") =>
                        clock'[j] <= try[j][k].at + LockLatency
                   /\ Holds(j, k) => clock'[j] <= try[j][k].at + LockLatency + RunTime
      BY <1>1 DEF TimeInv, AtStage, Holds
    <2>1. CASE j = i
      BY <1>1, <1>2, <2>1, LeaseConstants DEF LeaseIInv, TimeInv, Tick, InTime, AtStage, Holds
    <2>2. CASE j # i
      BY <1>1, <2>2 DEF LeaseIInv, TimeInv
    <2> QED
      BY <2>1, <2>2
  <1> QED
    BY <1>1, <1>3, <1>4, <1>5
    DEF LeaseIInv, LeaseInv, OnePerSlot, OneHolder, RefusedOnlyNearby, Took, Holds, AtStage

LEMMA FireInv ==
  ASSUME LeaseIInv, NEW i \in Server, NEW k \in Slot, FireSlot(i, k)
  PROVE  LeaseIInv'
  <1>1. /\ lease' = lease /\ clock' = clock /\ clock[i] \in Nat
        /\ try' \in [Server -> [Slot -> Try]]
        /\ try'[i][k] = [pc |-> "ensure", at |-> clock[i]]
        /\ try[i][k].pc = "waiting"
        /\ \A j \in Server, m \in Slot : <<j, m>> # <<i, k>> => try'[j][m] = try[j][m]
    BY DEF FireSlot, LeaseIInv, LeaseTypeOK, Try, TryPc, AtStage
  <1>2. \A j \in Server, m \in Slot :
          /\ Took(j, m)' <=> Took(j, m)
          /\ Took(j, m) => try'[j][m] = try[j][m]
          /\ Holds(j, m)' <=> Holds(j, m)
          /\ AtStage(j, m, "refused")' <=> AtStage(j, m, "refused")
          /\ AtStage(j, m, "update")' <=> AtStage(j, m, "update")
    BY <1>1 DEF Took, Holds, AtStage
  <1>3. TimeInv'
    <2> SUFFICES ASSUME NEW j \in Server, NEW m \in Slot
                 PROVE
                   /\ ~AtStage(j, m, "waiting")' =>
                        /\ Due[m] <= try'[j][m].at
                        /\ try'[j][m].at <= Due[m] + FireDelay
                        /\ try'[j][m].at <= clock[j]
                   /\ AtStage(j, m, "ensure")' \/ AtStage(j, m, "update")' =>
                        clock[j] <= try'[j][m].at + LockLatency
                   /\ Holds(j, m)' => clock[j] <= try'[j][m].at + LockLatency + RunTime
      BY <1>1 DEF TimeInv
    <2>1. CASE <<j, m>> = <<i, k>>
      BY <1>1, <2>1, LeaseConstants DEF FireSlot, Holds, AtStage
    <2>2. CASE <<j, m>> # <<i, k>>
      BY <1>1, <2>2 DEF LeaseIInv, TimeInv, Holds, AtStage
    <2> QED
      BY <2>1, <2>2
  <1>4. LeaseInv'
    BY <1>1, <1>2 DEF LeaseIInv, LeaseInv
  <1> QED
    BY <1>1, <1>2, <1>3, <1>4
    DEF LeaseIInv, LeaseTypeOK, SkewInv, OnePerSlot, OneHolder, RefusedOnlyNearby

(* A step of the job's run, or a failed lock: the attempt moves on, takes   *)
(* nothing and gives nothing back.                                          *)
LEMMA ProgressInv ==
  ASSUME LeaseIInv, NEW i \in Server, NEW k \in Slot, NEW p \in TryPc, Goto(i, k, p),
         clock' = clock, lease' = lease, try[i][k].pc # "waiting",
         p \notin {"ensure", "update"},
         p = "refused" => \E j \in Server, m \in Slot :
                            Took(j, m) /\ Near(m, k) /\ (m = k \/ JobOf[m] # JobOf[k]),
         Took(i, k) <=> p \in {"claimed", "running", "done", "crashed"},
         p \in {"claimed", "running"} => Holds(i, k)
  PROVE  LeaseIInv'
  <1>1. /\ try' \in [Server -> [Slot -> Try]]
        /\ try'[i][k].pc = p /\ try'[i][k].at = try[i][k].at
        /\ \A j \in Server, m \in Slot : <<j, m>> # <<i, k>> => try'[j][m] = try[j][m]
    BY TryMoved DEF LeaseIInv
  <1>2. \A j \in Server, m \in Slot :
          /\ try'[j][m].at = try[j][m].at
          /\ Took(j, m)' <=> Took(j, m)
          /\ Holds(j, m)' => Holds(j, m)
          /\ AtStage(j, m, "refused")' => AtStage(j, m, "refused") \/ <<j, m, p>> = <<i, k, "refused">>
          /\ AtStage(j, m, "update")' => AtStage(j, m, "update")
          /\ AtStage(j, m, "ensure")' => AtStage(j, m, "ensure")
          /\ AtStage(j, m, "waiting") => AtStage(j, m, "waiting")'
    BY <1>1 DEF Took, Holds, AtStage
  <1>3. TimeInv'
    BY <1>2 DEF LeaseIInv, TimeInv
  <1>4. LeaseInv'
    BY <1>2 DEF LeaseIInv, LeaseInv
  <1>5. LeaseTypeOK' /\ SkewInv'
    BY <1>1 DEF LeaseIInv, LeaseTypeOK, SkewInv
  <1> QED
    BY <1>2, <1>3, <1>4, <1>5 DEF LeaseIInv, OnePerSlot, OneHolder, RefusedOnlyNearby

LEMMA EnsureInv ==
  ASSUME LeaseIInv, NEW i \in Server, NEW k \in Slot, Ensure(i, k)
  PROVE  LeaseIInv'
  <1>1. /\ try' \in [Server -> [Slot -> Try]]
        /\ try'[i][k].pc = "update" /\ try'[i][k].at = try[i][k].at
        /\ \A j \in Server, m \in Slot : <<j, m>> # <<i, k>> => try'[j][m] = try[j][m]
    BY TryMoved DEF LeaseIInv, Ensure, TryPc
  <1>2. /\ clock' = clock /\ try[i][k].pc = "ensure"
        /\ lease' = IF lease = NoRow THEN 0 ELSE lease
    BY DEF Ensure, AtStage
  <1>3. lease' \in Nat /\ lease' # NoRow /\ (lease \in Nat => lease' = lease)
        /\ (lease' # 0 => lease \in Nat \ {0})
    BY <1>2, JobLeaseAssumption DEF LeaseIInv, LeaseTypeOK
  <1>4. \A j \in Server, m \in Slot :
          /\ try'[j][m].at = try[j][m].at
          /\ Took(j, m)' <=> Took(j, m)
          /\ Holds(j, m)' <=> Holds(j, m)
          /\ AtStage(j, m, "refused")' <=> AtStage(j, m, "refused")
          /\ AtStage(j, m, "update")' \/ AtStage(j, m, "ensure")' =>
               AtStage(j, m, "update") \/ AtStage(j, m, "ensure")
          /\ AtStage(j, m, "waiting")' <=> AtStage(j, m, "waiting")
    BY <1>1, <1>2 DEF Took, Holds, AtStage
  <1>5. TimeInv'
    BY <1>2, <1>4 DEF LeaseIInv, TimeInv
  <1>6. LeaseInv'
    BY <1>3, <1>4 DEF LeaseIInv, LeaseInv
  <1>7. LeaseTypeOK' /\ SkewInv'
    BY <1>1, <1>2, <1>3 DEF LeaseIInv, LeaseTypeOK, SkewInv
  <1> QED
    BY <1>4, <1>5, <1>6, <1>7 DEF LeaseIInv, OnePerSlot, OneHolder, RefusedOnlyNearby

LEMMA ClaimInv ==
  ASSUME LeaseIInv, NEW i \in Server, NEW k \in Slot, NEW answered \in BOOLEAN,
         Claim(i, k, answered)
  PROVE  LeaseIInv'
  <1> DEFINE p == IF answered THEN "claimed" ELSE "crashed"
  <1>1. /\ try' \in [Server -> [Slot -> Try]]
        /\ try'[i][k].pc = p /\ try'[i][k].at = try[i][k].at
        /\ \A j \in Server, m \in Slot : <<j, m>> # <<i, k>> => try'[j][m] = try[j][m]
    BY TryMoved DEF LeaseIInv, Claim, TryPc
  <1>2. /\ clock' = clock /\ try[i][k].pc = "update"
        /\ lease < try[i][k].at /\ lease' = try[i][k].at + TTL
    BY DEF Claim, AtStage
  <1>3. /\ lease \in Nat /\ try[i][k].at \in Nat /\ lease' \in Nat
        /\ lease' # NoRow /\ lease <= lease'
    BY <1>2, LeaseConstants, JobLeaseAssumption
    DEF LeaseIInv, LeaseTypeOK, LeaseInv, Try, AtStage
  <1>4. \A j \in Server, m \in Slot :
          /\ Took(j, m) => ~Holds(j, m) /\ m # k
          /\ Holds(j, m) => Took(j, m)
    BY <1>2, ClaimAlone, LeaseConstants DEF AtStage, Holds, Took
  <1>5. /\ Took(i, k)' /\ p \in {"claimed", "crashed"}
        /\ \A j \in Server, m \in Slot :
             /\ try'[j][m].at = try[j][m].at
             /\ Took(j, m)' <=> Took(j, m) \/ <<j, m>> = <<i, k>>
             /\ Holds(j, m)' => Holds(j, m) \/ <<j, m>> = <<i, k>>
             /\ AtStage(j, m, "refused")' => AtStage(j, m, "refused")
             /\ AtStage(j, m, "update")' => AtStage(j, m, "update")
             /\ AtStage(j, m, "ensure")' => AtStage(j, m, "ensure")
             /\ AtStage(j, m, "waiting")' <=> AtStage(j, m, "waiting")
    BY <1>1, <1>2 DEF Took, Holds, AtStage
  <1> HIDE DEF p
  <1>6. TimeInv'
    <2>1. clock[i] \in Nat /\ clock[i] <= try[i][k].at + LockLatency
      BY <1>2 DEF LeaseIInv, TimeInv, LeaseTypeOK, AtStage
    <2>2. clock[i] <= try[i][k].at + LockLatency + RunTime
      BY <1>3, <2>1, LeaseConstants
    <2> QED
      BY <1>2, <1>5, <2>2 DEF LeaseIInv, TimeInv
  <1>7. LeaseInv'
    <2>1. \A j \in Server, m \in Slot : Took(j, m) => try[j][m].at + TTL <= lease'
      <3> SUFFICES ASSUME NEW j \in Server, NEW m \in Slot, Took(j, m)
                   PROVE  try[j][m].at + TTL <= lease'
        OBVIOUS
      <3>1. try[j][m].at \in Nat /\ try[j][m].at + TTL <= lease
        BY DEF LeaseIInv, LeaseTypeOK, LeaseInv, Try
      <3> QED
        BY <1>3, <3>1, LeaseConstants
    <2>2. try[i][k].at + TTL <= lease'
      BY <1>2, <1>3
    <2> QED
      BY <1>2, <1>3, <1>5, <2>1, <2>2 DEF LeaseInv
  <1>8. LeaseTypeOK' /\ SkewInv'
    BY <1>1, <1>2, <1>3 DEF LeaseIInv, LeaseTypeOK, SkewInv
  <1>9. OnePerSlot' /\ OneHolder'
    BY <1>4, <1>5, LeaseConstants DEF LeaseIInv, OnePerSlot, OneHolder
  <1> QED
    BY <1>5, <1>6, <1>7, <1>8, <1>9 DEF LeaseIInv, RefusedOnlyNearby

LEMMA LeaseInvNext ==
  ASSUME LeaseIInv, [LeaseNext]_leaseVars
  PROVE  LeaseIInv'
<1>1. ASSUME NEW i \in Server, NEW k \in Slot, Refuse(i, k) PROVE LeaseIInv'
  <2>1. \E j \in Server, m \in Slot :
          Took(j, m) /\ Near(m, k) /\ (m = k \/ JobOf[m] # JobOf[k])
    BY <1>1, RefusalJustified DEF Refuse
  <2> QED
    BY <1>1, <2>1, ProgressInv DEF Refuse, AtStage, TryPc, Took
<1>2. ASSUME NEW i \in Server, NEW k \in Slot, LockError(i, k) PROVE LeaseIInv'
  BY <1>2, ProgressInv DEF LockError, AtStage, TryPc, Took
<1>3. ASSUME NEW i \in Server, NEW k \in Slot, wrapSlot(i, k) PROVE LeaseIInv'
  BY <1>3, ProgressInv 
  DEF wrapSlot, StartRun, Skip, FinishRun, Crash, AtStage, TryPc, Took, Holds
<1>4. CASE UNCHANGED leaseVars
  BY <1>4 DEF leaseVars, LeaseIInv, LeaseTypeOK, SkewInv, TimeInv, LeaseInv, OnePerSlot,
              OneHolder, RefusedOnlyNearby, Took, Holds, AtStage
<1> QED
  BY <1>1, <1>2, <1>3, <1>4, TickInv, FireInv, EnsureInv, ClaimInv DEF LeaseNext, Lock

(* On every instance, whatever the clocks do within Skew, no slot is taken  *)
(* twice.                                                                   *)
THEOREM TakenOnce == LeaseSpec => []OnePerSlot
  BY LeaseInvInit, LeaseInvNext, PTL DEF LeaseSpec, LeaseIInv

(* Two runs never overlap, be they of one job or of two. *)
THEOREM RunsApart == LeaseSpec => []NoOverlap
<1>1. LeaseIInv => NoOverlap
  BY DEF LeaseIInv, OneHolder, NoOverlap, Holds, AtStage
<1> QED
  BY <1>1, LeaseInvInit, LeaseInvNext, PTL DEF LeaseSpec

(* An instance is turned away only where the slot, or one of another job    *)
(* that was due within a ttl of it, has been taken: whatever the jobs that  *)
(* share the row, a lease never reaches another firing of its own job.      *)
THEOREM BlockedByNeighbours == LeaseSpec => []RefusedOnlyNearby
  BY LeaseInvInit, LeaseInvNext, PTL DEF LeaseSpec, LeaseIInv

-----------------------------------------------------------------------------
(* The lease implements JobSlots: a successful UPDATE takes a slot, the     *)
(* start and the end of a run start and stop it, and every other step is    *)
(* invisible.                                                               *)
LEMMA InitRefines == LeaseInit => Slots!Init
  BY DEF LeaseInit, Slots!Init, takers, active, Took, AtStage

LEMMA Invisible ==
  ASSUME \A i \in Server, k \in Slot :
           /\ Took(i, k)' <=> Took(i, k)
           /\ AtStage(i, k, "running")' <=> AtStage(i, k, "running")
  PROVE  UNCHANGED Slots!vars
  BY DEF Slots!vars, takers, active

LEMMA StepRefines ==
  ASSUME LeaseIInv, [LeaseNext]_leaseVars
  PROVE  [Slots!Next]_Slots!vars
<1>1. ASSUME NEW i \in Server, Tick(i) PROVE UNCHANGED Slots!vars
  BY <1>1, Invisible DEF Tick, Took, AtStage
<1>2. ASSUME NEW i \in Server, NEW k \in Slot, FireSlot(i, k) PROVE UNCHANGED Slots!vars
  <2>1. /\ try'[i][k].pc = "ensure" /\ try[i][k].pc = "waiting"
        /\ \A j \in Server, m \in Slot : <<j, m>> # <<i, k>> => try'[j][m] = try[j][m]
    BY <1>2 DEF FireSlot, LeaseIInv, LeaseTypeOK, AtStage
  <2> QED
    BY <2>1, Invisible DEF Took, AtStage
<1>3. ASSUME NEW i \in Server, NEW k \in Slot, NEW p \in TryPc, Goto(i, k, p),
             Took(i, k) <=> p \in {"claimed", "running", "done", "crashed"},
             try[i][k].pc = "running" <=> p = "running"
      PROVE  UNCHANGED Slots!vars
  <2>1. /\ try'[i][k].pc = p
        /\ \A j \in Server, m \in Slot : <<j, m>> # <<i, k>> => try'[j][m] = try[j][m]
    BY <1>3, TryMoved DEF LeaseIInv
  <2> QED
    BY <1>3, <2>1, Invisible DEF Took, AtStage
<1>4. ASSUME NEW i \in Server, NEW k \in Slot, NEW answered \in BOOLEAN,
             Claim(i, k, answered)
      PROVE  Slots!Take(k, i)
  <2> DEFINE p == IF answered THEN "claimed" ELSE "crashed"
  <2>1. /\ try'[i][k].pc = p /\ p \in {"claimed", "crashed"}
        /\ \A j \in Server, m \in Slot : <<j, m>> # <<i, k>> => try'[j][m] = try[j][m]
    BY <1>4, TryMoved DEF Claim, LeaseIInv, TryPc
  <2>2. AtStage(i, k, "update") /\ lease < try[i][k].at
    BY <1>4 DEF Claim
  <2>3. \A j \in Server, m \in Slot : JobOf[m] = JobOf[k] /\ m >= k => ~Took(j, m)
    BY <2>2, ClaimAlone, LeaseConstants
  <2>4. \A j \in Server, m \in Slot : /\ Took(j, m)' <=> Took(j, m) \/ <<j, m>> = <<i, k>>
                                      /\ AtStage(j, m, "running")' <=> AtStage(j, m, "running")
    BY <2>1, <2>2 DEF Took, AtStage
  <2>5. \A m \in Slot : JobOf[m] = JobOf[k] /\ m >= k => takers[m] = {}
    BY <2>3 DEF takers
  <2>6. takers' = [takers EXCEPT ![k] = {i}]
    <3>1. takers'[k] = {i}
      BY <2>3, <2>4, LeaseConstants DEF takers
    <3>2. \A m \in Slot \ {k} : takers'[m] = takers[m]
      BY <2>4 DEF takers
    <3>3. /\ takers' = [m \in Slot |-> takers'[m]]
          /\ takers = [m \in Slot |-> takers[m]]
      BY DEF takers
    <3> QED
      BY <3>1, <3>2, <3>3
  <2>7. active' = active
    BY <2>4 DEF active
  <2> QED
    BY <2>5, <2>6, <2>7 DEF Slots!Take
<1>5. ASSUME NEW i \in Server, NEW k \in Slot, StartRun(i, k) PROVE Slots!Run(k)
  <2>1. /\ try'[i][k].pc = "running" /\ try[i][k].pc = "claimed"
        /\ \A j \in Server, m \in Slot : <<j, m>> # <<i, k>> => try'[j][m] = try[j][m]
    BY <1>5, TryMoved DEF StartRun, LeaseIInv, TryPc, AtStage
  <2>2. \A j \in Server, m \in Slot : ~AtStage(j, m, "running")
    BY <2>1 DEF LeaseIInv, OneHolder, Holds, AtStage
  <2>3. \A j \in Server, m \in Slot : /\ Took(j, m)' <=> Took(j, m)
                                      /\ AtStage(j, m, "running")' <=> <<j, m>> = <<i, k>>
    BY <2>1, <2>2 DEF Took, AtStage
  <2>4. takers' = takers /\ i \in takers[k]
    BY <2>1, <2>3 DEF takers, Took
  <2>5. active = {} /\ active' = active \cup {k}
    BY <2>2, <2>3 DEF active
  <2> QED
    BY <2>4, <2>5 DEF Slots!Run
<1>6. ASSUME NEW i \in Server, NEW k \in Slot, NEW p \in {"done", "crashed"},
             Goto(i, k, p), try[i][k].pc = "running"
      PROVE  Slots!Stop(k)
  <2>1. /\ try'[i][k].pc = p
        /\ \A j \in Server, m \in Slot : <<j, m>> # <<i, k>> => try'[j][m] = try[j][m]
    BY <1>6, TryMoved DEF LeaseIInv, TryPc
  <2>2. \A j \in Server, m \in Slot : AtStage(j, m, "running") <=> <<j, m>> = <<i, k>>
    BY <1>6 DEF LeaseIInv, OneHolder, Holds, AtStage
  <2>3. \A j \in Server, m \in Slot : /\ Took(j, m)' <=> Took(j, m)
                                      /\ ~AtStage(j, m, "running")'
    BY <1>6, <2>1, <2>2 DEF Took, AtStage
  <2>4. takers' = takers
    BY <2>3 DEF takers
  <2>5. k \in active /\ active' = active \ {k}
    BY <2>2, <2>3 DEF active
  <2> QED
    BY <2>4, <2>5 DEF Slots!Stop
<1>7. ASSUME NEW i \in Server, NEW k \in Slot,
             Ensure(i, k) \/ Refuse(i, k) \/ LockError(i, k) \/ Skip(i, k)
      PROVE  UNCHANGED Slots!vars
  BY <1>7, <1>3 DEF Ensure, Refuse, LockError, Skip, AtStage, TryPc, Took
<1>8. ASSUME NEW i \in Server, NEW k \in Slot, FinishRun(i, k) \/ Crash(i, k)
      PROVE  Slots!Stop(k) \/ UNCHANGED Slots!vars
  <2>1. CASE try[i][k].pc = "running"
    BY <1>8, <2>1, <1>6 DEF FinishRun, Crash
  <2>2. CASE try[i][k].pc # "running"
    BY <1>8, <2>2, <1>3 DEF FinishRun, Crash, AtStage, TryPc, Took
  <2> QED
    BY <2>1, <2>2
<1>9. CASE UNCHANGED leaseVars
  BY <1>9, Invisible DEF leaseVars, Took, AtStage
<1> QED
  BY <1>1, <1>2, <1>4, <1>5, <1>7, <1>8, <1>9 DEF LeaseNext, Lock, wrapSlot, Slots!Next

(* Whatever the instances' clocks, crashes and lost answers, what they do   *)
(* together is what JobSlots allows.                                        *)
THEOREM LeaseImplementsSlots == LeaseSpec => ImplementsJobSlots
  BY InitRefines, StepRefines, LeaseInvInit, LeaseInvNext, PTL
  DEF LeaseSpec, ImplementsJobSlots, Slots!Spec
=============================================================================
