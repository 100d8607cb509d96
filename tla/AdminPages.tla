----------------------------- MODULE AdminPages -----------------------------
(***************************************************************************)
(* One page of the admin area at a time, in one tab: its list, kept by     *)
(* react-query, its dialogs (AdminComponents), the handlers they started,  *)
(* the server's rows, and another administrator at work on these.          *)
(*                                                                         *)
(* One action is one task of the tab's event loop (with the microtasks it  *)
(* leaves behind) or one step of the server.                               *)
(***************************************************************************)
EXTENDS AdminComponents, Naturals, FiniteSets, Sequences

CONSTANTS
  Row,        \* ids, in the order of the list
  MaxWrites,  \* bound: changes of the rows
  MaxTask,    \* bound: handlers of this tab at work at once
  MaxHand,    \* bound: components used in a visit
  MaxPage,    \* bound: pages of a paged list, of one row each
  None, Gone

(* A component, with the key React knows it by, and the call of a handler   *)
(* of this tab.                                                             *)
Component == (DOMAIN Dialog) \X Nat

Handler ==
  [of : Component \cup {None}, name : DOMAIN Dialog, row : Row \cup {None},
   at : {"wire", "ok", "error", "refetch"}, ver : Nat]

ASSUME AdminPagesAssumption ==
  /\ Row \subseteq Nat \ {0} /\ IsFiniteSet(Row) /\ 1 \in Row
  /\ MaxWrites \in Nat /\ MaxTask \in Nat \ {0} /\ MaxHand \in Nat /\ MaxPage \in Nat \ {0}
  /\ None \notin Nat /\ Gone \notin Nat /\ None # Gone
  /\ None \notin Component /\ None \notin Handler

VARIABLES
  page,   \* the page, by its name
  hand,   \* the components of it that are used in this visit
  match,  \* the rows that the filters let through
  rows,   \* rows[r]: the change that wrote r; None: not there yet, Gone: deleted
  clock,  \* changes so far
  no,     \* the page of the list that is shown
  cache,  \* cache[n]: the query of page n
  fetch,  \* the fetch in flight for the query that is observed
  form,   \* form[i]: the fields of the component i = <<dialog, key>>
  opened, \* the component whose dialog is open
  tasks,  \* handlers at work
  acked,  \* history: the last change that this tab was told it made
  odd     \* history: what forms did that their user hardly meant

vars == <<page, hand, match, rows, clock, no, cache, fetch, form, opened, tasks, acked, odd>>

This == Pages[page]

Held(per) == {d \in hand : Dialog[d].per = per}

Live == {r \in Row : rows[r] \in Nat}

Rank(r, s) == Cardinality({q \in s : q < r}) + 1

Least(m, n) == IF m < n THEN m ELSE n

Larger(m, n) == IF m > n THEN m ELSE n

Nothing == [r \in {} |-> 0]

NewEntry == [list |-> None, more |-> FALSE, at |-> 0, stale |-> FALSE]

NewFetch == [list |-> None, more |-> FALSE, at |-> 0]

(* The entry of the cache that the page observes. *)
Slot(n) == IF This.paging = "server" THEN n ELSE 1

(* The rows on the screen, m being let through: the client's own paging     *)
(* clamps its page.                                                         *)
Shown(list, n, m) ==
  IF list = None THEN Nothing
  ELSE IF This.paging # "client" THEN list
  ELSE LET s == DOMAIN list \cap m
           p == Least(n, Larger(1, Cardinality(s))) IN
       [r \in {r \in s : Rank(r, s) = p} |-> list[r]]

Screen == Shown(cache[Slot(no)].list, no, match)

-----------------------------------------------------------------------------
(* Components.  The dialog of a role is there for a role, whatever its      *)
(* permissions; the form in it is mounted while it is open.                 *)
Rows(list) == IF This.query = "dialog" THEN {1} ELSE DOMAIN list

KeyOf(list, r) == IF This.key = "place" THEN Rank(r, DOMAIN list) ELSE r

Mounted(list) ==
  {<<d, 0>> : d \in Held("page")} \cup {<<d, KeyOf(list, r)>> : d \in Held("row"), r \in Rows(list)}

RowOf(list, i) == IF i[2] = 0 THEN None ELSE CHOOSE r \in Rows(list) : KeyOf(list, r) = i[2]

(* who: the row the fields are of.  base: the change they are from.  sent:  *)
(* no, sent as it is (an update: or as it was before more was typed),       *)
(* stored as it is, or moved: typed before what it is for was changed.      *)
(* shows: the row that a view's content is of.            *)
Blank == [who |-> None, base |-> 0, touched |-> FALSE, sent |-> "no", shows |-> None]

Seeded(list, i) ==
  LET r == RowOf(list, i) IN
  IF Dialog[i[1]].seed \in {"mount", "tracks", "open", "effect"} /\ r \in DOMAIN list
    THEN [Blank EXCEPT !.who = r, !.base = list[r]]
    ELSE Blank

Fielded(list, o) ==
  {i \in Mounted(list) : Dialog[i[1]].seed # "none" /\ (This.query = "dialog" => i = o)}

(* The forms, once the screen shows `list` and o is open. *)
Rendered(forms, old, list, o) ==
  [i \in Fielded(list, o) |->
     IF i \notin DOMAIN forms THEN Seeded(list, i)
     ELSE IF \/ old # list /\ Dialog[i[1]].seed = "tracks" /\ ~forms[i].touched
             \/ old # list /\ Dialog[i[1]].seed = "effect"
       THEN Seeded(list, i)
       ELSE forms[i]]

StillOpen(list, o) == IF o \in Mounted(list) THEN o ELSE None

(* What is typed when an effect fills the form again is lost. *)
Wiped(old, list) ==
  {<<"wiped", i[1]>> : i \in {j \in DOMAIN form \cap Mounted(list) :
     old # list /\ Dialog[j[1]].seed = "effect" /\ form[j].touched}}

(* A handler outlives the component that started it. *)
Orphaned(ts, list) ==
  [s \in DOMAIN ts |->
     IF ts[s] # None /\ ts[s].of \notin Mounted(list) THEN [ts[s] EXCEPT !.of = None] ELSE ts[s]]

-----------------------------------------------------------------------------
(* Steps after an answer, up to the refetch they await, and from there.     *)
Now(steps) ==
  {steps[n] : n \in {n \in DOMAIN steps : \A m \in 1..(n - 1) : steps[m] # "await"}}

Later(steps) == {steps[n] : n \in DOMAIN steps} \ Now(steps)

(* The handlers that a refetch, ended one way or another, sets going again. *)
Resumed == {s \in DOMAIN tasks : tasks[s] # None /\ tasks[s].at = "refetch"}

Ended == [s \in DOMAIN tasks |-> IF s \in Resumed THEN None ELSE tasks[s]]

Closing ==
  {tasks[s].of : s \in {s \in Resumed : "close" \in Later(Dialog[tasks[s].name].then)}}

Resetting ==
  {tasks[s].of : s \in {s \in Resumed : "reset" \in Later(Dialog[tasks[s].name].then)}}

AfterRefetch == [i \in DOMAIN form |-> IF i \in Resetting THEN Blank ELSE form[i]]

(* What is in a form for a new row stays when it would now go elsewhere.    *)
Moved(forms, m) ==
  [i \in DOMAIN forms |->
     IF This.nested /\ m # match /\ Dialog[i[1]].does = "insert"
       THEN [forms[i] EXCEPT !.sent = "moved"] ELSE forms[i]]

(* The screen changes from the list old to that of `entries`, page n.       *)
Render(entries, n, m, old) ==
  LET list == Shown(entries[Slot(n)].list, n, m)
      o == StillOpen(list, IF opened \in Closing THEN None ELSE opened) IN
  /\ cache' = entries
  /\ no' = n
  /\ opened' = o
  /\ form' = Rendered(Moved(AfterRefetch, m), old, list, o)
  /\ tasks' = Orphaned(Ended, list)
  /\ odd' = odd \cup Wiped(old, list)

(* What a keyword finds among the users is one page. *)
Whole == page = "UsersPage" /\ match # Row

(* The rows of the query, as the server answers it. *)
Found ==
  IF This.paging = "client" THEN Live
  ELSE IF This.paging = "none" THEN Live \cap match
  ELSE {r \in Live \cap match : Whole \/ Rank(r, Live \cap match) = no}

FetchServe ==
  /\ fetch # None
  /\ fetch.list = None
  /\ fetch' = [fetch EXCEPT
       !.list = [r \in Found |-> rows[r]],
       !.more = ~Whole /\ no < Cardinality(Live \cap match),
       !.at = clock]
  /\ UNCHANGED <<page, hand, match, rows, clock, no, cache, form, opened, tasks, acked, odd>>

FetchDone ==
  /\ fetch # None
  /\ fetch.list # None
  /\ fetch' = None
  /\ Render([cache EXCEPT ![Slot(no)] =
               [list |-> fetch.list, more |-> fetch.more, at |-> fetch.at, stale |-> FALSE]], no, match, Screen)
  /\ UNCHANGED <<page, hand, match, rows, clock, acked>>

(* The fetch and its one retry fail. *)
FetchFail ==
  /\ fetch # None
  /\ fetch' = None
  /\ Render(cache, no, match, Screen)
  /\ UNCHANGED <<page, hand, match, rows, clock, acked>>

(* The window gets the focus back, the data being stale. *)
Refocus ==
  /\ fetch = None
  /\ This.query = "page" \/ opened # None
  /\ fetch' = NewFetch
  /\ UNCHANGED <<page, hand, match, rows, clock, no, cache, form, opened, tasks, acked, odd>>

(* A query that gets an observer: fetched unless fresh. *)
Observe(entry) ==
  \/ fetch' = NewFetch
  \/ entry.list # None /\ ~entry.stale /\ fetch' = None

Count == IF cache[1].list = None THEN 0 ELSE Cardinality(DOMAIN cache[1].list \cap match)

safePage == Least(no, Larger(1, Count))

(* Previous, Next: when they are enabled.                                   *)
Turns(n) ==
  \/ /\ n = no - 1
     /\ This.paging = "client" => safePage > 1
     /\ This.paging # "none"
  \/ /\ n = no + 1
     /\ \/ This.paging = "server" /\ cache[no].more
        \/ This.paging = "client" /\ safePage < Count

(* The fetch of the page that is left is aborted.                           *)
Turn(n) ==
  /\ opened = None
  /\ Turns(n)
  /\ IF This.paging = "server" THEN Observe(cache[n]) ELSE UNCHANGED fetch
  /\ LET list == Shown(cache[Slot(n)].list, n, match) IN
     IF This.paging = "server" THEN Render(cache, n, match, Screen)
     ELSE /\ no' = n
          /\ form' = Rendered(form, Screen, list, None)
          /\ tasks' = Orphaned(tasks, list)
          /\ UNCHANGED <<cache, opened, odd>>
  /\ UNCHANGED <<page, hand, match, rows, clock, acked>>

-----------------------------------------------------------------------------
(* The user, with the component i, which is mounted.                        *)
(* odd collects what a form does that its user hardly meant:                *)
(*   crossed   sends for one row what was filled in for another             *)
(*   outdated  shows the row as it was before, the list showing it as it is *)
(*             (or this tab having changed it)                              *)
(*   blind     updates a row it never had                                   *)
(*   twice     creates what it is creating or has created already           *)
(*   wiped     loses what was typed                                         *)
Behind(d, f, r) ==
  /\ Dialog[d].does = "update"
  /\ f.who = r
  /\ \/ This.key = "single" /\ f.base < acked
     \/ r \in DOMAIN Screen /\ f.base < Screen[r]

OddShown(d, f, r) == IF Behind(d, f, r) THEN {<<"outdated", d>>} ELSE {}

OddSent(d, f, r) ==
  {<<what, d>> : what \in
     {w \in {"crossed", "outdated", "blind", "twice"} :
        \/ w = "crossed" /\ (f.who \notin {None, r} \/ f.sent = "moved")
        \/ w = "outdated" /\ ~Dialog[d].modal /\ Behind(d, f, r)
        \/ w = "blind" /\ Dialog[d].does = "update" /\ f.who = None
        \/ w = "twice" /\ Dialog[d].does = "insert" /\ f.sent \in {"sent", "stored"}}}

Open(i) ==
  /\ opened = None
  /\ Dialog[i[1]].modal
  /\ Dialog[i[1]].does # "view"
  /\ opened' = i
  /\ LET forms == Rendered(form, Screen, Screen, i)
         new == IF Dialog[i[1]].seed = "open" THEN [forms EXCEPT ![i] = Seeded(Screen, i)] ELSE forms IN
     /\ form' = new
     /\ odd' = odd \cup IF i \in DOMAIN new THEN OddShown(i[1], new[i], RowOf(Screen, i)) ELSE {}
  /\ IF This.query = "dialog" THEN Observe(cache[1]) ELSE UNCHANGED fetch
  /\ UNCHANGED <<page, hand, match, rows, clock, no, cache, tasks, acked>>

(* Shutting the dialog o; the form of a role's permissions goes with it,    *)
(* and its fetch.                                                           *)
Shut(forms) ==
  IF This.query = "dialog" THEN form' = Nothing /\ fetch' = None
                           ELSE form' = forms /\ UNCHANGED fetch

Shuttable ==
  /\ opened # None
  /\ Dialog[opened[1]].lock => \A s \in DOMAIN tasks : tasks[s] # None => tasks[s].of # opened

Emptied == [i \in DOMAIN form |-> IF i = opened /\ Dialog[i[1]].does = "view" THEN Blank ELSE form[i]]

(* (Bug: what a view was loading is shown when it comes.) *)
CloseBug ==
  /\ Shuttable
  /\ opened' = None
  /\ Shut(Emptied)
  /\ UNCHANGED <<page, hand, match, rows, clock, no, cache, tasks, acked, odd>>

(* What a view was loading is not shown any more; a dialog that is mounted  *)
(* when it opens takes its mutation with it, not its call.                  *)
Close ==
  /\ Shuttable
  /\ opened' = None
  /\ Shut(Emptied)
  /\ tasks' = [s \in DOMAIN tasks |->
       IF /\ tasks[s] # None /\ tasks[s].of = opened
          /\ Dialog[opened[1]].does = "view" \/ Dialog[opened[1]].fresh
         THEN [tasks[s] EXCEPT !.of = None] ELSE tasks[s]]
  /\ UNCHANGED <<page, hand, match, rows, clock, no, cache, acked, odd>>

AtHand(i) == opened = (IF Dialog[i[1]].modal THEN i ELSE None)

Type(i) ==
  /\ AtHand(i)
  /\ i \in DOMAIN form
  /\ Dialog[i[1]].does # "view"
  /\ form' = [form EXCEPT ![i].touched = Dialog[i[1]].seed \in {"tracks", "effect"},
                ![i].sent = IF Dialog[i[1]].does = "update" THEN @ ELSE "no",
                ![i].who = IF Dialog[i[1]].seed = "blank" THEN RowOf(Screen, i) ELSE @]
  /\ UNCHANGED <<page, hand, match, rows, clock, no, cache, fetch, opened, tasks, acked, odd>>

Enabled(i) ==
  CASE Dialog[i[1]].guard = "none" -> TRUE
    [] Dialog[i[1]].guard = "pending" ->
         \A s \in DOMAIN tasks : tasks[s] # None /\ tasks[s].of = i => tasks[s].at = "refetch"
    [] Dialog[i[1]].guard = "submitting" ->
         \A s \in DOMAIN tasks : tasks[s] # None => tasks[s].of # i

Targets(i) ==
  IF Dialog[i[1]].does \in {"insert", "clean"} THEN {None}
  ELSE IF i[2] = 0 THEN DOMAIN Screen
  ELSE {RowOf(Screen, i)}

Due == {s \in DOMAIN tasks :
  tasks[s] # None /\ tasks[s].at = "wire" /\ Dialog[tasks[s].name].does # "view"}

Started(i, r) ==
  \E s \in DOMAIN tasks :
    /\ tasks[s] = None
    /\ \A q \in DOMAIN tasks : q < s => tasks[q] # None
    /\ tasks' = [tasks EXCEPT ![s] = [of |-> i, name |-> i[1], row |-> r, at |-> "wire", ver |-> 0]]

Press(i, r) ==
  /\ AtHand(i)
  /\ Dialog[i[1]].does \notin {"view", "search"}
  /\ Enabled(i)
  /\ r \in Targets(i)
  /\ clock + Cardinality(Due) < MaxWrites
  /\ Started(i, r)
  /\ IF i \in DOMAIN form
       THEN /\ odd' = odd \cup OddSent(i[1], form[i], r)
            /\ form' = [form EXCEPT ![i].sent =
                            IF @ \in {"no", "moved"} /\ Dialog[i[1]].does \in {"insert", "update"}
                              THEN "sent" ELSE @,
                          ![i].touched = @ \/ Dialog[i[1]].seed = "tracks"]
       ELSE UNCHANGED <<odd, form>>
  /\ UNCHANGED <<page, hand, match, rows, clock, no, cache, fetch, opened, acked>>

(* A view of r; of one that lies on the page, another click puts it away.   *)
Look(i, r) ==
  /\ opened = None
  /\ Dialog[i[1]].does = "view"
  /\ r \in Targets(i)
  /\ IF Dialog[i[1]].modal THEN opened' = i ELSE UNCHANGED opened
  /\ form' = [form EXCEPT ![i] =
       [Blank EXCEPT !.who = IF opened' = None /\ form[i].who = r THEN None ELSE r]]
  /\ IF "show" \in Now(Dialog[i[1]].then) THEN Started(i, r) ELSE UNCHANGED tasks
  /\ UNCHANGED <<page, hand, match, rows, clock, no, cache, fetch, acked, odd>>

(* Other filters, m being let through, and page n.  What the server filters *)
(* is then another query's.                                                 *)
Filtered(i, m, n) ==
  /\ AtHand(i)
  /\ Dialog[i[1]].does = "search"
  /\ m # match
  /\ match' = m
  /\ IF This.paging # "client"
       THEN Render([k \in DOMAIN cache |-> NewEntry], n, m, Screen) /\ fetch' = NewFetch
       ELSE Render(cache, n, m, Screen) /\ UNCHANGED fetch
  /\ UNCHANGED <<page, hand, rows, clock, acked>>

(* (Bug: the page stays.) *)
SearchBug(i) == \E m \in SUBSET Row : Filtered(i, m, no)

(* The filters are applied: back to the first page. *)
Search(i) == \E m \in SUBSET Row : Filtered(i, m, 1)

(* The rows are folded and unfolded, or shown in the other way: all that is *)
(* mounted in them is mounted anew.                                         *)
Fold ==
  /\ This.folds
  /\ opened = None
  /\ form' = [i \in DOMAIN form |-> IF i[2] = 0 THEN form[i] ELSE Seeded(Screen, i)]
  /\ tasks' = [s \in DOMAIN tasks |->
       IF tasks[s] # None /\ tasks[s].of # None /\ tasks[s].of[2] # 0
         THEN [tasks[s] EXCEPT !.of = None] ELSE tasks[s]]
  /\ UNCHANGED <<page, hand, match, rows, clock, no, cache, fetch, opened, acked, odd>>

-----------------------------------------------------------------------------
(* The server. *)
Free == {r \in Row : rows[r] = None /\ \A q \in Row : q < r => rows[q] # None}

(* The rows after `does` to r, as change number `at`. *)
Changed(does, r, at) ==
  CASE does = "insert" -> {[rows EXCEPT ![q] = at] : q \in Free}
    [] does = "update" -> {[rows EXCEPT ![q] = at] : q \in Live \cap {r}}
    [] does = "delete" -> {[rows EXCEPT ![q] = Gone] : q \in Live \cap {r}}
    [] does = "clean"  -> {[q \in Row |-> IF q \in Live THEN Gone ELSE rows[q]]}
    [] OTHER           -> {}

Answered(s, at, ver) == tasks' = [tasks EXCEPT ![s].at = at, ![s].ver = ver]

(* The procedure runs; its answer may be lost. *)
Serve(s) ==
  /\ s \in Due
  /\ clock < MaxWrites
  /\ rows' \in Changed(Dialog[tasks[s].name].does, tasks[s].row, clock + 1)
  /\ clock' = clock + 1
  /\ Answered(s, "ok", clock + 1) \/ Answered(s, "error", 0)
  /\ UNCHANGED <<page, hand, match, no, cache, fetch, form, opened, acked, odd>>

(* It changes nothing the list shows: it is refused or never gets there, or *)
(* there is nothing to change.                                              *)
ServeNothing(s) ==
  /\ s \in Due
  /\ \/ Answered(s, "error", 0)
     \/ /\ \/ Dialog[tasks[s].name].does = "other"
           \/ Dialog[tasks[s].name].does = "delete" /\ tasks[s].row \notin Live
        /\ Answered(s, "ok", 0)
  /\ UNCHANGED <<page, hand, match, rows, clock, no, cache, fetch, form, opened, acked, odd>>

(* Another administrator. *)
Elsewhere ==
  /\ clock + Cardinality(Due) < MaxWrites
  /\ \E does \in IF This.key = "single" THEN {"update"} ELSE {"update", "delete"}, r \in Row :
       rows' \in Changed(does, r, clock + 1)
  /\ clock' = clock + 1
  /\ UNCHANGED <<page, hand, match, no, cache, fetch, form, opened, tasks, acked, odd>>

-----------------------------------------------------------------------------
(* invalidateQueries: every page of the list is marked, the one observed is *)
(* fetched again - unless it is being fetched for the first time, which the *)
(* call joins.                                                              *)
FirstLoad == cache[Slot(no)].list = None /\ fetch # None

(* (Bug: the key names the page, too.) *)
invalidateQueriesBug ==
  /\ cache' = [cache EXCEPT ![Slot(no)].stale = @ \/ cache[Slot(no)].list # None]
  /\ fetch' = IF FirstLoad THEN fetch ELSE NewFetch

invalidateQueries ==
  /\ cache' = [n \in DOMAIN cache |-> [cache[n] EXCEPT !.stale = cache[n].list # None]]
  /\ fetch' = IF FirstLoad THEN fetch ELSE NewFetch

(* The form of a handler that has its answer - which tells nothing of the   *)
(* fields if they have been filled again since they were sent.              *)
Told(f, t, did) ==
  IF "reset" \in did THEN Blank
  ELSE IF "show" \in did THEN [f EXCEPT !.shows = t.row]
  ELSE IF f.sent # "sent" THEN f
  ELSE IF t.at = "error" THEN [f EXCEPT !.sent = "no"]
  ELSE IF Dialog[t.name].does = "insert" THEN [f EXCEPT !.sent = "stored"]
  ELSE [f EXCEPT !.sent = "no", !.who = t.row, !.base = t.ver]

(* What may arrive: the answer, or just anything for a view, as nothing     *)
(* depends on when that was read.                                           *)
Answers(t) ==
  IF t = None THEN {} ELSE IF Dialog[t.name].does = "view" THEN {"ok", "error"} ELSE {t.at} \cap {"ok", "error"}

(* The answer arrives: the steps up to the refetch. *)
Receive(s, at) ==
  LET t == [tasks[s] EXCEPT !.at = at]
      steps == IF at = "ok" THEN Dialog[t.name].then ELSE Dialog[t.name].fails
      did == Now(steps)
      shut == /\ "close" \in did /\ opened # None
              /\ opened = t.of \/ (Dialog[t.name].fresh /\ opened[1] = t.name)
      gone == IF "done" \in did THEN {t.name} ELSE {}
      forms == [i \in {i \in DOMAIN form : i[1] \notin gone} |->
                  IF i = t.of THEN Told(form[i], t, did) ELSE form[i]] IN
  /\ tasks' = [tasks EXCEPT ![s] = IF "await" \in did THEN [@ EXCEPT !.at = "refetch"] ELSE None]
  /\ hand' = hand \ gone
  /\ opened' = IF shut THEN None ELSE opened
  /\ acked' = IF FirstLoad THEN acked ELSE Larger(acked, t.ver)
  /\ IF did \cap {"invalidate", "await"} # {}
       THEN form' = forms /\ invalidateQueries
       ELSE /\ IF shut THEN Shut(forms) ELSE form' = forms /\ UNCHANGED fetch
            /\ UNCHANGED cache
  /\ UNCHANGED <<page, match, rows, clock, no, odd>>

Init ==
  /\ page \in DOMAIN Pages
  /\ hand \in {h \in SUBSET This.holds : Cardinality(h) <= MaxHand}
  /\ match = Row
  /\ rows = [r \in Row |-> IF r = 1 \/ (r = 2 /\ This.key # "single") THEN 0 ELSE None]
  /\ clock = 0
  /\ no = 1
  /\ cache = [n \in 1..(IF This.paging = "server" THEN MaxPage ELSE 1) |-> NewEntry]
  /\ fetch = IF This.query = "page" THEN NewFetch ELSE None
  /\ form = [i \in {<<d, 0>> : d \in {d \in Held("page") : Dialog[d].seed # "none"}} |-> Blank]
  /\ opened = None
  /\ tasks \in {[s \in 1..n |-> None] : n \in 1..MaxTask}
  /\ acked = 0
  /\ odd = {}

Next ==
  \/ FetchServe \/ FetchDone \/ FetchFail \/ Refocus
  \/ \E n \in 1..MaxPage : Turn(n)
  \/ \E i \in Mounted(Screen) :
       Open(i) \/ Type(i) \/ Search(i) \/ \E r \in Targets(i) : Press(i, r) \/ Look(i, r)
  \/ Close \/ Fold
  \/ \E s \in DOMAIN tasks : Serve(s) \/ ServeNothing(s) \/ \E at \in Answers(tasks[s]) : Receive(s, at)
  \/ Elsewhere

Spec == Init /\ [][Next]_vars

-----------------------------------------------------------------------------
TypeOK ==
  /\ page \in DOMAIN Pages
  /\ hand \subseteq This.holds
  /\ match \subseteq Row
  /\ rows \in [Row -> 0..MaxWrites \cup {None, Gone}]
  /\ clock \in 0..MaxWrites
  /\ no \in 1..MaxPage
  /\ \A n \in DOMAIN cache : cache[n].list # None => DOMAIN cache[n].list \subseteq Row
  /\ DOMAIN form = Fielded(Screen, opened)
  /\ opened \in Mounted(Screen) \cup {None}
  /\ \A s \in DOMAIN tasks : tasks[s] # None => tasks[s].of \in Mounted(Screen) \cup {None}

(* A list that passes for fresh shows what this tab was told it changed,    *)
(* on every page of it that is cached, whatever was being fetched when the  *)
(* answer came and whether or not the component that asked is still there:  *)
(* every handler that changes the list invalidates it, all pages of it.     *)
(* (Not while the list loads for the first time: see acked'.)               *)
OwnWriteListed ==
  This.query = "page" =>
    \A n \in DOMAIN cache : cache[n].list = None \/ cache[n].stale \/ cache[n].at >= acked

By(what) == {o[2] : o \in {o \in odd : o[1] = what}}

(* What was filled in for a row is sent for that row, whatever rows appear, *)
(* go or move under the dialogs, and whichever page is turned to - except   *)
(* on the pages whose rows React tells apart by their place; nor does a new *)
(* row go where it was not meant to, but for an item of a dictionary, which *)
(* goes to the one that is selected when it is sent.                        *)
SentForItsRow ==
  By("crossed") \subseteq
    {"EditUserDialog", "ResetPasswordDialog", "EditJobDialog", "CreateDictItemDialog"}

(* A dialog opens with its row as the list shows it - except those whose    *)
(* fields are filled when they are mounted, or whenever the row changes     *)
(* (and they are untouched, or not), and the permissions of a role, which   *)
(* nothing invalidates.                                                     *)
OpensAsListed ==
  By("outdated") \subseteq
    {"EditUserDialog", "EditJobDialog", "EditMenuDialog", "EditRoleDialog", "EditDictDialog",
     "EditDictItemDialog", "EditParamDialog", "PermissionsForm", "ProfileForm", "SiteSettingsForm"}

(* Nothing is created by sending a form again that is on its way or stored: *)
(* not while the call, the refetch or both are pending, not from a dialog   *)
(* opened again - except by the dialogs that keep their fields.  (Not       *)
(* counted: once more after an error, be it that only the answer was lost.) *)
CreatedOnce ==
  By("twice") \subseteq
    {"CreateMenuDialog", "CreateRoleDialog", "CreateDictDialog", "CreateDictItemDialog",
     "CreateParamDialog"}

(* No refetch takes away what the user has typed, and no update is sent by  *)
(* a form that was never filled - except where an effect fills the form.    *)
TypedIsKept == By("wiped") \cup By("blind") \subseteq {"SiteSettingsForm", "PermissionsForm"}

(* A view shows what belongs to its row: what was being loaded for another  *)
(* one when that was put away never appears in it.                          *)
ShowsItsRow ==
  \A i \in DOMAIN form :
    Dialog[i[1]].modal => opened # i \/ form[i].shows \in {None, form[i].who}

(* Neither filters nor paging leave an empty page before the user while     *)
(* there is something to see: the client's pages are clamped, and on the    *)
(* server's one gets past the end only where rows have been deleted.        *)
PageOfTheList ==
  LET list == cache[Slot(no)].list IN
  list # None /\ DOMAIN Screen = {} =>
    CASE This.paging = "client" -> DOMAIN list \cap match = {}
      [] This.paging = "server" -> no = 1 \/ \E r \in Row : rows[r] = Gone
      [] OTHER                  -> DOMAIN list = {}
=============================================================================
