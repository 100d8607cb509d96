# Verification of ZerxLabKit

ZerxLabKit is an admin scaffold: a Go server that speaks connectRPC over a
GORM database (sqlite by default, postgres or mysql for several replicas) and a
React client. This directory holds TLA+ models of its stateful core, TLC
configurations that check them on small instances, and TLAPS proofs.

What a handler does to the database is a sequence of statements and
transactions; other handlers, background jobs and other replicas run between
any two of them, and a handler can stop after any of them. That is where this
code is hard, hard to test, and what the modules are about. **One action is one
statement or one transaction**; everything a handler reads is kept in the
locals of the request (`req[r]`) until it is used.

## 1. The system: inventory

| Part | State | Operations | Hard behaviour | What makes it correct |
|---|---|---|---|---|
| Sessions and credentials (`service/auth_service.go`, `auth_extra.go`, `user_service.go`) | `users.password_hash/status`, `user_sessions`, `password_reset_tokens` | Login, Refresh, Logout, RevokeSession, ChangePassword, ResetPassword, RequestPasswordReset, ConfirmPasswordReset, `session_cleanup` | check in one statement, write in another; password and sessions changed by two statements; refresh of a row that is being revoked | one session per user if configured; a replaced password leaves no session; a deleted session never returns; a reset token is used once |
| Brute-force guard, captcha (`ratelimit/login_guard.go`, `captcha/captcha.go`) | `login_attempts`, `captcha_codes` | Locked, NeedCaptcha, Fail, Reset, Verify, `auth_state_cleanup` | checks long before the count; UPDATE-then-upsert; windows that run out in between; ignored errors | bounded guesses per window; a lock ends, and only as it should; a captcha answers once |
| Distributed job lock (`jobs/locker.go`) | `job_locks` | Lock, Unlock (no-op) | several replicas, skewed clocks, crashes, lost answers; one row for all jobs | a firing is run by one replica, runs do not overlap, a lease blocks no other firing of its job |
| Scheduler and job service (`jobs/scheduler.go`, `registry.go`, `service/job_service.go`) | `scheduled_jobs`, `job_executions`, the in-memory map of gocron jobs | Start, Reschedule, Remove, RunNow, wrap, the job RPCs | row and in-memory schedule are changed one after the other; one replica only; a start that finds a deleted built-in job | the schedule that runs is the one stored; gocron holds nothing the scheduler has lost |
| Roles, permissions, enforcer (`service/role_service.go`, `api_service.go`, `casbin/casbin.go`) | `roles`, `role_menus`, `role_buttons`, `casbin_rule`; per replica the policies in memory and the cache of decisions | CreateRole, SetRolePermissions, DeleteRole, DeleteApi, SyncApis, Enforce | three steps outside the transaction; a cached decision that outlives the change | menus and policies of one call; a deleted role grants nothing; a revoked grant dies |
| Accounts and role assignment (`service/user_service.go`, `auth_service.go`, `server/import.go`) | `users`, `user_roles` | Register, CreateUser, import, UpdateUser, DeleteUser | checks outside the transactions, on both sides (roles exist / role in use) | one founder; no assignment of a role that is gone |
| Request authorization (`auth/interceptor.go`, `casbin_interceptor.go`, `server/httpauth.go`) | none: the token's claims | parse token, plugin gate, public, self-serve, admin, enforce | claims are as old as the token | a role that is revoked leaves the tokens |
| Plugin enable/disable (`plugin/state.go`, `service/plugin_service.go`) | `plugin_states`, per-replica map | SetEnabled, Reload, StartReloader, IsProcedureEnabled | row and map written in different orders; a reload that read before a toggle | map and table agree again |
| Parameter cache (`param/cache.go`, `service/param_service.go`) | `sys_params` (soft-deleted), per-replica map | Load, Get, Set, Reload, Create/Update/DeleteParam | soft-deleted row upserted; order of row and map | map and table agree |
| Two-factor (`auth_extra.go`, `auth_service.go:147`, `user_service.go:281`; `login.tsx`, `profile.tsx`) | `user_totps`, `totp_recovery_codes`; the state of the two pages | SetupTotp, ActivateTotp, DisableTotp, DisableUserTotp, consumeRecoveryCode, Login's second step | the secret validated is not the one enabled; a code spent twice; a mark that fails unnoticed; a page that forgets what it has to show | enabled means proven; a code that was marked works no more; who has it enabled has codes |
| Password policy, history (`auth/policy.go`) | `password_histories` | Validate, CheckHistory, RecordHistory | trim by creation time, ties | the last N are refused |
| Seeding, migration (`database/`) | all tables | Seed, syncMenus, syncAPIs, syncJobs | no transaction; a start that dies half-way | a second start completes the first |
| Plugin installer (`plugin/installer`, `plugin/validate.go`) | files, `all.go` | Install, Uninstall, teardownData | a sequence of file operations with a crash in between | installed or not |
| Menus (`service/menu_service.go`, `database/seed.go:252-413`) | `menus`, `role_menus` | CreateMenu, UpdateMenu, DeleteMenu, SetRolePermissions, GetUserMenus, syncMenus | rows moved under each other or left without their group; two reads for one answer | a user gets what is granted and the way to it |
| Dictionaries, logs, dashboard | one table each | CRUD | check, then delete | references intact |
| Files, uploads, media (`service/file_service.go`, `server/upload.go`) | `files`, objects in storage | upload, DeleteFile, signed URLs | row and object in two steps | no row without object |
| Tokens in the browser (`web/src/lib/transport.ts`, `auth.ts`, `routes/`) | tokens in localStorage, per tab one refresh promise and a page | authInterceptor, refreshTokens, failAuth, authedFetch, logins, logouts | tabs that share the store; calls that fail together; lost answers; a logout during a refresh | the tokens are one login's; one refresh at a time; a call is executed once |
| Pages of the admin area (`web/src/routes/_authed/*.tsx`, `plugin-components/shop`) | per page a react-query cache, the page number, filters, dialogs and their fields | queries, refetches, invalidations, mutations, paging, folding, previews | refetches that are behind; rows that move under an open form; answers that come late | what was written is listed; a form is sent once, for the row it shows |
| Sidebar (`routes/_authed/route.tsx`, `p.$.tsx`, `pub.$.tsx`, `use-sidebar-groups.ts`) | the menus in the cache, folded groups in localStorage | getUserMenus, findMenuTitle, findByPath, toggleGroup, the plugin switch | three searches of one tree; a switch during a fetch | they agree; a plugin switched off is gone |
| Rate limiter, HTTP wiring, import/export I/O, mail, config, generated code, shop's services, CLI | little or none | - | - | not modelled (section 8) |

How they interact: every call passes the interceptors (rate limit, token,
operation log, Casbin); a login reads the guard, the account, its two-factor
row and roles, and writes a session; tokens carry roles read at login or
refresh, so assignments act with a delay; roles, policies and assignments refer
to each other by role code without foreign keys; the scheduler runs the jobs
that clean up sessions, attempts and captchas; plugins gate procedures and jobs,
and their menus come and go with them. The replicas share the database and
nothing else; the tabs of a browser share localStorage and nothing else. In a
tab the pages, the sidebar and the header share one cache of queries, and a
write is followed by an invalidation of the queries that its component names.

## 2. Modules

| Module | Models | Checked by | Proved in |
|---|---|---|---|
| `Sessions` | accounts' credentials, sessions, reset tokens | `sessions` | `SessionsProofs` |
| `LoginGuard` | one login key's attempts row, captchas, Login's use of them | `login_guard` | `LoginGuardProofs` |
| `JobSlots` | abstract: exclusive, ordered, non-overlapping slots | as a property of `job_lease` | refinement in `SchedulerProofs` |
| `JobLease` | the lease row, clocks and runs of the replicas | `job_lease` | `SchedulerProofs` |
| `RolePolicy` | roles, menus, policies, enforcer memory and cache | `role_policy` | `RolePolicyProofs` |
| `Accounts` | accounts, assignments, role rows, claims in tokens | `accounts` | `AccountsProofs` |
| `PluginState` | one plugin's row, the replicas' maps, toggles and reloaders | composed, in `plugin_gate` | its types, in `SchedulerProofs` |
| `Scheduler` | job rows, in-memory schedule, runs; INSTANCEs `PluginState` for the gate | `scheduler`, `plugin_gate`, `builtin_job_deleted` | `SchedulerProofs` |
| `CallOnce` | abstract: a call, executed at most once and answered | as a property of `web_auth` | refinement in `WebAuthProofs` |
| `WebAuth` | the tabs' tokens, calls, refreshes, logins and logouts, and the server's sessions behind them | `web_auth` | `WebAuthProofs` |
| `TwoFactor` | one account's secret and recovery codes; the server's procedures and the two pages that call them | `two_factor`, `recovery_codes` | `TwoFactorProofs` |
| `AdminComponents` | what each page and dialog does, as records | in `admin_area` | by cases, in `AdminPagesProofs` |
| `AdminPages` | what react-query and React make of those records: cache, fetches, forms, handlers | `admin_area` | `AdminPagesProofs` |
| `Menus` | menu rows, grants, the entries declared by core and plugin, the user's tree | in `admin_area` | in `AdminPagesProofs` |
| `Sidebar` | extends `Menus` with a tab: cached tree, searches, folded groups, plugin switch, public page | `admin_area` | in `AdminPagesProofs` |

`MC<module>` instantiates a module for TLC. Operators named `...Bug` are not
part of any specification: each is a plausible slip of the definition that
follows it, and replacing that definition by it must break a property; they are
how the properties are known to say something about the code.

### Sessions

A password is the number of times it has been updated (`users[u].pw`); a
session row is `none`, `live`, `expired` or `gone`; a request remembers the
generation its login verified (`gen`). `LoginVerify` is Login up to the last
check (lines 95-128), `StartSession` and `CommitSession` are the two ends of the
transaction of `startSessionTx`: the eviction deletes the rows committed when it
runs. `ConfirmTx` and `ConfirmCommit` are the two ends of that of
ConfirmPasswordReset, which keeps the account's and the token's row locked from its
UPDATEs on and deletes the sessions that were committed by then; under READ
COMMITTED a login may commit another before the COMMIT does. `Serial` says whether write transactions exclude one another (sqlite) or
not (READ COMMITTED: there `OneSessionPerUser` fails, as overlapping logins do not
see each other's row). ChangePassword and ResetPassword share `ChangeFind`,
`UpdatePassword` and `DeleteSessions`; `Abort` stops a handler before any
statement: on an error, a cancelled ctx or a crash. History variables (`cred`,
`raced`, `interrupted`, `uses`) record only what properties speak of.

### LoginGuard

One key `email|ip`. Times are relative: the row has `left` ticks to live, a
request inside `Fail` has an `age` since its `time.Now()`. The two checks, the
captcha's read and delete, `Fail`'s UPDATE and upsert and `Reset` are actions;
`DbErrors` lets the statements whose error the code ignores fail (a failed read
counts as "no row", a failed UPDATE goes on to the upsert). `weak` marks a
window in which a failure was lost or a check skipped, and excludes it from the
bounds: that is what the code gives, not more. (So the count does not aggregate:
two first failures that both find no row both upsert 1.)
The repository's security notes (`.agents/skills/zerx-security/SKILL.md:75`)
still call guard and captcha in-process; the code keeps both in the database.

### JobLease implements JobSlots

A server's clock is its own; clocks differ by at most `Skew`. `FireSlot` is
gocron calling `Lock`, which reads the clock once; `Ensure`, `Claim` and `Refuse`
are its two statements; `StartRun`/`Skip`/`FinishRun`/`Crash` are `Scheduler.wrap`.
`TimingAssumption` is what the lease needs of ttl, period, delays, run time and
skew; the comment on `dbLocker` (`jobs/locker.go:25-28`) asks for less (skew <
ttl < period, runs shorter than ttl): latency, run time and skew have to fit into
the ttl together, and the ttl plus the firing delay into the period. There
is one row for all jobs: `schedule` gives gocron no name (`jobs/scheduler.go:87-90`),
gocron locks by its default, the name of the task's function, and that is the
closure of `wrap` whatever the job (gocron is external; so is this). So `JobOf`
names the job of a slot, and a claim meets whatever lease is there. Exclusive and
ordered slots survive that, as a shared row only refuses more; what it costs is
that a job is skipped, on every instance, when another was due within a ttl of it.
`RefusedOnlyNearby` bounds that: the lease never reaches a firing of the same job,
nor one of another that is further away. The three built-in jobs (3:00, 3:15,
3:30) do not meet; `Period` is of one job's firings (a minute at least with five fields,
`@every` can ask for less). `RunNow` (162-171) calls the handler without the lock and is not part of
the promise.

### RolePolicy

`SetRolePermissions` is a transaction on menus and buttons (`SetTx`), then three
calls on the enforcer (`Clear`, `Add`, `InvalidateCache`). Menus are named by the
procedures the same call asked for, so that "written by one call" can be said as
`rule[c] = menus[c]`. Each instance has its own `memory` (loaded at start) and
`cache`. `Enforce` is what the library does without holding a lock throughout:
look up, compute, store. `torn` and `late` are history variables for what the
code lets through: overlapping or broken-off calls, and decisions stored after
the cache was emptied. The library's behaviour (AddPolicies adds nothing if one
policy is there already; RemoveFilteredPolicy leaves the cache alone) is external.

### Accounts

`claims` holds the pairs (account, role) that some unexpired access token
carries. `Register` counts accounts, then inserts; `CreateUser`, import and
`UpdateUser` check that roles exist, then write; `DeleteRole` counts the users of
a role, then deletes: none of these checks is in the transaction it protects.
E-mails and role codes of deleted rows stay taken (unique indexes).

### Scheduler over PluginState

`PluginState` is SetEnabled as its three steps (First, write, map) and Reload as
its two (query, swap); `Purge` is the last step of `teardownData`, `NewState` the
start of a replica. `Scheduler` has the rows, and for each instance the map
`jobs` (name -> id) and `live`, the jobs gocron holds. Remove and schedule begin
alike - look up, RemoveJob, delete the key - which is `StopJob` and `DropKey`;
then `NewJob` and `SetKey`. The map has no lock, so calls interleave between
these; the run-time error that Go raises when it notices is one way to `Stop`.
`loose` is the history variable: the names on which calls overlapped, broke off
after their write, were served by another instance, or were purged, since this
one started; `Start` empties it. `wrap` is the gate and the beginning of a run,
`Fire` and `RunNow` its two callers; which replica wins a firing is `JobLease`'s
concern. CreateJob ignores `enabled = false`: the column default wins over a zero
value (`plugin/state.go:174-176` works around it), and the model does the same.
`syncJobs` is the part of Seed that concerns jobs.

### WebAuth implements CallOnce

A tab's code runs in tasks: what follows an `await` runs when the answer is
there, and everything up to the next one is atomic. **One action is one task**, or
one step of the server or the network. `Send`, `Receive` and `RefreshDone` are
`authInterceptor` and `authedFetch` (`Refused`, `Join`, `FirstReply`, `RetryReply`
their branches), `SignIn` a login or a registration, `Logout` and `LogoutDone`
the two halves of `handleLogout` and `handleLogoutAll`. `Serve`/`Lose` and their
counterparts for refreshes and logouts let the server do or refuse the work and
lose the answer either way. An access token is the number it was minted with; the
server takes it until it has expired, whatever has become of the session. All
logins are of one person. `CallOnce` promises of each call what a caller relies on:
its handler is executed at most once, and the caller is told of it only when it was.

### TwoFactor

Server side as in `Sessions`, statement by statement; in front of it the login
page (`LoginPage`: step, captcha, what is in the fields) and the profile page's
`TwoFactorSection` (idle, setup, activated, and `enabled`, which is what the last
`me` said). `shared`, `swapped` and `taken` record the overlaps that the code does
not rule out: two requests holding one recovery code, SetupTotp inside an
ActivateTotp, and an ActivateTotp inside a DisableUserTotp. Reads that fail count as
what the code takes them for (no second factor, no recovery code), and a
transaction that fails (`StatementFails`) answers with an error. `MarkUsed` may fail
too, and `consumeRecoveryCode` drops its error: the door opens, and the code is
there as before. `spent` are the codes that opened it and were marked, `twice` those
that opened it again after that.

### AdminComponents, AdminPages

Eighteen pages and their dialogs are built from the same parts in different
order: `useMutation` or `mutateAsync`, `await invalidate()` or not, reset before
close or after, `disabled={isPending}` or `isSubmitting`, fields taken from a row on
mount, on opening, by `defaultValues` or by an effect. `AdminComponents` has one
record per component saying which of these its code does, and in which order;
`AdminPages` says what follows from that under react-query and React: `FetchServe`,
`FetchDone`, `FetchFail` and `Refocus` are a query's life; `Render` is what a change
of the screen does to the forms mounted on it (`Rendered`, `StillOpen`,
`Orphaned`), `Turn`, `Search`, `Fold`, `Look`, `Open`, `Close`, `Type` and `Press` are
the user, `Serve` the server's side of a call, `Receive` the handler when it has the
answer, `Elsewhere` another administrator. A dialog that is made anew each time it
is opened (`Anew`) has its button enabled again while its former call is under way.
Of the items of a dictionary (`nested`) the choice of the dictionary is the filter:
what is typed for a new item stays, and is for another dictionary then (`Moved`).
`odd` collects what a form did that
its user hardly meant. Properties of forms name the components that do not keep
them; these sets are findings (section 4).

### Menus, Sidebar

`Menus` is the server: the rows, one user's grants, and `Start`, which is
syncMenus and the pruning of the menus of a plugin that is no longer built in.
`Climb` is the loop that adds the groups above a granted menu, with its early end;
`UserTrees` has the trees for every order in which Go may walk the map. A tree is
the set of its entries, each with its parent; siblings come in the order of their
ids. What the code computes by recursion over parents or children (`Climb`,
`buildMenuTree`, `Above`) is the smallest set that its step leads to, and the loops of
syncMenus and GetUserMenus are recursive functions of the number of their turns.
`Sidebar` reads rows and grants in two steps (`LoadMenus`, `GetUserMenus`), keeps
the tree in react-query's cache and looks things up in it in the code's three
ways: `findMenuTitle` (a raw `startsWith`), `findByPath` (equality) and
`activeGroupId` (whole segments). Paths are sequences of pieces, the pieces in
`Slash` being those that begin with a slash.

## 3. Runs

| Run | Instance | What it shows |
|---|---|---|
| `sessions` | 2 users, 2 session ids, 1 token, 2 requests, serial transactions, single session; symmetry, VIEW; ~1,000,000 states | `OneSessionPerUser`, `CredentialRevocation` (a session of a replaced password is about to go, or its login raced the change, or the change broke off), `UsesBoundedByOverlap`, `NoResurrection` |
| `login_guard` | 2 requests, 2 captchas, thresholds 2 and 3, window of 2 ticks, failing statements; ~770,000 states | `GuessBound`, `UnbackedBound`, `CaptchaBound`, `LockIsTemporary` |
| `job_lease` | 2 servers, 2 slots of one job and 1 of another, period 5, ttl 3, skew 1; symmetry, VIEW; ~153,000 states | `RefusedOnlyNearby`, `ImplementsJobSlots` |
| `role_policy` | 1 role, 2 procedures, 1 instance, 2 requests; ~160,000 states | `PermissionsFromOneCall`, `DeadRoleGrantsNothing`, `CacheFollowsMemory`, `RevocationTakesHold` |
| `accounts` | 2 e-mails, 3 roles, 2 requests; ~1,060,000 states | `OrphansCrossed`, `FoundersBoundedByOverlap`, `RevokedRoleFades` |
| `scheduler` | 1 instance, 2 jobs, 2 names (1 built-in), 2 handlers, 2 requests; VIEW; ~1,050,000 states | `ScheduleFollowsRows`, `NoOrphanJob` |
| `plugin_gate` | 2 replicas (1 with a scheduler), 2 toggles, 1 job of the plugin; ~440,000 states | `DisabledPluginRests`, `ServingAgrees` |
| `web_auth` | 1 tab or 2, 2 calls, 2 sessions, 2 tokens each; ~1,100,000 states | `StoreFromOneLogin`, `OneRefresh`, `LogoutEndsSession`, `LiveLoginKept`, `ImplementsCallOnce` |
| `two_factor` | a login and a profile page, or two of one; 2 secrets, 2 sets of codes; symmetry, VIEW; ~1,340,000 states | `EnabledMeansProven`, `RecoveryCodeOnce`, `EnabledHasCodes` |
| `admin_area` | each page with each of its components, 3 rows, 2 changes; or the sidebar, 4 menu ids, 2 changes; ~1,140,000 states | `OwnWriteListed`, `SentForItsRow`, `OpensAsListed`, `CreatedOnce`, `TypedIsKept`, `ShowsItsRow`, `PageOfTheList`; `MenusAsGranted`, `ToggledOffGone`, `SearchesAgree`, `NewGroupsOpen` |
| `builtin_job_deleted`, `recovery_codes` | | violated: section 4 |

The type invariants are not spent a run on, as TLAPS proves them.

**Bounds.** Two requests are enough for every hazard listed: each is a pair of
handlers that overlap; a third would only repeat one of them. Two session ids
let two logins of one user overlap or follow each other. `MaxPw` (60 in
`sessions`) is never reached: the run's VIEW compares generations with the
current one only, so it bounds nothing but the numbers. `MaxUses` 3 is above what
two requests can do. In `login_guard` the window (2) lets a failure be late by
less than, and by exactly, one window; thresholds 2 and 3 separate captcha from
lock; `MaxFails` 5 is past every threshold. `job_lease` has two slots of a job because the
lease of one can only reach the next, a slot of another job as early before the
second as a lease can reach, and constants with one tick of each delay, on the edge
of `TimingAssumption`; two servers, as a claim meets one lease. `role_policy` needs two procedures for two
calls with disjoint requests; instances beyond one have a memory and a cache of
their own, and one that another instance's writes never reach. `accounts`
bounds the roles of a request (`MaxRoles` 1) and the claims at one time
(`MaxClaims` 1): no property relates two roles of one account or two tokens.
`scheduler` needs two names for a rename and two rows for one name passing from
one to the other; `MaxLoose` 0 lets no new call begin once calls have collided,
until the instance restarts - what is loose is exempt from both properties, and
calls in flight go on; three gocron ids are more than two rows need, so that a
lost job does not stop the next. `plugin_gate` has two toggles, which is what
writing row and map in different orders takes, and no job calls: its job is
in the table from the start.

`web_auth`: two calls are what a shared refresh takes, two sessions a login after
another; a session has the token of its login and one of a refresh (`MaxMint` 2).
With a second tab open only one call is made (`MaxShared` 1), the other tab being
needed for its logins, logouts and reloads. `two_factor`: the guard's count is not
raised while a profile page is open (`MaxFails`), since enrolment does not consult
it. `admin_area`: a list has up to 3 rows and a paged one a row on each of 2 pages;
two changes (`MaxWrites`) are one's own and one of somebody else, or an edit of
what was just created; two handlers at work (`MaxTask`) where a page-wide dialog
can be opened again while its first call is under way; one component in a visit,
as dialogs are modal and share nothing but the list, or two (`MaxHand`): the dialog
for new dictionary items and the choice of the dictionary. Of components
that are alike in every respect the records speak of, `MCAdminArea` checks one.
The sidebar starts from a core group, an entry in it and an entry of the plugin,
and has one id to spare; administrators switch the plugin, other users fold groups,
one each (`MaxFold`). Entries are ordered by id, as when `sort` is equal.

**Symmetry and VIEW** are used in `sessions`, `job_lease` and `two_factor` (whose VIEWs
leave out what no step looks at any more), and a VIEW that leaves out `runs` in
`scheduler`; these have no liveness property (`ImplementsJobSlots` is a safety property).
`CHECK_DEADLOCK FALSE` is set where a bounded model really stops: no more
session ids, no more slots; a server that cannot start (`builtin_job_deleted`);
a browser whose calls, sessions and changes are used up.

**Fairness.** `LoginGuard`: `WF(Tick)`, clocks advance; nothing is owed by a
request, so the lock ends even if every request hangs. `RolePolicy`: a computed
decision is stored (it is the next instruction) and cached decisions expire.
`Accounts`: a request that has read the roles mints its token or fails, and
tokens expire. `Scheduler`: while a replica serves its reloader ticks for ever and
some query succeeds (it runs on postgres and mysql; on sqlite there is none, and
`Reloading` is FALSE), and a handler's run ends; nothing is owed by toggles and
calls. The other modules have no liveness property and no fairness: a browser
owes nobody a click, and a network no answer.

## 4. Findings

Two are runs that must be violated, of a property that states what a comment of
the repository says.

- `builtin_job_deleted`: "syncJobs idempotently inserts the built-in
  scheduled jobs ... Runs on every startup" (`database/seed.go:460-462`); after
  DeleteJob of one of them the soft-deleted row keeps the unique name, the insert
  fails at the next start, and the server does not come up.
- `recovery_codes`: "Activated - show recovery codes once" (`profile.tsx:456`);
  `handleActivate` also refetches `me`, and when that says `totpEnabled` the section
  shows its other branch: the codes are gone after one round trip.

Stated in the modules, known not to hold, and not run (a cfg with the property as
INVARIANT or PROPERTY shows the behaviour):

- `Sessions!ResetTokenSingleUse`: "tokens are single-use" (`model/password.go:6`);
  two overlapping confirmations both use one. `UsesBoundedByOverlap` is what holds.
- `Sessions!ChangeTakesEffect`: "revokes all their sessions so the change takes
  effect immediately" (`service/user_service.go:244-245`); a login that verified the
  old password before may insert its session after. `CredentialRevocation` is what
  holds.
- `RolePolicy!GrantTakesEffect`: granting takes effect at once (`zerx-authz` guide,
  line 62); a decision computed before is stored after the cache was emptied, for an
  hour.
- `Accounts!OneFounder`: "The first user to register becomes admin; all subsequent
  self-registrations are regular users" (`service/auth_service.go:205-206`); two
  overlapping first registrations both become administrators.
- `JobLease!RefusedOnlyIfTaken`: a row for each task name (`model/joblock.go:5`); there
  is one for all jobs, and of two that are due together one is skipped.
  `RefusedOnlyNearby` is what holds.
- `consumeRecoveryCode` "marks a matching unused recovery code used"
  (`service/auth_service.go:143`): a mark that fails is not noticed, and the code works
  again, with no overlap at all. `RecoveryCodeOnce` is of codes that were marked.
- `TwoFactor!PromptedCodeIsChecked`: the second step of a login sends the captcha of
  the first, which is used up; whoever needs both is refused until the count has
  run out (`login.tsx:54-70`).

The sets that the properties of `AdminPages` except are components whose code
does what the property excludes:

- `SentForItsRow`: EditUserDialog, ResetPasswordDialog, EditJobDialog. Rows of a
  `useReactTable` without `getRowId` are told apart by their place, so a refetch that
  moves rows hands an open form to another row
  (`.agents/skills/zerx-frontend/SKILL.md:30` asks for keys by id). And
  CreateDictItemDialog, which sends what was typed for one dictionary to the one that
  has been selected since (`dicts.tsx:108-145`).
- `OpensAsListed`: EditUserDialog, EditJobDialog, EditMenuDialog, EditRoleDialog,
  EditDictDialog, EditDictItemDialog, EditParamDialog, PermissionsForm,
  ProfileForm and SiteSettingsForm may open with values from before the last change listed.
- `CreatedOnce`: the create dialogs of menus, roles, dictionaries, dictionary items
  and parameters can send what has been stored already once more.
- `TypedIsKept`: SiteSettingsForm and PermissionsForm are filled by an effect: a
  refetch takes away what was typed or ticked, and PermissionsForm can be sent before
  it is filled.

Also met while modelling: the dialog on the error-log page deletes operation logs
and refreshes only the list of errors (`error-logs.tsx:294-346`); "the group holding
the active route is always reported open" (`use-sidebar-groups.ts:39-42`) is not so
for a group inside a group, nor for the second of two that hold it; two tabs
overwrite each other's folded groups; an administrator's own menu edits do not
refresh the sidebar; the sidebar ignores a menu's `hidden`; "/plugins-old" has the
title of "/plugins"; children of a deleted group are not on the menus page any more;
declared menus that were deleted return at the next start; syncMenus inserts a
row and its grants in separate statements, so that a start that dies in between
leaves a menu that nobody is granted.

## 5. Proofs

TLAPS checks the theorems for every value of the constants that satisfies the
named assumptions.

**SessionsProofs.** `TypeCorrect`, `SingleSessionHolds` (OneSessionPerUser),
`RevocationHolds` (CredentialRevocation), `RevocationFinal` (NoResurrection).
The invariants are inductive only together:
`CommitInv` - requests that have inserted a session and not committed hold
distinct ids, whose rows are not visible yet and have the request's user and
generation; `GenInv` - no session and no login has a newer generation than its
account; `EvictionInv` - under `Serial` at most one request is between insert and
commit, and under single session it has marked every row of its user for
deletion. Only then is "one row per user" kept by the commit. `RevocationHolds`,
for every `Serial`, needs `GenInv`, the history variables and `ConfirmInv`: an open
ConfirmPasswordReset has its account's row to itself, and each session of the account
is one that it deletes or one that raced it. So a password is replaced only where its
sessions need no excuse (`Settled`), or the change is under way or broke off
(`Excused`). Steps that
touch none of an invariant's variables are dealt with once (`Quiet`).
`UsesBounded` (UsesBoundedByOverlap) counts: the uses of a token and the requests
that have looked it up and not yet used it are together at most all requests,
and once it is used nobody joins them (`UsesInv`); `Req` is assumed finite.

**LoginGuardProofs.** `LoginGuardType`, `GuessesBounded` (GuessBound),
`UnbackedBounded` (UnbackedBound), `CaptchasBounded` (CaptchaBound), for any finite
set of requests, any captchas and any thresholds. A bound on guesses is not
inductive, since the row says nothing of those who are on their way to it. So
`CountInv` balances the books (every look at credentials is in the row or held by a
request that has still to count it), and `LockInv` and `NakedInv` say that once the
row has reached a threshold nobody joins those that had passed its check before;
`PassInv` does the same for a captcha that was read and not yet deleted. A
request whose failure belongs to a window that is over is told apart by its `age`
(`Uncounted`). All of it is of windows that are not `weak`.

**SchedulerProofs.** `ScheduleFollows` (ScheduleFollowsRows), `NoOrphans`
(NoOrphanJob), `SchedulerType`, for any number of instances, calls, rows and names,
and at least as many gocron ids as rows. What has to be
known is what a call knows between its steps: `ShapeInv`, what it has in hand at
each of them; `RowsInv`, what it may conclude from that about the rows (the row it
found is still that one, nobody has taken the name it gave up, what it wrote is
what it reads back); `DoneInv`, how far it has taken the schedule; `AloneInv`, that
a name which is not loose is one call's. `BookInv` says that map and gocron agree on
whose job an id is, and that an id between NewJob and the map is its call's alone;
`NamesInv` is the unique index. `FollowInv` and `OrphanInv` are the two properties
without their exceptions for calls at work. The steps come in few kinds, each
dealt with once: `WorkInv` (a step of a schedule), `WriteInv` (a statement on a row),
`LoosenInv` (syncJobs, a purge), `IdsEnough` (gocron can always name a job).

**WebAuthProofs.** `WebAuthType`, `OneLoginStored` (StoreFromOneLogin),
`SharedRefresh` (OneRefresh), `LogoutTakesHold` (LogoutEndsSession), the action
property `LoginIsKept` (LiveLoginKept), and `CallsOnce`: `WebAuth` refines `CallOnce`
(ImplementsCallOnce). `CallInv` and `PromiseInv` tie a call, its tab's promise and the
refresh in flight to each other; `ExecutedOnce` says at which of its stages a call
has been executed; `OpenedInv`, that a session id in the store, in a refresh or in a
logout is that of a login that has been made, never of one to come (without it
a late logout could end somebody's next login); `RefreshInv` and `LogoutInv`, what
their answers mean. For the refinement, the server's `Serve` is the execution, what
a caller is told is the answer, and everything about tokens stutters.

**TwoFactorProofs.** `TwoFactorType`, `EnabledIsProven` (EnabledMeansProven),
`CodesUsedOnce` (RecoveryCodeOnce), `CodesOfOneActivation` (EnabledHasCodes), for any
pages, secrets and activations. `MarkInv`, `HeldTwice` and `HeldUsed` are about the
time between a code's check and its mark: who holds it alone finds it unused, or
the overlap is in `shared`. `SpentInv`: a spent code is used or gone, so that whoever
finds a code unused afterwards is somebody who held it before. `EnablingProven` is the same for an activation between
its check and its transaction, `PurgingInv` for a DisableUserTotp between its two
statements. `OneSet`: the codes of one activation are there at most.

**JobLease, in SchedulerProofs.** `TakenOnce` (a slot is run by one replica), `RunsApart` (runs do
not overlap, of whichever jobs) - proved only, no run repeats them -, `BlockedByNeighbours`
(RefusedOnlyNearby) and
`LeaseImplementsSlots`, from `JobLeaseAssumption` and `TimingAssumption`. The
inductive invariant is `LeaseTypeOK`, `SkewInv` (clocks within `Skew`), `TimeInv`
(an attempt lies between its slot's time and that plus `FireDelay`, and no later
than `LockLatency`, `RunTime` behind the clock), `LeaseInv` (the lease is not
before the end of any claim's, and is that of one of them), `OneHolder` (one
attempt at most, of whatever job, is between its UPDATE and the end of its run), together
with `OnePerSlot` and `RefusedOnlyNearby`. `ClaimAlone` says that a claim finds no taker
of that slot, nor of a later one of its job, and nobody at work; `RefusalJustified`
that a refusal finds a taker near by. Refinement follows: `Claim` is `Take`, `StartRun` is `Run`,
`FinishRun` and a crash of a run are `Stop`, everything else stutters.

**RolePolicyProofs.** `RolePolicyType`, `PermissionsHold`, `DeadRoleHolds`,
`CacheHolds`. `PermissionsFromOneCall` says nothing of a call that is half-way;
`HalfSetInv` does: unless the role is torn the call is alone, the menus are its own,
and once it has cleared the policies there is nothing in the rows or in its
instance's memory that `Add` could collide with. `DeadInv` extends
`DeadRoleGrantsNothing` to requests that are past `Clear`, and `FreshInv` says that
nothing refers to a role that was never created. Most steps only take policies
away or end a request; `Shrunk` deals with all of them. For the cache the property
is inductive by itself, decision by decision (`Covered`); `Elsewhere` says that the
steps of one instance are no concern of another.

**AccountsProofs.** `AccountsType`, `OrphansHold`, `FoundersHold`. `DeletionInv`:
whoever has a role that a `DeleteRole` has found unused got it since, and that is
recorded. `FounderInv`: as long as there is a founder there is an account, so that
no registration that counts from then on can add to those pending, and founders
and pending ones together are at most as many as the requests.

**AdminPagesProofs.** `AdminPagesType`, `OwnWritesListed` (OwnWriteListed),
`DialogsOpenAsListed` (OpensAsListed), `TypingKept` (TypedIsKept), `SentForTheirRows`
(SentForItsRow), `ViewsShowTheirRow` (ShowsItsRow), `CreatedOnlyOnce` (CreatedOnce),
`PagesOfTheList` (PageOfTheList): for all pages and components at once, any number of
rows, writes, handlers and pages of a list. What `AdminComponents` says is used by
cases, one per component (`ComponentFacts`, `PageFacts`); from there on a component is
only what it does, where it is, what fills it and which steps follow its answer.
`Shape` comes first: what is mounted has its form, what is open is mounted, a
handler knows its component for as long as that is there, and only one handler of a
page-wide view is ever under way. `TaskNext` and `FormNext` then say once what a step
can do to a handler (nothing, go on, lose its component, end) and to a form (stay,
be typed into, be sent, be filled, be told, be moved), so that each property is about those
few cases instead of eighteen actions. Each has its own invariant on top: `Listed`
(a fetch in flight that has read is no older than what the tab was told),
`Filled`, `Aimed` (where rows are told apart by id, a form and its handlers are of the
row of its key) with `Sendable` and `Displacing` (only the dialog for new dictionary
items can be moved to another selection), `Viewed` (a view that is loading is open, for the row
it holds), `Created` (a form counts as sent only while a handler keeps its button
disabled, or until it is filled anew) and `Paged` (while no row has been deleted, no
page is past the end; `RankOnto`, by counting, says that there is a row on every page
up to the last).

**Menus and Sidebar, in AdminPagesProofs.** `MenusGranted` (MenusAsGranted), `SwitchedOffGone`
(ToggledOffGone), `SameEntryFound` (SearchesAgree), `UntouchedGroupsOpen` (NewGroupsOpen), for
any rows, seeds and histories. They rest on `ShellKnown` (`ShellOfIdsGiven`): rows have only
ids that were given, so has every tree in the tab or on its way, each id once, and
what is folded has been folded by somebody or is deleted; a new id is then folded by
nobody. `SyncMenusKnown` takes it through the loop of a restart, turn by turn. For
`MenusGranted`, `GroupsClosed` is the invariant of the loop over the grants: what
lacks its parent is still to be walked, and everything that was added is on the way
up from a grant. `TreeOf` then says that of rows which have their parents with them
those are in the tree whose way up leads to the top. Both inductions take the least
turn at which the invariant fails (`NatLeast`), and show that the recursive function
is there at all (`SyncLoop`, `GrantLoop`). `Hidden` adds to `ToggledOffGone` the fetch
under way: rows and tree of a request that was begun since the switch have nothing
of the plugin.

**Assumptions.** Each is named in the module that declares the constants: finite
sets of requests where requests are counted (`Accounts`, `Sessions`, `LoginGuard`),
thresholds and bounds that are natural numbers, `MaxMint > 0` (a login has a token),
finitely many rows (jobs, menus, and what a page lists) and at least as many gocron ids
as jobs, `None` distinct from what it stands beside, and no page whose address is
empty (`SidebarAssumption`). Nothing else
is assumed of how many there are of anything.

**What the proofs changed.** Five things were found wanting and corrected.
The cases of `TwoFactor!Answered` overlapped, so that for an answer with which two of
them agreed the definition said nothing (TLC takes the first and does not notice).
`NoOrphanJob` let a call on any instance excuse a job without an entry; it has to be
a call on the instance that holds it. And the type invariants of `WebAuth` and
`Scheduler` now say what a record in progress can be, instead of which fields it
has. `OpensAsListed` did not name SiteSettingsForm: no run was large enough to show
that a save's refetch may find it edited again (three changes do). The same attempt
showed that an answer told a form that it was stored which had been filled again
since it was sent (`Told`), and that the button of SiteSettingsForm is disabled until
the refetch it awaits is over (`guard`).

**Only model-checked.** Liveness (`LockIsTemporary`, `RevocationTakesHold`,
`RevokedRoleFades`, `DisabledPluginRests`, `ServingAgrees`), which is out of the
prover's reach. Every other property of a passing run has its theorem. What
no theorem says: the types of `Menus` and `Sidebar` beyond what `ShellKnown` needs,
such as that the parent of a declared menu is there when its entry is.

## 6. Plan

In this order, most important first.

1. `Sessions`, `LoginGuard`, `JobSlots`/`JobLease`, `RolePolicy`, `Accounts`: done.
2. Proofs of all of these, the bounds that count included: done.
3. `PluginState` and `Scheduler`, composed through the gate in `wrap`, with the
   proofs of `ScheduleFollowsRows` and `NoOrphanJob`: done. Left: `ParamCache`, the second
   cache that catches up with its table; single-node sqlite, where no reloader
   mends a map written in another order than the row.
4. `TwoFactor`, with the pages that use it: done. `WebAuth` over `CallOnce`: done,
   with the proofs of all their properties and of the refinement.
5. `AdminComponents`, `AdminPages`, `Menus`, `Sidebar`: done, with proofs of all
   their properties. Left: menu buttons and GetUserButtons; a start that dies inside syncMenus.
6. `Seed` and `Installer`: first start with a crash, incremental start, install
   and uninstall as file operations; the name patterns of `teardownData`
   (`service/plugin_service.go:217-220`) against plugins whose names are prefixes of
   each other.
7. `PasswordHistory`, `Files` on the server, `Dicts` (check-then-delete).

Abstract specifications worth stating: the slots of a job and a call that is
executed once (done), a cache that catches up with its table (3), a one-time code
(reset tokens, captchas and recovery codes are three implementations of it).

## 7. How to run

    tlc -config MCSessions.cfg MCSessions.tla
    tlc -config MCAdminArea.cfg MCAdminArea.tla
    tlapm SessionsProofs.tla

## 8. Not modelled, and why

Mail, configuration, generated code (of the TypeScript too: some 11,000 lines) and
the API catalogue's own rows: pure I/O, constants or generated text. The rate
limiter is a token bucket of real time behind one mutex. The HTTP wiring,
import/export formats and the operation log are I/O; the log's asynchronous write
loses records by design. The shop plugin's services are CRUD over single tables
(its pages are modelled), the project generator is a one-shot text transformation,
and the guards under `.omp` and `.opencode` concern the development of the code.
Password hashing, token signatures and Casbin's matcher are taken as what they
promise. Within the modelled parts of the server: profile fields, listings, audit
records, role names and password policy checks that only refuse a request;
accounts disabled or deleted keep their sessions, as in the code (UpdateUser and
DeleteUser do not touch `user_sessions`).

In the browser: the component library, translations, theme, the site's name and
icon, exports and downloads, and which buttons a user sees (`can` is modelled for
the plugin switch only). A page that is left is not come back to, and a filter
that was left is not gone back to, so caches of other queries are not reused. A
reload is one step. Uploading several files is one call, and several plugin rows
shown open are one. React's remounting of cells when the columns of a table are
made anew is left out. In the shop an edit dialog stays open when its row is gone from the list, here it
closes with it. A form that is sent again after an error is not counted by
`CreatedOnce`, although the server may have stored it and lost the answer. Once a row
has been deleted, `PageOfTheList` asks nothing of a page beyond the first of a list
that the server pages: the code stays on it. A write answered during the first load of a list joins that
load, and is exempt from `OwnWriteListed` and `ToggledOffGone`, as the code gives no
more. `Sidebar` has one replica of the server; what several do to a plugin's state
is `PluginState`. Names of menus are not edited, `Start` is one step, and
statements of `TwoFactor`'s transactions fail together.
