------------------------------ MODULE WebAuth ------------------------------
(***************************************************************************)
(* The tokens of the web client.  localStorage is shared by all tabs of the*)
(* browser; each tab has its own refreshPromise, its own calls in flight   *)
(* and its own page.  The server mints access tokens, which it accepts     *)
(* until they expire whatever becomes of the session, and refreshes them   *)
(* while the session is there.                                             *)
(*                                                                         *)
(* One action is one task of a tab's event loop (with the microtasks it    *)
(* leaves behind) or one step of the server.  All logins are of one person.*)
(***************************************************************************)
EXTENDS Naturals, FiniteSets

CONSTANTS
  Tab,      \* tabs of one browser
  Call,     \* calls, numbered in the order they are made in
  Sid,      \* sessions, numbered likewise; a refresh token is good for one
  MaxMint,  \* bound: access tokens minted per session
  MaxShared, \* bound: calls made while several tabs are open
  None

ASSUME WebAuthAssumption ==
  /\ Call \cup Sid \cup {MaxMint, MaxShared} \subseteq Nat
  /\ MaxMint > 0
  /\ None \notin Tab \cup Call \cup Sid

VARIABLES
  store,    \* localStorage
  page,     \* page[t]: the route a tab shows
  promise,  \* promise[t]: refreshPromise, named by the call that made it
  flight,   \* flight[c]: the refresh that c started
  call,     \* call[c]: progress of a call
  logout,   \* logout[t]: progress of handleLogout(All)
  alive,    \* the sessions that exist on the server
  minted,   \* minted[s]: access tokens issued for s so far, numbered from 1
  expired,  \* expired[s]: those of them that are no longer accepted
  executed, \* executed[c]: how often the server ran the handler of c
  crossed   \* history: a refresh stored its tokens over another login's, or
            \* over a store that had been cleared

client == <<store, page, promise, flight, call, logout, crossed>>

server == <<alive, minted, expired, executed>>

vars == <<client, server>>

Token == [sid : Sid, n : 1..MaxMint]

Store == [access : Token \cup {None}, refresh : Sid \cup {None}, sid : Sid \cup {None}]

(* A refresh under way, for the session whose refresh token it carries. *)
Refresh == [sid : Sid, at : {"wire", "minted", "refused", "lost"},
            token : Token \cup {None}]

(* A logout under way; `ends` is defined with Ends. *)
Leaving == [ends : SUBSET Sid, header : Token \cup {None},
            at : {"wire", "ok", "denied", "failed"}]

ASSUME NoneAssumption == None \notin Token \cup Refresh \cup Leaving

Empty == [access |-> None, refresh |-> None, sid |-> None]

(* A tab that is closed does nothing. *)
Page == {"closed", "login", "app"}

(* query: aborted by queryClient.clear.  write: a mutation, or authedFetch. *)
(* (Calls of AuthService, which the interceptor never refreshes for, go by  *)
(* as if it were not there; those of a logout are in `logout`.)             *)
Kind == {"query", "write"}

(* wire: on its way to the server.  reply: the answer on its way back.      *)
St == {"idle", "wire", "reply", "waiting", "ok", "error"}

Reply == {"ok", "error", "denied"}

Progress ==
  [st : St, tab : Tab \cup {None}, kind : Kind, header : Token \cup {None},
   reply : Reply, retried : BOOLEAN, aborted : BOOLEAN]

NewCall ==
  [st |-> "idle", tab |-> None, kind |-> "query", header |-> None,
   reply |-> "error", retried |-> FALSE, aborted |-> FALSE]

TypeOK ==
  /\ store \in Store
  /\ page \in [Tab -> Page]
  /\ promise \in [Tab -> Call \cup {None}]
  /\ flight \in [Call -> Refresh \cup {None}]
  /\ call \in [Call -> Progress]
  /\ logout \in [Tab -> Leaving \cup {None}]
  /\ alive \in SUBSET Sid
  /\ minted \in [Sid -> 0..MaxMint]
  /\ expired \in [Sid -> 0..MaxMint]
  /\ executed \in [Call -> Nat]
  /\ crossed \in BOOLEAN

Init ==
  /\ store = Empty
  /\ page \in [Tab -> {"closed", "login"}]
  /\ promise = [t \in Tab |-> None]
  /\ flight = [c \in Call |-> None]
  /\ call = [c \in Call |-> NewCall]
  /\ logout = [t \in Tab |-> None]
  /\ alive = {}
  /\ minted = [s \in Sid |-> 0]
  /\ expired = [s \in Sid |-> 0]
  /\ executed = [c \in Call |-> 0]
  /\ crossed = FALSE

-----------------------------------------------------------------------------
getAccessToken == store.access

isAuthenticated == getAccessToken # None

(* The header applyToken leaves on a request that has `old`: none is set    *)
(* without a token, so that an old one stays.                               *)
applyToken(s, old) == IF s.access = None THEN old ELSE s.access

Accepted(token) == token # None /\ token.n > expired[token.sid]

Pending(c) == call[c].st \in {"wire", "reply", "waiting"}

Of(t) == {c \in Call : call[c].tab = t}

(* The caller has been told; the rest of the record is of no use any more.  *)
Settled(told) == [NewCall EXCEPT !.st = told]

Settle(c, told) == call' = [call EXCEPT ![c] = Settled(told)]

(* queryClient.clear in tab t: its queries are aborted.  One that waits for *)
(* the refresh goes on waiting.                                             *)
Cleared(t) ==
  [c \in Call |->
     IF c \in Of(t) /\ call[c].kind # "write" /\ Pending(c)
       THEN IF call[c].st = "waiting" THEN [call[c] EXCEPT !.aborted = TRUE]
                                      ELSE Settled("error")
       ELSE call[c]]

clearTokens == store' = Empty /\ crossed' = FALSE

(* A full load of /login: whatever the tab was doing is gone. *)
Reload(t) ==
  /\ page' = [page EXCEPT ![t] = "login"]
  /\ promise' = [promise EXCEPT ![t] = None]
  /\ flight' = [c \in Call |-> IF c \in Of(t) THEN None ELSE flight[c]]
  /\ call' = [c \in Call |-> IF c \in Of(t) /\ Pending(c)
                               THEN Settled("error") ELSE call[c]]
  /\ logout' = [logout EXCEPT ![t] = None]

(* failAuth for the calls `failed` of tab t, which are told the error, after*)
(* the refreshes `over`.                                                    *)
failAuth(t, failed, over) ==
  /\ clearTokens
  /\ \/ page[t] # "login" /\ Reload(t)
     \/ /\ page[t] = "login"
        /\ call' = [c \in Call |-> IF c \in failed THEN Settled("error")
                                                   ELSE call[c]]
        /\ promise' = [promise EXCEPT ![t] = IF @ \in over THEN None ELSE @]
        /\ flight' = [c \in Call |-> IF c \in over THEN None ELSE flight[c]]
        /\ UNCHANGED <<page, logout>>
  /\ UNCHANGED server

-----------------------------------------------------------------------------
(* Variants named "...Bug" are not part of the specification: each is a      *)
(* slip of the code it stands before, kept to show which property sees it.  *)

(* The session's id is left out, as in a refresh. *)
NewLoginBug(s) ==
  store' = [access |-> [sid |-> s, n |-> 1], refresh |-> s, sid |-> store.sid]

(* setTokens with the answer of login or register. *)
NewLogin(s) ==
  store' = [access |-> [sid |-> s, n |-> 1], refresh |-> s, sid |-> s]

(* LoginPage and RegisterPage on success: tokens, cache, and on to the app. *)
(* (How LoginPage gets there is TwoFactor's concern.)                       *)
SignIn(t, s) ==
  /\ page[t] = "login"
  /\ minted[s] = 0
  /\ \A r \in Sid : r < s => minted[r] > 0
  /\ alive' = alive \cup {s}
  /\ minted' = [minted EXCEPT ![s] = 1]
  /\ NewLogin(s)
  /\ crossed' = FALSE
  /\ call' = Cleared(t)
  /\ page' = [page EXCEPT ![t] = "app"]
  /\ UNCHANGED <<promise, flight, logout, expired, executed>>

(* Navigation: the guard of the authed layout, and of "/". *)
beforeLoad(t) ==
  /\ page[t] # "closed"
  /\ page' = [page EXCEPT ![t] = IF isAuthenticated THEN "app" ELSE "login"]
  /\ UNCHANGED <<store, promise, flight, call, logout, crossed, server>>

(* A call is made: applyToken, then next(req) or fetch. *)
Send(c, t, kind) ==
  /\ call[c].st = "idle"
  /\ \A d \in Call : d < c => call[d].st # "idle"
  /\ (\E s \in Tab \ {t} : page[s] # "closed") => c <= MaxShared
  /\ page[t] = "app"
  /\ call' = [call EXCEPT ![c] =
       [NewCall EXCEPT !.st = "wire", !.tab = t, !.kind = kind,
                       !.header = applyToken(store, None)]]
  /\ UNCHANGED <<store, page, promise, flight, logout, crossed, server>>

(* A call outlives the page that made it: its handler may run, or turn it   *)
(* away for its token, and the answer sets out.                             *)
Serve(c, reply) ==
  /\ call[c].st = "wire"
  /\ reply = "denied" <=> ~Accepted(call[c].header)
  /\ executed' = IF reply = "denied" THEN executed
                                     ELSE [executed EXCEPT ![c] = @ + 1]
  /\ call' = [call EXCEPT ![c].st = "reply", ![c].reply = reply]
  /\ UNCHANGED <<store, page, promise, flight, logout, crossed, alive, minted, expired>>

(* The network fails, before or after the server. *)
Lose(c) ==
  /\ call[c].st \in {"wire", "reply"}
  /\ Settle(c, "error")
  /\ UNCHANGED <<store, page, promise, flight, logout, crossed, server>>

-----------------------------------------------------------------------------
(* Any error is taken for an expired token. *)
RefusedBug(c) == call[c].reply # "ok"

(* The error the interceptor does not just pass on. *)
Refused(c) == call[c].reply = "denied"

(* Every 401 has a refresh of its own (`=` for `??=`). *)
JoinBug(c, t) ==
  /\ promise' = [promise EXCEPT ![t] = c]
  /\ flight' = [flight EXCEPT ![c] = [sid |-> store.refresh, at |-> "wire", token |-> None]]

(* refreshPromise ??= refreshTokens(): c starts a refresh with the refresh  *)
(* token it finds, or shares the one in flight.                             *)
Join(c, t) ==
  IF promise[t] # None THEN UNCHANGED <<promise, flight>>
  ELSE /\ promise' = [promise EXCEPT ![t] = c]
       /\ flight' = [flight EXCEPT ![c] = [sid |-> store.refresh, at |-> "wire", token |-> None]]

(* The first answer of a call.  refreshTokens answers false at once if      *)
(* there is no refresh token to be found.                                   *)
FirstReply(c) ==
  LET t == call[c].tab IN
  IF ~Refused(c)
    THEN /\ Settle(c, IF call[c].reply = "ok" THEN "ok" ELSE "error")
         /\ UNCHANGED <<store, page, promise, flight, logout, crossed, server>>
    ELSE IF promise[t] = None /\ store.refresh = None
      THEN failAuth(t, {c}, {})
      ELSE /\ call' = [call EXCEPT ![c].st = "waiting"]
           /\ Join(c, t)
           /\ UNCHANGED <<store, page, logout, crossed, server>>

(* The catch around the retry: every error ends the login. *)
RetryReplyBug(c) ==
  IF call[c].reply = "ok"
    THEN /\ Settle(c, "ok")
         /\ UNCHANGED <<store, page, promise, flight, logout, crossed, server>>
    ELSE failAuth(call[c].tab, {c}, {})

(* The answer of the one retry. *)
RetryReply(c) ==
  IF ~Refused(c)
    THEN /\ Settle(c, IF call[c].reply = "ok" THEN "ok" ELSE "error")
         /\ UNCHANGED <<store, page, promise, flight, logout, crossed, server>>
    ELSE failAuth(call[c].tab, {c}, {})

(* What authInterceptor and authedFetch do when the answer arrives. *)
Receive(c) ==
  /\ call[c].st = "reply"
  /\ IF call[c].retried THEN RetryReply(c) ELSE FirstReply(c)

-----------------------------------------------------------------------------
(* The server's Refresh (the row is read and touched: see Sessions). *)
RefreshServe(c) ==
  LET s == flight[c].sid IN
  /\ flight[c] # None
  /\ flight[c].at = "wire"
  /\ IF s \in alive
       THEN /\ minted[s] < MaxMint
            /\ minted' = [minted EXCEPT ![s] = @ + 1]
            /\ flight' = [flight EXCEPT ![c].at = "minted",
                                        ![c].token = [sid |-> s, n |-> minted[s] + 1]]
       ELSE flight' = [flight EXCEPT ![c].at = "refused"] /\ UNCHANGED minted
  /\ UNCHANGED <<store, page, promise, call, logout, crossed, alive, expired, executed>>

(* The refresh fails for another reason: the network, an internal error. *)
RefreshLose(c) ==
  /\ flight[c] # None
  /\ flight[c].at \in {"wire", "minted"}
  /\ flight' = [flight EXCEPT ![c].at = "lost"]
  /\ UNCHANGED <<store, page, promise, call, logout, crossed, server>>

(* The refresh token is read again when the answer arrives. *)
RefreshedBug(c) == [store EXCEPT !.access = flight[c].token]

(* refreshTokens: the new access token, with the refresh token it read      *)
(* before; the session's id stays as it is.                                 *)
Refreshed(c) == [store EXCEPT !.access = flight[c].token, !.refresh = flight[c].sid]

(* refreshTokens comes back, refreshPromise is reset, and all that share it *)
(* go on: with their retry, or, if it failed, to the login page.            *)
RefreshDone(c) ==
  LET t == call[c].tab
      sharing == {d \in Of(t) : call[d].st = "waiting"} IN
  /\ flight[c] # None
  /\ flight[c].at # "wire"
  /\ IF flight[c].at # "minted" THEN failAuth(t, sharing, {c})
     ELSE /\ store' = Refreshed(c)
          /\ crossed' = (crossed \/ store.refresh # flight[c].sid)
          /\ call' = [d \in Call |->
               IF d \notin sharing THEN call[d]
               ELSE IF call[d].aborted THEN Settled("error")
               ELSE [call[d] EXCEPT !.st = "wire", !.retried = TRUE,
                                    !.header = applyToken(store', @)]]
          /\ promise' = [promise EXCEPT ![t] = None]
          /\ flight' = [flight EXCEPT ![c] = None]
          /\ UNCHANGED <<page, logout, server>>

-----------------------------------------------------------------------------
(* What the user means to end: this login, or all there are by now.  (One   *)
(* opened before handleLogoutAll reaches the server ends too: EndSession.)  *)
Ends(all) ==
  IF ~isAuthenticated THEN {} ELSE IF all THEN alive ELSE {store.sid} \ {None}

(* The local part of the logout comes before the call. *)
LogoutBug(t, all) ==
  /\ page[t] = "app"
  /\ logout[t] = None
  /\ logout' = [logout EXCEPT ![t] =
       [ends |-> Ends(all), header |-> None, at |-> "wire"]]
  /\ clearTokens
  /\ UNCHANGED <<page, promise, flight, call, server>>

(* handleLogout (the session whose id is stored) and handleLogoutAll.  Both *)
(* are calls of AuthService: no refresh if the access token has expired.    *)
Logout(t, all) ==
  /\ page[t] = "app"
  /\ logout[t] = None
  /\ logout' = [logout EXCEPT ![t] =
       [ends |-> Ends(all), header |-> applyToken(store, None),
        at |-> IF all \/ store.sid # None THEN "wire" ELSE "ok"]]
  /\ UNCHANGED <<store, page, promise, flight, call, crossed, server>>

(* What the server made of it: "denied" for want of a token, "failed" if the*)
(* token had expired or the call was lost.                                  *)
LogoutAnswer(t, at) ==
  logout' = [logout EXCEPT ![t] =
    [header |-> None, at |-> at,
     ends |-> IF at = "failed" THEN {} ELSE logout[t].ends]]

LogoutServe(t) ==
  /\ logout[t] # None
  /\ logout[t].at = "wire"
  /\ IF Accepted(logout[t].header)
       THEN /\ alive' = alive \ logout[t].ends
            /\ LogoutAnswer(t, "ok")
       ELSE /\ LogoutAnswer(t, IF logout[t].header = None THEN "denied" ELSE "failed")
            /\ UNCHANGED alive
  /\ UNCHANGED <<store, page, promise, flight, call, crossed, minted, expired, executed>>

LogoutLose(t) ==
  /\ logout[t] # None
  /\ logout[t].at = "wire"
  /\ LogoutAnswer(t, "failed")
  /\ UNCHANGED <<store, page, promise, flight, call, crossed, server>>

(* ... whatever the answer: tokens, cache, and on to the login page, which  *)
(* is no load of the page: what is in flight stays in flight.               *)
LogoutDone(t) ==
  /\ logout[t] # None
  /\ logout[t].at # "wire"
  /\ clearTokens
  /\ call' = Cleared(t)
  /\ page' = [page EXCEPT ![t] = "login"]
  /\ logout' = [logout EXCEPT ![t] = None]
  /\ UNCHANGED <<promise, flight, server>>

(* The oldest access token of s runs out. *)
Expire(s) ==
  /\ expired[s] < minted[s]
  /\ expired' = [expired EXCEPT ![s] = @ + 1]
  /\ UNCHANGED <<client, alive, minted, executed>>

(* The session ends elsewhere: eviction, an administrator, its age. *)
EndSession(s) ==
  /\ s \in alive
  /\ alive' = alive \ {s}
  /\ UNCHANGED <<client, minted, expired, executed>>

-----------------------------------------------------------------------------
Browser(t) ==
  \/ \E s \in Sid : SignIn(t, s)
  \/ beforeLoad(t)
  \/ \E all \in BOOLEAN : Logout(t, all)
  \/ LogoutDone(t)

Transport(c) ==
  \/ \E t \in Tab, kind \in Kind : Send(c, t, kind)
  \/ Receive(c)
  \/ RefreshDone(c)

Network ==
  \/ \E c \in Call : \/ \E reply \in Reply : Serve(c, reply)
                     \/ Lose(c)
                     \/ RefreshServe(c)
                     \/ RefreshLose(c)
  \/ \E t \in Tab : LogoutServe(t) \/ LogoutLose(t)
  \/ \E s \in Sid : Expire(s) \/ EndSession(s)

Next ==
  \/ \E t \in Tab : Browser(t)
  \/ \E c \in Call : Transport(c)
  \/ Network

Spec == Init /\ [][Next]_vars

-----------------------------------------------------------------------------
(* Access and refresh token are of one session at any time, however logins, *)
(* logouts and refreshes of the tabs cross, and the session id by which a   *)
(* logout names it is that session's too, unless a refresh crossed a login  *)
(* or a logout ("The server returns only a new access token; keep the       *)
(* existing refresh token").                                                *)
StoreFromOneLogin ==
  /\ store.access = None <=> store.refresh = None
  /\ store.access # None => store.access.sid = store.refresh
  /\ ~crossed => store.sid = store.refresh

(* Concurrent 401s of a tab share one refresh: all that wait, wait for it,  *)
(* and it is still in flight ("concurrent 401s share one in-flight          *)
(* refresh").                                                               *)
OneRefresh ==
  \A t \in Tab :
    LET flying == {c \in Of(t) : flight[c] # None} IN
    /\ Cardinality(flying) <= 1
    /\ (\E c \in Of(t) : call[c].st = "waiting") => flying # {}

(* A live login is dropped from the store only by a logout, or after a      *)
(* refresh that was lost or was another login's, or when the token a retry  *)
(* carried is refused.  No other failure of a call logs the user out.       *)
LiveLoginKept ==
  [][ store.refresh \in alive /\ store'.refresh = None =>
        \/ \E t \in Tab : logout[t] # None /\ logout'[t] = None
        \/ \E c \in Call : /\ flight[c] # None
                           /\ \/ flight[c].at = "lost"
                              \/ flight[c].at = "refused" /\ flight[c].sid # store.refresh
        \/ \E c \in Call : call[c].retried /\ call[c].reply = "denied" ]_vars

(* A session outlives the logout that named it only if the call was lost on *)
(* the way or the token it carried had expired.                             *)
LogoutEndsSession ==
  \A t \in Tab : logout[t] # None /\ logout[t].at # "wire" => logout[t].ends \cap alive = {}

Once == INSTANCE CallOnce WITH
  times <- executed,
  answer <- [c \in Call |-> IF call[c].st \in {"ok", "error"} THEN call[c].st ELSE "none"]

(* The retry behind the caller's back never executes a call twice, and "ok" *)
(* is never said of a call that was not executed ("Retry the original       *)
(* request exactly once").                                                  *)
ImplementsCallOnce == Once!Spec
=============================================================================
