---------------------------- MODULE WebAuthProofs ----------------------------
(***************************************************************************)
(* Proofs about WebAuth, for every number of tabs, calls, sessions and     *)
(* tokens: what the store, the refreshes and the logouts promise, and that *)
(* the client implements CallOnce.                                         *)
(***************************************************************************)
EXTENDS WebAuth, FiniteSetTheorems, TLAPS

(* A call is some tab's exactly while it is open; what is left of it        *)
(* otherwise is what its caller was told.                                   *)
CallInv ==
  \A c \in Call :
    /\ Pending(c) => call[c].tab \in Tab
    /\ ~Pending(c) => call[c] = Settled(call[c].st)

(* A refresh in flight is its tab's refreshPromise, and the call that       *)
(* started it waits for it; whoever waits has one to wait for.              *)
PromiseInv ==
  /\ \A c \in Call : flight[c] # None =>
       /\ call[c].st = "waiting"
       /\ promise[call[c].tab] = c
  /\ \A c \in Call : call[c].st = "waiting" => promise[call[c].tab] # None
  /\ \A t \in Tab : promise[t] # None =>
       /\ flight[promise[t]] # None
       /\ call[promise[t]].tab = t

(* The server has executed a call once when an answer other than 401 is on  *)
(* its way, and not at all before that; of an error there is no knowing.    *)
ExecutedOnce ==
  \A c \in Call :
    /\ executed[c] <= 1
    /\ call[c].st \in {"idle", "wire", "waiting"} => executed[c] = 0
    /\ call[c].st = "reply" => executed[c] = IF call[c].reply = "denied" THEN 0 ELSE 1
    /\ call[c].st = "ok" => executed[c] = 1

(* Whatever names a session names one that was opened, so that none of it   *)
(* ever means a login that is still to come.                                *)
OpenedInv ==
  /\ \A s \in alive : minted[s] > 0
  /\ store.refresh # None => minted[store.refresh] > 0
  /\ store.sid # None => minted[store.sid] > 0
  /\ \A c \in Call : flight[c] # None => minted[flight[c].sid] > 0
  /\ \A t \in Tab : logout[t] # None => \A s \in logout[t].ends : minted[s] > 0

(* A refresh brings a token of its own session, and is refused for an ended *)
(* one only.                                                                *)
RefreshInv ==
  \A c \in Call : flight[c] # None =>
    /\ flight[c].at = "minted" => flight[c].token # None /\ flight[c].token.sid = flight[c].sid
    /\ flight[c].at = "refused" => flight[c].sid \notin alive

(* A logout that carries no token has no session to end. *)
LogoutInv ==
  \A t \in Tab : logout[t] # None =>
    /\ logout[t].header = None /\ logout[t].at = "wire" => logout[t].ends = {}
    /\ logout[t].at # "wire" => logout[t].ends \cap alive = {}

IInv ==
  /\ TypeOK
  /\ CallInv
  /\ PromiseInv
  /\ ExecutedOnce
  /\ OpenedInv
  /\ RefreshInv
  /\ LogoutInv
  /\ StoreFromOneLogin

-----------------------------------------------------------------------------
LEMMA SettledIs ==
  ASSUME NEW told
  PROVE  Settled(told).st = told /\ Settled(told).tab = None
  BY DEF Settled, NewCall

LEMMA NewCallType == NewCall \in Progress
  BY DEF NewCall, Progress, St, Kind, Reply

LEMMA SettledType ==
  ASSUME NEW told \in St
  PROVE  Settled(told) \in Progress
  BY NewCallType DEF Settled, Progress

LEMMA InitInv == Init => IInv
<1> SUFFICES ASSUME Init PROVE IInv
  OBVIOUS
<1> USE WebAuthAssumption, NoneAssumption DEF Init
<1>1. TypeOK
  <2>1. page \in [Tab -> Page]
    BY DEF Page
  <2>2. call \in [Call -> Progress] /\ store \in Store
    BY NewCallType DEF Store, Empty
  <2>3. minted \in [Sid -> 0 .. MaxMint] /\ expired \in [Sid -> 0 .. MaxMint]
    OBVIOUS
  <2> QED
    BY <2>1, <2>2, <2>3 DEF TypeOK
<1>2. CallInv
  BY DEF CallInv, Pending, Settled, NewCall
<1>3. PromiseInv /\ ExecutedOnce
  BY DEF PromiseInv, ExecutedOnce, NewCall
<1>4. OpenedInv /\ RefreshInv /\ LogoutInv /\ StoreFromOneLogin
  BY DEF OpenedInv, RefreshInv, LogoutInv, StoreFromOneLogin, Empty
<1> QED
  BY <1>1, <1>2, <1>3, <1>4 DEF IInv

(* The calls of tab t whose callers are told the error leave no refresh     *)
(* behind that somebody still waits for.                                    *)
LEMMA FailAuthInv ==
  ASSUME IInv, NEW t \in Tab, NEW failed \in SUBSET Of(t), NEW over \in SUBSET Call,
         \A c \in failed : Pending(c) /\ (flight[c] # None => c \in over),
         \A c \in over : /\ flight[c] # None /\ call[c].tab = t
                         /\ \A d \in Of(t) : call[d].st = "waiting" => d \in failed,
         failAuth(t, failed, over)
  PROVE  IInv'
<1> USE WebAuthAssumption, NoneAssumption
<1>0. UNCHANGED server /\ store' = Empty /\ crossed' = FALSE
  BY DEF failAuth, clearTokens
<1>1. CASE Reload(t)
  <2>1. TypeOK'
    BY <1>0, <1>1, SettledType DEF IInv, TypeOK, Reload, Empty, Store, Page, server, St
  <2>2. CallInv'
    BY <1>1, SettledIs DEF IInv, CallInv, TypeOK, Reload, Pending
  <2>3. PromiseInv'
    BY <1>1, SettledIs DEF IInv, CallInv, PromiseInv, TypeOK, Reload, Pending, Of
  <2>4. ExecutedOnce'
    BY <1>0, <1>1, SettledIs DEF IInv, ExecutedOnce, TypeOK, Reload, server
  <2>5. OpenedInv' /\ RefreshInv' /\ LogoutInv' /\ StoreFromOneLogin'
    BY <1>0, <1>1
    DEF IInv, OpenedInv, RefreshInv, LogoutInv, StoreFromOneLogin, TypeOK, Reload, Empty, server
  <2> QED
    BY <2>1, <2>2, <2>3, <2>4, <2>5 DEF IInv
<1>2. CASE /\ page[t] = "login"
           /\ call' = [c \in Call |-> IF c \in failed THEN Settled("error") ELSE call[c]]
           /\ promise' = [promise EXCEPT ![t] = IF @ \in over THEN None ELSE @]
           /\ flight' = [c \in Call |-> IF c \in over THEN None ELSE flight[c]]
           /\ UNCHANGED <<page, logout>>
  <2>1. TypeOK'
    BY <1>0, <1>2, SettledType DEF IInv, TypeOK, Empty, Store, server, St
  <2>2. CallInv'
    BY <1>2, SettledIs DEF IInv, CallInv, TypeOK, Pending
  <2>3. PromiseInv'
    <3>1. ASSUME NEW c \in Call, flight'[c] # None
          PROVE  call'[c].st = "waiting" /\ promise'[call'[c].tab] = c
      <4>1. c \notin over /\ flight[c] # None /\ c \notin failed
        BY <3>1, <1>2
      <4>2. call'[c] = call[c] /\ call[c].st = "waiting" /\ promise[call[c].tab] = c
        BY <4>1, <1>2 DEF IInv, PromiseInv
      <4> QED
        BY <4>1, <4>2, <1>2 DEF IInv, CallInv, Pending, TypeOK
    <3>2. ASSUME NEW c \in Call, call'[c].st = "waiting"
          PROVE  promise'[call'[c].tab] # None
      <4>1. c \notin failed /\ call'[c] = call[c] /\ call[c].st = "waiting"
        BY <3>2, <1>2, SettledIs
      <4>2. call[c].tab \in Tab /\ promise[call[c].tab] # None
        BY <4>1 DEF IInv, CallInv, PromiseInv, Pending
      <4>3. call[c].tab = t => over = {}
        BY <4>1 DEF Of
      <4> QED
        BY <4>1, <4>2, <4>3, <1>2 DEF IInv, TypeOK
    <3>3. ASSUME NEW s \in Tab, promise'[s] # None
          PROVE  flight'[promise'[s]] # None /\ call'[promise'[s]].tab = s
      <4>1. promise'[s] = promise[s] /\ promise[s] # None
        BY <3>3, <1>2 DEF IInv, TypeOK
      <4>2. promise[s] \in Call /\ flight[promise[s]] # None /\ call[promise[s]].tab = s
        BY <4>1 DEF IInv, TypeOK, PromiseInv
      <4>3. promise[s] \notin over
        <5>1. CASE s = t
          BY <5>1, <4>1, <3>3, <1>2 DEF IInv, TypeOK
        <5>2. CASE s # t
          BY <5>2, <4>2
        <5> QED
          BY <5>1, <5>2
      <4> QED
        BY <4>1, <4>2, <4>3, <1>2
    <3> QED
      BY <3>1, <3>2, <3>3 DEF PromiseInv
  <2>4. ExecutedOnce'
    BY <1>0, <1>2, SettledIs DEF IInv, ExecutedOnce, TypeOK, server
  <2>5. OpenedInv' /\ RefreshInv' /\ LogoutInv' /\ StoreFromOneLogin'
    BY <1>0, <1>2
    DEF IInv, OpenedInv, RefreshInv, LogoutInv, StoreFromOneLogin, TypeOK, Empty, server
  <2> QED
    BY <2>1, <2>2, <2>3, <2>4, <2>5 DEF IInv
<1> QED
  BY <1>1, <1>2 DEF failAuth
(* A call on its way is answered, or lost. *)
LEMMA SettleInv ==
  ASSUME IInv, NEW c \in Call, NEW told \in {"ok", "error"},
         call[c].st \in {"wire", "reply"}, told = "ok" => executed[c] = 1,
         Settle(c, told),
         UNCHANGED <<store, page, promise, flight, logout, crossed, server>>
  PROVE  IInv'
<1> USE DEF Settle
<1>1. TypeOK'
  BY SettledType DEF IInv, TypeOK, server, St
<1>2. CallInv'
  BY SettledIs DEF IInv, TypeOK, CallInv, Pending
<1>3. PromiseInv'
  BY SettledIs DEF IInv, TypeOK, CallInv, Pending, PromiseInv
<1>4. ExecutedOnce'
  BY SettledIs DEF IInv, TypeOK, ExecutedOnce, server
<1>5. OpenedInv' /\ RefreshInv' /\ LogoutInv' /\ StoreFromOneLogin'
  BY DEF IInv, OpenedInv, RefreshInv, LogoutInv, StoreFromOneLogin, server
<1> QED
  BY <1>1, <1>2, <1>3, <1>4, <1>5 DEF IInv

(* queryClient.clear leaves those who wait for a refresh waiting. *)
LEMMA ClearedInv ==
  ASSUME IInv, NEW t \in Tab, call' = Cleared(t), UNCHANGED <<promise, flight, executed>>
  PROVE  /\ call' \in [Call -> Progress]
         /\ CallInv'
         /\ PromiseInv'
         /\ ExecutedOnce'
<1> DEFINE stays(c) == \/ call'[c] = call[c]
                       \/ /\ call[c].st = "waiting"
                          /\ call'[c] = [call[c] EXCEPT !.aborted = TRUE]
           goes(c) == call[c].st \in {"wire", "reply"} /\ call'[c] = Settled("error")
<1>1. \A c \in Call : stays(c) \/ goes(c)
  BY DEF Cleared, Pending
<1>2. \A c \in Call : stays(c) =>
        /\ call'[c] \in Progress
        /\ call'[c].st = call[c].st
        /\ call'[c].tab = call[c].tab
        /\ call'[c].reply = call[c].reply
        /\ call[c].st # "waiting" => call'[c] = call[c]
  BY DEF IInv, TypeOK, Progress
<1>3. \A c \in Call : goes(c) =>
        /\ call'[c] \in Progress
        /\ call'[c].st = "error"
        /\ call'[c].tab = None
        /\ call'[c] = Settled(call'[c].st)
        /\ call[c].st \in {"wire", "reply"}
  BY SettledIs, SettledType DEF St
<1> HIDE DEF stays, goes
<1>4. call' \in [Call -> Progress]
  <2>1. \A c \in Call : call'[c] \in Progress
    BY <1>1, <1>2, <1>3
  <2> QED
    BY <2>1 DEF Cleared
<1>5. CallInv'
  BY <1>1, <1>2, <1>3 DEF IInv, CallInv, Pending
<1>6. PromiseInv'
  <2>1. \A c \in Call : goes(c) => flight[c] = None /\ \A s \in Tab : promise[s] # c
    BY <1>3, WebAuthAssumption DEF IInv, PromiseInv
  <2> QED
    BY <1>1, <1>2, <1>3, <2>1 DEF IInv, PromiseInv, TypeOK
<1>7. ExecutedOnce'
  BY <1>1, <1>2, <1>3 DEF IInv, ExecutedOnce, TypeOK
<1> QED
  BY <1>4, <1>5, <1>6, <1>7
-----------------------------------------------------------------------------
LEMMA SignInInv ==
  ASSUME IInv, NEW t \in Tab, NEW s \in Sid, SignIn(t, s)
  PROVE  IInv'
<1> USE WebAuthAssumption DEF SignIn
<1>1. /\ call' \in [Call -> Progress]
      /\ CallInv' /\ PromiseInv' /\ ExecutedOnce'
  BY ClearedInv
<1>2. store' = [access |-> [sid |-> s, n |-> 1], refresh |-> s, sid |-> s]
  BY DEF NewLogin
<1>3. TypeOK'
  <2>1. store' \in Store
    BY <1>2 DEF Store, Token
  <2>2. minted' \in [Sid -> 0 .. MaxMint] /\ page' \in [Tab -> Page]
    BY DEF IInv, TypeOK, Page
  <2> QED
    BY <1>1, <2>1, <2>2 DEF IInv, TypeOK
<1>4. \A x \in Sid : minted[x] > 0 => x # s /\ minted'[x] > 0
  BY DEF IInv, TypeOK
<1>5. OpenedInv'
  <2>1. minted'[s] > 0
    BY DEF IInv, TypeOK
  <2>2. \A c \in Call : flight[c] # None => flight[c].sid \in Sid
    BY DEF IInv, TypeOK, Refresh
  <2>3. \A u \in Tab : logout[u] # None => logout[u].ends \subseteq Sid
    BY DEF IInv, TypeOK, Leaving
  <2> QED
    BY <1>2, <1>4, <2>1, <2>2, <2>3 DEF IInv, TypeOK, OpenedInv
<1>6. RefreshInv'
  <2>1. \A c \in Call : flight[c] # None => flight[c].sid \in Sid /\ flight[c].sid # s
    BY DEF IInv, TypeOK, Refresh, OpenedInv
  <2> QED
    BY <2>1 DEF IInv, RefreshInv
<1>7. LogoutInv'
  <2>1. \A u \in Tab : logout[u] # None => s \notin logout[u].ends
    BY DEF IInv, TypeOK, OpenedInv
  <2> QED
    BY <2>1 DEF IInv, LogoutInv
<1>8. StoreFromOneLogin'
  BY <1>2, NoneAssumption DEF StoreFromOneLogin, Token
<1> QED
  BY <1>1, <1>3, <1>5, <1>6, <1>7, <1>8 DEF IInv

LEMMA BeforeLoadInv ==
  ASSUME IInv, NEW t \in Tab, beforeLoad(t)
  PROVE  IInv'
<1> USE DEF beforeLoad, server
<1>1. TypeOK'
  BY DEF IInv, TypeOK, Page
<1> QED
  BY <1>1 DEF IInv, CallInv, PromiseInv, ExecutedOnce, OpenedInv, RefreshInv, LogoutInv,
              StoreFromOneLogin, Pending

LEMMA LogoutStepInv ==
  ASSUME IInv, NEW t \in Tab, NEW all \in BOOLEAN, Logout(t, all)
  PROVE  IInv'
<1> USE WebAuthAssumption, NoneAssumption DEF Logout, server
<1> DEFINE out == [ends |-> Ends(all), header |-> applyToken(store, None),
                   at |-> IF all \/ store.sid # None THEN "wire" ELSE "ok"]
<1>1. out \in Leaving /\ logout' = [logout EXCEPT ![t] = out]
  <2>1. Ends(all) \in SUBSET Sid
    BY DEF IInv, TypeOK, Store, Ends
  <2>2. applyToken(store, None) \in Token \cup {None}
    BY DEF IInv, TypeOK, Store, applyToken
  <2> QED
    BY <2>1, <2>2 DEF Leaving
<1>2. \A s \in out.ends : minted[s] > 0
  BY DEF IInv, OpenedInv, Ends
<1>3. out.header = None => out.ends = {}
  BY DEF IInv, TypeOK, Store, applyToken, Ends, isAuthenticated, getAccessToken
<1>4. out.at # "wire" => out.ends = {}
  BY DEF Ends
<1> HIDE DEF out
<1>5. TypeOK'
  BY <1>1 DEF IInv, TypeOK
<1>6. OpenedInv' /\ LogoutInv'
  BY <1>1, <1>2, <1>3, <1>4 DEF IInv, TypeOK, OpenedInv, LogoutInv
<1> QED
  BY <1>5, <1>6 DEF IInv, CallInv, PromiseInv, ExecutedOnce, RefreshInv, StoreFromOneLogin,
                    Pending

LEMMA LogoutDoneInv ==
  ASSUME IInv, NEW t \in Tab, LogoutDone(t)
  PROVE  IInv'
<1> USE WebAuthAssumption DEF LogoutDone, clearTokens, server
<1>1. /\ call' \in [Call -> Progress]
      /\ CallInv' /\ PromiseInv' /\ ExecutedOnce'
  BY ClearedInv
<1>2. TypeOK'
  BY <1>1 DEF IInv, TypeOK, Store, Empty, Page
<1>3. OpenedInv' /\ RefreshInv' /\ LogoutInv' /\ StoreFromOneLogin'
  BY DEF IInv, TypeOK, OpenedInv, RefreshInv, LogoutInv, StoreFromOneLogin, Empty
<1> QED
  BY <1>1, <1>2, <1>3 DEF IInv

LEMMA SendInv ==
  ASSUME IInv, NEW c \in Call, NEW t \in Tab, NEW kind \in Kind, Send(c, t, kind)
  PROVE  IInv'
<1> USE DEF Send, server
<1> DEFINE new == [NewCall EXCEPT !.st = "wire", !.tab = t, !.kind = kind,
                                  !.header = applyToken(store, None)]
<1>1. /\ call' = [call EXCEPT ![c] = new]
      /\ new \in Progress /\ new.st = "wire" /\ new.tab = t
  BY NewCallType DEF IInv, TypeOK, Store, applyToken, Progress, St, NewCall
<1> HIDE DEF new
<1>2. TypeOK'
  BY <1>1 DEF IInv, TypeOK
<1>3. flight[c] = None /\ \A s \in Tab : promise[s] # c
  BY WebAuthAssumption DEF IInv, PromiseInv
<1>4. CallInv' /\ PromiseInv' /\ ExecutedOnce'
  BY <1>1, <1>3 DEF IInv, TypeOK, CallInv, PromiseInv, ExecutedOnce, Pending
<1> QED
  BY <1>2, <1>4 DEF IInv, OpenedInv, RefreshInv, LogoutInv, StoreFromOneLogin

LEMMA ServeInv ==
  ASSUME IInv, NEW c \in Call, NEW reply \in Reply, Serve(c, reply)
  PROVE  IInv'
<1> USE DEF Serve
<1> DEFINE served == [call[c] EXCEPT !.st = "reply", !.reply = reply]
<1>1. call' = [call EXCEPT ![c] = served]
  BY DEF IInv, TypeOK
<1>2. served \in Progress /\ served.st = "reply" /\ served.reply = reply /\ served.tab = call[c].tab
  BY DEF IInv, TypeOK, Progress, St
<1> HIDE DEF served
<1>3. TypeOK'
  <2>1. executed' \in [Call -> Nat]
    BY DEF IInv, TypeOK
  <2>2. call' \in [Call -> Progress]
    BY <1>1, <1>2 DEF IInv, TypeOK
  <2> QED
    BY <2>1, <2>2 DEF IInv, TypeOK
<1>4. flight[c] = None /\ \A s \in Tab : promise[s] # c
  BY WebAuthAssumption DEF IInv, PromiseInv
<1>5. CallInv' /\ PromiseInv'
  BY <1>1, <1>2, <1>4 DEF IInv, TypeOK, CallInv, PromiseInv, Pending
<1>6. ExecutedOnce'
  BY <1>1, <1>2 DEF IInv, TypeOK, ExecutedOnce
<1> QED
  BY <1>3, <1>5, <1>6 DEF IInv, OpenedInv, RefreshInv, LogoutInv, StoreFromOneLogin
(* A 401 sets off a refresh, or joins the one there is. *)
LEMMA WaitInv ==
  ASSUME IInv, NEW c \in Call, call[c].st = "reply", Refused(c),
         promise[call[c].tab] # None \/ store.refresh # None,
         call' = [call EXCEPT ![c].st = "waiting"],
         Join(c, call[c].tab),
         UNCHANGED <<store, page, logout, crossed, server>>
  PROVE  IInv'
<1> USE WebAuthAssumption, NoneAssumption DEF server
<1> DEFINE t == call[c].tab
           w == [call[c] EXCEPT !.st = "waiting"]
           f == [sid |-> store.refresh, at |-> "wire", token |-> None]
<1>1. t \in Tab /\ executed[c] = 0
  BY DEF IInv, CallInv, Pending, ExecutedOnce, Refused
<1>2. /\ call' = [call EXCEPT ![c] = w]
      /\ w \in Progress /\ w.st = "waiting" /\ w.tab = t
  BY ZenonT(30) DEF IInv, TypeOK, Progress, St
<1> HIDE DEF w
<1>3. \/ promise[t] # None /\ UNCHANGED <<promise, flight>>
      \/ /\ promise[t] = None
         /\ promise' = [promise EXCEPT ![t] = c]
         /\ flight' = [flight EXCEPT ![c] = f]
         /\ f \in Refresh /\ f # None /\ minted[f.sid] > 0
  BY DEF IInv, TypeOK, Store, OpenedInv, Join, Refresh
<1>4. f.at = "wire"
  OBVIOUS
<1> HIDE DEF f, t
<1>5. TypeOK'
  BY <1>1, <1>2, <1>3 DEF IInv, TypeOK
<1>6. CallInv'
  BY <1>1, <1>2 DEF IInv, TypeOK, CallInv, Pending
<1>7. flight[c] = None /\ \A s \in Tab : promise[s] # c
  BY DEF IInv, PromiseInv
<1>8. PromiseInv'
  <2>1. \A d \in Call : call'[d].tab = call[d].tab
    BY <1>2 DEF IInv, TypeOK, t
  <2>2. \A d \in Call \ {c} : call'[d] = call[d]
    BY <1>2 DEF IInv, TypeOK
  <2>3. call'[c].st = "waiting" /\ call[c].tab = t
    BY <1>2 DEF IInv, TypeOK, t
  <2>4. CASE promise[t] # None /\ UNCHANGED <<promise, flight>>
    BY <2>1, <2>2, <2>3, <2>4, <1>7 DEF IInv, PromiseInv
  <2>5. CASE /\ promise[t] = None
             /\ promise' = [promise EXCEPT ![t] = c]
             /\ flight' = [flight EXCEPT ![c] = f]
    <3>1. /\ \A d \in Call \ {c} : flight'[d] = flight[d]
          /\ \A s \in Tab \ {t} : promise'[s] = promise[s]
          /\ flight'[c] # None /\ promise'[t] = c
      BY <2>5, <1>1, <1>3 DEF IInv, TypeOK
    <3>2. \A d \in Call : call[d].st = "waiting" => call[d].tab \in Tab \ {t}
      BY <2>5 DEF IInv, PromiseInv, CallInv, Pending
    <3>3. \A s \in Tab : promise[s] # None => promise[s] \in Call \ {c}
      BY <1>7 DEF IInv, TypeOK
    <3> QED
      BY <3>1, <3>2, <3>3, <2>1, <2>2, <2>3, <1>7 DEF IInv, PromiseInv
  <2> QED
    BY <2>4, <2>5, <1>3
<1>9. ExecutedOnce'
  BY <1>1, <1>2 DEF IInv, TypeOK, ExecutedOnce
<1>10. OpenedInv' /\ RefreshInv'
  BY <1>3, <1>4 DEF IInv, TypeOK, OpenedInv, RefreshInv
<1> QED
  BY <1>5, <1>6, <1>8, <1>9, <1>10 DEF IInv, LogoutInv, StoreFromOneLogin

LEMMA RefusedFails ==
  ASSUME IInv, NEW c \in Call, call[c].st = "reply", failAuth(call[c].tab, {c}, {})
  PROVE  IInv'
<1>1. call[c].tab \in Tab /\ flight[c] = None /\ Pending(c)
  BY DEF IInv, CallInv, Pending, PromiseInv
<1> QED
  BY <1>1, FailAuthInv DEF Of

LEMMA ReceiveInv ==
  ASSUME IInv, NEW c \in Call, Receive(c)
  PROVE  IInv'
<1>1. CASE ~Refused(c)
  <2>1. call[c].reply \in Reply
    BY DEF IInv, TypeOK, Progress
  <2>2. call[c].reply = "ok" => executed[c] = 1
    BY DEF IInv, ExecutedOnce, Receive
  <2>3. /\ Settle(c, IF call[c].reply = "ok" THEN "ok" ELSE "error")
        /\ UNCHANGED <<store, page, promise, flight, logout, crossed, server>>
    BY <1>1 DEF Receive, FirstReply, RetryReply
  <2> QED
    BY <2>1, <2>2, <2>3, SettleInv DEF Receive
<1>2. CASE Refused(c) /\ failAuth(call[c].tab, {c}, {})
  BY <1>2, RefusedFails DEF Receive
<1>3. CASE /\ Refused(c)
           /\ promise[call[c].tab] # None \/ store.refresh # None
           /\ call' = [call EXCEPT ![c].st = "waiting"]
           /\ Join(c, call[c].tab)
           /\ UNCHANGED <<store, page, logout, crossed, server>>
  BY <1>3, WaitInv DEF Receive
<1> QED
  BY <1>1, <1>2, <1>3 DEF Receive, FirstReply, RetryReply
LEMMA RefreshServeInv ==
  ASSUME IInv, NEW c \in Call, RefreshServe(c)
  PROVE  IInv'
<1> USE NoneAssumption
<1> DEFINE s == flight[c].sid
           f == IF s \in alive
                  THEN [flight[c] EXCEPT !.at = "minted",
                                         !.token = [sid |-> s, n |-> minted[s] + 1]]
                  ELSE [flight[c] EXCEPT !.at = "refused"]
<1>1. /\ flight[c] # None
      /\ flight[c] \in Refresh
      /\ UNCHANGED <<store, page, promise, call, logout, crossed, alive, expired, executed>>
  BY DEF IInv, TypeOK, RefreshServe
<1>2. flight' = [flight EXCEPT ![c] = f]
  <2>1. CASE s \in alive
    BY <2>1, <1>1 DEF IInv, TypeOK, RefreshServe
  <2>2. CASE s \notin alive
    BY <2>2, <1>1 DEF IInv, TypeOK, RefreshServe
  <2> QED
    BY <2>1, <2>2
<1>a. /\ MaxMint \in Nat /\ s \in Sid
      /\ minted \in [Sid -> 0 .. MaxMint]
  BY <1>1, WebAuthAssumption DEF IInv, TypeOK, Refresh
<1>b. s \in alive => minted[s] + 1 \in 1 .. MaxMint
  BY <1>a DEF RefreshServe
<1>3. minted' \in [Sid -> 0 .. MaxMint] /\ \A x \in Sid : minted[x] <= minted'[x]
  <2>1. CASE s \in alive
    <3>1. minted' = [minted EXCEPT ![s] = minted[s] + 1]
      BY <2>1 DEF RefreshServe
    <3> HIDE DEF s
    <3> QED
      BY <3>1, <2>1, <1>a, <1>b
  <2>2. CASE s \notin alive
    BY <2>2, <1>a DEF RefreshServe
  <2> QED
    BY <2>1, <2>2
<1>4. /\ f \in Refresh /\ f.sid = s
      /\ f.at = "minted" => s \in alive /\ f.token # None /\ f.token.sid = s
      /\ f.at = "refused" => s \notin alive
  <2>1. CASE s \in alive
    <3>1. [sid |-> s, n |-> minted[s] + 1] \in Token
      BY <2>1, <1>a, <1>b DEF Token
    <3>2. [sid |-> s, n |-> minted[s] + 1] # None
      BY <3>1
    <3> QED
      BY <2>1, <3>1, <3>2, <1>1 DEF Refresh
  <2>2. CASE s \notin alive
    BY <2>2, <1>1 DEF Refresh
  <2> QED
    BY <2>1, <2>2
<1>5. f # None
  BY <1>4
<1> HIDE DEF f, s
<1>6. TypeOK'
  BY <1>1, <1>2, <1>3, <1>4 DEF IInv, TypeOK
<1>7. PromiseInv'
  BY <1>1, <1>2, <1>5 DEF IInv, TypeOK, PromiseInv
<1>8. OpenedInv'
  <2>1. \A x \in Sid : minted[x] > 0 => minted'[x] > 0
    BY <1>3 DEF IInv, TypeOK
  <2>2. \A d \in Call : flight'[d] # None => minted'[flight'[d].sid] > 0
    <3>1. \A d \in Call : flight[d] # None => flight[d].sid \in Sid /\ minted[flight[d].sid] > 0
      BY DEF IInv, TypeOK, OpenedInv, Refresh
    <3> QED
      BY <3>1, <2>1, <1>1, <1>2, <1>4 DEF IInv, TypeOK, s
  <2>3. /\ store.refresh # None => store.refresh \in Sid
        /\ store.sid # None => store.sid \in Sid
    BY DEF IInv, TypeOK, Store
  <2>4. \A t \in Tab : logout[t] # None => logout[t].ends \subseteq Sid
    BY DEF IInv, TypeOK, Leaving
  <2> QED
    BY <1>1, <2>1, <2>2, <2>3, <2>4 DEF IInv, TypeOK, OpenedInv
<1>9. RefreshInv'
  BY <1>1, <1>2, <1>4 DEF IInv, TypeOK, RefreshInv
<1> QED
  BY <1>1, <1>6, <1>7, <1>8, <1>9
  DEF IInv, CallInv, ExecutedOnce, LogoutInv, StoreFromOneLogin, Pending

LEMMA RefreshLoseInv ==
  ASSUME IInv, NEW c \in Call, RefreshLose(c)
  PROVE  IInv'
<1> USE NoneAssumption DEF RefreshLose, server
<1> DEFINE f == [flight[c] EXCEPT !.at = "lost"]
<1>1. flight' = [flight EXCEPT ![c] = f]
  BY DEF IInv, TypeOK
<1>2. f \in Refresh /\ f.sid = flight[c].sid /\ f.at = "lost" /\ f # None
  BY DEF IInv, TypeOK, Refresh
<1> HIDE DEF f
<1>3. TypeOK'
  BY <1>1, <1>2 DEF IInv, TypeOK
<1>4. PromiseInv' /\ OpenedInv' /\ RefreshInv'
  BY <1>1, <1>2 DEF IInv, TypeOK, PromiseInv, OpenedInv, RefreshInv
<1> QED
  BY <1>3, <1>4 DEF IInv, CallInv, ExecutedOnce, LogoutInv, StoreFromOneLogin, Pending

LEMMA LogoutAnswerInv ==
  ASSUME IInv, NEW t \in Tab, LogoutServe(t) \/ LogoutLose(t)
  PROVE  IInv'
<1> USE NoneAssumption
<1>1. PICK at \in {"ok", "denied", "failed"} :
        /\ LogoutAnswer(t, at)
        /\ \/ at = "ok" /\ alive' = alive \ logout[t].ends
           \/ at = "denied" /\ logout[t].header = None /\ alive' = alive
           \/ at = "failed" /\ alive' = alive
  BY DEF LogoutServe, LogoutLose, server
<1>2. /\ logout[t] # None /\ logout[t] \in Leaving /\ logout[t].at = "wire"
      /\ UNCHANGED <<store, page, promise, flight, call, crossed, minted, expired, executed>>
  BY DEF IInv, TypeOK, LogoutServe, LogoutLose, server
<1> DEFINE out == [header |-> None, at |-> at,
                   ends |-> IF at = "failed" THEN {} ELSE logout[t].ends]
<1>3. /\ logout' = [logout EXCEPT ![t] = out]
      /\ out \in Leaving
      /\ out.at # "wire"
      /\ out.ends \subseteq logout[t].ends
      /\ out.ends \cap alive' = {}
  BY <1>1, <1>2 DEF LogoutAnswer, Leaving, IInv, LogoutInv
<1>4. alive' \subseteq alive
  BY <1>1
<1> HIDE DEF out
<1>5. TypeOK'
  BY <1>2, <1>3, <1>4 DEF IInv, TypeOK
<1>6. OpenedInv' /\ RefreshInv' /\ LogoutInv'
  BY <1>2, <1>3, <1>4 DEF IInv, TypeOK, OpenedInv, RefreshInv, LogoutInv
<1> QED
  BY <1>2, <1>5, <1>6
  DEF IInv, CallInv, PromiseInv, ExecutedOnce, StoreFromOneLogin, Pending

LEMMA ExpireInv ==
  ASSUME IInv, NEW s \in Sid, Expire(s)
  PROVE  IInv'
<1>1. TypeOK'
  <2>1. MaxMint \in Nat /\ minted \in [Sid -> 0 .. MaxMint] /\ expired \in [Sid -> 0 .. MaxMint]
    BY WebAuthAssumption DEF IInv, TypeOK
  <2>2. expired[s] + 1 \in 0 .. MaxMint
    BY <2>1 DEF Expire
  <2> QED
    BY <2>1, <2>2 DEF IInv, TypeOK, Expire, client
<1> QED
  BY <1>1 DEF IInv, Expire, client, CallInv, PromiseInv, ExecutedOnce, OpenedInv, RefreshInv,
              LogoutInv, StoreFromOneLogin, Pending

LEMMA EndSessionInv ==
  ASSUME IInv, NEW s \in Sid, EndSession(s)
  PROVE  IInv'
  BY DEF IInv, EndSession, client, TypeOK, CallInv, PromiseInv, ExecutedOnce, OpenedInv,
         RefreshInv, LogoutInv, StoreFromOneLogin, Pending
(* What is known of a refresh that comes back. *)
LEMMA RefreshBack ==
  ASSUME IInv, NEW c \in Call, RefreshDone(c)
  PROVE  /\ flight[c] # None /\ flight[c] \in Refresh /\ flight[c].at # "wire"
         /\ call[c].tab \in Tab /\ promise[call[c].tab] = c /\ call[c].st = "waiting"
         /\ \A d \in Of(call[c].tab) : call[d].st \in St /\ (flight[d] # None => d = c)
<1>1. flight[c] # None /\ flight[c].at # "wire"
  BY DEF RefreshDone
<1>2. flight[c] \in Refresh /\ call[c].st = "waiting"
  BY <1>1 DEF IInv, TypeOK, PromiseInv
<1>3. call[c].tab \in Tab /\ promise[call[c].tab] = c
  BY <1>1, <1>2 DEF IInv, PromiseInv, CallInv, Pending
<1>4. \A d \in Of(call[c].tab) : call[d].st \in St /\ (flight[d] # None => d = c)
  BY <1>3 DEF IInv, TypeOK, Progress, PromiseInv, Of
<1> QED
  BY <1>1, <1>2, <1>3, <1>4

LEMMA RefreshDoneInv ==
  ASSUME IInv, NEW c \in Call, RefreshDone(c)
  PROVE  IInv'
<1> USE WebAuthAssumption, NoneAssumption
<1> DEFINE t == call[c].tab
           sharing == {d \in Of(t) : call[d].st = "waiting"}
<1>1. /\ flight[c] # None /\ flight[c] \in Refresh /\ flight[c].at # "wire"
      /\ t \in Tab /\ promise[t] = c /\ call[c].st = "waiting"
      /\ \A d \in Of(t) : flight[d] # None => d = c
  BY RefreshBack
<1>2. CASE flight[c].at # "minted"
  <2>1. failAuth(t, sharing, {c})
    BY <1>2 DEF RefreshDone
  <2>2. \A d \in sharing : Pending(d) /\ (flight[d] # None => d \in {c})
    BY <1>1 DEF Pending
  <2>3. \A d \in {c} : /\ flight[d] # None /\ call[d].tab = t
                       /\ \A e \in Of(t) : call[e].st = "waiting" => e \in sharing
    BY <1>1
  <2>4. sharing \in SUBSET Of(t) /\ {c} \in SUBSET Call
    OBVIOUS
  <2> HIDE DEF sharing, t
  <2> QED
    BY <1>1, <2>1, <2>2, <2>3, <2>4, FailAuthInv
<1>3. CASE flight[c].at = "minted"
  <2> DEFINE goesOn(d) == [call[d] EXCEPT !.st = "wire", !.retried = TRUE,
                                          !.header = applyToken(store', @)]
  <2>1. /\ store' = [store EXCEPT !.access = flight[c].token, !.refresh = flight[c].sid]
        /\ crossed' = (crossed \/ store.refresh # flight[c].sid)
        /\ promise' = [promise EXCEPT ![t] = None]
        /\ flight' = [flight EXCEPT ![c] = None]
        /\ UNCHANGED <<page, logout, server>>
    BY <1>3 DEF RefreshDone, Refreshed
  <2>2. call' = [d \in Call |-> IF d \notin sharing THEN call[d]
                                ELSE IF call[d].aborted THEN Settled("error")
                                ELSE goesOn(d)]
    BY <1>3 DEF RefreshDone
  <2>3. /\ flight[c].sid \in Sid /\ minted[flight[c].sid] > 0
        /\ flight[c].token \in Token /\ flight[c].token.sid = flight[c].sid
    BY <1>1, <1>3 DEF IInv, RefreshInv, OpenedInv, Refresh
  <2>4. store' \in Store /\ store'.access = flight[c].token /\ store'.refresh = flight[c].sid
        /\ store'.sid = store.sid
    BY <2>1, <2>3 DEF IInv, TypeOK, Store
  <2>5. \A d \in Call : /\ goesOn(d) \in Progress
                        /\ goesOn(d).st = "wire" /\ goesOn(d).tab = call[d].tab
    <3>1. \A d \in Call : applyToken(store', call[d].header) \in Token \cup {None}
      BY <2>4 DEF IInv, TypeOK, Progress, applyToken, Store
    <3> HIDE DEF IInv
    <3>2. \A d \in Call : call[d] \in Progress
      BY DEF IInv, TypeOK
    <3> QED
      BY <3>1, <3>2 DEF Progress, St
  <2> HIDE DEF goesOn
  <2>6. call' \in [Call -> Progress]
    BY <2>2, <2>5, SettledType DEF IInv, TypeOK, St
  <2>7. TypeOK'
    BY <2>1, <2>4, <2>6, <1>1 DEF IInv, TypeOK, server
  <2>8. \A d \in Call :
          \/ d \notin sharing /\ call'[d] = call[d]
          \/ d \in sharing /\ call'[d] = Settled("error")
          \/ d \in sharing /\ call'[d].st = "wire" /\ call'[d].tab = t
    BY <2>2, <2>5 DEF Of
  <2>9. CallInv'
    BY <2>8, <1>1, SettledIs DEF IInv, CallInv, Pending
  <2>10. \A d \in Call : call'[d].st = "waiting" =>
           call'[d] = call[d] /\ call[d].tab \in Tab \ {t}
    BY <2>8, SettledIs DEF IInv, CallInv, Pending, Of
  <2>11. PromiseInv'
    <3>1. \A d \in Call : flight'[d] # None => flight[d] # None /\ d # c /\ call[d].tab \in Tab \ {t}
      BY <2>1, <1>1 DEF IInv, TypeOK, PromiseInv, CallInv, Pending, Of
    <3>2. \A d \in Call : flight'[d] # None => call'[d] = call[d]
      BY <3>1, <2>8 DEF Of
    <3>3. \A s \in Tab \ {t} : promise'[s] = promise[s]
      BY <2>1 DEF IInv, TypeOK
    <3>4. \A s \in Tab : promise'[s] # None =>
            /\ s # t /\ promise[s] \in Call /\ call[promise[s]].tab = s
            /\ flight[promise[s]] # None
      BY <2>1, <1>1 DEF IInv, TypeOK, PromiseInv
    <3>5. \A s \in Tab : promise'[s] # None =>
            promise[s] # c /\ flight'[promise[s]] = flight[promise[s]]
      BY <2>1, <3>4 DEF IInv, TypeOK
    <3>6. \A d \in Call : d \notin sharing => call'[d] = call[d]
      BY <2>8
    <3>7. \A s \in Tab : promise'[s] # None => call'[promise[s]] = call[promise[s]]
      BY <3>4, <3>6 DEF Of
    <3> QED
      BY <3>1, <3>2, <3>3, <3>4, <3>5, <3>7, <2>10 DEF IInv, PromiseInv
  <2>12. ExecutedOnce'
    BY <2>1, <2>8, SettledIs DEF IInv, ExecutedOnce, TypeOK, server
  <2>13. OpenedInv' /\ RefreshInv' /\ LogoutInv'
    <3>1. \A d \in Call : flight'[d] # None => flight'[d] = flight[d] /\ flight[d] # None
      BY <2>1 DEF IInv, TypeOK
    <3> QED
      BY <3>1, <2>1, <2>3, <2>4 DEF IInv, OpenedInv, RefreshInv, LogoutInv, server
  <2>14. StoreFromOneLogin'
    BY <2>1, <2>3, <2>4 DEF IInv, StoreFromOneLogin
  <2> QED
    BY <2>7, <2>9, <2>11, <2>12, <2>13, <2>14 DEF IInv
<1> QED
  BY <1>2, <1>3
-----------------------------------------------------------------------------
LEMMA InvNext == IInv /\ [Next]_vars => IInv'
<1> SUFFICES ASSUME IInv, [Next]_vars PROVE IInv'
  OBVIOUS
<1>1. ASSUME NEW t \in Tab, Browser(t) PROVE IInv'
  BY <1>1, SignInInv, BeforeLoadInv, LogoutStepInv, LogoutDoneInv DEF Browser
<1>2. ASSUME NEW c \in Call, Transport(c) PROVE IInv'
  BY <1>2, SendInv, ReceiveInv, RefreshDoneInv DEF Transport
<1>3. ASSUME NEW c \in Call, Lose(c) PROVE IInv'
  BY <1>3, SettleInv DEF Lose
<1>4. CASE Network
  BY <1>3, <1>4, ServeInv, RefreshServeInv, RefreshLoseInv, LogoutAnswerInv, ExpireInv,
     EndSessionInv DEF Network
<1>5. CASE UNCHANGED vars
  BY <1>5 DEF vars, client, server, IInv, TypeOK, CallInv, PromiseInv, ExecutedOnce, OpenedInv,
              RefreshInv, LogoutInv, StoreFromOneLogin, Pending
<1> QED
  BY <1>1, <1>2, <1>4, <1>5 DEF Next

(* Every reachable state satisfies the inductive invariant. *)
THEOREM WebAuthInvariant == Spec => []IInv
  BY InitInv, InvNext, PTL DEF Spec

(* In every reachable state every variable of the browser and of the server *)
(* has its type.                                                            *)
THEOREM WebAuthType == Spec => []TypeOK
<1>1. IInv => TypeOK
  BY DEF IInv
<1> QED
  BY <1>1, WebAuthInvariant, PTL

(* However tabs log in, refresh and log out over each other, localStorage   *)
(* never mixes the access token of one session with the refresh token of    *)
(* another, and the session id goes with them unless a refresh crossed a    *)
(* login or a logout.                                                       *)
THEOREM OneLoginStored == Spec => []StoreFromOneLogin
<1>1. IInv => StoreFromOneLogin
  BY DEF IInv
<1> QED
  BY <1>1, WebAuthInvariant, PTL

(* A tab has one refresh in flight at most, however many of its calls met a *)
(* 401, and no call waits for a refresh that is not there any more.         *)
THEOREM SharedRefresh == Spec => []OneRefresh
<1>1. IInv => OneRefresh
  <2> SUFFICES ASSUME IInv, NEW t \in Tab
               PROVE  LET flying == {c \in Of(t) : flight[c] # None} IN
                      /\ Cardinality(flying) <= 1
                      /\ (\E c \in Of(t) : call[c].st = "waiting") => flying # {}
    BY DEF OneRefresh
  <2> DEFINE flying == {c \in Of(t) : flight[c] # None}
  <2>1. \A c \in flying : promise[t] = c
    BY DEF IInv, PromiseInv, Of
  <2>2. flying = {} \/ flying = {promise[t]}
    BY <2>1
  <2> HIDE DEF flying
  <2>3. Cardinality(flying) <= 1
    <3>1. Cardinality({}) = 0 /\ Cardinality({promise[t]}) = 1
      BY FS_EmptySet, FS_Singleton
    <3> QED
      BY <2>2, <3>1
  <2> USE DEF flying
  <2>4. ASSUME NEW c \in Of(t), call[c].st = "waiting" PROVE promise[t] \in flying
    <3>1. promise[t] # None /\ promise[t] \in Call
      BY <2>4 DEF IInv, TypeOK, PromiseInv, Of
    <3> QED
      BY <3>1 DEF IInv, PromiseInv, Of
  <2> QED
    BY <2>3, <2>4
<1> QED
  BY <1>1, WebAuthInvariant, PTL

(* When the server has answered a logout that carried a token it accepts,   *)
(* the sessions that logout named are gone, and stay so.                    *)
THEOREM LogoutTakesHold == Spec => []LogoutEndsSession
<1>1. IInv => LogoutEndsSession
  BY DEF IInv, LogoutInv, LogoutEndsSession
<1> QED
  BY <1>1, WebAuthInvariant, PTL
-----------------------------------------------------------------------------
(* The ways to lose a login, and what must have gone before. *)
Dropped ==
  store.refresh \in alive /\ store'.refresh = None =>
    \/ \E t \in Tab : logout[t] # None /\ logout'[t] = None
    \/ \E c \in Call : /\ flight[c] # None
                       /\ \/ flight[c].at = "lost"
                          \/ flight[c].at = "refused" /\ flight[c].sid # store.refresh
    \/ \E c \in Call : call[c].retried /\ call[c].reply = "denied"

LEMMA DroppedNext == IInv /\ Next => Dropped
<1> SUFFICES ASSUME IInv, Next, store.refresh \in alive, store'.refresh = None,
                    \A t \in Tab : ~(logout[t] # None /\ logout'[t] = None),
                    \A c \in Call : ~(call[c].retried /\ call[c].reply = "denied")
             PROVE  \E c \in Call : /\ flight[c] # None
                                    /\ \/ flight[c].at = "lost"
                                       \/ /\ flight[c].at = "refused"
                                          /\ flight[c].sid # store.refresh
  BY DEF Dropped
<1>1. store.refresh \in Sid /\ store.refresh # None /\ store' # store
  BY WebAuthAssumption DEF IInv, TypeOK
<1>2. ASSUME NEW t \in Tab, Browser(t) PROVE FALSE
  <2>1. ASSUME NEW s \in Sid, SignIn(t, s) PROVE FALSE
    BY <2>1, WebAuthAssumption DEF SignIn, NewLogin
  <2>2. ASSUME LogoutDone(t) PROVE FALSE
    BY <2>2 DEF LogoutDone, IInv, TypeOK
  <2> QED
    BY <1>1, <1>2, <2>1, <2>2 DEF Browser, beforeLoad, Logout
<1>3. ASSUME NEW c \in Call, Receive(c) PROVE FALSE
  <2>1. ~(promise[call[c].tab] = None /\ store.refresh = None)
    BY <1>1
  <2>2. CASE call[c].retried
    <3>1. ~Refused(c)
      BY <2>2 DEF Refused
    <3> QED
      BY <1>1, <1>3, <2>2, <3>1 DEF Receive, RetryReply
  <2>3. CASE ~call[c].retried
    BY <1>1, <1>3, <2>1, <2>3 DEF Receive, FirstReply
  <2> QED
    BY <2>2, <2>3
<1>4. ASSUME NEW c \in Call, RefreshDone(c)
      PROVE  /\ flight[c] # None
             /\ \/ flight[c].at = "lost"
                \/ flight[c].at = "refused" /\ flight[c].sid # store.refresh
  <2>1. flight[c] # None /\ flight[c] \in Refresh /\ flight[c].at # "wire"
    BY <1>4, RefreshBack
  <2>2. CASE flight[c].at = "minted"
    <3>1. store' = [[store EXCEPT !.access = flight[c].token] EXCEPT !.refresh = flight[c].sid]
      BY <1>4, <2>2 DEF RefreshDone, Refreshed
    <3>2. store'.refresh = flight[c].sid /\ flight[c].sid \in Sid
      BY <2>1, <3>1 DEF IInv, TypeOK, Store, Refresh
    <3> QED
      BY <3>2, WebAuthAssumption
  <2>3. CASE flight[c].at = "refused"
    BY <2>1, <2>3 DEF IInv, RefreshInv
  <2> QED
    BY <2>1, <2>2, <2>3 DEF Refresh
<1>5. ASSUME Network PROVE FALSE
  BY <1>1, <1>5 DEF Network, Serve, Lose, RefreshServe, RefreshLose, LogoutServe, LogoutLose,
                    Expire, EndSession, client
<1> QED
  BY <1>1, <1>2, <1>3, <1>4, <1>5 DEF Next, Transport, Send

(* No failure of a call takes away a login the server still has: only a     *)
(* logout does, a refresh that was lost or was another login's, or the      *)
(* refusal of the token a retry carried.                                    *)
THEOREM LoginIsKept == Spec => LiveLoginKept
<1>1. IInv /\ [Next]_vars => [Dropped]_vars
  BY DroppedNext
<1> QED
  BY <1>1, WebAuthInvariant, PTL DEF Spec, LiveLoginKept, Dropped

-----------------------------------------------------------------------------
(* What the caller of c has been told. *)
Told(c) == IF call[c].st \in {"ok", "error"} THEN call[c].st ELSE "none"

(* A step in which the calls `open` are told the same, and no call runs.    *)
LEMMA AnswerStep ==
  ASSUME IInv, NEW open \in SUBSET Call, NEW told \in {"ok", "error"},
         \A c \in open : /\ Pending(c) /\ call'[c].st = told
                         /\ told = "ok" => executed[c] = 1,
         \A c \in Call \ open : Told(c)' = Told(c),
         UNCHANGED executed
  PROVE  Once!Next
<1>1. \A c \in open : Told(c) = "none" /\ Told(c)' = told
  BY DEF Told, Pending
<1>2. Once!Answer(open, told)
  BY <1>1 DEF Once!Answer, Told
<1> QED
  BY <1>2 DEF Once!Next
(* A step that tells nobody anything. *)
LEMMA SilentStep ==
  ASSUME \A c \in Call : Told(c)' = Told(c), UNCHANGED executed
  PROVE  UNCHANGED Once!vars
  BY DEF Once!vars, Told

LEMMA SettleOnce ==
  ASSUME IInv, NEW c \in Call, NEW told \in {"ok", "error"},
         call[c].st \in {"wire", "reply"}, told = "ok" => executed[c] = 1,
         Settle(c, told), UNCHANGED executed
  PROVE  Once!Next
<1>1. call'[c].st = told /\ \A d \in Call \ {c} : call'[d] = call[d]
  BY SettledIs DEF Settle, IInv, TypeOK
<1>2. \A d \in Call \ {c} : Told(d)' = Told(d)
  BY <1>1 DEF Told
<1>3. Pending(c)
  BY DEF Pending
<1> QED
  BY <1>1, <1>2, <1>3, AnswerStep

LEMMA ClearedOnce ==
  ASSUME IInv, NEW t \in Tab, call' = Cleared(t), UNCHANGED executed
  PROVE  Once!Next
<1> DEFINE open == {c \in Of(t) : /\ call[c].kind # "write" /\ Pending(c)
                                  /\ call[c].st # "waiting"}
<1>1. \A c \in open : Pending(c) /\ call'[c].st = "error"
  BY SettledIs DEF Cleared, Of
<1>2. \A c \in Call \ open : call'[c].st = call[c].st
  <2> SUFFICES ASSUME NEW c \in Call \ open PROVE call'[c].st = call[c].st
    OBVIOUS
  <2>1. call'[c] = call[c] \/ call'[c] = [call[c] EXCEPT !.aborted = TRUE]
    BY DEF Cleared
  <2> QED
    BY <2>1 DEF IInv, TypeOK, Progress
<1>3. \A c \in Call \ open : Told(c)' = Told(c)
  BY <1>2 DEF Told
<1>4. open \in SUBSET Call
  BY DEF Of
<1> HIDE DEF open
<1> QED
  BY <1>1, <1>3, <1>4, AnswerStep

LEMMA FailAuthOnce ==
  ASSUME IInv, NEW t \in Tab, NEW failed \in SUBSET Call, NEW over,
         \A c \in failed : Pending(c), failAuth(t, failed, over)
  PROVE  Once!Next
<1>0. UNCHANGED executed
  BY DEF failAuth, server
<1>1. CASE Reload(t)
  <2> DEFINE open == {c \in Of(t) : Pending(c)}
  <2>1. \A c \in open : Pending(c) /\ call'[c].st = "error"
    BY <1>1, SettledIs DEF Reload, Of
  <2>2. \A c \in Call \ open : call'[c] = call[c]
    BY <1>1 DEF Reload
  <2>3. \A c \in Call \ open : Told(c)' = Told(c)
    BY <2>2 DEF Told
  <2>4. open \in SUBSET Call
    BY DEF Of
  <2> HIDE DEF open
  <2> QED
    BY <1>0, <2>1, <2>3, <2>4, AnswerStep
<1>2. CASE call' = [c \in Call |-> IF c \in failed THEN Settled("error") ELSE call[c]]
  <2>1. \A c \in failed : call'[c].st = "error"
    BY <1>2, SettledIs
  <2>2. \A c \in Call \ failed : Told(c)' = Told(c)
    BY <1>2 DEF Told
  <2> QED
    BY <1>0, <2>1, <2>2, AnswerStep
<1> QED
  BY <1>1, <1>2 DEF failAuth

LEMMA ServeOnce ==
  ASSUME IInv, NEW c \in Call, NEW reply \in Reply, Serve(c, reply)
  PROVE  Once!Next \/ UNCHANGED Once!vars
<1>1. /\ call'[c].st = "reply" /\ call[c].st = "wire" /\ executed[c] = 0
      /\ \A d \in Call \ {c} : call'[d] = call[d]
  <2>1. call[c] \in Progress /\ call \in [Call -> Progress]
    BY DEF IInv, TypeOK
  <2>2. call' = [call EXCEPT ![c] = [call[c] EXCEPT !.st = "reply", !.reply = reply]]
    BY <2>1 DEF Serve
  <2> QED
    BY <2>1, <2>2 DEF Serve, IInv, ExecutedOnce, Progress
<1>2. \A d \in Call : Told(d)' = Told(d)
  BY <1>1 DEF Told
<1>3. CASE reply = "denied"
  BY <1>2, <1>3, SilentStep DEF Serve
<1>4. CASE reply # "denied"
  <2>1. executed' = [executed EXCEPT ![c] = 1]
    BY <1>1, <1>4 DEF Serve, IInv, TypeOK
  <2>2. Once!Execute(c)
    BY <1>1, <1>2, <2>1 DEF Once!Execute, Told
  <2> QED
    BY <2>2 DEF Once!Next
<1> QED
  BY <1>3, <1>4

LEMMA ReceiveOnce ==
  ASSUME IInv, NEW c \in Call, Receive(c)
  PROVE  Once!Next \/ UNCHANGED Once!vars
<1>1. CASE ~Refused(c)
  <2>1. call[c].reply = "ok" => executed[c] = 1
    BY DEF IInv, ExecutedOnce, Receive
  <2>2. /\ Settle(c, IF call[c].reply = "ok" THEN "ok" ELSE "error")
        /\ UNCHANGED executed
    BY <1>1 DEF Receive, FirstReply, RetryReply, server
  <2> QED
    BY <2>1, <2>2, SettleOnce DEF Receive
<1>2. CASE failAuth(call[c].tab, {c}, {})
  <2>1. Pending(c) /\ call[c].tab \in Tab
    BY DEF Receive, Pending, IInv, CallInv
  <2> QED
    BY <1>2, <2>1, FailAuthOnce
<1>3. CASE call' = [call EXCEPT ![c].st = "waiting"] /\ UNCHANGED executed
  <2>1. call'[c].st = "waiting" /\ \A d \in Call \ {c} : call'[d] = call[d]
    BY <1>3 DEF IInv, TypeOK, Progress
  <2>2. \A d \in Call : Told(d)' = Told(d)
    BY <2>1 DEF Told, Receive
  <2> QED
    BY <1>3, <2>2, SilentStep
<1> QED
  BY <1>1, <1>2, <1>3 DEF Receive, FirstReply, RetryReply, server

LEMMA RefreshDoneOnce ==
  ASSUME IInv, NEW c \in Call, RefreshDone(c)
  PROVE  Once!Next
<1> DEFINE t == call[c].tab
           sharing == {d \in Of(t) : call[d].st = "waiting"}
<1>1. CASE failAuth(t, sharing, {c})
  <2>1. t \in Tab /\ sharing \in SUBSET Call /\ \A d \in sharing : Pending(d)
    BY RefreshBack DEF Of, Pending
  <2> HIDE DEF sharing, t
  <2> QED
    BY <1>1, <2>1, FailAuthOnce
<1>2. CASE /\ call' = [d \in Call |->
                IF d \notin sharing THEN call[d]
                ELSE IF call[d].aborted THEN Settled("error")
                ELSE [call[d] EXCEPT !.st = "wire", !.retried = TRUE,
                                     !.header = applyToken(store', @)]]
           /\ UNCHANGED executed
  <2> DEFINE open == {d \in sharing : call[d].aborted}
  <2>1. \A d \in open : Pending(d) /\ call'[d].st = "error"
    BY <1>2, SettledIs DEF Pending, Of
  <2>2. \A d \in Call \ open : call'[d] = call[d] \/ (call'[d].st = "wire" /\ call[d].st = "waiting")
    <3>1. \A d \in Call : call[d] \in Progress
      BY DEF IInv, TypeOK
    <3> QED
      BY <1>2, <3>1 DEF Progress
  <2>3. \A d \in Call \ open : Told(d)' = Told(d)
    BY <2>2 DEF Told
  <2>4. open \in SUBSET Call
    BY DEF Of
  <2> HIDE DEF open
  <2> QED
    BY <1>2, <2>1, <2>3, <2>4, AnswerStep
<1> QED
  BY <1>1, <1>2 DEF RefreshDone, server

LEMMA OnceNext == IInv /\ [Next]_vars => [Once!Next]_(Once!vars)
<1> SUFFICES ASSUME IInv, [Next]_vars PROVE Once!Next \/ UNCHANGED Once!vars
  OBVIOUS
<1>1. ASSUME UNCHANGED <<call, executed>> PROVE UNCHANGED Once!vars
  BY <1>1 DEF Once!vars
<1>2. ASSUME NEW t \in Tab, Browser(t) PROVE Once!Next \/ UNCHANGED Once!vars
  BY <1>1, <1>2, ClearedOnce DEF Browser, SignIn, beforeLoad, Logout, LogoutDone, server
<1>3. ASSUME NEW c \in Call, NEW t \in Tab, NEW kind \in Kind, Send(c, t, kind)
      PROVE  UNCHANGED Once!vars
  <2>1. /\ call'[c].st = "wire" /\ call[c].st = "idle"
        /\ \A d \in Call \ {c} : call'[d] = call[d]
    BY <1>3 DEF Send, IInv, TypeOK, NewCall
  <2>2. \A d \in Call : Told(d)' = Told(d)
    BY <2>1 DEF Told
  <2> QED
    BY <1>3, <2>2, SilentStep DEF Send, server
<1>4. ASSUME NEW c \in Call, Transport(c) PROVE Once!Next \/ UNCHANGED Once!vars
  BY <1>3, <1>4, ReceiveOnce, RefreshDoneOnce DEF Transport
<1>5. ASSUME NEW c \in Call, Lose(c) PROVE Once!Next
  BY <1>5, SettleOnce DEF Lose, server
<1>6. CASE Network
  BY <1>1, <1>5, <1>6, ServeOnce
  DEF Network, RefreshServe, RefreshLose, LogoutServe, LogoutLose, Expire, EndSession, client, server
<1>7. CASE UNCHANGED vars
  BY <1>1, <1>7 DEF vars, client, server
<1> QED
  BY <1>2, <1>4, <1>6, <1>7 DEF Next

(* The web client implements CallOnce: whatever 401s, refreshes, aborts,    *)
(* reloads and lost answers lie between, the server executes a call once at *)
(* most, and its caller is told once, "ok" only of a call that was executed.*)
THEOREM CallsOnce == Spec => ImplementsCallOnce
<1>1. Init => Once!Init
  BY DEF Init, Once!Init, NewCall
<1> QED
  BY <1>1, OnceNext, WebAuthInvariant, PTL DEF Spec, ImplementsCallOnce, Once!Spec
=============================================================================
