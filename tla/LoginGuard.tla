----------------------------- MODULE LoginGuard -----------------------------
(***************************************************************************)
(* Brute-force protection of one login key ("email|ip"): LoginGuard's row  *)
(* in login_attempts, the captchas of captcha_codes, and the handlers of   *)
(* AuthService.Login that read and write them, on any number of instances  *)
(* sharing the database.  No statement here is in a transaction, so one    *)
(* action is one statement.  What Login does with the account is in        *)
(* Sessions.                                                               *)
(*                                                                         *)
(* Times are relative: a row has "left" to live, a failing request has an  *)
(* "age" since it called time.Now().                                       *)
(***************************************************************************)
EXTENDS Integers, FiniteSets

CONSTANTS
  Req,               \* concurrent Login requests with this key
  Captcha,           \* captcha ids; one that nobody refers to is as good as new
  None,              \* no row, no captcha
  CaptchaThreshold,  \* AUTH_CAPTCHA_THRESHOLD
  LockThreshold,     \* AUTH_LOCK_THRESHOLD
  LockFor,           \* AUTH_LOCK_FOR, in ticks
  DbErrors,          \* TRUE: statements whose error the code ignores may fail
  MaxFails           \* bound on login_attempts.fails

ASSUME LoginGuardAssumption ==
  /\ IsFiniteSet(Req)
  /\ None \notin Captcha
  /\ CaptchaThreshold \in Nat \ {0}
  /\ LockThreshold \in Nat \ {0}
  /\ LockFor \in Nat \ {0}
  /\ DbErrors \in BOOLEAN
  /\ MaxFails \in Nat

VARIABLES
  attempt,   \* the key's row of login_attempts, or None
  captcha,   \* rows of captcha_codes: "none", "live", or "gone"
  req,       \* locals of the running requests
  checked,   \* history: wrong credentials looked at in this window
  unbacked,  \* history: those looked at without a solved captcha
  weak,      \* history: a failure of this window was lost, or a check skipped
  passes     \* history: requests that used a captcha id up and got through

history == <<checked, unbacked, weak, passes>>
vars == <<attempt, captcha, req, history>>

Attempt == [fails : Nat, left : -LockFor .. LockFor]

ASSUME NoneAssumption == None \notin Attempt

Request == [pc : {"idle", "unlocked", "captcha", "clear", "verify",
                  "fail", "anchor", "reset"},
            cap : Captcha \cup {None}, right : BOOLEAN, age : 0 .. LockFor]

Idle == [pc |-> "idle", cap |-> None, right |-> FALSE, age |-> 0]

TypeOK ==
  /\ attempt \in Attempt \cup {None}
  /\ captcha \in [Captcha -> {"none", "live", "gone"}]
  /\ req \in [Req -> Request]
  /\ checked \in Nat
  /\ unbacked \in Nat
  /\ weak \in BOOLEAN
  /\ passes \in [Captcha -> Nat]

Init ==
  /\ attempt = None
  /\ captcha = [c \in Captcha |-> "none"]
  /\ req = [r \in Req |-> Idle]
  /\ checked = 0
  /\ unbacked = 0
  /\ weak = FALSE
  /\ passes = [c \in Captcha |-> 0]

-----------------------------------------------------------------------------
At(r, label) == req[r].pc = label

Goto(r, label) == req' = [req EXCEPT ![r].pc = label]

Finish(r) == req' = [req EXCEPT ![r] = Idle]

(* Variants named "...Bug" are not part of the specification: each is a      *)
(* slip of the code it stands before, kept to show which property sees it.  *)

(* The lookup forgets expires_at. *)
currentBug(age) == attempt # None

(* The row found by attempt_key = key AND expires_at > now, for a now that  *)
(* was taken age ticks ago.                                                 *)
current(age) == attempt # None /\ attempt.left + age > 0

(* The threshold itself still passes. *)
NeedCaptchaBug == current(0) /\ attempt.fails > CaptchaThreshold

NeedCaptcha == current(0) /\ attempt.fails >= CaptchaThreshold

(* The threshold itself still passes. *)
LockedBug == current(0) /\ attempt.fails > LockThreshold

Locked == current(0) /\ attempt.fails >= LockThreshold

(* A window ends: the next failure starts to count from nothing. *)
NewWindow == checked' = 0 /\ unbacked' = 0 /\ weak' = FALSE

(* A window whose count has been lost, or whose row could not be read by a   *)
(* check, is not followed any further.                                      *)
Weaken == checked' = 0 /\ unbacked' = 0 /\ weak' = TRUE

-----------------------------------------------------------------------------
(* Login, the first check; a locked key is refused at once.  When the query *)
(* fails, current answers as if there were no row.                          *)
CheckLocked(r, ok) ==
  /\ At(r, "idle")
  /\ ok \/ DbErrors
  /\ ok => ~Locked
  /\ Goto(r, "unlocked")
  /\ IF ok THEN UNCHANGED <<checked, unbacked, weak>> ELSE Weaken
  /\ UNCHANGED <<attempt, captcha, passes>>

(* ... the second is a query of its own. *)
CheckCaptcha(r, ok) ==
  /\ At(r, "unlocked")
  /\ ok \/ DbErrors
  /\ Goto(r, IF ok /\ NeedCaptcha THEN "captcha" ELSE "verify")
  /\ IF ok THEN UNCHANGED <<checked, unbacked, weak>> ELSE Weaken
  /\ UNCHANGED <<attempt, captcha, passes>>

(* dbStore.Get: the live row is read; without one the answer is "" and the  *)
(* request is refused, as it is without an id and an answer.                *)
ReadCaptcha(r, c, right) ==
  /\ At(r, "captcha")
  /\ IF captcha[c] = "live"
       THEN req' = [req EXCEPT ![r] = [@ EXCEPT !.pc = "clear", !.cap = c,
                                                !.right = right]]
       ELSE Finish(r)
  /\ UNCHANGED <<attempt, captcha, history>>

(* Only a wrong answer uses the code up. *)
ClearCaptchaBug(r, ok) ==
  /\ At(r, "clear")
  /\ ok \/ DbErrors
  /\ captcha' = [captcha EXCEPT ![req[r].cap] =
                   IF ok /\ ~req[r].right THEN "gone" ELSE @]
  /\ IF req[r].right
       THEN Goto(r, "verify")
       ELSE Finish(r)
  /\ passes' = [passes EXCEPT ![req[r].cap] = IF ok /\ req[r].right THEN @ + 1 ELSE @]
  /\ UNCHANGED <<attempt, checked, unbacked, weak>>

(* ... the row is deleted whatever the answer, whether or not the DELETE    *)
(* succeeds nobody asks, and the answers are compared.                      *)
ClearCaptcha(r, ok) ==
  /\ At(r, "clear")
  /\ ok \/ DbErrors
  /\ captcha' = [captcha EXCEPT ![req[r].cap] = IF ok THEN "gone" ELSE @]
  /\ IF req[r].right
       THEN Goto(r, "verify")
       ELSE Finish(r)
  /\ passes' = [passes EXCEPT ![req[r].cap] = IF ok /\ req[r].right THEN @ + 1 ELSE @]
  /\ UNCHANGED <<attempt, checked, unbacked, weak>>

(* Unknown e-mail, wrong password, disabled account, wrong TOTP or recovery *)
(* code: fail() calls Fail, which takes its time.Now().                     *)
VerifyWrong(r) ==
  /\ At(r, "verify")
  /\ req' = [req EXCEPT ![r] = [@ EXCEPT !.pc = "fail", !.age = 0]]
  /\ checked' = IF weak THEN 0 ELSE checked + 1
  /\ unbacked' = IF weak \/ req[r].cap # None THEN unbacked ELSE unbacked + 1
  /\ UNCHANGED <<attempt, captcha, weak, passes>>

(* The credentials are right: the session is created and Reset follows. *)
VerifyRight(r) ==
  /\ At(r, "verify")
  /\ Goto(r, "reset")
  /\ UNCHANGED <<attempt, captcha, history>>

(* Right password, no TOTP code yet: neither Fail nor Reset. *)
PromptTotp(r) ==
  /\ At(r, "verify")
  /\ Finish(r)
  /\ UNCHANGED <<attempt, captcha, history>>

(* Fail, its UPDATE ... fails = fails + 1: done when it hit the row; no row,*)
(* or an error, and the request goes on to the upsert.  A count past every  *)
(* threshold (failed checks let requests through) stops at MaxFails.        *)
FailUpdate(r, ok) ==
  /\ At(r, "fail")
  /\ ok \/ DbErrors
  /\ IF ok /\ current(req[r].age)
       THEN /\ attempt.fails < MaxFails
            /\ attempt' = [attempt EXCEPT !.fails = @ + 1]
            /\ Finish(r)
       ELSE Goto(r, "anchor") /\ UNCHANGED attempt
  /\ UNCHANGED <<captcha, history>>

(* Fail, its upsert: a window anchored at the time taken, over any row.  A  *)
(* window is spoilt when that row was live, or the new one already is not.  *)
FailAnchor(r) ==
  /\ At(r, "anchor")
  /\ attempt' = [fails |-> 1, left |-> LockFor - req[r].age]
  /\ Finish(r)
  /\ IF current(0) \/ req[r].age = LockFor THEN Weaken
                                           ELSE UNCHANGED <<checked, unbacked, weak>>
  /\ UNCHANGED <<captcha, passes>>

Reset(r) ==
  /\ At(r, "reset")
  /\ attempt' = None
  /\ Finish(r)
  /\ NewWindow
  /\ UNCHANGED <<captcha, passes>>

(* A request dies, or a statement outside Fail returns an error.  One that  *)
(* had looked at wrong credentials leaves them uncounted.                   *)
Abort(r) ==
  /\ ~At(r, "idle")
  /\ Finish(r)
  /\ IF At(r, "fail") \/ At(r, "anchor") THEN Weaken
                                         ELSE UNCHANGED <<checked, unbacked, weak>>
  /\ UNCHANGED <<attempt, captcha, passes>>

-----------------------------------------------------------------------------
(* GetCaptcha: a fresh id. *)
GetCaptcha(c) ==
  /\ captcha[c] # "live"
  /\ \A r \in Req : req[r].cap # c
  /\ captcha' = [captcha EXCEPT ![c] = "live"]
  /\ passes' = [passes EXCEPT ![c] = 0]
  /\ UNCHANGED <<attempt, req, checked, unbacked, weak>>

(* captchaTTL passes. *)
ExpireCaptcha(c) ==
  /\ captcha[c] = "live"
  /\ captcha' = [captcha EXCEPT ![c] = "gone"]
  /\ UNCHANGED <<attempt, req, history>>

(* One unit of time passes, for the row and for the requests inside Fail.   *)
Tick ==
  /\ attempt' = IF attempt = None THEN None
                ELSE [attempt EXCEPT !.left = IF @ > -LockFor THEN @ - 1 ELSE @]
  /\ req' = [r \in Req |->
       IF req[r].pc \in {"fail", "anchor"} /\ req[r].age < LockFor
         THEN [req[r] EXCEPT !.age = @ + 1] ELSE req[r]]
  /\ IF current(0) /\ attempt.left = 1 THEN NewWindow
                                       ELSE UNCHANGED <<checked, unbacked, weak>>
  /\ UNCHANGED <<captcha, passes>>

(* auth_state_cleanup, expires_at < now; what it does to captcha_codes is   *)
(* invisible, since an expired code is never found.                         *)
Cleanup ==
  /\ attempt # None
  /\ attempt.left < 0
  /\ attempt' = None
  /\ UNCHANGED <<captcha, req, history>>

CheckLogin(r) ==
  \/ \E ok \in BOOLEAN : CheckLocked(r, ok) \/ CheckCaptcha(r, ok) \/ ClearCaptcha(r, ok)
  \/ \E c \in Captcha, right \in BOOLEAN : ReadCaptcha(r, c, right)

Verify(r) == VerifyWrong(r) \/ VerifyRight(r) \/ PromptTotp(r)

Fail(r) == FailAnchor(r) \/ \E ok \in BOOLEAN : FailUpdate(r, ok)

Next ==
  \/ \E r \in Req : CheckLogin(r) \/ Verify(r) \/ Fail(r) \/ Reset(r) \/ Abort(r)
  \/ \E c \in Captcha : GetCaptcha(c) \/ ExpireCaptcha(c)
  \/ Tick
  \/ Cleanup

(* Clocks advance; nothing else is owed. *)
Spec == Init /\ [][Next]_vars /\ WF_vars(Tick)

-----------------------------------------------------------------------------
(* However many requests are in flight, the lock lets no window look at     *)
(* more wrong credentials than the threshold and one for each other request *)
(* that was past the check when it was reached (Login, guard.Locked), as    *)
(* long as no failure of the window was lost and no check's query failed.   *)
GuessBound == ~weak => checked <= LockThreshold + Cardinality(Req) - 1

(* ... and past the captcha threshold every further look is paid for with a *)
(* solved captcha, but for the requests that had checked before.            *)
UnbackedBound == ~weak => unbacked <= CaptchaThreshold + Cardinality(Req) - 1

(* A captcha answers only requests that had read it before the first of     *)
(* them deleted it: never more than can overlap (captcha.Verify), but for   *)
(* those whose DELETE failed.                                               *)
CaptchaBound ==
  \A c \in Captcha :
    passes[c] > 0 =>
      passes[c] + Cardinality({r \in Req : At(r, "clear") /\ req[r].cap = c})
        <= Cardinality(Req)

(* Nobody stays locked out: in-flight failures cannot prolong a lock for    *)
(* ever.                                                                    *)
LockIsTemporary == Locked ~> ~Locked
=============================================================================
