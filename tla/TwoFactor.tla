----------------------------- MODULE TwoFactor -----------------------------
(***************************************************************************)
(* Two-factor authentication of one account, from both ends: the login     *)
(* page with its captcha and its second step, the section of the profile   *)
(* page that enrols, and the statements of Login, SetupTotp, ActivateTotp, *)
(* DisableTotp and DisableUserTotp between them.  The guard and the captcha*)
(* are looked at in one step here; LoginGuard takes them apart.            *)
(***************************************************************************)
EXTENDS Naturals, FiniteSets

CONSTANTS
  LoginTab,    \* login pages
  ProfileTab,  \* profile pages, logged in
  MaxSecret,   \* bound: secrets SetupTotp generates
  MaxGen,      \* bound: sets of recovery codes ActivateTotp generates
  Threshold,   \* failures from which a captcha is asked for
  MaxFails,    \* bound: failures counted, while no profile page is open
  None

VARIABLES
  totp,     \* the row of user_totps
  made,     \* how many secrets SetupTotp has generated
  codes,    \* codes[g]: recovery codes of the g-th activation (one stands for eight)
  fails,    \* the guard's count
  login,    \* login[p]: LoginPage, with its captcha as the server knows it
  section,  \* section[p]: TwoFactorSection
  purging,  \* DisableUserTotp, between its two statements
  proven,   \* history: secrets a code of which ActivateTotp has validated
  spent,    \* history: codes that opened the door and were marked for it
  twice,    \* history: codes that opened the door although they were spent
  swapped,  \* history: SetupTotp wrote while an activation was half-way
  shared,   \* history: codes two requests held at the same time
  taken     \* history: an activation ran inside a DisableUserTotp

vars == <<totp, made, codes, fails, login, section, purging, proven, spent, twice, swapped, shared,
          taken>>

Secret == 1..MaxSecret
Gen == 1..MaxGen

(* A row of user_totps. *)
Row == [secret : Secret, enabled : BOOLEAN]

ASSUME TwoFactorAssumption ==
  /\ MaxSecret \in Nat \ {0} /\ MaxGen \in Nat \ {0}
  /\ Threshold \in Nat /\ MaxFails \in Nat
  /\ None \notin Row

NoCode == <<"none", 0>>

Wrong == <<"wrong", 0>>

TotpCode == {"totp"} \X Secret

RecoveryCode == {"recovery"} \X Gen

(* none: not generated yet.  gone: its row is deleted. *)
CodeState == {"none", "unused", "used", "gone"}

Code == {NoCode, Wrong} \cup TotpCode \cup RecoveryCode

(* captcha: hidden, or the image on the page is one the server still knows  *)
(* (fresh) or has used up.  right: its digits are what is in the field.     *)
(* at: where the request is; reply: what it came to.  A tab may be closed.  *)
LoginState ==
  [step : {"closed", "creds", "totp", "in"}, captcha : {"hidden", "fresh", "used"},
   right : BOOLEAN, at : {"none", "guard", "check", "mark", "reply"}, pw : BOOLEAN,
   code : Code, reply : {"none", "ok", "required", "captcha", "refused"}]

(* enabled: totpEnabled, as `me` last said. *)
SectionState ==
  [step : {"closed", "idle", "setup", "activated"}, enabled : BOOLEAN,
   at : {"none", "setup", "activate", "enable", "disable", "mark", "delete", "reply"},
   code : Code, reply : {"none", "setup", "activated", "disabled", "error"}]

TypeOK ==
  /\ totp \in Row \cup {None}
  /\ made \in 0..MaxSecret
  /\ codes \in [Gen -> CodeState]
  /\ fails \in 0..MaxFails
  /\ login \in [LoginTab -> LoginState]
  /\ section \in [ProfileTab -> SectionState]
  /\ purging \in BOOLEAN
  /\ proven \in SUBSET Secret
  /\ spent \in SUBSET Gen
  /\ twice \in SUBSET Gen
  /\ swapped \in BOOLEAN
  /\ taken \in BOOLEAN
  /\ shared \in SUBSET Gen

NewLogin ==
  [step |-> "creds", captcha |-> "hidden", right |-> FALSE, at |-> "none",
   pw |-> FALSE, code |-> NoCode, reply |-> "none"]

NewSection(on) ==
  [step |-> "idle", enabled |-> on, at |-> "none", code |-> NoCode, reply |-> "none"]

(* Not enrolled, or for long. *)
Init ==
  /\ \/ /\ totp = None
        /\ made = 0 /\ proven = {}
        /\ codes = [g \in Gen |-> "none"]
     \/ /\ totp = [secret |-> 1, enabled |-> TRUE]
        /\ made = 1 /\ proven = {1}
        /\ codes = [g \in Gen |-> IF g = 1 THEN "unused" ELSE "none"]
  /\ fails = 0
  /\ login \in [LoginTab -> {NewLogin, [NewLogin EXCEPT !.step = "closed"]}]
  /\ section \in [ProfileTab -> {NewSection(FALSE), [NewSection(FALSE) EXCEPT !.step = "closed"]}]
  /\ purging = FALSE
  /\ spent = {}
  /\ twice = {}
  /\ swapped = FALSE
  /\ shared = {}
  /\ taken = FALSE

history == <<proven, spent, twice, swapped, shared, taken>>

server == <<totp, made, codes, fails, purging>>

-----------------------------------------------------------------------------
(* LoginPage.  A submitted form cannot be submitted again until it is       *)
(* answered (isSubmitting; loginMutation.isPending).                        *)
TypeCaptcha(p, right) ==
  /\ login[p].step = "creds"
  /\ login[p].captcha # "hidden"
  /\ login' = [login EXCEPT ![p].right = right]
  /\ UNCHANGED <<server, section, history>>

(* captchaQuery.refetch: another image; what was typed stays and is wrong.  *)
Refetched(c) == [c EXCEPT !.captcha = "fresh", !.right = FALSE]

RefetchCaptcha(p) ==
  /\ login[p].captcha # "hidden"
  /\ login' = [login EXCEPT ![p] = Refetched(@)]
  /\ UNCHANGED <<server, section, history>>

(* doLogin: from the form without a code, from the second step with one and *)
(* the credentials that got there.  Both send the captcha as it stands.     *)
doLogin(p, pw, code) ==
  /\ login[p].at = "none"
  /\ \/ login[p].step = "creds" /\ code = NoCode
     \/ login[p].step = "totp" /\ code # NoCode /\ pw
  /\ login' = [login EXCEPT ![p].at = "guard", ![p].pw = pw, ![p].code = code]
  /\ UNCHANGED <<server, section, history>>

(* Cancel in the second step.  (An answer still on its way will put the     *)
(* page where it says.)                                                     *)
CancelTotp(p) ==
  /\ login[p].step = "totp"
  /\ login' = [login EXCEPT ![p].step = "creds"]
  /\ UNCHANGED <<server, section, history>>

(* What the page does with the answer: handleTotpSubmit only says so if it  *)
(* failed, form.onSubmit asks for a captcha, whatever the error.            *)
Answered(c) ==
  LET told == [c EXCEPT !.at = "none", !.reply = "none", !.code = NoCode] IN
  IF c.reply = "ok" THEN [NewLogin EXCEPT !.step = "in"]
  ELSE IF c.reply = "required" THEN [told EXCEPT !.step = "totp"]
  ELSE IF c.code # NoCode THEN told
  ELSE Refetched(told)

LoginAnswer(p) ==
  /\ login[p].at = "reply"
  /\ login' = [login EXCEPT ![p] = Answered(@)]
  /\ UNCHANGED <<server, section, history>>

-----------------------------------------------------------------------------
NeedCaptcha == fails >= Threshold

Counting == \A p \in ProfileTab : section[p].step = "closed"

Fail == fails' = IF Counting /\ fails < MaxFails THEN fails + 1 ELSE fails

(* (All that still matters of the request is whether it had a code.) *)
Reply(p, reply) ==
  login' = [login EXCEPT ![p].at = "reply", ![p].reply = reply, ![p].pw = FALSE,
                         ![p].code = IF @ = NoCode THEN NoCode ELSE Wrong]

(* Login up to the captcha, which is used up by looking at it (an empty     *)
(* answer is not looked at, and as good as a wrong one), and which is no    *)
(* failure if it is wrong.                                                  *)
LoginGuard(p) ==
  LET c == login[p] IN
  /\ c.at = "guard"
  /\ IF ~NeedCaptcha THEN login' = [login EXCEPT ![p].at = "check"]
     ELSE IF c.captcha = "fresh" /\ c.right
       THEN login' = [login EXCEPT ![p].at = "check", ![p].captcha = "used"]
     ELSE \E left \in {c.captcha} \cup (IF c.captcha = "hidden" THEN {} ELSE {"used"}) :
       login' = [login EXCEPT ![p].at = "reply", ![p].reply = "captcha",
                              ![p].captcha = left]
  /\ UNCHANGED <<server, section, history>>

(* Variants named "...Bug" are not part of the specification: each is a      *)
(* slip of the code it stands before, kept to show which property sees it.  *)

(* consumeRecoveryCode looks among all codes, used or not. *)
UnusedBug(code) == code[1] = "recovery" /\ codes[code[2]] \in {"unused", "used"}

(* consumeRecoveryCode, the Find. *)
Unused(code) == code[1] = "recovery" /\ codes[code[2]] = "unused"

Valid(code) == totp # None /\ code = <<"totp", totp.secret>>

(* The requests that have found g unused and not marked it yet. *)
Holding(g) ==
  {p \in LoginTab : login[p].at = "mark" /\ login[p].code[2] = g}
    \cup {p \in ProfileTab : section[p].at = "mark" /\ section[p].code[2] = g}

Share(g) == shared' = IF Holding(g) = {} THEN shared ELSE shared \cup {g}

(* Login's password and second factor.  Without a code the answer is no     *)
(* failure, and the count is not reset.  A row of user_totps that cannot be *)
(* read (~known) is taken for one that is not there, recovery codes that    *)
(* cannot be read (~found) for codes that do not match.                     *)
LoginCheck(p) ==
  /\ login[p].at = "check"
  /\ \E known, found \in BOOLEAN :
       LET c == login[p]
           on == known /\ totp # None /\ totp.enabled
           recovers == found /\ Unused(c.code) IN
       \/ /\ ~c.pw
          /\ Fail /\ Reply(p, "refused")
          /\ UNCHANGED shared
       \/ /\ c.pw /\ on /\ c.code = NoCode
          /\ Reply(p, "required")
          /\ UNCHANGED <<fails, shared>>
       \/ /\ c.pw /\ (on => Valid(c.code))
          /\ fails' = 0 /\ Reply(p, "ok")
          /\ UNCHANGED shared
       \/ /\ c.pw /\ on /\ recovers
          /\ login' = [login EXCEPT ![p].at = "mark"]
          /\ Share(c.code[2])
          /\ UNCHANGED fails
       \/ /\ c.pw /\ on /\ c.code # NoCode /\ ~Valid(c.code) /\ ~recovers
          /\ Fail /\ Reply(p, "refused")
          /\ UNCHANGED shared
  /\ UNCHANGED <<totp, made, codes, purging, section, proven, spent, twice, swapped, taken>>

(* consumeRecoveryCode, the UPDATE by id: nothing if the row is gone.  Its  *)
(* error is dropped: the door opens, written or not.                        *)
MarkUsed(g, written) ==
  /\ codes' = [codes EXCEPT ![g] = IF written /\ @ # "gone" THEN "used" ELSE @]
  /\ spent' = IF written THEN spent \cup {g} ELSE spent
  /\ twice' = IF g \in spent THEN twice \cup {g} ELSE twice

LoginMark(p) ==
  /\ login[p].at = "mark"
  /\ \E written \in BOOLEAN : MarkUsed(login[p].code[2], written)
  /\ fails' = 0
  /\ Reply(p, "ok")
  /\ UNCHANGED <<totp, made, purging, section, proven, swapped, shared, taken>>

(* The guard's window runs out. *)
WindowEnds ==
  /\ fails > 0
  /\ fails' = 0
  /\ UNCHANGED <<totp, made, codes, purging, login, section, history>>

-----------------------------------------------------------------------------
(* TwoFactorSection.  What it shows: the enabled branch comes first. *)
Shows(s) == IF s.enabled THEN "enabled" ELSE s.step

(* handleSetup, handleActivate and handleDisable, where their buttons are.  *)
Ask(p, at, code) ==
  /\ section[p].at = "none"
  /\ section' = [section EXCEPT ![p].at = at, ![p].code = code]
  /\ UNCHANGED <<server, login, history>>

handleSetup(p) == Shows(section[p]) = "idle" /\ Ask(p, "setup", NoCode)

handleActivate(p, code) == Shows(section[p]) = "setup" /\ Ask(p, "activate", code)

handleDisable(p, code) == Shows(section[p]) = "enabled" /\ Ask(p, "disable", code)

(* The answer: state is set first, then every query is invalidated, and     *)
(* totpEnabled follows when `me` is back.                                   *)
SectionAnswer(p) ==
  LET s == section[p]
      told == [s EXCEPT !.at = "none", !.reply = "none", !.code = NoCode] IN
  /\ s.at = "reply"
  /\ section' = [section EXCEPT ![p] =
       CASE s.reply = "setup" -> [told EXCEPT !.step = "setup"]
         [] s.reply = "activated" -> [told EXCEPT !.step = "activated"]
         [] OTHER -> told]
  /\ UNCHANGED <<server, login, history>>

(* `me` is fetched again: after an invalidation, or for another reason. *)
MeArrives(p) ==
  /\ section[p].step # "closed"
  /\ section' = [section EXCEPT ![p].enabled = (totp # None /\ totp.enabled)]
  /\ UNCHANGED <<server, login, history>>

(* The user goes away and comes back. *)
Remount(p) ==
  /\ section[p].at = "none"
  /\ section[p].step # "closed"
  /\ section' = [section EXCEPT ![p] = NewSection(@.enabled)]
  /\ UNCHANGED <<server, login, history>>

-----------------------------------------------------------------------------
(* The upsert leaves `enabled` alone. *)
NewRowBug(s) == [secret |-> s, enabled |-> totp # None /\ totp.enabled]

(* What SetupTotp upserts. *)
NewRow(s) == [secret |-> s, enabled |-> FALSE]

(* SetupTotp: a new secret, in a row of the user's that is not enabled. *)
SetupTotp(p) ==
  /\ section[p].at = "setup"
  /\ made < MaxSecret
  /\ made' = made + 1
  /\ totp' = NewRow(made + 1)
  /\ swapped' = (swapped \/ \E q \in ProfileTab : section[q].at = "enable")
  /\ section' = [section EXCEPT ![p].at = "reply", ![p].reply = "setup"]
  /\ UNCHANGED <<codes, fails, purging, login, proven, spent, twice, shared, taken>>

Refuse(p) == section' = [section EXCEPT ![p].at = "reply", ![p].reply = "error"]

(* ActivateTotp, First and Validate. *)
ActivateCheck(p) ==
  /\ section[p].at = "activate"
  /\ IF Valid(section[p].code)
       THEN /\ section' = [section EXCEPT ![p].at = "enable"]
            /\ proven' = proven \cup {totp.secret}
       ELSE Refuse(p) /\ UNCHANGED proven
  /\ UNCHANGED <<server, login, spent, twice, swapped, shared, taken>>

(* The new codes are inserted before the old ones are deleted. *)
RecodedBug(g) == [h \in Gen |-> IF codes[h] = "none" /\ h # g THEN "none" ELSE "gone"]

(* Delete all codes, then CreateInBatches. *)
Recoded(g) ==
  [h \in Gen |-> IF h = g THEN "unused" ELSE IF codes[h] = "none" THEN "none" ELSE "gone"]

(* ActivateTotp, the transaction: the row is enabled by user_id, whatever   *)
(* its secret is by now, if it is there.                                    *)
ActivateTx(p, g) ==
  /\ section[p].at = "enable"
  /\ codes[g] = "none"
  /\ \A h \in Gen : h < g => codes[h] # "none"
  /\ totp' = IF totp = None THEN None ELSE [totp EXCEPT !.enabled = TRUE]
  /\ codes' = Recoded(g)
  /\ taken' = (taken \/ purging)
  /\ section' = [section EXCEPT ![p].at = "reply", ![p].reply = "activated"]
  /\ UNCHANGED <<made, fails, purging, login, proven, spent, twice, swapped, shared>>

(* DisableTotp: nothing to disable (or a row that cannot be read, ~known),  *)
(* a good code, or a recovery code, if they can be read (found).            *)
DisableCheck(p) ==
  /\ section[p].at = "disable"
  /\ \E known, found \in BOOLEAN :
       LET code == section[p].code
           on == known /\ totp # None
           recovers == found /\ Unused(code) IN
       \/ /\ ~on
          /\ section' = [section EXCEPT ![p].at = "reply", ![p].reply = "disabled"]
          /\ UNCHANGED shared
       \/ /\ on /\ Valid(code)
          /\ section' = [section EXCEPT ![p].at = "delete"]
          /\ UNCHANGED shared
       \/ /\ on /\ recovers
          /\ section' = [section EXCEPT ![p].at = "mark"]
          /\ Share(code[2])
       \/ /\ on /\ ~Valid(code) /\ ~recovers
          /\ Refuse(p)
          /\ UNCHANGED shared
  /\ UNCHANGED <<server, login, proven, spent, twice, swapped, taken>>

DisableMark(p) ==
  /\ section[p].at = "mark"
  /\ \E written \in BOOLEAN : MarkUsed(section[p].code[2], written)
  /\ section' = [section EXCEPT ![p].at = "delete"]
  /\ UNCHANGED <<totp, made, fails, purging, login, proven, swapped, shared, taken>>

Dropped == [g \in Gen |-> IF codes[g] = "none" THEN "none" ELSE "gone"]

Deleted == None

(* DisableTotp, the transaction: the row and all codes. *)
DisableTx(p) ==
  /\ section[p].at = "delete"
  /\ totp' = Deleted
  /\ codes' = Dropped
  /\ section' = [section EXCEPT ![p].at = "reply", ![p].reply = "disabled"]
  /\ UNCHANGED <<made, fails, purging, login, history>>

(* A statement of SetupTotp, ActivateTotp or DisableTotp fails: what its     *)
(* transaction did is undone.                                               *)
StatementFails(p) ==
  /\ section[p].at \in {"setup", "activate", "enable", "delete"}
  /\ Refuse(p)
  /\ UNCHANGED <<server, login, history>>

(* DisableUserTotp of an administrator: the same without a transaction. *)
DisableUserRow ==
  /\ ~purging
  /\ totp # None
  /\ totp' = Deleted
  /\ purging' = TRUE
  /\ UNCHANGED <<made, codes, fails, login, section, history>>

(* The second statement, which an error or a crash may leave out. *)
DisableUserCodes(done) ==
  /\ purging
  /\ purging' = FALSE
  /\ codes' = IF done THEN Dropped ELSE codes
  /\ UNCHANGED <<totp, made, fails, login, section, history>>

-----------------------------------------------------------------------------
(* The codes there are to be typed. *)
Typed ==
  {Wrong} \cup {c \in TotpCode : c[2] <= made}
          \cup {c \in RecoveryCode : codes[c[2]] # "none"}

LoginPage(p) ==
  \/ \E right \in BOOLEAN : TypeCaptcha(p, right)
  \/ RefetchCaptcha(p)
  \/ \E pw \in BOOLEAN, code \in Typed \cup {NoCode} : doLogin(p, pw, code)
  \/ CancelTotp(p)
  \/ LoginAnswer(p)

Login(p) == LoginGuard(p) \/ LoginCheck(p) \/ LoginMark(p)

TwoFactorSection(p) ==
  \/ handleSetup(p)
  \/ \E code \in Typed : handleActivate(p, code) \/ handleDisable(p, code)
  \/ SectionAnswer(p)
  \/ MeArrives(p)
  \/ Remount(p)

ActivateTotp(p) == ActivateCheck(p) \/ \E g \in Gen : ActivateTx(p, g)

DisableTotp(p) == DisableCheck(p) \/ DisableMark(p) \/ DisableTx(p)

DisableUserTotp == DisableUserRow \/ \E done \in BOOLEAN : DisableUserCodes(done)

Next ==
  \/ \E p \in LoginTab : LoginPage(p) \/ Login(p)
  \/ \E p \in ProfileTab :
       \/ TwoFactorSection(p)
       \/ SetupTotp(p)
       \/ ActivateTotp(p)
       \/ DisableTotp(p)
       \/ StatementFails(p)
  \/ DisableUserTotp
  \/ WindowEnds

Spec == Init /\ [][Next]_vars

-----------------------------------------------------------------------------
(* An enabled secret is one the user has shown to have: ActivateTotp        *)
(* validated a code of it - unless SetupTotp replaced the secret between    *)
(* the validation and the write of an activation.                           *)
EnabledMeansProven == totp # None /\ totp.enabled => totp.secret \in proven \/ swapped

(* A recovery code opens the door once, at a login or to disable: once it   *)
(* was marked for it no request gets in with it, unless requests overlap    *)
(* between finding it unused and marking it.  (A mark that fails leaves the *)
(* code as if it had not been used: "marks a matching unused recovery code  *)
(* used" is not true of it.)                                                *)
RecoveryCodeOnce == twice \subseteq shared

(* Whoever has two-factor enabled has the recovery codes of the latest      *)
(* activation and no others - unless an activation ran between the two      *)
(* statements of DisableUserTotp, the second of which takes its codes.      *)
EnabledHasCodes ==
  LET there == {g \in Gen : codes[g] \in {"unused", "used"}} IN
  /\ Cardinality(there) <= 1
  /\ totp # None /\ totp.enabled /\ ~taken => there # {}

(* A page that solved its captcha and was asked for the second factor gets  *)
(* the code checked that it then sends ("Not a failure: prompt the client   *)
(* for the second factor").  The code does not keep this: the captcha that  *)
(* is sent with it is used up.                                              *)
PromptedCodeIsChecked ==
  \A p \in LoginTab :
    login[p].step = "totp" /\ login[p].captcha # "hidden" => login[p].reply # "captcha"

(* Recovery codes stay on the screen until the user leaves the page         *)
(* ("Activated - show recovery codes once").                                *)
RecoveryCodesStay ==
  [][ \A p \in ProfileTab :
        Shows(section[p]) = "activated" =>
          Shows(section'[p]) = "activated" \/ section'[p].step = "idle" ]_vars
=============================================================================
