--------------------------- MODULE TwoFactorProofs ---------------------------
(***************************************************************************)
(* Proofs about TwoFactor, for every number of pages, secrets, activations *)
(* and failures.                                                           *)
(***************************************************************************)
EXTENDS TwoFactor, FiniteSetTheorems, TLAPS

LoginHolds(p, g) == login[p].at = "mark" /\ login[p].code[2] = g

SectionHolds(p, g) == section[p].at = "mark" /\ section[p].code[2] = g

(* Who marks a code marks a recovery code that was generated. *)
MarkInv ==
  /\ \A p \in LoginTab : login[p].at = "mark" =>
       /\ login[p].code \in RecoveryCode
       /\ codes[login[p].code[2]] # "none"
  /\ \A p \in ProfileTab : section[p].at = "mark" =>
       /\ section[p].code \in RecoveryCode
       /\ codes[section[p].code[2]] # "none"

(* A code two requests hold is in `shared`. *)
HeldTwice ==
  \A g \in Gen :
    \/ g \in shared
    \/ /\ \A p, q \in LoginTab : LoginHolds(p, g) /\ LoginHolds(q, g) => p = q
       /\ \A p, q \in ProfileTab : SectionHolds(p, g) /\ SectionHolds(q, g) => p = q
       /\ \A p \in LoginTab, q \in ProfileTab : ~(LoginHolds(p, g) /\ SectionHolds(q, g))

(* A code that is spent cannot be found again, ... *)
SpentInv == \A g \in spent : codes[g] \in {"used", "gone"}

(* ... and in `shared` it is, if somebody else's request still holds it. *)
HeldUsed ==
  \A g \in Gen :
    \/ g \in shared
    \/ g \notin spent
    \/ /\ \A p \in LoginTab : ~LoginHolds(p, g)
       /\ \A p \in ProfileTab : ~SectionHolds(p, g)

(* The row an activation is about to enable has the secret that was proven, *)
(* if it is there.                                                          *)
EnablingProven ==
  (\E p \in ProfileTab : section[p].at = "enable") /\ totp # None =>
    totp.secret \in proven \/ swapped

(* The recovery codes of one activation are there at most. *)
There(g) == codes[g] \in {"unused", "used"}

OneSet == \A g, h \in Gen : There(g) /\ There(h) => g = h

(* Between the two statements of DisableUserTotp nothing is enabled. *)
PurgingInv == purging /\ ~taken => totp = None \/ ~totp.enabled

HasCodes == totp # None /\ totp.enabled /\ ~taken => \E g \in Gen : There(g)

IInv ==
  /\ TypeOK
  /\ MarkInv
  /\ HeldTwice
  /\ SpentInv
  /\ HeldUsed
  /\ RecoveryCodeOnce
  /\ EnablingProven
  /\ EnabledMeansProven
  /\ OneSet
  /\ PurgingInv
  /\ HasCodes
-----------------------------------------------------------------------------
LEMMA CodeTypes ==
  /\ NoCode \in Code /\ Wrong \in Code
  /\ NoCode # Wrong
  /\ TotpCode \subseteq Code /\ RecoveryCode \subseteq Code
  /\ \A c \in Code : c[1] = "recovery" => c \in RecoveryCode
  /\ \A c \in RecoveryCode : c[2] \in Gen
  BY DEF Code, NoCode, Wrong, TotpCode, RecoveryCode

LEMMA NewTypes ==
  /\ NewLogin \in LoginState
  /\ \A on \in BOOLEAN : NewSection(on) \in SectionState
  /\ NewLogin.at = "none"
  /\ \A on \in BOOLEAN : NewSection(on).at = "none"
  BY CodeTypes DEF NewLogin, NewSection, LoginState, SectionState

LEMMA InitInv == Init => IInv
<1> SUFFICES ASSUME Init PROVE IInv
  OBVIOUS
<1> USE TwoFactorAssumption, NewTypes
<1>1. /\ \A p \in LoginTab : login[p] \in LoginState /\ login[p].at = "none"
      /\ \A p \in ProfileTab : section[p] \in SectionState /\ section[p].at = "none"
  <2>1. /\ [NewLogin EXCEPT !.step = "closed"] \in LoginState
        /\ [NewLogin EXCEPT !.step = "closed"].at = "none"
        /\ [NewSection(FALSE) EXCEPT !.step = "closed"] \in SectionState
        /\ [NewSection(FALSE) EXCEPT !.step = "closed"].at = "none"
    BY DEF LoginState, SectionState
  <2>2. /\ \A p \in LoginTab : login[p] \in {NewLogin, [NewLogin EXCEPT !.step = "closed"]}
        /\ \A p \in ProfileTab :
             section[p] \in {NewSection(FALSE), [NewSection(FALSE) EXCEPT !.step = "closed"]}
    BY DEF Init
  <2> QED
    BY <2>1, <2>2
<1>2. /\ login \in [LoginTab -> LoginState]
      /\ section \in [ProfileTab -> SectionState]
  BY <1>1 DEF Init
<1>3. 1 \in Gen /\ 1 \in Secret
  BY DEF Gen, Secret
<1>4. /\ totp \in Row \cup {None} /\ made \in 0 .. MaxSecret
      /\ codes \in [Gen -> CodeState] /\ proven \in SUBSET Secret
  <2>1. MaxSecret \in Nat \ {0} /\ 0 \in 0 .. MaxSecret /\ 1 \in 0 .. MaxSecret
    OBVIOUS
  <2>2. codes \in [Gen -> CodeState]
    BY DEF Init, CodeState
  <2>3. [secret |-> 1, enabled |-> TRUE] \in Row
    BY <1>3 DEF Row
  <2>4. totp \in Row \cup {None} /\ proven \in SUBSET Secret
    BY <1>3, <2>3 DEF Init
  <2>5. made \in 0 .. MaxSecret
    BY <2>1 DEF Init
  <2> QED
    BY <2>2, <2>4, <2>5
<1>5. TypeOK
  <2>1. fails \in 0 .. MaxFails
    BY DEF Init
  <2> QED
    BY <1>2, <1>4, <2>1 DEF Init, TypeOK
<1>6. MarkInv /\ HeldTwice /\ SpentInv /\ HeldUsed /\ RecoveryCodeOnce /\ EnablingProven
  BY <1>1 DEF Init, MarkInv, HeldTwice, SpentInv, HeldUsed, RecoveryCodeOnce, EnablingProven, LoginHolds,
              SectionHolds
<1>7. EnabledMeansProven /\ OneSet /\ PurgingInv /\ HasCodes
  BY <1>3 DEF Init, EnabledMeansProven, OneSet, PurgingInv, HasCodes, There
<1> QED
  BY <1>5, <1>6, <1>7 DEF IInv

-----------------------------------------------------------------------------
(* A step that lets nobody hold a code they did not hold, brings back none  *)
(* that is spent and forgets nothing keeps what is known of those held.     *)
KeepsHolds ==
  /\ \A p \in LoginTab : login'[p].at = "mark" =>
       login[p].at = "mark" /\ login'[p].code = login[p].code
  /\ \A p \in ProfileTab : section'[p].at = "mark" =>
       section[p].at = "mark" /\ section'[p].code = section[p].code
  /\ \A g \in Gen : /\ codes[g] \in {"used", "gone"} => codes'[g] \in {"used", "gone"}
                    /\ codes'[g] = "none" => codes[g] = "none"
  /\ spent' = spent
  /\ shared \subseteq shared'

LEMMA HoldsKept ==
  ASSUME IInv, KeepsHolds
  PROVE  MarkInv' /\ HeldTwice' /\ SpentInv' /\ HeldUsed'
<1> USE DEF IInv, KeepsHolds
<1>1. MarkInv'
  BY CodeTypes DEF MarkInv
<1>2. HeldTwice'
  BY DEF HeldTwice, LoginHolds, SectionHolds
<1>3. HeldUsed'
  BY DEF HeldUsed, LoginHolds, SectionHolds
<1>4. SpentInv'
  BY DEF SpentInv, TypeOK
<1> QED
  BY <1>1, <1>2, <1>3, <1>4

(* Login changes nothing of the enrolment. *)
LEMMA EnrolmentKept ==
  ASSUME IInv, UNCHANGED <<totp, codes, purging, proven, swapped, taken>>,
         \A p \in ProfileTab : section'[p].at = "enable" => section[p].at = "enable"
  PROVE  EnablingProven' /\ EnabledMeansProven' /\ OneSet' /\ PurgingInv' /\ HasCodes'
  BY DEF IInv, EnablingProven, EnabledMeansProven, OneSet, PurgingInv, HasCodes, There

LEMMA AnsweredType ==
  ASSUME NEW c \in LoginState
  PROVE  Answered(c) \in LoginState /\ Answered(c).at = "none"
<1> DEFINE told == [c EXCEPT !.at = "none", !.reply = "none", !.code = NoCode]
<1>1. told \in LoginState /\ told.at = "none"
  BY CodeTypes DEF LoginState
<1>2. CASE c.reply = "ok"
  <2>1. Answered(c) = [NewLogin EXCEPT !.step = "in"]
    BY <1>2 DEF Answered
  <2> QED
    BY <2>1, NewTypes DEF LoginState
<1>3. CASE c.reply = "required"
  <2>1. Answered(c) = [told EXCEPT !.step = "totp"]
    BY <1>3 DEF Answered
  <2> HIDE DEF told
  <2> QED
    BY <2>1, <1>1 DEF LoginState
<1>4. CASE c.reply \notin {"ok", "required"} /\ c.code # NoCode
  <2>1. Answered(c) = told
    BY <1>4 DEF Answered
  <2> QED
    BY <2>1, <1>1
<1>5. CASE c.reply \notin {"ok", "required"} /\ c.code = NoCode
  <2>1. Answered(c) = [told EXCEPT !.captcha = "fresh", !.right = FALSE]
    BY <1>5 DEF Answered, Refetched
  <2> HIDE DEF told
  <2> QED
    BY <2>1, <1>1 DEF LoginState
<1> QED
  BY <1>2, <1>3, <1>4, <1>5
-----------------------------------------------------------------------------
(* What the actions of a login page do to its record. *)
LEMMA PageStep ==
  ASSUME IInv, NEW p \in LoginTab, LoginPage(p)
  PROVE  /\ login' \in [LoginTab -> LoginState]
         /\ \A q \in LoginTab : login'[q].at = "mark" =>
              login[q].at = "mark" /\ login'[q].code = login[q].code
<1> SUFFICES \E c \in LoginState :
                /\ login' = [login EXCEPT ![p] = c]
                /\ c.at = "mark" => login[p].at = "mark" /\ c.code = login[p].code
  BY DEF IInv, TypeOK
<1>1. login[p] \in LoginState /\ login \in [LoginTab -> LoginState]
  BY DEF IInv, TypeOK
<1>2. ASSUME NEW right \in BOOLEAN, TypeCaptcha(p, right)
      PROVE  login' = [login EXCEPT ![p] = [login[p] EXCEPT !.right = right]]
  BY <1>1, <1>2 DEF TypeCaptcha
<1>3. ASSUME RefetchCaptcha(p)
      PROVE  login' = [login EXCEPT ![p] = [login[p] EXCEPT !.captcha = "fresh", !.right = FALSE]]
  BY <1>1, <1>3 DEF RefetchCaptcha, Refetched
<1>4. ASSUME NEW pw \in BOOLEAN, NEW code \in Typed \cup {NoCode}, doLogin(p, pw, code)
      PROVE  login' = [login EXCEPT ![p] =
                         [login[p] EXCEPT !.at = "guard", !.pw = pw, !.code = code]]
  BY <1>1, <1>4 DEF doLogin
<1>5. ASSUME CancelTotp(p)
      PROVE  login' = [login EXCEPT ![p] = [login[p] EXCEPT !.step = "creds"]]
  BY <1>1, <1>5 DEF CancelTotp
<1>6. ASSUME LoginAnswer(p)
      PROVE  login' = [login EXCEPT ![p] = Answered(login[p])]
  BY <1>1, <1>6 DEF LoginAnswer
<1>7. Typed \cup {NoCode} \subseteq Code
  BY CodeTypes DEF Typed
<1>8. /\ \A right \in BOOLEAN : [login[p] EXCEPT !.right = right] \in LoginState
      /\ [login[p] EXCEPT !.captcha = "fresh", !.right = FALSE] \in LoginState
      /\ \A pw \in BOOLEAN, code \in Code :
           [login[p] EXCEPT !.at = "guard", !.pw = pw, !.code = code] \in LoginState
      /\ [login[p] EXCEPT !.step = "creds"] \in LoginState
  BY <1>1 DEF LoginState
<1>9. /\ \A right \in BOOLEAN : /\ [login[p] EXCEPT !.right = right].at = login[p].at
                                /\ [login[p] EXCEPT !.right = right].code = login[p].code
      /\ [login[p] EXCEPT !.captcha = "fresh", !.right = FALSE].at = login[p].at
      /\ [login[p] EXCEPT !.captcha = "fresh", !.right = FALSE].code = login[p].code
      /\ \A pw \in BOOLEAN, code \in Code :
           [login[p] EXCEPT !.at = "guard", !.pw = pw, !.code = code].at = "guard"
      /\ [login[p] EXCEPT !.step = "creds"].at = login[p].at
      /\ [login[p] EXCEPT !.step = "creds"].code = login[p].code
  BY <1>1 DEF LoginState
<1>10. CASE \E right \in BOOLEAN : TypeCaptcha(p, right)
  BY <1>10, <1>2, <1>8, <1>9, ZenonT(30)
<1>11. CASE RefetchCaptcha(p)
  BY <1>11, <1>3, <1>8, <1>9
<1>12. CASE \E pw \in BOOLEAN, code \in Typed \cup {NoCode} : doLogin(p, pw, code)
  <2>1. PICK pw \in BOOLEAN, code \in Code : doLogin(p, pw, code) /\ code \in Typed \cup {NoCode}
    BY <1>12, <1>7
  <2> DEFINE c == [login[p] EXCEPT !.at = "guard", !.pw = pw, !.code = code]
  <2>2. c \in LoginState /\ c.at = "guard"
    BY <1>8, <1>9
  <2>3. login' = [login EXCEPT ![p] = c]
    BY <1>4, <2>1
  <2> HIDE DEF c
  <2> QED
    BY <2>2, <2>3
<1>13. CASE CancelTotp(p)
  BY <1>13, <1>5, <1>8, <1>9
<1>14. CASE LoginAnswer(p)
  BY <1>14, <1>1, <1>6, AnsweredType
<1> QED
  BY <1>10, <1>11, <1>12, <1>13, <1>14 DEF LoginPage

LEMMA LoginPageInv ==
  ASSUME IInv, NEW p \in LoginTab, LoginPage(p)
  PROVE  IInv'
<1>1. UNCHANGED <<server, section, history>>
  BY DEF LoginPage, TypeCaptcha, RefetchCaptcha, doLogin, CancelTotp, LoginAnswer
<1>2. TypeOK' /\ RecoveryCodeOnce'
  BY <1>1, PageStep DEF IInv, TypeOK, RecoveryCodeOnce, server, history
<1>3. KeepsHolds
  BY <1>1, PageStep DEF KeepsHolds, server, history
<1> QED
  BY <1>1, <1>2, <1>3, HoldsKept, EnrolmentKept DEF IInv, server, history
-----------------------------------------------------------------------------
LEMMA Replied ==
  ASSUME IInv, NEW p \in LoginTab, NEW r \in {"ok", "required", "captcha", "refused"},
         Reply(p, r)
  PROVE  /\ login' \in [LoginTab -> LoginState]
         /\ login'[p].at = "reply"
         /\ \A q \in LoginTab \ {p} : login'[q] = login[q]
<1>1. login[p] \in LoginState /\ login \in [LoginTab -> LoginState]
  BY DEF IInv, TypeOK
<1> DEFINE k == IF login[p].code = NoCode THEN NoCode ELSE Wrong
           c == [login[p] EXCEPT !.at = "reply", !.reply = r, !.pw = FALSE, !.code = k]
<1>2. login' = [login EXCEPT ![p] = c]
  BY <1>1 DEF Reply, LoginState
<1>3. k \in Code
  BY CodeTypes
<1> HIDE DEF k
<1>4. c \in LoginState /\ c.at = "reply"
  BY <1>1, <1>3 DEF LoginState
<1> HIDE DEF c
<1> QED
  BY <1>1, <1>2, <1>4

LEMMA FailType ==
  ASSUME IInv, Fail \/ fails' = 0 \/ UNCHANGED fails
  PROVE  fails' \in 0 .. MaxFails
  BY TwoFactorAssumption DEF IInv, TypeOK, Fail

LEMMA LoginGuardInv ==
  ASSUME IInv, NEW p \in LoginTab, LoginGuard(p)
  PROVE  IInv'
<1>1. login[p] \in LoginState /\ login \in [LoginTab -> LoginState]
  BY DEF IInv, TypeOK
<1>2. PICK c \in LoginState : login' = [login EXCEPT ![p] = c] /\ c.at # "mark"
  <2>1. CASE ~NeedCaptcha
    <3>1. login' = [login EXCEPT ![p] = [login[p] EXCEPT !.at = "check"]]
      BY <1>1, <2>1 DEF LoginGuard
    <3>2. [login[p] EXCEPT !.at = "check"] \in LoginState
      BY <1>1 DEF LoginState
    <3>3. [login[p] EXCEPT !.at = "check"].at = "check"
      BY <1>1 DEF LoginState
    <3> QED
      BY <3>1, <3>2, <3>3
  <2>2. CASE NeedCaptcha /\ login[p].captcha = "fresh" /\ login[p].right
    <3> DEFINE c == [login[p] EXCEPT !.at = "check", !.captcha = "used"]
    <3>1. login' = [login EXCEPT ![p] = c]
      BY <1>1, <2>2 DEF LoginGuard
    <3>2. c \in LoginState /\ c.at = "check"
      BY <1>1 DEF LoginState
    <3> HIDE DEF c
    <3> QED
      BY <3>1, <3>2
  <2>3. CASE NeedCaptcha /\ ~(login[p].captcha = "fresh" /\ login[p].right)
    <3>1. PICK left \in {login[p].captcha} \cup (IF login[p].captcha = "hidden" THEN {} ELSE {"used"}) :
            login' = [login EXCEPT ![p].at = "reply", ![p].reply = "captcha", ![p].captcha = left]
      BY <2>3 DEF LoginGuard
    <3> DEFINE c == [login[p] EXCEPT !.at = "reply", !.reply = "captcha", !.captcha = left]
    <3>2. login' = [login EXCEPT ![p] = c]
      BY <1>1, <3>1
    <3>3. c \in LoginState /\ c.at = "reply"
      <4>1. left \in {"hidden", "fresh", "used"}
        BY <1>1 DEF LoginState
      <4> QED
        BY <1>1, <4>1 DEF LoginState
    <3> HIDE DEF c
    <3> QED
      BY <3>2, <3>3
  <2> QED
    BY <2>1, <2>2, <2>3
<1>3. UNCHANGED <<server, section, history>>
  BY DEF LoginGuard
<1>4. TypeOK' /\ RecoveryCodeOnce'
  BY <1>1, <1>2, <1>3 DEF IInv, TypeOK, RecoveryCodeOnce, server, history
<1>5. KeepsHolds
  BY <1>1, <1>2, <1>3 DEF KeepsHolds, server, history
<1> QED
  BY <1>3, <1>4, <1>5, HoldsKept, EnrolmentKept DEF IInv, server, history

(* A code found unused is held by nobody, or shared from now on. *)
LEMMA FoundUnused ==
  ASSUME IInv, NEW code \in Code, Unused(code), Share(code[2])
  PROVE  /\ code \in RecoveryCode /\ code[2] \in Gen
         /\ codes[code[2]] = "unused" /\ code[2] \notin spent
         /\ shared' \in SUBSET Gen /\ shared \subseteq shared'
         /\ \/ code[2] \in shared'
            \/ /\ \A q \in LoginTab : ~LoginHolds(q, code[2])
               /\ \A q \in ProfileTab : ~SectionHolds(q, code[2])
<1>1. code \in RecoveryCode /\ code[2] \in Gen /\ codes[code[2]] = "unused"
  BY CodeTypes DEF Unused
<1>2. code[2] \notin spent
  BY <1>1 DEF IInv, SpentInv
<1>3. shared' \in SUBSET Gen /\ shared \subseteq shared'
  BY <1>1 DEF Share, IInv, TypeOK
<1>4. CASE Holding(code[2]) = {}
  BY <1>1, <1>2, <1>3, <1>4 DEF Holding, LoginHolds, SectionHolds
<1>5. CASE Holding(code[2]) # {}
  BY <1>1, <1>2, <1>3, <1>5 DEF Share
<1> QED
  BY <1>4, <1>5

LEMMA LoginCheckInv ==
  ASSUME IInv, NEW p \in LoginTab, LoginCheck(p)
  PROVE  IInv'
<1>1. login[p] \in LoginState /\ login \in [LoginTab -> LoginState]
  BY DEF IInv, TypeOK
<1>2. /\ UNCHANGED <<totp, made, codes, purging, section, proven, spent, twice, swapped, taken>>
      /\ Fail \/ fails' = 0 \/ UNCHANGED fails
      /\ login[p].at = "check"
  BY DEF LoginCheck
<1>3. CASE /\ UNCHANGED shared
           /\ \E r \in {"ok", "required", "refused"} : Reply(p, r)
  <2>1. /\ login' \in [LoginTab -> LoginState]
        /\ login'[p].at = "reply"
        /\ \A q \in LoginTab \ {p} : login'[q] = login[q]
    BY <1>3, Replied
  <2>2. TypeOK' /\ RecoveryCodeOnce'
    BY <1>2, <1>3, <2>1, FailType DEF IInv, TypeOK, RecoveryCodeOnce
  <2>3. KeepsHolds
    BY <1>2, <1>3, <2>1 DEF KeepsHolds
  <2> QED
    BY <1>2, <2>2, <2>3, HoldsKept, EnrolmentKept DEF IInv
<1>4. CASE /\ Unused(login[p].code)
           /\ login' = [login EXCEPT ![p].at = "mark"]
           /\ Share(login[p].code[2])
           /\ UNCHANGED fails
  <2> DEFINE c == [login[p] EXCEPT !.at = "mark"]
             g == login[p].code[2]
  <2>1. /\ login' = [login EXCEPT ![p] = c]
        /\ c \in LoginState /\ c.at = "mark" /\ c.code = login[p].code
    BY <1>1, <1>4 DEF LoginState
  <2>2. /\ login[p].code \in RecoveryCode /\ g \in Gen /\ codes[g] = "unused" /\ g \notin spent
        /\ shared' \in SUBSET Gen /\ shared \subseteq shared'
        /\ \/ g \in shared'
           \/ /\ \A q \in LoginTab : ~LoginHolds(q, g)
              /\ \A q \in ProfileTab : ~SectionHolds(q, g)
    <3>1. login[p].code \in Code
      BY <1>1 DEF LoginState
    <3> QED
      BY <1>4, <3>1, FoundUnused
  <2>3. /\ login'[p].at = "mark" /\ login'[p].code = login[p].code
        /\ \A q \in LoginTab \ {p} : login'[q] = login[q]
    BY <1>1, <2>1
  <2>4. TypeOK' /\ RecoveryCodeOnce'
    BY <1>1, <1>2, <1>4, <2>1, <2>2 DEF IInv, TypeOK, RecoveryCodeOnce
  <2> HIDE DEF c
  <2>5. /\ \A h \in Gen : LoginHolds(p, h)' => h = g
        /\ \A q \in LoginTab \ {p}, h \in Gen : LoginHolds(q, h)' <=> LoginHolds(q, h)
        /\ \A q \in ProfileTab, h \in Gen : SectionHolds(q, h)' <=> SectionHolds(q, h)
    BY <1>2, <2>3 DEF LoginHolds, SectionHolds
  <2>6. MarkInv'
    BY <1>2, <2>2, <2>3 DEF IInv, MarkInv
  <2>7. HeldTwice'
    BY <2>2, <2>5 DEF IInv, HeldTwice
  <2>8. HeldUsed' /\ SpentInv'
    BY <1>2, <2>2, <2>5 DEF IInv, HeldUsed, SpentInv
  <2> QED
    BY <1>2, <2>4, <2>6, <2>7, <2>8, EnrolmentKept DEF IInv
<1> QED
  BY <1>3, <1>4 DEF LoginCheck
(* The UPDATE of consumeRecoveryCode, by the request that holds g. *)
LEMMA MarkUsedInv ==
  ASSUME IInv, NEW g \in Gen, NEW written \in BOOLEAN, MarkUsed(g, written),
         codes[g] # "none",
         g \in spent => g \in shared,
         \A q \in LoginTab : login'[q].at = "mark" => login'[q] = login[q],
         \A q \in ProfileTab : section'[q].at = "mark" => section'[q] = section[q],
         \/ g \in shared
         \/ /\ \A q \in LoginTab : ~LoginHolds(q, g)'
            /\ \A q \in ProfileTab : ~SectionHolds(q, g)',
         \A q \in ProfileTab : section'[q].at = "enable" => section[q].at = "enable",
         UNCHANGED <<totp, purging, proven, swapped, shared, taken>>
  PROVE  /\ codes' \in [Gen -> CodeState]
         /\ spent' \in SUBSET Gen /\ twice' \in SUBSET Gen
         /\ MarkInv' /\ HeldTwice' /\ SpentInv' /\ HeldUsed' /\ RecoveryCodeOnce'
         /\ EnablingProven' /\ EnabledMeansProven' /\ OneSet' /\ PurgingInv' /\ HasCodes'
<1>1. /\ codes' \in [Gen -> CodeState]
      /\ codes'[g] = IF written /\ codes[g] # "gone" THEN "used" ELSE codes[g]
      /\ \A h \in Gen \ {g} : codes'[h] = codes[h]
  BY DEF MarkUsed, IInv, TypeOK, CodeState
<1>2. /\ spent' \in SUBSET Gen /\ twice' \in SUBSET Gen
      /\ RecoveryCodeOnce'
  BY DEF MarkUsed, IInv, TypeOK, RecoveryCodeOnce
<1>3. \A h \in Gen : There(h)' <=> There(h)
  BY <1>1 DEF There, IInv, TypeOK, CodeState
<1>4. MarkInv'
  BY <1>1, CodeTypes DEF IInv, MarkInv
<1>5. /\ \A q \in LoginTab, h \in Gen : LoginHolds(q, h)' => LoginHolds(q, h)
      /\ \A q \in ProfileTab, h \in Gen : SectionHolds(q, h)' => SectionHolds(q, h)
  BY DEF LoginHolds, SectionHolds
<1>6. HeldTwice'
  BY <1>5 DEF IInv, HeldTwice
<1>7. HeldUsed'
  BY <1>5 DEF IInv, HeldUsed, MarkUsed
<1>8. SpentInv'
  BY <1>1 DEF IInv, SpentInv, MarkUsed, TypeOK, CodeState
<1>9. EnablingProven' /\ EnabledMeansProven'
  BY DEF IInv, EnablingProven, EnabledMeansProven
<1>10. OneSet' /\ PurgingInv' /\ HasCodes'
  BY <1>3 DEF IInv, OneSet, PurgingInv, HasCodes
<1> QED
  BY <1>1, <1>2, <1>4, <1>6, <1>7, <1>9, <1>10, <1>8

LEMMA LoginMarkInv ==
  ASSUME IInv, NEW p \in LoginTab, LoginMark(p)
  PROVE  IInv'
<1>0. PICK g \in Gen : g = login[p].code[2]
  BY CodeTypes DEF LoginMark, IInv, MarkInv
<1>w. PICK written \in BOOLEAN : MarkUsed(login[p].code[2], written)
  BY DEF LoginMark
<1>1. /\ login[p].at = "mark" /\ MarkUsed(g, written) /\ Reply(p, "ok") /\ fails' = 0
      /\ UNCHANGED <<totp, made, purging, section, proven, swapped, shared, taken>>
  BY <1>0, <1>w DEF LoginMark
<1>2. /\ login' \in [LoginTab -> LoginState]
      /\ login'[p].at = "reply"
      /\ \A q \in LoginTab \ {p} : login'[q] = login[q]
  BY <1>1, Replied
<1>3. codes[g] # "none" /\ LoginHolds(p, g)
  BY <1>0, <1>1 DEF IInv, MarkInv, LoginHolds
<1>4. g \in spent => g \in shared
  BY <1>3 DEF IInv, HeldUsed
<1>5. \/ g \in shared
      \/ /\ \A q \in LoginTab : ~LoginHolds(q, g)'
         /\ \A q \in ProfileTab : ~SectionHolds(q, g)'
  <2>1. \A q \in LoginTab : LoginHolds(q, g)' => q # p /\ LoginHolds(q, g)
    BY <1>2 DEF LoginHolds
  <2>2. \A q \in ProfileTab : SectionHolds(q, g)' => SectionHolds(q, g)
    BY <1>1 DEF SectionHolds
  <2> QED
    BY <1>3, <2>1, <2>2 DEF IInv, HeldTwice
<1>6. /\ \A q \in LoginTab : login'[q].at = "mark" => login'[q] = login[q]
      /\ \A q \in ProfileTab : section'[q].at = "mark" => section'[q] = section[q]
      /\ \A q \in ProfileTab : section'[q].at = "enable" => section[q].at = "enable"
  BY <1>1, <1>2
<1>7. /\ codes' \in [Gen -> CodeState]
      /\ spent' \in SUBSET Gen /\ twice' \in SUBSET Gen
      /\ MarkInv' /\ HeldTwice' /\ SpentInv' /\ HeldUsed' /\ RecoveryCodeOnce'
      /\ EnablingProven' /\ EnabledMeansProven' /\ OneSet' /\ PurgingInv' /\ HasCodes'
  BY <1>1, <1>3, <1>4, <1>5, <1>6, MarkUsedInv
<1>8. TypeOK'
  BY <1>1, <1>2, <1>7, FailType DEF IInv, TypeOK
<1> QED
  BY <1>7, <1>8 DEF IInv

LEMMA WindowEndsInv ==
  ASSUME IInv, WindowEnds
  PROVE  IInv'
<1>1. TypeOK' /\ RecoveryCodeOnce'
  BY FailType DEF WindowEnds, IInv, TypeOK, RecoveryCodeOnce, history
<1>2. KeepsHolds
  BY DEF WindowEnds, KeepsHolds, history
<1> QED
  BY <1>1, <1>2, HoldsKept, EnrolmentKept DEF IInv, WindowEnds, history

-----------------------------------------------------------------------------
(* What the actions of a profile page do to its record. *)
LEMMA SectionStep ==
  ASSUME IInv, NEW p \in ProfileTab, TwoFactorSection(p)
  PROVE  \E c \in SectionState :
            /\ section' = [section EXCEPT ![p] = c]
            /\ c.at = "mark" => section[p].at = "mark" /\ c.code = section[p].code
            /\ c.at = "enable" => section[p].at = "enable"
<1> DEFINE s == section[p]
           Fits(c) == /\ section' = [section EXCEPT ![p] = c]
                      /\ c.at = "mark" => s.at = "mark" /\ c.code = s.code
                      /\ c.at = "enable" => s.at = "enable"
<1>1. s \in SectionState /\ section \in [ProfileTab -> SectionState]
  BY DEF IInv, TypeOK
<1>2. ASSUME NEW at \in {"setup", "activate", "disable"}, NEW code \in Code, Ask(p, at, code)
      PROVE  \E c \in SectionState : Fits(c)
  <2> DEFINE c == [s EXCEPT !.at = at, !.code = code]
  <2>1. section' = [section EXCEPT ![p] = c]
    BY <1>1, <1>2 DEF Ask
  <2>2. c \in SectionState /\ c.at = at
    BY <1>1 DEF SectionState
  <2> HIDE DEF c, s
  <2> QED
    BY <2>1, <2>2
<1>3. ASSUME SectionAnswer(p) PROVE \E c \in SectionState : Fits(c)
  <2> DEFINE told == [s EXCEPT !.at = "none", !.reply = "none", !.code = NoCode]
  <2>1. told \in SectionState /\ told.at = "none"
    BY <1>1, CodeTypes DEF SectionState
  <2>2. PICK c \in {[told EXCEPT !.step = "setup"], [told EXCEPT !.step = "activated"], told} :
          section' = [section EXCEPT ![p] = c]
    BY <1>3 DEF SectionAnswer
  <2> HIDE DEF told, s
  <2>3. c \in SectionState /\ c.at = "none"
    BY <2>1, <2>2 DEF SectionState
  <2> QED
    BY <2>2, <2>3
<1>4. ASSUME MeArrives(p) PROVE \E c \in SectionState : Fits(c)
  <2> DEFINE on == totp # None /\ totp.enabled
             c == [s EXCEPT !.enabled = on]
  <2>1. section' = [section EXCEPT ![p] = c]
    BY <1>1, <1>4 DEF MeArrives
  <2>2. on \in BOOLEAN
    BY DEF IInv, TypeOK, Row
  <2> HIDE DEF on
  <2>3. c \in SectionState /\ c.at = s.at /\ c.code = s.code
    BY <1>1, <2>2 DEF SectionState
  <2> HIDE DEF c, s
  <2> QED
    BY <2>1, <2>3
<1>5. ASSUME Remount(p) PROVE \E c \in SectionState : Fits(c)
  <2>1. section' = [section EXCEPT ![p] = NewSection(s.enabled)]
    BY <1>5 DEF Remount
  <2>2. s.enabled \in BOOLEAN
    BY <1>1 DEF SectionState
  <2> HIDE DEF s
  <2> QED
    BY <2>1, <2>2, NewTypes
<1>6. Typed \subseteq Code /\ NoCode \in Code
  BY CodeTypes DEF Typed
<1>7. \E c \in SectionState : Fits(c)
  BY <1>2, <1>3, <1>4, <1>5, <1>6
  DEF TwoFactorSection, handleSetup, handleActivate, handleDisable
<1> QED
  BY <1>7

LEMMA SectionInv ==
  ASSUME IInv, NEW p \in ProfileTab, TwoFactorSection(p)
  PROVE  IInv'
<1>1. UNCHANGED <<server, login, history>>
  BY DEF TwoFactorSection, handleSetup, handleActivate, handleDisable, Ask, SectionAnswer,
         MeArrives, Remount
<1>2. PICK c \in SectionState :
        /\ section' = [section EXCEPT ![p] = c]
        /\ c.at = "mark" => section[p].at = "mark" /\ c.code = section[p].code
        /\ c.at = "enable" => section[p].at = "enable"
  BY SectionStep
<1>3. TypeOK' /\ RecoveryCodeOnce'
  BY <1>1, <1>2 DEF IInv, TypeOK, RecoveryCodeOnce, server, history
<1>4. KeepsHolds /\ \A q \in ProfileTab : section'[q].at = "enable" => section[q].at = "enable"
  BY <1>1, <1>2 DEF IInv, TypeOK, KeepsHolds, server, history
<1> QED
  BY <1>1, <1>3, <1>4, HoldsKept, EnrolmentKept DEF IInv, server, history
-----------------------------------------------------------------------------
(* What a statement of a profile page's request leaves in its record. *)
LEMMA Moved ==
  ASSUME IInv, NEW p \in ProfileTab,
         NEW at \in {"enable", "mark", "delete"},
         section' = [section EXCEPT ![p].at = at]
  PROVE  /\ section' \in [ProfileTab -> SectionState]
         /\ section'[p].at = at /\ section'[p].code = section[p].code
         /\ \A q \in ProfileTab \ {p} : section'[q] = section[q]
<1>1. section[p] \in SectionState /\ section \in [ProfileTab -> SectionState]
  BY DEF IInv, TypeOK
<1> DEFINE c == [section[p] EXCEPT !.at = at]
<1>2. section' = [section EXCEPT ![p] = c]
  BY <1>1
<1>3. c \in SectionState /\ c.at = at /\ c.code = section[p].code
  BY <1>1 DEF SectionState
<1> HIDE DEF c
<1> QED
  BY <1>1, <1>2, <1>3

LEMMA Answers ==
  ASSUME IInv, NEW p \in ProfileTab,
         NEW reply \in {"setup", "activated", "disabled", "error"},
         section' = [section EXCEPT ![p].at = "reply", ![p].reply = reply]
  PROVE  /\ section' \in [ProfileTab -> SectionState]
         /\ section'[p].at = "reply"
         /\ \A q \in ProfileTab \ {p} : section'[q] = section[q]
<1>1. section[p] \in SectionState /\ section \in [ProfileTab -> SectionState]
  BY DEF IInv, TypeOK
<1> DEFINE c == [section[p] EXCEPT !.at = "reply", !.reply = reply]
<1>2. section' = [section EXCEPT ![p] = c]
  BY <1>1
<1>3. c \in SectionState /\ c.at = "reply"
  BY <1>1 DEF SectionState
<1> HIDE DEF c
<1> QED
  BY <1>1, <1>2, <1>3

LEMMA SetupInv ==
  ASSUME IInv, NEW p \in ProfileTab, SetupTotp(p)
  PROVE  IInv'
<1>1. /\ section' \in [ProfileTab -> SectionState]
      /\ section'[p].at = "reply"
      /\ \A q \in ProfileTab \ {p} : section'[q] = section[q]
  BY Answers DEF SetupTotp
<1>2. /\ made' \in 0 .. MaxSecret
      /\ totp' \in Row /\ totp' # None /\ totp'.enabled = FALSE
  <2>1. made' = made + 1 /\ made + 1 \in Secret /\ made + 1 \in 0 .. MaxSecret
    BY TwoFactorAssumption DEF SetupTotp, IInv, TypeOK, Secret
  <2>2. totp' = [secret |-> made + 1, enabled |-> FALSE]
    BY DEF SetupTotp, NewRow
  <2>3. totp' \in Row /\ totp'.enabled = FALSE
    BY <2>1, <2>2 DEF Row
  <2> QED
    BY <2>1, <2>3, TwoFactorAssumption
<1>3. UNCHANGED <<codes, fails, purging, login, proven, spent, twice, shared, taken>>
  BY DEF SetupTotp
<1>4. swapped' = (swapped \/ \E q \in ProfileTab : section[q].at = "enable")
  BY DEF SetupTotp
<1>5. TypeOK' /\ RecoveryCodeOnce'
  <2>1. swapped' \in BOOLEAN
    BY <1>4
  <2> QED
    BY <1>1, <1>2, <1>3, <2>1 DEF IInv, TypeOK, RecoveryCodeOnce
<1>6. KeepsHolds
  BY <1>1, <1>3 DEF KeepsHolds
<1>7. EnablingProven'
  BY <1>1, <1>4 DEF EnablingProven
<1>8. EnabledMeansProven' /\ OneSet' /\ PurgingInv' /\ HasCodes'
  BY <1>2, <1>3 DEF IInv, EnabledMeansProven, OneSet, PurgingInv, HasCodes, There
<1> QED
  BY <1>5, <1>6, <1>7, <1>8, HoldsKept DEF IInv

LEMMA ActivateCheckInv ==
  ASSUME IInv, NEW p \in ProfileTab, ActivateCheck(p)
  PROVE  IInv'
<1>1. UNCHANGED <<server, login, spent, twice, swapped, shared, taken>>
  BY DEF ActivateCheck
<1>2. CASE Valid(section[p].code)
  <2>1. /\ section' = [section EXCEPT ![p].at = "enable"]
        /\ proven' = proven \cup {totp.secret} /\ totp # None
    BY <1>2 DEF ActivateCheck, Valid
  <2>2. /\ section' \in [ProfileTab -> SectionState]
        /\ section'[p].at = "enable"
        /\ \A q \in ProfileTab \ {p} : section'[q] = section[q]
    BY <2>1, Moved
  <2>3. TypeOK' /\ RecoveryCodeOnce'
    BY <1>1, <2>1, <2>2 DEF IInv, TypeOK, RecoveryCodeOnce, server, Row
  <2>4. KeepsHolds
    BY <1>1, <2>2 DEF KeepsHolds, server
  <2>5. EnablingProven' /\ EnabledMeansProven' /\ OneSet' /\ PurgingInv' /\ HasCodes'
    BY <1>1, <2>1
    DEF IInv, EnablingProven, EnabledMeansProven, OneSet, PurgingInv, HasCodes, There, server
  <2> QED
    BY <2>3, <2>4, <2>5, HoldsKept DEF IInv
<1>3. CASE ~Valid(section[p].code)
  <2>1. /\ section' = [section EXCEPT ![p].at = "reply", ![p].reply = "error"]
        /\ proven' = proven
    BY <1>3 DEF ActivateCheck, Refuse
  <2>2. /\ section' \in [ProfileTab -> SectionState]
        /\ section'[p].at = "reply"
        /\ \A q \in ProfileTab \ {p} : section'[q] = section[q]
    BY <2>1, Answers
  <2>3. TypeOK' /\ RecoveryCodeOnce'
    BY <1>1, <2>1, <2>2 DEF IInv, TypeOK, RecoveryCodeOnce, server
  <2>4. KeepsHolds /\ \A q \in ProfileTab : section'[q].at = "enable" => section[q].at = "enable"
    BY <1>1, <2>2 DEF KeepsHolds, server
  <2> QED
    BY <1>1, <2>1, <2>3, <2>4, HoldsKept, EnrolmentKept DEF IInv, server
<1> QED
  BY <1>2, <1>3

LEMMA ActivateTxInv ==
  ASSUME IInv, NEW p \in ProfileTab, NEW g \in Gen, ActivateTx(p, g)
  PROVE  IInv'
<1>1. /\ section' \in [ProfileTab -> SectionState]
      /\ section'[p].at = "reply"
      /\ \A q \in ProfileTab \ {p} : section'[q] = section[q]
  BY Answers DEF ActivateTx
<1>2. /\ totp = None => totp' = None
      /\ totp # None => totp' \in Row /\ totp'.secret = totp.secret
  BY DEF ActivateTx, IInv, TypeOK, Row
<1>3. /\ UNCHANGED <<made, fails, purging, login, proven, spent, twice, swapped, shared>>
      /\ taken' = (taken \/ purging)
      /\ codes[g] = "none"
      /\ section[p].at = "enable"
  BY DEF ActivateTx
<1>4. /\ codes' \in [Gen -> CodeState]
      /\ codes'[g] = "unused"
      /\ \A h \in Gen \ {g} : codes'[h] = IF codes[h] = "none" THEN "none" ELSE "gone"
  BY DEF ActivateTx, Recoded, CodeState
<1>5. TypeOK' /\ RecoveryCodeOnce'
  <2>1. taken' \in BOOLEAN
    BY <1>3
  <2> QED
    BY <1>1, <1>2, <1>3, <1>4, <2>1 DEF IInv, TypeOK, RecoveryCodeOnce
<1>6. KeepsHolds
  BY <1>1, <1>3, <1>4 DEF KeepsHolds
<1>7. EnablingProven' /\ EnabledMeansProven'
  <2>1. totp' # None => totp # None /\ totp'.secret = totp.secret
    BY <1>2
  <2>2. totp # None => totp.secret \in proven \/ swapped
    BY <1>3 DEF IInv, EnablingProven
  <2> QED
    BY <1>3, <2>1, <2>2 DEF EnablingProven, EnabledMeansProven
<1>8. OneSet' /\ HasCodes'
  BY <1>4 DEF OneSet, HasCodes, There
<1>9. PurgingInv'
  BY <1>3 DEF PurgingInv
<1> QED
  BY <1>5, <1>6, <1>7, <1>8, <1>9, HoldsKept DEF IInv
-----------------------------------------------------------------------------
LEMMA DisableCheckInv ==
  ASSUME IInv, NEW p \in ProfileTab, DisableCheck(p)
  PROVE  IInv'
<1>1. /\ UNCHANGED <<server, login, proven, spent, twice, swapped, taken>>
      /\ section[p].at = "disable"
  BY DEF DisableCheck
<1>2. CASE /\ \/ section' = [section EXCEPT ![p].at = "reply", ![p].reply = "disabled"]
              \/ section' = [section EXCEPT ![p].at = "reply", ![p].reply = "error"]
              \/ section' = [section EXCEPT ![p].at = "delete"]
           /\ UNCHANGED shared
  <2>1. /\ section' \in [ProfileTab -> SectionState]
        /\ section'[p].at \in {"reply", "delete"}
        /\ \A q \in ProfileTab \ {p} : section'[q] = section[q]
    BY <1>2, Answers, Moved
  <2>2. TypeOK' /\ RecoveryCodeOnce'
    BY <1>1, <1>2, <2>1 DEF IInv, TypeOK, RecoveryCodeOnce, server
  <2>3. KeepsHolds /\ \A q \in ProfileTab : section'[q].at = "enable" => section[q].at = "enable"
    BY <1>1, <1>2, <2>1 DEF KeepsHolds, server
  <2> QED
    BY <1>1, <2>2, <2>3, HoldsKept, EnrolmentKept DEF IInv, server
<1>3. CASE /\ Unused(section[p].code)
           /\ section' = [section EXCEPT ![p].at = "mark"]
           /\ Share(section[p].code[2])
  <2>1. /\ section' \in [ProfileTab -> SectionState]
        /\ section'[p].at = "mark" /\ section'[p].code = section[p].code
        /\ \A q \in ProfileTab \ {p} : section'[q] = section[q]
    BY <1>3, Moved
  <2>2. section[p].code \in Code
    BY DEF IInv, TypeOK, SectionState
  <2>3. PICK g : g = section[p].code[2]
    OBVIOUS
  <2>4. /\ section[p].code \in RecoveryCode /\ g \in Gen /\ codes[g] = "unused" /\ g \notin spent
        /\ shared' \in SUBSET Gen /\ shared \subseteq shared'
        /\ \/ g \in shared'
           \/ /\ \A q \in LoginTab : ~LoginHolds(q, g)
              /\ \A q \in ProfileTab : ~SectionHolds(q, g)
    BY <1>3, <2>2, <2>3, FoundUnused
  <2>5. TypeOK' /\ RecoveryCodeOnce'
    BY <1>1, <2>1, <2>4 DEF IInv, TypeOK, RecoveryCodeOnce, server
  <2>6. /\ \A h \in Gen : SectionHolds(p, h)' => h = g
        /\ \A q \in ProfileTab \ {p}, h \in Gen : SectionHolds(q, h)' <=> SectionHolds(q, h)
        /\ \A q \in LoginTab, h \in Gen : LoginHolds(q, h)' <=> LoginHolds(q, h)
    BY <1>1, <2>1, <2>3 DEF LoginHolds, SectionHolds
  <2>7. MarkInv'
    BY <1>1, <2>1, <2>3, <2>4 DEF IInv, MarkInv, server
  <2>8. HeldTwice'
    BY <2>4, <2>6 DEF IInv, HeldTwice
  <2>9. HeldUsed' /\ SpentInv'
    BY <1>1, <2>4, <2>6 DEF IInv, HeldUsed, SpentInv, server
  <2>10. \A q \in ProfileTab : section'[q].at = "enable" => section[q].at = "enable"
    BY <2>1
  <2> QED
    BY <1>1, <2>5, <2>7, <2>8, <2>9, <2>10, EnrolmentKept DEF IInv, server
<1> QED
  BY <1>2, <1>3 DEF DisableCheck, Refuse

LEMMA DisableMarkInv ==
  ASSUME IInv, NEW p \in ProfileTab, DisableMark(p)
  PROVE  IInv'
<1>0. PICK g \in Gen : g = section[p].code[2]
  BY CodeTypes DEF DisableMark, IInv, MarkInv
<1>w. PICK written \in BOOLEAN : MarkUsed(section[p].code[2], written)
  BY DEF DisableMark
<1>1. /\ section[p].at = "mark" /\ MarkUsed(g, written)
      /\ UNCHANGED <<totp, made, fails, purging, login, proven, swapped, shared, taken>>
  BY <1>0, <1>w DEF DisableMark
<1>2. /\ section' \in [ProfileTab -> SectionState]
      /\ section'[p].at = "delete"
      /\ \A q \in ProfileTab \ {p} : section'[q] = section[q]
  BY Moved DEF DisableMark
<1>3. codes[g] # "none" /\ SectionHolds(p, g)
  BY <1>0, <1>1 DEF IInv, MarkInv, SectionHolds
<1>4. g \in spent => g \in shared
  BY <1>3 DEF IInv, HeldUsed
<1>5. \/ g \in shared
      \/ /\ \A q \in LoginTab : ~LoginHolds(q, g)'
         /\ \A q \in ProfileTab : ~SectionHolds(q, g)'
  <2>1. \A q \in ProfileTab : SectionHolds(q, g)' => q # p /\ SectionHolds(q, g)
    BY <1>2 DEF SectionHolds
  <2>2. \A q \in LoginTab : LoginHolds(q, g)' => LoginHolds(q, g)
    BY <1>1 DEF LoginHolds
  <2> QED
    BY <1>3, <2>1, <2>2 DEF IInv, HeldTwice
<1>6. /\ \A q \in LoginTab : login'[q].at = "mark" => login'[q] = login[q]
      /\ \A q \in ProfileTab : section'[q].at = "mark" => section'[q] = section[q]
      /\ \A q \in ProfileTab : section'[q].at = "enable" => section[q].at = "enable"
  BY <1>1, <1>2
<1>7. /\ codes' \in [Gen -> CodeState]
      /\ spent' \in SUBSET Gen /\ twice' \in SUBSET Gen
      /\ MarkInv' /\ HeldTwice' /\ SpentInv' /\ HeldUsed' /\ RecoveryCodeOnce'
      /\ EnablingProven' /\ EnabledMeansProven' /\ OneSet' /\ PurgingInv' /\ HasCodes'
  BY <1>1, <1>3, <1>4, <1>5, <1>6, MarkUsedInv
<1>8. TypeOK'
  BY <1>1, <1>2, <1>7 DEF IInv, TypeOK
<1> QED
  BY <1>7, <1>8 DEF IInv

LEMMA StatementFailsInv ==
  ASSUME IInv, NEW p \in ProfileTab, StatementFails(p)
  PROVE  IInv'
<1>1. /\ UNCHANGED <<server, login, history>>
      /\ section' = [section EXCEPT ![p].at = "reply", ![p].reply = "error"]
  BY DEF StatementFails, Refuse
<1>2. /\ section' \in [ProfileTab -> SectionState]
      /\ section'[p].at = "reply"
      /\ \A q \in ProfileTab \ {p} : section'[q] = section[q]
  BY <1>1, Answers
<1>3. TypeOK' /\ RecoveryCodeOnce'
  BY <1>1, <1>2 DEF IInv, TypeOK, RecoveryCodeOnce, server, history
<1>4. KeepsHolds /\ \A q \in ProfileTab : section'[q].at = "enable" => section[q].at = "enable"
  BY <1>1, <1>2 DEF KeepsHolds, server, history
<1> QED
  BY <1>1, <1>3, <1>4, HoldsKept, EnrolmentKept DEF IInv, server, history

LEMMA DroppedIs ==
  ASSUME IInv, codes' = Dropped \/ codes' = codes
  PROVE  /\ codes' \in [Gen -> CodeState]
         /\ \A g \in Gen : /\ codes[g] \in {"used", "gone"} => codes'[g] \in {"used", "gone"}
                           /\ codes'[g] = "none" => codes[g] = "none"
                           /\ There(g)' => There(g)
  BY DEF Dropped, IInv, TypeOK, CodeState, There

LEMMA DisableTxInv ==
  ASSUME IInv, NEW p \in ProfileTab, DisableTx(p)
  PROVE  IInv'
<1>1. /\ section' \in [ProfileTab -> SectionState]
      /\ section'[p].at = "reply"
      /\ \A q \in ProfileTab \ {p} : section'[q] = section[q]
  BY Answers DEF DisableTx
<1>2. /\ UNCHANGED <<made, fails, purging, login, history>>
      /\ totp' = None /\ codes' = Dropped
  BY DEF DisableTx, Deleted
<1>3. TypeOK' /\ RecoveryCodeOnce'
  BY <1>1, <1>2, DroppedIs DEF IInv, TypeOK, RecoveryCodeOnce, history
<1>4. KeepsHolds
  BY <1>1, <1>2, DroppedIs DEF KeepsHolds, history
<1>5. EnablingProven' /\ EnabledMeansProven' /\ OneSet' /\ PurgingInv' /\ HasCodes'
  BY <1>2, DroppedIs DEF IInv, EnablingProven, EnabledMeansProven, OneSet, PurgingInv, HasCodes
<1> QED
  BY <1>3, <1>4, <1>5, HoldsKept DEF IInv

LEMMA DisableUserInv ==
  ASSUME IInv, DisableUserTotp
  PROVE  IInv'
<1>1. UNCHANGED <<made, fails, login, section, history>>
  BY DEF DisableUserTotp, DisableUserRow, DisableUserCodes
<1>2. /\ codes' = Dropped \/ codes' = codes
      /\ \/ totp' = None /\ purging' = TRUE /\ codes' = codes
         \/ purging /\ totp' = totp /\ purging' = FALSE
  BY DEF DisableUserTotp, DisableUserRow, DisableUserCodes, Deleted
<1>3. TypeOK' /\ RecoveryCodeOnce'
  <2>1. purging' \in BOOLEAN
    BY <1>2
  <2> QED
    BY <1>1, <1>2, <2>1, DroppedIs DEF IInv, TypeOK, RecoveryCodeOnce, history
<1>4. KeepsHolds
  BY <1>1, <1>2, DroppedIs DEF KeepsHolds, history
<1>5. EnablingProven' /\ EnabledMeansProven' /\ OneSet' /\ PurgingInv' /\ HasCodes'
  BY <1>1, <1>2, DroppedIs
  DEF IInv, EnablingProven, EnabledMeansProven, OneSet, PurgingInv, HasCodes, history
<1> QED
  BY <1>3, <1>4, <1>5, HoldsKept DEF IInv

-----------------------------------------------------------------------------
LEMMA InvNext == IInv /\ [Next]_vars => IInv'
<1> SUFFICES ASSUME IInv, [Next]_vars PROVE IInv'
  OBVIOUS
<1>1. ASSUME NEW p \in LoginTab, LoginPage(p) \/ Login(p) PROVE IInv'
  BY <1>1, LoginPageInv, LoginGuardInv, LoginCheckInv, LoginMarkInv DEF Login
<1>2. ASSUME NEW p \in ProfileTab, TwoFactorSection(p) \/ SetupTotp(p) PROVE IInv'
  BY <1>2, SectionInv, SetupInv
<1>3. ASSUME NEW p \in ProfileTab, ActivateTotp(p) PROVE IInv'
  BY <1>3, ActivateCheckInv, ActivateTxInv DEF ActivateTotp
<1>4. ASSUME NEW p \in ProfileTab, DisableTotp(p) \/ StatementFails(p) PROVE IInv'
  BY <1>4, StatementFailsInv, DisableCheckInv, DisableMarkInv, DisableTxInv DEF DisableTotp
<1>5. CASE UNCHANGED vars
  BY <1>5 DEF vars, IInv, TypeOK, MarkInv, HeldTwice, SpentInv, HeldUsed, LoginHolds, SectionHolds,
              RecoveryCodeOnce, EnablingProven, EnabledMeansProven, OneSet, There, PurgingInv,
              HasCodes
<1> QED
  BY <1>1, <1>2, <1>3, <1>4, <1>5, DisableUserInv, WindowEndsInv DEF Next

(* Every reachable state satisfies the inductive invariant. *)
THEOREM TwoFactorInvariant == Spec => []IInv
  BY InitInv, InvNext, PTL DEF Spec

(* In every reachable state every variable of the pages and of the server   *)
(* has its type.                                                            *)
THEOREM TwoFactorType == Spec => []TypeOK
<1>1. IInv => TypeOK
  BY DEF IInv
<1> QED
  BY <1>1, TwoFactorInvariant, PTL

(* However many pages set up, activate and disable at once, an enabled      *)
(* secret is one of which ActivateTotp saw a code, unless SetupTotp wrote   *)
(* between the two statements of an activation.                             *)
THEOREM EnabledIsProven == Spec => []EnabledMeansProven
<1>1. IInv => EnabledMeansProven
  BY DEF IInv
<1> QED
  BY <1>1, TwoFactorInvariant, PTL

(* Once a recovery code that no two requests hold at the same time is       *)
(* marked for opening the door it does not open it again, whichever of      *)
(* Login and DisableTotp it is used for and however many marks fail.        *)
THEOREM CodesUsedOnce == Spec => []RecoveryCodeOnce
<1>1. IInv => RecoveryCodeOnce
  BY DEF IInv
<1> QED
  BY <1>1, TwoFactorInvariant, PTL

(* The recovery codes of two activations are never there together, and who  *)
(* has two-factor enabled has some, unless an activation ran inside a       *)
(* DisableUserTotp.                                                         *)
THEOREM CodesOfOneActivation == Spec => []EnabledHasCodes
<1>1. IInv => EnabledHasCodes
  <2> SUFFICES ASSUME IInv PROVE EnabledHasCodes
    OBVIOUS
  <2> DEFINE there == {g \in Gen : codes[g] \in {"unused", "used"}}
  <2>1. \A g, h \in there : g = h
    BY DEF IInv, OneSet, There
  <2>2. totp # None /\ totp.enabled /\ ~taken => there # {}
    BY DEF IInv, HasCodes, There
  <2>3. there = {} \/ \E g : there = {g}
    BY <2>1
  <2> HIDE DEF there
  <2>4. Cardinality(there) <= 1
    <3>1. CASE there = {}
      <4>1. Cardinality({}) = 0
        BY FS_EmptySet
      <4> QED
        BY <3>1, <4>1
    <3>2. CASE there # {}
      <4>1. PICK g : there = {g}
        BY <2>3, <3>2
      <4>2. Cardinality({g}) = 1
        BY FS_Singleton
      <4> QED
        BY <4>1, <4>2
    <3> QED
      BY <3>1, <3>2
  <2> USE DEF there
  <2> QED
    BY <2>2, <2>4 DEF EnabledHasCodes
<1> QED
  BY <1>1, TwoFactorInvariant, PTL
=============================================================================
