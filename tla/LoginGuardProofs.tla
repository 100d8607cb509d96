-------------------------- MODULE LoginGuardProofs --------------------------
(***************************************************************************)
(* Proofs about LoginGuard, for every finite number of requests, any        *)
(* captchas and any thresholds: what a window can be made to look at.       *)
(***************************************************************************)
EXTENDS LoginGuard, FiniteSetTheorems, TLAPS

(* The failures the checks count now. *)
Failed == IF current(0) THEN attempt.fails ELSE 0

(* Requests past the first check that may still look at credentials, or     *)
(* have and still have to count it.                                         *)
Busy == {r \in Req : req[r].pc \in {"unlocked", "captcha", "clear", "verify", "fail", "anchor"}}

(* Those that have looked in this window: one whose time.Now() lies before  *)
(* the end of a row that has ended since has looked in the window before.   *)
Uncounted ==
  {r \in Req : req[r].pc \in {"fail", "anchor"} /\ (current(0) \/ ~current(req[r].age))}

(* Those about to look without having solved a captcha. *)
Naked == {r \in Req : At(r, "verify") /\ req[r].cap = None}

CapInv == \A r \in Req : At(r, "clear") => req[r].cap # None

(* Every look is counted in the row or still to be counted, ... *)
CountInv ==
  ~weak => /\ unbacked <= checked
           /\ checked <= Failed + Cardinality(Uncounted)

(* ... once the key is locked nobody joins those that are past the check,   *)
(* ...                                                                      *)
LockInv ==
  ~weak /\ Failed >= LockThreshold =>
    Failed + Cardinality(Busy) <= LockThreshold + Cardinality(Req) - 1

(* ... and once a captcha is asked for, nobody those that have none. *)
NakedInv ==
  ~weak /\ Failed >= CaptchaThreshold =>
    unbacked + Cardinality(Naked) <= CaptchaThreshold + Cardinality(Req) - 1

(* The requests that have read captcha c and are about to delete it. *)
Clearing(c) == {r \in Req : At(r, "clear") /\ req[r].cap = c}

PassInv ==
  \A c \in Captcha :
    /\ passes[c] > 0 => captcha[c] # "live"
    /\ passes[c] + Cardinality(Clearing(c)) <= Cardinality(Req)

IInv ==
  /\ TypeOK
  /\ CapInv
  /\ CountInv
  /\ LockInv
  /\ NakedInv
  /\ PassInv
-----------------------------------------------------------------------------
(* Counting requests. *)
LEMMA Requests ==
  ASSUME NEW S \in SUBSET Req
  PROVE  IsFiniteSet(S) /\ Cardinality(S) \in Nat /\ Cardinality(S) <= Cardinality(Req)
  BY LoginGuardAssumption, FS_Subset, FS_CardinalityType

LEMMA Fewer ==
  ASSUME NEW S \in SUBSET Req, NEW T \in SUBSET S
  PROVE  Cardinality(T) <= Cardinality(S)
  BY Requests, FS_Subset

LEMMA OneLess ==
  ASSUME NEW S \in SUBSET Req, NEW T \in SUBSET S, NEW r \in S, r \notin T
  PROVE  Cardinality(T) + 1 <= Cardinality(S)
<1>1. IsFiniteSet(S) /\ Cardinality(S) \in Nat
  BY Requests
<1>2. Cardinality(S \ {r}) = Cardinality(S) - 1
  BY <1>1, FS_RemoveElement
<1>3. T \in SUBSET (S \ {r}) /\ S \ {r} \in SUBSET Req
  OBVIOUS
<1>4. Cardinality(T) \in Nat /\ Cardinality(T) <= Cardinality(S \ {r})
  BY <1>3, Fewer, Requests
<1> QED
  BY <1>1, <1>2, <1>4

LEMMA OneMore ==
  ASSUME NEW S \in SUBSET Req, NEW T \in SUBSET Req, NEW r \in Req, S \subseteq T \cup {r}
  PROVE  Cardinality(S) <= Cardinality(T) + 1
<1>1. IsFiniteSet(T) /\ Cardinality(T) \in Nat /\ Cardinality(S) \in Nat
  BY Requests
<1>2. Cardinality(T \cup {r}) <= Cardinality(T) + 1
  <2>1. Cardinality(T \cup {r}) = IF r \in T THEN Cardinality(T) ELSE Cardinality(T) + 1
    BY <1>1, FS_AddElement
  <2> QED
    BY <1>1, <2>1
<1>3. T \cup {r} \in SUBSET Req
  OBVIOUS
<1>4. Cardinality(S) <= Cardinality(T \cup {r}) /\ Cardinality(T \cup {r}) \in Nat
  BY <1>3, Fewer, Requests
<1> QED
  BY <1>1, <1>2, <1>4

LEMMA Apart ==
  ASSUME NEW S \in SUBSET Req, NEW T \in SUBSET Req, S \cap T = {},
         NEW r \in Req, r \notin S, r \notin T
  PROVE  Cardinality(S) + Cardinality(T) + 1 <= Cardinality(Req)
<1>1. /\ IsFiniteSet(S) /\ Cardinality(S) \in Nat
      /\ IsFiniteSet(T) /\ Cardinality(T) \in Nat
      /\ Cardinality(Req) \in Nat
  BY Requests
<1>2. Cardinality({}) = 0
  BY FS_EmptySet
<1>3. Cardinality(S \cup T) = Cardinality(S) + Cardinality(T)
  <2>1. Cardinality(S \cup T) = Cardinality(S) + Cardinality(T) - Cardinality(S \cap T)
    BY <1>1, FS_Union
  <2>2. Cardinality(S \cap T) = 0
    BY <1>2
  <2> QED
    BY <1>1, <2>1, <2>2
<1>4. Cardinality(S \cup T) + 1 <= Cardinality(Req)
  BY OneLess
<1> QED
  BY <1>1, <1>3, <1>4

LEMMA Sets ==
  /\ Uncounted \in SUBSET Busy /\ Naked \in SUBSET Busy
  /\ Uncounted \cap Naked = {}
  /\ Busy \in SUBSET Req /\ Uncounted \in SUBSET Req /\ Naked \in SUBSET Req
  /\ Cardinality(Busy) \in Nat /\ Cardinality(Uncounted) \in Nat /\ Cardinality(Naked) \in Nat
  /\ Cardinality(Req) \in Nat
<1>1. /\ Uncounted \in SUBSET Busy /\ Naked \in SUBSET Busy
      /\ Uncounted \cap Naked = {}
      /\ Busy \in SUBSET Req /\ Uncounted \in SUBSET Req /\ Naked \in SUBSET Req
  BY DEF Busy, Uncounted, Naked, At
<1> QED
  BY <1>1, Requests

LEMMA FailedType ==
  ASSUME TypeOK
  PROVE  Failed \in Nat /\ checked \in Nat /\ unbacked \in Nat
  BY NoneAssumption DEF Failed, current, TypeOK, Attempt

(* What the guard knows of a window. *)
WindowInv == CountInv /\ LockInv /\ NakedInv

(* A window nobody follows, or a new one. *)
LEMMA Weakened ==
  ASSUME weak' = TRUE
  PROVE  WindowInv'
  BY DEF WindowInv, CountInv, LockInv, NakedInv

LEMMA Renewed ==
  ASSUME Failed' = 0, checked' = 0, unbacked' = 0
  PROVE  WindowInv'
<1>1. Cardinality(Uncounted') \in Nat
  BY Requests DEF Uncounted
<1> QED
  BY <1>1, LoginGuardAssumption DEF WindowInv, CountInv, LockInv, NakedInv

(* Nobody looks and nobody counts; nobody passes a check that holds.        *)
LEMMA Quiet ==
  ASSUME IInv, TypeOK', UNCHANGED <<checked, unbacked, weak>>,
         Failed' = Failed,
         Uncounted \subseteq Uncounted',
         Busy' \subseteq Busy \/ Failed < LockThreshold,
         Naked' \subseteq Naked \/ Failed < CaptchaThreshold
  PROVE  WindowInv'
<1>1. /\ Busy \in SUBSET Req /\ Uncounted' \in SUBSET Req /\ Naked \in SUBSET Req
      /\ Cardinality(Busy) \in Nat /\ Cardinality(Uncounted) \in Nat /\ Cardinality(Naked) \in Nat
      /\ Cardinality(Busy') \in Nat /\ Cardinality(Uncounted') \in Nat /\ Cardinality(Naked') \in Nat
      /\ Cardinality(Req) \in Nat
  BY Sets, Requests DEF Busy, Uncounted, Naked
<1>2. /\ Failed \in Nat /\ checked \in Nat /\ unbacked \in Nat
      /\ CaptchaThreshold \in Nat /\ LockThreshold \in Nat
  BY FailedType, LoginGuardAssumption DEF IInv
<1>3. CountInv'
  <2>1. Cardinality(Uncounted) <= Cardinality(Uncounted')
    BY <1>1, Fewer
  <2> QED
    BY <1>1, <1>2, <2>1 DEF IInv, CountInv
<1>4. LockInv'
  <2>1. Busy' \subseteq Busy => Cardinality(Busy') <= Cardinality(Busy)
    BY <1>1, Fewer
  <2> QED
    BY <1>1, <1>2, <2>1 DEF IInv, LockInv
<1>5. NakedInv'
  <2>1. Naked' \subseteq Naked => Cardinality(Naked') <= Cardinality(Naked)
    BY <1>1, Fewer
  <2> QED
    BY <1>1, <1>2, <2>1 DEF IInv, NakedInv
<1> QED
  BY <1>3, <1>4, <1>5 DEF WindowInv

(* A request that has looked is counted, and done. *)
LEMMA Counted ==
  ASSUME IInv, TypeOK', UNCHANGED <<checked, unbacked, weak>>,
         NEW r \in Busy, Failed' = Failed + 1,
         Busy' \subseteq Busy \ {r},
         Uncounted \subseteq Uncounted' \cup {r},
         Naked' \subseteq Naked
  PROVE  WindowInv'
<1>1. /\ Busy \in SUBSET Req /\ Busy' \in SUBSET Req /\ r \in Req
      /\ Uncounted \in SUBSET Req /\ Uncounted' \in SUBSET Busy'
      /\ Naked \in SUBSET Req /\ Naked' \in SUBSET Busy'
      /\ Uncounted' \cap Naked' = {}
  BY DEF Busy, Uncounted, Naked, At
<1>2. /\ Cardinality(Busy) \in Nat /\ Cardinality(Uncounted) \in Nat /\ Cardinality(Naked) \in Nat
      /\ Cardinality(Busy') \in Nat /\ Cardinality(Uncounted') \in Nat /\ Cardinality(Naked') \in Nat
      /\ Cardinality(Req) \in Nat
  BY <1>1, Requests
<1>3. /\ Failed \in Nat /\ checked \in Nat /\ unbacked \in Nat
      /\ CaptchaThreshold \in Nat /\ LockThreshold \in Nat
  BY FailedType, LoginGuardAssumption DEF IInv
<1>4. Cardinality(Uncounted) <= Cardinality(Uncounted') + 1
  BY <1>1, OneMore
<1>5. CountInv'
  BY <1>2, <1>3, <1>4 DEF IInv, CountInv
<1>6. Cardinality(Busy') + 1 <= Cardinality(Busy) /\ Cardinality(Busy) <= Cardinality(Req)
  BY <1>1, OneLess, Requests
<1>7. LockInv'
  BY <1>2, <1>3, <1>6 DEF IInv, LockInv
<1>8. Cardinality(Naked') <= Cardinality(Naked)
  BY <1>1, Fewer
<1>9. Cardinality(Uncounted') + Cardinality(Naked') + 1 <= Cardinality(Req)
  BY <1>1, Apart
<1>10. NakedInv'
  BY <1>2, <1>3, <1>5, <1>8, <1>9 DEF IInv, NakedInv, CountInv
<1> QED
  BY <1>5, <1>7, <1>10 DEF WindowInv

(* A request looks at wrong credentials. *)
LEMMA Looked ==
  ASSUME IInv, TypeOK', UNCHANGED <<attempt, weak>>,
         NEW r \in Req, At(r, "verify"),
         ~weak => /\ checked' = checked + 1
                  /\ unbacked' = IF req[r].cap # None THEN unbacked ELSE unbacked + 1,
         Failed' = Failed, Busy' \subseteq Busy,
         r \notin Uncounted, Uncounted \cup {r} \subseteq Uncounted',
         Naked' \subseteq Naked, r \notin Naked'
  PROVE  WindowInv'
<1>1. /\ Busy \in SUBSET Req /\ Busy' \in SUBSET Req
      /\ Uncounted \in SUBSET Req /\ Uncounted' \in SUBSET Req
      /\ Naked \in SUBSET Req /\ Naked' \in SUBSET Req
  BY DEF Busy, Uncounted, Naked, At
<1>2. /\ Cardinality(Busy) \in Nat /\ Cardinality(Uncounted) \in Nat /\ Cardinality(Naked) \in Nat
      /\ Cardinality(Busy') \in Nat /\ Cardinality(Uncounted') \in Nat /\ Cardinality(Naked') \in Nat
      /\ Cardinality(Req) \in Nat
  BY <1>1, Requests
<1>3. /\ Failed \in Nat /\ checked \in Nat /\ unbacked \in Nat
      /\ CaptchaThreshold \in Nat /\ LockThreshold \in Nat
  BY FailedType, LoginGuardAssumption DEF IInv
<1>4. Cardinality(Uncounted) + 1 <= Cardinality(Uncounted')
  BY <1>1, OneLess
<1>5. CountInv'
  BY <1>2, <1>3, <1>4 DEF IInv, CountInv
<1>6. LockInv'
  <2>1. Cardinality(Busy') <= Cardinality(Busy)
    BY <1>1, Fewer
  <2> QED
    BY <1>2, <1>3, <2>1 DEF IInv, LockInv
<1>7. NakedInv'
  <2>1. CASE req[r].cap # None
    <3>1. Cardinality(Naked') <= Cardinality(Naked)
      BY <1>1, Fewer
    <3> QED
      BY <1>2, <1>3, <2>1, <3>1 DEF IInv, NakedInv
  <2>2. CASE req[r].cap = None
    <3>1. r \in Naked
      BY <2>2 DEF Naked
    <3>2. Cardinality(Naked') + 1 <= Cardinality(Naked)
      BY <1>1, <3>1, OneLess
    <3> QED
      BY <1>2, <1>3, <2>2, <3>2 DEF IInv, NakedInv
  <2> QED
    BY <2>1, <2>2
<1> QED
  BY <1>5, <1>6, <1>7 DEF WindowInv

-----------------------------------------------------------------------------
LEMMA IdleType == Idle \in Request
  BY LoginGuardAssumption DEF Idle, Request

LEMMA InitInv == Init => IInv
<1> SUFFICES ASSUME Init PROVE IInv
  OBVIOUS
<1> USE LoginGuardAssumption, NoneAssumption DEF Init
<1>1. TypeOK
  BY IdleType DEF TypeOK
<1>2. Uncounted = {} /\ Failed = 0 /\ \A c \in Captcha : Clearing(c) = {}
  BY DEF Uncounted, Failed, current, Clearing, At, Idle
<1>3. Cardinality({}) = 0
  BY FS_EmptySet
<1>4. CapInv /\ CountInv /\ LockInv /\ NakedInv
  BY <1>2, <1>3 DEF CapInv, CountInv, LockInv, NakedInv, At, Idle
<1>5. PassInv
  BY <1>2, <1>3, Sets DEF PassInv
<1> QED
  BY <1>1, <1>4, <1>5 DEF IInv

(* Nobody reads a captcha, none is used up, none is new. *)
LEMMA PassesKept ==
  ASSUME IInv, UNCHANGED passes,
         \A c \in Captcha : /\ captcha'[c] = "live" => captcha[c] = "live"
                            /\ Clearing(c)' \subseteq Clearing(c)
  PROVE  PassInv'
<1> SUFFICES ASSUME NEW c \in Captcha
             PROVE  /\ passes[c] > 0 => captcha'[c] # "live"
                    /\ passes[c] + Cardinality(Clearing(c)') <= Cardinality(Req)
  BY DEF PassInv
<1>1. /\ Clearing(c) \in SUBSET Req /\ Clearing(c)' \in SUBSET Req
      /\ passes[c] \in Nat
  BY DEF IInv, TypeOK, Clearing
<1>2. /\ Cardinality(Clearing(c)') <= Cardinality(Clearing(c))
      /\ Cardinality(Clearing(c)) \in Nat /\ Cardinality(Clearing(c)') \in Nat
      /\ Cardinality(Req) \in Nat
  BY <1>1, Fewer, Requests
<1> QED
  BY <1>1, <1>2 DEF IInv, PassInv
-----------------------------------------------------------------------------
LEMMA Went ==
  ASSUME TypeOK, NEW r \in Req,
         NEW label \in {"unlocked", "captcha", "clear", "verify", "fail", "anchor", "reset"},
         Goto(r, label)
  PROVE  /\ req' \in [Req -> Request]
         /\ req'[r].pc = label /\ req'[r].cap = req[r].cap /\ req'[r].age = req[r].age
         /\ \A q \in Req \ {r} : req'[q] = req[q]
<1>1. req[r] \in Request /\ req \in [Req -> Request]
  BY DEF TypeOK
<1> DEFINE c == [req[r] EXCEPT !.pc = label]
<1>2. req' = [req EXCEPT ![r] = c]
  BY <1>1 DEF Goto
<1>3. c \in Request /\ c.pc = label /\ c.cap = req[r].cap /\ c.age = req[r].age
  BY <1>1 DEF Request
<1> HIDE DEF c
<1> QED
  BY <1>1, <1>2, <1>3

LEMMA Finished ==
  ASSUME TypeOK, NEW r \in Req, Finish(r)
  PROVE  /\ req' \in [Req -> Request]
         /\ req'[r] = Idle /\ Idle.pc = "idle" /\ Idle.cap = None
         /\ \A q \in Req \ {r} : req'[q] = req[q]
  BY IdleType DEF Finish, TypeOK, Idle

(* Everyone is where they were, but r. *)
LEMMA SetsKept ==
  ASSUME NEW r \in Req, UNCHANGED attempt, \A q \in Req \ {r} : req'[q] = req[q]
  PROVE  /\ Failed' = Failed
         /\ (r \in Busy' => r \in Busy) => Busy' \subseteq Busy
         /\ (r \in Uncounted' => r \in Uncounted) => Uncounted' \subseteq Uncounted
         /\ (r \in Uncounted => r \in Uncounted') => Uncounted \subseteq Uncounted'
         /\ (r \in Naked' => r \in Naked) => Naked' \subseteq Naked
         /\ \A c \in Captcha : (r \in Clearing(c)' => r \in Clearing(c)) =>
                                 Clearing(c)' \subseteq Clearing(c)
<1>1. Failed' = Failed
  BY DEF Failed, current
<1>2. \A q \in Req \ {r} : /\ q \in Busy' <=> q \in Busy
                           /\ q \in Uncounted' <=> q \in Uncounted
                           /\ q \in Naked' <=> q \in Naked
  BY DEF Busy, Uncounted, Naked, current, At
<1>3. \A q \in Req \ {r}, c \in Captcha : q \in Clearing(c)' <=> q \in Clearing(c)
  BY DEF Clearing, At
<1>4. /\ Busy \subseteq Req /\ Busy' \subseteq Req
      /\ Uncounted \subseteq Req /\ Uncounted' \subseteq Req
      /\ Naked \subseteq Req /\ Naked' \subseteq Req
      /\ \A c \in Captcha : Clearing(c)' \subseteq Req
  BY DEF Busy, Uncounted, Naked, Clearing
<1>5. ASSUME NEW c \in Captcha, r \in Clearing(c)' => r \in Clearing(c)
      PROVE  Clearing(c)' \subseteq Clearing(c)
  BY <1>3, <1>4, <1>5
<1> QED
  BY <1>1, <1>2, <1>4, <1>5

LEMMA HistoryType ==
  ASSUME TypeOK, UNCHANGED <<checked, unbacked, weak>> \/ Weaken \/ NewWindow
  PROVE  checked' \in Nat /\ unbacked' \in Nat /\ weak' \in BOOLEAN
<1>1. CASE UNCHANGED <<checked, unbacked, weak>>
  <2>1. checked' \in Nat /\ unbacked' \in Nat
    BY <1>1 DEF TypeOK
  <2>2. weak' \in BOOLEAN
    BY <1>1 DEF TypeOK
  <2> QED
    BY <2>1, <2>2
<1>2. CASE Weaken
  BY <1>2 DEF Weaken
<1>3. CASE NewWindow
  BY <1>3 DEF NewWindow
<1> QED
  BY <1>1, <1>2, <1>3

LEMMA CheckLockedInv ==
  ASSUME IInv, NEW r \in Req, NEW ok \in BOOLEAN, CheckLocked(r, ok)
  PROVE  IInv'
<1> USE DEF IInv
<1>1. /\ req' \in [Req -> Request]
      /\ req'[r].pc = "unlocked"
      /\ \A q \in Req \ {r} : req'[q] = req[q]
  BY Went DEF CheckLocked
<1>2. UNCHANGED <<attempt, captcha, passes>> /\ At(r, "idle")
  BY DEF CheckLocked
<1>3. TypeOK'
  <2>1. UNCHANGED <<checked, unbacked, weak>> \/ Weaken
    BY DEF CheckLocked
  <2> QED
    BY <1>1, <1>2, <2>1, HistoryType DEF TypeOK
<1>4. CapInv'
  BY <1>1 DEF CapInv, At
<1>5. /\ Failed' = Failed
      /\ Uncounted \subseteq Uncounted'
      /\ Naked' \subseteq Naked
      /\ \A c \in Captcha : Clearing(c)' \subseteq Clearing(c)
  <2>1. /\ r \notin Uncounted /\ r \notin Uncounted'
        /\ r \notin Naked /\ r \notin Naked'
        /\ \A c \in Captcha : r \notin Clearing(c) /\ r \notin Clearing(c)'
    BY <1>1, <1>2 DEF Uncounted, Naked, Clearing, At
  <2> QED
    BY <1>1, <1>2, <2>1, SetsKept
<1>6. WindowInv'
  <2>1. CASE ok
    <3>1. Failed < LockThreshold
      BY <2>1, FailedType, LoginGuardAssumption DEF CheckLocked, Locked, Failed
    <3> QED
      BY <1>2, <1>3, <1>5, <2>1, <3>1, Quiet DEF CheckLocked
  <2>2. CASE ~ok
    BY <2>2, Weakened DEF CheckLocked, Weaken
  <2> QED
    BY <2>1, <2>2
<1>7. PassInv'
  BY <1>2, <1>5, PassesKept
<1> QED
  BY <1>3, <1>4, <1>6, <1>7 DEF WindowInv

LEMMA CheckCaptchaInv ==
  ASSUME IInv, NEW r \in Req, NEW ok \in BOOLEAN, CheckCaptcha(r, ok)
  PROVE  IInv'
<1> USE DEF IInv
<1>1. /\ req' \in [Req -> Request]
      /\ req'[r].pc = (IF ok /\ NeedCaptcha THEN "captcha" ELSE "verify")
      /\ \A q \in Req \ {r} : req'[q] = req[q]
  BY Went DEF CheckCaptcha
<1>2. UNCHANGED <<attempt, captcha, passes>> /\ At(r, "unlocked")
  BY DEF CheckCaptcha
<1>3. TypeOK'
  <2>1. UNCHANGED <<checked, unbacked, weak>> \/ Weaken
    BY DEF CheckCaptcha
  <2> QED
    BY <1>1, <1>2, <2>1, HistoryType DEF TypeOK
<1>4. CapInv'
  BY <1>1 DEF CapInv, At
<1>5. /\ Failed' = Failed
      /\ Uncounted \subseteq Uncounted'
      /\ Busy' \subseteq Busy
      /\ ok /\ NeedCaptcha => Naked' \subseteq Naked
      /\ \A c \in Captcha : Clearing(c)' \subseteq Clearing(c)
  <2>1. /\ r \notin Uncounted /\ r \notin Uncounted'
        /\ r \in Busy /\ r \in Busy'
        /\ r \notin Naked /\ (ok /\ NeedCaptcha => r \notin Naked')
        /\ \A c \in Captcha : r \notin Clearing(c) /\ r \notin Clearing(c)'
    BY <1>1, <1>2 DEF Uncounted, Busy, Naked, Clearing, At
  <2> QED
    BY <1>1, <1>2, <2>1, SetsKept
<1>6. WindowInv'
  <2>1. CASE ok
    <3>1. Failed < CaptchaThreshold \/ NeedCaptcha
      BY FailedType, LoginGuardAssumption DEF NeedCaptcha, Failed
    <3> QED
      BY <1>2, <1>3, <1>5, <2>1, <3>1, Quiet DEF CheckCaptcha
  <2>2. CASE ~ok
    BY <2>2, Weakened DEF CheckCaptcha, Weaken
  <2> QED
    BY <2>1, <2>2
<1>7. PassInv'
  BY <1>2, <1>5, PassesKept
<1> QED
  BY <1>3, <1>4, <1>6, <1>7 DEF WindowInv

LEMMA ReadCaptchaInv ==
  ASSUME IInv, NEW r \in Req, NEW c \in Captcha, NEW right \in BOOLEAN, ReadCaptcha(r, c, right)
  PROVE  IInv'
<1> USE DEF IInv
<1>1. /\ req' \in [Req -> Request]
      /\ \/ captcha[c] = "live" /\ req'[r].pc = "clear" /\ req'[r].cap = c
         \/ req'[r].pc = "idle"
      /\ \A q \in Req \ {r} : req'[q] = req[q]
  <2>1. CASE captcha[c] = "live"
    <3> DEFINE x == [req[r] EXCEPT !.pc = "clear", !.cap = c, !.right = right]
    <3>1. req' = [req EXCEPT ![r] = x]
      BY <2>1 DEF ReadCaptcha
    <3>2. x \in Request /\ x.pc = "clear" /\ x.cap = c
      BY DEF TypeOK, Request
    <3> HIDE DEF x
    <3> QED
      BY <2>1, <3>1, <3>2 DEF TypeOK
  <2>2. CASE captcha[c] # "live"
    BY <2>2, Finished DEF ReadCaptcha
  <2> QED
    BY <2>1, <2>2
<1>2. UNCHANGED <<attempt, captcha, history>> /\ At(r, "captcha")
  BY DEF ReadCaptcha
<1>3. TypeOK'
  BY <1>1, <1>2 DEF TypeOK, history
<1>4. CapInv'
  BY <1>1, LoginGuardAssumption DEF CapInv, At
<1>5. /\ Failed' = Failed
      /\ Uncounted \subseteq Uncounted'
      /\ Busy' \subseteq Busy
      /\ Naked' \subseteq Naked
      /\ \A d \in Captcha : Clearing(d)' \subseteq Clearing(d) \/ captcha[d] = "live"
  <2>1. /\ r \notin Uncounted /\ r \notin Uncounted' /\ r \in Busy
        /\ r \notin Naked /\ r \notin Naked'
        /\ \A d \in Captcha : r \notin Clearing(d)' \/ captcha[d] = "live"
    BY <1>1, <1>2 DEF Uncounted, Busy, Naked, Clearing, At
  <2> QED
    BY <1>1, <1>2, <2>1, SetsKept
<1>6. WindowInv'
  BY <1>2, <1>3, <1>5, Quiet DEF history
<1>7. PassInv'
  <2> SUFFICES ASSUME NEW d \in Captcha
               PROVE  /\ passes[d] > 0 => captcha[d] # "live"
                      /\ passes[d] + Cardinality(Clearing(d)') <= Cardinality(Req)
    BY <1>2 DEF PassInv, history
  <2>1. /\ Clearing(d) \in SUBSET Req /\ Clearing(d)' \in SUBSET Req
        /\ passes[d] \in Nat
    BY DEF TypeOK, Clearing
  <2>2. /\ Cardinality(Clearing(d)') \in Nat /\ Cardinality(Clearing(d)') <= Cardinality(Req)
        /\ Cardinality(Clearing(d)) \in Nat /\ Cardinality(Req) \in Nat
    BY <2>1, Requests
  <2>3. CASE captcha[d] = "live"
    BY <2>1, <2>2, <2>3 DEF PassInv
  <2>4. CASE captcha[d] # "live"
    <3>1. Cardinality(Clearing(d)') <= Cardinality(Clearing(d))
      BY <1>5, <2>1, <2>4, Fewer
    <3> QED
      BY <2>1, <2>2, <3>1 DEF PassInv
  <2> QED
    BY <2>3, <2>4
<1> QED
  BY <1>3, <1>4, <1>6, <1>7 DEF WindowInv

LEMMA ClearCaptchaInv ==
  ASSUME IInv, NEW r \in Req, NEW ok \in BOOLEAN, ClearCaptcha(r, ok)
  PROVE  IInv'
<1> USE DEF IInv
<1> DEFINE c == req[r].cap
<1>1. /\ req' \in [Req -> Request]
      /\ (req'[r].pc = "verify" /\ req'[r].cap = req[r].cap) \/ req'[r].pc = "idle"
      /\ \A q \in Req \ {r} : req'[q] = req[q]
  BY Went, Finished DEF ClearCaptcha
<1>2. UNCHANGED <<attempt, checked, unbacked, weak>> /\ At(r, "clear")
  BY DEF ClearCaptcha
<1>3. req[r].cap \in Captcha /\ req[r].cap # None
  BY <1>2 DEF CapInv, TypeOK, Request
<1>4. /\ captcha' = [captcha EXCEPT ![c] = IF ok THEN "gone" ELSE @]
      /\ passes' = [passes EXCEPT ![c] = IF ok /\ req[r].right THEN @ + 1 ELSE @]
  BY DEF ClearCaptcha
<1> PICK g \in Captcha : g = req[r].cap
  BY <1>3
<1>5. /\ captcha' \in [Captcha -> {"none", "live", "gone"}]
      /\ passes' \in [Captcha -> Nat]
      /\ \A d \in Captcha \ {g} : captcha'[d] = captcha[d] /\ passes'[d] = passes[d]
      /\ \/ captcha'[g] = "gone" /\ passes'[g] <= passes[g] + 1
         \/ captcha'[g] = captcha[g] /\ passes'[g] = passes[g]
  <2>1. /\ passes[g] \in Nat /\ passes \in [Captcha -> Nat]
        /\ captcha \in [Captcha -> {"none", "live", "gone"}]
    BY DEF TypeOK
  <2>2. CASE ok
    BY <1>4, <2>1, <2>2
  <2>3. CASE ~ok
    BY <1>4, <2>1, <2>3
  <2> QED
    BY <2>2, <2>3
<1>6. TypeOK'
  <2>1. weak' \in BOOLEAN
    BY <1>2 DEF TypeOK
  <2> QED
    BY <1>1, <1>2, <1>5, <2>1 DEF TypeOK
<1>7. CapInv'
  BY <1>1 DEF CapInv, At
<1>8. /\ Failed' = Failed
      /\ Uncounted \subseteq Uncounted'
      /\ Busy' \subseteq Busy
      /\ Naked' \subseteq Naked
      /\ \A d \in Captcha : Clearing(d)' \subseteq Clearing(d)
      /\ r \in Clearing(g) /\ r \notin Clearing(g)'
  <2>1. /\ r \notin Uncounted /\ r \notin Uncounted' /\ r \in Busy
        /\ r \notin Naked /\ r \notin Naked'
        /\ \A d \in Captcha : r \notin Clearing(d)'
        /\ r \in Clearing(g)
    BY <1>1, <1>2, <1>3 DEF Uncounted, Busy, Naked, Clearing, At
  <2> QED
    BY <1>1, <1>2, <2>1, SetsKept
<1>9. WindowInv'
  BY <1>2, <1>6, <1>8, Quiet
<1>10. PassInv'
  <2> SUFFICES ASSUME NEW d \in Captcha
               PROVE  /\ passes'[d] > 0 => captcha'[d] # "live"
                      /\ passes'[d] + Cardinality(Clearing(d)') <= Cardinality(Req)
    BY DEF PassInv
  <2>1. /\ Clearing(d) \in SUBSET Req /\ Clearing(d)' \in SUBSET Clearing(d)
        /\ passes[d] \in Nat /\ passes'[d] \in Nat
    BY <1>5, <1>8 DEF TypeOK, Clearing
  <2>2. /\ Cardinality(Clearing(d)') \in Nat /\ Cardinality(Clearing(d)) \in Nat
        /\ Cardinality(Clearing(d)') <= Cardinality(Clearing(d)) /\ Cardinality(Req) \in Nat
    BY <2>1, Requests, Fewer
  <2>3. CASE d = g
    <3>1. Cardinality(Clearing(d)') + 1 <= Cardinality(Clearing(d))
      BY <1>8, <2>1, <2>3, OneLess
    <3> QED
      BY <1>5, <2>1, <2>2, <2>3, <3>1 DEF PassInv
  <2>4. CASE d # g
    BY <1>5, <2>1, <2>2, <2>4 DEF PassInv
  <2> QED
    BY <2>3, <2>4
<1> QED
  BY <1>6, <1>7, <1>9, <1>10 DEF WindowInv
-----------------------------------------------------------------------------
LEMMA VerifyWrongInv ==
  ASSUME IInv, NEW r \in Req, VerifyWrong(r)
  PROVE  IInv'
<1> USE DEF IInv
<1>1. /\ req' \in [Req -> Request]
      /\ req'[r].pc = "fail" /\ req'[r].age = 0
      /\ \A q \in Req \ {r} : req'[q] = req[q]
  <2> DEFINE x == [req[r] EXCEPT !.pc = "fail", !.age = 0]
  <2>1. req' = [req EXCEPT ![r] = x]
    BY DEF VerifyWrong
  <2>2. req[r] \in Request /\ 0 \in 0 .. LockFor
    BY LoginGuardAssumption DEF TypeOK
  <2>3. x \in Request /\ x.pc = "fail" /\ x.age = 0
    BY <2>2 DEF Request
  <2> HIDE DEF x
  <2> QED
    BY <2>1, <2>3 DEF TypeOK
<1>2. UNCHANGED <<attempt, captcha, weak, passes>> /\ At(r, "verify")
  BY DEF VerifyWrong
<1>3. TypeOK'
  <2>1. checked' \in Nat /\ unbacked' \in Nat
    BY DEF VerifyWrong, TypeOK
  <2>2. weak' \in BOOLEAN
    BY <1>2 DEF TypeOK
  <2> QED
    BY <1>1, <1>2, <2>1, <2>2 DEF TypeOK
<1>4. CapInv'
  BY <1>1 DEF CapInv, At
<1>5. /\ Failed' = Failed /\ Busy' \subseteq Busy
      /\ r \notin Uncounted /\ Uncounted \cup {r} \subseteq Uncounted'
      /\ Naked' \subseteq Naked /\ r \notin Naked'
      /\ \A c \in Captcha : Clearing(c)' \subseteq Clearing(c)
  <2>1. /\ r \notin Uncounted /\ r \in Uncounted' /\ r \in Busy /\ r \notin Naked'
        /\ \A c \in Captcha : r \notin Clearing(c)'
    BY <1>1, <1>2 DEF Uncounted, Busy, Naked, Clearing, At, current
  <2> QED
    BY <1>1, <1>2, <2>1, SetsKept
<1>6. WindowInv'
  <2>1. ~weak => /\ checked' = checked + 1
                 /\ unbacked' = IF req[r].cap # None THEN unbacked ELSE unbacked + 1
    BY DEF VerifyWrong
  <2> QED
    BY <1>2, <1>3, <1>5, <2>1, Looked
<1>7. PassInv'
  BY <1>2, <1>5, PassesKept
<1> QED
  BY <1>3, <1>4, <1>6, <1>7 DEF WindowInv

(* A request that has not looked goes away. *)
LEMMA Leaves ==
  ASSUME IInv, NEW r \in Req, UNCHANGED <<attempt, captcha, history>>,
         req' \in [Req -> Request],
         req'[r].pc \in {"idle", "reset"}, req[r].pc \notin {"fail", "anchor"},
         \A q \in Req \ {r} : req'[q] = req[q]
  PROVE  IInv'
<1> USE DEF IInv
<1>1. TypeOK'
  <2>1. weak' \in BOOLEAN
    BY DEF TypeOK, history
  <2> QED
    BY <2>1 DEF TypeOK, history
<1>2. CapInv'
  BY DEF CapInv, At
<1>3. /\ Failed' = Failed
      /\ Uncounted \subseteq Uncounted'
      /\ Busy' \subseteq Busy
      /\ Naked' \subseteq Naked
      /\ \A c \in Captcha : Clearing(c)' \subseteq Clearing(c)
  <2>1. /\ r \notin Uncounted /\ r \notin Busy' /\ r \notin Naked'
        /\ \A c \in Captcha : r \notin Clearing(c)'
    BY DEF Uncounted, Busy, Naked, Clearing, At
  <2> QED
    BY <2>1, SetsKept
<1>4. WindowInv'
  BY <1>1, <1>3, Quiet DEF history
<1>5. PassInv'
  BY <1>3, PassesKept DEF history
<1> QED
  BY <1>1, <1>2, <1>4, <1>5 DEF WindowInv

LEMMA VerifyRightInv ==
  ASSUME IInv, NEW r \in Req, VerifyRight(r)
  PROVE  IInv'
<1>1. /\ req' \in [Req -> Request] /\ req'[r].pc = "reset"
      /\ \A q \in Req \ {r} : req'[q] = req[q]
  BY Went DEF VerifyRight, IInv
<1>2. UNCHANGED <<attempt, captcha, history>> /\ req[r].pc \notin {"fail", "anchor"}
  BY DEF VerifyRight, At
<1> QED
  BY <1>1, <1>2, Leaves

LEMMA PromptTotpInv ==
  ASSUME IInv, NEW r \in Req, PromptTotp(r)
  PROVE  IInv'
<1>1. /\ req' \in [Req -> Request] /\ req'[r].pc = "idle"
      /\ \A q \in Req \ {r} : req'[q] = req[q]
  BY Finished DEF PromptTotp, IInv
<1>2. UNCHANGED <<attempt, captcha, history>> /\ req[r].pc \notin {"fail", "anchor"}
  BY DEF PromptTotp, At
<1> QED
  BY <1>1, <1>2, Leaves
-----------------------------------------------------------------------------
LEMMA AttemptType ==
  ASSUME TypeOK
  PROVE  /\ attempt # None => attempt \in Attempt /\ attempt.fails \in Nat
                              /\ attempt.left \in -LockFor .. LockFor /\ attempt.left \in Int
         /\ LockFor \in Nat /\ LockFor > 0
  BY LoginGuardAssumption DEF TypeOK, Attempt

LEMMA FailUpdateInv ==
  ASSUME IInv, NEW r \in Req, NEW ok \in BOOLEAN, FailUpdate(r, ok)
  PROVE  IInv'
<1> USE DEF IInv
<1>1. /\ UNCHANGED <<captcha, checked, unbacked, weak, passes>>
      /\ At(r, "fail")
  BY DEF FailUpdate, history
<1>2. weak' \in BOOLEAN
  BY <1>1 DEF TypeOK
<1>3. CASE ok /\ current(req[r].age)
  <2>1. /\ req' \in [Req -> Request]
        /\ req'[r].pc = "idle"
        /\ \A q \in Req \ {r} : req'[q] = req[q]
    BY <1>3, Finished DEF FailUpdate
  <2>2. /\ attempt # None /\ attempt' \in Attempt /\ attempt' # None
        /\ attempt'.left = attempt.left /\ attempt'.fails = attempt.fails + 1
    <3>1. attempt # None /\ attempt' = [attempt EXCEPT !.fails = @ + 1]
      BY <1>3 DEF FailUpdate, current
    <3>2. attempt \in Attempt
      BY <3>1, AttemptType
    <3>3. /\ attempt' \in Attempt /\ attempt'.left = attempt.left
          /\ attempt'.fails = attempt.fails + 1
      BY <3>1, <3>2 DEF Attempt
    <3> QED
      BY <3>1, <3>3, NoneAssumption
  <2>3. TypeOK'
    BY <1>1, <1>2, <2>1, <2>2 DEF TypeOK
  <2>4. CapInv'
    BY <2>1 DEF CapInv, At
  <2>5. /\ r \in Busy /\ Busy' \subseteq Busy \ {r}
        /\ Naked' \subseteq Naked
        /\ \A c \in Captcha : Clearing(c)' \subseteq Clearing(c)
    BY <1>1, <2>1 DEF Busy, Naked, Clearing, At
  <2>6. /\ current(0)' <=> current(0)
        /\ \A q \in Req \ {r} : current(req[q].age)' <=> current(req[q].age)
    BY <2>1, <2>2 DEF current
  <2>7. Uncounted \subseteq Uncounted' \cup {r}
    BY <2>1, <2>6 DEF Uncounted
  <2>8. WindowInv'
    <3>1. CASE current(0)
      <4>1. Failed' = Failed + 1
        BY <2>2, <2>6, <3>1 DEF Failed
      <4> QED
        BY <1>1, <2>3, <2>5, <2>7, <4>1, Counted
    <3>2. CASE ~current(0)
      <4>1. Failed' = Failed
        BY <2>6, <3>2 DEF Failed
      <4>2. r \notin Uncounted
        BY <1>3, <3>2 DEF Uncounted
      <4> QED
        BY <1>1, <2>3, <2>5, <2>7, <4>1, <4>2, Quiet
    <3> QED
      BY <3>1, <3>2
  <2>9. PassInv'
    BY <1>1, <2>5, PassesKept
  <2> QED
    BY <2>3, <2>4, <2>8, <2>9 DEF WindowInv
<1>4. CASE ~(ok /\ current(req[r].age))
  <2>1. /\ req' \in [Req -> Request]
        /\ req'[r].pc = "anchor" /\ req'[r].age = req[r].age
        /\ \A q \in Req \ {r} : req'[q] = req[q]
    BY <1>4, Went DEF FailUpdate
  <2>2. UNCHANGED attempt
    BY <1>4 DEF FailUpdate
  <2>3. TypeOK'
    BY <1>1, <1>2, <2>1, <2>2 DEF TypeOK
  <2>4. CapInv'
    BY <2>1 DEF CapInv, At
  <2>5. /\ Failed' = Failed
        /\ Uncounted \subseteq Uncounted'
        /\ Busy' \subseteq Busy
        /\ Naked' \subseteq Naked
        /\ \A c \in Captcha : Clearing(c)' \subseteq Clearing(c)
    <3>1. /\ r \in Uncounted => r \in Uncounted'
          /\ r \in Busy /\ r \notin Naked'
          /\ \A c \in Captcha : r \notin Clearing(c)'
      BY <1>1, <2>1, <2>2 DEF Uncounted, Busy, Naked, Clearing, At, current
    <3> QED
      BY <2>1, <2>2, <3>1, SetsKept
  <2>6. WindowInv'
    BY <1>1, <2>3, <2>5, Quiet
  <2>7. PassInv'
    BY <1>1, <2>5, PassesKept
  <2> QED
    BY <2>3, <2>4, <2>6, <2>7 DEF WindowInv
<1> QED
  BY <1>3, <1>4

LEMMA FailAnchorInv ==
  ASSUME IInv, NEW r \in Req, FailAnchor(r)
  PROVE  IInv'
<1> USE DEF IInv
<1>1. /\ UNCHANGED <<captcha, passes>> /\ At(r, "anchor")
      /\ attempt' = [fails |-> 1, left |-> LockFor - req[r].age]
  BY DEF FailAnchor
<1>2. /\ req' \in [Req -> Request]
      /\ req'[r].pc = "idle"
      /\ \A q \in Req \ {r} : req'[q] = req[q]
  BY Finished DEF FailAnchor
<1>3. LockFor \in Nat /\ req[r].age \in 0 .. LockFor
  BY AttemptType DEF TypeOK, Request
<1>4. attempt' \in Attempt /\ attempt' # None
  <2>1. LockFor - req[r].age \in -LockFor .. LockFor
    BY <1>3
  <2> QED
    BY <1>1, <2>1, NoneAssumption DEF Attempt
<1>5. TypeOK'
  <2>1. UNCHANGED <<checked, unbacked, weak>> \/ Weaken
    BY DEF FailAnchor
  <2> QED
    BY <1>1, <1>2, <1>4, <2>1, HistoryType DEF TypeOK
<1>6. CapInv'
  BY <1>2 DEF CapInv, At
<1>7. /\ r \in Busy /\ Busy' \subseteq Busy \ {r}
      /\ Naked' \subseteq Naked
      /\ \A c \in Captcha : Clearing(c)' \subseteq Clearing(c)
  BY <1>1, <1>2 DEF Busy, Naked, Clearing, At
<1>8. WindowInv'
  <2>1. CASE current(0) \/ req[r].age = LockFor
    BY <2>1, Weakened DEF FailAnchor, Weaken
  <2>2. CASE ~(current(0) \/ req[r].age = LockFor)
    <3>1. current(0)' /\ attempt'.fails = 1
      <4>1. attempt'.left > 0 /\ attempt'.left \in Nat
        BY <1>1, <1>3, <2>2
      <4> QED
        BY <1>1, <1>4, <4>1 DEF current
    <3>2. Failed' = Failed + 1
      BY <2>2, <3>1 DEF Failed
    <3>3. Uncounted \subseteq Uncounted' \cup {r}
      BY <1>2, <3>1 DEF Uncounted
    <3>4. UNCHANGED <<checked, unbacked, weak>>
      BY <2>2 DEF FailAnchor
    <3> QED
      BY <1>5, <1>7, <3>2, <3>3, <3>4, Counted
  <2> QED
    BY <2>1, <2>2
<1>9. PassInv'
  BY <1>1, <1>7, PassesKept
<1> QED
  BY <1>5, <1>6, <1>8, <1>9 DEF WindowInv

LEMMA ResetInv ==
  ASSUME IInv, NEW r \in Req, Reset(r)
  PROVE  IInv'
<1> USE DEF IInv
<1>1. UNCHANGED <<captcha, passes>> /\ attempt' = None /\ NewWindow
  BY DEF Reset
<1>2. /\ req' \in [Req -> Request]
      /\ req'[r].pc = "idle"
      /\ \A q \in Req \ {r} : req'[q] = req[q]
  BY Finished DEF Reset
<1>3. TypeOK'
  BY <1>1, <1>2, HistoryType DEF TypeOK
<1>4. CapInv'
  BY <1>2 DEF CapInv, At
<1>5. WindowInv'
  <2>1. Failed' = 0
    BY <1>1 DEF Failed, current
  <2> QED
    BY <1>1, <2>1, Renewed DEF NewWindow
<1>6. PassInv'
  <2>1. \A c \in Captcha : Clearing(c)' \subseteq Clearing(c)
    BY <1>2 DEF Clearing, At
  <2> QED
    BY <1>1, <2>1, PassesKept
<1> QED
  BY <1>3, <1>4, <1>5, <1>6 DEF WindowInv

LEMMA AbortInv ==
  ASSUME IInv, NEW r \in Req, Abort(r)
  PROVE  IInv'
<1> USE DEF IInv
<1>1. UNCHANGED <<attempt, captcha, passes>>
  BY DEF Abort
<1>2. /\ req' \in [Req -> Request]
      /\ req'[r].pc = "idle"
      /\ \A q \in Req \ {r} : req'[q] = req[q]
  BY Finished DEF Abort
<1>3. CASE req[r].pc \in {"fail", "anchor"}
  <2>1. Weaken
    BY <1>3 DEF Abort, At
  <2>2. TypeOK'
    BY <1>1, <1>2, <2>1, HistoryType DEF TypeOK
  <2>3. CapInv'
    BY <1>2 DEF CapInv, At
  <2>4. WindowInv'
    BY <2>1, Weakened DEF Weaken
  <2>5. PassInv'
    <3>1. \A c \in Captcha : Clearing(c)' \subseteq Clearing(c)
      BY <1>2 DEF Clearing, At
    <3> QED
      BY <1>1, <3>1, PassesKept
  <2> QED
    BY <2>2, <2>3, <2>4, <2>5 DEF WindowInv
<1>4. CASE req[r].pc \notin {"fail", "anchor"}
  <2>1. UNCHANGED history
    BY <1>1, <1>4 DEF Abort, At, history
  <2> QED
    BY <1>1, <1>2, <1>4, <2>1, Leaves
<1> QED
  BY <1>3, <1>4
-----------------------------------------------------------------------------
(* Nobody moves. *)
LEMMA Still ==
  ASSUME IInv, UNCHANGED <<attempt, req, checked, unbacked, weak>>
  PROVE  /\ CapInv' /\ WindowInv' /\ weak' \in BOOLEAN
         /\ \A c \in Captcha : Clearing(c)' = Clearing(c)
<1> USE DEF IInv
<1>1. CapInv'
  BY DEF CapInv, At
<1>2. WindowInv'
  <2>1. /\ Failed' = Failed /\ Uncounted' = Uncounted
        /\ Busy' = Busy /\ Naked' = Naked
    BY DEF Failed, Uncounted, Busy, Naked, current, At
  <2> QED
    BY <2>1 DEF WindowInv, CountInv, LockInv, NakedInv
<1>3. weak' \in BOOLEAN
  BY DEF TypeOK
<1>4. \A c \in Captcha : Clearing(c)' = Clearing(c)
  BY DEF Clearing, At
<1> QED
  BY <1>1, <1>2, <1>3, <1>4

LEMMA GetCaptchaInv ==
  ASSUME IInv, NEW c \in Captcha, GetCaptcha(c)
  PROVE  IInv'
<1> USE DEF IInv
<1>1. UNCHANGED <<attempt, req, checked, unbacked, weak>>
  BY DEF GetCaptcha
<1>2. TypeOK'
  <2>1. /\ captcha' \in [Captcha -> {"none", "live", "gone"}]
        /\ passes' \in [Captcha -> Nat]
    BY DEF GetCaptcha, TypeOK
  <2> QED
    BY <1>1, <2>1, Still DEF TypeOK
<1>3. PassInv'
  <2> SUFFICES ASSUME NEW d \in Captcha
               PROVE  /\ passes'[d] > 0 => captcha'[d] # "live"
                      /\ passes'[d] + Cardinality(Clearing(d)') <= Cardinality(Req)
    BY DEF PassInv
  <2>1. Clearing(d)' = Clearing(d)
    BY <1>1, Still
  <2>2. CASE d = c
    <3>1. Clearing(d) \in SUBSET Req
      BY DEF Clearing
    <3>2. passes'[d] = 0
      BY <2>2 DEF GetCaptcha, TypeOK
    <3> QED
      BY <2>1, <3>1, <3>2, Requests
  <2>3. CASE d # c
    BY <2>1, <2>3 DEF GetCaptcha, TypeOK, PassInv
  <2> QED
    BY <2>2, <2>3
<1> QED
  BY <1>1, <1>2, <1>3, Still DEF WindowInv

LEMMA ExpireCaptchaInv ==
  ASSUME IInv, NEW c \in Captcha, ExpireCaptcha(c)
  PROVE  IInv'
<1> USE DEF IInv
<1>1. UNCHANGED <<attempt, req, checked, unbacked, weak, passes>>
  BY DEF ExpireCaptcha, history
<1>2. /\ captcha' \in [Captcha -> {"none", "live", "gone"}]
      /\ \A d \in Captcha : captcha'[d] = "live" => captcha[d] = "live"
  BY DEF ExpireCaptcha, TypeOK
<1>3. TypeOK'
  BY <1>1, <1>2, Still DEF TypeOK
<1>4. PassInv'
  BY <1>1, <1>2, Still, PassesKept
<1> QED
  BY <1>1, <1>3, <1>4, Still DEF WindowInv

LEMMA TickInv ==
  ASSUME IInv, Tick
  PROVE  IInv'
<1> USE DEF IInv
<1>1. UNCHANGED <<captcha, passes>>
  BY DEF Tick
<1>2. \A q \in Req : /\ req'[q] \in Request
                     /\ req'[q].pc = req[q].pc /\ req'[q].cap = req[q].cap
                     /\ req[q].age \in 0 .. LockFor
                     /\ req'[q].age = IF req[q].pc \in {"fail", "anchor"} /\ req[q].age < LockFor
                                       THEN req[q].age + 1 ELSE req[q].age
  <2> SUFFICES ASSUME NEW q \in Req
               PROVE  /\ req'[q] \in Request
                      /\ req'[q].pc = req[q].pc /\ req'[q].cap = req[q].cap
                      /\ req[q].age \in 0 .. LockFor
                      /\ req'[q].age = IF req[q].pc \in {"fail", "anchor"} /\ req[q].age < LockFor
                                        THEN req[q].age + 1 ELSE req[q].age
    OBVIOUS
  <2>1. req[q] \in Request /\ req[q].age \in 0 .. LockFor /\ LockFor \in Nat
    BY AttemptType DEF TypeOK, Request
  <2>2. CASE req[q].pc \in {"fail", "anchor"} /\ req[q].age < LockFor
    <3> DEFINE x == [req[q] EXCEPT !.age = @ + 1]
    <3>1. req'[q] = x
      BY <2>2 DEF Tick
    <3>2. req[q].age + 1 \in 0 .. LockFor
      BY <2>1, <2>2
    <3>3. /\ x \in Request /\ x.pc = req[q].pc /\ x.cap = req[q].cap
          /\ x.age = req[q].age + 1
      BY <2>1, <3>2 DEF Request
    <3> QED
      BY <2>1, <2>2, <3>1, <3>3
  <2>3. CASE ~(req[q].pc \in {"fail", "anchor"} /\ req[q].age < LockFor)
    BY <2>1, <2>3 DEF Tick
  <2> QED
    BY <2>2, <2>3
<1>3. /\ attempt = None => attempt' = None
      /\ attempt # None =>
           /\ attempt' \in Attempt /\ attempt' # None /\ attempt'.fails = attempt.fails
           /\ attempt'.left = IF attempt.left > -LockFor THEN attempt.left - 1 ELSE attempt.left
  <2>1. CASE attempt = None
    BY <2>1 DEF Tick
  <2>2. CASE attempt # None
    <3>1. attempt \in Attempt /\ attempt.left \in -LockFor .. LockFor /\ LockFor \in Nat
      BY <2>2, AttemptType
    <3>2. attempt' = [attempt EXCEPT !.left = IF @ > -LockFor THEN @ - 1 ELSE @]
      BY <2>2 DEF Tick
    <3>3. (IF attempt.left > -LockFor THEN attempt.left - 1 ELSE attempt.left) \in -LockFor .. LockFor
      BY <3>1
    <3> QED
      BY <2>2, <3>1, <3>2, <3>3, NoneAssumption DEF Attempt
  <2> QED
    BY <2>1, <2>2
<1>4. TypeOK'
  <2>1. UNCHANGED <<checked, unbacked, weak>> \/ NewWindow
    BY DEF Tick
  <2>2. req' \in [Req -> Request]
    BY <1>2 DEF Tick
  <2> QED
    BY <1>1, <1>3, <2>1, <2>2, HistoryType DEF TypeOK
<1>5. CapInv'
  BY <1>2 DEF CapInv, At
<1>6. /\ Busy' = Busy /\ Naked' = Naked
      /\ \A c \in Captcha : Clearing(c)' \subseteq Clearing(c)
  BY <1>2 DEF Busy, Naked, Clearing, At
<1>7. WindowInv'
  <2>1. CASE current(0) /\ attempt.left = 1
    <3>1. Failed' = 0
      <4>1. attempt # None /\ LockFor \in Nat
        BY <2>1, AttemptType DEF current
      <4>2. attempt'.left = 0
        BY <1>3, <2>1, <4>1
      <4> QED
        BY <4>2 DEF Failed, current
    <3> QED
      BY <2>1, <3>1, Renewed DEF Tick, NewWindow
  <2>2. CASE ~(current(0) /\ attempt.left = 1)
    <3>1. UNCHANGED <<checked, unbacked, weak>>
      BY <2>2 DEF Tick
    <3>2. current(0)' <=> current(0)
      <4>1. CASE attempt = None
        BY <1>3, <4>1 DEF current
      <4>2. CASE attempt # None
        BY <1>3, <2>2, <4>2, AttemptType DEF current
      <4> QED
        BY <4>1, <4>2
    <3>3. Failed' = Failed
      BY <1>3, <3>2 DEF Failed, current
    <3>4. ASSUME NEW q \in Req, ~current(req[q].age), req[q].pc \in {"fail", "anchor"}
          PROVE  ~(attempt' # None /\ attempt'.left + req'[q].age > 0)
      <4>1. CASE attempt = None
        BY <1>3, <4>1
      <4>2. CASE attempt # None
        <5>1. ~(attempt.left + req[q].age > 0)
          BY <3>4, <4>2 DEF current
        <5>2. /\ attempt.left \in -LockFor .. LockFor /\ LockFor \in Nat
              /\ req[q].age \in 0 .. LockFor
          BY <1>2, <4>2, AttemptType
        <5>3. /\ attempt'.left = IF attempt.left > -LockFor THEN attempt.left - 1 ELSE attempt.left
              /\ req'[q].age = IF req[q].age < LockFor THEN req[q].age + 1 ELSE req[q].age
          BY <1>2, <1>3, <3>4, <4>2
        <5> QED
          BY <5>1, <5>2, <5>3
      <4> QED
        BY <4>1, <4>2
    <3>5. Uncounted \subseteq Uncounted'
      BY <1>2, <3>2, <3>4 DEF Uncounted, current
    <3> QED
      BY <1>4, <1>6, <3>1, <3>3, <3>5, Quiet
  <2> QED
    BY <2>1, <2>2
<1>8. PassInv'
  BY <1>1, <1>6, PassesKept
<1> QED
  BY <1>4, <1>5, <1>7, <1>8 DEF WindowInv

LEMMA CleanupInv ==
  ASSUME IInv, Cleanup
  PROVE  IInv'
<1> USE DEF IInv
<1>1. /\ UNCHANGED <<captcha, req, checked, unbacked, weak, passes>>
      /\ attempt # None /\ attempt.left < 0 /\ attempt' = None
  BY DEF Cleanup, history
<1>2. TypeOK'
  <2>1. weak' \in BOOLEAN
    BY <1>1 DEF TypeOK
  <2> QED
    BY <1>1, <2>1 DEF TypeOK
<1>3. CapInv'
  BY <1>1 DEF CapInv, At
<1>4. /\ Busy' = Busy /\ Naked' = Naked
      /\ \A c \in Captcha : Clearing(c)' \subseteq Clearing(c)
  BY <1>1 DEF Busy, Naked, Clearing, At
<1>5. Failed' = Failed
  <2>1. ~current(0)
    BY <1>1, AttemptType DEF current
  <2>2. ~current(0)'
    BY <1>1 DEF current
  <2> QED
    BY <2>1, <2>2 DEF Failed
<1>6. Uncounted \subseteq Uncounted'
  BY <1>1 DEF Uncounted, current
<1>7. WindowInv'
  BY <1>1, <1>2, <1>4, <1>5, <1>6, Quiet
<1>8. PassInv'
  BY <1>1, <1>4, PassesKept
<1> QED
  BY <1>2, <1>3, <1>7, <1>8 DEF WindowInv
-----------------------------------------------------------------------------
LEMMA InvNext == IInv /\ [Next]_vars => IInv'
<1> SUFFICES ASSUME IInv, [Next]_vars PROVE IInv'
  OBVIOUS
<1>1. ASSUME NEW r \in Req, CheckLogin(r) PROVE IInv'
  BY <1>1, CheckLockedInv, CheckCaptchaInv, ClearCaptchaInv, ReadCaptchaInv DEF CheckLogin
<1>2. ASSUME NEW r \in Req, Verify(r) PROVE IInv'
  BY <1>2, VerifyWrongInv, VerifyRightInv, PromptTotpInv DEF Verify
<1>3. ASSUME NEW r \in Req, Fail(r) PROVE IInv'
  BY <1>3, FailAnchorInv, FailUpdateInv DEF Fail
<1>4. ASSUME NEW r \in Req, Reset(r) \/ Abort(r) PROVE IInv'
  BY <1>4, ResetInv, AbortInv
<1>5. ASSUME NEW c \in Captcha, GetCaptcha(c) \/ ExpireCaptcha(c) PROVE IInv'
  BY <1>5, GetCaptchaInv, ExpireCaptchaInv
<1>6. CASE Tick \/ Cleanup
  BY <1>6, TickInv, CleanupInv
<1>7. CASE UNCHANGED vars
  <2>1. UNCHANGED <<attempt, req, checked, unbacked, weak>> /\ UNCHANGED <<captcha, passes>>
    BY <1>7 DEF vars, history
  <2>2. TypeOK'
    BY <2>1, Still DEF IInv, TypeOK
  <2>3. PassInv'
    BY <2>1, Still, PassesKept
  <2> QED
    BY <2>1, <2>2, <2>3, Still DEF IInv, WindowInv
<1> QED
  BY <1>1, <1>2, <1>3, <1>4, <1>5, <1>6, <1>7 DEF Next

(* The invariant the theorems below rest on: past the threshold the failures *)
(* a window counts, with everybody who is past the first check, stay within  *)
(* the threshold and the other requests (ratelimit/login_guard.go).          *)
THEOREM LoginGuardInvariant == Spec => []IInv
BY InitInv, InvNext, PTL DEF Spec

(* Rows, captchas and requests are what the columns and locals can hold. *)
THEOREM LoginGuardType == Spec => []TypeOK
<1>1. IInv => TypeOK
  BY DEF IInv
<1> QED
  BY <1>1, LoginGuardInvariant, PTL

(* However many requests are in flight, no window looks at more wrong        *)
(* credentials than the lock threshold and one for each other request        *)
(* (Login, guard.Locked, guard.Fail).                                        *)
THEOREM GuessesBounded == Spec => []GuessBound
<1>1. IInv => GuessBound
  <2> SUFFICES ASSUME IInv, ~weak
               PROVE  checked <= LockThreshold + Cardinality(Req) - 1
    BY DEF GuessBound
  <2>1. /\ Failed \in Nat /\ checked \in Nat /\ LockThreshold \in Nat
        /\ Cardinality(Busy) \in Nat /\ Cardinality(Uncounted) \in Nat
        /\ Cardinality(Req) \in Nat
        /\ Cardinality(Uncounted) <= Cardinality(Busy) /\ Cardinality(Uncounted) <= Cardinality(Req)
    BY Sets, Fewer, Requests, FailedType, LoginGuardAssumption DEF IInv
  <2> QED
    BY <2>1 DEF IInv, CountInv, LockInv
<1> QED
  BY <1>1, LoginGuardInvariant, PTL

(* ... and no more of them without a solved captcha than the captcha         *)
(* threshold and one for each other request (Login, guard.NeedCaptcha).      *)
THEOREM UnbackedBounded == Spec => []UnbackedBound
<1>1. IInv => UnbackedBound
  <2> SUFFICES ASSUME IInv, ~weak
               PROVE  unbacked <= CaptchaThreshold + Cardinality(Req) - 1
    BY DEF UnbackedBound
  <2>1. /\ Failed \in Nat /\ checked \in Nat /\ unbacked \in Nat /\ CaptchaThreshold \in Nat
        /\ Cardinality(Naked) \in Nat /\ Cardinality(Uncounted) \in Nat
        /\ Cardinality(Req) \in Nat /\ Cardinality(Uncounted) <= Cardinality(Req)
    BY Sets, Requests, FailedType, LoginGuardAssumption DEF IInv
  <2> QED
    BY <2>1 DEF IInv, CountInv, NakedInv
<1> QED
  BY <1>1, LoginGuardInvariant, PTL

(* One solved captcha lets no more requests through than there are at once   *)
(* (captcha.Verify, dbStore.Get).                                            *)
THEOREM CaptchasBounded == Spec => []CaptchaBound
<1>1. IInv => CaptchaBound
  BY DEF IInv, PassInv, Clearing, CaptchaBound
<1> QED
  BY <1>1, LoginGuardInvariant, PTL
=============================================================================
