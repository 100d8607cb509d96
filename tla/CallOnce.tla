------------------------------ MODULE CallOnce ------------------------------
(***************************************************************************)
(* What a caller of the web client may rely on, however often tokens are   *)
(* refreshed behind its back: the server executes a call once at most, an  *)
(* answer is given once and stays, and "ok" is only said of a call that was*)
(* executed.  An error says nothing: the call may have been executed.      *)
(***************************************************************************)
EXTENDS Naturals

CONSTANT Call

VARIABLES
  times,   \* times[c]: how often the server executed c
  answer   \* answer[c]: what the caller was told

vars == <<times, answer>>

Init ==
  /\ times = [c \in Call |-> 0]
  /\ answer = [c \in Call |-> "none"]

Execute(c) ==
  /\ times[c] = 0
  /\ times' = [times EXCEPT ![c] = 1]
  /\ UNCHANGED answer

(* A page that goes away takes all its open calls with it. *)
Answer(open, told) ==
  /\ \A c \in open : answer[c] = "none" /\ (told = "ok" => times[c] = 1)
  /\ answer' = [c \in Call |-> IF c \in open THEN told ELSE answer[c]]
  /\ UNCHANGED times

Next ==
  \/ \E c \in Call : Execute(c)
  \/ \E open \in SUBSET Call, told \in {"ok", "error"} : Answer(open, told)

Spec == Init /\ [][Next]_vars
=============================================================================
