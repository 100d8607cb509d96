---------------------------- MODULE MCTwoFactor ----------------------------
(* Instance of TwoFactor for TLC: a page of each kind, or two of one. *)
EXTENDS TwoFactor, TLC

Open(tabs, state, n) == Cardinality({p \in tabs : state[p].step # "closed"}) = n

MCInit ==
  /\ Init
  /\ \/ Open(LoginTab, login, 1) /\ Open(ProfileTab, section, 1) /\ totp = None
     \/ Open(LoginTab, login, 0) /\ Open(ProfileTab, section, 2) /\ totp = None
     \/ Open(LoginTab, login, Cardinality(LoginTab)) /\ Open(ProfileTab, section, 0) /\ totp # None

Symmetry == Permutations(LoginTab) \cup Permutations(ProfileTab)

(* A code is not looked at again once its request checked it. *)
Looked(s) == IF s.at \in {"enable", "delete", "reply"} THEN [s EXCEPT !.code = NoCode] ELSE s

View == <<server, login, [p \in ProfileTab |-> Looked(section[p])], history>>

MCSpec == MCInit /\ [][Next]_vars
=============================================================================
