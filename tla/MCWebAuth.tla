----------------------------- MODULE MCWebAuth -----------------------------
(* Instance of WebAuth for TLC: one tab, or all of them. *)
EXTENDS WebAuth

First == CHOOSE t \in Tab : TRUE

MCInit ==
  /\ Init
  /\ page[First] = "login"
  /\ \A s, t \in Tab \ {First} : page[s] = page[t]

MCSpec == MCInit /\ [][Next]_vars
=============================================================================
