----------------------------- MODULE MCSessions -----------------------------
(* Instance of Sessions for TLC. *)
EXTENDS Sessions, TLC

(* Users, session ids and requests are each interchangeable. *)
Symmetry == Permutations(User) \cup Permutations(Sid) \cup Permutations(Req)

(* What no step and no property of Sessions tells apart is explored once:    *)
(*   - a password generation is only ever compared with its user's current   *)
(*     one (so MaxPw is never reached);                                      *)
(*   - nothing looks at the history or the user of a row that has gone       *)
(*     (logging out without a row changes nothing);                          *)
(*   - a token that has expired or been used is read no more;                *)
(*   - interrupted excuses stale rows only: without one it says nothing, and *)
(*     a row that becomes stale later brings its own excuse.                 *)
Stale(s) == s \in rows /\ cred[s] < users[owner[s]].pw

View ==
  <<[u \in User |-> users[u].state],
    session,
    [s \in Sid |-> IF session[s] = "gone" THEN None ELSE owner[s]],
    [t \in Token |-> IF reset[t].state \in {"expired", "used"} THEN Idle ELSE reset[t]],
    [r \in Req |-> [req[r] EXCEPT
        !.gen = IF /\ At(r, "login") \/ At(r, "committing")
                   /\ req[r].gen < users[req[r].user].pw
                  THEN 1 ELSE 0]],
    [s \in rows |-> <<owner[s] \in User /\ Stale(s), s \in raced>>],
    {u \in interrupted : \E s \in RowsOf(u) : Stale(s)},
    uses>>
=============================================================================
