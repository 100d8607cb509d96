----------------------------- MODULE MCJobLease -----------------------------
(* JobLease for TLC: two slots of one job, Period apart, and one of another *)
(* job, as early before the second as a lease can reach.                    *)
EXTENDS JobLease, TLC

MCDue == [k \in Slot |-> IF k <= 2 THEN k * Period ELSE 2 * Period - FireDelay - TTL]

MCJobOf == [k \in Slot |-> IF k <= 2 THEN "cleanup" ELSE "report"]

(* Servers are interchangeable. *)
Symmetry == Permutations(Server)

(* No step and no property looks at the time of an attempt that is over. *)
View ==
  <<clock, lease,
    [i \in Server |-> [k \in Slot |->
      IF try[i][k].pc \in {"done", "crashed", "refused", "failed"}
        THEN [try[i][k] EXCEPT !.at = 0] ELSE try[i][k]]]>>
=============================================================================
