----------------------------- MODULE MCQueries -----------------------------
(* What the pages ask for, with small bounds. *)
EXTENDS Queries, Views

CONSTANTS v1

\* The values are alike: whichever is chosen first is called v1.
MCInit == Init /\ \A i \in Inputs : want[i] \in {v1, None}
MCSpec == MCInit /\ [][Next]_vars /\ Fairness

=============================================================================
