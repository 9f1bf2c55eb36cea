------------------------------ MODULE MCSession ------------------------------
(* Two tabs of one browser. *)
EXTENDS Session

CONSTANTS u1

\* The users are alike: whoever is signed in at first is called u1.
MCInit == Init /\ session \in {u1, None}
MCSpec == MCInit /\ [][Next]_vars /\ Fairness

=============================================================================
