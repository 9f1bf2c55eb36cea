------------------------------ MODULE MCListPages ------------------------------
(* The list pages of the console, with small bounds. *)
EXTENDS ListPages, KubernetesPages, ConsolePages

CONSTANT c1

\* The clusters are alike: whichever is stored first is called c1.
MCInit == Init /\ stored \in {c1, None}
MCSpec == MCInit /\ [][Next]_vars /\ Fairness

\* A page that can do less behaves as one that can do more, and whose user leaves
\* the rest alone.
Covers(q, p) ==
    /\ q # p
    /\ q = [p EXCEPT !.ops = q.ops, !.refresh = q.refresh]
    /\ p.ops \subseteq q.ops /\ (p.refresh => q.refresh)

AllPages == KubernetesPages \cup ConsolePages
MCPages  == {p \in AllPages : ~\E q \in AllPages : Covers(q, p)}

=============================================================================
