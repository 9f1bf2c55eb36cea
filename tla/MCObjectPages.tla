---------------------------- MODULE MCObjectPages ----------------------------
(* The pages about one object, with small bounds. *)
EXTENDS ObjectPages, Objects, FiniteSetsExt

CONSTANT MaxParts   \* bound: parts beside the details that a user touches

\* A page whose user leaves some parts alone behaves as one without them.
Trimmed(p) ==
    LET rest == {q \in p.parts : q.name # "main"}
    IN  {[p EXCEPT !.parts = (@ \ rest) \cup ps] :
            ps \in kSubset(IF Cardinality(rest) < MaxParts THEN Cardinality(rest) ELSE MaxParts,
                           rest)}

MCPages == UNION {Trimmed(p) : p \in AllObjectPages}

=============================================================================
