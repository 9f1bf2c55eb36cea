--------------------------- MODULE MCWorkloadEdits ---------------------------
(* WorkloadEdits on small instances: which operations overlap.             *)
EXTENDS WorkloadEdits, TLC

\* One operation of each kind: an edit of a field outside the template, a YAML
\* edit, a rollback, a restart (a field of the template), and whatever stores,
\* deletes, makes again and restores.
Overlapping == {Labels, ModifyByYaml, RollBack, Restart, Del, Create, Backup, Recover}

\* The handlers of the *Route kinds of the gateway API.
OfRoutes == {ModifyByYaml, DelRoute, Create, Backup, Recover}

\* An edit, and a backup that is restored.
Restoring == {Labels, Backup, Recover}

Symmetry == Permutations(Handlers)
=============================================================================
