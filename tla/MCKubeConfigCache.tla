-------------------------- MODULE MCKubeConfigCache --------------------------
(* KubeConfigCache with two readers against one or two writers.            *)
EXTENDS KubeConfigCache, TLC

\* Readers are interchangeable, and so are writers and clusters.
Symmetry == Permutations(Readers) \cup Permutations(Clusters) \cup Permutations(Writers)
=============================================================================
