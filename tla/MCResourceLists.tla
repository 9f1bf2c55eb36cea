--------------------------- MODULE MCResourceLists ---------------------------
(* One handler against two rebuilds, in one namespace.                     *)
EXTENDS ResourceLists

=============================================================================
