---------------------------- MODULE MCAlertRules ----------------------------
(* AlertRules on small instances: which handlers may overlap, how many     *)
(* rules and requests there are.                                           *)
EXTENDS AlertRules, TLC

\* Two handlers do the same things: they may be exchanged.
HandlerSymmetry == Permutations(Handlers)
=============================================================================
