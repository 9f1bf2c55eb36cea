--------------------------- MODULE MCAlertWebhooks ---------------------------
(* One channel, two posts, one analysis. *)
EXTENDS AlertWebhooks

=============================================================================
