--------------------------- MODULE MCSubscriptions ---------------------------
(* One subscription of any kind over a log of two streams. *)
EXTENDS Subscriptions
AllKinds == {"catchup", "polling", "native"}
=============================================================================
