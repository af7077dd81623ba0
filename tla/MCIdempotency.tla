---------------------------- MODULE MCIdempotency ----------------------------
(* Two clients for TLC. *)
EXTENDS Idempotency

CONSTANTS c1, c2
=============================================================================
