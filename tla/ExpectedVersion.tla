--------------------------- MODULE ExpectedVersion ---------------------------
(***************************************************************************)
(* adapters/common.go: the expected versions an Append may ask for and the *)
(* optimistic concurrency check that every adapter applies to them.        *)
(***************************************************************************)
EXTENDS Integers

AnyVersion == -1
NoStream == 0
StreamExists == -2

(* The error values (conflict, not found, invalid version) become FALSE. *)
CheckVersion(expected, current, exists) ==
  \/ expected = AnyVersion
  \/ expected = NoStream /\ ~exists
  \/ expected = StreamExists /\ exists
  \/ expected > 0 /\ current = expected
=============================================================================
