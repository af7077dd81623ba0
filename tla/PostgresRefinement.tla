-------------------------- MODULE PostgresRefinement --------------------------
(***************************************************************************)
(* PostgresStore implements EventLog: seen from its callers, an Append     *)
(* whose statements interleave with those of other transactions takes      *)
(* effect in one instant, its COMMIT, and the expected version it checked  *)
(* several statements earlier still holds at that instant.                 *)
(***************************************************************************)
EXTENDS PostgresStore

(* The author of version v of stream s. *)
Author(s, v) == (CHOOSE e \in rows : e.stream = s /\ e.version = v /\ Visible(e)).by

(* The committed events of each stream, in version order. *)
CommittedLog == [s \in Streams |-> [v \in 1 .. streamVer[s] |-> Author(s, v)]]

Log == INSTANCE EventLog WITH
  log <- CommittedLog,
  call <- req,
  Existing <- {GenesisOrder[i] : i \in 1 .. Len(GenesisOrder)},
  Genesis <- NoClient,
  Calls <- Requests

(***************************************************************************)
(* Append is linearizable with optimistic concurrency control: the         *)
(* behaviour of appendInTx's transactions is one of the abstract log's.    *)
(***************************************************************************)
ImplementsEventLog == Log!Spec
=============================================================================
