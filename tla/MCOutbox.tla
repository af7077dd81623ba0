------------------------------ MODULE MCOutbox ------------------------------
(* Instances of Outbox for TLC. *)
EXTENDS Outbox, TLC

CONSTANTS p1, p2

Guarded == [https |-> TRUE, allowlist |-> TRUE, client |-> TRUE, reserved |-> FALSE]

Letter(prefix, target, header) == [prefix |-> prefix, target |-> target, header |-> header]

(* A good webhook call beside a message nobody publishes, or beside a call  *)
(* to a host that is not allowed; an SNS message of a reserved attribute    *)
(* and a Kafka message without a topic.                                     *)
Various ==
  LET call == Letter("webhook", "good", "good")
  IN {<<call, Letter("email", "good", "good")>>,
      <<call, Letter("webhook", "foreign", "good")>>,
      <<Letter("sns", "good", "reserved"), Letter("kafka", "none", "good")>>}
=============================================================================
