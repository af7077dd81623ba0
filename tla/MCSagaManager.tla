---------------------------- MODULE MCSagaManager ----------------------------
(* Instances of SagaManager for TLC. *)
EXTENDS SagaManager

CONSTANTS m1, m2, c1, c2, o1

AllOnM1 == [t \in Callers \cup Operators |-> m1]

Up(S, calls, ops, failures, faults, stops, crashes) ==
  [up |-> S, capture |-> ops > 0, limit |-> [call |-> calls, op |-> ops, fail |-> failures, fault |-> faults,
                        stop |-> stops, crash |-> crashes]]

(***************************************************************************)
(* Callers redeliver beside the loop; two managers share the store; an     *)
(* operator, faults, a stop and a crash meet one manager, which captures   *)
(* trigger events where there is an operator.                              *)
(***************************************************************************)
AllDeployments ==
  {Up({m1}, 2, 0, 1, 0, 0, 0), Up({m1, m2}, 0, 0, 0, 0, 0, 1), Up({m1, m2}, 0, 0, 1, 0, 0, 0),
   Up({m1}, 1, 1, 1, 0, 0, 0), Up({m1}, 0, 1, 1, 0, 0, 1), Up({m1}, 0, 1, 1, 1, 0, 0), Up({m1}, 0, 0, 1, 1, 1, 0),
   [Up({m1}, 0, 1, 1, 0, 0, 0) EXCEPT !.capture = FALSE]}

(* A graceful stop of one manager. *)
RestartedDeployment == {Up({m1}, 0, 0, 0, 0, 1, 0)}

(* A redelivery and an operator's retry meet on one manager. *)
RetriedDeployment == {Up({m1}, 1, 1, 0, 0, 0, 0)}
=============================================================================
