---------------------------- MODULE MCCommandSide ----------------------------
(* Two commands on two deployed versions of the program. In the first       *)
(* setup the store is a plain one and the newer process registers its       *)
(* upcasters and event types while it serves; in the others the outbox      *)
(* store is used, atomic or the fallback, replay is strict, and the         *)
(* commands are audited, fail-open or fail-closed.                          *)
EXTENDS CommandSide
TwoVersions == [p \in Procs |-> IF p = "old" THEN 2 ELSE 3]
OneOrTwo == [c \in Commands |-> IF c = "c1" THEN 2 ELSE 1]
Registered == [p \in Procs |-> Upcasters(p)]
ThreeSetups ==
  {[audit |-> "off", routed |-> FALSE, atomic |-> FALSE, strict |-> FALSE, auto |-> TRUE, honour |-> FALSE,
    chain |-> [Registered EXCEPT !["new"] = {}], known |-> {"old"}],
   [audit |-> "open", routed |-> TRUE, atomic |-> TRUE, strict |-> TRUE, auto |-> FALSE, honour |-> TRUE,
    chain |-> Registered, known |-> {"old"}],
   [audit |-> "closed", routed |-> TRUE, atomic |-> FALSE, strict |-> TRUE, auto |-> FALSE, honour |-> TRUE,
    chain |-> Registered, known |-> Procs]}
=============================================================================
