---------------------------- MODULE MCReadModel ----------------------------
(* Two instances, three rows; both of release 2, or the previous beside it. *)
EXTENDS ReadModel
CONSTANTS c1, c2
Rolling == {[c \in {c1, c2} |-> IF c = c1 THEN 1 ELSE 2], [c \in {c1, c2} |-> 2]}
=============================================================================
