-------------------------- MODULE MCAsyncProjection --------------------------
(* Instances of AsyncProjection for TLC. *)
EXTENDS AsyncProjection

(* The default options, and those of a projection that is to heal itself. *)
Plain == [classified |-> FALSE, restarts |-> 0]
Healing == [classified |-> FALSE, restarts |-> Forever]
Classifying == [classified |-> TRUE, restarts |-> 0]

JustPlain == {Plain}
JustHealing == {Healing}
Various == {Healing, Classifying}

(* One trouble and one call of an operator, or several of either. *)
OneEach == {[trouble |-> 1, call |-> 1]}
SeveralOfEither == {[trouble |-> 3, call |-> 1], [trouble |-> 1, call |-> 2]}
=============================================================================
