--------------------------- MODULE MCPostgresStore ---------------------------
(* Instances of PostgresStore for TLC: values for its structured constants. *)
EXTENDS PostgresRefinement, TLC

CONSTANTS s1, s2, r1

(* Every stream is new, every stream already has an event, or one of each. *)
NoGenesis == << >>
BothExist == <<s1, s2>>
OneExists == <<s1>>

(* SubscribeAll, and SubscribeCategory on the category of s2. *)
AllFeed == [r \in Readers |-> Streams]
SecondOnly == [r \in Readers |-> {s2}]

(* SubscribeCategory on a category that has no stream: an idle subscription. *)
IdleFeed == [r \in Readers |-> {}]

(* Two appends and a restart of the subscription, or a rewrite beside one append. *)
Budget(appends, rewrites, restarts) ==
  [append |-> appends, rewrite |-> rewrites, restart |-> restarts]
AllBudgets == {Budget(2, 0, 1), Budget(1, 1, 1)}
OnlyAppends == {Budget(2, 0, 0)}

ClientSymmetry == Permutations(Clients)
=============================================================================
