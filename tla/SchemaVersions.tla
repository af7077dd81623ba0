---------------------------- MODULE SchemaVersions ----------------------------
(***************************************************************************)
(* The pure part of schema versioning: the upcaster chain of an event      *)
(* type and the "$schema_version" stamp. A chain is the set of the          *)
(* registered FromVersions (an upcaster leads one version up); the payload *)
(* of an event is the version its data is really in, its form; the stamp   *)
(* is the version its metadata names, or Unstamped.                        *)
(***************************************************************************)
EXTENDS Integers, FiniteSets

Unstamped == 0
Broken == 0                       \* the form of data an upcaster mistook
DefaultSchemaVersion == 1

Highest(S) == CHOOSE v \in S : \A w \in S : w <= v

HasUpcasters(chain) == chain # {}

\* The highest ToVersion registered.
LatestVersion(chain) == IF HasUpcasters(chain) THEN Highest(chain) + 1 ELSE DefaultSchemaVersion

\* UpcasterChain.Register: from version 1 on, one upcaster per FromVersion.
CanRegister(chain, from) == from >= DefaultSchemaVersion /\ from \notin chain

\* GetSchemaVersion: what an absent or unusable stamp stands for.
GetSchemaVersion(stamp) == IF stamp < DefaultSchemaVersion THEN DefaultSchemaVersion ELSE stamp

\* explicitSchemaVersionValid: a caller's stamp that may be honoured.
ExplicitVersionValid(stamp, latest) == stamp \in DefaultSchemaVersion .. latest

\* Mutant: a caller's stamp is kept whenever there is one.
PolicyKeepsCaller(configured, chain, stamp, honour) ==
  IF ~configured THEN Unstamped ELSE IF stamp # Unstamped THEN stamp ELSE LatestVersion(chain)

\* applySchemaVersionPolicy: the chain's latest version, unless a caller's own
\* valid version is honoured; configured is whether the store has a chain at all.
applySchemaVersionPolicy(configured, chain, stamp, honour) ==
  IF ~configured THEN Unstamped
  ELSE IF honour /\ HasUpcasters(chain) /\ ExplicitVersionValid(stamp, LatestVersion(chain)) THEN stamp
  ELSE LatestVersion(chain)

\* The upcasters that run on data stamped v.
Due(chain, v) == {u \in chain : u >= v}

\* Upcast fails on a gap: the upcasters due must start at v and follow each other.
NoGap(chain, v) == \A u \in Due(chain, v) : v .. u \subseteq chain

\* Upcast: every upcaster due runs once, in order; one that meets data of another
\* form than its FromVersion makes nonsense of it.
Upcast(chain, v, form) ==
  IF Due(chain, v) = {} THEN form
  ELSE IF form = v THEN Highest(Due(chain, v)) + 1
  ELSE Broken
=============================================================================
