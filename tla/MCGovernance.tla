---------------------------- MODULE MCGovernance ----------------------------
EXTENDS Governance

Written(st, subj, tagging, pii) == [stream |-> st, subj |-> subj, tagging |-> tagging, pii |-> pii]
Tagged(st, subj) == Written(st, subj, TRUE, TRUE)
Untagged(st, subj) == Written(st, subj, FALSE, TRUE)
Clear(st, subj) == Written(st, subj, FALSE, FALSE)
Policy(S, old, action, scoped) == [streams |-> S, aged |-> old, action |-> action, scoped |-> scoped]

Base ==
  [provider |-> "local", tagger |-> TRUE, perSubject |-> TRUE, resolver |-> "scan", guard |-> FALSE,
   strict |-> FALSE, marker |-> FALSE, sink |-> TRUE, purge |-> FALSE, stores |-> {},
   legacy |-> {}, unpurged |-> {}, uncounted |-> {}, derived |-> FALSE, self |-> TRUE,
   correlated |-> "stream", aggregate |-> [s1 |-> "r1", s2 |-> "r2"], handler |-> {}, requests |-> {}, targets |-> {}, verify |-> FALSE, exports |-> {},
   policies |-> {}, checkpoint |-> FALSE, capped |-> FALSE, upkeep |-> FALSE,
   history |-> <<>>, inputs |-> {}, fields |-> {}, documents |-> {}]

Erasing == [Base EXCEPT !.requests = {"subject"}, !.targets = {"a"}]

\* A lost certificate is fatal; rows by stream and by raw aggregate id.
StrictSetup ==
  [Erasing EXCEPT !.strict = TRUE, !.stores = {"outbox", "snapshot", "idempotency"}, !.derived = TRUE,
                  !.history = <<Tagged("s1", <<"a">>)>>,
                  !.inputs = {Tagged("s1", <<"a">>), Tagged("s2", <<"a">>)}]

\* Untagged history under the default key, events about two subjects.
GuardSetup ==
  [Erasing EXCEPT !.guard = TRUE, !.verify = TRUE, !.upkeep = TRUE,
                  !.history = <<Tagged("s1", <<"a">>), Untagged("s2", <<"b">>)>>,
                  !.inputs = {Untagged("s1", <<"a">>), Tagged("s2", <<"a", "b">>), Clear("s1", <<"a">>)}]

KmsSetup ==
  [Erasing EXCEPT !.provider = "kms", !.verify = TRUE, !.upkeep = TRUE,
                  !.history = <<Tagged("s1", <<"a">>), Untagged("s1", <<"a">>)>>]

IndexSetup(kind) ==
  [Erasing EXCEPT !.resolver = kind, !.marker = TRUE, !.purge = TRUE, !.stores = {"audit", "saga"},
                  !.verify = TRUE, !.self = kind = "authoritative",
                  !.legacy = IF kind = "metadata" THEN {"audit", "saga"} ELSE {},
                  !.uncounted = IF kind = "metadata" THEN {"audit"} ELSE {},
                  !.history = <<Tagged("s1", <<"a">>)>>,
                  !.inputs = {Tagged("s2", <<"a">>), Tagged("s1", <<"b", "a">>), Tagged("s1", <<"b">>)}]

\* A store that can neither be purged nor counted.
SkippedSetup ==
  [Erasing EXCEPT !.verify = TRUE, !.stores = {"outbox"}, !.unpurged = {"outbox"}, !.uncounted = {"outbox"},
                  !.history = <<Tagged("s1", <<"a">>)>>]

\* Requests that name streams, tags or keys, over partly untagged history.
ScopedSetup(tags, guarded) ==
  [Erasing EXCEPT !.provider = "vault", !.resolver = "none", !.tagger = tags, !.guard = guarded,
                  !.requests = {"streams", "filter", "keys"},
                  !.history = <<Untagged("s1", <<"a">>), Untagged("s2", <<"b">>)>>,
                  !.inputs = {Tagged("s1", <<"a">>), Tagged("s2", <<"a">>)}]

PlainSetup == [Erasing EXCEPT !.provider = "plain", !.history = <<Tagged("s1", <<"a">>)>>]

\* Two streams, with somebody else's event in one of them.
ExportSetup ==
  [Erasing EXCEPT !.exports = {"a"},
                  !.history = <<Tagged("s1", <<"a">>), Untagged("s2", <<"a">>), Tagged("s1", <<"b">>)>>]

\* A decryption error handler that swallows every error.
ExportSwallowing ==
  [ExportSetup EXCEPT !.handler = {"revoked", "failed"},
                      !.history = <<Tagged("s1", <<"a">>), Untagged("s1", <<"a">>)>>]

\* An export beside writers, one that swallows the error of a revoked key alone.
ExportWriting ==
  [ExportSetup EXCEPT !.requests = {}, !.handler = {"revoked"}, !.history = <<Tagged("s1", <<"a">>)>>,
                      !.inputs = {Tagged("s1", <<"b">>), Untagged("s1", <<"a">>), Clear("s2", <<"a">>)}]

\* Sweeps over one shared key, and over a key per subject.
SweepSetup(each) ==
  [Base EXCEPT !.perSubject = each, !.checkpoint = TRUE, !.capped = each,
               !.policies = {Policy({"s1"}, TRUE, "shred", TRUE), Policy({"s2"}, FALSE, "apply", TRUE),
                             Policy({"s2"}, TRUE, "apply", TRUE),
                             Policy({"s1", "s2"}, FALSE, "shred", FALSE)},
               !.history = <<Tagged("s2", <<"b">>), Tagged("s1", <<"a">>)>>,
               !.inputs = {Tagged("s1", <<"b">>), Tagged("s1", <<"a">>)}]

SweepKms ==
  [SweepSetup(TRUE) EXCEPT !.provider = "kms", !.upkeep = TRUE,
                           !.history = <<Clear("s1", <<"b">>), Tagged("s1", <<"a">>)>>, !.inputs = {}]
SweepPlain == [SweepSetup(FALSE) EXCEPT !.provider = "plain", !.checkpoint = FALSE, !.inputs = {}]

\* Every list of up to three paths, also in two orders or twice, over documents of depth three.
Paths == {<<"x">>, <<"y">>, <<"x", "y">>, <<"x", "z">>, <<"x", "y", "z">>, <<"x", "">>}
Scalars == {Node("text"), Node("null")}
Documents ==
  {d \in UNION {[D -> Scalars \cup {Node("object")}] :
                 D \in SUBSET {<<"x">>, <<"y">>, <<"x", "y">>, <<"x", "z">>, <<"x", "y", "z">>}} :
     /\ \A q \in DOMAIN d : Len(q) > 1 =>
          LET up == SubSeq(q, 1, Len(q) - 1) IN up \in DOMAIN d /\ d[up] = Node("object")
     /\ \A q \in DOMAIN d : Len(q) = 3 => d[q] # Node("object")}
SealingSetup ==
  [Base EXCEPT !.fields = UNION {[1 .. n -> Paths] : n \in 1 .. 3}, !.documents = Documents]

AllSetups ==
  {StrictSetup, GuardSetup, KmsSetup, PlainSetup, SkippedSetup,
   IndexSetup("authoritative"), IndexSetup("index"), IndexSetup("metadata"),
   ScopedSetup(TRUE, TRUE), ScopedSetup(FALSE, TRUE), ScopedSetup(TRUE, FALSE),
   ExportSetup, ExportSwallowing, ExportWriting, SweepSetup(TRUE), SweepSetup(FALSE), SweepKms, SweepPlain,
   SealingSetup}

\* The documented configuration: a scanning resolver, a marker and a certificate sink.
MarkerSetup ==
  {[Erasing EXCEPT !.marker = TRUE, !.strict = TRUE, !.history = <<Tagged("s1", <<"a">>)>>]}

\* An authoritative index that BackfillSubjectIndex fills for an untagged event.
BackfillSetup ==
  {[Erasing EXCEPT !.resolver = "authoritative", !.upkeep = TRUE,
                   !.history = <<Untagged("s1", <<"a">>)>>]}
=============================================================================
