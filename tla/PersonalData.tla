----------------------------- MODULE PersonalData -----------------------------
(***************************************************************************)
(* The state that erasure, export and retention share: stored events with  *)
(* their subject tags and encryption envelopes, master keys, the subject   *)
(* index, the rows of the sibling stores, the writers that keep appending, *)
(* and who an event is attributed to.                                      *)
(***************************************************************************)
EXTENDS Keys, FieldSeal, Integers, Sequences, FiniteSets, Functions

CONSTANTS Subjects, Streams,
          Setups,      \* configurations: records, see the MC module
          MaxAppends,  \* bound on the events stored beside the history of a setup
          MaxFaults    \* bound on failing calls, crashes and steps of an administrator

\* What a caller appends; and what a setup may be.
Input == [stream : Streams, subj : Seq(Subjects), tagging : BOOLEAN, pii : BOOLEAN]
ASSUME SetupsAssumption ==
  \A o \in Setups :
    /\ o.provider \in {"local", "vault", "kms", "plain"}
    /\ o.stores \subseteq {"audit", "saga", "outbox", "idempotency", "snapshot"}
    /\ o.legacy \cup o.unpurged \cup o.uncounted \subseteq o.stores \ {"snapshot"}
    /\ o.history \in Seq(Input) /\ o.inputs \subseteq Input /\ o.targets \subseteq Subjects
\* A snapshot's id, a stream id, is no subject's.
ASSUME NamesAssumption == Subjects \cap Streams = {}

None == "none"
MarkerStream == "markers"
DefaultKey == "default"
KeyIDs == Subjects \cup {DefaultKey}

VARIABLES option,
          events,     \* all events in global order
          keys,       \* the master keys
          index,      \* the subject index: <<subject, stream>>
          rows,       \* rows of the sibling stores: <<store, id, actor>>
          writer,     \* the append under way
          appends, faults,
          restored    \* keys an administrator has brought back

data == <<option, events, keys, index, rows, writer, appends, faults, restored>>

Fault == faults < MaxFaults /\ faults' = faults + 1

-----------------------------------------------------------------------------
(* Events. subj is who the payload is about, the primary subject first,     *)
(* tags the "$subjects" metadata, key the master key of the envelope (None  *)
(* for cleartext), marker the subject of an ErasureMarker.                  *)

HasEncryptionEnvelope(e) == e.key # None

\* replaceSubjectTags(tagger's output); a writer without a tagger leaves none.
applySubjectTagPolicy(in) == IF option.tagger /\ in.tagging THEN in.subj ELSE <<>>

\* The key of the primary subject, else the default key.
resolveKeyID(tags) == IF option.perSubject /\ tags # <<>> THEN tags[1] ELSE DefaultKey

\* The event an append stores.
prepareEventData(in) ==
  LET tags == applySubjectTagPolicy(in)
  IN [stream |-> in.stream, subj |-> in.subj, tags |-> tags, marker |-> None,
      key |-> IF in.pii THEN resolveKeyID(tags) ELSE None, rewritten |-> FALSE]

\* Sealing needs a data key.
encryptFields(e) == HasEncryptionEnvelope(e) => GenerateDataKey(option.provider, keys[e.key])

decryptFields(e) == DecryptDataKey(option.provider, keys[e.key])
DecryptStoredEvent(e) == IF HasEncryptionEnvelope(e) THEN decryptFields(e) ELSE "ok"

taggerPlaintext(e) == DecryptStoredEvent(e) = "ok"

\* attributeSubjects: the tags, else what the tagger makes of the plaintext.
attributeSubjects(e) ==
  CASE e.tags # <<>> -> Range(e.tags)
    [] e.tags = <<>> /\ option.tagger /\ taggerPlaintext(e) -> Range(e.subj)
    [] OTHER -> {}

At(S) == {i \in DOMAIN events : events[i].stream \in S}
StreamsOf(I) == {events[i].stream : i \in I}
KeysOf(I) == {events[i].key : i \in {j \in I : HasEncryptionEnvelope(events[j])}}
Names(e, s) == s \in Range(e.subj)

\* The id a sibling store keeps its rows of a stream under. Outbox rows and snapshots
\* name the stream, audit and idempotency rows the raw aggregate id, and a saga what its
\* correlation function makes of the event: its stream, or the raw aggregate id.
RowID(store, st) ==
  IF store \in {"outbox", "snapshot"} \/ (store = "saga" /\ option.correlated = "stream") THEN st
  ELSE option.aggregate[st]

\* Who sent the command: the primary subject, or an operator.
Actor(e) == IF option.self /\ e.subj # <<>> THEN e.subj[1] ELSE None

\* The rows the library writes beside an event.
RowsOf(e) ==
  {<<k, RowID(k, e.stream), IF k = "audit" THEN Actor(e) ELSE None>> : k \in option.stores}

NoAppend == [stage |-> "idle"]

DataInit ==
  /\ option \in Setups
  /\ keys = [k \in KeyIDs |-> "live"]
  /\ events = [i \in DOMAIN option.history |-> prepareEventData(option.history[i])]
  /\ index = UNION {{<<s, events[i].stream>> : s \in Range(events[i].tags)} : i \in DOMAIN events}
  /\ rows = UNION {RowsOf(events[i]) : i \in DOMAIN events}
  /\ writer = NoAppend /\ appends = 0 /\ faults = 0 /\ restored = {}

-----------------------------------------------------------------------------
(* The writers: tag, pick the key and seal; store; write the index. *)

Prepare(in) ==
  /\ writer.stage = "idle" /\ appends < MaxAppends
  /\ encryptFields(prepareEventData(in))
  /\ writer' = [stage |-> "prepared", event |-> prepareEventData(in)]
  /\ appends' = appends + 1
  /\ UNCHANGED <<option, events, keys, index, rows, faults, restored>>

Store ==
  /\ writer.stage = "prepared"
  /\ events' = Append(events, writer.event)
  /\ rows' = rows \cup RowsOf(writer.event)
  /\ writer' = [writer EXCEPT !.stage = "stored"]
  /\ UNCHANGED <<option, keys, index, appends, faults, restored>>

(* The subject index, and the one PostgreSQL reads from the events' tags. *)
StreamsBySubject(sub) == {st \in Streams : <<sub, st>> \in index}
DeleteSubject(sub) == {p \in index : p[1] # sub}
streamsBySubjectJSONB(sub) == StreamsOf({i \in DOMAIN events : sub \in Range(events[i].tags)})
IndexSubjects(e) == index \cup {<<s, e.stream>> : s \in Range(e.tags)}

writeSubjectIndex ==
  /\ writer.stage = "stored" /\ index' = IndexSubjects(writer.event)
  /\ writer' = NoAppend
  /\ UNCHANGED <<option, events, keys, rows, appends, faults, restored>>

\* The index write is best effort.
IndexWriteFails ==
  /\ writer.stage = "stored" /\ Fault /\ writer' = NoAppend
  /\ UNCHANGED <<option, events, keys, index, rows, appends, restored>>

BackfillSubjectIndex ==
  /\ option.tagger /\ Fault
  /\ index' = index \cup
       UNION {{<<s, events[i].stream>> : s \in attributeSubjects(events[i])} : i \in DOMAIN events}
  /\ UNCHANGED <<option, events, keys, rows, writer, appends, restored>>

\* ReEncryptStreamInPlace, one event: cleartext of a type with configured fields is
\* tagged and sealed; the index is not told.
ReEncryptInPlace(i) ==
  LET e == events[i]
      tags == IF option.tagger THEN e.subj ELSE e.tags
      sealed == [e EXCEPT !.tags = tags, !.key = resolveKeyID(tags), !.rewritten = TRUE]
  IN /\ ~HasEncryptionEnvelope(e) /\ e.marker = None /\ Fault
     /\ encryptFields(sealed)
     /\ events' = [events EXCEPT ![i] = sealed]
     /\ UNCHANGED <<option, keys, index, rows, writer, appends, restored>>

\* ReEncryptStream, one event: read in the clear and appended to another stream
\* under the current key; the version expected of the copy is the event's rank in
\* its own stream, so a stream is copied in order and once. The source stays.
ReEncryptStream(i, dst) ==
  LET e == events[i]
      tags == IF option.tagger THEN e.subj ELSE e.tags
      copy == [e EXCEPT !.stream = dst, !.tags = tags, !.rewritten = FALSE,
                        !.key = IF HasEncryptionEnvelope(e) THEN resolveKeyID(tags) ELSE None]
  IN /\ writer.stage = "idle" /\ appends < MaxAppends /\ e.marker = None /\ dst # e.stream
     /\ DecryptStoredEvent(e) = "ok" /\ encryptFields(copy)
     /\ Cardinality(At({dst})) = Cardinality({j \in At({e.stream}) : j < i})
     /\ writer' = [stage |-> "prepared", event |-> copy]
     /\ appends' = appends + 1
     /\ UNCHANGED <<option, events, keys, index, rows, faults, restored>>

-----------------------------------------------------------------------------
(* What happens to keys beside erasure and retention. *)

SoftRevokeKey(k) ==
  /\ RecoverableRevocable(option.provider) /\ keys[k] \in {"live", "disabled"} /\ Fault
  /\ keys' = [keys EXCEPT ![k] = SoftRevoke(option.provider, @)]
  /\ UNCHANGED <<option, events, index, rows, writer, appends, restored>>

UnrevokeKey(k) ==
  /\ RecoverableRevocable(option.provider) /\ Fault
  /\ \E s \in Unrevoke(option.provider, keys[k]) : s # keys[k] /\ keys' = [keys EXCEPT ![k] = s]
  /\ restored' = restored \cup {k}
  /\ UNCHANGED <<option, events, index, rows, writer, appends>>

WindowElapses(k) ==
  /\ keys[k] = "soft" /\ keys' = [keys EXCEPT ![k] = "gone"]
  /\ UNCHANGED <<option, events, index, rows, writer, appends, faults, restored>>

DataNext ==
  \/ \E in \in option.inputs : Prepare(in)
  \/ Store \/ writeSubjectIndex \/ IndexWriteFails
  \/ option.upkeep /\ (BackfillSubjectIndex \/ \E i \in DOMAIN events : ReEncryptInPlace(i))
  \/ option.upkeep /\ \E i \in DOMAIN events, dst \in Streams : ReEncryptStream(i, dst)
  \/ \E k \in KeyIDs : option.upkeep /\ (SoftRevokeKey(k) \/ UnrevokeKey(k))
  \/ \E k \in KeyIDs : WindowElapses(k)
=============================================================================
