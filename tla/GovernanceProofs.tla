-------------------------- MODULE GovernanceProofs --------------------------
(***************************************************************************)
(* Proofs about erasure, retention and export, for any subjects, streams,  *)
(* setups, appends and faults: the shared-key guard spares the keys of     *)
(* others, the blast-radius guard of a sweep spares the keys out of scope, *)
(* what lies behind the checkpoint has lost its key, a verified            *)
(* certificate is true, and an export is honest. They share what no step   *)
(* of any actor does to the store: a sealed event is never changed, no     *)
(* event changes its stream or its subjects, and a revoked key comes back  *)
(* only through an administrator.                                          *)
(*                                                                         *)
(* The last part is about the documents themselves: sealing one field, and *)
(* opening it again.                                                       *)
(***************************************************************************)
EXTENDS Governance, WellFoundedInduction, SequenceTheorems, TLAPS

IsSeq(s) == Len(s) \in Nat /\ s = [i \in 1 .. Len(s) |-> s[i]]

EventFields == {"stream", "subj", "tags", "marker", "key", "rewritten"}

(* The tags of an event are those its payload calls for, or none. *)
EventOK(e) ==
  /\ DOMAIN e = EventFields
  /\ e.subj \in Seq(Subjects) /\ (e.tags = <<>> \/ e.tags = e.subj)
  /\ e.key \in KeyIDs \cup {None}

WriterOK(w) ==
  /\ w.stage \in {"idle", "prepared", "stored"}
  /\ w.stage # "idle" =>
       DOMAIN w = {"stage", "event"} /\ EventOK(w.event) /\ w.event.stream \in Streams

DataInv ==
  /\ option \in Setups /\ keys \in [KeyIDs -> KeyStates]
  /\ IsSeq(events) /\ \A i \in DOMAIN events : EventOK(events[i])
  /\ WriterOK(writer)

RowsInv ==
  \A r \in rows : r[1] \in option.stores /\ (r[1] = "snapshot" => r[2] \in Streams)

TaggedIn(s, st) == \E i \in DOMAIN events : events[i].stream = st /\ s \in Range(events[i].tags)

(* Without a backfill the index knows of no more than the tags say. *)
IndexInv ==
  ~ option.upkeep =>
    /\ \A s, st : <<s, st>> \in index => TaggedIn(s, st)
    /\ writer.stage = "stored" => \A s \in Range(writer.event.tags) : TaggedIn(s, writer.event.stream)

(* Tags come from a tagger; without upkeep a revoked key never comes back. *)
ToolInv ==
  /\ \A i \in DOMAIN events : events[i].tags # <<>> => option.tagger
  /\ writer.stage # "idle" /\ writer.event.tags # <<>> => option.tagger
  /\ ~ option.upkeep => restored = {} /\ \A k \in KeyIDs : keys[k] # "disabled"

ErasureFields ==
  {"pc", "subject", "resolved", "late", "keys", "todo", "failed", "streams", "shared", "matched",
   "partial", "errors", "residual", "verified", "owed", "foreign"}

(* What the guard let pass is not what protects others. *)
GuardInv ==
  /\ DOMAIN er = ErasureFields /\ victims = {}
  /\ er.pc = "revoke" => er.todo \cap er.foreign = {}

(* The resolver sees no less than the tags of the events. *)
Sound == ~ (option.resolver = "authoritative" /\ option.upkeep)

(* An erasure that is not partial looks at every event it speaks for. *)
OwedCovered(sub, O, S) ==
  \A i \in O : i \in DOMAIN events /\ Names(events[i], sub) /\ events[i].stream \in S

CertInv ==
  /\ er.pc # "idle" => er.subject \in Subjects
  /\ Sound /\ er.pc # "idle" /\ ~ er.partial => OwedCovered(er.subject, er.owed, er.streams)
  /\ Sound => certified \subseteq DOMAIN events /\ VerifiedIsErased

ExportFields ==
  {"pc", "subject", "kind", "streams", "batch", "cur", "partial", "live", "revoked", "out", "owed",
   "alive", "blind"}

(* An untagged event that cannot be read any more. *)
Missed(i) == events[i].tags = <<>> /\ ~ taggerPlaintext(events[i])

(* Where an export x has an event it owes: in a stream it has yet to read, in what *)
(* it has read, at hand, in its output, or beyond the reach of the tagger.         *)
Accounted(x, i) ==
  \/ events[i].stream \in x.streams \/ i \in x.batch
  \/ x.pc \in {"check", "decrypt"} /\ x.cur = i
  \/ \E o \in x.out : o[1] = i
  \/ Missed(i)
  \/ i \in x.blind /\ events[i].tags = <<>> /\ HasEncryptionEnvelope(events[i])

(* Its output, its event at hand and its end. *)
ShapeOK(x) ==
  /\ DOMAIN x = ExportFields /\ x.batch \subseteq DOMAIN events
  /\ x.pc = "idle" => x.out = {}
  /\ x.pc = "done" => x.streams = {} /\ x.batch = {}
  /\ x.pc \in {"check", "decrypt"} =>
       /\ x.cur \in DOMAIN events /\ HasEncryptionEnvelope(events[x.cur])
       /\ x.kind = "subject" => Names(events[x.cur], x.subject)
  /\ \A o \in x.out : o[1] \in DOMAIN events /\ (x.kind = "subject" => Names(events[o[1]], x.subject))

(* An event went out, or is about to, under a key that was not revoked at the start, *)
(* or else a call to the provider failed for it.                                     *)
Cleared(x, i) ==
  HasEncryptionEnvelope(events[i]) /\ (events[i].key \in x.alive \/ i \in x.blind)

KeysOK(x) ==
  /\ x.live \subseteq x.alive
  /\ \A k \in KeyIDs \ x.alive : IsRevoked(option.provider, keys[k])
  /\ x.pc = "decrypt" => Cleared(x, x.cur)
  /\ \A o \in x.out : o[2] = "cipher" => Cleared(x, o[1])

OwedOK(x) ==
  ~ x.partial => \A i \in x.owed : /\ option.tagger /\ i \in DOMAIN events
                                   /\ Names(events[i], x.subject) /\ Accounted(x, i)

ExportInv == ShapeOK(ex) /\ (ex.pc # "idle" /\ ~ option.upkeep => KeysOK(ex) /\ OwedOK(ex))

SweepFields ==
  {"pc", "dry", "start", "pos", "frontier", "frozen", "now", "cand", "todo", "revoked", "outside"}

(* What was out of scope when the sweep began still is when the guard looks. *)
ScopeInv ==
  /\ DOMAIN sw = SweepFields /\ strays = {}
  /\ sw.pc \in {"scan", "guard"} =>
       \A k \in sw.outside : \E i \in DOMAIN events :
         events[i].key = k /\ k # None /\ ~ coveredByShred(i, sw.now)
  /\ sw.pc = "revoke" => sw.todo \cap sw.outside = {}

Lost(k) == keys[k] \in {"soft", "gone"} \/ k \in restored

(* An event that a Shred policy is for, whatever its age. *)
Shreddable(i) ==
  /\ HasEncryptionEnvelope(events[i]) /\ ~ events[i].rewritten
  /\ \E p \in active : p.action = "shred" /\ matchesStatic(p, events[i])

(* Each of those up to the frontier has a candidate that would hold the    *)
(* frontier back behind it.                                                *)
SweepInv ==
  sw.pc # "idle" =>
    /\ sw.start \in Nat /\ sw.frontier \in Nat /\ sw.pos \in Nat
    /\ sw.start <= sw.frontier /\ sw.frontier <= sw.pos /\ sw.pos <= Len(events)
    /\ option.checkpoint => sw.start = checkpoint
    /\ ~ sw.frozen => sw.pos = sw.frontier
    /\ \A c \in sw.cand : c[2] \in Nat /\ c[2] <= sw.frontier
    /\ \A i \in DOMAIN events :
         sw.start < i /\ i <= sw.frontier /\ Shreddable(i) =>
           \E c \in sw.cand : c[1] = events[i].key /\ c[2] < i
    /\ sw.revoked \subseteq KeyIDs /\ \A k \in sw.revoked : Lost(k)

SettleInv ==
  /\ checkpoint \in Nat /\ checkpoint <= Len(events)
  /\ \A i \in DOMAIN events : i <= checkpoint /\ Shreddable(i) => Lost(events[i].key)
  /\ SweepInv

-----------------------------------------------------------------------------
(* Sequences of events. *)

LEMMA SeqDomain == ASSUME NEW s, IsSeq(s) PROVE DOMAIN s = 1 .. Len(s) /\ Len(s) \in Nat
BY DEF IsSeq

LEMMA BuiltSeq ==
  ASSUME NEW n \in Nat, NEW s, s = [i \in 1 .. n |-> s[i]]
  PROVE  IsSeq(s) /\ Len(s) = n
<1>1. PICK S : S = {s[i] : i \in 1 .. n}
  OBVIOUS
<1>2. s \in [1 .. n -> S]
  BY <1>1
<1>3. Len(s) = n
  BY <1>2
<1> QED
  BY <1>3 DEF IsSeq

LEMMA AppendedSeq ==
  ASSUME NEW s, NEW e, IsSeq(s)
  PROVE  /\ IsSeq(Append(s, e)) /\ Len(Append(s, e)) = Len(s) + 1
         /\ \A i \in DOMAIN s : i \in DOMAIN Append(s, e) /\ Append(s, e)[i] = s[i]
         /\ Len(s) + 1 \in DOMAIN Append(s, e) /\ Append(s, e)[Len(s) + 1] = e
         /\ \A i \in DOMAIN Append(s, e) : i \in DOMAIN s \/ Append(s, e)[i] = e
<1>1. PICK n \in Nat : n = Len(s)
  BY DEF IsSeq
<1>2. PICK S : S = {s[i] : i \in 1 .. n} \cup {e}
  OBVIOUS
<1>3. s \in [1 .. n -> S] /\ e \in S
  BY <1>1, <1>2 DEF IsSeq
<1>4. s \in Seq(S)
  BY <1>3
<1>5. PICK t : t = Append(s, e)
  OBVIOUS
<1>6. t \in Seq(S) /\ Len(t) = n + 1 /\ t[n + 1] = e /\ \A i \in 1 .. n : t[i] = s[i]
  BY <1>1, <1>3, <1>4, <1>5, AppendProperties
<1>7. DOMAIN t = 1 .. n + 1 /\ t = [i \in 1 .. n + 1 |-> t[i]]
  BY <1>6
<1>8. DOMAIN s = 1 .. n
  BY <1>3
<1> QED
  BY <1>1, <1>5, <1>6, <1>7, <1>8 DEF IsSeq

-----------------------------------------------------------------------------
(* What no step does to the events and the keys. *)

LogMove ==
  /\ Len(events) <= Len(events')
  /\ \A i \in DOMAIN events :
       /\ i \in DOMAIN events'
       /\ events'[i].stream = events[i].stream /\ events'[i].subj = events[i].subj
       /\ events[i].tags # <<>> => events'[i].tags = events[i].tags
       /\ events[i].key # None => events'[i] = events[i]
       /\ events'[i] = events[i] \/ events'[i].rewritten = TRUE

KeyMove ==
  /\ restored \subseteq restored'
  /\ \A k \in KeyIDs : /\ keys[k] = "gone" => keys'[k] = "gone"
                       /\ Lost(k) => Lost(k)'

DataMove == DataInv' /\ option' = option /\ LogMove /\ KeyMove

(* A step that changes none of it. *)
DataSame == UNCHANGED <<option, events, keys, writer, restored>>

LEMMA SameMoves == ASSUME DataInv, DataSame PROVE DataMove
<1>1. option' = option /\ events' = events /\ keys' = keys /\ writer' = writer /\ restored' = restored
  BY DEF DataSame
<1>2. DataInv'
  BY <1>1 DEF DataInv
<1>3. LogMove
  <2>1. Len(events) \in Nat
    BY DEF DataInv, IsSeq
  <2> QED
    BY <1>1, <2>1 DEF LogMove
<1>4. KeyMove
  BY <1>1 DEF KeyMove, Lost
<1> QED
  BY <1>1, <1>2, <1>3, <1>4 DEF DataMove

LEMMA PreparedOK ==
  ASSUME NEW in \in Input
  PROVE  EventOK(prepareEventData(in)) /\ prepareEventData(in).stream \in Streams
<1>1. in.subj \in Seq(Subjects) /\ in.stream \in Streams
  BY DEF Input
<1>2. PICK t : t = applySubjectTagPolicy(in)
  OBVIOUS
<1>3. t = <<>> \/ t = in.subj
  BY <1>2 DEF applySubjectTagPolicy
<1>4. resolveKeyID(t) \in KeyIDs
  <2>1. t \in Seq(Subjects)
    BY <1>1, <1>3, EmptySeq
  <2>2. t # <<>> => t[1] \in Subjects
    BY <2>1
  <2> QED
    BY <2>2 DEF resolveKeyID, KeyIDs
<1> QED
  BY <1>1, <1>2, <1>3, <1>4 DEF prepareEventData, EventOK, EventFields

(* The key of tags that are those of the payload, or none. *)
LEMMA ResolvedKey ==
  ASSUME NEW e, EventOK(e), NEW t, t = <<>> \/ t = e.subj
  PROVE  resolveKeyID(t) \in KeyIDs
<1>1. t \in Seq(Subjects)
  BY EmptySeq DEF EventOK
<1>2. t # <<>> => t[1] \in Subjects
  BY <1>1
<1> QED
  BY <1>2 DEF resolveKeyID, KeyIDs

LEMMA WriterMoves ==
  ASSUME DataInv, UNCHANGED <<option, events, keys, restored>>, WriterOK(writer')
  PROVE  DataMove
<1>1. option' = option /\ events' = events /\ keys' = keys /\ restored' = restored
  OBVIOUS
<1>2. DataInv'
  BY <1>1 DEF DataInv
<1>3. LogMove
  <2>1. Len(events) \in Nat
    BY DEF DataInv, IsSeq
  <2> QED
    BY <1>1, <2>1 DEF LogMove
<1>4. KeyMove
  BY <1>1 DEF KeyMove, Lost
<1> QED
  BY <1>1, <1>2, <1>3, <1>4 DEF DataMove

LEMMA AppendMoves ==
  ASSUME DataInv, NEW e, EventOK(e), events' = Append(events, e),
         UNCHANGED <<option, keys, restored>>, WriterOK(writer')
  PROVE  DataMove
<1>1. option' = option /\ keys' = keys /\ restored' = restored
  OBVIOUS
<1>2. IsSeq(events) /\ Len(events) \in Nat
  BY DEF DataInv, IsSeq
<1>3. /\ IsSeq(events') /\ Len(events') = Len(events) + 1
      /\ \A i \in DOMAIN events : i \in DOMAIN events' /\ events'[i] = events[i]
      /\ \A i \in DOMAIN events' : i \in DOMAIN events \/ events'[i] = e
  BY <1>2, AppendedSeq
<1>4. \A i \in DOMAIN events' : EventOK(events'[i])
  <2> SUFFICES ASSUME NEW i \in DOMAIN events' PROVE EventOK(events'[i])
    OBVIOUS
  <2>1. CASE i \in DOMAIN events
    <3>1. EventOK(events[i]) /\ events'[i] = events[i]
      BY <1>3, <2>1 DEF DataInv
    <3> QED
      BY <3>1
  <2>2. CASE events'[i] = e
    BY <2>2
  <2> QED
    BY <1>3, <2>1, <2>2
<1>5. DataInv'
  BY <1>1, <1>3, <1>4 DEF DataInv
<1>6. LogMove
  BY <1>2, <1>3 DEF LogMove
<1>7. KeyMove
  BY <1>1 DEF KeyMove, Lost
<1> QED
  BY <1>1, <1>5, <1>6, <1>7 DEF DataMove

LEMMA SealMoves ==
  ASSUME DataInv, NEW i \in DOMAIN events, NEW e, EventOK(e), events' = [events EXCEPT ![i] = e],
         e.stream = events[i].stream, e.subj = events[i].subj, e.rewritten = TRUE,
         events[i].tags # <<>> => e.tags = events[i].tags, events[i].key = None,
         UNCHANGED <<option, keys, restored, writer>>
  PROVE  DataMove
<1>1. option' = option /\ keys' = keys /\ restored' = restored /\ writer' = writer
  OBVIOUS
<1>2. IsSeq(events) /\ Len(events) \in Nat
  BY DEF DataInv, IsSeq
<1>3. /\ IsSeq(events') /\ Len(events') = Len(events) /\ DOMAIN events' = DOMAIN events
      /\ \A j \in DOMAIN events : events'[j] = IF j = i THEN e ELSE events[j]
  <2>1. PICK n \in Nat : n = Len(events)
    BY <1>2
  <2>2. events = [j \in 1 .. n |-> events[j]] /\ DOMAIN events = 1 .. n
    BY <1>2, <2>1 DEF IsSeq
  <2>3. /\ DOMAIN events' = 1 .. n /\ events' = [j \in 1 .. n |-> events'[j]]
        /\ \A j \in DOMAIN events : events'[j] = IF j = i THEN e ELSE events[j]
    BY <2>2
  <2>4. IsSeq(events') /\ Len(events') = n
    BY <2>3, BuiltSeq
  <2> QED
    BY <2>1, <2>2, <2>3, <2>4
<1>4. \A j \in DOMAIN events' : EventOK(events'[j])
  <2> SUFFICES ASSUME NEW j \in DOMAIN events' PROVE EventOK(events'[j])
    OBVIOUS
  <2>1. CASE j # i
    <3>1. EventOK(events[j]) /\ events'[j] = events[j]
      BY <1>3, <2>1 DEF DataInv
    <3> QED
      BY <3>1
  <2>2. CASE j = i
    BY <1>3, <2>2
  <2> QED
    BY <2>1, <2>2
<1>5. DataInv'
  BY <1>1, <1>3, <1>4 DEF DataInv
<1>6. LogMove
  <2>1. Len(events) <= Len(events')
    BY <1>2, <1>3
  <2>2. ASSUME NEW j \in DOMAIN events
        PROVE  /\ j \in DOMAIN events'
               /\ events'[j].stream = events[j].stream /\ events'[j].subj = events[j].subj
               /\ events[j].tags # <<>> => events'[j].tags = events[j].tags
               /\ events[j].key # None => events'[j] = events[j]
               /\ events'[j] = events[j] \/ events'[j].rewritten = TRUE
    <3>1. CASE j = i
      <4>1. events'[j] = e /\ events[j] = events[i]
        BY <1>3, <3>1
      <4> QED
        BY <1>3, <4>1
    <3>2. CASE j # i
      <4>1. events'[j] = events[j]
        BY <1>3, <3>2
      <4> QED
        BY <1>3, <4>1
    <3> QED
      BY <3>1, <3>2
  <2> QED
    BY <2>1, <2>2 DEF LogMove
<1>7. KeyMove
  BY <1>1 DEF KeyMove, Lost
<1> QED
  BY <1>1, <1>5, <1>6, <1>7 DEF DataMove

LEMMA KeyMoves ==
  ASSUME DataInv, NEW k \in KeyIDs, NEW s \in KeyStates, keys' = [keys EXCEPT ![k] = s],
         restored \subseteq restored', keys[k] = "gone" => s = "gone",
         keys[k] \in {"soft", "gone"} => s \in {"soft", "gone"} \/ k \in restored',
         UNCHANGED <<option, events, writer>>
  PROVE  DataMove
<1>1. option' = option /\ events' = events /\ writer' = writer
  OBVIOUS
<1>2. keys \in [KeyIDs -> KeyStates] /\ Len(events) \in Nat
  BY DEF DataInv, IsSeq
<1>3. /\ keys' \in [KeyIDs -> KeyStates]
      /\ \A j \in KeyIDs : keys'[j] = IF j = k THEN s ELSE keys[j]
  BY <1>2
<1>4. DataInv'
  BY <1>1, <1>3 DEF DataInv
<1>5. LogMove
  BY <1>1, <1>2 DEF LogMove
<1>6. KeyMove
  BY <1>3 DEF KeyMove, Lost
<1> QED
  BY <1>1, <1>4, <1>5, <1>6 DEF DataMove

LEMMA RevokeFacts ==
  ASSUME DataInv, NEW k \in KeyIDs, Revocable(option.provider)
  PROVE  /\ Revoke(option.provider, keys[k]) \in {"soft", "gone"}
         /\ keys[k] = "gone" => Revoke(option.provider, keys[k]) = "gone"
<1>1. option.provider \in {"local", "vault", "kms", "plain"}
  BY SetupsAssumption DEF DataInv
<1>2. PICK p, s : p = option.provider /\ s = keys[k]
  OBVIOUS
<1>3. s \in KeyStates /\ p \in {"local", "vault", "kms"}
  BY <1>1, <1>2 DEF DataInv, Revocable
<1>4. Revoke(p, s) \in {"soft", "gone"} /\ (s = "gone" => Revoke(p, s) = "gone")
  BY <1>3 DEF Revoke, localRevokeKey, vaultRevokeKey, kmsRevokeKey, scheduleDeletion, kmsDescribe,
              KeyStates
<1> QED
  BY <1>2, <1>4

-----------------------------------------------------------------------------
(* The steps of the data: writers, upkeep, keys. *)

LEMMA UnrevokeFacts ==
  ASSUME NEW p, NEW s \in KeyStates, NEW r \in Unrevoke(p, s)
  PROVE  r \in KeyStates /\ (s = "gone" => r = "gone")
BY DEF Unrevoke, localUnrevokeKey, kmsUnrevokeKey, KeyStates

LEMMA SoftRevokeFacts ==
  ASSUME NEW p, NEW s \in KeyStates
  PROVE  /\ SoftRevoke(p, s) \in KeyStates /\ (s = "gone" => SoftRevoke(p, s) = "gone")
         /\ s \in {"soft", "gone"} => SoftRevoke(p, s) \in {"soft", "gone"}
BY DEF SoftRevoke, localSoftRevokeKey, kmsSoftRevokeKey, scheduleDeletion, kmsDescribe, KeyStates

LEMMA WriterSteps ==
  ASSUME DataInv
  PROVE  /\ \A in \in option.inputs : Prepare(in) => DataMove
         /\ Store => DataMove
         /\ writeSubjectIndex \/ IndexWriteFails => DataMove
<1>0. WriterOK(writer) /\ option.inputs \subseteq Input
  BY SetupsAssumption DEF DataInv
<1>1. ASSUME NEW in \in option.inputs, Prepare(in) PROVE DataMove
  <2>1. PICK e : e = prepareEventData(in)
    OBVIOUS
  <2>2. EventOK(e) /\ e.stream \in Streams
    BY <1>0, <2>1, PreparedOK
  <2>3. writer' = [stage |-> "prepared", event |-> e] /\ UNCHANGED <<option, events, keys, restored>>
    BY <1>1, <2>1 DEF Prepare
  <2>4. WriterOK(writer')
    BY <2>2, <2>3 DEF WriterOK
  <2> QED
    BY <2>3, <2>4, WriterMoves
<1>2. ASSUME Store PROVE DataMove
  <2>1. DOMAIN writer = {"stage", "event"} /\ EventOK(writer.event) /\ writer.event.stream \in Streams
    BY <1>0, <1>2 DEF Store, WriterOK
  <2>2. /\ events' = Append(events, writer.event) /\ UNCHANGED <<option, keys, restored>>
        /\ writer' = [writer EXCEPT !.stage = "stored"]
    BY <1>2 DEF Store
  <2>3. DOMAIN writer' = {"stage", "event"} /\ writer'.stage = "stored" /\ writer'.event = writer.event
    BY <2>1, <2>2
  <2>4. WriterOK(writer')
    BY <2>1, <2>3 DEF WriterOK
  <2> QED
    BY <2>1, <2>2, <2>4, AppendMoves
<1>3. ASSUME writeSubjectIndex \/ IndexWriteFails PROVE DataMove
  <2>1. writer' = NoAppend /\ UNCHANGED <<option, events, keys, restored>>
    BY <1>3 DEF writeSubjectIndex, IndexWriteFails
  <2>2. WriterOK(writer')
    BY <2>1 DEF WriterOK, NoAppend
  <2> QED
    BY <2>1, <2>2, WriterMoves
<1> QED
  BY <1>1, <1>2, <1>3

LEMMA UpkeepSteps ==
  ASSUME DataInv
  PROVE  /\ BackfillSubjectIndex => DataMove
         /\ \A i \in DOMAIN events : ReEncryptInPlace(i) => DataMove
         /\ \A i \in DOMAIN events, dst \in Streams : ReEncryptStream(i, dst) => DataMove
<1>1. ASSUME BackfillSubjectIndex PROVE DataMove
  BY <1>1, SameMoves DEF BackfillSubjectIndex, DataSame
<1>2. ASSUME NEW i \in DOMAIN events, ReEncryptInPlace(i) PROVE DataMove
  <2>1. PICK old : old = events[i]
    OBVIOUS
  <2>2. EventOK(old) /\ DOMAIN old = EventFields
    BY <2>1 DEF DataInv, EventOK
  <2>3. PICK tags : tags = IF option.tagger THEN old.subj ELSE old.tags
    OBVIOUS
  <2>4. (tags = <<>> \/ tags = old.subj) /\ (old.tags # <<>> => tags = old.tags)
    BY <2>2, <2>3 DEF EventOK
  <2>5. PICK key \in KeyIDs : key = resolveKeyID(tags)
    BY <2>2, <2>4, ResolvedKey
  <2>6. PICK e : e = [old EXCEPT !.tags = tags, !.key = key, !.rewritten = TRUE]
    OBVIOUS
  <2>7. /\ events' = [events EXCEPT ![i] = e] /\ old.key = None
        /\ UNCHANGED <<option, keys, restored, writer>>
    BY <1>2, <2>1, <2>3, <2>5, <2>6 DEF ReEncryptInPlace, HasEncryptionEnvelope
  <2>8. /\ DOMAIN e = EventFields /\ e.stream = old.stream /\ e.subj = old.subj
        /\ e.tags = tags /\ e.key = key /\ e.rewritten = TRUE
    BY <2>2, <2>6 DEF EventFields
  <2>9. EventOK(e)
    BY <2>2, <2>4, <2>8 DEF EventOK
  <2> QED
    BY <2>1, <2>4, <2>7, <2>8, <2>9, SealMoves
<1>3. ASSUME NEW i \in DOMAIN events, NEW dst \in Streams, ReEncryptStream(i, dst) PROVE DataMove
  <2>1. PICK old : old = events[i]
    OBVIOUS
  <2>2. EventOK(old) /\ DOMAIN old = EventFields
    BY <2>1 DEF DataInv, EventOK
  <2>3. PICK tags : tags = IF option.tagger THEN old.subj ELSE old.tags
    OBVIOUS
  <2>4. tags = <<>> \/ tags = old.subj
    BY <2>2, <2>3 DEF EventOK
  <2>5. PICK key : key = IF HasEncryptionEnvelope(old) THEN resolveKeyID(tags) ELSE None
    OBVIOUS
  <2>6. key \in KeyIDs \cup {None}
    BY <2>2, <2>4, <2>5, ResolvedKey
  <2>7. PICK e : e = [old EXCEPT !.stream = dst, !.tags = tags, !.rewritten = FALSE, !.key = key]
    OBVIOUS
  <2>8. writer' = [stage |-> "prepared", event |-> e] /\ UNCHANGED <<option, events, keys, restored>>
    BY <1>3, <2>1, <2>3, <2>5, <2>7 DEF ReEncryptStream
  <2>9. /\ DOMAIN e = EventFields /\ e.stream = dst /\ e.subj = old.subj
        /\ e.tags = tags /\ e.key = key
    BY <2>2, <2>7 DEF EventFields
  <2>10. EventOK(e)
    BY <2>2, <2>4, <2>6, <2>9 DEF EventOK
  <2>11. WriterOK(writer')
    BY <2>8, <2>9, <2>10 DEF WriterOK
  <2> QED
    BY <2>8, <2>11, WriterMoves
<1> QED
  BY <1>1, <1>2, <1>3

LEMMA KeySteps ==
  ASSUME DataInv, NEW k \in KeyIDs
  PROVE  SoftRevokeKey(k) \/ UnrevokeKey(k) \/ WindowElapses(k) => DataMove
<1>0. keys[k] \in KeyStates
  BY DEF DataInv
<1>1. ASSUME SoftRevokeKey(k) PROVE DataMove
  <2>1. PICK s : s = SoftRevoke(option.provider, keys[k])
    OBVIOUS
  <2>2. keys' = [keys EXCEPT ![k] = s] /\ UNCHANGED <<option, events, writer, restored>>
    BY <1>1, <2>1 DEF SoftRevokeKey
  <2>3. /\ s \in KeyStates /\ (keys[k] = "gone" => s = "gone")
        /\ keys[k] \in {"soft", "gone"} => s \in {"soft", "gone"}
    BY <1>0, <2>1, SoftRevokeFacts
  <2> QED
    BY <2>2, <2>3, KeyMoves
<1>2. ASSUME UnrevokeKey(k) PROVE DataMove
  <2>1. PICK s \in Unrevoke(option.provider, keys[k]) : keys' = [keys EXCEPT ![k] = s]
    BY <1>2 DEF UnrevokeKey
  <2>2. restored' = restored \cup {k} /\ UNCHANGED <<option, events, writer>>
    BY <1>2 DEF UnrevokeKey
  <2>3. s \in KeyStates /\ (keys[k] = "gone" => s = "gone")
    BY <1>0, <2>1, UnrevokeFacts
  <2>4. k \in restored' /\ restored \subseteq restored'
    BY <2>2
  <2> QED
    BY <2>1, <2>2, <2>3, <2>4, KeyMoves
<1>3. ASSUME WindowElapses(k) PROVE DataMove
  <2>1. keys' = [keys EXCEPT ![k] = "gone"] /\ UNCHANGED <<option, events, writer, restored>>
    BY <1>3 DEF WindowElapses
  <2>2. "gone" \in KeyStates
    BY DEF KeyStates
  <2> QED
    BY <2>1, <2>2, KeyMoves
<1> QED
  BY <1>1, <1>2, <1>3

LEMMA DataSteps == ASSUME DataInv, DataNext PROVE DataMove
BY WriterSteps, UpkeepSteps, KeySteps DEF DataNext

LEMMA InitData == DataInit => DataInv
<1> SUFFICES ASSUME DataInit PROVE DataInv
  OBVIOUS
<1>1. option \in Setups /\ option.history \in Seq(Input)
  BY SetupsAssumption DEF DataInit
<1>2. keys \in [KeyIDs -> KeyStates]
  BY DEF DataInit, KeyStates
<1>3. WriterOK(writer)
  BY DEF DataInit, NoAppend, WriterOK
<1>4. PICK n \in Nat : n = Len(option.history)
  BY <1>1
<1>5. DOMAIN option.history = 1 .. n /\ \A i \in 1 .. n : option.history[i] \in Input
  BY <1>1, <1>4
<1>6. events = [i \in 1 .. n |-> prepareEventData(option.history[i])]
  BY <1>5 DEF DataInit
<1>7. events = [i \in 1 .. n |-> events[i]]
  BY <1>6
<1>8. IsSeq(events) /\ DOMAIN events = 1 .. n
  BY <1>6, <1>7, BuiltSeq
<1>9. \A i \in DOMAIN events : EventOK(events[i])
  <2> SUFFICES ASSUME NEW i \in 1 .. n PROVE EventOK(events[i])
    BY <1>8
  <2>1. PICK in \in Input : in = option.history[i] /\ events[i] = prepareEventData(in)
    BY <1>5, <1>6
  <2> QED
    BY <2>1, PreparedOK
<1> QED
  BY <1>1, <1>2, <1>3, <1>8, <1>9 DEF DataInv

-----------------------------------------------------------------------------
(* The steps of erasures, exports and sweeps. *)

LEMMA RevocationMoves ==
  ASSUME DataInv, NEW k \in KeyIDs, Revocable(option.provider),
         keys' = [keys EXCEPT ![k] = Revoke(option.provider, keys[k])],
         UNCHANGED <<option, events, writer, restored>>
  PROVE  DataMove /\ keys'[k] \in {"soft", "gone"}
<1>1. PICK s : s = Revoke(option.provider, keys[k])
  OBVIOUS
<1>2. s \in {"soft", "gone"} /\ (keys[k] = "gone" => s = "gone")
  BY <1>1, RevokeFacts
<1>3. s \in KeyStates /\ restored \subseteq restored'
  BY <1>2 DEF KeyStates
<1>4. keys' = [keys EXCEPT ![k] = s] /\ keys \in [KeyIDs -> KeyStates]
  BY <1>1 DEF DataInv
<1>5. DataMove
  BY <1>2, <1>3, <1>4, KeyMoves
<1> QED
  BY <1>2, <1>4, <1>5

LEMMA MarkerOK == ASSUME NEW sub PROVE EventOK(Marker(sub))
BY EmptySeq DEF EventOK, Marker, EventFields

LEMMA EraseFrames ==
  ASSUME EraseNext
  PROVE  DataSame \/ (\E k \in KeyIDs : RevokeKey(k)) \/ appendMarker
<1>1. ASSUME NEW sub, EraseSubject(sub) \/ EraseFilter(sub) PROVE DataSame
  BY <1>1 DEF EraseSubject, EraseFilter, Start, DataSame, data
<1>2. ASSUME NEW sub, NEW S, EraseStreams(sub, S) PROVE DataSame
  BY <1>2 DEF EraseStreams, Start, DataSame, data
<1>3. ASSUME NEW sub, NEW k, EraseKey(sub, k) PROVE DataSame
  BY <1>3 DEF EraseKey, Start, DataSame, data
<1>4. ASSUME GuardPasses \/ GuardRefuses \/ GuardScanFails \/ RevocationUnsupported
             \/ reconcileAfterRevoke \/ ReconcileFails \/ AllRevoked
      PROVE  DataSame
  BY <1>4 DEF GuardPasses, GuardRefuses, GuardScanFails, RevocationUnsupported, reconcileAfterRevoke,
              ReconcileFails, AllRevoked, DataSame, data
<1>5. ASSUME NEW k, RevokeFails(k) \/ SubjectStoreFails(k) PROVE DataSame
  BY <1>5 DEF RevokeFails, SubjectStoreFails, DataSame
<1>6. ASSUME redactReadModels \/ RedactFails \/ eraseSubjectStores \/ runErasureHooks \/ HookFails
      PROVE  DataSame
  BY <1>6 DEF redactReadModels, RedactFails, eraseSubjectStores, runErasureHooks, HookFails,
              DataSame, data
<1>7. ASSUME \/ MarkerFails \/ emitCertificate \/ EvidenceFails \/ CertificateLost
             \/ purgeSubjectIndex \/ EraserCrashes
      PROVE  DataSame
  BY <1>7 DEF MarkerFails, emitCertificate, EvidenceFails, CertificateLost, purgeSubjectIndex, EraserCrashes,
              DataSame, data
<1>8. ASSUME NEW sub, Verify(sub) PROVE DataSame
  BY <1>8 DEF Verify, DataSame, data
<1> QED
  BY <1>1, <1>2, <1>3, <1>4, <1>5, <1>6, <1>7, <1>8 DEF EraseNext, Erase

LEMMA EraseSteps == ASSUME DataInv, EraseNext PROVE DataMove
<1>1. CASE \E k \in KeyIDs : RevokeKey(k)
  <2>1. PICK k \in KeyIDs : RevokeKey(k)
    BY <1>1
  <2>2. /\ Revocable(option.provider) /\ keys' = [keys EXCEPT ![k] = Revoke(option.provider, keys[k])]
        /\ UNCHANGED <<option, events, writer, restored>>
    BY <2>1 DEF RevokeKey
  <2> QED
    BY <2>2, RevocationMoves
<1>2. CASE appendMarker
  <2>0. UNCHANGED <<option, keys, restored, writer>>
    BY <1>2 DEF appendMarker
  <2>1. CASE events' = events
    BY <2>0, <2>1, SameMoves DEF DataSame
  <2>2. CASE events' = Append(events, Marker(er.subject))
    <3>1. WriterOK(writer')
      BY <2>0 DEF DataInv
    <3> QED
      BY <2>0, <2>2, <3>1, AppendMoves, MarkerOK
  <2> QED
    BY <1>2, <2>1, <2>2 DEF appendMarker
<1> QED
  BY <1>1, <1>2, EraseFrames, SameMoves

LEMMA ExportSteps == ASSUME ExportNext PROVE DataSame /\ UNCHANGED erasureVars
<1>1. ASSUME NEW sub, NEW kind, NEW S, NEW partial, NEW owed, Begin(sub, kind, S, partial, owed)
      PROVE  DataSame /\ UNCHANGED erasureVars
  BY <1>1 DEF Begin, DataSame, data
<1>2. ASSUME NEW st, exportFromStreams(st) PROVE DataSame /\ UNCHANGED erasureVars
  BY <1>2 DEF exportFromStreams, DataSame, data
<1>3. ASSUME FilterEvent \/ TaggerIsBlind \/ checkRevoked \/ CheckFails
      PROVE  DataSame /\ UNCHANGED erasureVars
  BY <1>3 DEF FilterEvent, TaggerIsBlind, checkRevoked, CheckFails, DataSame, data
<1>4. ASSUME decryptEvent \/ DecryptFails \/ ExportFails \/ ExportDone
      PROVE  DataSame /\ UNCHANGED erasureVars
  BY <1>4 DEF decryptEvent, DecryptFails, ExportFails, ExportDone, DataSame, data
<1> QED
  BY <1>1, <1>2, <1>3, <1>4 DEF ExportNext, Export, ExportStream, ExportStreams

LEMMA RetainFrames ==
  ASSUME RetainNext
  PROVE  UNCHANGED <<erasureVars, exportVars>> /\ (DataSame \/ \E k \in KeyIDs : SweepRevokes(k))
<1>1. ASSUME NEW k, SweepRevokes(k) PROVE UNCHANGED <<erasureVars, exportVars>>
  BY <1>1 DEF SweepRevokes
<1>2. ASSUME NEW i, Grow(i) PROVE DataSame /\ UNCHANGED <<erasureVars, exportVars>>
  BY <1>2 DEF Grow, DataSame, data
<1>3. ASSUME NEW dry, Sweep(dry) PROVE DataSame /\ UNCHANGED <<erasureVars, exportVars>>
  BY <1>3 DEF Sweep, DataSame, data
<1>4. ASSUME Scan \/ ApplyFails PROVE DataSame /\ UNCHANGED <<erasureVars, exportVars>>
  BY <1>4 DEF Scan, ApplyFails, ScanStep, DataSame, data
<1>5. ASSUME ScanEnds \/ guardSharedKeys \/ Settle \/ SweepDies
      PROVE  DataSame /\ UNCHANGED <<erasureVars, exportVars>>
  BY <1>5 DEF ScanEnds, guardSharedKeys, Settle, SweepDies, DataSame, data
<1>6. ASSUME NEW k, SweepRevokeFails(k) PROVE DataSame /\ UNCHANGED <<erasureVars, exportVars>>
  BY <1>6 DEF SweepRevokeFails, DataSame
<1> QED
  BY <1>1, <1>2, <1>3, <1>4, <1>5, <1>6 DEF RetainNext

LEMMA SweepSteps == ASSUME DataInv, RetainNext PROVE DataMove /\ UNCHANGED erasureVars
<1>1. CASE \E k \in KeyIDs : SweepRevokes(k)
  <2>1. PICK k \in KeyIDs : SweepRevokes(k)
    BY <1>1
  <2>2. /\ Revocable(option.provider) /\ keys' = [keys EXCEPT ![k] = Revoke(option.provider, keys[k])]
        /\ UNCHANGED <<option, events, writer, restored>> /\ UNCHANGED erasureVars
    BY <2>1 DEF SweepRevokes
  <2> QED
    BY <2>2, RevocationMoves
<1> QED
  BY <1>1, RetainFrames, SameMoves

LEMMA EveryStepMoves == ASSUME DataInv, [Next]_vars PROVE DataMove
<1>1. ASSUME UNCHANGED vars PROVE DataSame
  BY <1>1 DEF vars, data, DataSame
<1> QED
  BY <1>1, SameMoves, DataSteps, EraseSteps, ExportSteps, SweepSteps DEF Next

LEMMA ToolFrame == ASSUME ToolInv, DataSame PROVE ToolInv'
BY DEF ToolInv, DataSame

LEMMA RevocationTools ==
  ASSUME DataInv, ToolInv, NEW k \in KeyIDs, Revocable(option.provider),
         keys' = [keys EXCEPT ![k] = Revoke(option.provider, keys[k])],
         UNCHANGED <<option, events, writer, restored>>
  PROVE  ToolInv'
<1>1. option' = option /\ events' = events /\ writer' = writer /\ restored' = restored
  OBVIOUS
<1>2. keys'[k] \in {"soft", "gone"}
  BY RevocationMoves
<1>3. \A j \in KeyIDs : j # k => keys'[j] = keys[j]
  BY DEF DataInv
<1> QED
  BY <1>1, <1>2, <1>3 DEF ToolInv

LEMMA StoreTools == ASSUME DataInv, ToolInv, Store PROVE ToolInv'
<1>1. DOMAIN writer = {"stage", "event"}
  BY DEF DataInv, WriterOK, Store
<1>2. PICK e : e = writer.event
  OBVIOUS
<1>3. /\ events' = Append(events, e) /\ writer' = [writer EXCEPT !.stage = "stored"]
      /\ option' = option /\ keys' = keys /\ restored' = restored /\ writer.stage = "prepared"
  BY <1>2 DEF Store
<1>4. writer'.event = e /\ (e.tags # <<>> => option.tagger)
  BY <1>1, <1>2, <1>3 DEF ToolInv
<1>5. IsSeq(events)
  BY DEF DataInv
<1>6. /\ \A i \in DOMAIN events : events'[i] = events[i]
      /\ \A i \in DOMAIN events' : i \in DOMAIN events \/ events'[i] = e
  BY <1>3, <1>5, AppendedSeq
<1>7. \A i \in DOMAIN events' : events'[i].tags # <<>> => option.tagger
  BY <1>4, <1>6 DEF ToolInv
<1> QED
  BY <1>3, <1>4, <1>7 DEF ToolInv

LEMMA SealTools ==
  ASSUME DataInv, ToolInv, NEW i \in DOMAIN events, ReEncryptInPlace(i)
  PROVE  ToolInv'
<1>1. PICK old : old = events[i]
  OBVIOUS
<1>2. EventOK(old) /\ DOMAIN old = EventFields
  BY <1>1 DEF DataInv, EventOK
<1>3. PICK tags : tags = IF option.tagger THEN old.subj ELSE old.tags
  OBVIOUS
<1>4. tags # <<>> => option.tagger
  BY <1>1, <1>3 DEF ToolInv
<1>5. PICK e : e = [old EXCEPT !.tags = tags, !.key = resolveKeyID(tags), !.rewritten = TRUE]
  OBVIOUS
<1>6. events' = [events EXCEPT ![i] = e] /\ UNCHANGED <<option, keys, restored, writer>>
  BY <1>1, <1>3, <1>5 DEF ReEncryptInPlace
<1>7. e.tags = tags
  BY <1>2, <1>5 DEF EventFields
<1>8. DOMAIN events' = DOMAIN events /\ \A j \in DOMAIN events : events'[j] = IF j = i THEN e ELSE events[j]
  BY <1>6 DEF DataInv, IsSeq
<1>9. \A j \in DOMAIN events' : events'[j].tags # <<>> => option.tagger
  BY <1>4, <1>7, <1>8 DEF ToolInv
<1> QED
  BY <1>6, <1>9 DEF ToolInv

LEMMA DataTools == ASSUME DataInv, ToolInv, DataNext PROVE ToolInv'
<1>1. ASSUME NEW in, Prepare(in) PROVE ToolInv'
  <2>1. PICK e : e = prepareEventData(in)
    OBVIOUS
  <2>2. /\ writer' = [stage |-> "prepared", event |-> e]
        /\ option' = option /\ events' = events /\ keys' = keys /\ restored' = restored
    BY <1>1, <2>1 DEF Prepare
  <2>3. e.tags # <<>> => option.tagger
    BY <2>1 DEF prepareEventData, applySubjectTagPolicy
  <2> QED
    BY <2>2, <2>3 DEF ToolInv
<1>2. ASSUME writeSubjectIndex \/ IndexWriteFails PROVE ToolInv'
  <2>1. /\ writer'.stage = "idle"
        /\ option' = option /\ events' = events /\ keys' = keys /\ restored' = restored
    BY <1>2 DEF writeSubjectIndex, IndexWriteFails, NoAppend
  <2> QED
    BY <2>1 DEF ToolInv
<1>3. ASSUME BackfillSubjectIndex PROVE ToolInv'
  BY <1>3, ToolFrame DEF BackfillSubjectIndex, DataSame
<1>4. ASSUME NEW i \in DOMAIN events, NEW dst, ReEncryptStream(i, dst) PROVE ToolInv'
  <2>1. PICK old : old = events[i]
    OBVIOUS
  <2>2. DOMAIN old = EventFields
    BY <2>1 DEF DataInv, EventOK
  <2>3. PICK tags : tags = IF option.tagger THEN old.subj ELSE old.tags
    OBVIOUS
  <2>4. tags # <<>> => option.tagger
    BY <2>1, <2>3 DEF ToolInv
  <2>5. PICK key : key = IF HasEncryptionEnvelope(old) THEN resolveKeyID(tags) ELSE None
    OBVIOUS
  <2>6. PICK e : e = [old EXCEPT !.stream = dst, !.tags = tags, !.rewritten = FALSE, !.key = key]
    OBVIOUS
  <2>7. /\ writer' = [stage |-> "prepared", event |-> e]
        /\ option' = option /\ events' = events /\ keys' = keys /\ restored' = restored
    BY <1>4, <2>1, <2>3, <2>5, <2>6 DEF ReEncryptStream
  <2>8. e.tags = tags
    BY <2>2, <2>6 DEF EventFields
  <2> QED
    BY <2>4, <2>7, <2>8 DEF ToolInv
<1>5. ASSUME option.upkeep, NEW k, SoftRevokeKey(k) \/ UnrevokeKey(k) PROVE ToolInv'
  <2>1. option' = option /\ events' = events /\ writer' = writer
    BY <1>5 DEF SoftRevokeKey, UnrevokeKey
  <2> QED
    BY <1>5, <2>1 DEF ToolInv
<1>6. ASSUME NEW k \in KeyIDs, WindowElapses(k) PROVE ToolInv'
  <2>1. /\ keys' = [keys EXCEPT ![k] = "gone"]
        /\ option' = option /\ events' = events /\ writer' = writer /\ restored' = restored
    BY <1>6 DEF WindowElapses
  <2>2. \A j \in KeyIDs : keys'[j] = keys[j] \/ keys'[j] = "gone"
    BY <2>1 DEF DataInv
  <2> QED
    BY <2>1, <2>2 DEF ToolInv
<1> QED
  BY <1>1, <1>2, <1>3, <1>4, <1>5, <1>6, StoreTools, SealTools DEF DataNext

LEMMA MarkerTools == ASSUME DataInv, ToolInv, appendMarker PROVE ToolInv'
<1>1. option' = option /\ keys' = keys /\ restored' = restored /\ writer' = writer
  BY DEF appendMarker
<1>2. events' = events \/ events' = Append(events, Marker(er.subject))
  BY DEF appendMarker
<1>3. IsSeq(events)
  BY DEF DataInv
<1>4. Marker(er.subject).tags = <<>>
  BY DEF Marker
<1>5. \A i \in DOMAIN events' : events'[i].tags # <<>> => option.tagger
  <2>1. CASE events' = events
    BY <2>1 DEF ToolInv
  <2>2. CASE events' = Append(events, Marker(er.subject))
    <3>1. /\ \A i \in DOMAIN events : events'[i] = events[i]
          /\ \A i \in DOMAIN events' : i \in DOMAIN events \/ events'[i] = Marker(er.subject)
      BY <1>3, <2>2, AppendedSeq
    <3> QED
      BY <1>4, <3>1 DEF ToolInv
  <2> QED
    BY <1>2, <2>1, <2>2
<1> QED
  BY <1>1, <1>5 DEF ToolInv

LEMMA EveryStepTools == ASSUME DataInv, ToolInv, [Next]_vars PROVE ToolInv'
<1>1. ASSUME UNCHANGED vars PROVE DataSame
  BY <1>1 DEF vars, data, DataSame
<1>2. ASSUME NEW k \in KeyIDs, RevokeKey(k) \/ SweepRevokes(k) PROVE ToolInv'
  <2>1. /\ Revocable(option.provider) /\ keys' = [keys EXCEPT ![k] = Revoke(option.provider, keys[k])]
        /\ UNCHANGED <<option, events, writer, restored>>
    BY <1>2 DEF RevokeKey, SweepRevokes
  <2> QED
    BY <2>1, RevocationTools
<1> QED
  BY <1>1, <1>2, ToolFrame, DataTools, MarkerTools, EraseFrames, ExportSteps, RetainFrames DEF Next

-----------------------------------------------------------------------------
(* The shared-key guard. *)

(* Who is attributed at all is attributed as the payload says. *)
LEMMA Attributed ==
  ASSUME NEW e, EventOK(e)
  PROVE  attributeSubjects(e) = {} \/ attributeSubjects(e) = Range(e.subj)
BY DEF attributeSubjects, EventOK

LEMMA GuardSpares ==
  ASSUME DataInv, NEW sub, NEW K, detectSharedKeys(sub, K) = {}
  PROVE  K \cap Foreign(sub) = {}
<1> SUFFICES ASSUME NEW k \in K, k \in Foreign(sub) PROVE FALSE
  OBVIOUS
<1>1. PICK i \in DOMAIN events : events[i].key = k /\ Range(events[i].subj) \ {sub} # {}
  BY DEF Foreign, KeysOf
<1>2. attributeSubjects(events[i]) = {} \/ attributeSubjects(events[i]) = Range(events[i].subj)
  BY <1>1, Attributed DEF DataInv
<1>3. attributeSubjects(events[i]) # {sub}
  BY <1>1, <1>2
<1>4. k \in detectSharedKeys(sub, K)
  BY <1>1, <1>3 DEF detectSharedKeys
<1> QED
  BY <1>4

LEMMA NoErasureFacts == DOMAIN NoErasure = ErasureFields /\ NoErasure.pc = "idle"
BY DEF NoErasure, ErasureFields

LEMMA StartFacts ==
  ASSUME NEW sub, NEW fp, NEW partial, NEW resolved, NEW owed, Start(sub, fp, partial, resolved, owed)
  PROVE  /\ DOMAIN er' = ErasureFields /\ er'.pc = "guard" /\ er'.subject = sub
         /\ er'.streams = fp.streams /\ er'.owed = owed /\ er'.partial = partial
         /\ UNCHANGED <<certified, leftover, victims>> /\ UNCHANGED data
<1>1. er' = [NoErasure EXCEPT
              !.pc = "guard", !.subject = sub, !.resolved = resolved, !.matched = fp.matched,
              !.keys = fp.keys, !.todo = fp.keys, !.streams = fp.streams, !.shared = fp.shared,
              !.partial = partial, !.owed = owed]
  BY DEF Start
<1>2. UNCHANGED <<certified, leftover, victims>> /\ UNCHANGED data
  BY DEF Start
<1>3. DOMAIN NoErasure = ErasureFields
  BY NoErasureFacts
<1> QED
  BY <1>1, <1>2, <1>3 DEF ErasureFields

(* What a step may do to the erasure as far as the guard is concerned. *)
GuardStep ==
  /\ DOMAIN er' = ErasureFields /\ victims' = victims
  /\ er'.pc # "revoke" \/ (er.pc = "revoke" /\ er'.todo \subseteq er.todo /\ er'.foreign = er.foreign)

LEMMA GuardStepKeeps == ASSUME GuardInv, GuardStep PROVE GuardInv'
BY DEF GuardInv, GuardStep

LEMMA AbortIsGuardStep == ASSUME Abort, victims' = victims PROVE GuardStep
BY NoErasureFacts DEF Abort, GuardStep

LEMMA EraseGuard == ASSUME DataInv, GuardInv, EraseNext PROVE GuardInv'
<1> USE DEF ErasureFields
<1>0. DOMAIN er = ErasureFields /\ victims = {}
  BY DEF GuardInv
<1>1. ASSUME NEW sub, NEW fp, NEW partial, NEW resolved, NEW owed, Start(sub, fp, partial, resolved, owed)
      PROVE  GuardInv'
  <2>1. GuardStep
    BY <1>1, StartFacts DEF GuardStep
  <2> QED
    BY <2>1, GuardStepKeeps
<1>2. CASE \E sub \in option.targets : EraseSubject(sub) \/ EraseFilter(sub)
  BY <1>1, <1>2 DEF EraseSubject, EraseFilter
<1>3. CASE \E sub \in option.targets : \E S \in SUBSET Streams \ {{}} : EraseStreams(sub, S)
  BY <1>1, <1>3 DEF EraseStreams
<1>4. CASE \E sub \in option.targets : \E k \in KeyIDs : EraseKey(sub, k)
  BY <1>1, <1>4 DEF EraseKey
<1>5. CASE GuardPasses
  <2>1. PICK f : f = IF option.guard THEN Foreign(er.subject) ELSE {}
    OBVIOUS
  <2>2. er' = [er EXCEPT !.pc = "revoke", !.foreign = f] /\ victims' = victims
    BY <1>5, <2>1 DEF GuardPasses
  <2>3. DOMAIN er' = ErasureFields /\ er'.todo = er.todo /\ er'.foreign = f
    BY <1>0, <2>2
  <2>4. er.todo \cap f = {}
    BY <1>5, <2>1, GuardSpares DEF GuardPasses
  <2> QED
    BY <1>0, <2>2, <2>3, <2>4 DEF GuardInv
<1>6. CASE GuardRefuses \/ GuardScanFails
  <2>0. victims' = victims /\ Refused
    BY <1>6 DEF GuardRefuses, GuardScanFails
  <2>1. CASE Abort
    BY <2>0, <2>1, AbortIsGuardStep, GuardStepKeeps
  <2>2. CASE er' = [er EXCEPT !.pc = "models", !.todo = {}, !.partial = TRUE, !.errors = TRUE]
    <3>1. GuardStep
      BY <1>0, <2>0, <2>2 DEF GuardStep
    <3> QED
      BY <3>1, GuardStepKeeps
  <2> QED
    BY <2>0, <2>1, <2>2 DEF Refused
<1>7. CASE \E k \in KeyIDs : RevokeKey(k)
  <2>1. PICK k \in KeyIDs : RevokeKey(k)
    BY <1>7
  <2>2. /\ er.pc = "revoke" /\ k \in er.todo /\ er' = [er EXCEPT !.todo = er.todo \ {k}]
        /\ victims' = victims \cup ({k} \cap er.foreign)
    BY <2>1 DEF RevokeKey
  <2>3. er.todo \cap er.foreign = {}
    BY <2>2 DEF GuardInv
  <2>4. victims' = {}
    BY <1>0, <2>2, <2>3
  <2>5. DOMAIN er' = ErasureFields /\ er'.todo = er.todo \ {k} /\ er'.foreign = er.foreign
    BY <1>0, <2>2
  <2> QED
    BY <2>3, <2>4, <2>5 DEF GuardInv
<1>8. CASE \E k \in KeyIDs : RevokeFails(k)
  <2>1. PICK k \in KeyIDs : RevokeFails(k)
    BY <1>8
  <2>2. /\ er.pc = "revoke" /\ victims' = victims
        /\ er' = [er EXCEPT !.todo = er.todo \ {k}, !.failed = er.failed \cup {k}, !.errors = TRUE]
    BY <2>1 DEF RevokeFails
  <2>3. GuardStep
    BY <1>0, <2>2 DEF GuardStep
  <2> QED
    BY <2>3, GuardStepKeeps
<1>9. CASE RevocationUnsupported \/ purgeSubjectIndex \/ EraserCrashes
  <2>1. Abort /\ victims' = victims
    BY <1>9 DEF RevocationUnsupported, purgeSubjectIndex, EraserCrashes
  <2> QED
    BY <2>1, AbortIsGuardStep, GuardStepKeeps
<1>10. CASE reconcileAfterRevoke
  <2>1. PICK new : new = resolve(er.subject).keys \ er.keys
    OBVIOUS
  <2>2. PICK pc : pc = IF new = {} THEN "models" ELSE "guard"
    OBVIOUS
  <2>3. /\ er' = [er EXCEPT !.pc = pc, !.late = TRUE, !.todo = new, !.keys = er.keys \cup new,
                             !.partial = er.partial \/ new # {}, !.errors = er.errors \/ new # {}]
        /\ victims' = victims
    BY <1>10, <2>1, <2>2 DEF reconcileAfterRevoke
  <2>4. GuardStep
    BY <1>0, <2>2, <2>3 DEF GuardStep
  <2> QED
    BY <2>4, GuardStepKeeps
<1>11. CASE ReconcileFails \/ AllRevoked \/ redactReadModels \/ RedactFails
  <2>1. GuardStep
    BY <1>0, <1>11 DEF GuardStep, ReconcileFails, AllRevoked, redactReadModels, RedactFails, Set
  <2> QED
    BY <2>1, GuardStepKeeps
<1>12. CASE \/ eraseSubjectStores \/ runErasureHooks \/ HookFails \/ appendMarker \/ emitCertificate
            \/ EvidenceFails
  <2>1. GuardStep
    BY <1>0, <1>12 DEF GuardStep, eraseSubjectStores, runErasureHooks, HookFails, appendMarker,
                       emitCertificate, EvidenceFails, Set
  <2> QED
    BY <2>1, GuardStepKeeps
<1>13. CASE \E k \in option.stores : SubjectStoreFails(k)
  <2>1. GuardStep
    BY <1>0, <1>13 DEF GuardStep, SubjectStoreFails
  <2> QED
    BY <2>1, GuardStepKeeps
<1>14. CASE MarkerFails \/ CertificateLost
  <2>0. victims' = victims
    BY <1>14 DEF MarkerFails, CertificateLost
  <2>1. CASE Abort
    BY <2>0, <2>1, AbortIsGuardStep, GuardStepKeeps
  <2>2. CASE ~ Abort
    <3>1. GuardStep
      BY <1>0, <1>14, <2>0, <2>2 DEF GuardStep, MarkerFails, CertificateLost
    <3> QED
      BY <3>1, GuardStepKeeps
  <2> QED
    BY <2>1, <2>2
<1>15. CASE \E sub \in option.targets : Verify(sub)
  <2>1. er' = er /\ victims' = victims
    BY <1>15 DEF Verify
  <2> QED
    BY <2>1 DEF GuardInv
<1> HIDE DEF ErasureFields
<1> QED
  BY <1>2, <1>3, <1>4, <1>5, <1>6, <1>7, <1>8, <1>9, <1>10, <1>11, <1>12, <1>13, <1>14, <1>15
     DEF EraseNext, Erase

-----------------------------------------------------------------------------
(* Sweeps. *)

LEMMA LeastIsLeast ==
  ASSUME NEW S \in SUBSET Nat, S # {}
  PROVE  LeastOf(S) \in S /\ \A m \in S : LeastOf(S) <= m
<1> DEFINE R == {ss \in Nat \X Nat : ss[1] < ss[2]}
<1>0. IsWellFoundedOn(R, Nat)
  BY NatLessThanWellFounded DEF OpToRel
<1> HIDE DEF R
<1>1. PICK x \in S : \A y \in S : ~ (<<y, x>> \in R)
  BY <1>0, WFMin
<1>2. ASSUME NEW y \in S, y < x PROVE FALSE
  <2>1. <<y, x>> \in Nat \X Nat /\ <<y, x>>[1] < <<y, x>>[2]
    BY <1>2
  <2>2. <<y, x>> \in R
    BY <2>1, Zenon DEF R
  <2> QED
    BY <1>1, <2>2
<1>3. \A y \in S : x <= y
  BY <1>2
<1> QED
  BY <1>3 DEF LeastOf

(* What is sealed and was not rewritten is what it was. *)
LEMMA ShreddableBefore ==
  ASSUME DataInv, DataMove, NEW i \in DOMAIN events, Shreddable(i)'
  PROVE  Shreddable(i) /\ events'[i] = events[i] /\ events[i].key \in KeyIDs
<1>1. option' = option /\ (events'[i] = events[i] \/ events'[i].rewritten = TRUE)
  BY DEF DataMove, LogMove
<1>2. events'[i] = events[i]
  BY <1>1 DEF Shreddable
<1>3. Shreddable(i)
  BY <1>1, <1>2 DEF Shreddable, active, matchesStatic, HasEncryptionEnvelope
<1>4. events[i].key \in KeyIDs
  BY <1>3 DEF DataInv, EventOK, Shreddable, HasEncryptionEnvelope
<1> QED
  BY <1>2, <1>3, <1>4

LEMMA SweepFrame ==
  ASSUME DataInv, DataMove, ScopeInv, SettleInv, UNCHANGED <<sw, checkpoint, strays>>
  PROVE  ScopeInv' /\ SettleInv'
<1>0. sw' = sw /\ checkpoint' = checkpoint /\ strays' = strays
  OBVIOUS
<1>1. option' = option /\ Len(events) <= Len(events')
  BY DEF DataMove, LogMove
<1>2. /\ DOMAIN events = 1 .. Len(events) /\ Len(events) \in Nat
      /\ DOMAIN events' = 1 .. Len(events') /\ Len(events') \in Nat
  BY SeqDomain DEF DataMove, DataInv
<1>3. ScopeInv'
  <2>1. ASSUME NEW k \in sw.outside, sw.pc \in {"scan", "guard"}
        PROVE  \E i \in DOMAIN events' : events'[i].key = k /\ k # None /\ ~ coveredByShred(i, sw.now)'
    <3>1. PICK i \in DOMAIN events : events[i].key = k /\ k # None /\ ~ coveredByShred(i, sw.now)
      BY <2>1 DEF ScopeInv
    <3>2. events'[i] = events[i] /\ i \in DOMAIN events'
      BY <3>1 DEF DataMove, LogMove
    <3>3. ~ coveredByShred(i, sw.now)'
      BY <1>0, <1>1, <3>1, <3>2 DEF coveredByShred, active, matchesStatic, ageEligible
    <3> QED
      BY <3>1, <3>2, <3>3
  <2> QED
    BY <1>0, <2>1 DEF ScopeInv
<1>4. ASSUME NEW k \in KeyIDs, Lost(k) PROVE Lost(k)'
  BY <1>4 DEF DataMove, KeyMove
<1>5. checkpoint \in Nat /\ checkpoint <= Len(events)
  BY DEF SettleInv
<1>6. ASSUME NEW i \in DOMAIN events', i <= checkpoint, Shreddable(i)' PROVE Lost(events[i].key)'
  <2>1. i \in DOMAIN events
    BY <1>2, <1>5, <1>6
  <2>2. Shreddable(i) /\ events'[i] = events[i] /\ events[i].key \in KeyIDs
    BY <1>6, <2>1, ShreddableBefore
  <2>3. PICK k \in KeyIDs : k = events[i].key /\ k = events'[i].key
    BY <2>2
  <2>4. Lost(k)
    BY <1>6, <2>1, <2>2, <2>3 DEF SettleInv
  <2>5. Lost(k)'
    BY <1>4, <2>4
  <2> QED
    BY <2>3, <2>5 DEF Lost
<1>7. SweepInv'
  <2> SUFFICES ASSUME sw.pc # "idle" PROVE SweepInv'
    BY <1>0 DEF SweepInv
  <2>1. /\ sw.start \in Nat /\ sw.frontier \in Nat /\ sw.pos \in Nat
        /\ sw.start <= sw.frontier /\ sw.frontier <= sw.pos /\ sw.pos <= Len(events)
    BY DEF SettleInv, SweepInv
  <2>2. ASSUME NEW i \in DOMAIN events', sw.start < i, i <= sw.frontier, Shreddable(i)'
        PROVE  \E c \in sw.cand : c[1] = events'[i].key /\ c[2] < i
    <3>1. i \in DOMAIN events
      BY <1>2, <2>1, <2>2
    <3>2. Shreddable(i) /\ events'[i] = events[i]
      BY <2>2, <3>1, ShreddableBefore
    <3> QED
      BY <2>2, <3>1, <3>2 DEF SettleInv, SweepInv
  <2>3. sw.revoked \subseteq KeyIDs /\ \A k \in sw.revoked : Lost(k)'
    BY <1>4 DEF SettleInv, SweepInv
  <2>4. /\ option.checkpoint => sw.start = checkpoint
        /\ ~ sw.frozen => sw.pos = sw.frontier
        /\ \A c \in sw.cand : c[2] \in Nat /\ c[2] <= sw.frontier
    BY DEF SettleInv, SweepInv
  <2>5. sw.pos <= Len(events')
    BY <1>1, <1>2, <2>1
  <2> QED
    BY <1>0, <1>1, <2>1, <2>2, <2>3, <2>4, <2>5 DEF SweepInv
<1>8. checkpoint <= Len(events')
  BY <1>1, <1>2, <1>5
<1> QED
  BY <1>0, <1>3, <1>5, <1>6, <1>7, <1>8 DEF SettleInv

(* The part of SettleInv that is not about the sweep under way. *)
Behind ==
  /\ checkpoint \in Nat /\ checkpoint <= Len(events)
  /\ \A i \in DOMAIN events : i <= checkpoint /\ Shreddable(i) => Lost(events[i].key)

LEMMA BehindFrame ==
  ASSUME DataInv, DataSame, Behind, checkpoint' = checkpoint
  PROVE  Behind'
<1>1. option' = option /\ events' = events /\ keys' = keys /\ restored' = restored
  BY DEF DataSame
<1> QED
  BY <1>1 DEF Behind, Shreddable, Lost, active, matchesStatic, HasEncryptionEnvelope

LEMMA NoSweepFacts == DOMAIN NoSweep = SweepFields /\ NoSweep.pc = "idle"
BY DEF NoSweep, SweepFields

LEMMA IdleSweep ==
  ASSUME sw' = NoSweep, strays' = {} PROVE ScopeInv' /\ SweepInv'
BY NoSweepFacts DEF ScopeInv, SweepInv

LEMMA SweepBegins ==
  ASSUME DataInv, ScopeInv, SettleInv, NEW dry, Sweep(dry)
  PROVE  ScopeInv' /\ SettleInv'
<1>0. DataSame /\ checkpoint' = checkpoint /\ strays' = strays
  BY DEF Sweep, DataSame, data
<1>1. option' = option /\ events' = events /\ keys' = keys
  BY <1>0 DEF DataSame
<1>2. checkpoint \in Nat /\ checkpoint <= Len(events) /\ strays = {} /\ Len(events) \in Nat
  BY DEF SettleInv, ScopeInv, DataInv, IsSeq
<1>3. PICK from \in Nat : from = IF option.checkpoint THEN checkpoint ELSE 0
  BY <1>2
<1>4. PICK out : out = KeysOf({i \in DOMAIN events : ~ coveredByShred(i, aged)})
  OBVIOUS
<1>5. sw' = [NoSweep EXCEPT !.pc = "scan", !.dry = dry, !.start = from, !.pos = from,
                            !.frontier = from, !.now = aged, !.outside = out]
  BY <1>3, <1>4 DEF Sweep
<1>6. /\ DOMAIN sw' = SweepFields /\ sw'.pc = "scan" /\ sw'.start = from /\ sw'.pos = from
      /\ sw'.frontier = from /\ sw'.now = aged /\ sw'.outside = out /\ sw'.cand = {} /\ sw'.revoked = {}
  BY <1>5 DEF NoSweep, SweepFields
<1>7. ScopeInv'
  <2>1. ASSUME NEW k \in out
        PROVE  \E i \in DOMAIN events' : events'[i].key = k /\ k # None /\ ~ coveredByShred(i, sw.now)'
    <3>1. PICK i \in DOMAIN events : events[i].key = k /\ k # None /\ ~ coveredByShred(i, aged)
      BY <1>4, <2>1 DEF KeysOf, HasEncryptionEnvelope
    <3>2. ~ coveredByShred(i, sw.now)'
      BY <1>1, <1>6, <3>1 DEF coveredByShred, active, matchesStatic, ageEligible
    <3> QED
      BY <1>1, <3>1, <3>2
  <2> QED
    BY <1>0, <1>2, <1>6, <2>1 DEF ScopeInv
<1>8. SweepInv'
  <2>1. from <= Len(events) /\ (option.checkpoint => from = checkpoint)
    BY <1>2, <1>3
  <2>2. \A i \in DOMAIN events' : ~ (from < i /\ i <= from)
    <3>1. DOMAIN events' \subseteq Nat
      BY <1>1, SeqDomain DEF DataInv
    <3> QED
      BY <3>1
  <2> QED
    BY <1>0, <1>1, <1>6, <2>1, <2>2 DEF SweepInv
<1> QED
  BY <1>0, <1>7, <1>8, BehindFrame DEF SettleInv, Behind

(* A step of the sweep that changes none of what it has found. *)
LEMMA SweepStays ==
  ASSUME DataInv, DataSame, ScopeInv, SettleInv, UNCHANGED <<checkpoint, strays>>,
         sw.pc # "idle", DOMAIN sw' = SweepFields,
         sw'.pc \in {"scan", "guard"} => sw.pc \in {"scan", "guard"},
         sw'.pc = "revoke" => sw'.todo \cap sw'.outside = {},
         sw'.start = sw.start, sw'.pos = sw.pos, sw'.frontier = sw.frontier,
         sw'.frozen = sw.frozen, sw'.now = sw.now, sw'.cand = sw.cand,
         sw'.revoked = sw.revoked, sw'.outside = sw.outside
  PROVE  ScopeInv' /\ SettleInv'
<1>1. option' = option /\ events' = events /\ keys' = keys /\ restored' = restored
  BY DEF DataSame
<1>2. strays' = {} /\ checkpoint' = checkpoint
  BY DEF ScopeInv
<1>3. ScopeInv'
  <2>1. ASSUME NEW k \in sw.outside, sw.pc \in {"scan", "guard"}
        PROVE  \E i \in DOMAIN events' : events'[i].key = k /\ k # None /\ ~ coveredByShred(i, sw.now)'
    <3>1. PICK i \in DOMAIN events : events[i].key = k /\ k # None /\ ~ coveredByShred(i, sw.now)
      BY <2>1 DEF ScopeInv
    <3>2. ~ coveredByShred(i, sw.now)'
      BY <1>1, <3>1 DEF coveredByShred, active, matchesStatic, ageEligible
    <3> QED
      BY <1>1, <3>1, <3>2
  <2> QED
    BY <1>2, <2>1 DEF ScopeInv
<1>4. SweepInv
  BY DEF SettleInv
<1>5. SweepInv'
  <2>1. \A i : Shreddable(i)' <=> Shreddable(i)
    BY <1>1 DEF Shreddable, active, matchesStatic, HasEncryptionEnvelope
  <2>2. \A k : Lost(k)' <=> Lost(k)
    BY <1>1 DEF Lost
  <2> QED
    BY <1>1, <1>2, <1>4, <2>1, <2>2 DEF SweepInv
<1> QED
  BY <1>2, <1>3, <1>5, BehindFrame DEF SettleInv, Behind

LEMMA SweepGoesOn ==
  ASSUME DataInv, ScopeInv, SettleInv,
         ScanEnds \/ guardSharedKeys \/ \E k \in KeyIDs : SweepRevokeFails(k)
  PROVE  ScopeInv' /\ SettleInv'
<1> USE DEF SweepFields
<1>0. DOMAIN sw = SweepFields
  BY DEF ScopeInv
<1>1. CASE ScanEnds
  <2>1. DataSame /\ UNCHANGED <<checkpoint, strays>> /\ sw.pc = "scan" /\ sw' = [sw EXCEPT !.pc = "guard"]
    BY <1>1 DEF ScanEnds, DataSame, data
  <2> QED
    BY <1>0, <2>1, SweepStays
<1>2. CASE guardSharedKeys
  <2>1. PICK todo : todo = IF sw.dry THEN {} ELSE {k \in Candidates : ~ OutOfScope(k)}
    OBVIOUS
  <2>2. /\ DataSame /\ UNCHANGED <<checkpoint, strays>> /\ sw.pc = "guard"
        /\ sw' = [sw EXCEPT !.pc = "revoke", !.todo = todo]
    BY <1>2, <2>1 DEF guardSharedKeys, DataSame, data
  <2>3. ASSUME NEW k \in todo, k \in sw.outside PROVE FALSE
    <3>1. ~ OutOfScope(k)
      BY <2>1, <2>3
    <3>2. OutOfScope(k)
      BY <2>2, <2>3 DEF ScopeInv, OutOfScope
    <3> QED
      BY <3>1, <3>2
  <2>4. todo \cap sw.outside = {}
    BY <2>3
  <2> QED
    BY <1>0, <2>2, <2>4, SweepStays
<1>3. CASE \E k \in KeyIDs : SweepRevokeFails(k)
  <2>1. PICK k \in KeyIDs : SweepRevokeFails(k)
    BY <1>3
  <2>2. /\ DataSame /\ UNCHANGED <<checkpoint, strays>> /\ sw.pc = "revoke"
        /\ sw' = [sw EXCEPT !.todo = sw.todo \ {k}]
    BY <2>1 DEF SweepRevokeFails, DataSame
  <2>3. sw.todo \cap sw.outside = {}
    BY <2>2 DEF ScopeInv
  <2> QED
    BY <1>0, <2>2, <2>3, SweepStays
<1> QED
  BY <1>1, <1>2, <1>3

LEMMA RevokedIsLost ==
  ASSUME DataInv, ScopeInv, SettleInv, NEW k \in KeyIDs, SweepRevokes(k)
  PROVE  ScopeInv' /\ SettleInv'
<1>0. DOMAIN sw = SweepFields /\ strays = {}
  BY DEF ScopeInv
<1>1. /\ sw.pc = "revoke" /\ k \in sw.todo /\ Revocable(option.provider)
      /\ keys' = [keys EXCEPT ![k] = Revoke(option.provider, keys[k])]
      /\ sw' = [sw EXCEPT !.todo = sw.todo \ {k}, !.revoked = sw.revoked \cup {k}]
      /\ strays' = strays \cup ({k} \cap sw.outside) /\ checkpoint' = checkpoint
      /\ UNCHANGED <<option, events, writer, restored>>
  BY DEF SweepRevokes
<1>2. DataMove /\ keys'[k] \in {"soft", "gone"}
  BY <1>1, RevocationMoves
<1>3. sw.todo \cap sw.outside = {}
  BY <1>1 DEF ScopeInv
<1>4. /\ DOMAIN sw' = SweepFields /\ sw'.pc = "revoke" /\ sw'.todo = sw.todo \ {k}
      /\ sw'.start = sw.start /\ sw'.pos = sw.pos /\ sw'.frontier = sw.frontier
      /\ sw'.frozen = sw.frozen /\ sw'.cand = sw.cand /\ sw'.outside = sw.outside
      /\ sw'.revoked = sw.revoked \cup {k}
  BY <1>0, <1>1 DEF SweepFields
<1>5. strays' = {}
  BY <1>0, <1>1, <1>3
<1>6. ScopeInv'
  BY <1>3, <1>4, <1>5 DEF ScopeInv
<1>7. ASSUME NEW j \in KeyIDs, Lost(j) PROVE Lost(j)'
  BY <1>2, <1>7 DEF DataMove, KeyMove
<1>8. Lost(k)'
  BY <1>2 DEF Lost
<1>9. \A i : Shreddable(i)' <=> Shreddable(i)
  BY <1>1 DEF Shreddable, active, matchesStatic, HasEncryptionEnvelope
<1>10. SweepInv'
  <2>1. SweepInv
    BY DEF SettleInv
  <2>2. sw'.revoked \subseteq KeyIDs /\ \A j \in sw'.revoked : Lost(j)'
    BY <1>1, <1>4, <1>7, <1>8, <2>1 DEF SweepInv
  <2> QED
    BY <1>1, <1>4, <1>9, <2>1, <2>2 DEF SweepInv
<1>11. Behind'
  <2>1. Behind
    BY DEF SettleInv, Behind
  <2>2. ASSUME NEW i \in DOMAIN events, i <= checkpoint, Shreddable(i) PROVE Lost(events[i].key)'
    <3>1. events[i].key \in KeyIDs
      BY <2>2 DEF DataInv, EventOK, Shreddable, HasEncryptionEnvelope
    <3>2. PICK j \in KeyIDs : j = events[i].key
      BY <3>1
    <3>3. Lost(j)
      BY <2>1, <2>2, <3>2 DEF Behind
    <3>4. Lost(j)'
      BY <1>7, <3>3
    <3> QED
      BY <1>1, <3>2, <3>4 DEF Lost
  <2> QED
    BY <1>1, <1>9, <2>1, <2>2 DEF Behind
<1> QED
  BY <1>6, <1>10, <1>11 DEF SettleInv, Behind

(* The scan meets event i: unless the frontier is frozen it moves to i, and then  *)
(* every policy for i was due.                                                    *)
LEMMA ScanKeeps ==
  ASSUME DataInv, DataSame, ScopeInv, SettleInv, NEW failing, ScanStep(failing)
  PROVE  ScopeInv' /\ SettleInv'
<1> USE DEF SweepFields
<1>0. DOMAIN sw = SweepFields /\ strays = {} /\ sw.pc = "scan" /\ SweepInv
  BY DEF ScopeInv, ScanStep, SettleInv
<1>1. option' = option /\ events' = events /\ keys' = keys /\ restored' = restored
  BY DEF DataSame
<1>2. checkpoint' = checkpoint /\ strays' = strays
  BY DEF ScanStep
<1>3. /\ sw.start \in Nat /\ sw.frontier \in Nat /\ sw.pos \in Nat
      /\ sw.start <= sw.frontier /\ sw.frontier <= sw.pos /\ sw.pos <= Len(events)
      /\ option.checkpoint => sw.start = checkpoint
      /\ ~ sw.frozen => sw.pos = sw.frontier
      /\ \A c \in sw.cand : c[2] \in Nat /\ c[2] <= sw.frontier
      /\ sw.revoked \subseteq KeyIDs /\ \A k \in sw.revoked : Lost(k)
  BY <1>0 DEF SweepInv
<1>4. PICK i : i = sw.pos + 1
  OBVIOUS
<1>5. i \in DOMAIN events /\ i \in Nat /\ i <= Len(events)
  <2>1. DOMAIN events = 1 .. Len(events) /\ Len(events) \in Nat
    BY SeqDomain DEF DataInv
  <2>2. i \in DOMAIN events
    BY <1>4 DEF ScanStep
  <2> QED
    BY <2>1, <2>2
<1>6. PICK match : match = {p \in active : matchesStatic(p, events[i])}
  OBVIOUS
<1>7. PICK due : due = {p \in match : ageEligible(p, i, sw.now)}
  OBVIOUS
<1>8. PICK key : key = events[i].key
  OBVIOUS
<1>9. PICK cand : cand = IF ((\E p \in due : p.action = "shred") /\ HasEncryptionEnvelope(events[i]))
                            /\ key \notin Candidates
                         THEN sw.cand \cup {<<key, sw.frontier>>} ELSE sw.cand
  OBVIOUS
<1>10. PICK frontier : frontier = IF sw.frozen \/ match # due THEN sw.frontier ELSE i
  OBVIOUS
<1>11. PICK pc : pc = IF option.capped /\ option.checkpoint /\ settled(cand, frontier) > sw.start
                      THEN "guard" ELSE "scan"
  OBVIOUS
<1>12. sw' = [sw EXCEPT !.pos = i, !.cand = cand, !.frozen = (sw.frozen \/ match # due),
                        !.frontier = frontier, !.pc = pc]
  BY <1>4, <1>6, <1>7, <1>8, <1>9, <1>10, <1>11 DEF ScanStep
<1>13. /\ DOMAIN sw' = SweepFields /\ sw'.pc = pc /\ sw'.pos = i /\ sw'.cand = cand
       /\ sw'.frontier = frontier /\ sw'.frozen = (sw.frozen \/ match # due)
       /\ sw'.start = sw.start /\ sw'.now = sw.now /\ sw'.outside = sw.outside
       /\ sw'.revoked = sw.revoked
  BY <1>0, <1>12
<1>14. pc \in {"scan", "guard"}
  BY <1>11
<1>15. ScopeInv'
  <2>1. ASSUME NEW k \in sw.outside
        PROVE  \E j \in DOMAIN events' : events'[j].key = k /\ k # None /\ ~ coveredByShred(j, sw.now)'
    <3>1. PICK j \in DOMAIN events : events[j].key = k /\ k # None /\ ~ coveredByShred(j, sw.now)
      BY <1>0, <2>1 DEF ScopeInv
    <3>2. ~ coveredByShred(j, sw.now)'
      BY <1>1, <1>13, <3>1 DEF coveredByShred, active, matchesStatic, ageEligible
    <3> QED
      BY <1>1, <3>1, <3>2
  <2> QED
    BY <1>0, <1>2, <1>13, <1>14, <2>1 DEF ScopeInv
<1>16. \/ frontier = sw.frontier /\ (sw.frozen \/ match # due)
       \/ frontier = i /\ ~ sw.frozen /\ match = due
  BY <1>10
<1>17. /\ frontier \in Nat /\ sw.start <= frontier /\ frontier <= i
       /\ sw.frontier <= frontier
  BY <1>3, <1>4, <1>5, <1>16
<1>18. /\ sw.cand \subseteq cand
       /\ \A c \in cand : c[2] \in Nat /\ c[2] <= sw.frontier
  BY <1>3, <1>9
<1>19. \A j : Shreddable(j)' <=> Shreddable(j)
  BY <1>1 DEF Shreddable, active, matchesStatic, HasEncryptionEnvelope
<1>20. ASSUME NEW j \in DOMAIN events, sw.start < j, j <= frontier, Shreddable(j)
       PROVE  \E c \in cand : c[1] = events[j].key /\ c[2] < j
  <2>1. CASE j <= sw.frontier
    BY <1>0, <1>18, <1>20, <2>1 DEF SweepInv
  <2>2. CASE ~ (j <= sw.frontier)
    <3>1. j \in Nat
      BY SeqDomain DEF DataInv
    <3>2. frontier = i /\ match = due /\ sw.pos = sw.frontier
      BY <1>3, <1>16, <1>20, <2>2
    <3>3. j = i /\ sw.frontier < i
      BY <1>3, <1>4, <1>20, <2>2, <3>1, <3>2
    <3>4. \E p \in due : p.action = "shred"
      BY <1>6, <1>20, <3>2, <3>3 DEF Shreddable
    <3>5. HasEncryptionEnvelope(events[i])
      BY <1>20, <3>3 DEF Shreddable
    <3>6. CASE key \in Candidates
      <4>1. PICK c \in sw.cand : c[1] = key
        BY <3>6 DEF Candidates
      <4>2. c \in cand /\ c[2] \in Nat /\ c[2] <= sw.frontier
        BY <1>3, <1>18, <4>1
      <4>3. c[2] < j
        BY <1>3, <1>5, <3>3, <4>2
      <4> QED
        BY <1>8, <3>3, <4>1, <4>2, <4>3
    <3>7. CASE key \notin Candidates
      <4>1. <<key, sw.frontier>> \in cand
        BY <1>9, <3>4, <3>5, <3>7
      <4> QED
        BY <1>8, <3>3, <4>1
    <3> QED
      BY <3>6, <3>7
  <2> QED
    BY <2>1, <2>2
<1>21. SweepInv'
  <2>1. ~ sw'.frozen => i = frontier
    BY <1>13, <1>16
  <2>2. \A k \in sw.revoked : Lost(k)'
    BY <1>1, <1>3 DEF Lost
  <2>3. \A c \in cand : c[2] \in Nat /\ c[2] <= frontier
    BY <1>3, <1>17, <1>18
  <2>4. \A j \in DOMAIN events' :
          sw'.start < j /\ j <= sw'.frontier /\ Shreddable(j)' =>
            \E c \in sw'.cand : c[1] = events'[j].key /\ c[2] < j
    BY <1>1, <1>13, <1>19, <1>20
  <2> QED
    BY <1>1, <1>2, <1>3, <1>5, <1>13, <1>17, <2>1, <2>2, <2>3, <2>4 DEF SweepInv
<1> QED
  BY <1>2, <1>15, <1>21, BehindFrame DEF SettleInv, Behind

(* The checkpoint moves below every candidate whose key was not revoked.          *)
LEMMA SettleKeeps ==
  ASSUME DataInv, ScopeInv, SettleInv, Settle
  PROVE  ScopeInv' /\ SettleInv'
<1>0. DataSame /\ sw' = NoSweep /\ strays' = strays /\ sw.pc = "revoke"
  BY DEF Settle, DataSame, data
<1>1. option' = option /\ events' = events /\ keys' = keys /\ restored' = restored
  BY <1>0 DEF DataSame
<1>2. strays' = {} /\ SweepInv /\ sw.pc # "idle"
  BY <1>0 DEF ScopeInv, SettleInv
<1>3. PICK held : held = {c[2] : c \in {d \in sw.cand : d[1] \notin sw.revoked}}
  OBVIOUS
<1>4. {sw.frontier} \cup held \in SUBSET Nat /\ sw.frontier \in Nat
  BY <1>2, <1>3 DEF SweepInv
<1>5. PICK f : f = LeastOf({sw.frontier} \cup held)
  OBVIOUS
<1>6. f \in {sw.frontier} \cup held /\ \A m \in {sw.frontier} \cup held : f <= m
  BY <1>4, <1>5, LeastIsLeast
<1>7. f \in Nat /\ f <= sw.frontier /\ f <= Len(events) /\ Len(events) \in Nat
  <2>1. Len(events) \in Nat
    BY DEF DataInv, IsSeq
  <2>2. sw.frontier <= Len(events)
    BY <1>2, <2>1 DEF SweepInv
  <2>3. f \in Nat /\ f <= sw.frontier
    BY <1>4, <1>6
  <2> QED
    BY <1>4, <2>1, <2>2, <2>3
<1>8. checkpoint' = IF option.checkpoint /\ ~ sw.dry /\ f > sw.start THEN f ELSE checkpoint
  BY <1>3, <1>5 DEF Settle, settled
<1>9. CASE checkpoint' = checkpoint
  BY <1>0, <1>2, <1>9, BehindFrame, IdleSweep DEF SettleInv, Behind
<1>10. CASE checkpoint' = f /\ option.checkpoint
  <2>1. sw.start = checkpoint /\ checkpoint \in Nat
    BY <1>2, <1>10 DEF SweepInv, SettleInv
  <2>2. ASSUME NEW i \in DOMAIN events, i <= f, Shreddable(i) PROVE Lost(events[i].key)
    <3>1. i \in Nat
      BY SeqDomain DEF DataInv
    <3>2. CASE i <= checkpoint
      BY <2>2, <3>2 DEF SettleInv
    <3>3. CASE ~ (i <= checkpoint)
      <4>1. sw.start < i /\ i <= sw.frontier
        BY <1>4, <1>7, <2>1, <2>2, <3>1, <3>3
      <4>2. PICK c \in sw.cand : c[1] = events[i].key /\ c[2] < i
        BY <1>2, <2>2, <4>1 DEF SweepInv
      <4>3. c[1] \in sw.revoked
        <5> SUFFICES ASSUME c[1] \notin sw.revoked PROVE FALSE
          OBVIOUS
        <5>1. c[2] \in held
          BY <1>3
        <5>2. f <= c[2] /\ c[2] \in Nat
          BY <1>4, <1>6, <5>1
        <5> QED
          BY <1>7, <2>2, <3>1, <4>2, <5>2
      <4> QED
        BY <1>2, <4>2, <4>3 DEF SweepInv
    <3> QED
      BY <3>2, <3>3
  <2>3. Behind'
    BY <1>1, <1>7, <1>10, <2>2 DEF Behind, Shreddable, Lost, active, matchesStatic, HasEncryptionEnvelope
  <2> QED
    BY <1>0, <1>2, <2>3, IdleSweep DEF SettleInv, Behind
<1> QED
  BY <1>8, <1>9, <1>10

LEMMA RetainKeeps == ASSUME DataInv, ScopeInv, SettleInv, RetainNext PROVE ScopeInv' /\ SettleInv'
<1>1. CASE \E i \in DOMAIN events : Grow(i)
  <2>1. DataSame /\ UNCHANGED <<sw, checkpoint, strays>>
    BY <1>1 DEF Grow, DataSame, data
  <2> QED
    BY <2>1, SameMoves, SweepFrame
<1>2. CASE Scan \/ ApplyFails
  <2>1. DataSame /\ \E failing : ScanStep(failing)
    BY <1>2 DEF Scan, ApplyFails, DataSame, data
  <2> QED
    BY <2>1, ScanKeeps
<1>3. CASE SweepDies
  <2>1. DataSame /\ sw' = NoSweep /\ UNCHANGED <<checkpoint, strays>> /\ strays = {} /\ Behind
    BY <1>3 DEF SweepDies, DataSame, ScopeInv, SettleInv, Behind
  <2>2. strays' = {} /\ checkpoint' = checkpoint
    BY <2>1
  <2> QED
    BY <2>1, <2>2, BehindFrame, IdleSweep DEF SettleInv, Behind
<1> QED
  BY <1>1, <1>2, <1>3, SweepBegins, SweepGoesOn, RevokedIsLost, SettleKeeps DEF RetainNext

-----------------------------------------------------------------------------
(* Rows and index. *)

RowOK(r) == r[1] \in option.stores /\ (r[1] = "snapshot" => r[2] \in Streams)

LEMMA RowsOfOK ==
  ASSUME NEW e, e.stream \in Streams, NEW r \in RowsOf(e)
  PROVE  RowOK(r)
<1>1. PICK k \in option.stores : r = <<k, RowID(k, e.stream), IF k = "audit" THEN Actor(e) ELSE None>>
  BY DEF RowsOf
<1>2. r[1] = k /\ r[2] = RowID(k, e.stream)
  BY <1>1
<1>3. k = "snapshot" => RowID(k, e.stream) = e.stream
  BY DEF RowID
<1> QED
  BY <1>2, <1>3 DEF RowOK

(* What tags an event once tags it for good. *)
LEMMA TaggedStays ==
  ASSUME DataInv, DataMove, NEW sub, NEW st, TaggedIn(sub, st)
  PROVE  TaggedIn(sub, st)'
<1>1. PICK i \in DOMAIN events : events[i].stream = st /\ sub \in Range(events[i].tags)
  BY DEF TaggedIn
<1>2. events[i].tags # <<>>
  BY <1>1 DEF Range
<1>3. i \in DOMAIN events' /\ events'[i].stream = st /\ events'[i].tags = events[i].tags
  BY <1>1, <1>2 DEF DataMove, LogMove
<1>4. sub \in Range(events'[i].tags)
  BY <1>1, <1>3
<1> QED
  BY <1>3, <1>4 DEF TaggedIn

LEMMA RowsFrame ==
  ASSUME DataInv, DataMove, RowsInv, IndexInv, rows' \subseteq rows, index' \subseteq index,
         writer' = writer \/ writer'.stage # "stored"
  PROVE  RowsInv' /\ IndexInv'
<1>1. option' = option
  BY DEF DataMove
<1>2. RowsInv'
  BY <1>1 DEF RowsInv
<1>3. IndexInv'
  <2> SUFFICES ASSUME ~ option.upkeep PROVE IndexInv'
    BY <1>1 DEF IndexInv
  <2>1. ASSUME NEW sub, NEW st, <<sub, st>> \in index' PROVE TaggedIn(sub, st)'
    <3>1. TaggedIn(sub, st)
      BY <2>1 DEF IndexInv
    <3> QED
      BY <3>1, TaggedStays
  <2>2. ASSUME writer'.stage = "stored", NEW sub \in Range(writer'.event.tags)
        PROVE  TaggedIn(sub, writer.event.stream)'
    <3>1. PICK w : w = writer /\ w = writer'
      BY <2>2
    <3>2. TaggedIn(sub, w.event.stream)
      BY <2>2, <3>1 DEF IndexInv
    <3>3. TaggedIn(sub, w.event.stream)'
      BY <3>2, TaggedStays
    <3> QED
      BY <3>1, <3>3 DEF TaggedIn
  <2> QED
    BY <2>1, <2>2 DEF IndexInv
<1> QED
  BY <1>2, <1>3

LEMMA StoreRows ==
  ASSUME DataInv, DataMove, RowsInv, IndexInv, Store
  PROVE  RowsInv' /\ IndexInv'
<1>1. DOMAIN writer = {"stage", "event"} /\ EventOK(writer.event) /\ writer.event.stream \in Streams
  BY DEF DataInv, WriterOK, Store
<1>2. PICK e : e = writer.event
  OBVIOUS
<1>3. /\ events' = Append(events, e) /\ rows' = rows \cup RowsOf(e) /\ index' = index
      /\ option' = option /\ writer' = [writer EXCEPT !.stage = "stored"]
  BY <1>2 DEF Store
<1>4. writer'.event = e
  BY <1>1, <1>2, <1>3
<1>5. ASSUME NEW r \in rows' PROVE RowOK(r)
  BY <1>1, <1>2, <1>3, <1>5, RowsOfOK DEF RowsInv, RowOK
<1>6. RowsInv'
  BY <1>3, <1>5 DEF RowsInv, RowOK
<1>7. Len(events) + 1 \in DOMAIN events' /\ events'[Len(events) + 1] = e
  BY <1>3, AppendedSeq DEF DataInv
<1>8. \A sub \in Range(e.tags) : TaggedIn(sub, e.stream)'
  BY <1>7 DEF TaggedIn
<1>9. IndexInv'
  <2> SUFFICES ASSUME ~ option.upkeep PROVE IndexInv'
    BY <1>3 DEF IndexInv
  <2>1. ASSUME NEW sub, NEW st, <<sub, st>> \in index' PROVE TaggedIn(sub, st)'
    <3>1. TaggedIn(sub, st)
      BY <1>3, <2>1 DEF IndexInv
    <3> QED
      BY <3>1, TaggedStays
  <2>2. \A sub \in Range(writer'.event.tags) : TaggedIn(sub, writer.event.stream)'
    BY <1>4, <1>8 DEF TaggedIn
  <2> QED
    BY <2>1, <2>2 DEF IndexInv
<1> QED
  BY <1>6, <1>9

LEMMA IndexedRows ==
  ASSUME DataInv, DataMove, RowsInv, IndexInv, writeSubjectIndex
  PROVE  RowsInv' /\ IndexInv'
<1>1. /\ writer.stage = "stored" /\ writer' = NoAppend /\ rows' = rows /\ option' = option
      /\ index' = index \cup {<<sub, writer.event.stream>> : sub \in Range(writer.event.tags)}
  BY DEF writeSubjectIndex, IndexSubjects
<1>2. RowsInv'
  BY <1>1 DEF RowsInv
<1>3. IndexInv'
  <2> SUFFICES ASSUME ~ option.upkeep PROVE IndexInv'
    BY <1>1 DEF IndexInv
  <2>1. ASSUME NEW sub, NEW st, <<sub, st>> \in index' PROVE TaggedIn(sub, st)'
    <3>1. <<sub, st>> \in index \/ (sub \in Range(writer.event.tags) /\ st = writer.event.stream)
      BY <1>1, <2>1
    <3>2. TaggedIn(sub, st)
      BY <1>1, <3>1 DEF IndexInv
    <3> QED
      BY <3>2, TaggedStays
  <2>2. writer'.stage # "stored"
    BY <1>1 DEF NoAppend
  <2> QED
    BY <2>1, <2>2 DEF IndexInv
<1> QED
  BY <1>2, <1>3

LEMMA DataRows ==
  ASSUME DataInv, RowsInv, IndexInv, DataNext
  PROVE  RowsInv' /\ IndexInv'
<1>0. DataMove
  BY DataSteps
<1>1. ASSUME NEW in, Prepare(in) PROVE RowsInv' /\ IndexInv'
  <2>1. rows' = rows /\ index' = index /\ writer'.stage # "stored"
    BY <1>1 DEF Prepare
  <2> QED
    BY <1>0, <2>1, RowsFrame
<1>2. ASSUME NEW i, NEW dst, ReEncryptStream(i, dst) PROVE RowsInv' /\ IndexInv'
  <2>1. rows' = rows /\ index' = index /\ writer'.stage # "stored"
    BY <1>2 DEF ReEncryptStream
  <2> QED
    BY <1>0, <2>1, RowsFrame
<1>3. ASSUME IndexWriteFails PROVE RowsInv' /\ IndexInv'
  <2>1. rows' = rows /\ index' = index /\ writer'.stage # "stored"
    BY <1>3 DEF IndexWriteFails, NoAppend
  <2> QED
    BY <1>0, <2>1, RowsFrame
<1>4. ASSUME NEW i, ReEncryptInPlace(i) PROVE RowsInv' /\ IndexInv'
  <2>1. rows' = rows /\ index' = index /\ writer' = writer
    BY <1>4 DEF ReEncryptInPlace
  <2> QED
    BY <1>0, <2>1, RowsFrame
<1>5. ASSUME NEW k, SoftRevokeKey(k) \/ UnrevokeKey(k) \/ WindowElapses(k) PROVE RowsInv' /\ IndexInv'
  <2>1. rows' = rows /\ index' = index /\ writer' = writer
    BY <1>5 DEF SoftRevokeKey, UnrevokeKey, WindowElapses
  <2> QED
    BY <1>0, <2>1, RowsFrame
<1>6. ASSUME option.upkeep, BackfillSubjectIndex PROVE RowsInv' /\ IndexInv'
  BY <1>6 DEF BackfillSubjectIndex, RowsInv, IndexInv
<1> QED
  BY <1>0, <1>1, <1>2, <1>3, <1>4, <1>5, <1>6, StoreRows, IndexedRows DEF DataNext

LEMMA EraseRows ==
  ASSUME DataInv, RowsInv, IndexInv, EraseNext
  PROVE  RowsInv' /\ IndexInv'
<1>1. ASSUME NEW sub, NEW fp, NEW partial, NEW resolved, NEW owed, Start(sub, fp, partial, resolved, owed)
      PROVE  rows' \subseteq rows /\ index' \subseteq index /\ writer' = writer
  BY <1>1 DEF Start, data
<1>2. ASSUME NEW sub, \/ EraseSubject(sub) \/ EraseFilter(sub)
                      \/ (\E S \in SUBSET Streams \ {{}} : EraseStreams(sub, S))
                      \/ (\E k \in KeyIDs : EraseKey(sub, k))
      PROVE  rows' \subseteq rows /\ index' \subseteq index /\ writer' = writer
  BY <1>1, <1>2 DEF EraseSubject, EraseFilter, EraseStreams, EraseKey
<1>3. ASSUME GuardPasses \/ GuardRefuses \/ GuardScanFails \/ RevocationUnsupported
             \/ reconcileAfterRevoke \/ ReconcileFails \/ AllRevoked
      PROVE  rows' \subseteq rows /\ index' \subseteq index /\ writer' = writer
  BY <1>3 DEF GuardPasses, GuardRefuses, GuardScanFails, RevocationUnsupported, reconcileAfterRevoke,
              ReconcileFails, AllRevoked, data
<1>4. ASSUME NEW k, RevokeKey(k) \/ RevokeFails(k) \/ SubjectStoreFails(k)
      PROVE  rows' \subseteq rows /\ index' \subseteq index /\ writer' = writer
  <2>1. Purged \subseteq rows
    BY DEF Purged, purgeByFootprint
  <2> QED
    BY <1>4, <2>1 DEF RevokeKey, RevokeFails, SubjectStoreFails
<1>5. ASSUME redactReadModels \/ RedactFails \/ eraseSubjectStores \/ runErasureHooks \/ HookFails
      PROVE  rows' \subseteq rows /\ index' \subseteq index /\ writer' = writer
  BY <1>5 DEF redactReadModels, RedactFails, eraseSubjectStores, runErasureHooks, HookFails, data
<1>6. ASSUME \/ appendMarker \/ MarkerFails \/ emitCertificate \/ EvidenceFails
             \/ CertificateLost \/ EraserCrashes
      PROVE  rows' \subseteq rows /\ index' \subseteq index /\ writer' = writer
  BY <1>6 DEF appendMarker, MarkerFails, emitCertificate, EvidenceFails, CertificateLost, EraserCrashes, data
<1>7. ASSUME purgeSubjectIndex
      PROVE  rows' \subseteq rows /\ index' \subseteq index /\ writer' = writer
  BY <1>7 DEF purgeSubjectIndex, DeleteSubject
<1>8. ASSUME NEW sub, Verify(sub)
      PROVE  rows' \subseteq rows /\ index' \subseteq index /\ writer' = writer
  BY <1>8 DEF Verify, data
<1>9. rows' \subseteq rows /\ index' \subseteq index /\ writer' = writer
  BY <1>2, <1>3, <1>4, <1>5, <1>6, <1>7, <1>8 DEF EraseNext, Erase
<1> QED
  BY <1>9, EraseSteps, RowsFrame

LEMMA OtherRows == ASSUME ExportNext \/ RetainNext PROVE UNCHANGED <<rows, index, writer>>
<1>1. ASSUME ExportNext PROVE UNCHANGED <<rows, index, writer>>
  <2>1. ASSUME NEW sub, NEW kind, NEW S, NEW partial, NEW owed, Begin(sub, kind, S, partial, owed)
        PROVE  UNCHANGED <<rows, index, writer>>
    BY <2>1 DEF Begin, data
  <2>2. ASSUME NEW st, exportFromStreams(st) PROVE UNCHANGED <<rows, index, writer>>
    BY <2>2 DEF exportFromStreams, data
  <2>3. ASSUME \/ FilterEvent \/ TaggerIsBlind \/ checkRevoked \/ CheckFails \/ decryptEvent
               \/ DecryptFails \/ ExportFails \/ ExportDone
        PROVE  UNCHANGED <<rows, index, writer>>
    BY <2>3 DEF FilterEvent, TaggerIsBlind, checkRevoked, CheckFails, decryptEvent, DecryptFails,
                ExportFails, ExportDone, data
  <2> QED
    BY <1>1, <2>1, <2>2, <2>3 DEF ExportNext, Export, ExportStream, ExportStreams
<1>2. ASSUME RetainNext PROVE UNCHANGED <<rows, index, writer>>
  <2>1. ASSUME NEW k, SweepRevokes(k) \/ SweepRevokeFails(k) \/ Grow(k) PROVE UNCHANGED <<rows, index, writer>>
    BY <2>1 DEF SweepRevokes, SweepRevokeFails, Grow, data
  <2>2. ASSUME Scan \/ ApplyFails \/ ScanEnds \/ guardSharedKeys \/ Settle \/ SweepDies
        PROVE  UNCHANGED <<rows, index, writer>>
    BY <2>2 DEF Scan, ApplyFails, ScanEnds, guardSharedKeys, Settle, SweepDies, data
  <2>3. ASSUME NEW dry, Sweep(dry) PROVE UNCHANGED <<rows, index, writer>>
    BY <2>3 DEF Sweep, data
  <2> QED
    BY <1>2, <2>1, <2>2, <2>3 DEF RetainNext
<1> QED
  BY <1>1, <1>2

-----------------------------------------------------------------------------
(* What a request speaks for, it looks at. *)

LEMMA NamedIsAttributed ==
  ASSUME NEW e, EventOK(e), NEW sub, Names(e, sub), attributeSubjects(e) # {}
  PROVE  sub \in attributeSubjects(e)
BY Attributed DEF Names

LEMMA ResolveCovers ==
  ASSUME DataInv, IndexInv, Sound, NEW sub, ~ Partial(sub)
  PROVE  OwedCovered(sub, Owed(sub, Seen(sub)), resolve(sub).streams)
<1> SUFFICES ASSUME NEW i \in Owed(sub, Seen(sub))
             PROVE  i \in DOMAIN events /\ Names(events[i], sub) /\ events[i].stream \in resolve(sub).streams
  BY DEF OwedCovered
<1>1. i \in Seen(sub) /\ Names(events[i], sub)
  BY DEF Owed
<1>2. PICK seen : seen = Seen(sub)
  OBVIOUS
<1>3. resolve(sub).streams = StreamsOf({j \in seen : sub \in attributeSubjects(events[j])})
  BY <1>2 DEF resolve, Footprint
<1>4. \A j \in DOMAIN events : sub \in Range(events[j].tags) => sub \in attributeSubjects(events[j])
  BY DEF attributeSubjects, Range
<1>5. CASE option.resolver = "scan"
  <2>1. seen = DOMAIN events /\ attributeSubjects(events[i]) # {}
    BY <1>1, <1>2, <1>5 DEF Seen, resolveByScan, Partial, attributeBatch
  <2>2. i \in DOMAIN events /\ EventOK(events[i])
    BY <1>1, <1>2, <2>1 DEF DataInv
  <2>3. sub \in attributeSubjects(events[i])
    BY <1>1, <2>1, <2>2, NamedIsAttributed
  <2> QED
    BY <1>1, <1>3, <2>1, <2>2, <2>3 DEF StreamsOf
<1>6. CASE option.resolver # "scan"
  <2>1. option.resolver \in {"authoritative", "metadata"}
    BY <1>6 DEF Partial, AuthoritativeIndex
  <2>2. PICK S : S = IF option.resolver = "metadata" THEN streamsBySubjectJSONB(sub) ELSE StreamsBySubject(sub)
    OBVIOUS
  <2>3. seen = At(S)
    BY <1>2, <1>6, <2>2 DEF Seen, resolveByIndex
  <2>4. i \in DOMAIN events /\ events[i].stream \in S
    BY <1>1, <1>2, <2>3 DEF At
  <2>5. TaggedIn(sub, events[i].stream)
    <3>1. CASE option.resolver = "metadata"
      <4>1. events[i].stream \in StreamsOf({j \in DOMAIN events : sub \in Range(events[j].tags)})
        BY <2>2, <2>4, <3>1 DEF streamsBySubjectJSONB
      <4> QED
        BY <4>1 DEF StreamsOf, TaggedIn
    <3>2. CASE option.resolver = "authoritative"
      <4>1. <<sub, events[i].stream>> \in index
        BY <2>2, <2>4, <3>2 DEF StreamsBySubject
      <4>2. ~ option.upkeep
        BY <3>2 DEF Sound
      <4> QED
        BY <4>1, <4>2 DEF IndexInv
    <3> QED
      BY <2>1, <3>1, <3>2
  <2>6. PICK j \in DOMAIN events : events[j].stream = events[i].stream /\ sub \in Range(events[j].tags)
    BY <2>5 DEF TaggedIn
  <2>7. j \in seen /\ sub \in attributeSubjects(events[j])
    BY <1>4, <2>3, <2>4, <2>6 DEF At
  <2> QED
    BY <1>1, <1>3, <2>4, <2>6, <2>7 DEF StreamsOf
<1> QED
  BY <1>5, <1>6

LEMMA StreamsCover ==
  ASSUME DataInv, NEW sub, NEW S, Unattributable({st \in S : Scoped(st)}) = {}
  PROVE  OwedCovered(sub, Owed(sub, At(S)), StreamsOf(UNION {collectStreamKeys(sub, st) : st \in S}))
<1> SUFFICES ASSUME NEW i \in Owed(sub, At(S))
             PROVE  /\ i \in DOMAIN events /\ Names(events[i], sub)
                    /\ events[i].stream \in StreamsOf(UNION {collectStreamKeys(sub, st) : st \in S})
  BY DEF OwedCovered
<1>1. i \in DOMAIN events /\ Names(events[i], sub) /\ events[i].stream \in S
  BY DEF Owed, At
<1>2. PICK st \in S : st = events[i].stream
  BY <1>1
<1>3. i \in At({st})
  BY <1>1, <1>2 DEF At
<1>4. ASSUME Scoped(st) PROVE sub \in attributeSubjects(events[i])
  <2>1. i \in At({x \in S : Scoped(x)})
    BY <1>1, <1>2, <1>4 DEF At
  <2>2. attributeSubjects(events[i]) # {}
    BY <2>1 DEF Unattributable
  <2>3. EventOK(events[i])
    BY <1>1 DEF DataInv
  <2> QED
    BY <1>1, <2>2, <2>3, NamedIsAttributed
<1>5. i \in collectStreamKeys(sub, st)
  BY <1>3, <1>4 DEF collectStreamKeys
<1>6. i \in UNION {collectStreamKeys(sub, x) : x \in S}
  BY <1>5
<1> QED
  BY <1>1, <1>6 DEF StreamsOf

LEMMA FilterCovers ==
  ASSUME NEW sub
  PROVE  OwedCovered(sub, Owed(sub, collectScanKeys(sub)), Footprint(sub, collectScanKeys(sub)).streams)
<1>1. PICK seen : seen = collectScanKeys(sub)
  OBVIOUS
<1>2. Footprint(sub, seen).streams = StreamsOf({j \in seen : sub \in attributeSubjects(events[j])})
  BY DEF Footprint
<1>3. ASSUME NEW i \in Owed(sub, seen)
      PROVE  i \in DOMAIN events /\ Names(events[i], sub) /\ events[i].stream \in Footprint(sub, seen).streams
  <2>1. i \in seen /\ i \in DOMAIN events /\ Names(events[i], sub) /\ sub \in Range(events[i].tags)
    BY <1>1, <1>3 DEF Owed, collectScanKeys, SubjectFilter
  <2>2. sub \in attributeSubjects(events[i])
    BY <2>1 DEF attributeSubjects, Range
  <2> QED
    BY <1>2, <2>1, <2>2 DEF StreamsOf
<1> QED
  BY <1>1, <1>3 DEF OwedCovered

-----------------------------------------------------------------------------
(* What a clean report says is so. *)

LEMMA RevokedIsGone ==
  ASSUME NEW p, NEW st, GetRevocationState(p, st) = "revoked"
  PROVE  st = "gone"
BY DEF GetRevocationState, localState, kmsDescribe, vaultIsRevoked

LEMMA EvidenceSound ==
  ASSUME DataInv, NEW sub, NEW O, NEW S, NEW M, NEW residue, OwedCovered(sub, O, S),
         clean(verifyStreams(sub, S, M), residue), NEW i \in O
  PROVE  i \in DOMAIN events /\ HasEncryptionEnvelope(events[i]) /\ keys[events[i].key] = "gone"
<1>1. i \in DOMAIN events /\ Names(events[i], sub) /\ events[i].stream \in S
  BY DEF OwedCovered
<1>2. PICK own : own = {j \in At(S) : ownsEvent(sub, j, M)}
  OBVIOUS
<1>3. /\ \A j \in own : recordChecked(events[j])
      /\ \A j \in At(S) \ own : recordUnattributed(events[j])
  BY <1>2 DEF clean, verifyStreams
<1>4. i \in At(S) /\ EventOK(events[i])
  BY <1>1 DEF At, DataInv
<1>5. recordChecked(events[i])
  <2>1. CASE i \in own
    BY <1>3, <2>1
  <2>2. CASE i \notin own
    <3>1. sub \notin attributeSubjects(events[i])
      BY <1>2, <1>4, <2>2 DEF ownsEvent
    <3>2. attributeSubjects(events[i]) = {}
      BY <1>1, <1>4, <3>1, NamedIsAttributed
    <3> QED
      BY <1>3, <1>4, <2>2, <3>2 DEF recordUnattributed
  <2> QED
    BY <2>1, <2>2
<1> QED
  BY <1>1, <1>5, RevokedIsGone DEF recordChecked, revocationState

(* A row that is left although the counters found none is one they do not       *)
(* count.                                                                       *)
LEMMA RowsAttested ==
  ASSUME RowsInv, NEW sub \in Subjects, NEW S, NEW shared, NEW I, NEW report, StreamsOf(I) \subseteq S,
         countSubjectResiduals(sub, S, shared) = {},
         report \/ shared = {} \/ option.stores \ {"snapshot"} \subseteq option.legacy,
         NEW left \in RowsLeft(sub, I, shared, report)
  PROVE  Unattested(left)
<1>1. PICK own : own = StreamsOf(I)
  OBVIOUS
<1>2. PICK r \in rows :
        /\ \/ r[2] \in {sub} \cup own \/ ByActor(sub, r)
           \/ r[1] # "snapshot" /\ r[2] \in derivedAggregateIDs(own)
        /\ left = [row |-> r, report |-> report, raw |-> r[2] \in derivedAggregateIDs(own),
                   shared |-> r[2] \in shared \cup derivedAggregateIDs(shared)]
  BY <1>1 DEF RowsLeft
<1>3. /\ left.row = r /\ left.report = report /\ left.raw = (r[2] \in derivedAggregateIDs(own))
      /\ left.shared = (r[2] \in shared \cup derivedAggregateIDs(shared))
  BY <1>2
<1>4. r[1] \in option.stores /\ (r[1] = "snapshot" => r[2] \in Streams)
  BY DEF RowsInv
<1>5. r[1] \in option.uncounted \/ ~ InFootprint(sub, S, shared, r)
  BY DEF countSubjectResiduals
<1>6. CASE r[1] \in option.uncounted
  BY <1>3, <1>6 DEF Unattested
<1>7. CASE r[1] = "snapshot" /\ ~ InFootprint(sub, S, shared, r)
  <2>1. r[2] \in {sub} \cup own
    BY <1>2, <1>7 DEF ByActor
  <2>2. r[2] # sub
    BY <1>4, <1>7, NamesAssumption
  <2> QED
    BY <1>1, <1>7, <2>1, <2>2 DEF InFootprint
<1>8. CASE r[1] # "snapshot" /\ ~ InFootprint(sub, S, shared, r)
  <2>1. r[2] \notin footprintIDs(sub, S, shared) /\ ~ ByActor(sub, r)
    BY <1>8 DEF InFootprint
  <2>2. /\ r[2] # sub /\ r[2] \notin S \ shared
        /\ option.derived => r[2] \notin derivedAggregateIDs(S \ shared)
    BY <2>1 DEF footprintIDs, ExclusiveStreams
  <2>3. left.shared => Unattested(left)
    <3>1. shared = {} => ~ left.shared
      BY <1>3 DEF derivedAggregateIDs
    <3> QED
      BY <1>3, <1>4, <1>8, <3>1 DEF Unattested
  <2>4. CASE r[2] \in own
    BY <1>1, <1>3, <2>2, <2>3, <2>4
  <2>5. CASE r[2] \in derivedAggregateIDs(own)
    <3>1. CASE ~ option.derived
      BY <1>3, <2>5, <3>1 DEF Unattested
    <3>2. CASE option.derived
      <4>1. PICK st \in own : r[2] = option.aggregate[st]
        BY <2>5 DEF derivedAggregateIDs
      <4>2. st \in shared
        BY <1>1, <2>2, <3>2, <4>1 DEF derivedAggregateIDs
      <4>3. left.shared
        BY <1>3, <4>1, <4>2 DEF derivedAggregateIDs
      <4> QED
        BY <2>3, <4>3
    <3> QED
      BY <3>1, <3>2
  <2> QED
    BY <1>2, <2>1, <2>2, <2>4, <2>5
<1> QED
  BY <1>5, <1>6, <1>7, <1>8

-----------------------------------------------------------------------------
(* Certificates. *)

Attested == certified \subseteq DOMAIN events /\ VerifiedIsErased

LEMMA AttestedStays ==
  ASSUME DataInv, DataMove, Attested, UNCHANGED <<certified, leftover>>
  PROVE  Attested'
<1>1. ASSUME NEW i \in certified
      PROVE  /\ i \in DOMAIN events' /\ HasEncryptionEnvelope(events'[i])
             /\ keys'[events'[i].key] = "gone"
  <2>1. i \in DOMAIN events /\ HasEncryptionEnvelope(events[i]) /\ keys[events[i].key] = "gone"
    BY <1>1 DEF Attested, VerifiedIsErased
  <2>2. events[i].key \in KeyIDs
    BY <2>1 DEF DataInv, EventOK, HasEncryptionEnvelope
  <2>3. i \in DOMAIN events' /\ events'[i] = events[i]
    BY <2>1 DEF DataMove, LogMove, HasEncryptionEnvelope
  <2>4. keys'[events[i].key] = "gone"
    BY <2>1, <2>2 DEF DataMove, KeyMove
  <2> QED
    BY <2>1, <2>3, <2>4
<1>2. ASSUME NEW left \in leftover' PROVE Unattested(left)'
  <2>1. Unattested(left) /\ option' = option
    BY <1>2 DEF Attested, VerifiedIsErased, DataMove
  <2> QED
    BY <2>1 DEF Unattested
<1> QED
  BY <1>1, <1>2 DEF Attested, VerifiedIsErased, HasEncryptionEnvelope

LEMMA OwedStays ==
  ASSUME DataMove, NEW sub, NEW O, NEW S, OwedCovered(sub, O, S)
  PROVE  OwedCovered(sub, O, S)'
BY DEF DataMove, LogMove, OwedCovered, Names

(* What a step may do to the erasure as far as certificates are concerned. *)
CertStep ==
  \/ er'.pc = "idle"
  \/ /\ er.pc # "idle" /\ er'.subject = er.subject /\ er'.owed = er.owed /\ er'.streams = er.streams
     /\ ~ er'.partial => ~ er.partial

LEMMA CertStepKeeps ==
  ASSUME DataInv, DataMove, CertInv, CertStep, Sound => Attested'
  PROVE  CertInv'
<1>1. option' = option
  BY DEF DataMove
<1>2. Sound' <=> Sound
  BY <1>1 DEF Sound
<1>3. CASE er'.pc = "idle"
  BY <1>2, <1>3 DEF CertInv, Attested
<1>4. CASE er'.pc # "idle"
  <2>1. er'.subject = er.subject /\ er.subject \in Subjects
    BY <1>4 DEF CertStep, CertInv
  <2>2. ASSUME Sound, ~ er'.partial PROVE OwedCovered(er.subject, er.owed, er.streams)'
    <3>1. PICK sub, O, S : /\ sub = er.subject /\ sub = er'.subject /\ O = er.owed /\ O = er'.owed
                           /\ S = er.streams /\ S = er'.streams
      BY <1>4 DEF CertStep
    <3>2. OwedCovered(sub, O, S)
      BY <1>4, <2>2, <3>1 DEF CertStep, CertInv
    <3>3. OwedCovered(sub, O, S)'
      BY <3>2, OwedStays
    <3> QED
      BY <3>1, <3>3 DEF OwedCovered
  <2> QED
    BY <1>2, <2>1, <2>2 DEF CertInv, Attested
<1> QED
  BY <1>3, <1>4

LEMMA CertFrame ==
  ASSUME DataInv, DataMove, CertInv, CertStep \/ er' = er, UNCHANGED <<certified, leftover>>
  PROVE  CertInv'
<1>1. Sound => Attested'
  BY AttestedStays DEF CertInv, Attested
<1>2. CASE CertStep
  BY <1>1, <1>2, CertStepKeeps
<1>3. CASE er' = er
  <2>1. CertStep
    BY <1>3 DEF CertStep
  <2> QED
    BY <1>1, <2>1, CertStepKeeps
<1> QED
  BY <1>2, <1>3

LEMMA StartCert ==
  ASSUME DataInv, CertInv, NEW sub \in Subjects, NEW fp, NEW partial, NEW resolved, NEW owed,
         Start(sub, fp, partial, resolved, owed),
         Sound /\ ~ partial => OwedCovered(sub, owed, fp.streams)
  PROVE  CertInv'
<1>1. /\ er'.pc = "guard" /\ er'.subject = sub /\ er'.streams = fp.streams /\ er'.owed = owed
      /\ er'.partial = partial /\ UNCHANGED <<certified, leftover>> /\ DataSame
  BY StartFacts DEF data, DataSame
<1>2. DataMove /\ option' = option
  BY <1>1, SameMoves DEF DataSame
<1>3. Sound' <=> Sound
  BY <1>2 DEF Sound
<1>4. Sound => Attested'
  BY <1>1, <1>2, AttestedStays DEF CertInv, Attested
<1>5. ASSUME Sound, ~ er'.partial PROVE OwedCovered(er.subject, er.owed, er.streams)'
  <2>1. PICK S : S = fp.streams
    OBVIOUS
  <2>2. OwedCovered(sub, owed, S)
    BY <1>1, <1>5, <2>1
  <2>3. OwedCovered(sub, owed, S)'
    BY <1>2, <2>2, OwedStays
  <2> QED
    BY <1>1, <2>1, <2>3 DEF OwedCovered
<1> QED
  BY <1>1, <1>3, <1>4, <1>5 DEF CertInv, Attested

LEMMA RequestsCert ==
  ASSUME DataInv, IndexInv, CertInv, NEW sub \in Subjects,
         \/ EraseSubject(sub) \/ EraseFilter(sub)
         \/ (\E S \in SUBSET Streams \ {{}} : EraseStreams(sub, S))
         \/ (\E k \in KeyIDs : EraseKey(sub, k))
  PROVE  CertInv'
<1>1. CASE EraseSubject(sub)
  <2>1. Start(sub, resolve(sub), Partial(sub), TRUE, Owed(sub, Seen(sub)))
    BY <1>1 DEF EraseSubject
  <2>2. PICK fp, owed : fp = resolve(sub) /\ owed = Owed(sub, Seen(sub))
    OBVIOUS
  <2>3. Sound /\ ~ Partial(sub) => OwedCovered(sub, owed, fp.streams)
    BY <2>2, ResolveCovers
  <2> QED
    BY <2>1, <2>2, <2>3, StartCert
<1>2. CASE EraseFilter(sub)
  <2>1. PICK fp, owed : /\ fp = Footprint(sub, collectScanKeys(sub))
                        /\ owed = Owed(sub, collectScanKeys(sub))
    OBVIOUS
  <2>2. Start(sub, fp, FALSE, FALSE, owed)
    BY <1>2, <2>1 DEF EraseFilter
  <2>3. OwedCovered(sub, owed, fp.streams)
    BY <2>1, FilterCovers
  <2> QED
    BY <2>2, <2>3, StartCert
<1>3. CASE \E S \in SUBSET Streams \ {{}} : EraseStreams(sub, S)
  <2>1. PICK S : EraseStreams(sub, S)
    BY <1>3
  <2>2. PICK found, scoped : /\ found = UNION {collectStreamKeys(sub, st) : st \in S}
                             /\ scoped = {st \in S : Scoped(st)}
    OBVIOUS
  <2>3. PICK fp, owed : /\ fp = [matched |-> found \cap At(scoped), streams |-> StreamsOf(found),
                                 keys |-> KeysOf(found), shared |-> detectSharedStreams(sub, StreamsOf(found))]
                        /\ owed = Owed(sub, At(S))
    OBVIOUS
  <2>4. Start(sub, fp, Unattributable(scoped) # {}, FALSE, owed)
    BY <2>1, <2>2, <2>3 DEF EraseStreams
  <2>5. fp.streams = StreamsOf(found)
    BY <2>3
  <2>6. Unattributable(scoped) = {} => OwedCovered(sub, owed, fp.streams)
    BY <2>2, <2>3, <2>5, StreamsCover
  <2>7. PICK partial : partial = (Unattributable(scoped) # {})
    OBVIOUS
  <2>8. Start(sub, fp, partial, FALSE, owed)
    BY <2>4, <2>7
  <2>9. ~ partial => OwedCovered(sub, owed, fp.streams)
    BY <2>6, <2>7
  <2> QED
    BY <2>8, <2>9, StartCert
<1>4. CASE \E k \in KeyIDs : EraseKey(sub, k)
  <2>1. PICK k : EraseKey(sub, k)
    BY <1>4
  <2>2. PICK fp : fp = [matched |-> {}, streams |-> {}, keys |-> {k}, shared |-> {}]
    OBVIOUS
  <2>3. Start(sub, fp, FALSE, FALSE, {})
    BY <2>1, <2>2 DEF EraseKey
  <2>4. OwedCovered(sub, {}, fp.streams)
    BY DEF OwedCovered
  <2> QED
    BY <2>3, <2>4, StartCert
<1> QED
  BY <1>1, <1>2, <1>3, <1>4

LEMMA CertificateTrue ==
  ASSUME DataInv, RowsInv, GuardInv, CertInv, emitCertificate
  PROVE  CertInv'
<1>0. /\ DataSame /\ er.pc = "certify" /\ er' = [er EXCEPT !.pc = "purge", !.verified = Verified]
      /\ certified' = IF Verified THEN certified \cup er.owed ELSE certified
      /\ leftover' = IF Verified THEN leftover \cup RowsLeft(er.subject, er.owed, er.shared, FALSE)
                     ELSE leftover
  BY DEF emitCertificate, DataSame, data
<1>1. DataMove /\ DOMAIN er = ErasureFields
  BY <1>0, SameMoves DEF GuardInv
<1>2. CertStep
  BY <1>0, <1>1 DEF CertStep, ErasureFields
<1>3. ASSUME ~ Verified PROVE CertInv'
  <2>1. UNCHANGED <<certified, leftover>>
    BY <1>0, <1>3
  <2> QED
    BY <1>1, <1>2, <2>1, CertFrame
<1>4. ASSUME Verified, Sound PROVE Attested'
  <2>1. PICK sub, O, S : sub = er.subject /\ O = er.owed /\ S = er.streams
    OBVIOUS
  <2>2. /\ ~ er.partial /\ ~ SharedStreamsSkipped /\ option.unpurged = {}
        /\ clean(verifyStreams(sub, S, er.matched), countSubjectResiduals(sub, S, er.shared))
    BY <1>4, <2>1 DEF Verified, attestEvidence, gateSubjectStores, Evidence
  <2>3. OwedCovered(sub, O, S) /\ sub \in Subjects
    BY <1>0, <1>4, <2>1, <2>2 DEF CertInv
  <2>4. \A i \in O : i \in DOMAIN events /\ HasEncryptionEnvelope(events[i]) /\ keys[events[i].key] = "gone"
    BY <2>2, <2>3, EvidenceSound
  <2>5. StreamsOf(O) \subseteq S
    BY <2>3 DEF OwedCovered, StreamsOf
  <2>6. /\ countSubjectResiduals(sub, S, er.shared) = {}
        /\ er.shared = {} \/ option.stores \ {"snapshot"} \subseteq option.legacy
    BY <2>2 DEF clean, SharedStreamsSkipped
  <2>7. \A left \in RowsLeft(sub, O, er.shared, FALSE) : Unattested(left)
    BY <2>3, <2>5, <2>6, RowsAttested
  <2>8. certified' = certified \cup O /\ leftover' = leftover \cup RowsLeft(sub, O, er.shared, FALSE)
    BY <1>0, <1>4, <2>1
  <2>9. certified \subseteq DOMAIN events /\ VerifiedIsErased
    BY <1>4 DEF CertInv
  <2>10. events' = events /\ keys' = keys /\ option' = option
    BY <1>0 DEF DataSame
  <2>11. ASSUME NEW left \in leftover' PROVE Unattested(left)'
    <3>1. Unattested(left)
      BY <2>7, <2>8, <2>9, <2>11 DEF VerifiedIsErased
    <3> QED
      BY <2>10, <3>1 DEF Unattested
  <2> QED
    BY <2>4, <2>8, <2>9, <2>10, <2>11 DEF Attested, VerifiedIsErased, HasEncryptionEnvelope
<1>5. ASSUME Verified PROVE CertInv'
  BY <1>1, <1>2, <1>4, <1>5, CertStepKeeps
<1> QED
  BY <1>3, <1>5

LEMMA ReportTrue ==
  ASSUME DataInv, RowsInv, IndexInv, CertInv, NEW sub \in Subjects, Verify(sub)
  PROVE  CertInv'
<1>1. PICK fp : fp = resolve(sub)
  OBVIOUS
<1>2. PICK O : O = Owed(sub, Seen(sub))
  OBVIOUS
<1>3. PICK S, shared : S = fp.streams /\ shared = fp.shared
  OBVIOUS
<1>4. /\ ~ Partial(sub)
      /\ clean(verifyStreams(sub, S, {}), countSubjectResiduals(sub, S, shared))
      /\ certified' = certified \cup O /\ er' = er /\ DataSame
      /\ leftover' = leftover \cup RowsLeft(sub, O, shared, TRUE)
  BY <1>1, <1>2, <1>3 DEF Verify, DataSame, data
<1>5. ASSUME Sound PROVE Attested'
  <2>1. OwedCovered(sub, O, S)
    BY <1>1, <1>2, <1>3, <1>4, <1>5, ResolveCovers
  <2>2. PICK M, residue : M = {} /\ residue = countSubjectResiduals(sub, S, shared)
    OBVIOUS
  <2>3. clean(verifyStreams(sub, S, M), residue) /\ residue = {}
    BY <1>4, <2>2 DEF clean
  <2>4. \A i \in O : i \in DOMAIN events /\ HasEncryptionEnvelope(events[i]) /\ keys[events[i].key] = "gone"
    BY <2>1, <2>3, EvidenceSound
  <2>5. certified \subseteq DOMAIN events /\ VerifiedIsErased
    BY <1>5 DEF CertInv
  <2>6. events' = events /\ keys' = keys /\ option' = option
    BY <1>4 DEF DataSame
  <2>7. StreamsOf(O) \subseteq S
    BY <2>1 DEF OwedCovered, StreamsOf
  <2>8. \A left \in RowsLeft(sub, O, shared, TRUE) : Unattested(left)
    BY <2>2, <2>3, <2>7, RowsAttested
  <2>9. ASSUME NEW left \in leftover' PROVE Unattested(left)'
    <3>1. Unattested(left)
      BY <1>4, <2>5, <2>8, <2>9 DEF VerifiedIsErased
    <3> QED
      BY <2>6, <3>1 DEF Unattested
  <2> QED
    BY <1>4, <2>4, <2>5, <2>6, <2>9 DEF Attested, VerifiedIsErased, HasEncryptionEnvelope
<1>6. DataMove
  BY <1>4, SameMoves
<1>7. CertStep
  BY <1>4 DEF CertStep
<1> QED
  BY <1>5, <1>6, <1>7, CertStepKeeps

LEMMA AbortIsCertStep == ASSUME Abort PROVE CertStep
BY NoErasureFacts DEF Abort, CertStep

LEMMA EraseCert ==
  ASSUME DataInv, RowsInv, IndexInv, GuardInv, CertInv, EraseNext
  PROVE  CertInv'
<1> USE DEF ErasureFields
<1>0. DOMAIN er = ErasureFields /\ DataMove
  BY EraseSteps DEF GuardInv
<1>1. option.targets \subseteq Subjects
  BY SetupsAssumption DEF DataInv
<1>2. CASE \E sub \in option.targets :
             \/ EraseSubject(sub) \/ EraseFilter(sub)
             \/ (\E S \in SUBSET Streams \ {{}} : EraseStreams(sub, S))
             \/ (\E k \in KeyIDs : EraseKey(sub, k))
  BY <1>1, <1>2, RequestsCert
<1>3. CASE GuardPasses
  <2>1. PICK f : f = IF option.guard THEN Foreign(er.subject) ELSE {}
    OBVIOUS
  <2>2. /\ er.pc = "guard" /\ er' = [er EXCEPT !.pc = "revoke", !.foreign = f]
        /\ UNCHANGED <<certified, leftover>>
    BY <1>3, <2>1 DEF GuardPasses
  <2>3. CertStep
    BY <1>0, <2>2 DEF CertStep
  <2> QED
    BY <1>0, <2>2, <2>3, CertFrame
<1>4. CASE GuardRefuses \/ GuardScanFails
  <2>1. er.pc = "guard" /\ Refused /\ UNCHANGED <<certified, leftover>>
    BY <1>4 DEF GuardRefuses, GuardScanFails
  <2>2. CertStep
    <3>1. CASE Abort
      BY <3>1, AbortIsCertStep
    <3>2. CASE er' = [er EXCEPT !.pc = "models", !.todo = {}, !.partial = TRUE, !.errors = TRUE]
      BY <1>0, <2>1, <3>2 DEF CertStep
    <3> QED
      BY <2>1, <3>1, <3>2 DEF Refused
  <2> QED
    BY <1>0, <2>1, <2>2, CertFrame
<1>5. CASE \E k \in KeyIDs : RevokeKey(k) \/ RevokeFails(k)
  <2>1. PICK k \in KeyIDs : RevokeKey(k) \/ RevokeFails(k)
    BY <1>5
  <2>2. CertStep /\ UNCHANGED <<certified, leftover>>
    BY <1>0, <2>1 DEF RevokeKey, RevokeFails, CertStep
  <2> QED
    BY <1>0, <2>2, CertFrame
<1>6. CASE RevocationUnsupported \/ purgeSubjectIndex \/ EraserCrashes
  <2>1. Abort /\ UNCHANGED <<certified, leftover>>
    BY <1>6 DEF RevocationUnsupported, purgeSubjectIndex, EraserCrashes
  <2> QED
    BY <1>0, <2>1, AbortIsCertStep, CertFrame
<1>7. CASE reconcileAfterRevoke
  <2>1. PICK new : new = resolve(er.subject).keys \ er.keys
    OBVIOUS
  <2>2. PICK pc : pc = IF new = {} THEN "models" ELSE "guard"
    OBVIOUS
  <2>3. /\ er' = [er EXCEPT !.pc = pc, !.late = TRUE, !.todo = new, !.keys = er.keys \cup new,
                             !.partial = er.partial \/ new # {}, !.errors = er.errors \/ new # {}]
        /\ er.pc = "revoke" /\ UNCHANGED <<certified, leftover>>
    BY <1>7, <2>1, <2>2 DEF reconcileAfterRevoke
  <2>4. CertStep
    BY <1>0, <2>3 DEF CertStep
  <2> QED
    BY <1>0, <2>3, <2>4, CertFrame
<1>8. CASE ReconcileFails \/ AllRevoked \/ redactReadModels \/ RedactFails
  <2>1. CertStep /\ UNCHANGED <<certified, leftover>>
    BY <1>0, <1>8 DEF CertStep, ReconcileFails, AllRevoked, redactReadModels, RedactFails, Set
  <2> QED
    BY <1>0, <2>1, CertFrame
<1>9. CASE eraseSubjectStores \/ runErasureHooks \/ HookFails \/ appendMarker \/ EvidenceFails
  <2>1. CertStep /\ UNCHANGED <<certified, leftover>>
    BY <1>0, <1>9 DEF CertStep, eraseSubjectStores, runErasureHooks, HookFails, appendMarker,
                      EvidenceFails, Set
  <2> QED
    BY <1>0, <2>1, CertFrame
<1>10. CASE \E k \in option.stores : SubjectStoreFails(k)
  <2>1. CertStep /\ UNCHANGED <<certified, leftover>>
    BY <1>0, <1>10 DEF CertStep, SubjectStoreFails
  <2> QED
    BY <1>0, <2>1, CertFrame
<1>11. CASE MarkerFails \/ CertificateLost
  <2>1. UNCHANGED <<certified, leftover>>
    BY <1>11 DEF MarkerFails, CertificateLost
  <2>2. CertStep
    <3>1. CASE Abort
      BY <3>1, AbortIsCertStep
    <3>2. CASE ~ Abort
      BY <1>0, <1>11, <3>2 DEF CertStep, MarkerFails, CertificateLost
    <3> QED
      BY <3>1, <3>2
  <2> QED
    BY <1>0, <2>1, <2>2, CertFrame
<1>12. CASE \E sub \in option.targets : Verify(sub)
  BY <1>1, <1>12, ReportTrue
<1> HIDE DEF ErasureFields
<1> QED
  BY <1>2, <1>3, <1>4, <1>5, <1>6, <1>7, <1>8, <1>9, <1>10, <1>11, <1>12, CertificateTrue
     DEF EraseNext, Erase

-----------------------------------------------------------------------------
(* Exports. *)

(* Without upkeep a key that cannot be read, or is revoked, stays so. *)
LEMMA RevokedStays ==
  ASSUME DataInv, DataMove, ToolInv, ToolInv', ~ option.upkeep, NEW k \in KeyIDs
  PROVE  /\ IsRevoked(option.provider, keys[k]) => IsRevoked(option.provider, keys'[k])
         /\ DecryptDataKey(option.provider, keys[k]) # "ok" => DecryptDataKey(option.provider, keys'[k]) # "ok"
<1>1. option' = option /\ restored = {} /\ restored' = {}
  BY DEF DataMove, ToolInv
<1>2. PICK p, s, t : p = option.provider /\ s = keys[k] /\ t = keys'[k]
  OBVIOUS
<1>3. s \in KeyStates /\ t \in KeyStates /\ s # "disabled" /\ t # "disabled"
  BY <1>1, <1>2 DEF DataInv, DataMove, ToolInv
<1>4. (s = "gone" => t = "gone") /\ (s \in {"soft", "gone"} => t \in {"soft", "gone"})
  BY <1>1, <1>2 DEF DataMove, KeyMove, Lost
<1>5. IsRevoked(p, s) => IsRevoked(p, t)
  BY <1>3, <1>4 DEF IsRevoked, GetRevocationState, localState, kmsDescribe, vaultIsRevoked, KeyStates
<1>6. DecryptDataKey(p, s) # "ok" => DecryptDataKey(p, t) # "ok"
  BY <1>3, <1>4 DEF DecryptDataKey, localGetKey, localState, kmsDecryptDataKey, kmsDecryptError,
                    kmsDescribe, vaultDecryptDataKey, vaultDecryptError, vaultEncrypts, vaultIsRevoked,
                    KeyStates
<1> QED
  BY <1>2, <1>5, <1>6

LEMMA MissedStays ==
  ASSUME DataInv, DataMove, ToolInv, ToolInv', ~ option.upkeep, NEW i \in DOMAIN events, Missed(i)
  PROVE  Missed(i)'
<1>1. HasEncryptionEnvelope(events[i]) /\ DecryptDataKey(option.provider, keys[events[i].key]) # "ok"
  BY DEF Missed, taggerPlaintext, DecryptStoredEvent, decryptFields
<1>2. events'[i] = events[i] /\ option' = option
  BY <1>1 DEF DataMove, LogMove, HasEncryptionEnvelope
<1>3. PICK k \in KeyIDs : k = events[i].key
  BY <1>1 DEF DataInv, EventOK, HasEncryptionEnvelope
<1>4. DecryptDataKey(option.provider, keys'[k]) # "ok"
  BY <1>1, <1>3, RevokedStays
<1> QED
  BY <1>1, <1>2, <1>3, <1>4 DEF Missed, taggerPlaintext, DecryptStoredEvent, decryptFields,
                                HasEncryptionEnvelope

LEMMA ExportFrame ==
  ASSUME DataInv, DataMove, ToolInv, ToolInv', ExportInv, ex' = ex
  PROVE  ExportInv'
<1>1. PICK x : x = ex
  OBVIOUS
<1>2. /\ option' = option
      /\ \A i \in DOMAIN events : /\ i \in DOMAIN events' /\ events'[i].stream = events[i].stream
                                  /\ events'[i].subj = events[i].subj
                                  /\ HasEncryptionEnvelope(events[i]) => events'[i] = events[i]
  BY DEF DataMove, LogMove, HasEncryptionEnvelope
<1>3. ShapeOK(x)'
  <2>1. ShapeOK(x)
    BY <1>1 DEF ExportInv
  <2>2. ASSUME NEW i \in DOMAIN events, NEW sub, Names(events[i], sub) PROVE Names(events'[i], sub)
    BY <1>2, <2>2 DEF Names
  <2> QED
    BY <1>2, <2>1, <2>2 DEF ShapeOK
<1>4. ASSUME x.pc # "idle", ~ option.upkeep PROVE KeysOK(x)' /\ OwedOK(x)'
  <2>1. KeysOK(x) /\ OwedOK(x) /\ ShapeOK(x)
    BY <1>1, <1>4 DEF ExportInv
  <2>2. ASSUME NEW k \in KeyIDs \ x.alive PROVE IsRevoked(option.provider, keys'[k])
    BY <1>4, <2>1, <2>2, RevokedStays DEF KeysOK
  <2>3. ASSUME NEW i \in DOMAIN events, Cleared(x, i) PROVE Cleared(x, i)'
    BY <1>2, <2>3 DEF Cleared
  <2>4. KeysOK(x)'
    BY <1>2, <2>1, <2>2, <2>3 DEF KeysOK, ShapeOK
  <2>5. ASSUME NEW i \in DOMAIN events, Accounted(x, i) PROVE Accounted(x, i)'
    <3>1. Missed(i) => Missed(i)'
      BY <1>4, <2>5, MissedStays
    <3> QED
      BY <1>2, <2>5, <3>1 DEF Accounted
  <2>6. OwedOK(x)'
    BY <1>2, <2>1, <2>5 DEF OwedOK, Names
  <2> QED
    BY <2>4, <2>6
<1> QED
  BY <1>1, <1>2, <1>3, <1>4 DEF ExportInv, ShapeOK, KeysOK, OwedOK, Accounted, Cleared, Missed,
     taggerPlaintext, DecryptStoredEvent, decryptFields, HasEncryptionEnvelope, Names

LEMMA ResolvedTagger ==
  ASSUME DataInv, IndexInv, ToolInv, Sound, NEW sub, ~ Partial(sub), Owed(sub, Seen(sub)) # {}
  PROVE  option.tagger
<1>1. PICK i \in Owed(sub, Seen(sub)) : TRUE
  OBVIOUS
<1>2. events[i].stream \in resolve(sub).streams
  BY <1>1, ResolveCovers DEF OwedCovered
<1>3. PICK j \in Seen(sub) : sub \in attributeSubjects(events[j])
  BY <1>2 DEF resolve, Footprint, StreamsOf
<1>4. j \in DOMAIN events
  BY <1>3 DEF Seen, resolveByScan, resolveByIndex, At
<1> QED
  BY <1>3, <1>4 DEF attributeSubjects, ToolInv

(* A step of the export leaves the data alone: its invariant is about the new record. *)
LEMMA ExportMoves ==
  ASSUME NEW x, ex' = x, UNCHANGED <<option, events, keys>>,
         ShapeOK(x), x.pc # "idle" /\ ~ option.upkeep => KeysOK(x) /\ OwedOK(x)
  PROVE  ExportInv'
<1>1. /\ ShapeOK(x)' = ShapeOK(x) /\ KeysOK(x)' = KeysOK(x) /\ OwedOK(x)' = OwedOK(x)
  BY DEF ShapeOK, KeysOK, OwedOK, Accounted, Cleared, Missed, taggerPlaintext, DecryptStoredEvent,
         decryptFields, HasEncryptionEnvelope, Names
<1> QED
  BY <1>1 DEF ExportInv, ShapeOK, KeysOK, OwedOK, Accounted, Cleared, Missed, taggerPlaintext,
     DecryptStoredEvent, decryptFields, HasEncryptionEnvelope, Names

LEMMA BeginKeeps ==
  ASSUME DataInv, NEW sub, NEW kind, NEW S, NEW partial, NEW owed,
         Begin(sub, kind, S, partial, owed),
         ~ option.upkeep /\ ~ partial => OwedCovered(sub, owed, S) /\ (owed # {} => option.tagger)
  PROVE  ExportInv'
<1>1. PICK alive : alive = {k \in KeyIDs : ~ IsRevoked(option.provider, keys[k])}
  OBVIOUS
<1>2. PICK x : x = [NoExport EXCEPT !.pc = "run", !.subject = sub, !.kind = kind, !.streams = S,
                                    !.partial = partial, !.owed = owed, !.alive = alive]
  OBVIOUS
<1>3. ex' = x /\ UNCHANGED <<option, events, keys>>
  BY <1>1, <1>2 DEF Begin, data
<1>4. /\ DOMAIN x = ExportFields /\ x.pc = "run" /\ x.subject = sub /\ x.streams = S
      /\ x.partial = partial /\ x.owed = owed /\ x.alive = alive /\ x.batch = {}
      /\ x.live = {} /\ x.out = {}
  BY <1>2 DEF NoExport, ExportFields
<1>5. ShapeOK(x)
  BY <1>4 DEF ShapeOK
<1>6. KeysOK(x)
  BY <1>1, <1>4 DEF KeysOK
<1>7. ~ option.upkeep => OwedOK(x)
  BY <1>4 DEF OwedOK, OwedCovered, Accounted
<1> QED
  BY <1>3, <1>5, <1>6, <1>7, ExportMoves

(* What a step under way keeps of the header, and what it must not lose. *)
SameExport(x, y) ==
  /\ DOMAIN y = ExportFields /\ y.subject = x.subject /\ y.kind = x.kind /\ y.partial = x.partial
  /\ y.owed = x.owed /\ y.alive = x.alive /\ x.blind \subseteq y.blind

(* y follows x: nothing it owes gets out of sight, and what it adds to the output is *)
(* the event that was at hand.                                                       *)
LEMMA ExportGoesOn ==
  ASSUME ExportInv, ex.pc # "idle", NEW y, ex' = y, UNCHANGED <<option, events, keys>>,
         SameExport(ex, y), y.pc \in {"run", "check", "decrypt"},
         y.batch \subseteq DOMAIN events,
         y.pc \in {"check", "decrypt"} =>
           /\ y.cur \in DOMAIN events /\ HasEncryptionEnvelope(events[y.cur])
           /\ y.kind = "subject" => Names(events[y.cur], y.subject),
         \A o \in y.out \ ex.out :
           /\ o[1] \in DOMAIN events /\ (y.kind = "subject" => Names(events[o[1]], y.subject))
           /\ ~ option.upkeep /\ o[2] = "cipher" => Cleared(y, o[1]),
         ~ option.upkeep => y.live \subseteq y.alive /\ (y.pc = "decrypt" => Cleared(y, y.cur)),
         \A i \in DOMAIN events :
           option.tagger /\ Names(events[i], ex.subject) /\ Accounted(ex, i) => Accounted(y, i)
  PROVE  ExportInv'
<1>1. ShapeOK(y)
  BY DEF ExportInv, ShapeOK, SameExport
<1>2. ASSUME ~ option.upkeep PROVE KeysOK(y) /\ OwedOK(y)
  <2>1. KeysOK(ex) /\ OwedOK(ex)
    BY <1>2 DEF ExportInv
  <2>2. ASSUME NEW o \in y.out, o[2] = "cipher" PROVE Cleared(y, o[1])
    <3>1. CASE o \in ex.out
      BY <2>1, <2>2, <3>1 DEF KeysOK, Cleared, SameExport
    <3> QED
      BY <1>2, <2>2, <3>1
  <2>3. KeysOK(y)
    BY <1>2, <2>1, <2>2 DEF KeysOK, SameExport
  <2>4. OwedOK(y)
    BY <2>1 DEF OwedOK, SameExport
  <2> QED
    BY <2>3, <2>4
<1> QED
  BY <1>1, <1>2, ExportMoves

LEMMA ReadKeeps ==
  ASSUME DataInv, ExportInv, NEW st, exportFromStreams(st)
  PROVE  ExportInv'
<1>1. PICK y : y = [ex EXCEPT !.streams = @ \ {st}, !.batch = At({st})]
  OBVIOUS
<1>2. ex' = y /\ UNCHANGED <<option, events, keys>> /\ ex.pc = "run" /\ ex.batch = {}
  BY <1>1 DEF exportFromStreams, data
<1>3. DOMAIN ex = ExportFields
  BY DEF ExportInv, ShapeOK
<1>4. /\ SameExport(ex, y) /\ y.pc = "run" /\ y.out = ex.out /\ y.live = ex.live /\ y.blind = ex.blind
      /\ y.streams = ex.streams \ {st} /\ y.batch = At({st})
  BY <1>1, <1>2, <1>3 DEF SameExport, ExportFields
<1>5. y.batch \subseteq DOMAIN events
  BY <1>4 DEF At
<1>6. ~ option.upkeep => y.live \subseteq y.alive
  BY <1>2, <1>4 DEF ExportInv, KeysOK, SameExport
<1>7. ASSUME NEW i \in DOMAIN events, Accounted(ex, i) PROVE Accounted(y, i)
  BY <1>2, <1>4, <1>7 DEF Accounted, At
<1> QED
  BY <1>2, <1>4, <1>5, <1>6, <1>7, ExportGoesOn

(* The next event of the batch, whatever becomes of it. *)
LEMMA LeastOfBatch ==
  ASSUME DataInv, ExportInv, ex.batch # {}
  PROVE  LeastOf(ex.batch) \in ex.batch /\ LeastOf(ex.batch) \in DOMAIN events
<1>1. PICK B : B = ex.batch
  OBVIOUS
<1>2. B \subseteq DOMAIN events
  BY <1>1 DEF ExportInv, ShapeOK
<1>3. B \subseteq Nat
  BY <1>2, SeqDomain DEF DataInv
<1>4. LeastOf(B) \in B
  BY <1>1, <1>3, LeastIsLeast
<1> QED
  BY <1>1, <1>2, <1>4

LEMMA FilterKeeps ==
  ASSUME DataInv, ExportInv, FilterEvent
  PROVE  ExportInv'
<1>1. PICK i, e, at : i = LeastOf(ex.batch) /\ e = events[i] /\ at = attributeSubjects(e)
  OBVIOUS
<1>2. PICK y : y = [ex EXCEPT !.batch = @ \ {i}, !.cur = i,
                     !.pc = IF matchesRequest(at) /\ HasEncryptionEnvelope(e) THEN "check" ELSE "run",
                     !.out = IF matchesRequest(at) /\ ~ HasEncryptionEnvelope(e)
                             THEN @ \cup {<<i, "plain">>} ELSE @]
  OBVIOUS
<1>3. ex' = y /\ UNCHANGED <<option, events, keys>> /\ ex.pc = "run" /\ ex.batch # {}
  BY <1>1, <1>2 DEF FilterEvent, Take, data
<1>4. DOMAIN ex = ExportFields
  BY DEF ExportInv, ShapeOK
<1>5. /\ SameExport(ex, y) /\ y.live = ex.live /\ y.blind = ex.blind /\ y.streams = ex.streams
      /\ y.batch = ex.batch \ {i} /\ y.cur = i
      /\ y.pc = IF matchesRequest(at) /\ HasEncryptionEnvelope(e) THEN "check" ELSE "run"
      /\ y.out = IF matchesRequest(at) /\ ~ HasEncryptionEnvelope(e)
                 THEN ex.out \cup {<<i, "plain">>} ELSE ex.out
  BY <1>2, <1>4 DEF SameExport, ExportFields
<1>6. i \in ex.batch /\ i \in DOMAIN events /\ EventOK(e)
  BY <1>1, <1>3, LeastOfBatch DEF DataInv
<1>7. matchesRequest(at) /\ ex.kind = "subject" => Names(e, ex.subject)
  BY <1>1, <1>6, Attributed DEF matchesRequest, Names
<1>8. y.batch \subseteq DOMAIN events
  BY <1>5 DEF ExportInv, ShapeOK
<1>9. ~ option.upkeep => y.live \subseteq y.alive
  BY <1>3, <1>5 DEF ExportInv, KeysOK, SameExport
<1>10. \A o \in y.out \ ex.out : o[1] = i /\ o[2] = "plain" /\ matchesRequest(at)
  BY <1>5
<1>11. ASSUME NEW j \in DOMAIN events, option.tagger, Names(events[j], ex.subject), Accounted(ex, j)
       PROVE  Accounted(y, j)
  <2>1. CASE j = i /\ matchesRequest(at) /\ HasEncryptionEnvelope(e)
    BY <1>5, <2>1 DEF Accounted
  <2>2. CASE j = i /\ matchesRequest(at) /\ ~ HasEncryptionEnvelope(e)
    <3>1. <<i, "plain">> \in y.out /\ <<i, "plain">>[1] = j
      BY <1>5, <2>2
    <3> QED
      BY <3>1 DEF Accounted
  <2>3. CASE j = i /\ ~ matchesRequest(at)
    <3>1. at = {} /\ Range(e.subj) # {}
      BY <1>1, <1>6, <1>11, <2>3, NamedIsAttributed DEF matchesRequest, Names
    <3>2. e.tags = <<>> /\ ~ taggerPlaintext(e)
      BY <1>1, <1>6, <1>11, <3>1 DEF attributeSubjects, EventOK
    <3> QED
      BY <1>1, <2>3, <3>2 DEF Accounted, Missed
  <2>4. CASE j # i
    <3>1. ex.out \subseteq y.out
      BY <1>5
    <3> QED
      BY <1>3, <1>5, <1>11, <2>4, <3>1 DEF Accounted
  <2> QED
    BY <2>1, <2>2, <2>3, <2>4
<1>12. y.pc \in {"run", "check"} /\ (y.pc = "check" => matchesRequest(at) /\ HasEncryptionEnvelope(e))
  BY <1>5
<1>13. y.kind = ex.kind /\ y.subject = ex.subject
  BY <1>5 DEF SameExport
<1> QED
  BY <1>1, <1>3, <1>5, <1>6, <1>7, <1>8, <1>9, <1>10, <1>11, <1>12, <1>13, ExportGoesOn

LEMMA BlindKeeps ==
  ASSUME DataInv, ExportInv, TaggerIsBlind
  PROVE  ExportInv'
<1>1. PICK i : i = LeastOf(ex.batch)
  OBVIOUS
<1>2. PICK y : y = [ex EXCEPT !.batch = @ \ {i}, !.cur = i, !.blind = @ \cup {i},
                              !.pc = IF matchesRequest({}) THEN "check" ELSE "run"]
  OBVIOUS
<1>3. /\ ex' = y /\ UNCHANGED <<option, events, keys>> /\ ex.pc = "run" /\ ex.batch # {}
      /\ events[i].tags = <<>> /\ HasEncryptionEnvelope(events[i])
  BY <1>1, <1>2 DEF TaggerIsBlind
<1>4. DOMAIN ex = ExportFields
  BY DEF ExportInv, ShapeOK
<1>5. /\ SameExport(ex, y) /\ y.live = ex.live /\ y.blind = ex.blind \cup {i} /\ y.streams = ex.streams
      /\ y.batch = ex.batch \ {i} /\ y.cur = i /\ y.out = ex.out
      /\ y.pc = IF matchesRequest({}) THEN "check" ELSE "run"
  BY <1>2, <1>4 DEF SameExport, ExportFields
<1>6. i \in DOMAIN events
  BY <1>1, <1>3, LeastOfBatch
<1>7. matchesRequest({}) => ex.kind = "streams"
  BY DEF matchesRequest
<1>8. y.batch \subseteq DOMAIN events
  BY <1>5 DEF ExportInv, ShapeOK
<1>9. ~ option.upkeep => y.live \subseteq y.alive
  BY <1>3, <1>5 DEF ExportInv, KeysOK, SameExport
<1>10. ASSUME NEW j \in DOMAIN events, Accounted(ex, j) PROVE Accounted(y, j)
  <2>1. CASE j = i
    BY <1>3, <1>5, <2>1 DEF Accounted
  <2>2. CASE j # i
    BY <1>3, <1>5, <1>10, <2>2 DEF Accounted
  <2> QED
    BY <2>1, <2>2
<1>11. y.pc \in {"run", "check"} /\ (y.pc = "check" => y.kind # "subject")
  BY <1>5, <1>7 DEF SameExport
<1> QED
  BY <1>3, <1>5, <1>6, <1>8, <1>9, <1>10, <1>11, ExportGoesOn

(* The event at hand is put out, in whatever form. *)
LEMMA EmitKeeps ==
  ASSUME DataInv, ExportInv, ex.pc \in {"check", "decrypt"}, NEW y, NEW form, ex' = y,
         UNCHANGED <<option, events, keys>>, SameExport(ex, y), y.pc = "run",
         y.live = ex.live, y.batch = ex.batch, y.streams = ex.streams,
         y.out = ex.out \cup {<<ex.cur, form>>},
         form = "cipher" => ex.pc = "decrypt"
  PROVE  ExportInv'
<1>1. PICK i : i = ex.cur
  OBVIOUS
<1>2. /\ i \in DOMAIN events /\ y.batch \subseteq DOMAIN events
      /\ ex.kind = "subject" => Names(events[i], ex.subject)
  BY <1>1 DEF ExportInv, ShapeOK
<1>3. \A o \in y.out \ ex.out : o[1] = i /\ o[2] = form
  BY <1>1
<1>4. ASSUME ~ option.upkeep PROVE y.live \subseteq y.alive /\ (form = "cipher" => Cleared(y, i))
  BY <1>1, <1>4 DEF ExportInv, KeysOK, SameExport, Cleared
<1>5. ASSUME NEW j \in DOMAIN events, Accounted(ex, j) PROVE Accounted(y, j)
  <2>1. CASE j = i
    <3>1. <<i, form>> \in y.out /\ <<i, form>>[1] = j
      BY <1>1, <2>1
    <3> QED
      BY <3>1 DEF Accounted
  <2>2. CASE j # i
    BY <1>1, <1>5, <2>2 DEF Accounted, SameExport
  <2> QED
    BY <2>1, <2>2
<1>6. y.kind = ex.kind /\ y.subject = ex.subject
  BY DEF SameExport
<1> QED
  BY <1>2, <1>3, <1>4, <1>5, <1>6, ExportGoesOn

(* The event at hand goes on to be decrypted. *)
LEMMA PassKeeps ==
  ASSUME DataInv, ExportInv, ex.pc = "check", NEW y, ex' = y, UNCHANGED <<option, events, keys>>,
         SameExport(ex, y), y.pc = "decrypt", y.cur = ex.cur, y.batch = ex.batch,
         y.streams = ex.streams, y.out = ex.out,
         ~ option.upkeep => y.live \subseteq y.alive /\ (CurKey \in y.alive \/ ex.cur \in y.blind)
  PROVE  ExportInv'
<1>1. /\ ex.cur \in DOMAIN events /\ HasEncryptionEnvelope(events[ex.cur]) /\ y.batch \subseteq DOMAIN events
      /\ ex.kind = "subject" => Names(events[ex.cur], ex.subject)
  BY DEF ExportInv, ShapeOK
<1>2. ~ option.upkeep => Cleared(y, y.cur)
  BY <1>1 DEF Cleared, CurKey
<1>3. ASSUME NEW j \in DOMAIN events, Accounted(ex, j) PROVE Accounted(y, j)
  BY <1>3 DEF Accounted, SameExport
<1>4. y.kind = ex.kind /\ y.subject = ex.subject
  BY DEF SameExport
<1> QED
  BY <1>1, <1>2, <1>3, <1>4, ExportGoesOn

LEMMA ProcessKeeps ==
  ASSUME DataInv, ExportInv, checkRevoked \/ CheckFails \/ decryptEvent \/ DecryptFails
  PROVE  ExportInv'
<1>1. DOMAIN ex = ExportFields
  BY DEF ExportInv, ShapeOK
<1>2. CASE checkRevoked
  <2>1. PICK revoked : revoked = IF CurKey \in ex.live \cup ex.revoked THEN CurKey \in ex.revoked
                                 ELSE IsRevoked(option.provider, keys[CurKey])
    OBVIOUS
  <2>2. /\ ex.pc = "check" /\ UNCHANGED <<option, events, keys>>
        /\ ex' = IF revoked THEN [Emit("redacted") EXCEPT !.revoked = @ \cup {CurKey}]
                 ELSE [ex EXCEPT !.pc = "decrypt", !.live = @ \cup {CurKey}]
    BY <1>2, <2>1 DEF checkRevoked, data
  <2>3. CASE revoked
    <3>1. PICK y : y = [Emit("redacted") EXCEPT !.revoked = @ \cup {CurKey}]
      OBVIOUS
    <3>2. /\ SameExport(ex, y) /\ y.pc = "run" /\ y.live = ex.live /\ y.batch = ex.batch
          /\ y.streams = ex.streams /\ y.out = ex.out \cup {<<ex.cur, "redacted">>}
      BY <1>1, <3>1 DEF Emit, SameExport, ExportFields
    <3>3. ex' = y
      BY <2>2, <2>3, <3>1
    <3>4. PICK form : form = "redacted"
      OBVIOUS
    <3> QED
      BY <2>2, <3>2, <3>3, <3>4, EmitKeeps
  <2>4. CASE ~ revoked
    <3>1. PICK y : y = [ex EXCEPT !.pc = "decrypt", !.live = @ \cup {CurKey}]
      OBVIOUS
    <3>2. /\ SameExport(ex, y) /\ y.pc = "decrypt" /\ y.live = ex.live \cup {CurKey} /\ y.batch = ex.batch
          /\ y.streams = ex.streams /\ y.out = ex.out /\ y.cur = ex.cur /\ y.alive = ex.alive
      BY <1>1, <3>1 DEF SameExport, ExportFields
    <3>3. CurKey \in KeyIDs
      BY <2>2 DEF ExportInv, ShapeOK, DataInv, EventOK, HasEncryptionEnvelope, CurKey
    <3>4. ASSUME ~ option.upkeep PROVE ex.live \subseteq ex.alive /\ CurKey \in ex.alive
      BY <2>1, <2>2, <2>4, <3>3, <3>4 DEF ExportInv, KeysOK
    <3> QED
      BY <2>2, <2>4, <3>1, <3>2, <3>4, PassKeeps
  <2> QED
    BY <2>3, <2>4
<1>3. CASE CheckFails
  <2>1. PICK y : y = [ex EXCEPT !.pc = "decrypt", !.blind = @ \cup {ex.cur}]
    OBVIOUS
  <2>2. ex.pc = "check" /\ UNCHANGED <<option, events, keys>> /\ ex' = y
    BY <1>3, <2>1 DEF CheckFails
  <2>3. /\ SameExport(ex, y) /\ y.pc = "decrypt" /\ y.live = ex.live /\ y.batch = ex.batch
        /\ y.streams = ex.streams /\ y.out = ex.out /\ y.cur = ex.cur /\ y.alive = ex.alive
        /\ y.blind = ex.blind \cup {ex.cur}
    BY <1>1, <2>1 DEF SameExport, ExportFields
  <2>4. ~ option.upkeep => ex.live \subseteq ex.alive
    BY <2>2 DEF ExportInv, KeysOK
  <2> QED
    BY <2>2, <2>3, <2>4, PassKeeps
<1>4. CASE decryptEvent
  <2>1. PICK form : form = Exported(DecryptStoredEvent(events[ex.cur]))
    OBVIOUS
  <2>2. ex.pc = "decrypt" /\ UNCHANGED <<option, events, keys>> /\ ex' = Emit(form)
    BY <1>4, <2>1 DEF decryptEvent, data
  <2>3. PICK y : y = Emit(form)
    OBVIOUS
  <2>4. /\ SameExport(ex, y) /\ y.pc = "run" /\ y.live = ex.live /\ y.batch = ex.batch
        /\ y.streams = ex.streams /\ y.out = ex.out \cup {<<ex.cur, form>>}
    BY <1>1, <2>3 DEF Emit, SameExport, ExportFields
  <2> QED
    BY <2>2, <2>3, <2>4, EmitKeeps
<1>5. CASE DecryptFails
  <2>1. PICK form : form = Exported("failed")
    OBVIOUS
  <2>2. PICK y : y = [Emit(form) EXCEPT !.blind = @ \cup {ex.cur}]
    OBVIOUS
  <2>3. ex.pc = "decrypt" /\ UNCHANGED <<option, events, keys>> /\ ex' = y
    BY <1>5, <2>1, <2>2 DEF DecryptFails
  <2>4. /\ SameExport(ex, y) /\ y.pc = "run" /\ y.live = ex.live /\ y.batch = ex.batch
        /\ y.streams = ex.streams /\ y.out = ex.out \cup {<<ex.cur, form>>}
    BY <1>1, <2>2 DEF Emit, SameExport, ExportFields
  <2> QED
    BY <2>3, <2>4, EmitKeeps
<1> QED
  BY <1>2, <1>3, <1>4, <1>5

LEMMA EndKeeps ==
  ASSUME ExportInv, ExportFails \/ ExportDone
  PROVE  ExportInv'
<1>1. CASE ExportFails
  <2>1. ex' = NoExport /\ UNCHANGED <<option, events, keys>>
    BY <1>1 DEF ExportFails
  <2>2. ShapeOK(NoExport) /\ NoExport.pc = "idle"
    BY DEF ShapeOK, NoExport, ExportFields
  <2> QED
    BY <2>1, <2>2, ExportMoves
<1>2. CASE ExportDone
  <2>1. PICK y : y = [ex EXCEPT !.pc = "done"]
    OBVIOUS
  <2>2. /\ ex.pc = "run" /\ ex.batch = {} /\ ex.streams = {} /\ ex' = y
        /\ UNCHANGED <<option, events, keys>>
    BY <1>2, <2>1 DEF ExportDone, data
  <2>3. DOMAIN ex = ExportFields
    BY DEF ExportInv, ShapeOK
  <2>4. /\ DOMAIN y = ExportFields /\ y.pc = "done" /\ y.subject = ex.subject /\ y.kind = ex.kind
        /\ y.streams = ex.streams /\ y.batch = ex.batch /\ y.partial = ex.partial /\ y.cur = ex.cur
        /\ y.live = ex.live /\ y.out = ex.out /\ y.owed = ex.owed /\ y.alive = ex.alive
        /\ y.blind = ex.blind
    BY <2>1, <2>3 DEF ExportFields
  <2>5. ShapeOK(y)
    BY <2>2, <2>4 DEF ExportInv, ShapeOK
  <2>6. ASSUME ~ option.upkeep PROVE KeysOK(y) /\ OwedOK(y)
    <3>1. KeysOK(ex) /\ OwedOK(ex)
      BY <2>2, <2>6 DEF ExportInv
    <3>2. KeysOK(y)
      BY <2>4, <3>1 DEF KeysOK, Cleared
    <3>3. \A i : Accounted(ex, i) => Accounted(y, i)
      BY <2>2, <2>4 DEF Accounted
    <3>4. OwedOK(y)
      BY <2>4, <3>1, <3>3 DEF OwedOK
    <3> QED
      BY <3>2, <3>4
  <2> QED
    BY <2>2, <2>5, <2>6, ExportMoves
<1> QED
  BY <1>1, <1>2

LEMMA ExportNextKeeps ==
  ASSUME DataInv, IndexInv, ToolInv, ExportInv, ExportNext
  PROVE  ExportInv'
<1>1. ASSUME ~ option.upkeep PROVE Sound
  BY <1>1 DEF Sound
<1>2. ASSUME NEW sub, Export(sub) PROVE ExportInv'
  <2>1. PICK S, owed : S = resolve(sub).streams /\ owed = Owed(sub, Seen(sub))
    OBVIOUS
  <2>2. Begin(sub, "subject", S, Partial(sub), owed)
    BY <1>2, <2>1 DEF Export
  <2>3. ~ option.upkeep /\ ~ Partial(sub) => OwedCovered(sub, owed, S) /\ (owed # {} => option.tagger)
    BY <1>1, <2>1, ResolveCovers, ResolvedTagger
  <2> QED
    BY <2>2, <2>3, BeginKeeps
<1>3. ASSUME NEW sub, ExportStream(sub) PROVE ExportInv'
  <2>1. PICK S, owed : S = resolve(sub).streams /\ owed = Owed(sub, Seen(sub))
    OBVIOUS
  <2>2. Begin(sub, "subject", S, FALSE, owed) /\ ~ Partial(sub)
    BY <1>3, <2>1 DEF ExportStream
  <2>3. ~ option.upkeep => OwedCovered(sub, owed, S) /\ (owed # {} => option.tagger)
    BY <1>1, <2>1, <2>2, ResolveCovers, ResolvedTagger
  <2> QED
    BY <2>2, <2>3, BeginKeeps
<1>4. ASSUME NEW sub, NEW S, ExportStreams(sub, S) PROVE ExportInv'
  <2>1. Begin(sub, "streams", S, FALSE, {})
    BY <1>4 DEF ExportStreams
  <2>2. OwedCovered(sub, {}, S)
    BY DEF OwedCovered
  <2> QED
    BY <2>1, <2>2, BeginKeeps
<1> QED
  BY <1>2, <1>3, <1>4, ReadKeeps, FilterKeeps, BlindKeeps, ProcessKeeps, EndKeeps DEF ExportNext

-----------------------------------------------------------------------------
(* The invariant of all of them. *)

GovernanceInv ==
  /\ DataInv /\ ToolInv /\ RowsInv /\ IndexInv
  /\ GuardInv /\ CertInv /\ ExportInv /\ ScopeInv /\ SettleInv

LEMMA InitGovernance == Init => GovernanceInv
<1> SUFFICES ASSUME Init PROVE GovernanceInv
  OBVIOUS
<1>1. DataInv /\ DataInit
  BY InitData DEF Init
<1>2. option \in Setups /\ option.history \in Seq(Input)
  BY <1>1, SetupsAssumption DEF DataInv
<1>3. ASSUME NEW i \in DOMAIN events PROVE events[i].stream \in Streams
  <2>1. PICK in \in Input : events[i] = prepareEventData(in)
    BY <1>1, <1>2 DEF DataInit
  <2> QED
    BY <2>1, PreparedOK
<1>4. RowsInv
  <2>1. ASSUME NEW r \in rows PROVE RowOK(r)
    <3>1. PICK i \in DOMAIN events : r \in RowsOf(events[i])
      BY <1>1, <2>1 DEF DataInit
    <3> QED
      BY <1>3, <3>1, RowsOfOK
  <2> QED
    BY <2>1 DEF RowsInv, RowOK
<1>5. IndexInv
  <2>1. ASSUME NEW sub, NEW st, <<sub, st>> \in index PROVE TaggedIn(sub, st)
    <3>1. PICK i \in DOMAIN events : <<sub, st>> \in {<<x, events[i].stream>> : x \in Range(events[i].tags)}
      BY <1>1, <2>1 DEF DataInit
    <3>2. sub \in Range(events[i].tags) /\ st = events[i].stream
      BY <3>1
    <3> QED
      BY <3>2 DEF TaggedIn
  <2>2. writer.stage # "stored"
    BY <1>1 DEF DataInit, NoAppend
  <2> QED
    BY <2>1, <2>2 DEF IndexInv
<1>6. er = NoErasure /\ certified = {} /\ leftover = {} /\ victims = {} /\ sw = NoSweep
      /\ checkpoint = 0 /\ strays = {}
  BY DEF Init, EraseInit, RetainInit
<1>7. GuardInv /\ CertInv
  BY <1>6, NoErasureFacts DEF GuardInv, CertInv, VerifiedIsErased
<1>8. ScopeInv /\ SweepInv
  BY <1>6, NoSweepFacts DEF ScopeInv, SweepInv
<1>9. SettleInv
  <2>1. DOMAIN events = 1 .. Len(events) /\ Len(events) \in Nat
    BY <1>1, SeqDomain DEF DataInv
  <2>2. \A i \in DOMAIN events : ~ (i <= 0)
    BY <2>1
  <2> QED
    BY <1>6, <1>8, <2>1, <2>2 DEF SettleInv
<1>10. ToolInv
  <2>1. ASSUME NEW i \in DOMAIN events PROVE events[i].tags # <<>> => option.tagger
    <3>1. PICK in : events[i] = prepareEventData(in)
      BY <1>1 DEF DataInit
    <3> QED
      BY <3>1 DEF prepareEventData, applySubjectTagPolicy
  <2>2. writer.stage = "idle" /\ restored = {} /\ \A k \in KeyIDs : keys[k] = "live"
    BY <1>1 DEF DataInit, NoAppend
  <2> QED
    BY <2>1, <2>2 DEF ToolInv
<1>11. ExportInv
  BY DEF Init, ExportInit, NoExport, ExportInv, ShapeOK, ExportFields
<1> QED
  BY <1>1, <1>4, <1>5, <1>7, <1>8, <1>9, <1>10, <1>11 DEF GovernanceInv

LEMMA NextGovernance == GovernanceInv /\ [Next]_vars => GovernanceInv'
<1> SUFFICES ASSUME GovernanceInv, [Next]_vars PROVE GovernanceInv'
  OBVIOUS
<1>0. /\ DataInv /\ ToolInv /\ RowsInv /\ IndexInv
      /\ GuardInv /\ CertInv /\ ExportInv /\ ScopeInv /\ SettleInv
  BY DEF GovernanceInv
<1>1. DataMove /\ DataInv' /\ ToolInv'
  BY <1>0, EveryStepMoves, EveryStepTools DEF DataMove
<1>10. ASSUME UNCHANGED exportVars PROVE ExportInv'
  <2>1. ex' = ex
    BY <1>10 DEF exportVars
  <2> QED
    BY <1>0, <1>1, <2>1, ExportFrame
<1>2. ASSUME UNCHANGED erasureVars PROVE GuardInv' /\ CertInv'
  <2>1. er' = er /\ victims' = victims /\ UNCHANGED <<certified, leftover>>
    BY <1>2 DEF erasureVars
  <2>2. GuardInv'
    BY <1>0, <2>1 DEF GuardInv
  <2> QED
    BY <1>0, <1>1, <2>1, <2>2, CertFrame
<1>3. ASSUME UNCHANGED retentionVars PROVE ScopeInv' /\ SettleInv'
  <2>1. UNCHANGED <<sw, checkpoint, strays>>
    BY <1>3 DEF retentionVars
  <2> QED
    BY <1>0, <1>1, <2>1, SweepFrame
<1>4. ASSUME UNCHANGED <<rows, index, writer>> PROVE RowsInv' /\ IndexInv'
  <2>1. rows' = rows /\ index' = index /\ writer' = writer
    BY <1>4
  <2> QED
    BY <1>0, <1>1, <2>1, RowsFrame
<1>5. CASE DataNext /\ UNCHANGED <<erasureVars, exportVars, retentionVars>>
  <2>1. RowsInv' /\ IndexInv'
    BY <1>0, <1>5, DataRows
  <2> QED
    BY <1>1, <1>2, <1>3, <1>5, <1>10, <2>1 DEF GovernanceInv
<1>6. CASE EraseNext /\ UNCHANGED <<exportVars, retentionVars>>
  <2>1. RowsInv' /\ IndexInv' /\ GuardInv' /\ CertInv'
    BY <1>0, <1>6, EraseRows, EraseGuard, EraseCert
  <2> QED
    BY <1>1, <1>3, <1>6, <1>10, <2>1 DEF GovernanceInv
<1>7. CASE ExportNext /\ UNCHANGED retentionVars
  BY <1>0, <1>1, <1>2, <1>3, <1>4, <1>7, ExportSteps, ExportNextKeeps, OtherRows DEF GovernanceInv
<1>8. CASE RetainNext
  <2>1. ScopeInv' /\ SettleInv' /\ UNCHANGED erasureVars /\ UNCHANGED exportVars
    BY <1>0, <1>8, RetainKeeps, RetainFrames
  <2> QED
    BY <1>1, <1>2, <1>4, <1>8, <1>10, <2>1, OtherRows DEF GovernanceInv
<1>9. CASE UNCHANGED vars
  <2>1. /\ UNCHANGED erasureVars /\ UNCHANGED retentionVars /\ UNCHANGED exportVars
        /\ UNCHANGED <<rows, index, writer>>
    BY <1>9 DEF vars, data
  <2> QED
    BY <1>1, <1>2, <1>3, <1>4, <1>10, <2>1 DEF GovernanceInv
<1> QED
  BY <1>5, <1>6, <1>7, <1>8, <1>9 DEF Next

(* DataEraser, RetentionManager and the writers around them (erasure.go,          *)
(* retention.go, encryption.go) keep the invariant above.                         *)
THEOREM GovernanceInvariant == Spec => []GovernanceInv
<1>1. Init => GovernanceInv
  BY InitGovernance
<1>2. GovernanceInv /\ [Next]_vars => GovernanceInv'
  BY NextGovernance
<1> QED
  BY <1>1, <1>2, PTL DEF Spec

(* WithSharedKeyGuard: Erase revokes no key that protected somebody else's event  *)
(* when the guard scanned the store.                                              *)
THEOREM GuardedErasureSparesOthers == Spec => []OthersUntouched
<1>1. GovernanceInv => OthersUntouched
  BY DEF GovernanceInv, GuardInv, OthersUntouched
<1> QED
  BY <1>1, GovernanceInvariant, PTL

(* A verified certificate of Erase, and a clean report of Verify, are true: the   *)
(* events they speak for are beyond reading, and the rows that are left are ones  *)
(* they do not attest (see Unattested: a store without a counter, a raw aggregate *)
(* id the caller did not opt in to, a shared stream that was skipped). For every  *)
(* setup but an authoritative index beside upkeep: BackfillSubjectIndex fills the *)
(* index from plaintext, and whoever is only in the index, not in the tags, is    *)
(* lost to the resolver once the key is revoked.                                  *)
THEOREM CertificatesAreTrue == Spec => [](Sound => VerifiedIsErased)
<1>1. GovernanceInv => (Sound => VerifiedIsErased)
  BY DEF GovernanceInv, CertInv
<1> QED
  BY <1>1, GovernanceInvariant, PTL

(* A sweep revokes no key that protected an event out of scope when it began.     *)
THEOREM SweepsStayInScope == Spec => []OutOfScopeKept
<1>1. GovernanceInv => OutOfScopeKept
  BY DEF GovernanceInv, ScopeInv, OutOfScopeKept
<1> QED
  BY <1>1, GovernanceInvariant, PTL

(* Behind the retention checkpoint every event a Shred policy is for has lost its *)
(* key, unless an administrator restored it.                                      *)
THEOREM SweepsMissNothing == Spec => []SettledIsShredded
<1>1. GovernanceInv => SettledIsShredded
  BY DEF GovernanceInv, SettleInv, Shreddable, Lost, SettledIsShredded
<1> QED
  BY <1>1, GovernanceInvariant, PTL

(* DataExporter: an export of a resolved subject that does not call itself        *)
(* partial holds nobody else's events and all of the subject's, but an untagged   *)
(* one that could not be read when the filter came to it; and ciphertext leaves   *)
(* it unmarked only under a key that was not revoked when it began, or where      *)
(* IsRevoked or DecryptDataKey failed. For every setup without upkeep, in which   *)
(* an administrator may restore a key the export found revoked.                   *)
THEOREM ExportsAreHonest == Spec => [](~ option.upkeep => ExportHonest)
<1>1. GovernanceInv => (~ option.upkeep => ExportHonest)
  <2> SUFFICES ASSUME ExportInv, ~ option.upkeep PROVE ExportHonest
    BY DEF GovernanceInv
  <2>1. ShapeOK(ex) /\ (ex.pc # "idle" => KeysOK(ex) /\ OwedOK(ex))
    BY DEF ExportInv
  <2>2. ASSUME NEW o \in ex.out
        PROVE  /\ ex.kind = "subject" => Names(events[o[1]], ex.subject)
               /\ o[2] = "cipher" => events[o[1]].key \in ex.alive \/ o[1] \in ex.blind
    BY <2>1, <2>2 DEF ShapeOK, KeysOK, Cleared
  <2>3. ASSUME ex.pc = "done", ~ ex.partial, NEW i \in ex.owed
        PROVE  \/ \E o \in ex.out : o[1] = i
               \/ events[i].tags = <<>> /\ (i \in ex.blind \/ ~ taggerPlaintext(events[i]))
    BY <2>1, <2>3 DEF ShapeOK, OwedOK, Accounted, Missed
  <2> QED
    BY <2>2, <2>3 DEF ExportHonest
<1> QED
  BY <1>1, GovernanceInvariant, PTL

-----------------------------------------------------------------------------
(* Field encryption, one field at a time. *)

(* A sequence is a prefix of itself, and its parents are not below it. *)
LEMMA PrefixFacts ==
  ASSUME NEW S, NEW p \in Seq(S)
  PROVE  /\ IsPrefix(p, p) /\ ~ IsStrictPrefix(p, p)
         /\ \A q : IsStrictPrefix(p, q) => IsPrefix(p, q)
         /\ \A k \in DOMAIN Parents(p) : ~ IsPrefix(p, Parents(p)[k]) /\ Parents(p)[k] # p
<1>1. Len(p) \in Nat
  OBVIOUS
<1>2. ASSUME NEW k \in DOMAIN Parents(p) PROVE Len(Parents(p)[k]) < Len(p)
  <2>1. k \in 1 .. Len(p) - 1 /\ Parents(p)[k] = SubSeq(p, 1, k)
    BY <1>2 DEF Parents
  <2>2. Len(SubSeq(p, 1, k)) = k
    BY <1>1, <2>1
  <2> QED
    BY <1>1, <2>1, <2>2
<1>3. ASSUME NEW k \in DOMAIN Parents(p) PROVE ~ IsPrefix(p, Parents(p)[k]) /\ Parents(p)[k] # p
  <2>1. PICK n \in Nat : n = Len(Parents(p)[k]) /\ n < Len(p)
    <3>1. k \in 1 .. Len(p) - 1 /\ Parents(p)[k] = SubSeq(p, 1, k)
      BY <1>3 DEF Parents
    <3>2. Len(SubSeq(p, 1, k)) = k /\ k \in Nat
      BY <1>1, <3>1
    <3> QED
      BY <1>2, <1>3, <3>1, <3>2
  <2>2. ~ (Len(p) <= Len(Parents(p)[k]))
    BY <1>1, <2>1
  <2> QED
    BY <1>1, <2>1, <2>2 DEF IsPrefix
<1> QED
  BY <1>1, <1>3 DEF IsPrefix, IsStrictPrefix

(* What is sealed at a path can be opened there, and what opens is what was       *)
(* there, for every document and every path: encryptJSONField leaves no plaintext *)
(* at or below the path and touches nothing else, and decryptJSONField, asked     *)
(* next, restores the document. The document may hold sealed fields already, so   *)
(* fields opened in the reverse order of their sealing undo each other.           *)
THEOREM SealedFieldOpens ==
  ASSUME NEW S, NEW p \in Seq(S), NEW d, d = [q \in DOMAIN d |-> d[q]],
         encryptJSONField(d, p).did = "seal"
  PROVE  LET e == encryptJSONField(d, p).doc
         IN /\ p \in DOMAIN e /\ Hidden(e, p) /\ \A q \in DOMAIN e : ~ IsStrictPrefix(p, q)
            /\ \A q \in DOMAIN d : ~ IsPrefix(p, q) => q \in DOMAIN e /\ e[q] = d[q]
            /\ decryptJSONField(e, p) = [ok |-> TRUE, doc |-> d]
<1>1. PICK v : v = [kind |-> "sealed", aad |-> fieldAAD(p), of |-> Below(d, p)]
  OBVIOUS
<1>2. PICK e : e = [q \in {q \in DOMAIN d : ~ IsStrictPrefix(p, q)} |-> IF q = p THEN v ELSE d[q]]
  OBVIOUS
<1>3. Blocks(d, p) = {} /\ p \in DOMAIN d /\ encryptJSONField(d, p).doc = e
  <2>1. PICK first : first = Parents(p)[Min(Blocks(d, p))]
    OBVIOUS
  <2>2. PICK optional \in BOOLEAN : optional <=> IF Blocks(d, p) = {} THEN p \notin DOMAIN d
                                                ELSE first \notin DOMAIN d \/ d[first] = Node("null")
    OBVIOUS
  <2>3. encryptJSONField(d, p) = CASE optional -> [did |-> "nothing", doc |-> d]
                                   [] ~ optional /\ Blocks(d, p) # {} -> [did |-> "error", doc |-> d]
                                   [] OTHER -> [did |-> "seal", doc |-> e]
    BY <1>1, <1>2, <2>1, <2>2 DEF encryptJSONField
  <2>4. ~ optional /\ Blocks(d, p) = {}
    BY <2>2, <2>3
  <2> QED
    BY <2>2, <2>3, <2>4
<1>4. p \in DOMAIN e /\ e[p] = v /\ v.kind = "sealed" /\ v.aad = p /\ v.of = Below(d, p)
  BY <1>1, <1>2, <1>3, PrefixFacts DEF fieldAAD
<1>5. \A q \in DOMAIN d : ~ IsPrefix(p, q) => q \in DOMAIN e /\ e[q] = d[q]
  BY <1>2, PrefixFacts
<1>6. Blocks(e, p) = {}
  <2>1. ASSUME NEW k \in DOMAIN Parents(p) PROVE Parents(p)[k] \in DOMAIN e /\ e[Parents(p)[k]] = Node("object")
    <3>1. Parents(p)[k] \in DOMAIN d /\ d[Parents(p)[k]] = Node("object")
      BY <1>3, <2>1 DEF Blocks
    <3> QED
      BY <1>5, <2>1, <3>1, PrefixFacts
  <2> QED
    BY <2>1 DEF Blocks
<1>6a. PICK b : b = Below(d, p)
  OBVIOUS
<1>7. b = Below(d, p) /\ DOMAIN b = {q \in DOMAIN d : IsPrefix(p, q)} /\ \A q \in DOMAIN b : b[q] = d[q]
  BY <1>6a DEF Below
<1>8. [q \in DOMAIN e \cup DOMAIN b |-> IF q \in DOMAIN b THEN b[q] ELSE e[q]] = d
  <2>1. DOMAIN e \cup DOMAIN b = DOMAIN d
    BY <1>2, <1>7, PrefixFacts
  <2>2. \A q \in DOMAIN d : (IF q \in DOMAIN b THEN b[q] ELSE e[q]) = d[q]
    BY <1>5, <1>7
  <2> QED
    BY <2>1, <2>2
<1>9. decryptJSONField(e, p) = [ok |-> TRUE, doc |-> d]
  <2>1. Blocks(e, p) = {} /\ p \in DOMAIN e /\ e[p].kind = "sealed" /\ decryptFieldValue(e[p], p)
    BY <1>4, <1>6 DEF decryptFieldValue, fieldAAD
  <2>2. e[p].of = b
    BY <1>4, <1>7
  <2>3. decryptJSONField(e, p) = [ok |-> TRUE, doc |-> [q \in DOMAIN e \cup DOMAIN b |-> IF q \in DOMAIN b THEN b[q] ELSE e[q]]]
    BY <2>1, <2>2 DEF decryptJSONField
  <2> QED
    BY <1>8, <2>3
<1>10. Hidden(e, p) /\ \A q \in DOMAIN e : ~ IsStrictPrefix(p, q)
  BY <1>2, <1>4 DEF Hidden
<1> QED
  BY <1>3, <1>4, <1>5, <1>9, <1>10
=============================================================================
