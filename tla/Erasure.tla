------------------------------- MODULE Erasure -------------------------------
(***************************************************************************)
(* DataEraser: an erasure resolves or discovers the keys and streams of a  *)
(* subject, passes the shared-key guard, revokes key by key, resolves once *)
(* more, propagates to read models, sibling stores and hooks, appends a    *)
(* marker, certifies and purges the index. Every one of these reads the    *)
(* store anew while writers go on, and an erasure may die anywhere and be  *)
(* run again.                                                              *)
(***************************************************************************)
EXTENDS PersonalData

VARIABLES er,         \* the erasure under way
          certified,  \* events a verified certificate or report has spoken for
          leftover,   \* rows that were left when one was issued: records, see RowsLeft
          victims     \* keys a guarded erasure revoked although they protect others

erasureVars == <<er, certified, leftover, victims>>

NoErasure ==
  [pc |-> "idle", subject |-> None, resolved |-> FALSE, late |-> FALSE,
   keys |-> {}, todo |-> {}, failed |-> {}, streams |-> {}, shared |-> {}, matched |-> {},
   partial |-> FALSE, errors |-> FALSE, residual |-> FALSE, verified |-> FALSE,
   owed |-> {}, foreign |-> {}]

EraseInit == er = NoErasure /\ certified = {} /\ leftover = {} /\ victims = {}

-----------------------------------------------------------------------------
(* SubjectResolver. *)

\* A scan sees every event, and with it those nobody can be found for.
attributeBatch(sub) == \E i \in DOMAIN events : attributeSubjects(events[i]) = {}

streamSharedWithOthers(sub, st) == \E i \in At({st}) : attributeSubjects(events[i]) \ {sub} # {}
detectSharedStreams(sub, S) == {st \in S : streamSharedWithOthers(sub, st)}

\* footprintBuilder: what is recorded of the events attributed to the subject.
Footprint(sub, seen) ==
  LET mine == {i \in seen : sub \in attributeSubjects(events[i])}
  IN [matched |-> mine, streams |-> StreamsOf(mine), keys |-> KeysOf(mine),
      shared |-> detectSharedStreams(sub, StreamsOf(mine))]

resolveByIndex(sub) ==
  At(IF option.resolver = "metadata" THEN streamsBySubjectJSONB(sub) ELSE StreamsBySubject(sub))
resolveByScan(sub) == DOMAIN events
Seen(sub) == IF option.resolver = "scan" THEN resolveByScan(sub) ELSE resolveByIndex(sub)
resolve(sub) == Footprint(sub, Seen(sub))

\* An index is trusted to be complete only where the caller says so.
AuthoritativeIndex == option.resolver \in {"authoritative", "metadata"}
Partial(sub) == IF option.resolver = "scan" THEN attributeBatch(sub) ELSE ~AuthoritativeIndex

\* What a verified answer to a request about these events speaks for.
Owed(sub, I) == {i \in I : Names(events[i], sub)}

-----------------------------------------------------------------------------
(* Requests. *)

Start(sub, fp, partial, resolved, owed) ==
  /\ er.pc = "idle"
  /\ er' = [NoErasure EXCEPT
              !.pc = "guard", !.subject = sub, !.resolved = resolved, !.matched = fp.matched,
              !.keys = fp.keys, !.todo = fp.keys, !.streams = fp.streams, !.shared = fp.shared,
              !.partial = partial, !.owed = owed]
  /\ UNCHANGED <<certified, leftover, victims>> /\ UNCHANGED data

\* SubjectID alone, with a resolver.
EraseSubject(sub) ==
  /\ option.resolver # "none" /\ "subject" \in option.requests
  /\ Start(sub, resolve(sub), Partial(sub), TRUE, Owed(sub, Seen(sub)))

\* discoverKeysByStream: in a stream with attributable events only the subject's
\* count, in any other one all of them.
Scoped(st) == \E i \in At({st}) : attributeSubjects(events[i]) # {}
collectStreamKeys(sub, st) == {i \in At({st}) : Scoped(st) => sub \in attributeSubjects(events[i])}
Unattributable(S) == {i \in At(S) : attributeSubjects(events[i]) = {}}

EraseStreams(sub, S) ==
  LET found == UNION {collectStreamKeys(sub, st) : st \in S}
      scoped == {st \in S : Scoped(st)}
  IN /\ "streams" \in option.requests
     /\ Start(sub,
              [matched |-> found \cap At(scoped), streams |-> StreamsOf(found), keys |-> KeysOf(found),
               shared |-> detectSharedStreams(sub, StreamsOf(found))],
              Unattributable(scoped) # {}, FALSE, Owed(sub, At(S)))

\* discoverKeysByScan with SubjectFilter: the tagged events.
SubjectFilter(sub, e) == sub \in Range(e.tags)
collectScanKeys(sub) == {i \in DOMAIN events : SubjectFilter(sub, events[i])}

EraseFilter(sub) ==
  /\ "filter" \in option.requests
  /\ Start(sub, Footprint(sub, collectScanKeys(sub)), FALSE, FALSE, Owed(sub, collectScanKeys(sub)))

\* KeyIDs alone: nothing is looked at.
EraseKey(sub, k) ==
  /\ "keys" \in option.requests
  /\ Start(sub, [matched |-> {}, streams |-> {}, keys |-> {k}, shared |-> {}], FALSE, FALSE, {})

-----------------------------------------------------------------------------
(* Guard, revocation, second resolution. *)

Set(pc) == er' = [er EXCEPT !.pc = pc]
Abort == er' = NoErasure

\* Mutant: an event nobody can be found for does not share its key.
sharedUnlessUnattributed(sub, K) ==
  {k \in K : \E i \in DOMAIN events :
     events[i].key = k /\ attributeSubjects(events[i]) \ {sub} # {}}

\* The keys that also protect events of others, or of nobody known.
detectSharedKeys(sub, K) ==
  {k \in K : \E i \in DOMAIN events : events[i].key = k /\ attributeSubjects(events[i]) # {sub}}

\* The keys that protect somebody else, by what the payloads say.
Foreign(sub) == KeysOf({i \in DOMAIN events : Range(events[i].subj) \ {sub} # {}})

GuardPasses ==
  /\ er.pc = "guard"
  /\ option.guard => detectSharedKeys(er.subject, er.todo) = {}
  /\ er' = [er EXCEPT !.pc = "revoke", !.foreign = IF option.guard THEN Foreign(er.subject) ELSE {}]
  /\ UNCHANGED <<certified, leftover, victims>> /\ UNCHANGED data

\* A shared key ends the erasure; found late, it is only not revoked.
Refused ==
  IF er.late THEN er' = [er EXCEPT !.pc = "models", !.todo = {}, !.partial = TRUE, !.errors = TRUE]
  ELSE Abort

GuardRefuses ==
  /\ er.pc = "guard" /\ option.guard
  /\ detectSharedKeys(er.subject, er.todo) # {}
  /\ Refused
  /\ UNCHANGED <<certified, leftover, victims>> /\ UNCHANGED data

\* The guard's own scan of the store fails.
GuardScanFails ==
  /\ er.pc = "guard" /\ option.guard /\ er.todo # {} /\ Fault
  /\ Refused
  /\ UNCHANGED <<certified, leftover, victims>>
  /\ UNCHANGED <<option, events, keys, index, rows, writer, appends, restored>>

\* Mutant: a key that is destroyed already cannot be revoked again.
RevokeOnce(k) ==
  /\ er.pc = "revoke" /\ k \in er.todo /\ Revocable(option.provider)
  /\ keys' = [keys EXCEPT ![k] = Revoke(option.provider, @)]
  /\ er' = [er EXCEPT !.todo = @ \ {k}, !.failed = IF keys[k] = "gone" THEN @ \cup {k} ELSE @]
  /\ victims' = victims \cup ({k} \cap er.foreign)
  /\ UNCHANGED <<option, events, index, rows, writer, appends, faults, restored>>
  /\ UNCHANGED <<certified, leftover>>

\* RevokeKeys, one key: revoking a revoked key succeeds.
RevokeKey(k) ==
  /\ er.pc = "revoke" /\ k \in er.todo /\ Revocable(option.provider)
  /\ keys' = [keys EXCEPT ![k] = Revoke(option.provider, @)]
  /\ er' = [er EXCEPT !.todo = @ \ {k}]
  /\ victims' = victims \cup ({k} \cap er.foreign)
  /\ UNCHANGED <<option, events, index, rows, writer, appends, faults, restored>>
  /\ UNCHANGED <<certified, leftover>>

RevokeFails(k) ==
  /\ er.pc = "revoke" /\ k \in er.todo /\ Fault
  /\ er' = [er EXCEPT !.todo = @ \ {k}, !.failed = @ \cup {k}, !.errors = TRUE]
  /\ UNCHANGED <<certified, leftover, victims>>
  /\ UNCHANGED <<option, events, keys, index, rows, writer, appends, restored>>

\* A provider that cannot revoke ends the erasure.
RevocationUnsupported ==
  /\ er.pc = "revoke" /\ er.todo # {} /\ ~Revocable(option.provider)
  /\ Abort
  /\ UNCHANGED <<certified, leftover, victims>> /\ UNCHANGED data

\* reconcileAfterRevoke: keys that have come since are guarded and revoked too, and
\* the result is Partial.
reconcileAfterRevoke ==
  LET new == resolve(er.subject).keys \ er.keys
  IN /\ er.pc = "revoke" /\ er.todo = {} /\ er.resolved /\ ~er.late
     /\ er' = [er EXCEPT !.pc = IF new = {} THEN "models" ELSE "guard", !.late = TRUE,
                         !.todo = new, !.keys = @ \cup new,
                         !.partial = @ \/ new # {}, !.errors = @ \/ new # {}]
     /\ UNCHANGED <<certified, leftover, victims>> /\ UNCHANGED data

ReconcileFails ==
  /\ er.pc = "revoke" /\ er.todo = {} /\ er.resolved /\ ~er.late /\ Fault
  /\ er' = [er EXCEPT !.pc = "models", !.errors = TRUE]
  /\ UNCHANGED <<certified, leftover, victims>>
  /\ UNCHANGED <<option, events, keys, index, rows, writer, appends, restored>>

AllRevoked ==
  /\ er.pc = "revoke" /\ er.todo = {} /\ (er.late \/ ~er.resolved)
  /\ Set("models")
  /\ UNCHANGED <<certified, leftover, victims>> /\ UNCHANGED data

-----------------------------------------------------------------------------
(* Propagation. *)

redactReadModels ==
  /\ er.pc = "models" /\ Set("stores")
  /\ UNCHANGED <<certified, leftover, victims>> /\ UNCHANGED data

RedactFails ==
  /\ er.pc = "models" /\ Fault
  /\ er' = [er EXCEPT !.pc = "stores", !.errors = TRUE, !.residual = TRUE]
  /\ UNCHANGED <<certified, leftover, victims>>
  /\ UNCHANGED <<option, events, keys, index, rows, writer, appends, restored>>

\* The ids a row of the subject alone may have: its own, those of the streams it has
\* alone and, where the caller opted in, the raw aggregate ids of these streams.
ExclusiveStreams(S, shared) == S \ shared
derivedAggregateIDs(S) == {option.aggregate[st] : st \in S}
footprintIDs(sub, S, shared) ==
  LET own == ExclusiveStreams(S, shared)
  IN {sub} \cup own \cup (IF option.derived THEN derivedAggregateIDs(own) ELSE {})

ByActor(sub, r) == r[1] = "audit" /\ r[3] = sub

\* Snapshots go by stream, shared or not; the others by these ids, audit rows by actor too.
InFootprint(sub, S, shared, r) ==
  IF r[1] = "snapshot" THEN r[2] \in S
  ELSE r[2] \in footprintIDs(sub, S, shared) \/ ByActor(sub, r)

\* A store without a purger by footprint goes by the bare subject id, or is skipped.
purgeByFootprint(sub, S, shared) ==
  {r \in rows :
     \/ r[1] \notin option.legacy \cup option.unpurged /\ InFootprint(sub, S, shared, r)
     \/ r[1] \in option.legacy /\ (r[2] = sub \/ ByActor(sub, r))}

\* What the stores that can count still hold.
countSubjectResiduals(sub, S, shared) ==
  {r \in rows : r[1] \notin option.uncounted /\ InFootprint(sub, S, shared, r)}

Purged == purgeByFootprint(er.subject, er.streams, er.shared)

\* Only a purge by footprint knows that it left shared streams alone.
SharedStreamsSkipped ==
  er.shared # {} /\ option.stores \ ({"snapshot"} \cup option.legacy \cup option.unpurged) # {}

eraseSubjectStores ==
  /\ er.pc = "stores" /\ Set("hooks")
  /\ rows' = rows \ Purged
  /\ UNCHANGED <<certified, leftover, victims>>
  /\ UNCHANGED <<option, events, keys, index, writer, appends, faults, restored>>

\* One store fails, with some of its rows deleted; the others go on.
SubjectStoreFails(k) ==
  /\ er.pc = "stores" /\ k \in option.stores /\ Fault
  /\ er' = [er EXCEPT !.pc = "hooks", !.errors = TRUE, !.residual = TRUE]
  /\ \E kept \in SUBSET {r \in Purged : r[1] = k} : rows' = (rows \ Purged) \cup kept
  /\ UNCHANGED <<certified, leftover, victims>>
  /\ UNCHANGED <<option, events, keys, index, writer, appends, restored>>

runErasureHooks ==
  /\ er.pc = "hooks" /\ Set("marker")
  /\ UNCHANGED <<certified, leftover, victims>> /\ UNCHANGED data

HookFails ==
  /\ er.pc = "hooks" /\ Fault
  /\ er' = [er EXCEPT !.pc = "marker", !.errors = TRUE]
  /\ UNCHANGED <<certified, leftover, victims>>
  /\ UNCHANGED <<option, events, keys, index, rows, writer, appends, restored>>

-----------------------------------------------------------------------------
(* Accountability. *)

markerExists(sub) == \E i \in DOMAIN events : events[i].marker = sub

Marker(sub) ==
  [stream |-> MarkerStream, subj |-> <<>>, tags |-> <<>>, marker |-> sub, key |-> None,
   rewritten |-> FALSE]

appendMarker ==
  /\ er.pc = "marker" /\ Set("certify")
  /\ events' = IF ~option.marker \/ markerExists(er.subject) THEN events
               ELSE Append(events, Marker(er.subject))
  /\ UNCHANGED <<certified, leftover, victims>>
  /\ UNCHANGED <<option, keys, index, rows, writer, appends, faults, restored>>

MarkerFails ==
  /\ er.pc = "marker" /\ option.marker /\ ~markerExists(er.subject) /\ Fault
  /\ IF option.strict THEN Abort ELSE er' = [er EXCEPT !.pc = "certify", !.errors = TRUE]
  /\ UNCHANGED <<certified, leftover, victims>>
  /\ UNCHANGED <<option, events, keys, index, rows, writer, appends, restored>>

\* verifyStreams: the events matched before the revocation, and those attributed now;
\* an event of nobody that is not destroyed leaves the report Partial.
revocationState(e) == GetRevocationState(option.provider, keys[e.key])
recordChecked(e) == HasEncryptionEnvelope(e) /\ revocationState(e) = "revoked"
recordUnattributed(e) == attributeSubjects(e) = {} => recordChecked(e)
ownsEvent(sub, i, matched) == i \in matched \/ sub \in attributeSubjects(events[i])

verifyStreams(sub, S, matched) ==
  LET own == {i \in At(S) : ownsEvent(sub, i, matched)}
  IN [checked |-> own, partial |-> \E i \in At(S) \ own : ~recordUnattributed(events[i])]

clean(rep, residue) ==
  /\ \A i \in rep.checked : recordChecked(events[i])
  /\ ~rep.partial /\ residue = {}

Evidence == verifyStreams(er.subject, er.streams, er.matched)
attestEvidence ==
  ~er.partial /\ clean(Evidence, countSubjectResiduals(er.subject, er.streams, er.shared))

\* Nothing was checked: fine only if nothing was attempted.
gateVacuous == Evidence.checked = {} => er.keys = {} /\ er.streams = {}
gateKeyOutcome == er.failed = {}
gateSubjectStores == ~er.residual /\ option.unpurged = {} /\ ~SharedStreamsSkipped

\* buildCertificate.
Verified ==
  /\ attestEvidence /\ gateVacuous /\ gateKeyOutcome /\ gateSubjectStores
  /\ option.marker => markerExists(er.subject)

\* The rows of the subject and of the streams of the events in I, whatever id they are
\* kept under, and what is known of each.
RowsLeft(sub, I, shared, report) ==
  LET own == StreamsOf(I)
      about == {r \in rows : \/ r[2] \in {sub} \cup own \/ ByActor(sub, r)
                             \/ r[1] # "snapshot" /\ r[2] \in derivedAggregateIDs(own)}
  IN {[row |-> r, report |-> report, raw |-> r[2] \in derivedAggregateIDs(own),
       shared |-> r[2] \in shared \cup derivedAggregateIDs(shared)] : r \in about}

emitCertificate ==
  /\ er.pc = "certify"
  /\ er' = [er EXCEPT !.pc = "purge", !.verified = Verified]
  /\ certified' = IF Verified THEN certified \cup er.owed ELSE certified
  /\ leftover' = IF Verified THEN leftover \cup RowsLeft(er.subject, er.owed, er.shared, FALSE)
                 ELSE leftover
  /\ UNCHANGED victims /\ UNCHANGED data

\* A scan or a count fails: the certificate goes out unverified.
EvidenceFails ==
  /\ er.pc = "certify" /\ Fault
  /\ er' = [er EXCEPT !.pc = "purge", !.errors = TRUE]
  /\ UNCHANGED <<certified, leftover, victims>>
  /\ UNCHANGED <<option, events, keys, index, rows, writer, appends, restored>>

CertificateLost ==
  /\ er.pc = "certify" /\ option.sink /\ Fault
  /\ IF option.strict THEN Abort
     ELSE er' = [er EXCEPT !.pc = "purge", !.verified = Verified, !.errors = TRUE]
  /\ UNCHANGED <<certified, leftover, victims>>
  /\ UNCHANGED <<option, events, keys, index, rows, writer, appends, restored>>

Failed == er.errors \/ er.partial \/ er.residual

purgeSubjectIndex ==
  /\ er.pc = "purge" /\ Abort
  /\ index' = IF option.purge /\ er.verified /\ ~Failed THEN DeleteSubject(er.subject) ELSE index
  /\ UNCHANGED <<certified, leftover, victims>>
  /\ UNCHANGED <<option, events, keys, rows, writer, appends, faults, restored>>

EraserCrashes ==
  /\ er.pc # "idle" /\ Fault /\ Abort
  /\ UNCHANGED <<certified, leftover, victims>>
  /\ UNCHANGED <<option, events, keys, index, rows, writer, appends, restored>>

\* Verify: a fresh resolution, never vacuous.
Verify(sub) ==
  LET fp == resolve(sub)
      rep == verifyStreams(sub, fp.streams, {})
  IN /\ option.resolver # "none" /\ option.verify
     /\ ~Partial(sub) /\ rep.checked # {}
     /\ clean(rep, countSubjectResiduals(sub, fp.streams, fp.shared))
     /\ certified' = certified \cup Owed(sub, Seen(sub))
     /\ leftover' = leftover \cup RowsLeft(sub, Owed(sub, Seen(sub)), fp.shared, TRUE)
     /\ UNCHANGED <<er, victims>> /\ UNCHANGED data

Erase ==
  \/ \E sub \in option.targets :
       \/ EraseSubject(sub) \/ EraseFilter(sub)
       \/ \E S \in SUBSET Streams \ {{}} : EraseStreams(sub, S)
       \/ \E k \in KeyIDs : EraseKey(sub, k)
  \/ GuardPasses \/ GuardRefuses \/ GuardScanFails
  \/ \E k \in KeyIDs : RevokeKey(k) \/ RevokeFails(k)
  \/ RevocationUnsupported
  \/ reconcileAfterRevoke \/ ReconcileFails \/ AllRevoked
  \/ redactReadModels \/ RedactFails
  \/ eraseSubjectStores \/ \E k \in option.stores : SubjectStoreFails(k)
  \/ runErasureHooks \/ HookFails
  \/ appendMarker \/ MarkerFails
  \/ emitCertificate \/ EvidenceFails \/ CertificateLost \/ purgeSubjectIndex

EraseNext == Erase \/ EraserCrashes \/ \E sub \in option.targets : Verify(sub)

-----------------------------------------------------------------------------
(* Properties. *)

\* What a verified answer leaves unsaid: rows of a store that cannot count (it is listed
\* as unchecked), rows under a raw aggregate id unless the caller opted in to these ids,
\* and rows of a stream shared with others, where only the certificate of an erasure
\* whose stores all purge by footprint answers for them.
Unattested(left) ==
  \/ left.row[1] \in option.uncounted
  \/ ~option.derived /\ left.raw
  \/ left.shared /\ (left.report \/ left.row[1] \in option.legacy)

\* A verified certificate, or a verified report of Verify, is true: every event the
\* request was about that was stored when it was resolved is sealed under a destroyed
\* key for good, and every row of the subject and of its streams that is still in a
\* sibling store is one the answer does not attest. Appends, failing calls, soft
\* revocations and crashes in between make it unverified, never untrue.
VerifiedIsErased ==
  /\ \A i \in certified : HasEncryptionEnvelope(events[i]) /\ keys[events[i].key] = "gone"
  /\ \A left \in leftover : Unattested(left)

\* WithSharedKeyGuard: no key that protected somebody else's event when the guard
\* scanned the store is revoked, whether that event is tagged or not, and whether the
\* key was found at first or in the second resolution.
OthersUntouched == victims = {}
=============================================================================
