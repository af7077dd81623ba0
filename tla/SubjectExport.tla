---------------------------- MODULE SubjectExport ----------------------------
(***************************************************************************)
(* DataExporter: the events of a subject, by its resolved footprint or     *)
(* from listed streams, read stream by stream and decrypted one by one     *)
(* while keys may be revoked and calls to the key provider may fail.       *)
(***************************************************************************)
EXTENDS Erasure

VARIABLE ex    \* the export under way
exportVars == <<ex>>

\* streams are still to be read, batch is what is left of the stream that was, cur the
\* event at hand; live and revoked are the cache of IsRevoked's answers, blind the events
\* a call to the key provider failed for, alive the keys not revoked at the beginning.
NoExport ==
  [pc |-> "idle", subject |-> None, kind |-> None, streams |-> {}, batch |-> {}, cur |-> 0,
   partial |-> FALSE, live |-> {}, revoked |-> {}, out |-> {}, owed |-> {}, alive |-> {},
   blind |-> {}]

ExportInit == ex = NoExport

Begin(sub, kind, S, partial, owed) ==
  /\ ex.pc \in {"idle", "done"}
  /\ ex' = [NoExport EXCEPT !.pc = "run", !.subject = sub, !.kind = kind, !.streams = S,
                            !.partial = partial, !.owed = owed,
                            !.alive = {k \in KeyIDs : ~IsRevoked(option.provider, keys[k])}]
  /\ UNCHANGED erasureVars /\ UNCHANGED data

\* Export of a resolved subject; ExportStream refuses a partial footprint.
Export(sub) ==
  /\ option.resolver # "none"
  /\ Begin(sub, "subject", resolve(sub).streams, Partial(sub), Owed(sub, Seen(sub)))

ExportStream(sub) ==
  /\ option.resolver # "none" /\ ~Partial(sub)
  /\ Begin(sub, "subject", resolve(sub).streams, FALSE, Owed(sub, Seen(sub)))

\* Listed streams, no filter.
ExportStreams(sub, S) == Begin(sub, "streams", S, FALSE, {})

-----------------------------------------------------------------------------
(* One stream after the other. *)

LeastOf(S) == CHOOSE n \in S : \A m \in S : n <= m

exportFromStreams(st) ==
  /\ ex.pc = "run" /\ ex.batch = {} /\ st \in ex.streams
  /\ ex' = [ex EXCEPT !.streams = @ \ {st}, !.batch = At({st})]
  /\ UNCHANGED erasureVars /\ UNCHANGED data

\* attributedToFilter, subjectOrUnattributableFilter.
matchesRequest(at) == ex.subject \in at \/ (ex.kind = "streams" /\ at = {})

\* The filter's verdict on the next event, by who it is attributed to; one that is not
\* encrypted is exported as it is.
Take(i, at) ==
  ex' = [ex EXCEPT !.batch = @ \ {i}, !.cur = i,
                   !.pc = IF matchesRequest(at) /\ HasEncryptionEnvelope(events[i]) THEN "check" ELSE "run",
                   !.out = IF matchesRequest(at) /\ ~HasEncryptionEnvelope(events[i])
                           THEN @ \cup {<<i, "plain">>} ELSE @]

FilterEvent ==
  /\ ex.pc = "run" /\ ex.batch # {}
  /\ LET i == LeastOf(ex.batch) IN Take(i, attributeSubjects(events[i]))
  /\ UNCHANGED erasureVars /\ UNCHANGED data

\* The tagger does not get to see an untagged event whose data key cannot be had.
TaggerIsBlind ==
  /\ ex.pc = "run" /\ ex.batch # {} /\ option.tagger /\ Fault
  /\ LET i == LeastOf(ex.batch)
     IN /\ events[i].tags = <<>> /\ HasEncryptionEnvelope(events[i])
        /\ ex' = [ex EXCEPT !.batch = @ \ {i}, !.cur = i, !.blind = @ \cup {i},
                            !.pc = IF matchesRequest({}) THEN "check" ELSE "run"]
  /\ UNCHANGED erasureVars
  /\ UNCHANGED <<option, events, keys, index, rows, writer, appends, restored>>

-----------------------------------------------------------------------------
(* processStoredEvent: the cached answer of IsRevoked, then the data key. *)

CurKey == events[ex.cur].key
Emit(form) == [ex EXCEPT !.pc = "run", !.out = @ \cup {<<ex.cur, form>>}]

\* Mutant: the decryption error handler has the last word.
decryptAtOnce ==
  /\ ex.pc = "check" /\ ex' = [ex EXCEPT !.pc = "decrypt"]
  /\ UNCHANGED erasureVars /\ UNCHANGED data

checkRevoked ==
  LET revoked == IF CurKey \in ex.live \cup ex.revoked THEN CurKey \in ex.revoked
                 ELSE IsRevoked(option.provider, keys[CurKey])
  IN /\ ex.pc = "check"
     /\ ex' = IF revoked THEN [Emit("redacted") EXCEPT !.revoked = @ \cup {CurKey}]
              ELSE [ex EXCEPT !.pc = "decrypt", !.live = @ \cup {CurKey}]
     /\ UNCHANGED erasureVars /\ UNCHANGED data

\* IsRevoked fails: nothing is cached, and the key is taken for one that is not revoked.
CheckFails ==
  /\ ex.pc = "check" /\ CurKey \notin ex.live \cup ex.revoked /\ Fault
  /\ ex' = [ex EXCEPT !.pc = "decrypt", !.blind = @ \cup {ex.cur}]
  /\ UNCHANGED erasureVars
  /\ UNCHANGED <<option, events, keys, index, rows, writer, appends, restored>>

\* What becomes of an event by what DecryptDataKey answers: a handler that swallows the
\* error leaves the ciphertext, in an event that looks exported.
Exported(answer) ==
  CASE answer = "ok" -> "plain"
    [] answer # "ok" /\ answer \in option.handler -> "cipher"
    [] OTHER -> "redacted"

decryptEvent ==
  /\ ex.pc = "decrypt"
  /\ ex' = Emit(Exported(DecryptStoredEvent(events[ex.cur])))
  /\ UNCHANGED erasureVars /\ UNCHANGED data

\* The provider cannot be reached.
DecryptFails ==
  /\ ex.pc = "decrypt" /\ Fault
  /\ ex' = [Emit(Exported("failed")) EXCEPT !.blind = @ \cup {ex.cur}]
  /\ UNCHANGED erasureVars
  /\ UNCHANGED <<option, events, keys, index, rows, writer, appends, restored>>

\* A stream that cannot be loaded, or an error of another kind, ends the export.
ExportFails ==
  /\ ex.pc \notin {"idle", "done"} /\ Fault /\ ex' = NoExport
  /\ UNCHANGED erasureVars
  /\ UNCHANGED <<option, events, keys, index, rows, writer, appends, restored>>

ExportDone ==
  /\ ex.pc = "run" /\ ex.batch = {} /\ ex.streams = {}
  /\ ex' = [ex EXCEPT !.pc = "done"]
  /\ UNCHANGED erasureVars /\ UNCHANGED data

ExportNext ==
  \/ \E sub \in option.exports :
       \/ Export(sub) \/ ExportStream(sub)
       \/ \E S \in SUBSET Streams \ {{}} : ExportStreams(sub, S)
  \/ \E st \in Streams : exportFromStreams(st)
  \/ FilterEvent \/ TaggerIsBlind
  \/ checkRevoked \/ CheckFails \/ decryptEvent \/ DecryptFails
  \/ ExportFails \/ ExportDone

-----------------------------------------------------------------------------

\* An export of a resolved subject that does not call itself partial has every event
\* about the subject that was stored when it began, unless an untagged event lost its
\* key meanwhile or its data key could not be had, and no event of anybody else;
\* ciphertext goes out unmarked only under a key that was revoked after the export
\* began, or where a call to the key provider failed.
ExportHonest ==
  /\ ex.pc = "done" /\ ex.kind = "subject" /\ ~ex.partial =>
       \A i \in ex.owed : \/ \E o \in ex.out : o[1] = i
                          \/ events[i].tags = <<>> /\ (i \in ex.blind \/ ~taggerPlaintext(events[i]))
  /\ \A o \in ex.out : /\ ex.kind = "subject" => Names(events[o[1]], ex.subject)
                       /\ o[2] = "cipher" => events[o[1]].key \in ex.alive \/ o[1] \in ex.blind
=============================================================================
