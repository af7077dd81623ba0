--------------------------- MODULE CommandSideProofs ---------------------------
(***************************************************************************)
(* Proofs about what happens in the process that appends: the command      *)
(* side, for any number of commands, processes, events per command,        *)
(* attempts, failures, crashes and configurations, and the inline and live *)
(* projections it notifies after the append, for any notifiers,            *)
(* projections and channel.                                                *)
(*                                                                         *)
(* The actions of the command side are first reduced to what they do to    *)
(* the call of a command (CallMove), to a save (StoreMove), to an import   *)
(* and to a crash; each property then has an inductive invariant of its    *)
(* own over these. The actions of the live projections are reduced to what *)
(* they do to the events (Dropping, Moving and the rest), and one          *)
(* invariant says where each event is (LiveInv).                           *)
(***************************************************************************)
EXTENDS CommandSide, LiveProjections, FiniteSetTheorems, SequenceTheorems, TLAPS

IsSeq(s) == Len(s) \in Nat /\ s = [i \in 1 .. Len(s) |-> s[i]]

CallFields == {"pc", "proc", "attempt", "version", "seen", "at", "typed", "raised", "expired", "answer"}
Working == {"load", "decode", "apply", "execute", "save", "schedule", "wait"}

CallShape(r) ==
  /\ DOMAIN r = CallFields
  /\ r.attempt \in Nat /\ r.version \in Nat /\ r.raised \in Nat /\ r.at \in Nat
  /\ r.pc \in Working => r.proc \in Procs
  /\ r.pc \in {"idle", "audit", "crashed"} \cup Working \cup Answers
  /\ r.pc = "audit" => r.answer \in Answers

ShapeInv ==
  /\ DOMAIN call = Commands /\ \A c \in Commands : CallShape(call[c])
  /\ IsSeq(stream)
  /\ option.audit \in {"off", "open", "closed"}

-----------------------------------------------------------------------------
(* The inductive invariants. *)

(* What a call has replayed: all events up to a version, but for those a   *)
(* lenient replay warned of, or whose type was registered between the two  *)
(* looks at the registry.                                                  *)
Excusable(c, j) ==
  \/ ~option.strict /\ <<call[c].proc, j>> \in warned
  \/ <<c, call[c].attempt, j>> \in raced

Replayed(c, n) ==
  /\ call[c].seen \subseteq 1 .. n
  /\ \A j \in (1 .. n) \ call[c].seen : Excusable(c, j)

LoadedHistory(c) ==
  /\ call[c].pc \in {"decode", "apply"} => call[c].at \in 1 .. call[c].version /\ Replayed(c, call[c].at - 1)
  /\ call[c].pc \in {"execute", "save"} => Replayed(c, call[c].version)
  /\ call[c].pc = "apply" /\ ~call[c].typed /\ call[c].proc \in known =>
       <<c, call[c].attempt, call[c].at>> \in raced

HistoryInv == DecidedOnFullHistory /\ \A c \in Commands : LoadedHistory(c)

(* A stored event without message is one of a save under way, of the same  *)
(* attempt; afterwards its command is in doubt, or died.                   *)
Excused(e) == option.routed =>
  /\ ~option.atomic /\ e.cmd \in Commands
  /\ \/ e.cmd \in doubt \/ call[e.cmd].pc = "crashed"
     \/ call[e.cmd].pc = "schedule" /\ e.attempt = call[e.cmd].attempt

MessageInv ==
  /\ \A m \in outbox : \E i \in DOMAIN stream : stream[i].cmd # Import /\ m = MessageOf(stream[i])
  /\ \A i \in DOMAIN stream :
       stream[i].cmd # Import => MessageOf(stream[i]) \in outbox \cup logged \/ Excused(stream[i])

(* The events of a command, and what its call knows of them. *)
Mine(c) == {i \in DOMAIN stream : stream[i].cmd = c}
Now(c) == {i \in Mine(c) : stream[i].attempt = call[c].attempt}
Stored(c) == call[c].pc \in {"schedule", "done"} \/ (call[c].pc = "audit" /\ call[c].answer = "done")

EventsOf(c) ==
  /\ \A i \in Mine(c) : stream[i].attempt \in Nat /\ stream[i].attempt <= call[c].attempt
  /\ call[c].pc \in {"load", "decode", "apply", "execute", "save"} => Now(c) = {}
  /\ call[c].pc = "idle" => Mine(c) = {}
  /\ Stored(c) => Now(c) = call[c].version - call[c].raised + 1 .. call[c].version
  /\ c \notin doubt /\ Stored(c) => Now(c) = Mine(c)
  /\ c \notin doubt /\ ~Stored(c) /\ call[c].pc # "crashed" => Mine(c) = {}

(* The audit trail has what the caller was told. *)
Audited(c) ==
  /\ <<c, TRUE>> \in trail => call[c].pc = "done"
  /\ <<c, FALSE>> \in trail => call[c].pc \in {"failed", "rejected"}
  /\ option.audit # "off" =>
       /\ call[c].pc = "failed" => <<c, FALSE>> \in trail \/ c \in dropped
       /\ call[c].pc = "done" => <<c, TRUE>> \in trail \/ (c \in dropped /\ option.audit = "open")

AnswerInv == \A c \in Commands : EventsOf(c) /\ Audited(c)

(* An event of a process with its whole chain has the form its stamp says. *)
StampInv ==
  \A i \in DOMAIN stream :
    LET e == stream[i] IN
    /\ e.by \in Procs
    /\ e.complete => e.form = GetSchemaVersion(e.stamp) /\ e.form \in 1 .. Code[e.by]

-----------------------------------------------------------------------------
(* What a step does to the call of a command: from call[c] to r. *)

Keeps(r, q) ==
  /\ r.proc = q.proc /\ r.attempt = q.attempt /\ r.version = q.version
  /\ r.seen = q.seen /\ r.raised = q.raised /\ r.at = q.at

Leaves(r, l) ==
  IF option.audit # "off" /\ l \in Answers THEN r.pc = "audit" /\ r.answer = l ELSE r.pc = l

Begins(c, r) == call[c].pc = "idle" /\ r.pc = "load" /\ r.attempt = 1

Rejects(c, r) == call[c].pc = "idle" /\ Keeps(r, call[c]) /\ (Leaves(r, "rejected") \/ r.pc = "rejected")

Expires(c, r) ==
  /\ Keeps(r, call[c]) /\ r.pc = call[c].pc /\ r.answer = call[c].answer
  /\ r.typed = call[c].typed

Retries(c, r) == call[c].pc = "wait" /\ r.pc = "load" /\ r.attempt = call[c].attempt + 1

Loads(c, r) ==
  /\ call[c].pc = "load" /\ r.attempt = call[c].attempt /\ r.seen = {} /\ r.at = 1
  /\ \/ r.pc = "execute" /\ r.version = 0
     \/ r.pc = "decode" /\ r.version > 0

Reads(c, r) ==
  /\ call[c].pc = "decode" /\ r.pc = "apply" /\ Keeps(r, call[c])
  /\ ~r.typed => r.proc \notin known'

Applies(c, r) ==
  /\ call[c].pc = "apply" /\ r.pc = IF call[c].at = call[c].version THEN "execute" ELSE "decode"
  /\ r.proc = call[c].proc /\ r.attempt = call[c].attempt /\ r.version = call[c].version
  /\ r.at = call[c].at + 1
  /\ r.seen = IF call[c].typed THEN call[c].seen \cup {call[c].at} ELSE call[c].seen
  /\ ~call[c].typed => call[c].proc \in known \/ (~option.strict /\ <<call[c].proc, call[c].at>> \in warned')

Executes(c, r) ==
  /\ call[c].pc = "execute" /\ r.pc = "save"
  /\ r.proc = call[c].proc /\ r.attempt = call[c].attempt
  /\ r.version = call[c].version /\ r.seen = call[c].seen

Fails(c, r) ==
  /\ call[c].pc \in {"load", "decode", "apply", "execute", "save", "wait"} \/ (call[c].pc = "schedule" /\ c \in doubt')
  /\ Keeps(r, call[c]) /\ (r.pc = "wait" \/ Leaves(r, "failed"))

Panics(c, r) == call[c].pc = "execute" /\ Keeps(r, call[c]) /\ r.pc = "failed" /\ c \in dropped'

Misses(c, r) ==
  /\ call[c].pc = "audit" /\ Keeps(r, call[c]) /\ c \in dropped'
  /\ r.pc = foldAuditFailure(call[c].answer)
  /\ r.pc # call[c].answer => c \in doubt'

Notes(c, r) ==
  /\ call[c].pc = "audit" /\ Keeps(r, call[c]) /\ r.pc = call[c].answer
  /\ trail' = trail \cup {AuditEntry(c)}

Schedules(c, r) ==
  /\ call[c].pc = "schedule" /\ Keeps(r, call[c]) /\ Leaves(r, "done")
  /\ \A i \in Now(c) : MessageOf(stream[i]) \in outbox' \cup logged
  /\ \A m \in outbox' \ outbox : \E i \in Mine(c) : m = MessageOf(stream[i])

(* The stores a call may touch without storing events. *)
CallFrame(c, r) ==
  /\ call' = [call EXCEPT ![c] = r] /\ CallShape(r)
  /\ option' = option /\ stream' = stream /\ logged' = logged
  /\ warned \subseteq warned' /\ dropped \subseteq dropped' /\ outbox \subseteq outbox'
  /\ doubt \subseteq doubt' /\ doubt' \subseteq doubt \cup {c}

CallMove(c, r) ==
  /\ CallFrame(c, r)
  /\ \/ /\ trail' = trail /\ outbox' = outbox
        /\ \/ Begins(c, r) \/ Rejects(c, r) \/ Expires(c, r) \/ Retries(c, r) \/ Loads(c, r)
           \/ Reads(c, r) \/ Applies(c, r) \/ Executes(c, r) \/ Fails(c, r) \/ Panics(c, r) \/ Misses(c, r)
     \/ outbox' = outbox /\ Notes(c, r)
     \/ trail' = trail /\ Schedules(c, r)

(* A save that stores the events of a call, its answer lost or not. *)
Succeeds(c, r) ==
  /\ r.version = call[c].version + call[c].raised
  /\ \/ /\ Leaves(r, "done")
        /\ option.routed => \A k \in 1 .. call[c].raised : MessageOf(Batch(c)[k]) \in outbox' \cup logged'
     \/ ~option.atomic /\ r.pc = "schedule"

Unclear(c, r) ==
  /\ c \in doubt' /\ (r.pc = "wait" \/ Leaves(r, "failed"))
  /\ option.routed /\ option.atomic => \A k \in 1 .. call[c].raised : MessageOf(Batch(c)[k]) \in outbox'

StoreMove(c, r) ==
  /\ call[c].pc = "save" /\ Len(stream) = call[c].version
  /\ call' = [call EXCEPT ![c] = r] /\ CallShape(r)
  /\ r.attempt = call[c].attempt /\ r.raised = call[c].raised
  /\ option' = option /\ stream' = stream \o Batch(c)
  /\ warned' = warned /\ dropped' = dropped /\ trail' = trail
  /\ logged \subseteq logged' /\ outbox \subseteq outbox'
  /\ doubt \subseteq doubt' /\ doubt' \subseteq doubt \cup {c}
  /\ \A m \in outbox' \ outbox : \E k \in 1 .. call[c].raised : m = MessageOf(Batch(c)[k])
  /\ Succeeds(c, r) \/ Unclear(c, r)

Imported(p, stamp) ==
  prepareEventData(p, IF option.honour /\ ExplicitVersionValid(stamp, LatestVersion(chain[p])) THEN stamp ELSE Code[p],
                   stamp, <<Import, 1, 1>>, DOMAIN stream)

ledgers == <<option, outbox, logged, warned, doubt, trail, dropped>>

ImportMove == \E p \in Procs, stamp \in CallerStamps :
  /\ stream' = stream \o <<Imported(p, stamp)>>
  /\ UNCHANGED <<call, ledgers>>

CrashMove ==
  /\ \A c \in Commands :
       \/ call'[c] = call[c]
       \/ InFlight(c) /\ Keeps(call'[c], call[c]) /\ call'[c].pc = "crashed" /\ DOMAIN call'[c] = CallFields
  /\ DOMAIN call' = Commands /\ UNCHANGED <<stream, ledgers>>

AsideMove == UNCHANGED <<call, stream, ledgers>>

-----------------------------------------------------------------------------
(* Leaving the chain changes nothing but the place and the answer. *)
LEMMA LeaveFacts ==
  ASSUME NEW q, DOMAIN q = CallFields, NEW l
  PROVE  LET r == Leave(q, l) IN DOMAIN r = CallFields /\ Keeps(r, q) /\ Leaves(r, l)
BY DEF Leave, Keeps, Leaves, CallFields

LEMMA ToFacts ==
  ASSUME ShapeInv, NEW c \in Commands, NEW l, To(c, l)
  PROVE  \E r : /\ call' = [call EXCEPT ![c] = r]
                /\ DOMAIN r = CallFields /\ Keeps(r, call[c]) /\ Leaves(r, l)
<1>1. DOMAIN call[c] = CallFields
  BY DEF ShapeInv, CallShape
<1>2. PICK r : r = Leave(call[c], l)
  OBVIOUS
<1>3. call' = [call EXCEPT ![c] = r]
  BY <1>2 DEF To
<1> QED
  BY <1>1, <1>2, <1>3, LeaveFacts

(* RetryMiddleware's two ways out. *)
LEMMA FailFacts ==
  ASSUME ShapeInv, NEW c \in Commands, Fail(c)
  PROVE  \E r : /\ call' = [call EXCEPT ![c] = r]
                /\ DOMAIN r = CallFields /\ Keeps(r, call[c]) /\ (r.pc = "wait" \/ Leaves(r, "failed"))
<1>1. CASE To(c, "wait")
  BY <1>1, ToFacts DEF Leaves, Answers
<1>2. CASE To(c, "failed")
  BY <1>2, ToFacts
<1> QED
  BY <1>1, <1>2 DEF Fail

(* The shape of a call that is on its way out. *)
LEMMA ShapeFacts ==
  ASSUME ShapeInv, NEW c \in Commands, NEW r, DOMAIN r = CallFields, Keeps(r, call[c])
  PROVE  /\ \A l \in Answers : Leaves(r, l) => CallShape(r)
         /\ call[c].pc \in Working /\ r.pc \in Working => CallShape(r)
         /\ r.pc \in Answers => CallShape(r)
<1>1. CallShape(call[c])
  BY DEF ShapeInv
<1> QED
  BY <1>1 DEF CallShape, Keeps, Leaves, Working, Answers

-----------------------------------------------------------------------------
(* Every action is one of these moves. *)

LEMMA FailMove ==
  ASSUME ShapeInv, NEW c \in Commands, Fail(c) \/ To(c, "failed"),
         call[c].pc \in {"load", "decode", "apply", "execute", "save", "wait"} \/ (call[c].pc = "schedule" /\ c \in doubt'),
         UNCHANGED <<option, stream, outbox, logged, trail, dropped, warned>>,
         doubt \subseteq doubt', doubt' \subseteq doubt \cup {c}
  PROVE  \E r : CallMove(c, r)
<1>1. PICK r : /\ call' = [call EXCEPT ![c] = r] /\ DOMAIN r = CallFields
               /\ Keeps(r, call[c]) /\ (r.pc = "wait" \/ Leaves(r, "failed"))
  BY FailFacts, ToFacts
<1>2. call[c].pc \in Working
  BY DEF Working
<1>3. CallShape(r)
  BY <1>1, <1>2, ShapeFacts DEF Working, Answers
<1>4. Fails(c, r)
  BY <1>1 DEF Fails
<1>5. CallFrame(c, r)
  BY <1>1, <1>3 DEF CallFrame
<1> QED
  BY <1>4, <1>5 DEF CallMove

(* A call moves on within the handler and no ledger but the warnings changes. *)
LEMMA QuietMove ==
  ASSUME NEW c \in Commands, NEW r, call' = [call EXCEPT ![c] = r], CallShape(r),
         UNCHANGED <<option, stream, outbox, logged, doubt, trail, dropped>>,
         warned \subseteq warned',
         \/ Begins(c, r) \/ Rejects(c, r) \/ Expires(c, r) \/ Retries(c, r)
         \/ Loads(c, r) \/ Reads(c, r) \/ Applies(c, r) \/ Executes(c, r)
  PROVE  CallMove(c, r)
BY DEF CallMove, CallFrame

LEMMA BusMoves ==
  ASSUME ShapeInv, NEW c \in Commands
  PROVE  /\ \A p \in Procs : Dispatch(c, p) \/ Refused(c, p) => \E r : CallMove(c, r)
         /\ ValidationMiddleware(c) \/ TenantMiddleware(c) => \E r : CallMove(c, r)
         /\ Timeout(c) \/ Retry(c) \/ RetryGivesUp(c) => \E r : CallMove(c, r)
<1> USE DEF store, audit
<1>0. CallShape(call[c]) /\ DOMAIN call[c] = CallFields /\ DOMAIN call = Commands
  BY DEF ShapeInv, CallShape
<1>1. ASSUME NEW p \in Procs, Dispatch(c, p) PROVE \E r : CallMove(c, r)
  <2>1. PICK r : r = [Idle EXCEPT !.pc = "load", !.proc = p, !.attempt = 1]
    OBVIOUS
  <2>2. /\ DOMAIN r = CallFields /\ r.pc = "load" /\ r.proc = p /\ r.attempt = 1
        /\ r.version = 0 /\ r.raised = 0 /\ r.at = 0
    BY <2>1 DEF Idle, CallFields
  <2>3. CallShape(r)
    BY <2>2 DEF CallShape, Working, Answers
  <2>4. Begins(c, r) /\ call' = [call EXCEPT ![c] = r]
    BY <1>1, <2>1, <2>2 DEF Dispatch, Begins
  <2> QED
    BY <1>1, <2>3, <2>4, QuietMove DEF Dispatch
<1>2. ASSUME NEW p \in Procs, Refused(c, p) PROVE \E r : CallMove(c, r)
  <2>1. PICK r : r = [call[c] EXCEPT !.pc = "rejected"]
    OBVIOUS
  <2>2. DOMAIN r = CallFields /\ r.pc = "rejected" /\ Keeps(r, call[c])
    BY <1>0, <2>1 DEF Keeps, CallFields
  <2>3. CallShape(r)
    BY <2>2, ShapeFacts DEF Answers
  <2>4. Rejects(c, r) /\ call' = [call EXCEPT ![c] = r]
    BY <1>0, <1>2, <2>1, <2>2 DEF Refused, Rejects
  <2> QED
    BY <1>2, <2>3, <2>4, QuietMove DEF Refused
<1>3. ASSUME ValidationMiddleware(c) \/ TenantMiddleware(c) PROVE \E r : CallMove(c, r)
  <2>0. Reject(c)
    BY <1>3 DEF ValidationMiddleware, TenantMiddleware
  <2>1. PICK r : /\ call' = [call EXCEPT ![c] = r]
                 /\ DOMAIN r = CallFields /\ Keeps(r, call[c]) /\ Leaves(r, "rejected")
    BY <2>0, ToFacts DEF Reject
  <2>2. CallShape(r)
    BY <2>1, ShapeFacts DEF Answers
  <2>3. Rejects(c, r)
    BY <2>0, <2>1 DEF Rejects, Reject
  <2> QED
    BY <2>0, <2>1, <2>2, <2>3, QuietMove DEF Reject
<1>4. ASSUME Timeout(c) PROVE \E r : CallMove(c, r)
  <2>1. PICK r : r = [call[c] EXCEPT !.expired = TRUE]
    OBVIOUS
  <2>2. /\ DOMAIN r = CallFields /\ r.pc = call[c].pc /\ r.answer = call[c].answer /\ Keeps(r, call[c])
        /\ r.at = call[c].at /\ r.typed = call[c].typed
    BY <1>0, <2>1 DEF Keeps, CallFields
  <2>3. CallShape(r) /\ Expires(c, r)
    BY <1>0, <2>2 DEF CallShape, Keeps, Expires
  <2>4. call' = [call EXCEPT ![c] = r]
    BY <1>0, <1>4, <2>1 DEF Timeout
  <2> QED
    BY <1>4, <2>3, <2>4, QuietMove DEF Timeout
<1>5. ASSUME Retry(c) PROVE \E r : CallMove(c, r)
  <2>1. PICK r : r = [call[c] EXCEPT !.pc = "load", !.attempt = @ + 1]
    OBVIOUS
  <2>2. /\ DOMAIN r = CallFields /\ r.pc = "load" /\ r.attempt = call[c].attempt + 1
        /\ r.proc = call[c].proc /\ r.version = call[c].version /\ r.raised = call[c].raised
        /\ r.at = call[c].at
    BY <1>0, <2>1 DEF CallFields
  <2>3. call[c].pc = "wait" /\ call' = [call EXCEPT ![c] = r]
    BY <1>0, <1>5, <2>1 DEF Retry
  <2>4. CallShape(r) /\ Retries(c, r)
    BY <1>0, <2>2, <2>3 DEF CallShape, Retries, Working
  <2> QED
    BY <1>5, <2>3, <2>4, QuietMove DEF Retry
<1>6. ASSUME RetryGivesUp(c) PROVE \E r : CallMove(c, r)
  BY <1>6, FailMove DEF RetryGivesUp
<1> QED
  BY <1>1, <1>2, <1>3, <1>4, <1>5, <1>6

(* The history is numbered from 1 without gaps. *)
LEMMA LoadAll ==
  ASSUME ShapeInv
  PROVE  Load(0) = 1 .. Len(stream) /\ Cardinality(Load(0)) = Len(stream) /\ Len(stream) \in Nat
<1>1. Len(stream) \in Nat /\ DOMAIN stream = 1 .. Len(stream)
  BY DEF ShapeInv, IsSeq
<1>2. Load(0) = 1 .. Len(stream)
  BY <1>1 DEF Load
<1>3. Cardinality(1 .. Len(stream)) = Len(stream)
  <2>1. PICK n : n = Len(stream)
    OBVIOUS
  <2>2. 1 \in Int /\ n \in Int /\ n \in Nat
    BY <1>1, <2>1
  <2>3. Cardinality(1 .. n) = IF 1 > n THEN 0 ELSE n - 1 + 1
    BY <2>2, FS_Interval, Zenon
  <2> QED
    BY <2>1, <2>2, <2>3
<1> QED
  BY <1>1, <1>2, <1>3

LEMMA HandlerMoves ==
  ASSUME ShapeInv, NEW c \in Commands
  PROVE  /\ LoadAggregate(c) \/ deserializeWithUpcast(c) \/ ApplyEvent(c) => \E r : CallMove(c, r)
         /\ LoadFails(c) => \E r : CallMove(c, r)
         /\ Execute(c) \/ ExecuteFails(c) => \E r : CallMove(c, r)
         /\ Conflict(c) \/ SaveFails(c) \/ ScheduleFails(c) => \E r : CallMove(c, r)
<1> USE DEF store, audit
<1>0. CallShape(call[c]) /\ DOMAIN call[c] = CallFields /\ DOMAIN call = Commands
  BY DEF ShapeInv, CallShape
<1>1. ASSUME LoadAggregate(c) PROVE \E r : CallMove(c, r)
  <2>0. PICK n \in Nat : n = Len(stream) /\ n = Cardinality(Load(0)) /\ Load(0) = 1 .. n
    BY LoadAll
  <2>1. PICK r : r = [call[c] EXCEPT !.pc = IF Load(0) = {} THEN "execute" ELSE "decode",
                                    !.version = n, !.seen = {}, !.at = 1]
    OBVIOUS
  <2>2. /\ DOMAIN r = CallFields /\ r.pc = (IF Load(0) = {} THEN "execute" ELSE "decode")
        /\ r.attempt = call[c].attempt /\ r.proc = call[c].proc /\ r.version = n
        /\ r.raised = call[c].raised /\ r.seen = {} /\ r.at = 1
    BY <1>0, <2>1 DEF CallFields
  <2>3. call[c].pc = "load" /\ call' = [call EXCEPT ![c] = r]
    BY <1>0, <1>1, <2>0, <2>1 DEF LoadAggregate
  <2>4. CallShape(r)
    BY <1>0, <2>2, <2>3 DEF CallShape, Working
  <2>5. IF Load(0) = {} THEN n = 0 ELSE n > 0
    BY <2>0
  <2>6. Loads(c, r)
    BY <2>2, <2>3, <2>5 DEF Loads
  <2> QED
    BY <1>1, <2>3, <2>4, <2>6, QuietMove DEF LoadAggregate
<1>8. ASSUME deserializeWithUpcast(c) PROVE \E r : CallMove(c, r)
  <2>1. PICK r : r = [call[c] EXCEPT !.pc = "apply", !.typed = Resolves(call[c].proc)]
    OBVIOUS
  <2>2. /\ DOMAIN r = CallFields /\ r.pc = "apply" /\ Keeps(r, call[c])
        /\ r.typed = Resolves(call[c].proc)
    BY <1>0, <2>1 DEF CallFields, Keeps
  <2>3. call[c].pc = "decode" /\ call' = [call EXCEPT ![c] = r]
    BY <1>0, <1>8, <2>1 DEF deserializeWithUpcast
  <2>4. CallShape(r)
    BY <1>0, <2>2, <2>3 DEF CallShape, Working, Keeps
  <2>5. ~r.typed => r.proc \notin known'
    <3>1. known' = known /\ r.proc = call[c].proc
      BY <1>8, <2>2 DEF deserializeWithUpcast, Keeps
    <3> QED
      BY <2>2, <3>1, Zenon DEF Resolves
  <2>6. Reads(c, r)
    BY <2>2, <2>3, <2>5 DEF Reads
  <2> QED
    BY <1>8, <2>3, <2>4, <2>6, QuietMove DEF deserializeWithUpcast
<1>9. ASSUME ApplyEvent(c) PROVE \E r : CallMove(c, r)
  <2>0. PICK i \in Nat : i = call[c].at
    BY <1>0 DEF CallShape
  <2>1. PICK r : r = [call[c] EXCEPT !.pc = IF i = call[c].version THEN "execute" ELSE "decode", !.at = i + 1,
                                    !.seen = IF call[c].typed THEN call[c].seen \cup {i} ELSE call[c].seen]
    OBVIOUS
  <2>2. /\ DOMAIN r = CallFields /\ r.pc = (IF i = call[c].version THEN "execute" ELSE "decode")
        /\ r.attempt = call[c].attempt /\ r.proc = call[c].proc /\ r.version = call[c].version
        /\ r.raised = call[c].raised /\ r.at = i + 1
        /\ r.seen = IF call[c].typed THEN call[c].seen \cup {i} ELSE call[c].seen
    BY <1>0, <2>1 DEF CallFields
  <2>3. call[c].pc = "apply" /\ call' = [call EXCEPT ![c] = r]
    BY <1>0, <1>9, <2>0, <2>1 DEF ApplyEvent
  <2>4. CallShape(r)
    BY <1>0, <2>0, <2>2, <2>3 DEF CallShape, Working
  <2>5. call[c].proc \in known \/ (~option.strict /\ <<call[c].proc, call[c].at>> \in warned')
    BY <1>9 DEF ApplyEvent, isUnresolvedReplayType, Resolves
  <2>6. Applies(c, r)
    BY <2>0, <2>2, <2>3, <2>5 DEF Applies
  <2>7. warned \subseteq warned'
    BY <1>9 DEF ApplyEvent
  <2> QED
    BY <1>9, <2>3, <2>4, <2>6, <2>7, QuietMove DEF ApplyEvent
<1>2. ASSUME LoadFails(c) PROVE \E r : CallMove(c, r)
  BY <1>2, FailMove DEF LoadFails
<1>3. ASSUME Execute(c) PROVE \E r : CallMove(c, r)
  <2>1. PICK r : r = [call[c] EXCEPT !.pc = "save", !.raised = Raises[c]]
    OBVIOUS
  <2>2. /\ DOMAIN r = CallFields /\ r.pc = "save" /\ r.attempt = call[c].attempt
        /\ r.proc = call[c].proc /\ r.version = call[c].version /\ r.raised = Raises[c]
        /\ r.seen = call[c].seen /\ r.at = call[c].at
    BY <1>0, <2>1 DEF CallFields
  <2>3. call[c].pc = "execute" /\ call' = [call EXCEPT ![c] = r]
    BY <1>0, <1>3, <2>1 DEF Execute
  <2>4. Raises[c] \in Nat
    BY AttemptsAssumption
  <2>5. CallShape(r) /\ Executes(c, r)
    BY <1>0, <2>2, <2>3, <2>4 DEF CallShape, Executes, Working
  <2> QED
    BY <1>3, <2>3, <2>5, QuietMove DEF Execute
<1>4. ASSUME ExecuteFails(c) PROVE \E r : CallMove(c, r)
  <2>1. CASE Fail(c) /\ UNCHANGED dropped
    BY <1>4, <2>1, FailMove DEF ExecuteFails
  <2>2. CASE call' = [call EXCEPT ![c].pc = "failed"] /\ dropped' = dropped \cup {c}
    <3>1. PICK r : r = [call[c] EXCEPT !.pc = "failed"]
      OBVIOUS
    <3>2. DOMAIN r = CallFields /\ r.pc = "failed" /\ Keeps(r, call[c])
      BY <1>0, <3>1 DEF CallFields, Keeps
    <3>3. call' = [call EXCEPT ![c] = r]
      BY <1>0, <2>2, <3>1
    <3>4. CallShape(r)
      BY <3>2, ShapeFacts DEF Answers
    <3>5. Panics(c, r)
      BY <1>4, <2>2, <3>2 DEF Panics, ExecuteFails
    <3>6. CallFrame(c, r) /\ trail' = trail /\ outbox' = outbox
      BY <1>4, <2>2, <3>3, <3>4 DEF CallFrame, ExecuteFails
    <3> QED
      BY <3>5, <3>6 DEF CallMove
  <2> QED
    BY <1>4, <2>1, <2>2 DEF ExecuteFails
<1>5. ASSUME Conflict(c) PROVE \E r : CallMove(c, r)
  BY <1>5, FailMove DEF Conflict
<1>6. ASSUME SaveFails(c) PROVE \E r : CallMove(c, r)
  BY <1>6, FailMove DEF SaveFails
<1>7. ASSUME ScheduleFails(c) PROVE \E r : CallMove(c, r)
  BY <1>7, FailMove DEF ScheduleFails
<1> QED
  BY <1>1, <1>2, <1>3, <1>4, <1>5, <1>6, <1>7, <1>8, <1>9

LEMMA AuditMoves ==
  ASSUME ShapeInv, NEW c \in Commands
  PROVE  AuditAppend(c) \/ AuditFails(c) => \E r : CallMove(c, r)
<1> USE DEF store
<1>0. CallShape(call[c]) /\ DOMAIN call[c] = CallFields /\ DOMAIN call = Commands
  BY DEF ShapeInv, CallShape
<1>1. ASSUME NEW l \in Answers, call' = [call EXCEPT ![c].pc = l]
      PROVE  \E r : /\ call' = [call EXCEPT ![c] = r] /\ CallShape(r)
                    /\ Keeps(r, call[c]) /\ r.pc = l
  <2>1. PICK r : r = [call[c] EXCEPT !.pc = l]
    OBVIOUS
  <2>2. DOMAIN r = CallFields /\ r.pc = l /\ Keeps(r, call[c])
    BY <1>0, <2>1 DEF CallFields, Keeps
  <2>3. call' = [call EXCEPT ![c] = r]
    BY <1>0, <1>1, <2>1
  <2> QED
    BY <2>2, <2>3, ShapeFacts
<1>2. ASSUME call[c].pc = "audit"
      PROVE  call[c].answer \in Answers /\ foldAuditFailure(call[c].answer) \in Answers
  BY <1>0, <1>2 DEF CallShape, foldAuditFailure, Answers
<1>3. ASSUME AuditAppend(c) PROVE \E r : CallMove(c, r)
  <2>1. PICK r : /\ call' = [call EXCEPT ![c] = r] /\ CallShape(r)
                 /\ Keeps(r, call[c]) /\ r.pc = call[c].answer
    BY <1>1, <1>2, <1>3 DEF AuditAppend
  <2>2. Notes(c, r)
    BY <1>3, <2>1 DEF Notes, AuditAppend
  <2>3. CallFrame(c, r) /\ outbox' = outbox
    BY <1>3, <2>1 DEF CallFrame, AuditAppend
  <2> QED
    BY <2>2, <2>3 DEF CallMove
<1>4. ASSUME AuditFails(c) PROVE \E r : CallMove(c, r)
  <2>1. PICK r : /\ call' = [call EXCEPT ![c] = r] /\ CallShape(r)
                 /\ Keeps(r, call[c]) /\ r.pc = foldAuditFailure(call[c].answer)
    BY <1>1, <1>2, <1>4 DEF AuditFails
  <2>2. Misses(c, r)
    BY <1>4, <2>1 DEF Misses, AuditFails
  <2>3. CallFrame(c, r) /\ trail' = trail /\ outbox' = outbox
    BY <1>4, <2>1 DEF CallFrame, AuditFails
  <2> QED
    BY <2>2, <2>3 DEF CallMove
<1> QED
  BY <1>3, <1>4

LEMMA ScheduleMove ==
  ASSUME ShapeInv, NEW c \in Commands, Schedule(c)
  PROVE  \E r : CallMove(c, r)
<1> USE DEF audit
<1>1. PICK r : /\ call' = [call EXCEPT ![c] = r]
               /\ DOMAIN r = CallFields /\ Keeps(r, call[c]) /\ Leaves(r, "done")
  BY ToFacts DEF Schedule
<1>2. CallShape(r)
  BY <1>1, ShapeFacts DEF Answers
<1>3. \A i \in Now(c) : MessageOf(stream[i]) \in outbox' \cup logged
  BY DEF Now, Mine, Schedule
<1>4. \A m \in outbox' \ outbox : \E i \in Mine(c) : m = MessageOf(stream[i])
  BY DEF Mine, Schedule
<1>5. Schedules(c, r)
  BY <1>1, <1>3, <1>4 DEF Schedules, Schedule
<1>6. CallFrame(c, r) /\ trail' = trail
  BY <1>1, <1>2 DEF CallFrame, Schedule
<1> QED
  BY <1>5, <1>6 DEF CallMove

(* The events a save stores. *)
LEMMA BatchFacts ==
  ASSUME ShapeInv, NEW c \in Commands
  PROVE  /\ Len(Batch(c)) = call[c].raised /\ IsSeq(Batch(c)) /\ DOMAIN Batch(c) = 1 .. call[c].raised
         /\ \A k \in 1 .. call[c].raised :
              Batch(c)[k] = prepareEventData(call[c].proc, Code[call[c].proc], Unstamped,
                                             <<c, call[c].attempt, k>>, call[c].seen)
<1>1. call[c].raised \in Nat
  BY DEF ShapeInv, CallShape
<1>2. PICK n \in Nat : n = call[c].raised
  BY <1>1
<1>3. PICK f : f = Batch(c)
  OBVIOUS
<1>4. /\ DOMAIN f = 1 .. n
      /\ f = [k \in 1 .. n |-> f[k]]
      /\ \A k \in 1 .. n : f[k] = prepareEventData(call[c].proc, Code[call[c].proc], Unstamped,
                                                   <<c, call[c].attempt, k>>, call[c].seen)
  BY <1>2, <1>3, Zenon DEF Batch
<1>5. Len(f) = n
  BY <1>4
<1> QED
  BY <1>2, <1>3, <1>4, <1>5 DEF IsSeq

LEMMA SavingMoves ==
  ASSUME ShapeInv, NEW c \in Commands
  PROVE  SaveAggregate(c) \/ SaveUnclear(c) => \E r : StoreMove(c, r)
<1> USE DEF audit
<1>0. CallShape(call[c]) /\ DOMAIN call[c] = CallFields /\ DOMAIN call = Commands
  BY DEF ShapeInv, CallShape
<1>1. ASSUME SaveAggregate(c) PROVE \E r : StoreMove(c, r)
  <2>0. /\ call[c].pc = "save" /\ Len(stream) = call[c].version
        /\ UNCHANGED <<option, warned, doubt, trail, dropped>>
    BY <1>1 DEF SaveAggregate, ExpectedVersion
  <2>1. PICK missed \in {{}, {1}} :
          /\ TransformFails(Batch(c), missed)
          /\ IF option.atomic THEN AppendWithOutbox(Batch(c), buildOutboxMessages(Batch(c), missed))
                              ELSE appendLocked(Batch(c)) /\ UNCHANGED outbox
          /\ Saved(c, IF option.atomic \/ buildOutboxMessages(Batch(c), missed) = {} THEN "done" ELSE "schedule")
    BY <1>1 DEF SaveAggregate
  <2>2. PICK l \in {"done", "schedule"} :
          /\ Saved(c, l)
          /\ l = IF option.atomic \/ buildOutboxMessages(Batch(c), missed) = {} THEN "done" ELSE "schedule"
    BY <2>1
  <2>3. PICK q : q = [call[c] EXCEPT !.version = @ + call[c].raised]
    OBVIOUS
  <2>4. /\ DOMAIN q = CallFields /\ q.version = call[c].version + call[c].raised
        /\ q.attempt = call[c].attempt /\ q.raised = call[c].raised /\ q.proc = call[c].proc
        /\ q.at = call[c].at
    BY <1>0, <2>3 DEF CallFields
  <2>5. PICK r : r = Leave(q, l)
    OBVIOUS
  <2>6. DOMAIN r = CallFields /\ Keeps(r, q) /\ Leaves(r, l)
    BY <2>4, <2>5, LeaveFacts
  <2>7. call' = [call EXCEPT ![c] = r]
    BY <2>2, <2>3, <2>5 DEF Saved
  <2>8. CallShape(r)
    BY <1>0, <2>0, <2>4, <2>6 DEF CallShape, Keeps, Leaves, Answers, Working
  <2>9. option.routed => \A k \in 1 .. call[c].raised :
           \/ k \in missed /\ MessageOf(Batch(c)[k]) \in logged'
           \/ k \notin missed /\ MessageOf(Batch(c)[k]) \in buildOutboxMessages(Batch(c), missed)
    BY <2>1, BatchFacts DEF TransformFails, buildOutboxMessages
  <2>10. logged \subseteq logged' /\ outbox \subseteq outbox' /\ stream' = stream \o Batch(c)
    BY <2>1 DEF TransformFails, AppendWithOutbox, appendLocked
  <2>11. \A m \in outbox' \ outbox : \E k \in 1 .. call[c].raised : m = MessageOf(Batch(c)[k])
    BY <2>1, BatchFacts DEF AppendWithOutbox, buildOutboxMessages
  <2>12. Succeeds(c, r)
    <3>0. r.version = call[c].version + call[c].raised
      BY <2>4, <2>6 DEF Keeps
    <3>1. CASE option.atomic
      <4>1. outbox' = outbox \cup buildOutboxMessages(Batch(c), missed) /\ l = "done"
        BY <2>1, <2>2, <3>1 DEF AppendWithOutbox
      <4> QED
        BY <2>6, <2>9, <3>0, <4>1 DEF Succeeds
    <3>2. CASE buildOutboxMessages(Batch(c), missed) = {}
      BY <2>2, <2>6, <2>9, <3>0, <3>2 DEF Succeeds
    <3>3. CASE ~option.atomic /\ l = "schedule"
      BY <2>6, <3>0, <3>3 DEF Succeeds, Leaves, Answers
    <3> QED
      BY <2>2, <3>1, <3>2, <3>3
  <2>13. r.attempt = call[c].attempt /\ r.raised = call[c].raised
    BY <2>4, <2>6 DEF Keeps
  <2> QED
    BY <2>0, <2>7, <2>8, <2>10, <2>11, <2>12, <2>13 DEF StoreMove
<1>2. ASSUME SaveUnclear(c) PROVE \E r : StoreMove(c, r)
  <2>0. /\ call[c].pc = "save" /\ Len(stream) = call[c].version /\ Fail(c)
        /\ UNCHANGED <<option, warned, logged, trail, dropped>> /\ doubt' = doubt \cup {c}
    BY <1>2 DEF SaveUnclear, ExpectedVersion
  <2>1. PICK r : /\ call' = [call EXCEPT ![c] = r] /\ DOMAIN r = CallFields
                 /\ Keeps(r, call[c]) /\ (r.pc = "wait" \/ Leaves(r, "failed"))
    BY <2>0, FailFacts
  <2>2. CallShape(r)
    BY <2>0, <2>1, ShapeFacts DEF Working, Answers
  <2>3. IF option.atomic THEN AppendWithOutbox(Batch(c), buildOutboxMessages(Batch(c), {}))
                         ELSE appendLocked(Batch(c)) /\ UNCHANGED outbox
    BY <1>2 DEF SaveUnclear
  <2>4. stream' = stream \o Batch(c) /\ outbox \subseteq outbox'
    BY <2>3 DEF AppendWithOutbox, appendLocked
  <2>5. \A m \in outbox' \ outbox : \E k \in 1 .. call[c].raised : m = MessageOf(Batch(c)[k])
    BY <2>3, BatchFacts DEF AppendWithOutbox, buildOutboxMessages
  <2>6. option.routed /\ option.atomic => \A k \in 1 .. call[c].raised : MessageOf(Batch(c)[k]) \in outbox'
    BY <2>3, BatchFacts DEF AppendWithOutbox, buildOutboxMessages
  <2>7. Unclear(c, r)
    BY <2>0, <2>1, <2>6 DEF Unclear
  <2>8. r.attempt = call[c].attempt /\ r.raised = call[c].raised
    BY <2>1 DEF Keeps
  <2> QED
    BY <2>0, <2>1, <2>2, <2>4, <2>5, <2>7, <2>8 DEF StoreMove
<1> QED
  BY <1>1, <1>2

LEMMA StepMoves ==
  ASSUME ShapeInv, [Next]_vars
  PROVE  \/ \E c \in Commands : \E r : CallMove(c, r) \/ StoreMove(c, r)
         \/ ImportMove \/ CrashMove \/ AsideMove
<1> USE DEF store, audit
<1>1. ASSUME NEW c \in Commands, Step(c) PROVE \E r : CallMove(c, r) \/ StoreMove(c, r)
  BY <1>1, HandlerMoves, AuditMoves, SavingMoves, ScheduleMove, BusMoves DEF Step
<1>2. ASSUME NEW c \in Commands,
             \/ Timeout(c) \/ (\E p \in Procs : Dispatch(c, p) \/ Refused(c, p))
             \/ ValidationMiddleware(c) \/ TenantMiddleware(c)
      PROVE  \E r : CallMove(c, r)
  BY <1>2, BusMoves
<1>3. ASSUME NEW p \in Procs, Close(p) \/ CloseReturns(p) \/ RegisterEvents(p) PROVE AsideMove
  BY <1>3 DEF AsideMove, ledgers, Close, CloseReturns, RegisterEvents
<1>4. ASSUME NEW p \in Procs, NEW u, RegisterUpcaster(p, u) PROVE AsideMove
  BY <1>4 DEF AsideMove, ledgers, RegisterUpcaster
<1>5. CASE UNCHANGED vars
  BY <1>5 DEF AsideMove, ledgers, vars
<1>6. ASSUME NEW p \in Procs, NEW stamp \in CallerStamps, AppendImported(p, stamp) PROVE ImportMove
  BY <1>6 DEF ImportMove, ledgers, AppendImported, Imported, appendLocked
<1>7. ASSUME NEW p \in Procs, Crash(p) PROVE CrashMove
  <2>0. /\ UNCHANGED <<stream, ledgers>>
        /\ call' = [c \in Commands |-> IF InFlight(c) /\ call[c].proc = p THEN [call[c] EXCEPT !.pc = "crashed"] ELSE call[c]]
    BY <1>7 DEF Crash, ledgers
  <2>1. ASSUME NEW c \in Commands
        PROVE  \/ call'[c] = call[c]
               \/ InFlight(c) /\ Keeps(call'[c], call[c]) /\ call'[c].pc = "crashed" /\ DOMAIN call'[c] = CallFields
    <3>1. CASE ~(InFlight(c) /\ call[c].proc = p)
      BY <2>0, <3>1
    <3>2. CASE InFlight(c) /\ call[c].proc = p
      <4>1. call'[c] = [call[c] EXCEPT !.pc = "crashed"]
        BY <2>0, <3>2
      <4>2. DOMAIN call[c] = CallFields
        BY DEF ShapeInv, CallShape
      <4> QED
        BY <3>2, <4>1, <4>2 DEF Keeps, CallFields
    <3> QED
      BY <3>1, <3>2
  <2> QED
    BY <2>0, <2>1 DEF CrashMove
<1> QED
  BY <1>1, <1>2, <1>3, <1>4, <1>5, <1>6, <1>7 DEF Next

-----------------------------------------------------------------------------
(* Sequences: what an append leaves and adds. *)
LEMMA ConcatFacts ==
  ASSUME NEW s, NEW t, IsSeq(s), IsSeq(t)
  PROVE  /\ IsSeq(s \o t) /\ Len(s \o t) = Len(s) + Len(t)
         /\ \A i \in 1 .. Len(s) : (s \o t)[i] = s[i]
         /\ \A k \in 1 .. Len(t) : (s \o t)[Len(s) + k] = t[k]
<1>1. PICK S : S = {s[i] : i \in 1 .. Len(s)} \cup {t[k] : k \in 1 .. Len(t)}
  OBVIOUS
<1>2. s \in [1 .. Len(s) -> S] /\ Len(s) \in Nat
  BY <1>1 DEF IsSeq
<1>3. t \in [1 .. Len(t) -> S] /\ Len(t) \in Nat
  BY <1>1 DEF IsSeq
<1>4. s \in Seq(S) /\ t \in Seq(S)
  BY <1>2, <1>3
<1>5. s \o t \in Seq(S) /\ Len(s \o t) = Len(s) + Len(t)
  BY <1>4
<1>6. /\ \A i \in 1 .. Len(s) : (s \o t)[i] = s[i]
      /\ \A k \in 1 .. Len(t) : (s \o t)[Len(s) + k] = t[k]
  BY <1>4
<1>7. IsSeq(s \o t)
  <2>1. PICK u \in Seq(S) : u = s \o t
    BY <1>5
  <2>a. Len(u) \in Nat /\ u \in [1 .. Len(u) -> S]
    BY <2>1, LenProperties
  <2>2. Len(u) \in Nat /\ u = [i \in 1 .. Len(u) |-> u[i]]
    BY <2>a, Zenon
  <2> QED
    BY <2>1, <2>2 DEF IsSeq
<1> QED
  BY <1>5, <1>6, <1>7

(* The stored events stay, and new ones come behind them. *)
LEMMA GrownStream ==
  ASSUME ShapeInv, NEW t, IsSeq(t), stream' = stream \o t
  PROVE  /\ IsSeq(stream)' /\ Len(stream') = Len(stream) + Len(t) /\ Len(stream) \in Nat /\ Len(t) \in Nat
         /\ DOMAIN stream = 1 .. Len(stream) /\ DOMAIN stream' = 1 .. Len(stream')
         /\ \A i \in DOMAIN stream : stream'[i] = stream[i]
         /\ \A i \in DOMAIN stream' \ DOMAIN stream :
              i - Len(stream) \in 1 .. Len(t) /\ stream'[i] = t[i - Len(stream)]
<1>1. IsSeq(stream)
  BY DEF ShapeInv
<1>2. /\ IsSeq(stream') /\ Len(stream') = Len(stream) + Len(t)
      /\ \A i \in 1 .. Len(stream) : stream'[i] = stream[i]
      /\ \A k \in 1 .. Len(t) : stream'[Len(stream) + k] = t[k]
  BY <1>1, ConcatFacts
<1>3. /\ DOMAIN stream = 1 .. Len(stream) /\ Len(stream) \in Nat
      /\ DOMAIN stream' = 1 .. Len(stream') /\ Len(t) \in Nat
  BY <1>1, <1>2 DEF IsSeq
<1>4. ASSUME NEW i \in DOMAIN stream' \ DOMAIN stream
      PROVE  i - Len(stream) \in 1 .. Len(t) /\ stream'[i] = t[i - Len(stream)]
  <2>1. PICK k : k = i - Len(stream)
    OBVIOUS
  <2>2. k \in 1 .. Len(t) /\ i = Len(stream) + k
    BY <1>2, <1>3, <2>1
  <2> QED
    BY <1>2, <2>1, <2>2
<1> QED
  BY <1>2, <1>3, <1>4 DEF IsSeq

LEMMA SingleIsSeq ==
  ASSUME NEW e
  PROVE  IsSeq(<<e>>) /\ Len(<<e>>) = 1 /\ <<e>>[1] = e
BY DEF IsSeq

(* What the imported event is, and where it is. *)
LEMMA ImportFacts ==
  ASSUME ShapeInv, ImportMove
  PROVE  \E p \in Procs, stamp \in CallerStamps :
           /\ IsSeq(stream)' /\ DOMAIN stream = 1 .. Len(stream) /\ Len(stream) \in Nat
           /\ DOMAIN stream' = 1 .. Len(stream) + 1
           /\ \A i \in DOMAIN stream : stream'[i] = stream[i]
           /\ stream'[Len(stream) + 1] = Imported(p, stamp)
<1>1. PICK p \in Procs, stamp \in CallerStamps : stream' = stream \o <<Imported(p, stamp)>>
  BY DEF ImportMove
<1>2. PICK e : e = Imported(p, stamp)
  OBVIOUS
<1>3. IsSeq(<<e>>) /\ Len(<<e>>) = 1 /\ <<e>>[1] = e
  BY SingleIsSeq
<1>4. /\ IsSeq(stream)' /\ Len(stream') = Len(stream) + 1 /\ Len(stream) \in Nat
      /\ DOMAIN stream = 1 .. Len(stream) /\ DOMAIN stream' = 1 .. Len(stream')
      /\ \A i \in DOMAIN stream : stream'[i] = stream[i]
      /\ \A i \in DOMAIN stream' \ DOMAIN stream : i - Len(stream) \in 1 .. 1 /\ stream'[i] = <<e>>[i - Len(stream)]
  BY <1>1, <1>2, <1>3, GrownStream
<1>5. stream'[Len(stream) + 1] = e
  BY <1>3, <1>4
<1> QED
  BY <1>2, <1>4, <1>5

LEMMA StoreFacts ==
  ASSUME ShapeInv, NEW c \in Commands, NEW r, StoreMove(c, r)
  PROVE  /\ IsSeq(stream)' /\ DOMAIN stream = 1 .. Len(stream) /\ Len(stream) \in Nat
         /\ DOMAIN stream' = 1 .. Len(stream) + call[c].raised /\ call[c].raised \in Nat
         /\ \A i \in DOMAIN stream : stream'[i] = stream[i]
         /\ \A i \in DOMAIN stream' \ DOMAIN stream :
              i - Len(stream) \in 1 .. call[c].raised /\ stream'[i] = Batch(c)[i - Len(stream)]
<1>1. IsSeq(Batch(c)) /\ Len(Batch(c)) = call[c].raised
  BY BatchFacts
<1> QED
  BY <1>1, GrownStream DEF StoreMove

LEMMA ShapeStep ==
  ASSUME ShapeInv, [Next]_vars
  PROVE  ShapeInv'
<1>1. ASSUME NEW c \in Commands, NEW r, CallMove(c, r) PROVE ShapeInv'
  BY <1>1 DEF CallMove, CallFrame, ShapeInv, IsSeq
<1>2. ASSUME NEW c \in Commands, NEW r, StoreMove(c, r) PROVE ShapeInv'
  <2>1. IsSeq(stream)'
    BY <1>2, StoreFacts
  <2> QED
    BY <1>2, <2>1 DEF StoreMove, ShapeInv
<1>3. CASE ImportMove
  <2>1. IsSeq(stream)'
    BY <1>3, ImportFacts
  <2> QED
    BY <1>3, <2>1 DEF ImportMove, ShapeInv, ledgers
<1>4. CASE CrashMove
  <2>1. ASSUME NEW c \in Commands PROVE CallShape(call'[c])
    <3>1. CallShape(call[c])
      BY DEF ShapeInv
    <3> QED
      BY <1>4, <3>1 DEF CrashMove, CallShape, Keeps, Working
  <2> QED
    BY <1>4, <2>1 DEF CrashMove, ShapeInv, IsSeq, ledgers
<1>5. CASE AsideMove
  BY <1>5 DEF AsideMove, ShapeInv, IsSeq, ledgers
<1> QED
  BY <1>1, <1>2, <1>3, <1>4, <1>5, StepMoves

LEMMA InitShape == Init => ShapeInv
<1> SUFFICES ASSUME Init PROVE ShapeInv
  OBVIOUS
<1>1. CallShape(Idle)
  BY DEF CallShape, Idle, CallFields, Working, Answers
<1>2. IsSeq(stream)
  BY DEF Init, IsSeq
<1>3. option.audit \in {"off", "open", "closed"}
  BY SetupsAssumption DEF Init
<1> QED
  BY <1>1, <1>2, <1>3 DEF Init, ShapeInv

-----------------------------------------------------------------------------
(* Optimistic concurrency. *)

(* A registration is noted for every replay between its two looks. *)
Learned(d) ==
  call[d].pc = "apply" /\ ~call[d].typed /\ call[d].proc \in known' \ known =>
    <<d, call[d].attempt, call[d].at>> \in raced'

RegistryMove == raced \subseteq raced' /\ \A d \in Commands : Learned(d)

LEMMA RegistryStep ==
  ASSUME [Next]_vars
  PROVE  RegistryMove
<1>1. ASSUME UNCHANGED <<known, raced>> PROVE RegistryMove
  BY <1>1 DEF RegistryMove, Learned
<1>2. ASSUME NEW p, Learn(p) PROVE RegistryMove
  BY <1>2 DEF RegistryMove, Learned, Learn
<1>3. ASSUME NEW p, autoRegisterEvents(p) \/ SaveRegisters(p) PROVE RegistryMove
  BY <1>1, <1>2, <1>3 DEF autoRegisterEvents, SaveRegisters
<1>4. ASSUME NEW p, Crash(p) PROVE RegistryMove
  BY <1>4 DEF RegistryMove, Learned, Crash
<1>5. ASSUME NEW c \in Commands, Step(c) PROVE RegistryMove
  <2>1. CASE Conflict(c) \/ SaveAggregate(c) \/ SaveFails(c) \/ SaveUnclear(c)
    BY <1>3, <2>1 DEF Conflict, SaveAggregate, SaveFails, SaveUnclear
  <2>2. CASE ~(Conflict(c) \/ SaveAggregate(c) \/ SaveFails(c) \/ SaveUnclear(c))
    BY <1>1, <1>5, <2>2 DEF Step, LoadAggregate, deserializeWithUpcast, ApplyEvent, LoadFails, Execute,
          ExecuteFails, AuditAppend, AuditFails, Schedule, ScheduleFails, Retry, RetryGivesUp
  <2> QED
    BY <2>1, <2>2
<1>6. ASSUME NEW c \in Commands,
             \/ Timeout(c) \/ (\E p \in Procs : Dispatch(c, p) \/ Refused(c, p))
             \/ ValidationMiddleware(c) \/ TenantMiddleware(c)
      PROVE  RegistryMove
  BY <1>1, <1>6 DEF Timeout, Dispatch, Refused, ValidationMiddleware, TenantMiddleware, Reject
<1>7. ASSUME NEW p \in Procs, Close(p) \/ CloseReturns(p) \/ RegisterEvents(p) \/ \E u : RegisterUpcaster(p, u)
      PROVE  RegistryMove
  BY <1>1, <1>2, <1>7 DEF Close, CloseReturns, RegisterEvents, RegisterUpcaster
<1>8. ASSUME NEW p, NEW stamp, AppendImported(p, stamp) PROVE RegistryMove
  BY <1>3, <1>8 DEF AppendImported
<1>9. CASE UNCHANGED vars
  BY <1>1, <1>9 DEF vars
<1> QED
  BY <1>4, <1>5, <1>6, <1>7, <1>8, <1>9 DEF Next

(* A call that stays where it is keeps what it has replayed. *)
LEMMA StaysLoaded ==
  ASSUME NEW d \in Commands, LoadedHistory(d), RegistryMove, option' = option, warned \subseteq warned',
         call'[d].pc = call[d].pc, Keeps(call'[d], call[d]), call'[d].typed = call[d].typed
  PROVE  LoadedHistory(d)'
<1>1. raced \subseteq raced' /\ Learned(d)
  BY DEF RegistryMove
<1>2. \A j : Excusable(d, j) => Excusable(d, j)'
  BY <1>1 DEF Excusable, Keeps
<1>3. \A n : Replayed(d, n) => Replayed(d, n)'
  BY <1>2 DEF Replayed, Keeps
<1>4. call'[d].pc \in {"decode", "apply"} => call'[d].at \in 1 .. call'[d].version /\ Replayed(d, call[d].at - 1)'
  BY <1>3 DEF LoadedHistory, Keeps
<1>5. call'[d].pc \in {"execute", "save"} => Replayed(d, call[d].version)'
  BY <1>3 DEF LoadedHistory, Keeps
<1>6. call'[d].pc = "apply" /\ ~call'[d].typed /\ call'[d].proc \in known' =>
        <<d, call'[d].attempt, call'[d].at>> \in raced'
  BY <1>1 DEF LoadedHistory, Learned, Keeps
<1> QED
  BY <1>4, <1>5, <1>6 DEF LoadedHistory, Keeps

(* The steps of LoadAggregate: the snapshot, and the two looks per event. *)
LEMMA ReplayMoves ==
  ASSUME ShapeInv, NEW c \in Commands, LoadedHistory(c), RegistryMove, NEW r, CallShape(r), call'[c] = r,
         option' = option, warned \subseteq warned',
         Loads(c, r) \/ Reads(c, r) \/ Applies(c, r) \/ Executes(c, r)
  PROVE  LoadedHistory(c)'
<1>0. raced \subseteq raced' /\ CallShape(call[c])
  BY DEF RegistryMove, ShapeInv
<1>1. CASE Loads(c, r)
  <2>1. r.seen = {} /\ r.at = 1 /\ r.version \in Nat /\ r.pc \in {"execute", "decode"}
        /\ (r.pc = "execute" => r.version = 0) /\ (r.pc = "decode" => r.version > 0)
    BY <1>1 DEF Loads, CallShape
  <2>2. 1 .. 0 = {} /\ r.at - 1 = 0
    BY <2>1
  <2>3. Replayed(c, 0)'
    BY <2>1, <2>2 DEF Replayed
  <2>4. r.pc = "decode" => r.at \in 1 .. r.version
    BY <2>1
  <2> QED
    BY <2>1, <2>2, <2>3, <2>4 DEF LoadedHistory
<1>2. ASSUME r.proc = call[c].proc, r.attempt = call[c].attempt, NEW j, Excusable(c, j) PROVE Excusable(c, j)'
  BY <1>0, <1>2 DEF Excusable
<1>3. CASE Reads(c, r)
  <2>1. Keeps(r, call[c]) /\ call[c].pc = "decode" /\ r.pc = "apply"
    BY <1>3 DEF Reads
  <2>2. call[c].at \in 1 .. call[c].version /\ Replayed(c, call[c].at - 1)
    BY <2>1 DEF LoadedHistory
  <2>3. Replayed(c, call[c].at - 1)'
    BY <1>2, <2>1, <2>2 DEF Replayed, Keeps
  <2> QED
    BY <1>3, <2>1, <2>2, <2>3 DEF LoadedHistory, Reads, Keeps
<1>4. CASE Applies(c, r)
  <2>1. PICK i \in Nat, v \in Nat : i = call[c].at /\ v = call[c].version /\ i \in 1 .. v
    BY <1>0, <1>4 DEF LoadedHistory, Applies, CallShape
  <2>2. /\ call[c].pc = "apply" /\ r.proc = call[c].proc /\ r.attempt = call[c].attempt
        /\ r.version = v /\ r.at = i + 1 /\ r.pc = IF i = v THEN "execute" ELSE "decode"
        /\ r.seen = IF call[c].typed THEN call[c].seen \cup {i} ELSE call[c].seen
    BY <1>4, <2>1 DEF Applies
  <2>3. Replayed(c, i - 1)
    BY <2>1, <2>2 DEF LoadedHistory
  <2>4. 1 .. i = (1 .. i - 1) \cup {i}
    BY <2>1
  <2>5. ~call[c].typed => Excusable(c, i)'
    <3>1. ASSUME ~call[c].typed, call[c].proc \in known PROVE <<c, call[c].attempt, i>> \in raced'
      BY <1>0, <2>1, <2>2, <3>1 DEF LoadedHistory
    <3> QED
      BY <1>4, <2>1, <2>2, <3>1 DEF Applies, Excusable
  <2>6. Replayed(c, i)'
    <3>1. call[c].seen \subseteq 1 .. i - 1 /\ \A j \in (1 .. i - 1) \ call[c].seen : Excusable(c, j)'
      BY <1>2, <2>2, <2>3 DEF Replayed
    <3> QED
      BY <2>2, <2>4, <2>5, <3>1 DEF Replayed
  <2>7. CASE i = v
    BY <2>2, <2>6, <2>7 DEF LoadedHistory
  <2>8. CASE i # v
    <3>1. r.at \in 1 .. r.version /\ r.at - 1 = i
      BY <2>1, <2>2, <2>8
    <3> QED
      BY <2>2, <2>6, <2>8, <3>1 DEF LoadedHistory
  <2> QED
    BY <2>7, <2>8
<1>5. CASE Executes(c, r)
  <2>1. Replayed(c, call[c].version) /\ r.pc = "save" /\ r.version = call[c].version
    BY <1>5 DEF LoadedHistory, Executes
  <2>2. Replayed(c, call[c].version)'
    BY <1>2, <1>5, <2>1 DEF Replayed, Executes
  <2> QED
    BY <2>1, <2>2 DEF LoadedHistory
<1> QED
  BY <1>1, <1>3, <1>4, <1>5

LEMMA HistoryStep ==
  ASSUME ShapeInv, HistoryInv, [Next]_vars
  PROVE  HistoryInv'
<1> DEFINE Right(i, e) ==
       /\ e.basis \subseteq 1 .. i - e.n
       /\ \A j \in (1 .. i - e.n) \ e.basis :
            (~option.strict /\ <<e.by, j>> \in warned) \/ <<e.cmd, e.attempt, j>> \in raced
<1>0. \A i \in DOMAIN stream : Right(i, stream[i])
  BY DEF HistoryInv, DecidedOnFullHistory
<1>r. RegistryMove /\ raced \subseteq raced'
  BY RegistryStep DEF RegistryMove
<1>1. ASSUME UNCHANGED option, warned \subseteq warned', \A i \in DOMAIN stream : stream'[i] = stream[i],
             \A i \in DOMAIN stream' \ DOMAIN stream : Right(i, stream'[i])
      PROVE  DecidedOnFullHistory'
  BY <1>0, <1>r, <1>1 DEF DecidedOnFullHistory
<1>2. ASSUME NEW c \in Commands, NEW r, CallMove(c, r) PROVE HistoryInv'
  <2>0. /\ call' = [call EXCEPT ![c] = r] /\ DOMAIN call = Commands
        /\ UNCHANGED <<option, stream>> /\ warned \subseteq warned' /\ CallShape(r)
    BY <1>2 DEF CallMove, CallFrame, ShapeInv
  <2>1. DecidedOnFullHistory'
    BY <1>1, <2>0
  <2>2. ASSUME NEW d \in Commands, d # c PROVE LoadedHistory(d)'
    <3>1. call'[d] = call[d] /\ LoadedHistory(d)
      BY <2>0, <2>2 DEF HistoryInv
    <3> QED
      BY <1>r, <2>0, <3>1, StaysLoaded DEF Keeps
  <2>3. LoadedHistory(c)'
    <3>0. LoadedHistory(c) /\ CallShape(call[c]) /\ call'[c] = r
      BY <2>0 DEF HistoryInv, ShapeInv
    <3>1. CASE Loads(c, r) \/ Reads(c, r) \/ Applies(c, r) \/ Executes(c, r)
      BY <1>r, <2>0, <3>0, <3>1, ReplayMoves
    <3>2. CASE Expires(c, r)
      BY <1>r, <2>0, <3>0, <3>2, StaysLoaded DEF Expires
    <3>3. CASE Begins(c, r) \/ Rejects(c, r) \/ Retries(c, r) \/ Fails(c, r) \/ Panics(c, r)
               \/ Misses(c, r) \/ Notes(c, r) \/ Schedules(c, r)
      <4>1. r.pc \notin {"decode", "apply", "execute", "save"}
        BY <3>0, <3>3 DEF Begins, Rejects, Retries, Fails, Panics, Misses, Notes, Schedules, Leaves,
                          CallShape, Answers, foldAuditFailure
      <4> QED
        BY <3>0, <4>1 DEF LoadedHistory
    <3> QED
      BY <1>2, <3>1, <3>2, <3>3 DEF CallMove
  <2> QED
    BY <2>1, <2>2, <2>3 DEF HistoryInv
<1>3. ASSUME NEW c \in Commands, NEW r, StoreMove(c, r) PROVE HistoryInv'
  <2>0. /\ call' = [call EXCEPT ![c] = r] /\ DOMAIN call = Commands
        /\ UNCHANGED <<option, warned>> /\ call[c].pc = "save" /\ call[c].version = Len(stream)
        /\ r.pc \notin {"decode", "apply", "execute", "save"}
    BY <1>3 DEF StoreMove, ShapeInv, Succeeds, Unclear, Leaves, Answers
  <2>1. ASSUME NEW d \in Commands PROVE LoadedHistory(d)'
    <3>1. CASE d = c
      BY <2>0, <3>1 DEF LoadedHistory
    <3>2. CASE d # c
      <4>1. call'[d] = call[d] /\ LoadedHistory(d)
        BY <2>0, <3>2 DEF HistoryInv
      <4> QED
        BY <1>r, <2>0, <4>1, StaysLoaded DEF Keeps
    <3> QED
      BY <3>1, <3>2
  <2>2. ASSUME NEW i \in DOMAIN stream' \ DOMAIN stream PROVE Right(i, stream'[i])
    <3>1. PICK k \in 1 .. call[c].raised : k = i - Len(stream) /\ stream'[i] = Batch(c)[k]
      BY <1>3, <2>2, StoreFacts
    <3>2. stream'[i] = prepareEventData(call[c].proc, Code[call[c].proc], Unstamped,
                                        <<c, call[c].attempt, k>>, call[c].seen)
      BY <3>1, BatchFacts
    <3>3. /\ stream'[i].n = k /\ stream'[i].by = call[c].proc /\ stream'[i].basis = call[c].seen
          /\ stream'[i].cmd = c /\ stream'[i].attempt = call[c].attempt
      BY <3>2 DEF prepareEventData
    <3>4. Len(stream) \in Nat /\ i \in Nat /\ call[c].raised \in Nat
      BY <1>3, StoreFacts
    <3>5. i - k = Len(stream)
      BY <3>1, <3>4
    <3>6. Replayed(c, Len(stream))
      BY <2>0 DEF HistoryInv, LoadedHistory
    <3> QED
      BY <3>3, <3>5, <3>6 DEF Replayed, Excusable
  <2>3. DecidedOnFullHistory'
    BY <1>1, <1>3, <2>0, <2>2, StoreFacts
  <2> QED
    BY <2>1, <2>3 DEF HistoryInv
<1>s. ASSUME UNCHANGED <<call, option, warned>>, NEW d \in Commands PROVE LoadedHistory(d)'
  BY <1>r, <1>s, StaysLoaded DEF Keeps, HistoryInv
<1>4. CASE ImportMove
  <2>0. UNCHANGED <<call, option, warned>>
    BY <1>4 DEF ImportMove, ledgers
  <2>1. PICK p \in Procs, stamp \in CallerStamps :
           /\ IsSeq(stream)' /\ DOMAIN stream = 1 .. Len(stream) /\ Len(stream) \in Nat
           /\ DOMAIN stream' = 1 .. Len(stream) + 1
           /\ \A i \in DOMAIN stream : stream'[i] = stream[i]
           /\ stream'[Len(stream) + 1] = Imported(p, stamp)
    BY <1>4, ImportFacts
  <2>2. Imported(p, stamp).n = 1 /\ Imported(p, stamp).basis = 1 .. Len(stream)
    BY <2>1 DEF Imported, prepareEventData
  <2>3. ASSUME NEW i \in DOMAIN stream' \ DOMAIN stream PROVE Right(i, stream'[i])
    <3>1. i = Len(stream) + 1 /\ i - 1 = Len(stream)
      BY <2>1
    <3> QED
      BY <2>1, <2>2, <3>1
  <2>4. DecidedOnFullHistory'
    BY <1>1, <2>0, <2>1, <2>3
  <2> QED
    BY <1>s, <2>0, <2>4 DEF HistoryInv
<1>5. CASE CrashMove
  <2>0. UNCHANGED <<option, stream, warned>>
    BY <1>5 DEF CrashMove, ledgers
  <2>1. DecidedOnFullHistory'
    BY <1>1, <2>0
  <2>2. ASSUME NEW d \in Commands PROVE LoadedHistory(d)'
    <3>1. CASE call'[d] = call[d]
      BY <1>r, <2>0, <3>1, StaysLoaded DEF Keeps, HistoryInv
    <3>2. CASE call'[d].pc = "crashed"
      BY <3>2 DEF LoadedHistory
    <3> QED
      BY <1>5, <3>1, <3>2 DEF CrashMove
  <2> QED
    BY <2>1, <2>2 DEF HistoryInv
<1>6. CASE AsideMove
  <2>0. UNCHANGED <<call, option, stream, warned>>
    BY <1>6 DEF AsideMove, ledgers
  <2>1. DecidedOnFullHistory'
    BY <1>1, <2>0
  <2> QED
    BY <1>s, <2>0, <2>1 DEF HistoryInv
<1> QED
  BY <1>2, <1>3, <1>4, <1>5, <1>6, StepMoves

-----------------------------------------------------------------------------
(* Events and messages. *)

LEMMA MessageStep ==
  ASSUME ShapeInv, MessageInv, [Next]_vars
  PROVE  MessageInv'
<1>0. /\ \A m \in outbox : \E i \in DOMAIN stream : stream[i].cmd # Import /\ m = MessageOf(stream[i])
      /\ \A i \in DOMAIN stream :
           stream[i].cmd # Import => MessageOf(stream[i]) \in outbox \cup logged \/ Excused(stream[i])
  BY DEF MessageInv
<1>1. ASSUME NEW c \in Commands, NEW r, CallMove(c, r) PROVE MessageInv'
  <2>0. /\ call' = [call EXCEPT ![c] = r] /\ DOMAIN call = Commands /\ outbox \subseteq outbox'
        /\ UNCHANGED <<option, stream, logged>> /\ doubt \subseteq doubt'
    BY <1>1 DEF CallMove, CallFrame, ShapeInv
  <2>1. \A m \in outbox' \ outbox : \E i \in Mine(c) : m = MessageOf(stream[i])
    BY <1>1 DEF CallMove, Schedules
  <2>2. \A m \in outbox' : \E i \in DOMAIN stream' : stream'[i].cmd # Import /\ m = MessageOf(stream'[i])
    BY <1>0, <2>0, <2>1, ImportAssumption DEF Mine
  <2>3. \/ r.pc = call[c].pc /\ r.attempt = call[c].attempt
        \/ call[c].pc \notin {"schedule", "crashed"}
        \/ c \in doubt'
        \/ call[c].pc = "schedule" /\ \A i \in Now(c) : MessageOf(stream[i]) \in outbox' \cup logged
    BY <1>1 DEF CallMove, Begins, Rejects, Expires, Keeps, Retries, Loads, Reads, Applies, Executes, Fails, Panics, Misses,
                Notes, Schedules
  <2>4. ASSUME NEW i \in DOMAIN stream, stream[i].cmd # Import, Excused(stream[i])
        PROVE  MessageOf(stream[i]) \in outbox' \cup logged' \/ Excused(stream[i])'
    <3>1. CASE stream[i].cmd # c
      BY <2>0, <2>4, <3>1 DEF Excused
    <3>2. CASE stream[i].cmd = c
      BY <2>0, <2>3, <2>4, <3>2 DEF Excused, Now, Mine
    <3> QED
      BY <3>1, <3>2
  <2> QED
    BY <1>0, <2>0, <2>2, <2>4 DEF MessageInv
<1>2. ASSUME NEW c \in Commands, NEW r, StoreMove(c, r) PROVE MessageInv'
  <2>0. /\ call' = [call EXCEPT ![c] = r] /\ DOMAIN call = Commands /\ outbox \subseteq outbox'
        /\ UNCHANGED option /\ doubt \subseteq doubt' /\ logged \subseteq logged'
        /\ call[c].pc = "save" /\ r.attempt = call[c].attempt
        /\ \A m \in outbox' \ outbox : \E k \in 1 .. call[c].raised : m = MessageOf(Batch(c)[k])
    BY <1>2 DEF StoreMove, ShapeInv
  <2>1. /\ DOMAIN stream = 1 .. Len(stream) /\ Len(stream) \in Nat
        /\ DOMAIN stream' = 1 .. Len(stream) + call[c].raised /\ call[c].raised \in Nat
        /\ \A i \in DOMAIN stream : stream'[i] = stream[i]
        /\ \A i \in DOMAIN stream' \ DOMAIN stream :
             i - Len(stream) \in 1 .. call[c].raised /\ stream'[i] = Batch(c)[i - Len(stream)]
    BY <1>2, StoreFacts
  <2>2. \A k \in 1 .. call[c].raised : Batch(c)[k].cmd = c /\ Batch(c)[k].attempt = call[c].attempt
    <3>1. ASSUME NEW k \in 1 .. call[c].raised
          PROVE  Batch(c)[k].cmd = c /\ Batch(c)[k].attempt = call[c].attempt
      <4>1. PICK e : e = prepareEventData(call[c].proc, Code[call[c].proc], Unstamped,
                                          <<c, call[c].attempt, k>>, call[c].seen)
        OBVIOUS
      <4>2. e.cmd = c /\ e.attempt = call[c].attempt
        BY <4>1 DEF prepareEventData
      <4>3. Batch(c)[k] = e
        BY <4>1, BatchFacts
      <4> QED
        BY <4>2, <4>3
    <3> QED
      BY <3>1
  <2>3. \A k \in 1 .. call[c].raised : Len(stream) + k \in DOMAIN stream' /\ stream'[Len(stream) + k] = Batch(c)[k]
    <3>1. ASSUME NEW k \in 1 .. call[c].raised
          PROVE  Len(stream) + k \in DOMAIN stream' /\ stream'[Len(stream) + k] = Batch(c)[k]
      <4>1. PICK i : i = Len(stream) + k
        OBVIOUS
      <4>2. i \in DOMAIN stream' \ DOMAIN stream /\ i - Len(stream) = k
        BY <2>1, <4>1
      <4>3. stream'[i] = Batch(c)[i - Len(stream)]
        BY <2>1, <4>2
      <4> QED
        BY <4>1, <4>2, <4>3
    <3> QED
      BY <3>1
  <2>4. ASSUME NEW m \in outbox'
        PROVE  \E i \in DOMAIN stream' : stream'[i].cmd # Import /\ m = MessageOf(stream'[i])
    <3>1. CASE m \in outbox
      <4>1. PICK i \in DOMAIN stream : stream[i].cmd # Import /\ m = MessageOf(stream[i])
        BY <1>0, <3>1
      <4>2. i \in DOMAIN stream' /\ stream'[i] = stream[i]
        BY <2>1
      <4> QED
        BY <4>1, <4>2
    <3>2. CASE m \notin outbox
      <4>1. PICK k \in 1 .. call[c].raised : m = MessageOf(Batch(c)[k])
        BY <2>0, <2>4, <3>2
      <4> QED
        BY <2>2, <2>3, <4>1, ImportAssumption
    <3> QED
      BY <3>1, <3>2
  <2>5. ASSUME NEW i \in DOMAIN stream, stream[i].cmd # Import
        PROVE  (MessageOf(stream[i]) \in outbox \cup logged \/ Excused(stream[i]))'
    BY <1>0, <2>0, <2>1, <2>5 DEF Excused
  <2>6. ASSUME NEW i \in DOMAIN stream' \ DOMAIN stream
        PROVE  (MessageOf(stream[i]) \in outbox \cup logged \/ Excused(stream[i]))'
    <3>1. PICK k \in 1 .. call[c].raised : stream'[i] = Batch(c)[k]
      BY <2>1
    <3>2. \/ MessageOf(Batch(c)[k]) \in outbox' \cup logged'
          \/ ~option.routed
          \/ ~option.atomic /\ (c \in doubt' \/ r.pc = "schedule")
      BY <1>2 DEF StoreMove, Succeeds, Unclear
    <3> QED
      BY <2>0, <2>2, <3>1, <3>2 DEF Excused
  <2>7. \A i \in DOMAIN stream : stream'[i] = stream[i]
    BY <2>1
  <2> QED
    BY <2>4, <2>5, <2>6, <2>7 DEF MessageInv
<1>3. CASE ImportMove
  <2>0. UNCHANGED <<call, option, outbox, logged, doubt>>
    BY <1>3 DEF ImportMove, ledgers
  <2>1. PICK p \in Procs, stamp \in CallerStamps :
           /\ IsSeq(stream)' /\ DOMAIN stream = 1 .. Len(stream) /\ Len(stream) \in Nat
           /\ DOMAIN stream' = 1 .. Len(stream) + 1
           /\ \A i \in DOMAIN stream : stream'[i] = stream[i]
           /\ stream'[Len(stream) + 1] = Imported(p, stamp)
    BY <1>3, ImportFacts
  <2>2. Imported(p, stamp).cmd = Import
    BY DEF Imported, prepareEventData
  <2>3. DOMAIN stream \subseteq DOMAIN stream' /\ \A i \in DOMAIN stream' \ DOMAIN stream : stream'[i].cmd = Import
    BY <2>1, <2>2
  <2>4. \A i \in DOMAIN stream : Excused(stream[i]) => Excused(stream[i])'
    BY <2>0, <2>1 DEF Excused
  <2>5. \A m \in outbox' : \E i \in DOMAIN stream' : stream'[i].cmd # Import /\ m = MessageOf(stream'[i])
    BY <1>0, <2>0, <2>1, <2>3
  <2>6. \A i \in DOMAIN stream' :
          stream'[i].cmd # Import => (MessageOf(stream[i]) \in outbox \cup logged \/ Excused(stream[i]))'
    BY <1>0, <2>0, <2>1, <2>3, <2>4
  <2> QED
    BY <2>5, <2>6 DEF MessageInv
<1>4. CASE CrashMove
  <2>1. \A i \in DOMAIN stream : Excused(stream[i]) => Excused(stream[i])'
    BY <1>4 DEF Excused, CrashMove, ledgers, InFlight
  <2> QED
    BY <1>0, <1>4, <2>1 DEF MessageInv, CrashMove, ledgers
<1>5. CASE AsideMove
  BY <1>5 DEF AsideMove, ledgers, MessageInv, Excused
<1> QED
  BY <1>1, <1>2, <1>3, <1>4, <1>5, StepMoves

-----------------------------------------------------------------------------
(* Schema stamps. *)

(* The chain 1 .. n - 1 leads to version n. *)
LEMMA WholeChain ==
  ASSUME NEW n \in Nat \ {0}
  PROVE  LatestVersion(1 .. n - 1) = n /\ (HasUpcasters(1 .. n - 1) <=> n > 1)
<1>1. HasUpcasters(1 .. n - 1) <=> n > 1
  BY DEF HasUpcasters
<1>2. CASE n > 1
  <2>1. n - 1 \in 1 .. n - 1 /\ \A w \in 1 .. n - 1 : w <= n - 1
    BY <1>2
  <2>2. Highest(1 .. n - 1) \in 1 .. n - 1 /\ \A w \in 1 .. n - 1 : w <= Highest(1 .. n - 1)
    BY <2>1, Zenon DEF Highest
  <2>3. Highest(1 .. n - 1) = n - 1
    BY <2>1, <2>2
  <2> QED
    BY <1>1, <1>2, <2>3 DEF LatestVersion
<1>3. CASE n = 1
  BY <1>1, <1>3 DEF LatestVersion, DefaultSchemaVersion
<1> QED
  BY <1>1, <1>2, <1>3

(* With the whole chain an event is stamped with the form it is stored in. *)
LEMMA StampFacts ==
  ASSUME NEW p \in Procs, chain[p] = Upcasters(p), NEW stamp
  PROVE  LET policy(s) == GetSchemaVersion(applySchemaVersionPolicy(HasUpcasters(chain[p]), chain[p], s, option.honour))
         IN /\ policy(Unstamped) = Code[p] /\ Code[p] \in Nat \ {0}
            /\ IF option.honour /\ ExplicitVersionValid(stamp, LatestVersion(chain[p]))
               THEN policy(stamp) = stamp /\ stamp \in 1 .. Code[p] ELSE policy(stamp) = Code[p]
<1>1. PICK n : n = Code[p]
  OBVIOUS
<1>2. n \in Nat \ {0}
  BY <1>1, CodeAssumption
<1>3. chain[p] = 1 .. n - 1
  BY <1>1 DEF Upcasters
<1>4. LatestVersion(chain[p]) = n /\ (HasUpcasters(chain[p]) <=> n > 1)
  BY <1>2, <1>3, WholeChain
<1>5. ASSUME NEW s, ~(option.honour /\ ExplicitVersionValid(s, LatestVersion(chain[p])))
      PROVE  GetSchemaVersion(applySchemaVersionPolicy(HasUpcasters(chain[p]), chain[p], s, option.honour)) = n
  BY <1>2, <1>4, <1>5 DEF applySchemaVersionPolicy, GetSchemaVersion, DefaultSchemaVersion, Unstamped
<1>6. ~ExplicitVersionValid(Unstamped, LatestVersion(chain[p]))
  BY <1>2, <1>4 DEF ExplicitVersionValid, Unstamped, DefaultSchemaVersion
<1>7. ASSUME option.honour, ExplicitVersionValid(stamp, LatestVersion(chain[p]))
      PROVE  /\ GetSchemaVersion(applySchemaVersionPolicy(HasUpcasters(chain[p]), chain[p], stamp, option.honour)) = stamp
             /\ stamp \in 1 .. n
  BY <1>2, <1>4, <1>7 DEF applySchemaVersionPolicy, GetSchemaVersion, DefaultSchemaVersion, Unstamped,
                          ExplicitVersionValid
<1> QED
  BY <1>1, <1>2, <1>5, <1>6, <1>7

LEMMA StampStep ==
  ASSUME ShapeInv, StampInv, [Next]_vars
  PROVE  StampInv'
<1> DEFINE Stamped(e) ==
       /\ e.by \in Procs
       /\ e.complete => e.form = GetSchemaVersion(e.stamp) /\ e.form \in 1 .. Code[e.by]
<1>0. \A i \in DOMAIN stream : Stamped(stream[i])
  BY DEF StampInv
<1>1. ASSUME stream' = stream PROVE StampInv'
  BY <1>0, <1>1 DEF StampInv
<1>2. ASSUME NEW c \in Commands, NEW r, StoreMove(c, r) PROVE StampInv'
  <2>0. call[c].proc \in Procs
    BY <1>2 DEF StoreMove, ShapeInv, CallShape, Working
  <2>1. ASSUME NEW k \in 1 .. call[c].raised PROVE Stamped(Batch(c)[k])
    <3>1. PICK p \in Procs : p = call[c].proc
      BY <2>0
    <3>2. PICK e : e = prepareEventData(p, Code[p], Unstamped, <<c, call[c].attempt, k>>, call[c].seen)
      OBVIOUS
    <3>3. Batch(c)[k] = e
      BY <3>1, <3>2, BatchFacts
    <3>4. /\ e.by = p /\ e.form = Code[p] /\ (e.complete <=> chain[p] = Upcasters(p))
          /\ e.stamp = applySchemaVersionPolicy(HasUpcasters(chain[p]), chain[p], Unstamped, option.honour)
      BY <3>2 DEF prepareEventData
    <3>5. ASSUME chain[p] = Upcasters(p)
          PROVE  GetSchemaVersion(e.stamp) = Code[p] /\ Code[p] \in Nat \ {0}
      BY <3>4, <3>5, StampFacts
    <3> QED
      BY <3>3, <3>4, <3>5
  <2>2. ASSUME NEW i \in DOMAIN stream' PROVE Stamped(stream'[i])
    <3>1. CASE i \in DOMAIN stream
      BY <1>0, <1>2, <3>1, StoreFacts
    <3>2. CASE i \notin DOMAIN stream
      BY <1>2, <2>1, <3>2, StoreFacts
    <3> QED
      BY <3>1, <3>2
  <2> QED
    BY <2>2 DEF StampInv
<1>3. CASE ImportMove
  <2>1. PICK p \in Procs, stamp \in CallerStamps :
           /\ IsSeq(stream)' /\ DOMAIN stream = 1 .. Len(stream) /\ Len(stream) \in Nat
           /\ DOMAIN stream' = 1 .. Len(stream) + 1
           /\ \A i \in DOMAIN stream : stream'[i] = stream[i]
           /\ stream'[Len(stream) + 1] = Imported(p, stamp)
    BY <1>3, ImportFacts
  <2>2. PICK e : e = Imported(p, stamp)
    OBVIOUS
  <2>3. /\ e.by = p /\ (e.complete <=> chain[p] = Upcasters(p))
        /\ e.form = IF option.honour /\ ExplicitVersionValid(stamp, LatestVersion(chain[p])) THEN stamp ELSE Code[p]
        /\ e.stamp = applySchemaVersionPolicy(HasUpcasters(chain[p]), chain[p], stamp, option.honour)
    BY <2>2 DEF Imported, prepareEventData
  <2>4. ASSUME chain[p] = Upcasters(p)
        PROVE  e.form = GetSchemaVersion(e.stamp) /\ e.form \in 1 .. Code[p]
    BY <2>3, <2>4, StampFacts
  <2>5. Stamped(e)
    BY <2>3, <2>4
  <2>6. ASSUME NEW i \in DOMAIN stream' PROVE Stamped(stream'[i])
    <3>1. i \in DOMAIN stream \/ i = Len(stream) + 1
      BY <2>1
    <3> QED
      BY <1>0, <2>1, <2>2, <2>5, <3>1
  <2> QED
    BY <2>6 DEF StampInv
<1>4. ASSUME NEW c \in Commands, NEW r, CallMove(c, r) PROVE stream' = stream
  BY <1>4 DEF CallMove, CallFrame
<1> QED
  BY <1>1, <1>2, <1>3, <1>4, StepMoves DEF CrashMove, AsideMove

-----------------------------------------------------------------------------
(* The answers. *)

(* A call that is left alone keeps its part of the invariant. *)
LEMMA BystanderKeeps ==
  ASSUME NEW d \in Commands, EventsOf(d), Audited(d), call'[d] = call[d],
         option' = option, d \in doubt' <=> d \in doubt, dropped \subseteq dropped',
         DOMAIN stream \subseteq DOMAIN stream', \A i \in DOMAIN stream : stream'[i] = stream[i],
         \A i \in DOMAIN stream' \ DOMAIN stream : stream'[i].cmd # d,
         \A b \in {TRUE, FALSE} : <<d, b>> \in trail' <=> <<d, b>> \in trail
  PROVE  EventsOf(d)' /\ Audited(d)'
<1>1. Mine(d)' = Mine(d)
  BY DEF Mine
<1>2. Mine(d) \subseteq DOMAIN stream
  BY DEF Mine
<1>3. Now(d)' = Now(d)
  BY <1>1, <1>2 DEF Now
<1>4. Stored(d)' <=> Stored(d)
  BY DEF Stored
<1>5. EventsOf(d)'
  BY <1>1, <1>2, <1>3, <1>4 DEF EventsOf
<1>6. Audited(d)'
  BY DEF Audited
<1> QED
  BY <1>5, <1>6

(* The entry of one command is not the entry of another. *)
LEMMA EntryFacts ==
  ASSUME NEW c, NEW d, c # d
  PROVE  /\ <<d, TRUE>> # AuditEntry(c) /\ <<d, FALSE>> # AuditEntry(c)
         /\ call[c].answer = "done" => AuditEntry(c) = <<c, TRUE>>
         /\ call[c].answer # "done" => AuditEntry(c) = <<c, FALSE>>
         /\ <<c, TRUE>> # <<c, FALSE>>
BY DEF AuditEntry

LEMMA AnswerCallMove ==
  ASSUME ShapeInv, NEW c \in Commands, EventsOf(c), Audited(c), NEW r, CallMove(c, r)
  PROVE  EventsOf(c)' /\ Audited(c)'
<1>0. /\ call'[c] = r /\ UNCHANGED <<option, stream>> /\ CallShape(call[c]) /\ CallShape(r)
      /\ doubt \subseteq doubt' /\ dropped \subseteq dropped'
  BY DEF CallMove, CallFrame, ShapeInv
<1>1. Mine(c)' = Mine(c)
  BY <1>0 DEF Mine
<1>2. r.attempt = call[c].attempt => Now(c)' = Now(c)
  BY <1>0, <1>1 DEF Now
<1>3. Now(c) \subseteq Mine(c)
  BY DEF Now
<1>4. EventsOf(c)'
  <2> USE DEF EventsOf
  <2>1. CASE Begins(c, r) \/ Rejects(c, r)
    <3>1. Mine(c) = {} /\ Mine(c)' = {} /\ Now(c)' = {}
      BY <1>1, <2>1 DEF Begins, Rejects, Now
    <3>2. ~Stored(c)'
      BY <1>0, <2>1 DEF Begins, Rejects, Stored, Leaves, Answers
    <3> QED
      BY <3>1, <3>2
  <2>2. CASE Expires(c, r) \/ Loads(c, r) \/ Reads(c, r) \/ Applies(c, r) \/ Executes(c, r)
    <3>1. r.attempt = call[c].attempt
      BY <2>2 DEF Expires, Loads, Reads, Applies, Executes, Keeps
    <3>2. Now(c)' = Now(c)
      BY <1>2, <3>1
    <3>3. CASE Expires(c, r)
      BY <1>0, <1>1, <3>2, <3>3 DEF Expires, Keeps, Stored
    <3>4. CASE Loads(c, r) \/ Reads(c, r) \/ Applies(c, r) \/ Executes(c, r)
      BY <1>0, <1>1, <3>1, <3>2, <3>4 DEF Loads, Reads, Applies, Executes, Stored
    <3> QED
      BY <2>2, <3>3, <3>4
  <2>3. CASE Retries(c, r)
    <3>1. call[c].pc = "wait" /\ r.pc = "load" /\ r.attempt = call[c].attempt + 1
      BY <2>3 DEF Retries
    <3>2. \A i \in Mine(c) : stream[i].attempt \in Nat /\ stream[i].attempt < r.attempt
      BY <1>0, <3>1 DEF CallShape
    <3>3. Now(c)' = {}
      BY <1>0, <1>1, <3>2 DEF Now
    <3>4. ~Stored(c) /\ ~Stored(c)'
      BY <1>0, <3>1 DEF Stored
    <3>5. \A i \in Mine(c)' : stream'[i].attempt \in Nat /\ stream'[i].attempt <= r.attempt
      BY <1>0, <1>1, <3>2 DEF CallShape
    <3> QED
      BY <1>0, <1>1, <3>1, <3>3, <3>4, <3>5
  <2>4. CASE Fails(c, r) \/ Panics(c, r)
    <3>1. Now(c)' = Now(c) /\ r.attempt = call[c].attempt
      BY <1>2, <2>4 DEF Fails, Panics, Keeps
    <3>2. ~Stored(c)' /\ r.pc \notin {"load", "decode", "apply", "execute", "save", "idle"}
      BY <1>0, <2>4 DEF Fails, Panics, Leaves, Answers, Stored
    <3>3. c \notin doubt' => Mine(c) = {}
      BY <1>0, <2>4 DEF Fails, Panics, Stored
    <3> QED
      BY <1>0, <1>1, <3>1, <3>2, <3>3
  <2>5. CASE Misses(c, r) \/ Notes(c, r)
    <3>1. Now(c)' = Now(c) /\ Keeps(r, call[c]) /\ call[c].pc = "audit" /\ call[c].answer \in Answers
      BY <1>0, <1>2, <2>5 DEF Misses, Notes, Keeps, CallShape
    <3>2. r.pc \in Answers
      BY <2>5, <3>1 DEF Misses, Notes, foldAuditFailure, Answers
    <3>3. c \notin doubt' => r.pc = call[c].answer
      BY <2>5 DEF Misses, Notes
    <3>4. Stored(c)' => Stored(c)
      BY <1>0, <2>5, <3>1, <3>2 DEF Stored, Misses, Notes, foldAuditFailure, Answers
    <3>5. c \notin doubt' => (Stored(c)' <=> Stored(c))
      BY <1>0, <3>1, <3>2, <3>3 DEF Stored, Answers
    <3>6. r.pc \notin {"load", "decode", "apply", "execute", "save", "idle", "crashed"}
      BY <3>2 DEF Answers
    <3> QED
      BY <1>0, <1>1, <3>1, <3>4, <3>5, <3>6 DEF Keeps
  <2>6. CASE Schedules(c, r)
    <3>1. Now(c)' = Now(c) /\ Keeps(r, call[c]) /\ Stored(c)
      BY <1>2, <2>6 DEF Schedules, Keeps, Stored
    <3>2. Stored(c)' /\ r.pc \notin {"load", "decode", "apply", "execute", "save", "idle"}
      BY <1>0, <2>6 DEF Schedules, Leaves, Answers, Stored
    <3> QED
      BY <1>0, <1>1, <3>1, <3>2 DEF Keeps
  <2> QED
    BY <2>1, <2>2, <2>3, <2>4, <2>5, <2>6 DEF CallMove
<1>5. Audited(c)'
  <2>1. CASE /\ trail' = trail
             /\ \/ Begins(c, r) \/ Rejects(c, r) \/ Retries(c, r) \/ Loads(c, r)
                \/ Reads(c, r) \/ Applies(c, r) \/ Executes(c, r)
    <3>1. <<c, TRUE>> \notin trail /\ <<c, FALSE>> \notin trail
      BY <2>1 DEF Audited, Begins, Rejects, Retries, Loads, Reads, Applies, Executes
    <3>2. r.pc \notin {"failed", "done"}
      BY <2>1 DEF Begins, Rejects, Retries, Loads, Reads, Applies, Executes, Leaves, Answers
    <3> QED
      BY <1>0, <2>1, <3>1, <3>2 DEF Audited
  <2>2. CASE trail' = trail /\ Expires(c, r)
    BY <1>0, <2>2 DEF Audited, Expires
  <2>3. CASE trail' = trail /\ (Fails(c, r) \/ Panics(c, r) \/ Schedules(c, r))
    <3>1. <<c, TRUE>> \notin trail /\ <<c, FALSE>> \notin trail
      BY <2>3 DEF Audited, Fails, Panics, Schedules
    <3>2. option.audit # "off" => r.pc # "done" /\ (r.pc = "failed" => c \in dropped')
      BY <2>3 DEF Fails, Panics, Schedules, Leaves, Answers
    <3> QED
      BY <1>0, <2>3, <3>1, <3>2 DEF Audited
  <2>4. CASE trail' = trail /\ Misses(c, r)
    <3>1. <<c, TRUE>> \notin trail /\ <<c, FALSE>> \notin trail
      BY <2>4 DEF Audited, Misses
    <3>2. c \in dropped' /\ (r.pc = "done" => option.audit # "closed")
      BY <2>4 DEF Misses, foldAuditFailure
    <3>3. option.audit \in {"off", "open", "closed"}
      BY DEF ShapeInv
    <3> QED
      BY <1>0, <2>4, <3>1, <3>2, <3>3 DEF Audited
  <2>5. CASE Notes(c, r)
    <3>1. <<c, TRUE>> \notin trail /\ <<c, FALSE>> \notin trail
      BY <2>5 DEF Audited, Notes
    <3>2. r.pc = call[c].answer /\ r.pc \in Answers /\ trail' = trail \cup {AuditEntry(c)}
      BY <1>0, <2>5 DEF Notes, CallShape
    <3>3. CASE call[c].answer = "done"
      <4>1. <<c, TRUE>> \in trail' /\ <<c, FALSE>> \notin trail'
        BY <3>1, <3>2, <3>3, EntryFacts DEF AuditEntry
      <4> QED
        BY <1>0, <3>2, <3>3, <4>1 DEF Audited
    <3>4. CASE call[c].answer # "done"
      <4>1. <<c, FALSE>> \in trail' /\ <<c, TRUE>> \notin trail'
        BY <3>1, <3>2, <3>4, EntryFacts DEF AuditEntry
      <4>2. r.pc \in {"failed", "rejected"}
        BY <3>2, <3>4 DEF Answers
      <4> QED
        BY <1>0, <4>1, <4>2 DEF Audited
    <3> QED
      BY <3>3, <3>4
  <2> QED
    BY <2>1, <2>2, <2>3, <2>4, <2>5 DEF CallMove
<1> QED
  BY <1>4, <1>5

LEMMA AnswerStoreMove ==
  ASSUME ShapeInv, NEW c \in Commands, EventsOf(c), Audited(c), NEW r, StoreMove(c, r)
  PROVE  /\ EventsOf(c)' /\ Audited(c)'
         /\ \A i \in DOMAIN stream' \ DOMAIN stream : stream'[i].cmd = c
<1>0. /\ call'[c] = r /\ UNCHANGED <<option, trail, dropped>> /\ CallShape(call[c])
      /\ doubt \subseteq doubt' /\ call[c].pc = "save" /\ call[c].version = Len(stream)
      /\ r.attempt = call[c].attempt /\ r.raised = call[c].raised
  BY DEF StoreMove, ShapeInv
<1>1. PICK n \in Nat : n = Len(stream)
  BY StoreFacts
<1>2. PICK k \in Nat : k = call[c].raised
  BY StoreFacts
<1>3. /\ DOMAIN stream = 1 .. n /\ DOMAIN stream' = 1 .. n + k
      /\ \A i \in 1 .. n : stream'[i] = stream[i]
  BY <1>1, <1>2, StoreFacts
<1>4. ASSUME NEW i \in n + 1 .. n + k PROVE stream'[i].cmd = c /\ stream'[i].attempt = call[c].attempt
  <2>1. PICK j \in 1 .. call[c].raised : stream'[i] = Batch(c)[j]
    BY <1>1, <1>2, <1>3, <1>4, StoreFacts
  <2>2. PICK e : e = prepareEventData(call[c].proc, Code[call[c].proc], Unstamped,
                                      <<c, call[c].attempt, j>>, call[c].seen)
    OBVIOUS
  <2>3. e.cmd = c /\ e.attempt = call[c].attempt
    BY <2>2 DEF prepareEventData
  <2>4. Batch(c)[j] = e
    BY <2>2, BatchFacts
  <2> QED
    BY <2>1, <2>3, <2>4
<1>5. Now(c) = {} /\ ~Stored(c) /\ (c \notin doubt => Mine(c) = {})
  BY <1>0 DEF EventsOf, Stored
<1>6. Mine(c)' = Mine(c) \cup (n + 1 .. n + k)
  BY <1>3, <1>4 DEF Mine
<1>7. Now(c)' = n + 1 .. n + k
  <2>1. \A i \in 1 .. n : stream[i].cmd = c => stream[i].attempt # call[c].attempt
    BY <1>3, <1>5 DEF Now, Mine
  <2> QED
    BY <1>0, <1>3, <1>4, <2>1 DEF Now, Mine
<1>8. \A i \in Mine(c)' : stream'[i].attempt \in Nat /\ stream'[i].attempt <= r.attempt
  BY <1>0, <1>3, <1>4 DEF EventsOf, Mine, CallShape
<1>9. ASSUME Succeeds(c, r) PROVE EventsOf(c)'
  <2>1. Stored(c)' /\ r.pc \notin {"load", "decode", "apply", "execute", "save", "idle"}
    BY <1>0, <1>9 DEF Succeeds, Stored, Leaves, Answers
  <2>2. r.version - r.raised + 1 = n + 1 /\ r.version = n + k
    BY <1>0, <1>1, <1>2, <1>9 DEF Succeeds
  <2>3. c \notin doubt' => Now(c)' = Mine(c)'
    BY <1>0, <1>5, <1>6, <1>7
  <2> QED
    BY <1>0, <1>7, <1>8, <2>1, <2>2, <2>3 DEF EventsOf
<1>10. ASSUME Unclear(c, r) PROVE EventsOf(c)'
  <2>1. c \in doubt' /\ ~Stored(c)' /\ r.pc \notin {"load", "decode", "apply", "execute", "save", "idle"}
    BY <1>0, <1>10 DEF Unclear, Stored, Leaves, Answers
  <2> QED
    BY <1>0, <1>8, <2>1 DEF EventsOf
<1>11. EventsOf(c)'
  BY <1>9, <1>10 DEF StoreMove
<1>12. Audited(c)'
  <2>1. <<c, TRUE>> \notin trail /\ <<c, FALSE>> \notin trail
    BY <1>0 DEF Audited
  <2>2. option.audit # "off" => r.pc \notin {"failed", "done"}
    BY DEF StoreMove, Succeeds, Unclear, Leaves, Answers
  <2> QED
    BY <1>0, <2>1, <2>2 DEF Audited
<1>13. \A i \in DOMAIN stream' \ DOMAIN stream : stream'[i].cmd = c
  <2>1. \A i \in DOMAIN stream' \ DOMAIN stream : i \in n + 1 .. n + k
    BY <1>3
  <2> QED
    BY <1>4, <2>1
<1> QED
  BY <1>11, <1>12, <1>13

LEMMA AnswerStep ==
  ASSUME ShapeInv, AnswerInv, [Next]_vars
  PROVE  AnswerInv'
<1>0. \A d \in Commands : EventsOf(d) /\ Audited(d)
  BY DEF AnswerInv
<1>1. ASSUME NEW c \in Commands, NEW r, CallMove(c, r) PROVE AnswerInv'
  <2>0. /\ call' = [call EXCEPT ![c] = r] /\ DOMAIN call = Commands /\ UNCHANGED <<option, stream>>
        /\ doubt \subseteq doubt' /\ doubt' \subseteq doubt \cup {c} /\ dropped \subseteq dropped'
    BY <1>1 DEF CallMove, CallFrame, ShapeInv
  <2>1. ASSUME NEW d \in Commands, d # c PROVE EventsOf(d)' /\ Audited(d)'
    <3>1. /\ <<d, TRUE>> \in trail' <=> <<d, TRUE>> \in trail
          /\ <<d, FALSE>> \in trail' <=> <<d, FALSE>> \in trail
      <4>1. trail' = trail \/ trail' = trail \cup {AuditEntry(c)}
        BY <1>1 DEF CallMove, Notes
      <4>2. <<d, TRUE>> # AuditEntry(c) /\ <<d, FALSE>> # AuditEntry(c)
        BY <2>1, EntryFacts
      <4> QED
        BY <4>1, <4>2
    <3>2. \A b \in {TRUE, FALSE} : <<d, b>> \in trail' <=> <<d, b>> \in trail
      BY <3>1
    <3>3. call'[d] = call[d] /\ (d \in doubt' <=> d \in doubt)
      BY <2>0, <2>1
    <3> QED
      BY <1>0, <2>0, <3>2, <3>3, BystanderKeeps
  <2>2. EventsOf(c)' /\ Audited(c)'
    BY <1>0, <1>1, AnswerCallMove
  <2> QED
    BY <2>1, <2>2 DEF AnswerInv
<1>2. ASSUME NEW c \in Commands, NEW r, StoreMove(c, r) PROVE AnswerInv'
  <2>0. /\ call' = [call EXCEPT ![c] = r] /\ DOMAIN call = Commands /\ UNCHANGED <<option, trail, dropped>>
        /\ doubt \subseteq doubt' /\ doubt' \subseteq doubt \cup {c}
    BY <1>2 DEF StoreMove, ShapeInv
  <2>1. /\ EventsOf(c)' /\ Audited(c)'
        /\ \A i \in DOMAIN stream' \ DOMAIN stream : stream'[i].cmd = c
    BY <1>0, <1>2, AnswerStoreMove
  <2>2. DOMAIN stream \subseteq DOMAIN stream' /\ \A i \in DOMAIN stream : stream'[i] = stream[i]
    BY <1>2, StoreFacts
  <2>3. ASSUME NEW d \in Commands, d # c PROVE EventsOf(d)' /\ Audited(d)'
    <3>1. call'[d] = call[d] /\ (d \in doubt' <=> d \in doubt)
      BY <2>0, <2>3
    <3> QED
      BY <1>0, <2>0, <2>1, <2>2, <2>3, <3>1, BystanderKeeps
  <2> QED
    BY <2>1, <2>3 DEF AnswerInv
<1>3. CASE ImportMove
  <2>0. UNCHANGED <<call, option, doubt, trail, dropped>>
    BY <1>3 DEF ImportMove, ledgers
  <2>1. PICK p \in Procs, stamp \in CallerStamps :
           /\ IsSeq(stream)' /\ DOMAIN stream = 1 .. Len(stream) /\ Len(stream) \in Nat
           /\ DOMAIN stream' = 1 .. Len(stream) + 1
           /\ \A i \in DOMAIN stream : stream'[i] = stream[i]
           /\ stream'[Len(stream) + 1] = Imported(p, stamp)
    BY <1>3, ImportFacts
  <2>2. Imported(p, stamp).cmd = Import
    BY DEF Imported, prepareEventData
  <2>3. DOMAIN stream \subseteq DOMAIN stream' /\ \A i \in DOMAIN stream' \ DOMAIN stream : stream'[i].cmd = Import
    BY <2>1, <2>2
  <2>4. ASSUME NEW d \in Commands PROVE EventsOf(d)' /\ Audited(d)'
    BY <1>0, <2>0, <2>1, <2>3, BystanderKeeps, ImportAssumption
  <2> QED
    BY <2>4 DEF AnswerInv
<1>4. CASE CrashMove
  <2>0. UNCHANGED <<stream, option, doubt, trail, dropped>>
    BY <1>4 DEF CrashMove, ledgers
  <2>1. ASSUME NEW d \in Commands PROVE EventsOf(d)' /\ Audited(d)'
    <3>1. CASE call'[d] = call[d]
      BY <1>0, <2>0, <3>1, BystanderKeeps
    <3>2. CASE InFlight(d) /\ Keeps(call'[d], call[d]) /\ call'[d].pc = "crashed"
      <4>1. Mine(d)' = Mine(d)
        BY <2>0 DEF Mine
      <4>2. ~Stored(d)'
        BY <3>2 DEF Stored
      <4>3. EventsOf(d)'
        BY <1>0, <2>0, <3>2, <4>1, <4>2 DEF EventsOf, Keeps
      <4>4. Audited(d)'
        BY <1>0, <2>0, <3>2 DEF Audited, InFlight
      <4> QED
        BY <4>3, <4>4
    <3> QED
      BY <1>4, <3>1, <3>2 DEF CrashMove
  <2> QED
    BY <2>1 DEF AnswerInv
<1>5. CASE AsideMove
  <2>0. UNCHANGED <<call, stream, option, doubt, trail, dropped>>
    BY <1>5 DEF AsideMove, ledgers
  <2>1. ASSUME NEW d \in Commands PROVE EventsOf(d)' /\ Audited(d)'
    BY <1>0, <2>0, BystanderKeeps
  <2> QED
    BY <2>1 DEF AnswerInv
<1> QED
  BY <1>1, <1>2, <1>3, <1>4, <1>5, StepMoves

-----------------------------------------------------------------------------
CommandInv == ShapeInv /\ HistoryInv /\ MessageInv /\ AnswerInv /\ StampInv

LEMMA InitCommand == Init => CommandInv
<1> SUFFICES ASSUME Init PROVE CommandInv
  OBVIOUS
<1>0. stream = <<>> /\ DOMAIN stream = {}
  BY DEF Init
<1>1. call = [c \in Commands |-> Idle] /\ Idle.pc = "idle"
  BY DEF Init, Idle
<1>2. HistoryInv
  BY <1>0, <1>1 DEF HistoryInv, DecidedOnFullHistory, LoadedHistory
<1>3. MessageInv
  BY <1>0 DEF MessageInv, Init
<1>4. ASSUME NEW c \in Commands PROVE EventsOf(c) /\ Audited(c)
  <2>1. Mine(c) = {} /\ Now(c) = {} /\ ~Stored(c)
    BY <1>0, <1>1 DEF Mine, Now, Stored
  <2>2. trail = {}
    BY DEF Init
  <2> QED
    BY <1>1, <2>1, <2>2 DEF EventsOf, Audited
<1>5. StampInv
  BY <1>0 DEF StampInv
<1> QED
  BY <1>2, <1>3, <1>4, <1>5, InitShape DEF CommandInv, AnswerInv

(***************************************************************************)
(* The five parts of the invariant hold together, always.                  *)
(***************************************************************************)
THEOREM CommandInvariant == Spec => []CommandInv
<1>1. CommandInv /\ [Next]_vars => CommandInv'
  BY ShapeStep, HistoryStep, MessageStep, AnswerStep, StampStep DEF CommandInv
<1> QED
  BY <1>1, InitCommand, PTL DEF Spec

(***************************************************************************)
(* Optimistic concurrency, end to end: between LoadAggregate and           *)
(* SaveAggregate nothing that other commands, retries, processes, crashes  *)
(* or imports do lets an event be stored that was not decided on the whole *)
(* history before it, but for events a lenient replay skipped with a       *)
(* warning and for those whose type was registered between the two looks   *)
(* of the very replay, which are dropped in silence.                       *)
(***************************************************************************)
THEOREM NoStaleDecision == Spec => []DecidedOnFullHistory
<1>1. CommandInv => DecidedOnFullHistory
  BY DEF CommandInv, HistoryInv
<1> QED
  BY <1>1, CommandInvariant, PTL

(***************************************************************************)
(* No message without its stored event.  With an OutboxAppender no stored  *)
(* event without its message either; without one an event lacks it only    *)
(* while its save is between the two steps, after its caller was told of a *)
(* failure, or when the process died there.                                *)
(***************************************************************************)
THEOREM OutboxFollowsStream == Spec => []MessagesMatchEvents
<1>1. ASSUME CommandInv PROVE MessagesMatchEvents
  <2>1. \A e : MessageOf(e)[1] = e.cmd
    BY DEF MessageOf
  <2>2. MessageInv
    BY <1>1 DEF CommandInv
  <2> QED
    BY <2>1, <2>2 DEF MessagesMatchEvents, MessageInv, Excused
<1> QED
  BY <1>1, CommandInvariant, PTL

(***************************************************************************)
(* What Dispatch answers is true of the stream, and so is the audit trail, *)
(* whatever the retry, timeout and audit middleware did in between.        *)
(***************************************************************************)
THEOREM CallersHearTheTruth == Spec => []AnswerIsTrue
<1>1. ASSUME CommandInv PROVE AnswerIsTrue
  <2>1. ASSUME NEW c \in Commands
        PROVE  LET mine == {i \in DOMAIN stream : stream[i].cmd = c}
                   told(success, pcs) == <<c, success>> \in trail \/ call[c].pc \in pcs
               IN /\ told(TRUE, {"done"}) =>
                       /\ {i \in mine : stream[i].attempt = call[c].attempt}
                            = call[c].version - call[c].raised + 1 .. call[c].version
                       /\ c \notin doubt => \A i \in mine : stream[i].attempt = call[c].attempt
                  /\ told(FALSE, {"failed", "rejected"}) /\ c \notin doubt => mine = {}
                  /\ ~({<<c, TRUE>>, <<c, FALSE>>} \subseteq trail)
                  /\ option.audit # "off" =>
                       /\ call[c].pc = "failed" => <<c, FALSE>> \in trail \/ c \in dropped
                       /\ call[c].pc = "done" => <<c, TRUE>> \in trail \/ (c \in dropped /\ option.audit = "open")
    <3>0. EventsOf(c) /\ Audited(c)
      BY <1>1 DEF CommandInv, AnswerInv
    <3>1. <<c, TRUE>> \in trail \/ call[c].pc = "done" => call[c].pc = "done" /\ Stored(c)
      BY <3>0 DEF Audited, Stored
    <3>2. <<c, FALSE>> \in trail \/ call[c].pc \in {"failed", "rejected"} =>
            call[c].pc \in {"failed", "rejected"} /\ ~Stored(c)
      BY <3>0 DEF Audited, Stored
    <3>3. ~(<<c, TRUE>> \in trail /\ <<c, FALSE>> \in trail)
      BY <3>0 DEF Audited
    <3>4. Stored(c) =>
            /\ {i \in Mine(c) : stream[i].attempt = call[c].attempt}
                 = call[c].version - call[c].raised + 1 .. call[c].version
            /\ c \notin doubt => \A i \in Mine(c) : stream[i].attempt = call[c].attempt
      BY <3>0 DEF EventsOf, Now
    <3>5. call[c].pc \in {"failed", "rejected"} /\ ~Stored(c) /\ c \notin doubt => Mine(c) = {}
      BY <3>0 DEF EventsOf
    <3>6. option.audit # "off" =>
            /\ call[c].pc = "failed" => <<c, FALSE>> \in trail \/ c \in dropped
            /\ call[c].pc = "done" => <<c, TRUE>> \in trail \/ (c \in dropped /\ option.audit = "open")
      BY <3>0 DEF Audited
    <3> QED
      BY <3>1, <3>2, <3>3, <3>4, <3>5, <3>6 DEF Mine
  <2> QED
    BY <2>1 DEF AnswerIsTrue
<1> QED
  BY <1>1, CommandInvariant, PTL

(***************************************************************************)
(* applySchemaVersionPolicy and Upcast fit together: whatever stamp a      *)
(* caller asked for, an event stored by a process with its whole chain is  *)
(* decoded to its own form by every process at least as new.               *)
(***************************************************************************)
THEOREM StoredFormsDecode == Spec => []DecodesRight
<1>1. ASSUME CommandInv PROVE DecodesRight
  <2>1. ASSUME NEW p \in Procs, NEW i \in DOMAIN stream,
               chain[p] = Upcasters(p), stream[i].complete, Code[stream[i].by] <= Code[p]
        PROVE  LET v == GetSchemaVersion(stream[i].stamp)
               IN NoGap(chain[p], v) /\ Upcast(chain[p], v, stream[i].form) = Code[p]
    <3>1. PICK v : v = GetSchemaVersion(stream[i].stamp)
      OBVIOUS
    <3>2. PICK n : n = Code[p]
      OBVIOUS
    <3>3. stream[i].by \in Procs /\ stream[i].form = v /\ v \in 1 .. Code[stream[i].by]
      BY <1>1, <2>1, <3>1 DEF CommandInv, StampInv
    <3>4. n \in Nat \ {0} /\ v \in 1 .. n
      BY <2>1, <3>2, <3>3, CodeAssumption
    <3>5. chain[p] = 1 .. n - 1
      BY <2>1, <3>2 DEF Upcasters
    <3>6. Due(chain[p], v) = v .. n - 1
      BY <3>4, <3>5 DEF Due
    <3>7. NoGap(chain[p], v)
      BY <3>4, <3>5, <3>6 DEF NoGap
    <3>8. CASE v = n
      BY <3>1, <3>2, <3>3, <3>4, <3>6, <3>7, <3>8 DEF Upcast
    <3>9. CASE v < n
      <4>1. n - 1 \in v .. n - 1 /\ \A w \in v .. n - 1 : w <= n - 1
        BY <3>4, <3>9
      <4>2. Highest(v .. n - 1) \in v .. n - 1 /\ \A w \in v .. n - 1 : w <= Highest(v .. n - 1)
        BY <4>1, Zenon DEF Highest
      <4>3. Highest(v .. n - 1) = n - 1
        BY <3>4, <4>1, <4>2
      <4>4. Upcast(chain[p], v, v) = n - 1 + 1
        BY <3>6, <4>1, <4>3 DEF Upcast
      <4>5. n - 1 + 1 = n
        BY <3>4
      <4> QED
        BY <3>1, <3>2, <3>3, <3>7, <4>4, <4>5
    <3> QED
      BY <3>4, <3>8, <3>9
  <2> QED
    BY <2>1 DEF DecodesRight
<1> QED
  BY <1>1, CommandInvariant, PTL

-----------------------------------------------------------------------------
(***************************************************************************)
(* The live projections.  What the worker was or will be given is one      *)
(* sequence, Flow: a delivery leaves it as it is and a send appends to it. *)
(* Its elements are kept apart by who appended them: the events of one     *)
(* notifier are in append order, in Flow and after Flow in its hands, so   *)
(* no event can be there twice.                                            *)
(***************************************************************************)
Flow == taken \o channel
Waiting == UNION {Range(todo[n]) : n \in Notifiers}

LiveTypes ==
  /\ next \in Nat \ {0}
  /\ taken \in Seq(Nat) /\ channel \in Seq(Nat)
  /\ todo \in [Notifiers -> Seq(Nat)]
  /\ step \in [Notifiers -> {"idle", "inline", "notify", "turn", "send"}]
  /\ cell \in [Notifiers -> (Nat \ {0}) \X (Nat \ {0})]
  /\ owner \in Seq([by : Notifiers, first : Nat]) /\ Len(owner) = next - 1

(* Nothing vanishes, and what was dropped, with or without a word, is      *)
(* neither on its way nor in anybody's hands.                              *)
PlacedInv ==
  /\ 1 .. next - 1 = Range(taken) \cup Range(channel) \cup Waiting \cup lost \cup silent
  /\ (lost \cup silent) \cap (Range(taken) \cup Range(channel) \cup Waiting) = {}
  /\ lost \cap silent = {}

(* A notifier has events of its own in hand, in append order; an idle one has none. *)
HandsInv ==
  \A n \in Notifiers :
    /\ step[n] = "idle" => todo[n] = <<>>
    /\ \A i \in 1 .. Len(todo[n]) : owner[todo[n][i]].by = n
    /\ \A i, j \in 1 .. Len(todo[n]) : i < j => todo[n][i] < todo[n][j]

(* Events of one notifier are in append order. *)
FlowInv ==
  /\ \A i, j \in 1 .. Len(Flow) : i < j /\ owner[Flow[i]].by = owner[Flow[j]].by => Flow[i] < Flow[j]
  /\ \A n \in Notifiers : \A i \in 1 .. Len(Flow), j \in 1 .. Len(todo[n]) :
       owner[Flow[i]].by = n => Flow[i] < todo[n][j]

(* A batch in the inline projections is whole, its events are consecutive, *)
(* and the projections before the cell whose turn it is have it applied.   *)
CellInv ==
  \A n \in Notifiers :
    /\ Inline > 0 => cell[n][2] <= Inline
    /\ step[n] # "inline" => cell[n] = <<1, 1>>
    /\ step[n] = "inline" =>
         /\ \A j \in 1 .. Len(todo[n]) :
              todo[n][j] = todo[n][1] + (j - 1) /\ owner[todo[n][j]].first = todo[n][1]
         /\ \A j \in 1 .. Len(todo[n]), q \in InlineProjections :
              j < cell[n][1] \/ (j = cell[n][1] /\ q < cell[n][2]) => todo[n][j] \in applied[q]

AppliedInv ==
  /\ applied \in [InlineProjections -> SUBSET (1 .. next - 1)]
  /\ \A p \in InlineProjections :
       /\ p > 1 => applied[p] \subseteq applied[p - 1]
       /\ \A e \in applied[p] : owner[e].first .. e \subseteq applied[Inline] \cup {e}

LiveInv == LiveTypes /\ PlacedInv /\ HandsInv /\ FlowInv /\ CellInv /\ AppliedInv

-----------------------------------------------------------------------------
(* Sequences of positions. *)

LEMMA PartFacts ==
  ASSUME NEW t \in Seq(Nat), t # <<>>
  PROVE  /\ Head(t) \in Nat /\ Head(t) = t[1] /\ Tail(t) \in Seq(Nat) /\ Len(t) \in Nat \ {0}
         /\ Len(Tail(t)) = Len(t) - 1 /\ \A i \in 1 .. Len(t) - 1 : Tail(t)[i] = t[i + 1]
         /\ Range(t) = {Head(t)} \cup Range(Tail(t))
<1>1. /\ Head(t) \in Nat /\ Head(t) = t[1] /\ Tail(t) \in Seq(Nat) /\ Len(t) \in Nat \ {0}
      /\ Len(Tail(t)) = Len(t) - 1 /\ \A i \in 1 .. Len(t) - 1 : Tail(t)[i] = t[i + 1]
  OBVIOUS
<1>2. PICK n \in Nat : n = Len(t) /\ DOMAIN t = 1 .. n /\ DOMAIN Tail(t) = 1 .. n - 1
  <2>1. DOMAIN Tail(t) = 1 .. Len(Tail(t))
    BY <1>1
  <2>2. DOMAIN t = 1 .. Len(t)
    OBVIOUS
  <2>3. DOMAIN Tail(t) = 1 .. Len(t) - 1
    BY <1>1, <2>1
  <2> QED
    BY <1>1, <2>2, <2>3, Zenon
<1>3. ASSUME NEW i \in 1 .. n PROVE t[i] \in {Head(t)} \cup Range(Tail(t))
  <2>1. CASE i = 1
    BY <1>1, <2>1
  <2>2. CASE i # 1
    <3>1. i - 1 \in 1 .. n - 1 /\ (i - 1) + 1 = i
      BY <2>2
    <3>2. Tail(t)[i - 1] = t[i]
      BY <1>1, <1>2, <3>1
    <3> QED
      BY <1>2, <3>1, <3>2, Zenon DEF Range
  <2> QED
    BY <2>1, <2>2
<1>4. ASSUME NEW i \in 1 .. n - 1 PROVE Tail(t)[i] \in Range(t)
  <2>1. Tail(t)[i] = t[i + 1] /\ i + 1 \in 1 .. n
    BY <1>1, <1>2
  <2> QED
    BY <1>2, <2>1, Zenon DEF Range
<1>5. Head(t) \in Range(t)
  <2>1. 1 \in 1 .. n
    BY <1>1, <1>2
  <2> QED
    BY <1>1, <1>2, <2>1, Zenon DEF Range
<1>6. Range(t) = {Head(t)} \cup Range(Tail(t))
  BY <1>2, <1>3, <1>4, <1>5, Zenon DEF Range
<1> QED
  BY <1>1, <1>6

LEMMA GrownFacts ==
  ASSUME NEW t \in Seq(Nat), NEW e \in Nat
  PROVE  /\ Append(t, e) \in Seq(Nat) /\ Len(Append(t, e)) = Len(t) + 1 /\ Len(t) \in Nat
         /\ \A i \in 1 .. Len(t) : Append(t, e)[i] = t[i]
         /\ Append(t, e)[Len(t) + 1] = e
         /\ Range(Append(t, e)) = Range(t) \cup {e}
<1>1. /\ Append(t, e) \in Seq(Nat) /\ Len(Append(t, e)) = Len(t) + 1 /\ Len(t) \in Nat
      /\ \A i \in 1 .. Len(t) : Append(t, e)[i] = t[i]
      /\ Append(t, e)[Len(t) + 1] = e
  OBVIOUS
<1>2. PICK n \in Nat : n = Len(t) /\ DOMAIN t = 1 .. n /\ DOMAIN Append(t, e) = 1 .. n + 1
  BY <1>1
<1>3. 1 .. n + 1 = (1 .. n) \cup {n + 1}
  OBVIOUS
<1>4. Range(Append(t, e)) = {Append(t, e)[i] : i \in 1 .. n} \cup {Append(t, e)[n + 1]}
  BY <1>2, <1>3, Zenon DEF Range
<1>5. {Append(t, e)[i] : i \in 1 .. n} = Range(t)
  BY <1>1, <1>2, Zenon DEF Range
<1>6. Range(Append(t, e)) = Range(t) \cup {e}
  BY <1>1, <1>2, <1>4, <1>5, Zenon
<1> QED
  BY <1>1, <1>6

LEMMA FlowAssoc ==
  ASSUME NEW s \in Seq(Nat), NEW t \in Seq(Nat), NEW u \in Seq(Nat)
  PROVE  (s \o t) \o u = s \o (t \o u)
BY ConcatAssociative

LEMMA FlowFacts ==
  ASSUME NEW s \in Seq(Nat), NEW t \in Seq(Nat)
  PROVE  /\ s \o t \in Seq(Nat) /\ Len(s \o t) = Len(s) + Len(t) /\ Len(s) \in Nat /\ Len(t) \in Nat
         /\ \A i \in 1 .. Len(s) : (s \o t)[i] = s[i]
         /\ Range(s \o t) = Range(s) \cup Range(t)
<1>1. /\ s \o t \in Seq(Nat) /\ Len(s \o t) = Len(s) + Len(t) /\ Len(s) \in Nat /\ Len(t) \in Nat
      /\ \A i \in 1 .. Len(s) : (s \o t)[i] = s[i]
  OBVIOUS
<1>2. Range(s \o t) = Range(s) \cup Range(t)
  BY RangeConcatenation
<1> QED
  BY <1>1, <1>2

(* Taking the head of the channel leaves the flow as it is. *)
LEMMA TakenFlow ==
  ASSUME NEW s \in Seq(Nat), NEW t \in Seq(Nat), t # <<>>
  PROVE  Append(s, Head(t)) \o Tail(t) = s \o t
<1>1. Head(t) \in Nat /\ Tail(t) \in Seq(Nat) /\ <<Head(t)>> \in Seq(Nat)
  OBVIOUS
<1>2. Append(s, Head(t)) = s \o <<Head(t)>>
  BY <1>1, AppendIsConcat, Zenon
<1>3. (s \o <<Head(t)>>) \o Tail(t) = s \o (<<Head(t)>> \o Tail(t))
  BY <1>1, FlowAssoc, Zenon
<1>4. t = <<Head(t)>> \o Tail(t)
  OBVIOUS
<1> QED
  BY <1>2, <1>3, <1>4

LEMMA SentFlow ==
  ASSUME NEW s \in Seq(Nat), NEW t \in Seq(Nat), NEW e \in Nat
  PROVE  s \o Append(t, e) = Append(s \o t, e)
<1>1. <<e>> \in Seq(Nat) /\ s \o t \in Seq(Nat)
  OBVIOUS
<1>2. Append(t, e) = t \o <<e>> /\ Append(s \o t, e) = (s \o t) \o <<e>>
  BY <1>1, AppendIsConcat, Zenon
<1>3. (s \o t) \o <<e>> = s \o (t \o <<e>>)
  BY <1>1, FlowAssoc, Zenon
<1> QED
  BY <1>2, <1>3, Zenon

-----------------------------------------------------------------------------
(* What the actions do to the events. *)

Increases(x) == \A i, j \in 1 .. Len(x) : i < j => x[i] < x[j]

(* Notifier n keeps x of what it had in hand; S is logged, T is not. *)
Losing(n, x, S, T) ==
  /\ step[n] # "inline"
  /\ x \in Seq(Nat) /\ Increases(x) /\ Range(todo[n]) = Range(x) \cup S \cup T
  /\ Range(x) \cap (S \cup T) = {} /\ S \cap T = {}
  /\ lost' = lost \cup S /\ silent' = silent \cup T /\ todo' = [todo EXCEPT ![n] = x]
  /\ \E l \in {"idle", "turn"} : step' = [step EXCEPT ![n] = l] /\ (l = "idle" => x = <<>>)
  /\ UNCHANGED <<next, owner, applied, cell, taken, channel>>

Dropping(n) == \E x, S, T : Losing(n, x, S, T)

Moving(n) ==
  /\ \E l \in {"notify", "turn", "send", "idle"} :
       step' = [step EXCEPT ![n] = l] /\ (l = "idle" => todo[n] = <<>>)
  /\ cell' = [cell EXCEPT ![n] = <<1, 1>>]
  /\ UNCHANGED <<next, owner, applied, todo, lost, silent, taken, channel>>

Resting == UNCHANGED <<next, owner, applied, cell, todo, step, lost, silent, taken, channel>>

LEMMA GiveUpLoses ==
  ASSUME NEW n \in Notifiers, NEW S, GiveUp(n, S), S \subseteq Range(todo[n]), step[n] # "inline",
         UNCHANGED <<next, owner, applied, cell, taken, channel>>
  PROVE  Losing(n, <<>>, S, Range(todo[n]) \ S)
<1>1. <<>> \in Seq(Nat) /\ Increases(<<>>) /\ Range(<<>>) = {}
  BY DEF Increases, Range
<1>2. /\ lost' = lost \cup S /\ silent' = silent \cup (Range(todo[n]) \ S) /\ todo' = [todo EXCEPT ![n] = <<>>]
      /\ step' = [step EXCEPT ![n] = "idle"]
  BY DEF GiveUp, At
<1>3. /\ Range(todo[n]) = Range(<<>>) \cup S \cup (Range(todo[n]) \ S)
      /\ Range(<<>>) \cap (S \cup (Range(todo[n]) \ S)) = {} /\ S \cap (Range(todo[n]) \ S) = {}
  BY <1>1, Zenon
<1> QED
  BY <1>1, <1>2, <1>3, Zenon DEF Losing

(* What is left of a hand when one event is taken out of it. *)
LEMMA RemoveFacts ==
  ASSUME NEW s \in Seq(Nat), Increases(s), NEW i \in 1 .. Len(s)
  PROVE  /\ RemoveAt(s, i) \in Seq(Nat) /\ Increases(RemoveAt(s, i))
         /\ Range(s) = Range(RemoveAt(s, i)) \cup {s[i]} /\ s[i] \notin Range(RemoveAt(s, i))
<1>1. PICK n \in Nat : n = Len(s) /\ i \in 1 .. n
  OBVIOUS
<1>2. PICK a : /\ a = SubSeq(s, 1, i - 1) /\ a \in Seq(Nat) /\ Len(a) = i - 1
               /\ \A j \in 1 .. i - 1 : a[j] = s[j]
  <2>1. i - 1 \in Int /\ 1 \in Int /\ \A j \in 1 .. i - 1 : s[j] \in Nat
    BY <1>1
  <2>2. /\ SubSeq(s, 1, i - 1) \in Seq(Nat)
        /\ Len(SubSeq(s, 1, i - 1)) = IF 1 <= i - 1 THEN (i - 1) - 1 + 1 ELSE 0
        /\ \A j \in 1 .. (i - 1) - 1 + 1 : SubSeq(s, 1, i - 1)[j] = s[1 + j - 1]
    BY <2>1, SubSeqProperties
  <2>3. PICK a : a = SubSeq(s, 1, i - 1)
    OBVIOUS
  <2>4. Len(a) = i - 1 /\ \A j \in 1 .. i - 1 : a[j] = s[j]
    <3>1. (i - 1) - 1 + 1 = i - 1 /\ (IF 1 <= i - 1 THEN i - 1 ELSE 0) = i - 1 /\ \A j \in 1 .. i - 1 : 1 + j - 1 = j
      BY <1>1
    <3> QED
      BY <2>2, <2>3, <3>1
  <2> QED
    BY <2>2, <2>3, <2>4
<1>3. PICK b : /\ b = SubSeq(s, i + 1, n) /\ b \in Seq(Nat) /\ Len(b) = n - i
               /\ \A j \in 1 .. n - i : b[j] = s[i + j]
  <2>1. i + 1 \in Int /\ n \in Int /\ \A j \in i + 1 .. n : s[j] \in Nat
    BY <1>1
  <2>2. /\ SubSeq(s, i + 1, n) \in Seq(Nat)
        /\ Len(SubSeq(s, i + 1, n)) = IF i + 1 <= n THEN n - (i + 1) + 1 ELSE 0
        /\ \A j \in 1 .. n - (i + 1) + 1 : SubSeq(s, i + 1, n)[j] = s[(i + 1) + j - 1]
    BY <2>1, SubSeqProperties
  <2>3. PICK b : b = SubSeq(s, i + 1, n)
    OBVIOUS
  <2>4. Len(b) = n - i /\ \A j \in 1 .. n - i : b[j] = s[i + j]
    <3>1. /\ n - (i + 1) + 1 = n - i /\ (IF i + 1 <= n THEN n - i ELSE 0) = n - i
          /\ \A j \in 1 .. n - i : (i + 1) + j - 1 = i + j
      BY <1>1
    <3> QED
      BY <2>2, <2>3, <3>1
  <2> QED
    BY <2>2, <2>3, <2>4
<1>x. PICK x : x = a \o b /\ x = RemoveAt(s, i)
  BY <1>1, <1>2, <1>3 DEF RemoveAt
<1>4. /\ x \in Seq(Nat) /\ Len(x) = n - 1
      /\ \A j \in 1 .. n - 1 : x[j] = IF j < i THEN s[j] ELSE s[j + 1]
  <2>0. /\ a \o b \in Seq(Nat) /\ Len(a \o b) = Len(a) + Len(b)
        /\ \A j \in 1 .. Len(a) + Len(b) : (a \o b)[j] = IF j <= Len(a) THEN a[j] ELSE b[j - Len(a)]
    <3>1. a \in Seq(Nat) /\ b \in Seq(Nat)
      BY <1>2, <1>3
    <3> QED
      BY <3>1, ConcatProperties
  <2>p. Len(a) + Len(b) = n - 1
    <3>1. (i - 1) + (n - i) = n - 1
      BY <1>1
    <3>2. Len(a) = i - 1 /\ Len(b) = n - i
      BY <1>2, <1>3
    <3> QED
      BY <3>1, <3>2
  <2>1. x \in Seq(Nat) /\ Len(x) = n - 1
    BY <1>x, <2>0, <2>p
  <2>2. \A j \in 1 .. n - 1 : x[j] = IF j <= i - 1 THEN a[j] ELSE b[j - (i - 1)]
    BY <1>2, <1>x, <2>0, <2>p
  <2>3. ASSUME NEW j \in 1 .. n - 1 PROVE x[j] = IF j < i THEN s[j] ELSE s[j + 1]
    <3>1. CASE j < i
      <4>1. j \in 1 .. i - 1 /\ j <= i - 1
        BY <1>1, <3>1
      <4> QED
        BY <1>2, <2>2, <3>1, <4>1
    <3>2. CASE ~ (j < i)
      <4>1. j - (i - 1) \in 1 .. n - i /\ ~ (j <= i - 1) /\ i + (j - (i - 1)) = j + 1
        BY <1>1, <3>2
      <4>2. x[j] = b[j - (i - 1)] /\ b[j - (i - 1)] = s[i + (j - (i - 1))]
        BY <1>3, <2>2, <4>1
      <4> QED
        BY <3>2, <4>1, <4>2
    <3> QED
      BY <3>1, <3>2
  <2> QED
    BY <2>1, <2>3
<1>5. DOMAIN s = 1 .. n /\ DOMAIN x = 1 .. n - 1
  BY <1>1, <1>4
<1>6. Increases(x)
  <2> SUFFICES ASSUME NEW j \in 1 .. n - 1, NEW k \in 1 .. n - 1, j < k PROVE x[j] < x[k]
    BY <1>4 DEF Increases
  <2>1. PICK p \in 1 .. n : x[j] = s[p] /\ p = IF j < i THEN j ELSE j + 1
    <3>1. (IF j < i THEN j ELSE j + 1) \in 1 .. n
      BY <1>1
    <3>2. x[j] = s[IF j < i THEN j ELSE j + 1]
      BY <1>4
    <3> QED
      BY <3>1, <3>2
  <2>2. PICK q \in 1 .. n : x[k] = s[q] /\ q = IF k < i THEN k ELSE k + 1
    <3>1. (IF k < i THEN k ELSE k + 1) \in 1 .. n
      BY <1>1
    <3>2. x[k] = s[IF k < i THEN k ELSE k + 1]
      BY <1>4
    <3> QED
      BY <3>1, <3>2
  <2>3. p < q
    BY <1>1, <2>1, <2>2
  <2> QED
    BY <1>1, <2>1, <2>2, <2>3 DEF Increases
<1>7. s[i] \notin Range(x)
  <2> SUFFICES ASSUME NEW j \in 1 .. n - 1 PROVE x[j] # s[i]
    BY <1>5, Zenon DEF Range
  <2>1. PICK p \in 1 .. n : x[j] = s[p] /\ p = IF j < i THEN j ELSE j + 1
    <3>1. (IF j < i THEN j ELSE j + 1) \in 1 .. n
      BY <1>1
    <3>2. x[j] = s[IF j < i THEN j ELSE j + 1]
      BY <1>4
    <3> QED
      BY <3>1, <3>2
  <2>2. p < i \/ i < p
    BY <1>1, <2>1
  <2>3. s[p] < s[i] \/ s[i] < s[p]
    BY <1>1, <2>1, <2>2 DEF Increases
  <2>4. s[p] \in Nat /\ s[i] \in Nat
    BY <1>1
  <2> QED
    BY <2>1, <2>3, <2>4
<1>8. Range(s) = Range(x) \cup {s[i]}
  <2>1. ASSUME NEW j \in 1 .. n PROVE s[j] \in Range(x) \cup {s[i]}
    <3>1. CASE j < i
      <4>1. j \in 1 .. n - 1 /\ x[j] = s[j]
        BY <1>1, <1>4, <3>1
      <4> QED
        BY <1>5, <4>1, Zenon DEF Range
    <3>2. CASE i < j
      <4>1. j - 1 \in 1 .. n - 1 /\ x[j - 1] = s[j]
        BY <1>1, <1>4, <3>2
      <4> QED
        BY <1>5, <4>1, Zenon DEF Range
    <3>3. CASE j = i
      BY <3>3
    <3> QED
      BY <1>1, <3>1, <3>2, <3>3
  <2>2. ASSUME NEW j \in 1 .. n - 1 PROVE x[j] \in Range(s)
    <3>1. PICK p \in 1 .. n : x[j] = s[p]
      <4>1. j \in 1 .. n /\ j + 1 \in 1 .. n
        BY <1>1
      <4> QED
        BY <1>1, <1>4, <4>1
    <3> QED
      BY <1>5, <3>1, Zenon DEF Range
  <2>3. s[i] \in Range(s)
    BY <1>1, <1>5, Zenon DEF Range
  <2> QED
    BY <1>5, <2>1, <2>2, <2>3, Zenon DEF Range
<1> QED
  BY <1>x, <1>4, <1>6, <1>7, <1>8

LEMMA LiveMoves ==
  ASSUME LiveTypes, CellInv, HandsInv, [LiveNext]_liveVars
  PROVE  \/ Resting
         \/ \E g \in Goroutines : Receive(g)
         \/ \E n \in Notifiers : \/ \E k \in 1 .. 2 : AppendBatch(n, k)
                                \/ ApplyInline(n) \/ Send(n) \/ Dropping(n) \/ Moving(n)
<1>1. CASE UNCHANGED liveVars
  BY <1>1 DEF liveVars, Resting
<1>2. ASSUME NEW g \in Goroutines,
             RunLiveWorker(g) \/ Deliver(g) \/ StopSeen(g) \/ Drained(g) \/ Aborted(g) \/ Abort(g)
      PROVE  Resting
  BY <1>2 DEF RunLiveWorker, Deliver, StopSeen, Drained, Aborted, Abort, Notifying, batch, drops, Resting
<1>3. CASE Start \/ Stop \/ StopReturns \/ StopTimesOut \/ Pause \/ Resume \/ Unregister
  BY <1>3 DEF Start, Stop, StopReturns, StopTimesOut, Pause, Resume, Unregister, Notifying, batch, drops, Resting
<1>4. ASSUME NEW n \in Notifiers, InlineFails(n) \/ InlineDone(n) PROVE Moving(n)
  BY <1>4 DEF InlineFails, InlineDone, At, Moving, live, drops
<1>5. ASSUME NEW n \in Notifiers, step[n] # "inline", UNCHANGED cell PROVE cell' = [cell EXCEPT ![n] = <<1, 1>>]
  BY <1>5 DEF CellInv, LiveTypes
<1>6. ASSUME NEW n \in Notifiers, NotifyReturns(n) PROVE Moving(n)
  <2>1. cell' = [cell EXCEPT ![n] = <<1, 1>>]
    BY <1>5, <1>6 DEF NotifyReturns, batch
  <2> QED
    BY <1>6, <2>1 DEF NotifyReturns, At, Moving, live, batch, drops
<1>7. ASSUME NEW n \in Notifiers, NotifyLive(n) PROVE Moving(n) \/ Dropping(n)
  <2>1. step[n] = "notify" /\ UNCHANGED <<next, owner, applied, cell, taken, channel>>
    BY <1>7 DEF NotifyLive, live, batch
  <2>2. CASE registered
    <3>1. cell' = [cell EXCEPT ![n] = <<1, 1>>]
      BY <1>5, <2>1
    <3> QED
      BY <1>7, <2>1, <2>2, <3>1 DEF NotifyLive, At, Moving
  <2>3. CASE ~ registered
    BY <1>7, <2>1, <2>3, GiveUpLoses DEF NotifyLive, Dropping
  <2> QED
    BY <2>2, <2>3
<1>8. ASSUME NEW n \in Notifiers, Turn(n) PROVE Moving(n) \/ Dropping(n)
  <2>1. step[n] = "turn" /\ UNCHANGED <<next, owner, applied, cell, taken, channel>>
    BY <1>8 DEF Turn, live, batch
  <2>2. CASE state = "running"
    <3>1. cell' = [cell EXCEPT ![n] = <<1, 1>>]
      BY <1>5, <2>1
    <3> QED
      BY <1>8, <2>1, <2>2, <3>1 DEF Turn, At, Moving
  <2>3. CASE state # "running"
    BY <1>8, <2>1, <2>3, GiveUpLoses DEF Turn, Dropping
  <2> QED
    BY <2>2, <2>3
<1>9. ASSUME NEW n \in Notifiers, TurnMissed(n) \/ SendBreaks(n) PROVE Dropping(n)
  <2>1. step[n] # "inline" /\ UNCHANGED <<next, owner, applied, cell, taken, channel>> /\ GiveUp(n, {})
    BY <1>9 DEF TurnMissed, SendBreaks, live, batch
  <2> QED
    BY <2>1, GiveUpLoses DEF Dropping
<1>10. ASSUME NEW n \in Notifiers, SendCancelled(n) PROVE Dropping(n)
  <2>1. /\ step[n] # "inline" /\ UNCHANGED <<next, owner, applied, cell, taken, channel>> /\ GiveUp(n, {Head(todo[n])})
        /\ todo[n] # <<>> /\ todo[n] \in Seq(Nat)
    BY <1>10 DEF SendCancelled, live, batch, LiveTypes
  <2>2. {Head(todo[n])} \subseteq Range(todo[n])
    BY <2>1, PartFacts
  <2> QED
    BY <2>1, <2>2, GiveUpLoses DEF Dropping
<1>11. ASSUME NEW n \in Notifiers, DecryptFails(n) PROVE Dropping(n)
  <2>1. /\ step[n] = "turn" /\ UNCHANGED <<next, owner, applied, cell, taken, channel, step, silent>>
        /\ todo[n] \in Seq(Nat) /\ Increases(todo[n])
    BY <1>11 DEF DecryptFails, live, batch, LiveTypes, HandsInv, Increases
  <2>2. PICK i \in DOMAIN todo[n] : /\ lost' = lost \cup {todo[n][i]}
                                   /\ todo' = [todo EXCEPT ![n] = RemoveAt(todo[n], i)]
    BY <1>11 DEF DecryptFails, LiveTypes
  <2>3. i \in 1 .. Len(todo[n])
    BY <2>1, <2>2
  <2>4. PICK x, e : x = RemoveAt(todo[n], i) /\ e = todo[n][i]
    OBVIOUS
  <2>5. /\ x \in Seq(Nat) /\ Increases(x)
        /\ Range(todo[n]) = Range(x) \cup {e} /\ e \notin Range(x)
    BY <2>1, <2>3, <2>4, RemoveFacts
  <2>6. step' = [step EXCEPT ![n] = "turn"]
    BY <2>1 DEF LiveTypes
  <2>7. silent' = silent \cup {} /\ Range(todo[n]) = Range(x) \cup {e} \cup {} /\ Range(x) \cap ({e} \cup {}) = {}
    BY <2>1, <2>5
  <2> QED
    <3>1. Losing(n, x, {e}, {})
      BY <2>1, <2>2, <2>4, <2>5, <2>6, <2>7, Zenon DEF Losing
    <3> QED
      BY <3>1 DEF Dropping
<1>12. ASSUME NEW n \in Notifiers, Cancel(n) PROVE Resting
  BY <1>12 DEF Cancel, Resting, live, batch, drops
<1>13. ASSUME NEW n \in Notifiers, Notifier(n)
      PROVE  \/ Resting
             \/ \E k \in 1 .. 2 : AppendBatch(n, k)
             \/ ApplyInline(n) \/ Send(n) \/ Dropping(n) \/ Moving(n)
  BY <1>4, <1>6, <1>7, <1>8, <1>9, <1>10, <1>11, <1>12, <1>13, Zenon DEF Notifier
<1> QED
  BY <1>1, <1>2, <1>3, <1>13, Zenon DEF LiveNext, Worker

-----------------------------------------------------------------------------
(* The steps. *)

LEMMA FlowTypes ==
  ASSUME LiveTypes
  PROVE  /\ Flow \in Seq(Nat) /\ Len(Flow) = Len(taken) + Len(channel) /\ Len(Flow) \in Nat
         /\ Len(taken) \in Nat /\ Len(channel) \in Nat /\ DOMAIN Flow = 1 .. Len(Flow)
         /\ \A i \in 1 .. Len(taken) : Flow[i] = taken[i]
         /\ Range(Flow) = Range(taken) \cup Range(channel)
<1>1. taken \in Seq(Nat) /\ channel \in Seq(Nat)
  BY DEF LiveTypes
<1>2. /\ Flow \in Seq(Nat) /\ Len(Flow) = Len(taken) + Len(channel) /\ Len(taken) \in Nat /\ Len(channel) \in Nat
      /\ \A i \in 1 .. Len(taken) : Flow[i] = taken[i]
      /\ Range(Flow) = Range(taken) \cup Range(channel)
  BY <1>1, FlowFacts DEF Flow
<1>3. DOMAIN Flow = 1 .. Len(Flow)
  BY <1>2
<1> QED
  BY <1>2, <1>3

LEMMA HandTypes ==
  ASSUME LiveTypes, NEW n \in Notifiers
  PROVE  todo[n] \in Seq(Nat) /\ Len(todo[n]) \in Nat /\ DOMAIN todo[n] = 1 .. Len(todo[n])
<1>1. todo[n] \in Seq(Nat)
  BY DEF LiveTypes
<1> QED
  BY <1>1

(* Whatever is on its way or in hand is a position that was appended. *)
LEMMA KnownPositions ==
  ASSUME LiveTypes, PlacedInv
  PROVE  /\ \A i \in 1 .. Len(Flow) : Flow[i] \in 1 .. next - 1
         /\ \A n \in Notifiers : \A j \in 1 .. Len(todo[n]) : todo[n][j] \in 1 .. next - 1
<1>1. ASSUME NEW i \in 1 .. Len(Flow) PROVE Flow[i] \in 1 .. next - 1
  <2>1. Flow[i] \in Range(Flow)
    BY FlowTypes, Zenon DEF Range
  <2> QED
    BY <2>1, FlowTypes, Zenon DEF PlacedInv
<1>2. ASSUME NEW n \in Notifiers, NEW j \in 1 .. Len(todo[n]) PROVE todo[n][j] \in 1 .. next - 1
  <2>1. todo[n][j] \in Range(todo[n])
    BY HandTypes, Zenon DEF Range
  <2> QED
    BY <2>1, Zenon DEF PlacedInv, Waiting
<1> QED
  BY <1>1, <1>2

(* What a notifier has in hand nobody else has, and it is not on its way. *)
LEMMA HandsApart ==
  ASSUME LiveTypes, HandsInv, FlowInv, PlacedInv, NEW n \in Notifiers, NEW e \in Range(todo[n])
  PROVE  e \notin Range(Flow) /\ \A m \in Notifiers \ {n} : e \notin Range(todo[m])
<1>1. PICK j \in 1 .. Len(todo[n]) : e = todo[n][j]
  BY HandTypes, Zenon DEF Range
<1>2. owner[e].by = n /\ e \in 1 .. next - 1 /\ next \in Nat
  BY <1>1, KnownPositions DEF HandsInv, LiveTypes
<1>3. ASSUME e \in Range(Flow) PROVE FALSE
  <2>1. PICK i \in 1 .. Len(Flow) : e = Flow[i]
    BY <1>3, FlowTypes, Zenon DEF Range
  <2>2. Flow[i] < todo[n][j]
    BY <1>1, <1>2, <2>1 DEF FlowInv
  <2> QED
    BY <1>1, <1>2, <2>1, <2>2
<1>4. ASSUME NEW m \in Notifiers \ {n}, e \in Range(todo[m]) PROVE FALSE
  <2>1. PICK k \in 1 .. Len(todo[m]) : e = todo[m][k]
    BY <1>4, HandTypes, Zenon DEF Range
  <2>2. owner[e].by = m
    BY <2>1 DEF HandsInv
  <2> QED
    BY <1>2, <2>2
<1> QED
  BY <1>3, <1>4

(* What the others have in hand stays when one notifier's hand changes. *)
LEMMA HandChanges ==
  ASSUME LiveTypes, NEW n \in Notifiers, NEW x, todo' = [todo EXCEPT ![n] = x]
  PROVE  \E others :
           /\ Waiting = Range(todo[n]) \cup others /\ Waiting' = Range(x) \cup others
           /\ others = UNION {Range(todo[m]) : m \in Notifiers \ {n}}
<1>1. todo'[n] = x /\ \A m \in Notifiers \ {n} : todo'[m] = todo[m]
  BY DEF LiveTypes
<1>2. PICK others : others = UNION {Range(todo[m]) : m \in Notifiers \ {n}}
  OBVIOUS
<1>3. Waiting = Range(todo[n]) \cup others
  BY <1>2, Zenon DEF Waiting
<1>4. Waiting' = UNION {Range(todo'[m]) : m \in Notifiers}
  BY Zenon DEF Waiting, Range
<1>5. UNION {Range(todo'[m]) : m \in Notifiers} = Range(x) \cup others
  BY <1>1, <1>2, Zenon
<1> QED
  BY <1>2, <1>3, <1>4, <1>5, Zenon

LEMMA LiveInitOK == LiveInit => LiveInv
<1> SUFFICES ASSUME LiveInit PROVE LiveInv
  OBVIOUS
<1>1. LiveTypes
  BY DEF LiveInit, LiveTypes
<1>2. Len(Flow) = 0
  BY <1>1, FlowTypes DEF LiveInit
<1>3. \A n \in Notifiers : todo[n] = <<>> /\ Len(todo[n]) = 0
  BY DEF LiveInit
<1>4. PlacedInv
  <2>1. Range(taken) = {} /\ Range(channel) = {} /\ lost = {} /\ silent = {} /\ 1 .. next - 1 = {}
    BY DEF LiveInit, Range
  <2>2. \A n \in Notifiers : Range(todo[n]) = {}
    BY <1>3 DEF Range
  <2>3. Waiting = {}
    BY <2>2 DEF Waiting
  <2> QED
    BY <2>1, <2>3, Zenon DEF PlacedInv
<1>5. HandsInv
  BY <1>3 DEF HandsInv
<1>6. FlowInv
  BY <1>2 DEF FlowInv
<1>7. CellInv
  BY <1>3, InlineAssumption DEF CellInv, LiveInit
<1>8. AppliedInv
  BY DEF AppliedInv, LiveInit
<1> QED
  BY <1>1, <1>4, <1>5, <1>6, <1>7, <1>8 DEF LiveInv

(* A step that changes neither the flow nor the hands nor the batches. *)
LEMMA SameEvents ==
  ASSUME LiveInv, Flow' = Flow, Range(taken)' \cup Range(channel)' = Range(taken) \cup Range(channel),
         taken' \in Seq(Nat), channel' \in Seq(Nat),
         UNCHANGED <<next, owner, applied, cell, todo, step, lost, silent>>
  PROVE  LiveInv'
<1>1. LiveTypes'
  BY DEF LiveInv, LiveTypes
<1>2. PlacedInv'
  <2>1. Waiting' = Waiting
    BY DEF Waiting
  <2> QED
    BY <2>1 DEF LiveInv, PlacedInv
<1>3. HandsInv' /\ FlowInv' /\ CellInv' /\ AppliedInv'
  BY DEF LiveInv, HandsInv, FlowInv, CellInv, AppliedInv
<1> QED
  BY <1>1, <1>2, <1>3 DEF LiveInv

LEMMA RestStep == LiveInv /\ Resting => LiveInv'
<1> SUFFICES ASSUME LiveInv, Resting PROVE LiveInv'
  OBVIOUS
<1>1. Flow' = Flow /\ Range(taken)' \cup Range(channel)' = Range(taken) \cup Range(channel)
  BY DEF Resting, Flow, Range
<1> QED
  BY <1>1, SameEvents DEF Resting, LiveInv, LiveTypes

LEMMA ReceiveStep ==
  ASSUME LiveInv, NEW g \in Goroutines, Receive(g)
  PROVE  LiveInv'
<1>1. /\ taken \in Seq(Nat) /\ channel \in Seq(Nat) /\ channel # <<>>
      /\ taken' = Append(taken, Head(channel)) /\ channel' = Tail(channel)
      /\ UNCHANGED <<next, owner, applied, cell, todo, step, lost, silent>>
  BY DEF Receive, Notifying, batch, drops, LiveInv, LiveTypes
<1>2. Flow' = Flow
  BY <1>1, TakenFlow DEF Flow
<1>3. Head(channel) \in Nat /\ Range(channel) = {Head(channel)} \cup Range(Tail(channel))
  BY <1>1, PartFacts
<1>4. Range(Append(taken, Head(channel))) = Range(taken) \cup {Head(channel)}
  BY <1>1, <1>3, GrownFacts
<1>5. Range(taken)' \cup Range(channel)' = Range(taken) \cup Range(channel)
  BY <1>1, <1>3, <1>4
<1>6. taken' \in Seq(Nat) /\ channel' \in Seq(Nat)
  BY <1>1, <1>3
<1> QED
  BY <1>1, <1>2, <1>5, <1>6, SameEvents

LEMMA MoveStep ==
  ASSUME LiveInv, NEW n \in Notifiers, Moving(n)
  PROVE  LiveInv'
<1>1. UNCHANGED <<next, owner, applied, todo, lost, silent, taken, channel, Flow, Waiting>>
  BY DEF Moving, Flow, Waiting
<1>2. /\ cell' = [cell EXCEPT ![n] = <<1, 1>>]
      /\ \E l \in {"notify", "turn", "send", "idle"} : step' = [step EXCEPT ![n] = l] /\ (l = "idle" => todo[n] = <<>>)
  BY DEF Moving
<1>3. LiveTypes'
  BY <1>1, <1>2 DEF LiveInv, LiveTypes
<1>4. PlacedInv'
  BY <1>1 DEF LiveInv, PlacedInv
<1>5. HandsInv'
  BY <1>1, <1>2 DEF LiveInv, LiveTypes, HandsInv
<1>6. FlowInv'
  BY <1>1 DEF LiveInv, FlowInv
<1>7. CellInv'
  <2>1. cell'[n] = <<1, 1>> /\ cell'[n][2] = 1 /\ step'[n] # "inline"
    BY <1>2 DEF LiveInv, LiveTypes
  <2>2. \A m \in Notifiers \ {n} : cell'[m] = cell[m] /\ step'[m] = step[m]
    BY <1>2 DEF LiveInv, LiveTypes
  <2> QED
    BY <1>1, <2>1, <2>2, InlineAssumption DEF LiveInv, CellInv
<1>8. AppliedInv'
  BY <1>1 DEF LiveInv, AppliedInv
<1> QED
  BY <1>3, <1>4, <1>5, <1>6, <1>7, <1>8 DEF LiveInv

LEMMA DropStep ==
  ASSUME LiveInv, NEW n \in Notifiers, Dropping(n)
  PROVE  LiveInv'
<1>0. LiveTypes /\ PlacedInv /\ HandsInv /\ FlowInv /\ CellInv /\ AppliedInv
  BY DEF LiveInv
<1>1. PICK x, S, T : Losing(n, x, S, T)
  BY DEF Dropping
<1>2. PICK s : s = todo[n]
  OBVIOUS
<1>3. /\ UNCHANGED <<next, owner, applied, cell, taken, channel, Flow>> /\ step[n] # "inline"
      /\ lost' = lost \cup S /\ silent' = silent \cup T /\ todo' = [todo EXCEPT ![n] = x]
      /\ x \in Seq(Nat) /\ Increases(x) /\ Range(s) = Range(x) \cup S \cup T
      /\ Range(x) \cap (S \cup T) = {} /\ S \cap T = {}
  BY <1>1, <1>2 DEF Losing, Flow
<1>4. PICK l \in {"idle", "turn"} : step' = [step EXCEPT ![n] = l] /\ (l = "idle" => x = <<>>)
  BY <1>1 DEF Losing
<1>5. LiveTypes'
  BY <1>0, <1>3, <1>4 DEF LiveTypes
<1>6. /\ todo'[n] = x /\ step'[n] = l
      /\ \A m \in Notifiers \ {n} : todo'[m] = todo[m] /\ step'[m] = step[m]
  BY <1>0, <1>3, <1>4 DEF LiveTypes
<1>7. PlacedInv'
  <2>1. PICK others : /\ Waiting = Range(s) \cup others /\ Waiting' = Range(x) \cup others
                      /\ others = UNION {Range(todo[m]) : m \in Notifiers \ {n}}
    BY <1>0, <1>2, <1>3, HandChanges
  <2>2. \A e \in Range(s) : e \notin Range(Flow) /\ e \notin others
    BY <1>0, <1>2, <2>1, HandsApart, Zenon
  <2>3. Range(Flow) = Range(taken) \cup Range(channel)
    BY <1>0, FlowTypes
  <2>4. Range(taken)' = Range(taken) /\ Range(channel)' = Range(channel)
    BY <1>3 DEF Range
  <2>5. PICK F, H, K, W, W2 : /\ F = Range(Flow) /\ H = Range(s) /\ K = Range(x) /\ W = Waiting /\ W2 = Waiting'
    OBVIOUS
  <2>6. /\ 1 .. next - 1 = F \cup W \cup lost \cup silent /\ (lost \cup silent) \cap (F \cup W) = {}
        /\ lost \cap silent = {} /\ W = H \cup others /\ W2 = K \cup others /\ H = K \cup S \cup T
        /\ K \cap (S \cup T) = {} /\ S \cap T = {} /\ \A e \in H : e \notin F /\ e \notin others
    BY <1>0, <1>3, <2>1, <2>2, <2>3, <2>5, Zenon DEF PlacedInv
  <2>7. /\ 1 .. next - 1 = F \cup W2 \cup (lost \cup S) \cup (silent \cup T)
        /\ ((lost \cup S) \cup (silent \cup T)) \cap (F \cup W2) = {}
        /\ (lost \cup S) \cap (silent \cup T) = {}
    BY <2>6
  <2> QED
    BY <1>3, <2>3, <2>4, <2>5, <2>7, Zenon DEF PlacedInv
<1>8. \A j \in 1 .. Len(x) : \E k \in 1 .. Len(s) : x[j] = s[k]
  <2> SUFFICES ASSUME NEW j \in 1 .. Len(x) PROVE \E k \in 1 .. Len(s) : x[j] = s[k]
    OBVIOUS
  <2>1. DOMAIN x = 1 .. Len(x) /\ DOMAIN s = 1 .. Len(s)
    BY <1>0, <1>2, <1>3, HandTypes
  <2>2. x[j] \in Range(s)
    BY <1>3, <2>1, Zenon DEF Range
  <2> QED
    BY <2>1, <2>2, Zenon DEF Range
<1>9. HandsInv'
  <2>1. ASSUME NEW m \in Notifiers
        PROVE  /\ step'[m] = "idle" => todo'[m] = <<>>
               /\ \A i \in 1 .. Len(todo'[m]) : owner'[todo'[m][i]].by = m
               /\ \A i, j \in 1 .. Len(todo'[m]) : i < j => todo'[m][i] < todo'[m][j]
    <3>1. CASE m = n
      <4>1. \A i \in 1 .. Len(x) : owner[x[i]].by = n
        BY <1>0, <1>2, <1>8 DEF HandsInv
      <4> QED
        BY <1>3, <1>4, <1>6, <3>1, <4>1 DEF Increases
    <3>2. CASE m # n
      BY <1>0, <1>3, <1>6, <3>2 DEF HandsInv
    <3> QED
      BY <3>1, <3>2
  <2> QED
    BY <2>1 DEF HandsInv
<1>10. FlowInv'
  <2>1. ASSUME NEW m \in Notifiers, NEW i \in 1 .. Len(Flow), NEW j \in 1 .. Len(todo'[m]), owner[Flow[i]].by = m
        PROVE  Flow[i] < todo'[m][j]
    <3>1. CASE m = n
      <4>1. PICK k \in 1 .. Len(s) : x[j] = s[k]
        BY <1>6, <1>8, <3>1
      <4> QED
        BY <1>0, <1>2, <1>6, <2>1, <3>1, <4>1 DEF FlowInv
    <3>2. CASE m # n
      BY <1>0, <1>6, <2>1, <3>2 DEF FlowInv
    <3> QED
      BY <3>1, <3>2
  <2> QED
    BY <1>0, <1>3, <2>1 DEF FlowInv
<1>11. CellInv'
  BY <1>0, <1>3, <1>4, <1>6, InlineAssumption DEF CellInv
<1>12. AppliedInv'
  BY <1>0, <1>3 DEF AppliedInv
<1> QED
  BY <1>5, <1>7, <1>9, <1>10, <1>11, <1>12 DEF LiveInv

LEMMA SendStep ==
  ASSUME LiveInv, NEW n \in Notifiers, Send(n)
  PROVE  LiveInv'
<1>0. LiveTypes /\ PlacedInv /\ HandsInv /\ FlowInv /\ CellInv /\ AppliedInv
  BY DEF LiveInv
<1>1. PICK h, t, s : h = Head(todo[n]) /\ t = Tail(todo[n]) /\ s = todo[n]
  OBVIOUS
<1>2. /\ UNCHANGED <<next, owner, applied, cell, step, lost, silent, taken>> /\ step[n] = "send" /\ s # <<>>
      /\ channel' = Append(channel, h) /\ todo' = [todo EXCEPT ![n] = t]
  BY <1>0, <1>1 DEF Send, batch, drops, LiveTypes
<1>3. s \in Seq(Nat) /\ taken \in Seq(Nat) /\ channel \in Seq(Nat)
  BY <1>0, <1>1 DEF LiveTypes
<1>4. /\ h \in Nat /\ h = s[1] /\ t \in Seq(Nat) /\ Len(s) \in Nat \ {0} /\ Len(t) = Len(s) - 1
      /\ \A i \in 1 .. Len(s) - 1 : t[i] = s[i + 1]
      /\ Range(s) = {h} \cup Range(t)
  BY <1>1, <1>2, <1>3, PartFacts
<1>5. Flow' = Append(Flow, h)
  BY <1>2, <1>3, <1>4, SentFlow DEF Flow
<1>6. Flow \in Seq(Nat) /\ Len(Flow) \in Nat
  BY <1>0, FlowTypes
<1>7. /\ Len(Flow') = Len(Flow) + 1 /\ Flow'[Len(Flow) + 1] = h
      /\ \A i \in 1 .. Len(Flow) : Flow'[i] = Flow[i]
  BY <1>4, <1>5, <1>6, GrownFacts
<1>8. todo'[n] = t /\ \A m \in Notifiers \ {n} : todo'[m] = todo[m]
  BY <1>0, <1>2 DEF LiveTypes
<1>9. LiveTypes'
  <2>1. channel' \in Seq(Nat)
    BY <1>2, <1>3, <1>4
  <2> QED
    BY <1>0, <1>2, <1>4, <2>1 DEF LiveTypes
<1>10. PlacedInv'
  <2>1. PICK others : /\ Waiting = Range(s) \cup others /\ Waiting' = Range(t) \cup others
    BY <1>0, <1>1, <1>2, HandChanges
  <2>2. Range(channel)' = Range(channel) \cup {h}
    BY <1>2, <1>3, <1>4, GrownFacts
  <2>3. Range(taken)' = Range(taken)
    BY <1>2 DEF Range
  <2> QED
    BY <1>0, <1>2, <1>4, <2>1, <2>2, <2>3 DEF PlacedInv
<1>11. owner[h].by = n /\ \A j \in 1 .. Len(t) : owner[t[j]].by = n /\ h < t[j]
  <2>1. 1 \in 1 .. Len(s) /\ \A j \in 1 .. Len(t) : j + 1 \in 1 .. Len(s) /\ t[j] = s[j + 1] /\ 1 < j + 1
    BY <1>4
  <2>2. /\ \A i \in 1 .. Len(s) : owner[s[i]].by = n
        /\ \A i, j \in 1 .. Len(s) : i < j => s[i] < s[j]
    BY <1>0, <1>1 DEF HandsInv
  <2>3. owner[h].by = n
    BY <1>4, <2>1, <2>2
  <2>4. ASSUME NEW j \in 1 .. Len(t) PROVE owner[t[j]].by = n /\ h < t[j]
    <3>1. j + 1 \in 1 .. Len(s) /\ t[j] = s[j + 1] /\ 1 < j + 1
      BY <2>1
    <3>2. s[1] < s[j + 1] /\ owner[s[j + 1]].by = n
      BY <2>1, <2>2, <3>1
    <3> QED
      BY <1>4, <3>1, <3>2
  <2> QED
    BY <2>3, <2>4
<1>12. HandsInv'
  <2>1. \A j \in 1 .. Len(t) : j + 1 \in 1 .. Len(s) /\ t[j] = s[j + 1]
    BY <1>4
  <2>2. \A i, j \in 1 .. Len(t) : i < j => t[i] < t[j]
    <3> SUFFICES ASSUME NEW i \in 1 .. Len(t), NEW j \in 1 .. Len(t), i < j PROVE t[i] < t[j]
      OBVIOUS
    <3>1. i + 1 < j + 1
      BY <1>4
    <3> QED
      BY <1>0, <1>1, <2>1, <3>1 DEF HandsInv
  <2>3. ASSUME NEW m \in Notifiers
        PROVE  /\ step'[m] = "idle" => todo'[m] = <<>>
               /\ \A i \in 1 .. Len(todo'[m]) : owner'[todo'[m][i]].by = m
               /\ \A i, j \in 1 .. Len(todo'[m]) : i < j => todo'[m][i] < todo'[m][j]
    <3>1. CASE m = n
      BY <1>2, <1>8, <1>11, <2>2, <3>1
    <3>2. CASE m # n
      BY <1>0, <1>2, <1>8, <3>2 DEF HandsInv
    <3> QED
      BY <3>1, <3>2
  <2> QED
    BY <2>3 DEF HandsInv
<1>13. FlowInv'
  <2>1. \A i \in 1 .. Len(Flow) : owner[Flow[i]].by = n => Flow[i] < h
    <3>1. 1 \in 1 .. Len(s)
      BY <1>4
    <3> QED
      BY <1>0, <1>1, <1>4, <3>1 DEF FlowInv
  <2>2. ASSUME NEW i \in 1 .. Len(Flow'), NEW j \in 1 .. Len(Flow'), i < j,
               owner'[Flow'[i]].by = owner'[Flow'[j]].by
        PROVE  Flow'[i] < Flow'[j]
    <3>1. i \in 1 .. Len(Flow) /\ (j \in 1 .. Len(Flow) \/ j = Len(Flow) + 1)
      BY <1>6, <1>7, <2>2
    <3>2. CASE j = Len(Flow) + 1
      <4>1. owner[Flow[i]].by = n /\ Flow'[j] = h /\ Flow'[i] = Flow[i]
        BY <1>2, <1>7, <1>11, <2>2, <3>1, <3>2
      <4> QED
        BY <2>1, <3>1, <4>1
    <3>3. CASE j \in 1 .. Len(Flow)
      <4>1. Flow'[j] = Flow[j] /\ Flow'[i] = Flow[i]
        BY <1>7, <3>1, <3>3
      <4> QED
        BY <1>0, <1>2, <2>2, <3>1, <3>3, <4>1 DEF FlowInv
    <3> QED
      BY <3>1, <3>2, <3>3
  <2>3. ASSUME NEW m \in Notifiers, NEW i \in 1 .. Len(Flow'), NEW j \in 1 .. Len(todo'[m]),
               owner'[Flow'[i]].by = m
        PROVE  Flow'[i] < todo'[m][j]
    <3>1. i \in 1 .. Len(Flow) \/ i = Len(Flow) + 1
      BY <1>6, <1>7
    <3>2. CASE m = n /\ i = Len(Flow) + 1
      BY <1>7, <1>8, <1>11, <3>2
    <3>3. CASE m # n /\ i = Len(Flow) + 1
      BY <1>2, <1>7, <1>11, <2>3, <3>3
    <3>4. CASE m # n /\ i \in 1 .. Len(Flow)
      <4>1. Flow'[i] = Flow[i] /\ todo'[m] = todo[m] /\ owner[Flow[i]].by = m
        BY <1>2, <1>7, <1>8, <2>3, <3>4
      <4> QED
        BY <1>0, <2>3, <3>4, <4>1 DEF FlowInv
    <3>5. CASE m = n /\ i \in 1 .. Len(Flow)
      <4>1. Flow'[i] = Flow[i] /\ todo'[m] = t /\ owner[Flow[i]].by = n
        BY <1>2, <1>7, <1>8, <2>3, <3>5
      <4>2. j \in 1 .. Len(t) /\ j + 1 \in 1 .. Len(s) /\ t[j] = s[j + 1]
        BY <1>4, <4>1
      <4> QED
        BY <1>0, <1>1, <3>5, <4>1, <4>2 DEF FlowInv
    <3> QED
      BY <3>1, <3>2, <3>3, <3>4, <3>5
  <2> QED
    BY <2>2, <2>3 DEF FlowInv
<1>14. CellInv'
  <2>1. ASSUME NEW m \in Notifiers, m # n
        PROVE  todo'[m] = todo[m] /\ cell'[m] = cell[m] /\ step'[m] = step[m]
    BY <1>2, <1>8, <2>1
  <2> QED
    BY <1>0, <1>2, <2>1 DEF CellInv
<1>15. AppliedInv'
  BY <1>0, <1>2 DEF AppliedInv
<1> QED
  BY <1>9, <1>10, <1>12, <1>13, <1>14, <1>15 DEF LiveInv

(* One Apply: the projections before this one have the event, and this one *)
(* has what came before it in the batch.                                   *)
LEMMA ApplyInlineStep ==
  ASSUME LiveInv, NEW n \in Notifiers, ApplyInline(n)
  PROVE  LiveInv'
<1>0. LiveTypes /\ PlacedInv /\ HandsInv /\ FlowInv /\ CellInv /\ AppliedInv
  BY DEF LiveInv
<1>1. PICK a \in Nat \ {0}, p \in Nat \ {0} : cell[n] = <<a, p>>
  <2>1. cell[n] \in (Nat \ {0}) \X (Nat \ {0})
    BY <1>0 DEF LiveTypes
  <2> QED
    BY <2>1
<1>2. /\ step[n] = "inline" /\ a <= Len(todo[n]) /\ Inline > 0 /\ p \in InlineProjections
      /\ applied' = [applied EXCEPT ![p] = @ \cup {todo[n][a]}]
      /\ cell' = [cell EXCEPT ![n] = Following(<<a, p>>)]
      /\ UNCHANGED <<next, owner, step, todo, lost, silent, taken, channel, Flow, Waiting>>
  BY <1>0, <1>1, InlineAssumption DEF ApplyInline, live, drops, Flow, Waiting, CellInv, InlineProjections
<1>3. PICK e : e = todo[n][a]
  OBVIOUS
<1>4. /\ a \in 1 .. Len(todo[n]) /\ Len(todo[n]) \in Nat /\ e \in 1 .. next - 1 /\ next \in Nat
      /\ todo[n][1] \in Nat /\ Inline \in Nat
  <2>1. Len(todo[n]) \in Nat
    BY <1>0, HandTypes
  <2>2. a \in 1 .. Len(todo[n]) /\ 1 \in 1 .. Len(todo[n])
    BY <1>2, <2>1
  <2> QED
    <3>1. todo[n][a] \in 1 .. next - 1 /\ todo[n][1] \in 1 .. next - 1
      BY <1>0, <2>2, KnownPositions, Zenon
    <3>2. todo[n][1] \in Nat
      BY <3>1
    <3> QED
      BY <1>0, <1>3, <2>1, <2>2, <3>1, <3>2, InlineAssumption DEF LiveTypes
<1>5. /\ applied'[p] = applied[p] \cup {e} /\ \A q \in InlineProjections \ {p} : applied'[q] = applied[q]
      /\ \A q \in InlineProjections : applied[q] \subseteq applied'[q]
  BY <1>0, <1>2, <1>3 DEF AppliedInv
<1>6. PICK a2 \in Nat \ {0}, p2 \in Nat \ {0} :
        /\ cell'[n] = <<a2, p2>> /\ p2 <= Inline
        /\ \/ a2 = a /\ p2 = p + 1
           \/ a2 = a + 1 /\ p2 = 1 /\ p = Inline
  <2>1. p <= Inline /\ cell'[n] = Following(<<a, p>>)
    BY <1>0, <1>2 DEF LiveTypes, InlineProjections
  <2>2. CASE p < Inline
    BY <1>4, <2>1, <2>2 DEF Following
  <2>3. CASE p = Inline
    BY <1>4, <2>1, <2>3 DEF Following
  <2> QED
    BY <1>4, <2>1, <2>2, <2>3
<1>7. LiveTypes'
  <2>1. Following(<<a, p>>) \in (Nat \ {0}) \X (Nat \ {0})
    <3>1. a + 1 \in Nat \ {0} /\ p + 1 \in Nat \ {0} /\ 1 \in Nat \ {0}
      OBVIOUS
    <3> QED
      BY <3>1 DEF Following
  <2> QED
    BY <1>0, <1>2, <2>1 DEF LiveTypes
<1>8. PlacedInv' /\ HandsInv' /\ FlowInv'
  BY <1>0, <1>2 DEF PlacedInv, HandsInv, FlowInv
<1>9. /\ \A j \in 1 .. Len(todo[n]) :
           todo[n][j] = todo[n][1] + (j - 1) /\ owner[todo[n][j]].first = todo[n][1]
      /\ \A j \in 1 .. Len(todo[n]), q \in InlineProjections :
           j < a \/ (j = a /\ q < p) => todo[n][j] \in applied[q]
  <2>1. cell[n][1] = a /\ cell[n][2] = p
    BY <1>1
  <2> QED
    BY <1>0, <1>2, <2>1 DEF CellInv
<1>10. CellInv'
  <2>1. ASSUME NEW m \in Notifiers, m # n
        PROVE  todo'[m] = todo[m] /\ cell'[m] = cell[m] /\ step'[m] = step[m]
    BY <1>0, <1>2, <2>1 DEF LiveTypes
  <2>2. ASSUME NEW j \in 1 .. Len(todo[n]), NEW q \in InlineProjections,
               j < a2 \/ (j = a2 /\ q < p2)
        PROVE  todo[n][j] \in applied'[q]
    <3>1. CASE j < a \/ (j = a /\ q < p)
      BY <1>5, <1>9, <3>1
    <3>2. CASE j = a /\ q >= p
      <4>1. q = p
        BY <1>4, <1>6, <2>2, <3>2 DEF InlineProjections
      <4> QED
        BY <1>3, <1>5, <3>2, <4>1
    <3> QED
      BY <1>4, <1>6, <2>2, <3>1, <3>2 DEF InlineProjections
  <2>3. ASSUME NEW m \in Notifiers
        PROVE  /\ Inline > 0 => cell'[m][2] <= Inline
               /\ step'[m] # "inline" => cell'[m] = <<1, 1>>
               /\ step'[m] = "inline" =>
                    /\ \A j \in 1 .. Len(todo'[m]) :
                         todo'[m][j] = todo'[m][1] + (j - 1) /\ owner'[todo'[m][j]].first = todo'[m][1]
                    /\ \A j \in 1 .. Len(todo'[m]), q \in InlineProjections :
                         j < cell'[m][1] \/ (j = cell'[m][1] /\ q < cell'[m][2]) => todo'[m][j] \in applied'[q]
    <3>1. CASE m = n
      <4>1. cell'[n][1] = a2 /\ cell'[n][2] = p2
        BY <1>6
      <4> QED
        BY <1>2, <1>6, <1>9, <2>2, <3>1, <4>1
    <3>2. CASE m # n
      BY <1>0, <1>2, <1>5, <2>1, <3>2 DEF CellInv
    <3> QED
      BY <3>1, <3>2
  <2> QED
    BY <2>3 DEF CellInv
<1>11. AppliedInv'
  <2>1. applied' \in [InlineProjections -> SUBSET (1 .. next' - 1)]
    BY <1>0, <1>2, <1>3, <1>4 DEF AppliedInv
  <2>2. ASSUME NEW q \in InlineProjections, q > 1 PROVE applied'[q] \subseteq applied'[q - 1]
    <3>1. q - 1 \in InlineProjections /\ q - 1 # q /\ applied[q] \subseteq applied[q - 1]
      BY <1>0, <1>4, <2>2 DEF AppliedInv, InlineProjections
    <3>2. CASE q = p
      <4>1. e \in applied[q - 1]
        <5>1. q - 1 < p
          BY <1>4, <3>2 DEF InlineProjections
        <5> QED
          BY <1>3, <1>4, <1>9, <3>1, <5>1
      <4> QED
        BY <1>5, <3>1, <3>2, <4>1
    <3>3. CASE q # p
      BY <1>5, <3>1, <3>3
    <3> QED
      BY <3>2, <3>3
  <2>3. ASSUME NEW q \in InlineProjections, NEW d \in applied'[q]
        PROVE  owner'[d].first .. d \subseteq applied'[Inline] \cup {d}
    <3>0. Inline \in InlineProjections
      BY <1>2, <1>4 DEF InlineProjections
    <3>1. CASE d \in applied[q]
      BY <1>0, <1>2, <1>5, <3>0, <3>1 DEF AppliedInv
    <3>2. CASE d \notin applied[q]
      <4>1. d = e
        BY <1>5, <2>3, <3>2
      <4>2. /\ owner'[d].first = todo[n][1] /\ d = todo[n][1] + (a - 1)
            /\ \A j \in 1 .. Len(todo[n]) : todo[n][j] = todo[n][1] + (j - 1)
        BY <1>2, <1>3, <1>4, <1>9, <4>1
      <4>3. ASSUME NEW x \in owner'[d].first .. d, x # d PROVE x \in applied[Inline]
        <5>1. PICK j \in 1 .. Len(todo[n]) : j = x - todo[n][1] + 1 /\ j < a
          <6>1. x \in Int /\ todo[n][1] <= x /\ x < todo[n][1] + (a - 1)
            BY <1>4, <4>2, <4>3
          <6>2. x - todo[n][1] + 1 \in 1 .. Len(todo[n]) /\ x - todo[n][1] + 1 < a
            BY <1>4, <6>1
          <6> QED
            BY <6>2
        <5>2. x = todo[n][j]
          BY <1>4, <4>2, <5>1
        <5> QED
          BY <1>9, <3>0, <5>1, <5>2
      <4> QED
        BY <1>5, <3>0, <4>3
    <3> QED
      BY <3>1, <3>2
  <2> QED
    BY <2>1, <2>2, <2>3 DEF AppliedInv
<1> QED
  BY <1>7, <1>8, <1>10, <1>11 DEF LiveInv

(* A batch is appended: its positions are new, and no older owner changes. *)
LEMMA AppendBatchStep ==
  ASSUME LiveInv, NEW n \in Notifiers, NEW k \in 1 .. 2, AppendBatch(n, k)
  PROVE  LiveInv'
<1>0. LiveTypes /\ PlacedInv /\ HandsInv /\ FlowInv /\ CellInv /\ AppliedInv
  BY DEF LiveInv
<1>1. PICK new, who : /\ new = [i \in 1 .. k |-> next + i - 1]
                      /\ who = [i \in 1 .. k |-> [by |-> n, first |-> next]]
  OBVIOUS
<1>2. /\ step[n] = "idle" /\ next' = next + k
      /\ todo' = [todo EXCEPT ![n] = new] /\ step' = [step EXCEPT ![n] = "inline"]
      /\ UNCHANGED <<applied, cell, lost, silent, taken, channel, Flow>>
  BY <1>1 DEF AppendBatch, At, live, drops, Flow
<1>3. /\ next \in Nat \ {0} /\ k \in Nat \ {0} /\ owner \in Seq([by : Notifiers, first : Nat]) /\ Len(owner) = next - 1
  BY <1>0 DEF LiveTypes
<1>4. new \in Seq(Nat) /\ Len(new) = k /\ DOMAIN new = 1 .. k /\ \A i \in 1 .. k : new[i] = next + i - 1
  BY <1>1, <1>3
<1>5. who \in Seq([by : Notifiers, first : Nat]) /\ Len(who) = k
      /\ \A i \in 1 .. k : who[i].by = n /\ who[i].first = next
  BY <1>1, <1>3
<1>6. /\ owner' \in Seq([by : Notifiers, first : Nat]) /\ Len(owner') = next' - 1
      /\ \A e \in 1 .. next - 1 : owner'[e] = owner[e]
      /\ \A i \in 1 .. k : owner'[next + i - 1].by = n /\ owner'[next + i - 1].first = next
  <2>0. owner' = owner \o who
    BY <1>1 DEF AppendBatch
  <2>1. owner' \in Seq([by : Notifiers, first : Nat]) /\ Len(owner') = Len(owner) + Len(who)
    BY <1>3, <1>5, <2>0
  <2>2. \A e \in 1 .. Len(owner) + Len(who) : owner'[e] = IF e <= Len(owner) THEN owner[e] ELSE who[e - Len(owner)]
    BY <1>3, <1>5, <2>0, ConcatProperties
  <2>3. ASSUME NEW i \in 1 .. k PROVE owner'[next + i - 1] = who[i]
    <3>1. next + i - 1 \in 1 .. Len(owner) + Len(who) /\ ~ (next + i - 1 <= Len(owner)) /\ (next + i - 1) - Len(owner) = i
      BY <1>3, <1>5
    <3> QED
      BY <2>2, <3>1
  <2>4. ASSUME NEW e \in 1 .. next - 1 PROVE owner'[e] = owner[e]
    <3>1. e \in 1 .. Len(owner) + Len(who) /\ e <= Len(owner)
      BY <1>3, <1>5
    <3> QED
      BY <2>2, <3>1
  <2> QED
    <3>1. Len(owner') = next' - 1
      BY <1>2, <1>3, <1>5, <2>1
    <3>2. \A i \in 1 .. k : owner'[next + i - 1].by = n /\ owner'[next + i - 1].first = next
      BY <1>5, <2>3, Zenon
    <3> QED
      BY <2>1, <2>4, <3>1, <3>2, Zenon
<1>7. /\ todo[n] = <<>> /\ todo'[n] = new /\ step'[n] = "inline" /\ cell[n] = <<1, 1>>
      /\ \A m \in Notifiers \ {n} : todo'[m] = todo[m] /\ step'[m] = step[m]
  BY <1>0, <1>2 DEF LiveTypes, HandsInv, CellInv
<1>8. /\ \A i \in 1 .. k : owner'[new[i]].by = n /\ owner'[new[i]].first = new[1] /\ new[i] = new[1] + (i - 1)
      /\ \A i, j \in 1 .. k : i < j => new[i] < new[j]
  <2>1. \A i \in 1 .. k : owner'[new[i]].by = n /\ owner'[new[i]].first = next
    BY <1>4, <1>6, Zenon
  <2>2. new[1] = next /\ \A i \in 1 .. k : new[i] = next + (i - 1)
    BY <1>3, <1>4
  <2>3. \A i, j \in 1 .. k : i < j => new[i] < new[j]
    BY <1>3, <2>2
  <2> QED
    BY <2>1, <2>2, <2>3, Zenon
<1>9. LiveTypes'
  <2>1. todo' \in [Notifiers -> Seq(Nat)] /\ step' \in [Notifiers -> {"idle", "inline", "notify", "turn", "send"}]
    BY <1>0, <1>2, <1>4 DEF LiveTypes
  <2>2. next' \in Nat \ {0}
    BY <1>2, <1>3
  <2>3. taken' \in Seq(Nat) /\ channel' \in Seq(Nat) /\ cell' \in [Notifiers -> (Nat \ {0}) \X (Nat \ {0})]
    BY <1>0, <1>2 DEF LiveTypes
  <2> QED
    BY <1>6, <2>1, <2>2, <2>3, Zenon DEF LiveTypes
<1>10. /\ \A i \in 1 .. Len(Flow) : Flow[i] \in 1 .. next - 1
      /\ \A m \in Notifiers : \A j \in 1 .. Len(todo[m]) : todo[m][j] \in 1 .. next - 1
  BY <1>0, KnownPositions
<1>11. PlacedInv'
  <2>1. PICK others : /\ Waiting = Range(todo[n]) \cup others /\ Waiting' = Range(new) \cup others
    BY <1>0, <1>2, HandChanges
  <2>2. Range(todo[n]) = {}
    BY <1>7 DEF Range
  <2>3. Range(new) = next .. next + k - 1
    <3>1. ASSUME NEW x \in next .. next + k - 1 PROVE \E i \in 1 .. k : new[i] = x
      <4>1. x - next + 1 \in 1 .. k /\ next + (x - next + 1) - 1 = x
        BY <1>3
      <4> QED
        BY <1>4, <4>1
    <3>2. \A i \in 1 .. k : new[i] \in next .. next + k - 1
      BY <1>3, <1>4
    <3> QED
      <4>1. Range(new) = {new[i] : i \in 1 .. k}
        BY <1>4, Zenon DEF Range
      <4> QED
        BY <3>1, <3>2, <4>1
  <2>4. 1 .. next' - 1 = (1 .. next - 1) \cup (next .. next + k - 1)
    BY <1>2, <1>3
  <2>5. (1 .. next - 1) \cap (next .. next + k - 1) = {}
    BY <1>3
  <2>6. Range(taken)' = Range(taken) /\ Range(channel)' = Range(channel) /\ lost' = lost /\ silent' = silent
    BY <1>2 DEF Range
  <2> QED
    BY <1>0, <2>1, <2>2, <2>3, <2>4, <2>5, <2>6, Zenon DEF PlacedInv
<1>12. HandsInv'
  <2>1. ASSUME NEW m \in Notifiers
        PROVE  /\ step'[m] = "idle" => todo'[m] = <<>>
               /\ \A i \in 1 .. Len(todo'[m]) : owner'[todo'[m][i]].by = m
               /\ \A i, j \in 1 .. Len(todo'[m]) : i < j => todo'[m][i] < todo'[m][j]
    <3>1. CASE m = n
      <4>1. todo'[m] = new /\ Len(todo'[m]) = k /\ step'[m] # "idle"
        BY <1>4, <1>7, <3>1
      <4> QED
        BY <1>8, <3>1, <4>1, Zenon
    <3>2. CASE m # n
      <4>1. todo'[m] = todo[m] /\ step'[m] = step[m]
        BY <1>7, <3>2
      <4>2. \A i \in 1 .. Len(todo[m]) : owner'[todo[m][i]] = owner[todo[m][i]]
        BY <1>6, <1>10, Zenon
      <4> QED
        <5>1. /\ step[m] = "idle" => todo[m] = <<>>
              /\ \A i \in 1 .. Len(todo[m]) : owner[todo[m][i]].by = m
              /\ \A i, j \in 1 .. Len(todo[m]) : i < j => todo[m][i] < todo[m][j]
          BY <1>0 DEF HandsInv
        <5> QED
          BY <4>1, <4>2, <5>1
    <3> QED
      BY <3>1, <3>2
  <2> QED
    BY <2>1 DEF HandsInv
<1>13. FlowInv'
  <2>1. \A i \in 1 .. Len(Flow) : owner'[Flow[i]] = owner[Flow[i]]
    BY <1>6, <1>10
  <2>2. ASSUME NEW i \in 1 .. Len(Flow), NEW j \in 1 .. k PROVE Flow[i] < new[j]
    BY <1>3, <1>4, <1>10
  <2>3. ASSUME NEW m \in Notifiers, NEW i \in 1 .. Len(Flow), NEW j \in 1 .. Len(todo'[m]), owner'[Flow[i]].by = m
        PROVE  Flow[i] < todo'[m][j]
    <3>1. CASE m = n
      BY <1>4, <1>7, <2>2, <3>1
    <3>2. CASE m # n
      BY <1>0, <1>7, <2>1, <2>3, <3>2 DEF FlowInv
    <3> QED
      BY <3>1, <3>2
  <2> QED
    BY <1>0, <1>2, <2>1, <2>3 DEF FlowInv
<1>14. CellInv'
  <2>1. cell'[n] = <<1, 1>> /\ cell'[n][1] = 1 /\ cell'[n][2] = 1
    BY <1>2, <1>7
  <2>2. ASSUME NEW m \in Notifiers
        PROVE  /\ Inline > 0 => cell'[m][2] <= Inline
               /\ step'[m] # "inline" => cell'[m] = <<1, 1>>
               /\ step'[m] = "inline" =>
                    /\ \A j \in 1 .. Len(todo'[m]) :
                         todo'[m][j] = todo'[m][1] + (j - 1) /\ owner'[todo'[m][j]].first = todo'[m][1]
                    /\ \A j \in 1 .. Len(todo'[m]), q \in InlineProjections :
                         j < cell'[m][1] \/ (j = cell'[m][1] /\ q < cell'[m][2]) => todo'[m][j] \in applied'[q]
    <3>1. CASE m = n
      <4>2. ASSUME NEW j \in 1 .. k, NEW q \in InlineProjections PROVE ~ (j < 1 \/ (j = 1 /\ q < 1))
        BY <1>3 DEF InlineProjections
      <4> QED
        <5>1. todo'[m] = new /\ Len(todo'[m]) = k /\ step'[m] = "inline" /\ cell'[m][1] = 1 /\ cell'[m][2] = 1
          BY <1>4, <1>7, <2>1, <3>1
        <5>2. Inline > 0 => 1 <= Inline
          BY InlineAssumption
        <5> QED
          BY <1>8, <4>2, <5>1, <5>2, Zenon
    <3>2. CASE m # n
      <4>1. \A j \in 1 .. Len(todo[m]) : owner'[todo[m][j]] = owner[todo[m][j]]
        BY <1>6, <1>10, Zenon
      <4>2. todo'[m] = todo[m] /\ step'[m] = step[m] /\ cell'[m] = cell[m] /\ applied' = applied
        BY <1>2, <1>7, <3>2
      <4> QED
        <5>1. /\ Inline > 0 => cell[m][2] <= Inline
              /\ step[m] # "inline" => cell[m] = <<1, 1>>
              /\ step[m] = "inline" =>
                   /\ \A j \in 1 .. Len(todo[m]) :
                        todo[m][j] = todo[m][1] + (j - 1) /\ owner[todo[m][j]].first = todo[m][1]
                   /\ \A j \in 1 .. Len(todo[m]), q \in InlineProjections :
                        j < cell[m][1] \/ (j = cell[m][1] /\ q < cell[m][2]) => todo[m][j] \in applied[q]
          BY <1>0 DEF CellInv
        <5> QED
          BY <4>1, <4>2, <5>1
    <3> QED
      BY <3>1, <3>2
  <2> QED
    BY <2>2 DEF CellInv
<1>15. AppliedInv'
  <2>1. applied \in [InlineProjections -> SUBSET (1 .. next - 1)]
    BY <1>0 DEF AppliedInv
  <2>2. \A p \in InlineProjections : \A e \in applied[p] : owner'[e] = owner[e]
    BY <1>6, <2>1
  <2>3. 1 .. next - 1 \subseteq 1 .. next' - 1
    BY <1>2, <1>3
  <2>4. applied' \in [InlineProjections -> SUBSET (1 .. next' - 1)]
    BY <1>2, <2>1, <2>3
  <2> QED
    BY <1>0, <1>2, <2>2, <2>4 DEF AppliedInv
<1> QED
  BY <1>9, <1>11, <1>12, <1>13, <1>14, <1>15 DEF LiveInv

LEMMA LiveStep == LiveInv /\ [LiveNext]_liveVars => LiveInv'
<1> SUFFICES ASSUME LiveInv, [LiveNext]_liveVars PROVE LiveInv'
  OBVIOUS
<1>1. \/ Resting
      \/ \E g \in Goroutines : Receive(g)
      \/ \E n \in Notifiers : \/ \E k \in 1 .. 2 : AppendBatch(n, k)
                             \/ ApplyInline(n) \/ Send(n) \/ Dropping(n) \/ Moving(n)
  BY LiveMoves DEF LiveInv
<1> QED
  BY <1>1, RestStep, ReceiveStep, AppendBatchStep, ApplyInlineStep, SendStep, DropStep, MoveStep, Zenon

LEMMA FlowDistinct ==
  ASSUME LiveInv
  PROVE  \A i, j \in 1 .. Len(Flow) : Flow[i] = Flow[j] => i = j
<1>0. Flow \in Seq(Nat) /\ Len(Flow) \in Nat /\ DOMAIN Flow = 1 .. Len(Flow)
  BY FlowTypes DEF LiveInv
<1>1. ASSUME NEW i \in 1 .. Len(Flow), NEW j \in 1 .. Len(Flow), i < j PROVE Flow[i] # Flow[j]
  <2>1. Flow[i] \in Nat /\ Flow[j] \in Nat
    BY <1>0
  <2> QED
    BY <1>1, <2>1 DEF LiveInv, FlowInv
<1>2. \A i, j \in 1 .. Len(Flow) : Flow[i] = Flow[j] => i = j
  <2> SUFFICES ASSUME NEW i \in 1 .. Len(Flow), NEW j \in 1 .. Len(Flow), Flow[i] = Flow[j], i # j PROVE FALSE
    OBVIOUS
  <2>1. i < j \/ j < i
    BY <1>0
  <2> QED
    BY <1>1, <2>1, Zenon
<1> QED
  BY <1>2

(* A flow in which nothing comes twice has as many positions as elements. *)
LEMMA FlowCounts ==
  ASSUME LiveInv
  PROVE  Len(Flow) = Cardinality(Range(Flow))
<1>0. Flow \in Seq(Nat) /\ Len(Flow) \in Nat /\ DOMAIN Flow = 1 .. Len(Flow)
  BY FlowTypes DEF LiveInv
<1>2. \A i, j \in 1 .. Len(Flow) : Flow[i] = Flow[j] => i = j
  BY FlowDistinct
<1>3. Flow \in [1 .. Len(Flow) -> Range(Flow)]
  BY <1>0 DEF Range
<1>4. Flow \in Bijection(1 .. Len(Flow), Range(Flow))
  BY <1>0, <1>2, <1>3, Zenon DEF Bijection, Injection, Surjection, IsInjective, Range
<1>5. IsFiniteSet(1 .. Len(Flow)) /\ Cardinality(1 .. Len(Flow)) = Len(Flow)
  <2>1. Cardinality(1 .. Len(Flow)) = (IF 1 > Len(Flow) THEN 0 ELSE Len(Flow) - 1 + 1) /\ IsFiniteSet(1 .. Len(Flow))
    BY <1>0, FS_Interval
  <2> QED
    BY <1>0, <2>1
<1>6. Cardinality(Range(Flow)) = Cardinality(1 .. Len(Flow))
  BY <1>4, <1>5, FS_Bijection, Zenon DEF ExistsBijection
<1> QED
  BY <1>5, <1>6


(* The extra facts: drops without a word need a lost context or a removed  *)
(* projection, and a call that has lost its context lost it for all of     *)
(* what it has in hand.                                                    *)
SilentInv ==
  /\ registered => silent \subseteq cancelled
  /\ quit = ~ registered
  /\ cancelled \subseteq 1 .. next - 1
  /\ \A n \in Notifiers : \A d, e \in Range(todo[n]) : d \in cancelled => e \in cancelled

(* What left the channel was handed to OnEvent or is in one run's hands;   *)
(* while no run outlived a Start there is at most one, and it goes by the  *)
(* order of the channel.                                                   *)
InHand == {hand[g] : g \in Goroutines} \ {0}

RunsInv ==
  /\ worker \in [Goroutines -> {"none", "starting", "run", "drain"}] /\ hand \in [Goroutines -> Nat]
  /\ got \in Seq(Nat)
  /\ \A g \in Goroutines : hand[g] # 0 => worker[g] \in {"run", "drain"}
  /\ \A g, h \in Goroutines : hand[g] # 0 /\ hand[g] = hand[h] => g = h
  /\ Range(taken) = Range(got) \cup InHand /\ Range(got) \cap InHand = {}
  /\ survivors = {} =>
       /\ \A g, h \in Alive : g = h
       /\ InHand = {} => got = taken
       /\ \A g \in Goroutines : hand[g] # 0 => taken = Append(got, hand[g])

LEMMA SilentStep ==
  ASSUME LiveInv, SilentInv, [LiveNext]_liveVars
  PROVE  SilentInv'
<1>0. LiveTypes /\ HandsInv /\ PlacedInv
  BY DEF LiveInv
<1>1. ASSUME UNCHANGED <<registered, quit, cancelled, next, todo, silent>> PROVE SilentInv'
  BY <1>1 DEF SilentInv
<1>2. CASE UNCHANGED liveVars
  BY <1>1, <1>2 DEF liveVars
<1>3. ASSUME NEW g \in Goroutines, Worker(g) PROVE SilentInv'
  <2>1. UNCHANGED <<registered, quit, cancelled, next, todo, silent>>
    BY <1>3 DEF Worker, Receive, Deliver, RunLiveWorker, StopSeen, Drained, Aborted, Abort, Notifying, batch, drops
  <2> QED
    BY <1>1, <2>1
<1>4. CASE Start \/ Stop \/ StopReturns \/ StopTimesOut \/ Pause \/ Resume
  <2>1. UNCHANGED <<registered, quit, cancelled, next, todo, silent>>
    BY <1>4 DEF Start, Stop, StopReturns, StopTimesOut, Pause, Resume, Notifying, batch, drops
  <2> QED
    BY <1>1, <2>1
<1>5. CASE Unregister
  BY <1>5 DEF Unregister, Notifying, batch, drops, SilentInv
<1>6. ASSUME NEW n \in Notifiers,
             ApplyInline(n) \/ InlineFails(n) \/ InlineDone(n) \/ NotifyReturns(n)
      PROVE  SilentInv'
  <2>1. UNCHANGED <<registered, quit, cancelled, next, todo, silent>>
    BY <1>6 DEF ApplyInline, InlineFails, InlineDone, NotifyReturns, live, batch, drops
  <2> QED
    BY <1>1, <2>1
<1>7. ASSUME NEW n \in Notifiers, NEW x, UNCHANGED <<registered, quit, cancelled, next>>,
             todo' = [todo EXCEPT ![n] = x], Range(x) \subseteq Range(todo[n]),
             registered => silent' \subseteq silent \cup (cancelled \cap Range(todo[n]))
      PROVE  SilentInv'
  <2>1. todo'[n] = x /\ \A m \in Notifiers \ {n} : todo'[m] = todo[m]
    BY <1>0, <1>7 DEF LiveTypes
  <2>2. ASSUME NEW m \in Notifiers PROVE Range(todo'[m]) \subseteq Range(todo[m])
    BY <1>7, <2>1
  <2>3. \A m \in Notifiers : \A d, e \in Range(todo'[m]) : d \in cancelled' => e \in cancelled'
    BY <1>7, <2>2 DEF SilentInv
  <2> QED
    BY <1>7, <2>3 DEF SilentInv
<1>8. ASSUME NEW n \in Notifiers, NEW S, GiveUp(n, S), UNCHANGED <<registered, quit, cancelled, next>>,
             \/ ~ registered \/ Range(todo[n]) \subseteq S
             \/ todo[n] # <<>> /\ Head(todo[n]) \in cancelled
      PROVE  SilentInv'
  <2>1. todo' = [todo EXCEPT ![n] = <<>>] /\ silent' = silent \cup (Range(todo[n]) \ S) /\ Range(<<>>) = {}
    BY <1>8 DEF GiveUp, Range
  <2>2. todo[n] # <<>> => Head(todo[n]) \in Range(todo[n])
    BY <1>0, PartFacts DEF LiveTypes
  <2>3. registered => Range(todo[n]) \ S \subseteq cancelled \cap Range(todo[n])
    BY <1>8, <2>2 DEF SilentInv
  <2>4. registered => silent' \subseteq silent \cup (cancelled \cap Range(todo[n]))
    BY <2>1, <2>3
  <2>5. Range(<<>>) \subseteq Range(todo[n])
    BY <2>1
  <2> QED
    BY <1>7, <1>8, <2>1, <2>4, <2>5
<1>9. ASSUME NEW n \in Notifiers, NotifyLive(n) PROVE SilentInv'
  <2>1. CASE registered
    BY <1>1, <1>9, <2>1 DEF NotifyLive, live, batch
  <2>2. CASE ~ registered
    BY <1>8, <1>9, <2>2 DEF NotifyLive, live, batch
  <2> QED
    BY <2>1, <2>2
<1>10. ASSUME NEW n \in Notifiers, Turn(n) PROVE SilentInv'
  <2>1. CASE state = "running"
    BY <1>1, <1>10, <2>1 DEF Turn, live, batch
  <2>2. CASE state # "running"
    BY <1>8, <1>10, <2>2 DEF Turn, live, batch
  <2> QED
    BY <2>1, <2>2
<1>11. ASSUME NEW n \in Notifiers, TurnMissed(n) \/ SendBreaks(n) \/ SendCancelled(n) PROVE SilentInv'
  <2>1. CASE TurnMissed(n)
    BY <1>8, <2>1 DEF TurnMissed, live, batch
  <2>2. CASE SendBreaks(n)
    BY <1>8, <2>2 DEF SendBreaks, live, batch, SilentInv
  <2>3. CASE SendCancelled(n)
    BY <1>8, <2>3 DEF SendCancelled, live, batch
  <2> QED
    BY <1>11, <2>1, <2>2, <2>3
<1>12. ASSUME NEW n \in Notifiers, DecryptFails(n) PROVE SilentInv'
  <2>1. UNCHANGED <<registered, quit, cancelled, next, silent>> /\ todo[n] \in Seq(Nat) /\ Increases(todo[n])
    BY <1>0, <1>12 DEF DecryptFails, live, batch, LiveTypes, HandsInv, Increases
  <2>2. PICK i \in 1 .. Len(todo[n]) : todo' = [todo EXCEPT ![n] = RemoveAt(todo[n], i)]
    <3>1. DOMAIN todo[n] = 1 .. Len(todo[n])
      BY <2>1
    <3> QED
      BY <1>12, <3>1, Zenon DEF DecryptFails
  <2>3. Range(RemoveAt(todo[n], i)) \subseteq Range(todo[n])
    BY <2>1, <2>2, RemoveFacts
  <2> QED
    BY <1>7, <2>1, <2>2, <2>3
<1>13. ASSUME NEW n \in Notifiers, Send(n) PROVE SilentInv'
  <2>1. UNCHANGED <<registered, quit, cancelled, next, silent>> /\ todo[n] \in Seq(Nat) /\ todo[n] # <<>>
        /\ todo' = [todo EXCEPT ![n] = Tail(todo[n])]
    BY <1>0, <1>13 DEF Send, batch, drops, LiveTypes
  <2>2. Range(Tail(todo[n])) \subseteq Range(todo[n])
    BY <2>1, PartFacts
  <2> QED
    BY <1>7, <2>1, <2>2
<1>14. ASSUME NEW n \in Notifiers, Cancel(n) PROVE SilentInv'
  <2>1. UNCHANGED <<registered, quit, next, todo, silent>> /\ cancelled' = cancelled \cup Range(todo[n])
    BY <1>14 DEF Cancel, live, batch, drops
  <2>2. Range(todo[n]) \subseteq 1 .. next - 1
    BY <1>0, Zenon DEF PlacedInv, Waiting
  <2>3. ASSUME NEW m \in Notifiers, NEW d \in Range(todo[m]), NEW e \in Range(todo[m]), d \in cancelled'
        PROVE  e \in cancelled'
    <3>1. CASE m = n
      BY <2>1, <3>1
    <3>2. CASE m # n
      <4>1. d \notin Range(todo[n])
        BY <1>0, <3>2, HandsApart DEF LiveInv
      <4> QED
        BY <2>1, <2>3, <4>1 DEF SilentInv
    <3> QED
      BY <3>1, <3>2
  <2> QED
    BY <2>1, <2>2, <2>3 DEF SilentInv
<1>15. ASSUME NEW n \in Notifiers, NEW k \in 1 .. 2, AppendBatch(n, k) PROVE SilentInv'
  <2>1. PICK new : new = [i \in 1 .. k |-> next + i - 1] /\ todo' = [todo EXCEPT ![n] = new]
    BY <1>15 DEF AppendBatch
  <2>2. UNCHANGED <<registered, quit, cancelled, silent>> /\ next' = next + k /\ next \in Nat \ {0}
    BY <1>0, <1>15 DEF AppendBatch, live, drops, LiveTypes
  <2>3. \A e \in Range(new) : e >= next /\ e \in Nat
    BY <2>1, <2>2 DEF Range
  <2>4. todo'[n] = new /\ \A m \in Notifiers \ {n} : todo'[m] = todo[m]
    BY <1>0, <2>1 DEF LiveTypes
  <2>5. \A e \in Range(new) : e \notin cancelled
    BY <2>2, <2>3 DEF SilentInv
  <2>6. cancelled' \subseteq 1 .. next' - 1
    BY <2>2 DEF SilentInv
  <2>7. \A m \in Notifiers : \A d, e \in Range(todo'[m]) : d \in cancelled' => e \in cancelled'
    BY <2>2, <2>4, <2>5 DEF SilentInv
  <2> QED
    BY <2>2, <2>6, <2>7 DEF SilentInv
<1>16. ASSUME NEW n \in Notifiers, Notifier(n) PROVE SilentInv'
  BY <1>6, <1>9, <1>10, <1>11, <1>12, <1>13, <1>14, <1>15, <1>16 DEF Notifier
<1> QED
  BY <1>2, <1>3, <1>4, <1>5, <1>16, Zenon DEF LiveNext

(* The event at the head of the channel has not left it before. *)
LEMMA HeadIsNew ==
  ASSUME LiveInv, channel # <<>>
  PROVE  Head(channel) \in Nat /\ Head(channel) # 0 /\ Head(channel) \notin Range(taken)
<1>1. /\ taken \in Seq(Nat) /\ channel \in Seq(Nat) /\ Len(taken) \in Nat /\ Len(channel) \in Nat \ {0}
      /\ Len(Flow) = Len(taken) + Len(channel) /\ Head(channel) = channel[1] /\ DOMAIN taken = 1 .. Len(taken)
  BY FlowTypes DEF LiveInv, LiveTypes
<1>2. Flow[Len(taken) + 1] = channel[1]
  <2>1. \A i \in 1 .. Len(taken) + Len(channel) :
          (taken \o channel)[i] = IF i <= Len(taken) THEN taken[i] ELSE channel[i - Len(taken)]
    BY <1>1, ConcatProperties
  <2>2. /\ Len(taken) + 1 \in 1 .. Len(taken) + Len(channel) /\ ~ (Len(taken) + 1 <= Len(taken))
        /\ (Len(taken) + 1) - Len(taken) = 1
    BY <1>1
  <2> QED
    BY <2>1, <2>2 DEF Flow
<1>3. Len(taken) + 1 \in 1 .. Len(Flow)
  BY <1>1
<1>4. Head(channel) \in 1 .. next - 1 /\ next \in Nat
  BY <1>1, <1>2, <1>3, KnownPositions DEF LiveInv, LiveTypes
<1>5. ASSUME NEW i \in 1 .. Len(taken) PROVE taken[i] # Head(channel)
  <2>1. i \in 1 .. Len(Flow) /\ i # Len(taken) + 1 /\ Flow[i] = taken[i]
    BY <1>1, FlowTypes DEF LiveInv
  <2> QED
    BY <1>1, <1>2, <1>3, <2>1, FlowDistinct
<1> QED
  BY <1>1, <1>4, <1>5 DEF Range

(* A run starts, moves on or leaves with nothing in hand. *)
LEMMA RunMoves ==
  ASSUME RunsInv, NEW g \in Goroutines, NEW w \in {"none", "run", "drain"},
         worker[g] # "none", hand[g] = 0, worker' = [worker EXCEPT ![g] = w],
         UNCHANGED <<hand, got, taken, survivors>>
  PROVE  RunsInv'
<1>1. worker'[g] = w /\ \A h \in Goroutines \ {g} : worker'[h] = worker[h]
  BY DEF RunsInv
<1>2. Alive' \subseteq Alive
  BY <1>1 DEF Alive, RunsInv
<1>3. InHand' = InHand
  BY DEF InHand
<1>4. \A h \in Goroutines : hand'[h] # 0 => worker'[h] \in {"run", "drain"}
  BY <1>1 DEF RunsInv
<1>5. worker' \in [Goroutines -> {"none", "starting", "run", "drain"}]
  BY DEF RunsInv
<1>6. survivors' = {} => \A h, k \in Alive' : h = k
  BY <1>2 DEF RunsInv
<1> QED
  BY <1>3, <1>4, <1>5, <1>6 DEF RunsInv

LEMMA RunsStep ==
  ASSUME LiveInv, RunsInv, [LiveNext]_liveVars
  PROVE  RunsInv'
<1>0. taken \in Seq(Nat) /\ channel \in Seq(Nat) /\ got \in Seq(Nat)
  BY DEF LiveInv, LiveTypes, RunsInv
<1>1. ASSUME UNCHANGED <<worker, hand, got, taken, survivors>> PROVE RunsInv'
  <2>1. Alive' = Alive /\ InHand' = InHand
    BY <1>1 DEF Alive, InHand
  <2> QED
    BY <1>1, <2>1 DEF RunsInv
<1>2. CASE UNCHANGED liveVars
  BY <1>1, <1>2 DEF liveVars
<1>3. ASSUME NEW n \in Notifiers, Notifier(n) PROVE RunsInv'
  <2>1. UNCHANGED <<worker, hand, got, taken, survivors>>
    BY <1>3 DEF Notifier, AppendBatch, ApplyInline, InlineFails, InlineDone, NotifyLive, DecryptFails, TurnMissed,
                Turn, Send, SendBreaks, SendCancelled, NotifyReturns, Cancel, live
  <2> QED
    BY <1>1, <2>1
<1>4. CASE Stop \/ StopReturns \/ StopTimesOut \/ Pause \/ Resume \/ Unregister
  <2>1. UNCHANGED <<worker, hand, got, taken, survivors>>
    BY <1>4 DEF Stop, StopReturns, StopTimesOut, Pause, Resume, Unregister
  <2> QED
    BY <1>1, <2>1
<1>5. CASE Start
  <2>1. survivors' = survivors \cup Alive /\ UNCHANGED <<hand, got, taken>>
    BY <1>5 DEF Start
  <2>2. CASE ~ registered
    <3>1. UNCHANGED worker
      BY <1>5, <2>2 DEF Start
    <3>2. Alive' = Alive /\ InHand' = InHand
      BY <2>1, <3>1 DEF Alive, InHand
    <3> QED
      BY <2>1, <3>1, <3>2 DEF RunsInv
  <2>3. CASE registered
    <3>1. PICK g \in Goroutines \ (survivors \cup Alive) : worker' = [worker EXCEPT ![g] = "starting"]
      BY <1>5, <2>3 DEF Start
    <3>2. /\ worker[g] = "none" /\ hand[g] = 0 /\ worker'[g] = "starting"
          /\ \A h \in Goroutines \ {g} : worker'[h] = worker[h]
      BY <3>1 DEF RunsInv, Alive
    <3>3. InHand' = InHand
      BY <2>1 DEF InHand
    <3>4. \A h \in Goroutines : hand'[h] # 0 => worker'[h] \in {"run", "drain"}
      BY <2>1, <3>2 DEF RunsInv
    <3>5. survivors' = {} => survivors = {} /\ \A h, k \in Alive' : h = k
      <4>1. survivors' = {} => survivors = {} /\ Alive = {}
        BY <2>1
      <4>2. \A h \in Alive' : h = g \/ h \in Alive
        BY <3>2 DEF Alive
      <4> QED
        BY <4>1, <4>2
    <3>6. worker' \in [Goroutines -> {"none", "starting", "run", "drain"}]
      BY <3>1 DEF RunsInv
    <3> QED
      BY <2>1, <3>3, <3>4, <3>5, <3>6 DEF RunsInv
  <2> QED
    BY <2>2, <2>3
<1>6. ASSUME NEW g \in Goroutines, Abort(g) PROVE RunsInv'
  BY <1>1, <1>6 DEF Abort
<1>7. ASSUME NEW g \in Goroutines, RunLiveWorker(g) PROVE RunsInv'
  <2>1. worker[g] = "starting" /\ hand[g] = 0
    BY <1>7 DEF RunLiveWorker, RunsInv
  <2> QED
    BY <1>7, <2>1, RunMoves DEF RunLiveWorker
<1>8. ASSUME NEW g \in Goroutines, StopSeen(g) \/ Drained(g) \/ Aborted(g) PROVE RunsInv'
  BY <1>8, RunMoves DEF StopSeen, Drained, Aborted
<1>9. ASSUME NEW g \in Goroutines, Receive(g) PROVE RunsInv'
  <2>1. PICK e : e = Head(channel)
    OBVIOUS
  <2>2. /\ worker[g] \in {"run", "drain"} /\ hand[g] = 0 /\ UNCHANGED <<worker, got, survivors>>
        /\ hand' = [hand EXCEPT ![g] = e] /\ taken' = Append(taken, e) /\ channel # <<>>
    BY <1>9, <2>1 DEF Receive
  <2>3. e \in Nat /\ e # 0 /\ e \notin Range(taken)
    BY <2>1, <2>2, HeadIsNew
  <2>4. hand'[g] = e /\ \A h \in Goroutines \ {g} : hand'[h] = hand[h]
    BY <2>2 DEF RunsInv
  <2>5. InHand' = InHand \cup {e}
    BY <2>2, <2>3, <2>4 DEF InHand
  <2>6. Range(taken)' = Range(taken) \cup {e}
    BY <1>0, <2>2, <2>3, GrownFacts
  <2>7. \A h \in Goroutines : hand[h] # 0 => hand[h] \in Range(taken)
    BY DEF RunsInv, InHand
  <2>8. \A h, k \in Goroutines : hand'[h] # 0 /\ hand'[h] = hand'[k] => h = k
    BY <2>3, <2>4, <2>7 DEF RunsInv
  <2>9. Range(got)' = Range(got) /\ Alive' = Alive
    BY <2>2 DEF Range, Alive
  <2>10. e \notin Range(got)
    BY <2>3 DEF RunsInv
  <2>11. survivors = {} => /\ \A h \in Goroutines \ {g} : hand[h] = 0
                          /\ got = taken
    <3>1. survivors = {} => \A h \in Goroutines \ {g} : hand[h] = 0
      BY <2>2 DEF RunsInv, Alive
    <3> QED
      BY <2>2, <3>1 DEF RunsInv, InHand
  <2>12. survivors' = {} => /\ InHand' = {} => got' = taken'
                           /\ \A h \in Goroutines : hand'[h] # 0 => taken' = Append(got', hand'[h])
    BY <2>2, <2>4, <2>5, <2>11
  <2>13. hand' \in [Goroutines -> Nat]
    BY <2>2, <2>3 DEF RunsInv
  <2>14. \A h \in Goroutines : hand'[h] # 0 => worker'[h] \in {"run", "drain"}
    BY <2>2, <2>4 DEF RunsInv
  <2> QED
    BY <2>2, <2>5, <2>6, <2>8, <2>9, <2>10, <2>12, <2>13, <2>14 DEF RunsInv
<1>10. ASSUME NEW g \in Goroutines, Deliver(g) PROVE RunsInv'
  <2>1. PICK e : e = hand[g]
    OBVIOUS
  <2>2. /\ e # 0 /\ got' = Append(got, e) /\ hand' = [hand EXCEPT ![g] = 0] /\ UNCHANGED <<worker, taken, survivors>>
    BY <1>10, <2>1 DEF Deliver
  <2>3. hand'[g] = 0 /\ \A h \in Goroutines \ {g} : hand'[h] = hand[h]
    BY <2>2 DEF RunsInv
  <2>4. e \in Nat /\ e \in InHand /\ \A h \in Goroutines \ {g} : hand[h] # e
    BY <2>1, <2>2 DEF RunsInv, InHand
  <2>5. InHand' = InHand \ {e}
    BY <2>1, <2>2, <2>3, <2>4 DEF InHand
  <2>6. Range(got)' = Range(got) \cup {e} /\ got' \in Seq(Nat)
    BY <1>0, <2>2, <2>4, GrownFacts
  <2>7. Range(taken)' = Range(taken) /\ Alive' = Alive
    BY <2>2 DEF Range, Alive
  <2>8. survivors = {} => (\A h \in Goroutines \ {g} : hand[h] = 0) /\ taken = Append(got, e)
    BY <2>1, <2>2 DEF RunsInv, Alive
  <2>9. survivors' = {} => /\ InHand' = {} => got' = taken'
                          /\ \A h \in Goroutines : hand'[h] # 0 => taken' = Append(got', hand'[h])
    BY <2>2, <2>3, <2>8
  <2>10. hand' \in [Goroutines -> Nat]
    BY <2>2 DEF RunsInv
  <2>11. /\ \A h \in Goroutines : hand'[h] # 0 => worker'[h] \in {"run", "drain"}
         /\ \A h, k \in Goroutines : hand'[h] # 0 /\ hand'[h] = hand'[k] => h = k
    BY <2>2, <2>3 DEF RunsInv
  <2>12. Range(taken)' = Range(got)' \cup InHand' /\ Range(got)' \cap InHand' = {}
    BY <2>4, <2>5, <2>6, <2>7 DEF RunsInv
  <2> QED
    BY <2>2, <2>6, <2>7, <2>9, <2>10, <2>11, <2>12 DEF RunsInv
<1> QED
  BY <1>2, <1>3, <1>4, <1>5, <1>6, <1>7, <1>8, <1>9, <1>10, Zenon DEF LiveNext, Worker

LEMMA LiveAccounts == LiveInv /\ SilentInv /\ RunsInv => EveryEventAccounted
<1> SUFFICES ASSUME LiveInv, SilentInv, RunsInv PROVE EveryEventAccounted
  OBVIOUS
<1>0. LiveTypes /\ PlacedInv /\ HandsInv /\ FlowInv /\ CellInv /\ AppliedInv
  BY DEF LiveInv
<1>1. 1 .. next - 1 = Range(taken) \cup Range(channel) \cup Waiting \cup lost \cup silent
  BY <1>0 DEF PlacedInv
<1>2. Len(taken) + Len(channel) = Cardinality(Range(taken) \cup Range(channel))
  BY <1>0, FlowTypes, FlowCounts
<1>3. (Range(taken) \cup Range(channel)) \cap (Waiting \cup lost \cup silent) = {}
  <2>1. \A n \in Notifiers : \A e \in Range(todo[n]) : e \notin Range(taken) \cup Range(channel)
    BY <1>0, HandsApart, FlowTypes, Zenon
  <2>2. \A e \in Waiting : e \notin Range(taken) \cup Range(channel)
    BY <2>1 DEF Waiting
  <2> QED
    BY <1>0, <2>2, Zenon DEF PlacedInv
<1>4. Waiting \cap (lost \cup silent) = {} /\ lost \cap silent = {}
  BY <1>0, Zenon DEF PlacedInv
<1>5. taken \in Seq(Nat) /\ got \in Seq(Nat) /\ DOMAIN taken = 1 .. Len(taken) /\ DOMAIN got = 1 .. Len(got)
  BY <1>0 DEF LiveTypes, RunsInv
<1>6. \A i, j \in DOMAIN taken : i < j /\ owner[taken[i]].by = owner[taken[j]].by => taken[i] < taken[j]
  <2>1. \A i \in 1 .. Len(taken) : i \in 1 .. Len(Flow) /\ Flow[i] = taken[i]
    BY <1>0, FlowTypes
  <2> QED
    BY <1>0, <1>5, <2>1 DEF FlowInv
<1>7. survivors = {} => \A i \in DOMAIN got : i \in DOMAIN taken /\ got[i] = taken[i]
  <2> SUFFICES ASSUME survivors = {} PROVE \A i \in DOMAIN got : i \in DOMAIN taken /\ got[i] = taken[i]
    OBVIOUS
  <2>1. CASE InHand = {}
    BY <2>1 DEF RunsInv
  <2>2. CASE InHand # {}
    <3>1. PICK g \in Goroutines : hand[g] # 0 /\ hand[g] \in Nat /\ taken = Append(got, hand[g])
      BY <2>2 DEF InHand, RunsInv
    <3> QED
      BY <1>5, <3>1, GrownFacts
  <2> QED
    BY <2>1, <2>2
<1>8. survivors = {} => \A i, j \in DOMAIN got : i < j /\ owner[got[i]].by = owner[got[j]].by => got[i] < got[j]
  BY <1>6, <1>7
<1>9. registered => silent \subseteq cancelled
  BY DEF SilentInv
<1>10. Range(taken) = Range(got) \cup InHand /\ Range(got) \cap InHand = {}
  BY DEF RunsInv
<1> QED
  BY <1>0, <1>1, <1>2, <1>3, <1>4, <1>6, <1>8, <1>9, <1>10, Zenon
     DEF EveryEventAccounted, Waiting, InHand, AppliedInv

LEMMA LiveStart == LiveInit => LiveInv /\ SilentInv /\ RunsInv /\ StopDrains
<1> SUFFICES ASSUME LiveInit PROVE SilentInv /\ RunsInv /\ StopDrains
  BY LiveInitOK
<1>1. Range(<<>>) = {} /\ Alive = {} /\ InHand = {}
  BY DEF LiveInit, Range, Alive, InHand
<1>2. SilentInv
  BY <1>1 DEF LiveInit, SilentInv
<1>3. RunsInv
  BY <1>1 DEF LiveInit, RunsInv
<1>4. StopDrains
  BY <1>1 DEF LiveInit, StopDrains
<1> QED
  BY <1>2, <1>3, <1>4

(* Every appended event is once out of the worker's channel, in it, in its *)
(* notifier's hands, named in a log line as dropped, or dropped without a  *)
(* word; the last only after its notifying call lost its context or the    *)
(* projection was unregistered. The events of one notifier leave the       *)
(* channel in append order and reach OnEvent in it unless the engine was   *)
(* started over a run that a timed-out Stop left behind, and inline        *)
(* projections see a batch from its front: for any number of notifiers,    *)
(* runs, projections and events and any channel (NotifyLiveProjections,    *)
(* runLiveWorker, Stop, ProcessInlineProjections).                         *)
THEOREM NoEventVanishes == LiveSpec => []EveryEventAccounted
<1>1. LiveInit => LiveInv /\ SilentInv /\ RunsInv
  BY LiveStart
<1>2. LiveInv /\ SilentInv /\ RunsInv /\ [LiveNext]_liveVars => (LiveInv /\ SilentInv /\ RunsInv)'
  BY LiveStep, SilentStep, RunsStep
<1>3. LiveInv /\ SilentInv /\ RunsInv => EveryEventAccounted
  BY LiveAccounts
<1> QED
  BY <1>1, <1>2, <1>3, PTL DEF LiveSpec

LEMMA DrainStep ==
  ASSUME channel \in Seq(Nat), todo \in [Notifiers -> Seq(Nat)], RunsInv, StopDrains, [LiveNext]_liveVars
  PROVE  StopDrains'
<1>1. ASSUME UNCHANGED <<channel, late>>, Alive' = {} => Alive = {} PROVE StopDrains'
  BY <1>1 DEF StopDrains
<1>2. CASE UNCHANGED liveVars
  BY <1>1, <1>2 DEF liveVars, Alive
<1>3. CASE Stop \/ StopReturns \/ StopTimesOut \/ Pause \/ Resume \/ Unregister
  BY <1>1, <1>3 DEF Stop, StopReturns, StopTimesOut, Pause, Resume, Unregister, Alive
<1>4. CASE Start
  <2>1. UNCHANGED <<channel, late>>
    BY <1>4 DEF Start
  <2>2. ASSUME NEW g \in Alive PROVE worker'[g] # "none"
    BY <1>4 DEF Start, Alive, RunsInv
  <2> QED
    BY <1>1, <2>1, <2>2 DEF Alive
<1>5. ASSUME NEW g \in Goroutines, Receive(g) \/ Deliver(g) PROVE StopDrains'
  <2>1. worker' = worker /\ worker[g] # "none"
    BY <1>5 DEF Receive, Deliver, RunsInv
  <2> QED
    BY <2>1 DEF StopDrains, Alive
<1>6. ASSUME NEW g \in Goroutines, RunLiveWorker(g) \/ StopSeen(g) PROVE StopDrains'
  <2>1. worker'[g] # "none"
    BY <1>6 DEF RunLiveWorker, StopSeen, RunsInv
  <2> QED
    BY <2>1 DEF StopDrains, Alive
<1>7. ASSUME NEW g \in Goroutines, Abort(g) PROVE StopDrains'
  BY <1>1, <1>7 DEF Abort, Alive
<1>8. ASSUME NEW g \in Goroutines, Drained(g) PROVE StopDrains'
  <2>1. channel' = <<>> /\ Range(<<>>) = {}
    BY <1>8 DEF Drained, Range
  <2> QED
    BY <2>1 DEF StopDrains
<1>9. ASSUME NEW g \in Goroutines, Aborted(g) PROVE StopDrains'
  <2>1. /\ UNCHANGED channel /\ g \in Alive /\ late \subseteq late'
        /\ Alive = {g} => late' = late \cup Range(channel)
    BY <1>9 DEF Aborted, Alive
  <2>2. \A h \in Alive \ {g} : h \in Alive'
    BY <1>9 DEF Aborted, Alive, RunsInv
  <2> QED
    BY <2>1, <2>2 DEF StopDrains
<1>10. ASSUME NEW n \in Notifiers, Send(n) PROVE StopDrains'
  <2>1. Head(todo[n]) \in Nat
    BY <1>10, PartFacts DEF Send
  <2>2. Range(channel)' = Range(channel) \cup {Head(todo[n])}
    BY <1>10, <2>1, GrownFacts DEF Send
  <2>3. Alive' = Alive /\ (Alive = {} => late' = late \cup {Head(todo[n])})
    BY <1>10 DEF Send, Alive
  <2> QED
    BY <2>2, <2>3 DEF StopDrains
<1>11. ASSUME NEW n \in Notifiers, Notifier(n) PROVE StopDrains'
  <2>1. CASE ~ Send(n)
    <3>1. UNCHANGED <<worker, channel, late>>
      BY <1>11, <2>1 DEF Notifier, AppendBatch, ApplyInline, InlineFails, InlineDone, NotifyLive, DecryptFails,
                         TurnMissed, Turn, SendBreaks, SendCancelled, NotifyReturns, Cancel, live
    <3> QED
      BY <1>1, <3>1 DEF Alive
  <2> QED
    BY <1>10, <2>1
<1> QED
  BY <1>2, <1>3, <1>4, <1>5, <1>6, <1>7, <1>8, <1>9, <1>11, Zenon DEF LiveNext, Worker

(* When no run of the live worker is left, what is in its channel was sent *)
(* after the last one left, or left there by one that lost its Start       *)
(* context (runLiveWorker, drainLiveWorker).                               *)
THEOREM StoppedWorkerDrained == LiveSpec => []StopDrains
<1>1. LiveInit => LiveInv /\ RunsInv /\ StopDrains
  BY LiveStart
<1>2. LiveInv /\ RunsInv /\ StopDrains /\ [LiveNext]_liveVars => (LiveInv /\ RunsInv /\ StopDrains)'
  BY LiveStep, RunsStep, DrainStep DEF LiveInv, LiveTypes
<1> QED
  BY <1>1, <1>2, PTL DEF LiveSpec

===============================================================================
