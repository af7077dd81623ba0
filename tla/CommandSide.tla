----------------------------- MODULE CommandSide -----------------------------
(***************************************************************************)
(* From a dispatched command to durable events and outbox messages: the    *)
(* command bus with its recovery, audit, timeout and retry middleware, the *)
(* aggregate handler (load, execute, save), the event store facade with    *)
(* schema stamps and event types, the outbox-aware store and the append of *)
(* the adapter. Several processes run their own bus and store on one       *)
(* event stream; a process is one deployed version of the program, whose   *)
(* event structs have a form (a schema version) and whose upcasters lead   *)
(* up to it.                                                               *)
(***************************************************************************)
EXTENDS SchemaVersions, Sequences

CONSTANTS Commands, Procs,
          Code,          \* the form of the event structs of a process
          Setups,        \* configurations of the store, records of Booleans: routed (saves go
                         \* through EventStoreWithOutbox, otherwise through EventStore), atomic
                         \* (the adapter is an OutboxAppender), strict (WithStrictReplay), auto
                         \* (WithAutoRegisterOnAppend), honour (WithCallerSchemaVersion),
                         \* audit ("off", "open": failing writes are logged, "closed"),
                         \* and of what is registered at the start: chain, known
          CallerStamps,  \* stamps a caller may put into the metadata
          Raises,        \* how many events a command raises
          MaxAttempts,   \* attempts of the retry middleware
          MaxFaults      \* bound on what happens beside the dispatches: failing calls, crashes,
                         \* timeouts, closing, registering event types, importing

ASSUME CodeAssumption == Code \in [Procs -> Nat \ {0}]
ASSUME SetupsAssumption == \A o \in Setups : o.audit \in {"off", "open", "closed"}

Import == "import"            \* who appended, when it was no command
ASSUME ImportAssumption == Import \notin Commands
ASSUME AttemptsAssumption == MaxAttempts \in Nat \ {0} /\ Raises \in [Commands -> Nat \ {0}]

VARIABLES option,
          bus,        \* per process: "open", "closing", "closed"
          chain,      \* per process: registered upcasters
          known,      \* processes whose serializer resolves the event type
          call,       \* per command: the dispatch
          stream,     \* the stored events
          outbox,     \* scheduled messages, by the event they are of
          logged,     \* events whose message a failing Transform dropped
          warned,     \* <<process, event>>: replays that skipped an event
          raced,      \* <<command, attempt, event>>: the type was registered between the
                      \* two looks a replay takes at the registry for this event
          doubt,      \* commands told of a failure although events are stored
          trail,      \* audit entries: <<command, success>>
          dropped,    \* commands that left no entry: the write failed, or the handler panicked
          faults

vars == <<option, bus, chain, known, call, stream, outbox, logged, warned, raced, doubt, trail, dropped, faults>>
store == <<stream, outbox, logged, doubt>>
audit == <<trail, dropped>>

Idle == [pc |-> "idle", proc |-> CHOOSE p \in Procs : TRUE, attempt |-> 0, version |-> 0, seen |-> {},
         at |-> 0, typed |-> FALSE, raised |-> 0, expired |-> FALSE, answer |-> "none"]
Upcasters(p) == 1 .. Code[p] - 1

Init ==
  /\ option \in Setups
  /\ chain = option.chain /\ known = option.known
  /\ bus = [p \in Procs |-> "open"]
  /\ call = [c \in Commands |-> Idle]
  /\ stream = <<>> /\ outbox = {} /\ logged = {} /\ warned = {} /\ raced = {} /\ doubt = {}
  /\ trail = {} /\ dropped = {} /\ faults = 0

Fault == faults < MaxFaults /\ faults' = faults + 1
InFlight(c) == call[c].pc \in {"load", "decode", "apply", "execute", "save", "schedule", "wait", "audit"}
Answers == {"done", "failed", "rejected"}

\* The chain is left with an answer: where it is audited, AuditMiddleware comes next.
Leave(r, l) ==
  IF option.audit # "off" /\ l \in Answers THEN [r EXCEPT !.pc = "audit", !.answer = l]
  ELSE [r EXCEPT !.pc = l]
To(c, l) == call' = [call EXCEPT ![c] = Leave(@, l)]

\* RetryMiddleware: an error, returned or in the result, is tried again up to
\* MaxAttempts, unless ShouldRetry says no; the last one is the caller's.
Fail(c) ==
  \/ call[c].attempt < MaxAttempts /\ To(c, "wait")
  \/ To(c, "failed")

-----------------------------------------------------------------------------
(* The bus. *)

\* Dispatch on an open bus: in flight from here on.
Dispatch(c, p) ==
  /\ call[c].pc = "idle" /\ bus[p] = "open"
  /\ call' = [call EXCEPT ![c] = [Idle EXCEPT !.pc = "load", !.proc = p, !.attempt = 1]]
  /\ UNCHANGED <<bus, chain, known, warned, raced, faults>> /\ UNCHANGED store /\ UNCHANGED audit /\ UNCHANGED option

\* A command that never reaches its handler.
Reject(c) ==
  /\ call[c].pc = "idle" /\ To(c, "rejected")
  /\ UNCHANGED <<bus, chain, known, warned, raced>> /\ UNCHANGED store /\ UNCHANGED audit /\ UNCHANGED option

\* The bus is closed, or has no handler: no middleware sees the command.
Refused(c, p) ==
  /\ call[c].pc = "idle" /\ bus[p] # "open"
  /\ call' = [call EXCEPT ![c].pc = "rejected"]
  /\ UNCHANGED <<bus, chain, known, warned, raced, faults>> /\ UNCHANGED store /\ UNCHANGED audit /\ UNCHANGED option

\* Validate, or a required tenant that is missing.
ValidationMiddleware(c) == Fault /\ Reject(c)
TenantMiddleware(c) == Fault /\ Reject(c)

Close(p) ==
  /\ bus[p] = "open" /\ Fault
  /\ bus' = [bus EXCEPT ![p] = "closing"]
  /\ UNCHANGED <<chain, known, call, warned, raced>> /\ UNCHANGED store /\ UNCHANGED audit /\ UNCHANGED option

CloseReturns(p) ==
  /\ bus[p] = "closing" /\ \A c \in Commands : InFlight(c) => call[c].proc # p
  /\ bus' = [bus EXCEPT ![p] = "closed"]
  /\ UNCHANGED <<chain, known, call, warned, raced, faults>> /\ UNCHANGED store /\ UNCHANGED audit /\ UNCHANGED option

\* TimeoutMiddleware: the context's deadline passes.
Timeout(c) ==
  /\ InFlight(c) /\ ~call[c].expired /\ Fault
  /\ call' = [call EXCEPT ![c].expired = TRUE]
  /\ UNCHANGED <<bus, chain, known, warned, raced>> /\ UNCHANGED store /\ UNCHANGED audit /\ UNCHANGED option

\* Mutant: a command that succeeded is tried again too.
RetryAnyway(c) ==
  /\ call[c].pc \in {"wait", "done"} /\ ~call[c].expired /\ call[c].attempt < MaxAttempts
  /\ call' = [call EXCEPT ![c].pc = "load", ![c].attempt = @ + 1]
  /\ UNCHANGED <<bus, chain, known, warned, raced, faults>> /\ UNCHANGED store /\ UNCHANGED audit /\ UNCHANGED option

\* The delay is over: the handler starts again with a fresh aggregate.
Retry(c) ==
  /\ call[c].pc = "wait"
  /\ call' = [call EXCEPT ![c].pc = "load", ![c].attempt = @ + 1]
  /\ UNCHANGED <<bus, chain, known, warned, raced, faults>> /\ UNCHANGED store /\ UNCHANGED audit /\ UNCHANGED option

RetryGivesUp(c) ==
  /\ call[c].pc = "wait" /\ call[c].expired
  /\ To(c, "failed")
  /\ UNCHANGED <<bus, chain, known, warned, raced, faults>> /\ UNCHANGED store /\ UNCHANGED audit /\ UNCHANGED option

-----------------------------------------------------------------------------
(* AggregateHandler: LoadAggregate, the executor, SaveAggregate. *)

\* Load of the adapter: the events after a version.
Load(from) == {i \in DOMAIN stream : i > from}

\* The serializer knows the type; otherwise an event decodes to a map.
Resolves(p) == p \in known

\* The events of the stream as they are now; they are replayed one by one.
LoadAggregate(c) ==
  /\ call[c].pc = "load" /\ ~call[c].expired
  /\ LET events == Load(0)
     IN call' = [call EXCEPT ![c].pc = IF events = {} THEN "execute" ELSE "decode",
                             ![c].version = Cardinality(events), ![c].seen = {}, ![c].at = 1]
  /\ UNCHANGED <<bus, chain, known, warned, raced, faults>> /\ UNCHANGED store /\ UNCHANGED audit /\ UNCHANGED option

\* The upcasters of the process lead from the event's stamp to its own form.
Decodes(p, i) == NoGap(chain[p], GetSchemaVersion(stream[i].stamp))

\* The next event becomes a struct or a map: the first look at the registry.
deserializeWithUpcast(c) ==
  LET p == call[c].proc
  IN /\ call[c].pc = "decode" /\ Decodes(p, call[c].at)
     /\ call' = [call EXCEPT ![c].pc = "apply", ![c].typed = Resolves(p)]
     /\ UNCHANGED <<bus, chain, known, warned, raced, faults>> /\ UNCHANGED store /\ UNCHANGED audit /\ UNCHANGED option

\* isUnresolvedReplayType, the second look: whether the type is known by now,
\* not what the event was decoded to.
isUnresolvedReplayType(p) == ~Resolves(p)

\* The event is applied; ApplyEvent drops a map. An unresolved type is warned
\* of, and the event counts for the version all the same.
ApplyEvent(c) ==
  LET p == call[c].proc
      i == call[c].at
  IN /\ call[c].pc = "apply"
     /\ ~(option.strict /\ isUnresolvedReplayType(p))
     /\ warned' = IF isUnresolvedReplayType(p) THEN warned \cup {<<p, i>>} ELSE warned
     /\ call' = [call EXCEPT ![c].pc = IF i = call[c].version THEN "execute" ELSE "decode", ![c].at = i + 1,
                             ![c].seen = IF call[c].typed THEN @ \cup {i} ELSE @]
     /\ UNCHANGED <<bus, chain, known, raced, faults>> /\ UNCHANGED store /\ UNCHANGED audit /\ UNCHANGED option

\* Load fails, an event cannot be decoded or applied, or strict replay stops at it.
LoadFails(c) ==
  LET p == call[c].proc
  IN /\ call[c].pc \in {"load", "decode", "apply"}
     /\ \/ /\ \/ call[c].pc = "load" /\ call[c].expired
              \/ call[c].pc = "decode" /\ ~Decodes(p, call[c].at)
              \/ call[c].pc = "apply" /\ option.strict /\ isUnresolvedReplayType(p)
           /\ UNCHANGED faults
        \/ Fault
     /\ Fail(c)
     /\ UNCHANGED <<bus, chain, known, warned, raced>> /\ UNCHANGED store /\ UNCHANGED audit /\ UNCHANGED option

\* The executor raises events (AggregateBase.Apply), which leaves Version() alone.
Execute(c) ==
  /\ call[c].pc = "execute"
  /\ call' = [call EXCEPT ![c].pc = "save", ![c].raised = Raises[c]]
  /\ UNCHANGED <<bus, chain, known, warned, raced, faults>> /\ UNCHANGED store /\ UNCHANGED audit /\ UNCHANGED option

\* It refuses the command, or panics under a RecoveryMiddleware placed outside
\* of the retries: inside of the audit the panic is a failure like any other,
\* outside it leaves no entry.
ExecuteFails(c) ==
  /\ call[c].pc = "execute" /\ Fault
  /\ \/ Fail(c) /\ UNCHANGED dropped
     \/ /\ option.audit # "off"
        /\ call' = [call EXCEPT ![c].pc = "failed"]
        /\ dropped' = dropped \cup {c}
  /\ UNCHANGED <<bus, chain, known, warned, raced, trail>> /\ UNCHANGED store /\ UNCHANGED option

-----------------------------------------------------------------------------
(* AuditMiddleware, around everything but the recovery. *)

\* The entry says what the chain below answered, after all its retries.
AuditEntry(c) == <<c, call[c].answer = "done">>

\* Append of the audit store.
AuditAppend(c) ==
  /\ call[c].pc = "audit"
  /\ trail' = trail \cup {AuditEntry(c)}
  /\ call' = [call EXCEPT ![c].pc = call[c].answer]
  /\ UNCHANGED <<bus, chain, known, warned, raced, dropped, faults>> /\ UNCHANGED store /\ UNCHANGED option

\* foldAuditFailure: under FailClosed a failing write makes every answer a failure.
foldAuditFailure(answer) == IF option.audit = "closed" /\ answer = "done" THEN "failed" ELSE answer

\* The write fails, or the caller's context is over: the command has run already.
AuditFails(c) ==
  /\ call[c].pc = "audit"
  /\ \/ call[c].expired /\ UNCHANGED faults
     \/ Fault
  /\ dropped' = dropped \cup {c}
  /\ doubt' = IF foldAuditFailure(call[c].answer) # call[c].answer THEN doubt \cup {c} ELSE doubt
  /\ call' = [call EXCEPT ![c].pc = foldAuditFailure(call[c].answer)]
  /\ UNCHANGED <<bus, chain, known, warned, raced, stream, outbox, logged, trail>> /\ UNCHANGED option

-----------------------------------------------------------------------------
(* SaveAggregate: schema stamps, messages, the append. *)

\* The registry learns the type; replays of the process may be between their
\* two looks at it.
Learn(p) ==
  /\ known' = known \cup {p}
  /\ raced' = raced \cup {<<c, call[c].attempt, call[c].at>> :
                c \in {d \in Commands : call[d].proc = p /\ call[d].pc = "apply" /\ ~call[d].typed}}

\* autoRegisterEvents, before anything can fail: Append and SaveAggregate of
\* EventStore call it, those of EventStoreWithOutbox do not.
autoRegisterEvents(p) == IF option.auto THEN Learn(p) ELSE UNCHANGED <<known, raced>>
SaveRegisters(p) == IF option.routed THEN UNCHANGED <<known, raced>> ELSE autoRegisterEvents(p)

\* SerializeEvent and prepareEventData: an event as it goes to the adapter. The
\* last two fields are ghosts: what its decision rests on, and whether the
\* process had all its upcasters.
prepareEventData(p, form, stamp, id, basis) ==
  [cmd |-> id[1], attempt |-> id[2], n |-> id[3], by |-> p, form |-> form,
   stamp |-> applySchemaVersionPolicy(HasUpcasters(chain[p]), chain[p], stamp, option.honour),
   basis |-> basis, complete |-> chain[p] = Upcasters(p)]

\* The uncommitted events, with no metadata of the caller.
Batch(c) ==
  [k \in 1 .. call[c].raised |->
     prepareEventData(call[c].proc, Code[call[c].proc], Unstamped, <<c, call[c].attempt, k>>,
                      call[c].seen)]

\* The message a route makes of an event.
MessageOf(e) == <<e.cmd, e.attempt, e.n>>

\* buildOutboxMessagesFromRecords: one message per event, except where Transform
\* fails; a plain EventStore makes none.
buildOutboxMessages(batch, lost) ==
  IF option.routed THEN {MessageOf(batch[k]) : k \in DOMAIN batch \ lost} ELSE {}
TransformFails(batch, lost) ==
  \/ lost = {} /\ UNCHANGED <<logged, faults>>
  \/ lost # {} /\ option.routed /\ Fault /\ logged' = logged \cup {MessageOf(batch[k]) : k \in lost}

\* Mutant: the version is not compared.
AlwaysExpected(c) == TRUE

\* CheckVersion of the adapter with expectedVersion = agg.Version().
ExpectedVersion(c) == Len(stream) = call[c].version

\* Mutant: messages go out before the version is checked.
ConflictScheduled(c) ==
  /\ call[c].pc = "save" /\ ~ExpectedVersion(c)
  /\ SaveRegisters(call[c].proc)
  /\ Fail(c)
  /\ outbox' = outbox \cup buildOutboxMessages(Batch(c), {})
  /\ UNCHANGED <<bus, chain, warned, faults, stream, logged, doubt>> /\ UNCHANGED audit /\ UNCHANGED option

\* Another command was faster.
Conflict(c) ==
  /\ call[c].pc = "save" /\ ~ExpectedVersion(c)
  /\ SaveRegisters(call[c].proc)
  /\ Fail(c)
  /\ UNCHANGED <<bus, chain, warned, faults>> /\ UNCHANGED store /\ UNCHANGED audit /\ UNCHANGED option

\* appendLocked: the events at the end of the stream.
appendLocked(batch) == stream' = stream \o batch

\* AppendWithOutbox: events and messages under one lock or in one transaction.
AppendWithOutbox(batch, messages) == appendLocked(batch) /\ outbox' = outbox \cup messages

\* The aggregate after a save: its new version, nothing uncommitted.
Saved(c, l) ==
  call' = [call EXCEPT ![c] = Leave([call[c] EXCEPT !.version = @ + call[c].raised], l)]

\* SaveAggregate: events and messages in one step when the adapter can, else
\* the events first.
SaveAggregate(c) ==
  /\ call[c].pc = "save" /\ ExpectedVersion(c) /\ ~call[c].expired
  /\ SaveRegisters(call[c].proc)
  /\ \E lost \in {{}, {1}} :
       LET batch == Batch(c)
           messages == buildOutboxMessages(batch, lost)
       IN /\ TransformFails(batch, lost)
          /\ IF option.atomic THEN AppendWithOutbox(batch, messages) ELSE appendLocked(batch) /\ UNCHANGED outbox
          /\ Saved(c, IF option.atomic \/ messages = {} THEN "done" ELSE "schedule")
  /\ UNCHANGED <<bus, chain, warned, doubt>> /\ UNCHANGED audit /\ UNCHANGED option

\* The append fails: serialization, size, context, or the database.
SaveFails(c) ==
  /\ call[c].pc = "save"
  /\ \/ call[c].expired /\ UNCHANGED faults
     \/ Fault
  /\ SaveRegisters(call[c].proc)
  /\ Fail(c)
  /\ UNCHANGED <<bus, chain, warned>> /\ UNCHANGED store /\ UNCHANGED audit /\ UNCHANGED option

\* The commit went through and its answer was lost.
SaveUnclear(c) ==
  /\ call[c].pc = "save" /\ ExpectedVersion(c) /\ ~call[c].expired /\ Fault
  /\ SaveRegisters(call[c].proc)
  /\ IF option.atomic THEN AppendWithOutbox(Batch(c), buildOutboxMessages(Batch(c), {}))
                      ELSE appendLocked(Batch(c)) /\ UNCHANGED outbox
  /\ doubt' = doubt \cup {c}
  /\ Fail(c)
  /\ UNCHANGED <<bus, chain, warned, logged>> /\ UNCHANGED audit /\ UNCHANGED option

\* The fallback: Schedule, as a step of its own; the aggregate keeps its old
\* version and its uncommitted events when it fails.
Schedule(c) ==
  /\ call[c].pc = "schedule"
  /\ outbox' = outbox \cup {MessageOf(stream[i]) : i \in {j \in DOMAIN stream :
                              stream[j].cmd = c /\ stream[j].attempt = call[c].attempt
                              /\ MessageOf(stream[j]) \notin logged}}
  /\ To(c, "done")
  /\ UNCHANGED <<bus, chain, known, warned, raced, faults, stream, logged, doubt>> /\ UNCHANGED audit /\ UNCHANGED option

ScheduleFails(c) ==
  /\ call[c].pc = "schedule"
  /\ \/ call[c].expired /\ UNCHANGED faults
     \/ Fault
  /\ doubt' = doubt \cup {c}
  /\ Fail(c)
  /\ UNCHANGED <<bus, chain, known, warned, raced, stream, outbox, logged>> /\ UNCHANGED audit /\ UNCHANGED option

\* EventStore.Append by a tool, at any version, with a stamp of its own; where
\* such stamps are honoured the tool's data is of that form.
AppendImported(p, stamp) ==
  /\ (\A i \in DOMAIN stream : stream[i].cmd # Import) /\ Fault
  /\ autoRegisterEvents(p)
  /\ LET form == IF option.honour /\ ExplicitVersionValid(stamp, LatestVersion(chain[p])) THEN stamp ELSE Code[p]
     IN appendLocked(<<prepareEventData(p, form, stamp, <<Import, 1, 1>>, DOMAIN stream)>>)
  /\ UNCHANGED <<bus, chain, call, warned, outbox, logged, doubt>> /\ UNCHANGED audit /\ UNCHANGED option

-----------------------------------------------------------------------------
(* The process. *)

\* RegisterUpcasters: one upcaster at a time, in any order, beside appends and loads.
RegisterUpcaster(p, u) ==
  /\ CanRegister(chain[p], u)
  /\ chain' = [chain EXCEPT ![p] = @ \cup {u}]
  /\ UNCHANGED <<bus, known, call, warned, raced, faults>> /\ UNCHANGED store /\ UNCHANGED audit /\ UNCHANGED option

RegisterEvents(p) ==
  /\ p \notin known /\ Fault /\ Learn(p)
  /\ UNCHANGED <<bus, chain, call, warned>> /\ UNCHANGED store /\ UNCHANGED audit /\ UNCHANGED option

\* The process dies with its calls and starts again, with what init registers.
Crash(p) ==
  /\ Fault
  /\ \E c \in Commands : InFlight(c) /\ call[c].proc = p
  /\ call' = [c \in Commands |-> IF InFlight(c) /\ call[c].proc = p THEN [call[c] EXCEPT !.pc = "crashed"] ELSE call[c]]
  /\ bus' = [bus EXCEPT ![p] = "open"]
  /\ chain' = [chain EXCEPT ![p] = Upcasters(p)]
  /\ known' = known \ {p}
  /\ UNCHANGED <<warned, raced>> /\ UNCHANGED store /\ UNCHANGED audit /\ UNCHANGED option

Step(c) == \/ LoadAggregate(c) \/ deserializeWithUpcast(c) \/ ApplyEvent(c) \/ LoadFails(c) \/ Execute(c) \/ ExecuteFails(c) \/ Conflict(c) \/ SaveAggregate(c)
           \/ SaveFails(c) \/ SaveUnclear(c) \/ AuditAppend(c) \/ AuditFails(c) \/ Schedule(c) \/ ScheduleFails(c) \/ Retry(c) \/ RetryGivesUp(c)

Next ==
  \/ \E c \in Commands : Step(c) \/ Timeout(c) \/ (\E p \in Procs : Dispatch(c, p) \/ Refused(c, p))
                          \/ ValidationMiddleware(c) \/ TenantMiddleware(c)
  \/ \E p \in Procs : Close(p) \/ CloseReturns(p) \/ RegisterEvents(p) \/ Crash(p)
  \/ \E p \in Procs, stamp \in CallerStamps : AppendImported(p, stamp)
  \/ \E p \in Procs : \E u \in Upcasters(p) : RegisterUpcaster(p, u)

Spec == Init /\ [][Next]_vars

-----------------------------------------------------------------------------
(* Properties. *)

\* Optimistic concurrency, end to end: an event was decided on the complete
\* history before it and nothing else, whatever other commands, retries and
\* processes did between load and save. Two things let a decision rest on
\* less: replay skipped an event of an unregistered type and warned of it,
\* which strict replay never does; or the type was registered between the two
\* looks of that very replay, which then drops the event, strict or not,
\* without a word.
DecidedOnFullHistory ==
  \A i \in DOMAIN stream :
    LET e == stream[i]
        before == 1 .. i - e.n
    IN /\ e.basis \subseteq before
       /\ \A j \in before \ e.basis :
            \/ ~option.strict /\ <<e.by, j>> \in warned
            \/ <<e.cmd, e.attempt, j>> \in raced

\* Saves through the outbox store: with an OutboxAppender a message is
\* scheduled exactly when its event is stored; without one, a stored event lacks its message only while its save
\* is between the two steps, after its caller was told of a failure, or when
\* the process died there.
MessagesMatchEvents ==
  LET ids == {MessageOf(stream[i]) : i \in {j \in DOMAIN stream : stream[j].cmd # Import}}
  IN /\ outbox \subseteq ids
     /\ \A id \in ids \ (outbox \cup logged) : option.routed =>
          /\ ~option.atomic
          /\ id[1] \in doubt \/ call[id[1]].pc \in {"schedule", "crashed"}

\* The caller's answer is true, and so is the audit trail, which is complete:
\* success means exactly the events of the last attempt are stored, ending at
\* the version returned; failure or refusal means nothing is, unless the
\* outcome was unclear, only scheduling failed (then a retry stores them again)
\* or only the audit of a fail-closed bus. An answer without an entry was
\* logged or a panic, and never a success under FailClosed; no command leaves
\* two entries, whatever was retried.
AnswerIsTrue ==
  \A c \in Commands :
    LET mine == {i \in DOMAIN stream : stream[i].cmd = c}
        told(success, pcs) == <<c, success>> \in trail \/ call[c].pc \in pcs
    IN /\ told(TRUE, {"done"}) =>
            /\ {i \in mine : stream[i].attempt = call[c].attempt}
                 = call[c].version - call[c].raised + 1 .. call[c].version
            /\ c \notin doubt => \A i \in mine : stream[i].attempt = call[c].attempt
       /\ told(FALSE, {"failed", "rejected"}) /\ c \notin doubt => mine = {}
       /\ ~({<<c, TRUE>>, <<c, FALSE>>} \subseteq trail)
       /\ option.audit # "off" =>
            /\ call[c].pc = "failed" => <<c, FALSE>> \in trail \/ c \in dropped
            /\ call[c].pc = "done" => <<c, TRUE>> \in trail \/ (c \in dropped /\ option.audit = "open")

\* A process with its whole chain registered decodes to its own form every
\* event an older or equal version of the program stored with its chain
\* complete, whatever stamp the caller asked for.
DecodesRight ==
  \A p \in Procs, i \in DOMAIN stream :
    LET e == stream[i]
        v == GetSchemaVersion(e.stamp)
    IN chain[p] = Upcasters(p) /\ e.complete /\ Code[e.by] <= Code[p] =>
         NoGap(chain[p], v) /\ Upcast(chain[p], v, e.form) = Code[p]

=============================================================================
