--------------------------- MODULE AsyncProjection ---------------------------
(***************************************************************************)
(* One async projection of the engine (projection_engine.go): its worker   *)
(* under the supervising loop, Start and Stop of the engine, and operators *)
(* that pause, resume, restart, rebuild (rebuilder.go) and unregister it   *)
(* meanwhile.                                                              *)
(*                                                                         *)
(* The worker and the rebuilder share the read model, the checkpoint and   *)
(* lastPosition.  processingMu covers a batch and a rebuild, and nothing   *)
(* else: neither the worker's error handling nor the status.  The feed     *)
(* hands out every committed event in order (see PostgresStore for when    *)
(* that is so).  Apply, Clear and OnPoisonEvent are external.  An event    *)
(* that cannot be decrypted fails like one whose Apply fails.              *)
(***************************************************************************)
EXTENDS Integers, FiniteSetsExt

CONSTANTS
  LastEvent,       \* the feed grows to the events 1 .. LastEvent
  Handled,         \* the events of a type the projection handles
  BatchSize,       \* AsyncOptions.BatchSize
  ApplyBatches,    \* TRUE: the projection implements ApplyBatch
  MaxRetries,      \* AsyncOptions.MaxRetries, or the RetryPolicy's budget
  StartFromBeginning, \* AsyncOptions.StartFromBeginning
  Options,         \* the other AsyncOptions, as they are tried:
                   \*   classified: DefaultErrorClassifier is the ErrorClassifier
                   \*   restarts: RestartPolicy; 0 = nil, Forever = no limit
  Budgets          \* bounds, as they are tried:
                   \*   trouble: failing calls, expired contexts and crashes
                   \*   call: calls of Pause, Restart, Rebuild, Unregister and Stop

Events == 1 .. LastEvent
Forever == -1

ASSUME ProjectionAssumption ==
  /\ LastEvent \in Nat /\ Handled \subseteq Events
  /\ BatchSize \in Nat \ {0} /\ MaxRetries \in Nat
  /\ Budgets \subseteq [trouble : Nat, call : Nat]
  /\ {ApplyBatches, StartFromBeginning} \subseteq BOOLEAN
  /\ Options \subseteq [classified : BOOLEAN, restarts : Nat \cup {Forever}]

VARIABLES
  options,     \* what varies of the AsyncOptions it was registered with
  head,        \* the last event in the feed
  checkpoint,  \* the stored checkpoint; 0 = none
  model,       \* the events applied to the read model since it was cleared
  reported,    \* the events given to OnPoisonEvent and skipped
  state,       \* the worker's ProjectionState
  paused,      \* the worker's paused flag
  mu,          \* who holds processingMu
  w,           \* the supervising goroutine; pc = "off": supervising is false
  rebuild,     \* a call of Rebuild
  registered,  \* FALSE: Unregister removed it and closed the worker's own stopCh
  engine,      \* "stopped", "running" or "stopping"
  gen,         \* number of the engine's current stopCh
  botched,     \* history: the last rebuild failed or was cut off
  leaked,      \* history: a Stop returned before the goroutine ended
  budget       \* how many bounded steps are left

store == <<head, checkpoint, model, reported>>
aside == <<options, registered, botched, leaked>>
vars == <<store, state, paused, mu, w, rebuild, engine, gen, aside, budget>>

States == {"stopped", "running", "paused", "catching_up", "rebuilding", "faulted", "restarting"}

(***************************************************************************)
(* last, failed: lastPosition and failedEvent; errs: poisonErrors; back:   *)
(* backoffErrors > 0; err: the class of the error at hand, "canceled" once *)
(* the goroutine has ended on a context; at, to: what is left of the       *)
(* batch; ch: the engine's stopCh it selects on; resume:                   *)
(* resumeFromCheckpoint; restarts: the supervising loop's count.           *)
(***************************************************************************)
NoWorker == [pc |-> "off", last |-> 0, failed |-> 0, errs |-> 0, back |-> FALSE,
             err |-> "none", at |-> 0, to |-> 0, ch |-> 0, resume |-> FALSE, restarts |-> 0]
NoRebuild == [pc |-> "idle", pos |-> 0, wasPaused |-> FALSE]

Init ==
  /\ options \in Options
  /\ head = 0 /\ checkpoint = 0 /\ model = {} /\ reported = {}
  /\ state = "stopped" /\ paused = FALSE /\ mu = "free"
  /\ w = NoWorker /\ rebuild = NoRebuild
  /\ registered = TRUE /\ engine = "stopped" /\ gen = 0
  /\ botched = FALSE /\ leaked = FALSE
  /\ budget \in Budgets

Spend(what) == budget[what] > 0 /\ budget' = [budget EXCEPT ![what] = @ - 1]

(* The checkpoint store: an absent checkpoint reads as 0. *)
GetCheckpoint == checkpoint
SetCheckpoint(pos) == checkpoint' = pos
DeleteCheckpoint == checkpoint' = 0
ResetProjectionCheckpoint == checkpoint' = 0

(***************************************************************************)
(* What a failing call may fail of: something that passes, a deadline of   *)
(* the call's own or of a context above it, a cancelled context.  The last *)
(* two need not come from a Stop; isShutdownError takes them for one.  Of  *)
(* the classes a deadline is not transient although it calls itself        *)
(* Temporary, so that a hung event is not retried for ever.                *)
(***************************************************************************)
Errors == {"temporary", "deadline", "canceled"}
isShutdownError(err) == err \in {"deadline", "canceled"}
DefaultErrorClassifier(err) == IF err = "temporary" THEN "transient" ELSE "poison"
Class(err) == IF options.classified THEN DefaultErrorClassifier(err) ELSE "poison"

(* The goroutine enters a select that has the engine's stopCh in it. *)
Wait(r, pc) == [r EXCEPT !.pc = pc, !.ch = gen]
StopSignalled == w.ch < gen \/ engine # "running" \/ ~ registered

(* LoadEventsFromPosition(pos, BatchSize) returns pos + 1 .. Upto(pos). *)
Upto(pos) == IF pos + BatchSize < head THEN pos + BatchSize ELSE head
Todo(from, to) == {e \in Handled : from < e /\ e <= to}

-----------------------------------------------------------------------------
(* launchSupervisor starts a goroutine; its callers see to it that none is *)
(* alive (the supervising flag).                                           *)
Alive == w.pc # "off"
Launch(resume) == w' = [w EXCEPT !.pc = "start", !.err = "none", !.resume = resume, !.restarts = 0]

(* The goroutine ends; lastPosition and failedEvent stay with the worker. *)
Gone == [NoWorker EXCEPT !.last = w.last, !.failed = w.failed]

(* exitStopped on a context error: the supervising loop returns as well,   *)
(* whatever the RestartPolicy.                                             *)
ExitStopped(r) ==
  /\ state' = "stopped"
  /\ w' = [NoWorker EXCEPT !.last = r.last, !.failed = r.failed, !.err = "canceled"]

BeginRun ==
  /\ w.pc = "start"
  /\ state' = "catching_up"
  /\ w' = [w EXCEPT !.pc = "boot"]
  /\ UNCHANGED <<store, paused, mu, rebuild, engine, gen, aside, budget>>

ReadsCheckpoint == w.resume \/ ~ StartFromBeginning

(* getCheckpointWithRetry succeeds, or StartFromBeginning is honored. *)
Boot ==
  /\ w.pc = "boot"
  /\ w' = Wait([w EXCEPT !.last = IF ReadsCheckpoint THEN GetCheckpoint ELSE 0,
                         !.errs = 0, !.back = FALSE], "select")
  /\ state' = "running"
  /\ UNCHANGED <<store, paused, mu, rebuild, engine, gen, aside, budget>>

(* All of its attempts fail: a fault, never position 0.  A context error   *)
(* is not retried and ends the worker.                                     *)
BootFails ==
  /\ w.pc = "boot" /\ ReadsCheckpoint
  /\ Spend("trouble")
  /\ \E err \in Errors :
       IF isShutdownError(err) THEN ExitStopped(w)
       ELSE state' = "faulted" /\ w' = [w EXCEPT !.pc = "exit"]
  /\ UNCHANGED <<store, paused, mu, rebuild, engine, gen, aside>>

(* Mutant: a paused worker looks at nothing but its paused flag. *)
StopSeenUnlessPaused ==
  /\ w.pc \in {"select", "backoff", "restart"}
  /\ StopSignalled /\ ~ paused
  /\ state' = "stopped"
  /\ w' = Gone
  /\ UNCHANGED <<store, paused, mu, rebuild, engine, gen, aside, budget>>

(* A closed stopCh, the engine's or the worker's own, is selected, in the  *)
(* loop or in a backoff.                                                   *)
StopSeen ==
  /\ w.pc \in {"select", "backoff", "restart"}
  /\ StopSignalled
  /\ state' = "stopped"
  /\ w' = Gone
  /\ UNCHANGED <<store, paused, mu, rebuild, engine, gen, aside, budget>>

(* ctx.Done is selected there: the context that Start, or Restart, was     *)
(* called with is over.                                                    *)
ContextDone ==
  /\ w.pc \in {"select", "backoff", "restart"}
  /\ Spend("trouble")
  /\ ExitStopped(w)
  /\ UNCHANGED <<store, paused, mu, rebuild, engine, gen, aside>>

(* The ticker fires: the paused flag is looked at before the mutex is taken. *)
Tick ==
  /\ w.pc = "select"
  /\ IF paused
     THEN state' = "paused" /\ w' = Wait(w, "select")
     ELSE w' = [w EXCEPT !.pc = "lock"] /\ UNCHANGED state
  /\ UNCHANGED <<store, paused, mu, rebuild, engine, gen, aside, budget>>

Lock ==
  /\ w.pc = "lock" /\ mu = "free"
  /\ mu' = "worker"
  /\ w' = [w EXCEPT !.pc = "load"]
  /\ UNCHANGED <<store, state, paused, rebuild, engine, gen, aside, budget>>

-----------------------------------------------------------------------------
(* processAsyncBatch, under processingMu. *)

(* It returns nil: unlock, and forget the errors there were. *)
Processed(r) ==
  /\ mu' = "free"
  /\ w' = Wait([r EXCEPT !.errs = 0, !.back = FALSE, !.at = 0, !.to = 0], "select")
  /\ state' = IF r.back THEN "running" ELSE state

(* It returns an error: unlock, and on to the error handling, unless it    *)
(* wraps context.Canceled.                                                 *)
ProcessingFails(r, err) ==
  /\ mu' = "free"
  /\ IF err = "canceled" THEN ExitStopped(r)
     ELSE w' = [r EXCEPT !.pc = "failed", !.err = Class(err), !.at = 0, !.to = 0] /\ UNCHANGED state

(* Mutant: the end of the feed is taken to be one event earlier. *)
LoadShort ==
  /\ w.pc = "load"
  /\ IF w.last + 1 >= head
     THEN Processed(w)
     ELSE /\ w' = [w EXCEPT !.at = w.last, !.to = Upto(w.last),
                            !.pc = IF Todo(w.last, Upto(w.last)) = {} THEN "save" ELSE "apply"]
          /\ UNCHANGED <<mu, state>>
  /\ UNCHANGED <<store, paused, rebuild, engine, gen, aside, budget>>

Load ==
  /\ w.pc = "load"
  /\ IF w.last >= head
     THEN Processed(w)
     ELSE /\ w' = [w EXCEPT !.at = w.last, !.to = Upto(w.last),
                            !.pc = IF Todo(w.last, Upto(w.last)) = {} THEN "save" ELSE "apply"]
          /\ UNCHANGED <<mu, state>>
  /\ UNCHANGED <<store, paused, rebuild, engine, gen, aside, budget>>

LoadFails ==
  /\ w.pc = "load"
  /\ Spend("trouble")
  /\ \E err \in Errors : ProcessingFails(w, err)
  /\ UNCHANGED <<store, paused, rebuild, engine, gen, aside>>

(* ApplyBatch is given the rest of the batch, Apply the next event of it. *)
NextCall ==
  LET todo == Todo(w.at, w.to) IN IF ApplyBatches THEN todo ELSE {Min(todo)}

Apply ==
  LET done == NextCall = Todo(w.at, w.to) IN
  /\ w.pc = "apply"
  /\ model' = model \cup NextCall
  /\ w' = [w EXCEPT !.at = Max(NextCall), !.pc = IF done THEN "save" ELSE @,
                    !.failed = IF done THEN 0 ELSE @]
  /\ UNCHANGED <<head, checkpoint, reported, state, paused, mu, rebuild, engine, gen, aside, budget>>

(* failedEvent: the event, or the last one ApplyBatch was given. *)
ApplyFails ==
  /\ w.pc = "apply"
  /\ Spend("trouble")
  /\ \E err \in Errors : ProcessingFails([w EXCEPT !.failed = Max(NextCall)], err)
  /\ UNCHANGED <<store, paused, rebuild, engine, gen, aside>>

(* A recovered panic is an error that leaves failedEvent as it was. *)
ApplyPanics ==
  /\ w.pc = "apply"
  /\ Spend("trouble")
  /\ ProcessingFails(w, "panic")
  /\ UNCHANGED <<store, paused, rebuild, engine, gen, aside>>

SaveCheckpoint ==
  /\ w.pc = "save"
  /\ SetCheckpoint(w.to)
  /\ Processed([w EXCEPT !.last = w.to])
  /\ UNCHANGED <<head, model, reported, paused, rebuild, engine, gen, aside, budget>>

(* A checkpoint that cannot be saved is logged; the worker goes on. *)
SaveCheckpointFails ==
  /\ w.pc = "save"
  /\ Spend("trouble")
  /\ Processed([w EXCEPT !.last = w.to])
  /\ UNCHANGED <<store, paused, rebuild, engine, gen, aside>>

-----------------------------------------------------------------------------
(* The error handling of runAsyncWorkerOnce, without the mutex. *)

(* shouldRetry: 0 means without a limit. *)
ShouldRetry(n) == MaxRetries = 0 \/ n < MaxRetries

HandleTransient ==
  /\ w.pc = "failed" /\ w.err = "transient"
  /\ w' = Wait([w EXCEPT !.back = TRUE, !.err = "none"], "backoff")
  /\ UNCHANGED <<store, state, paused, mu, rebuild, engine, gen, aside, budget>>

(* setError shows Faulted at once; then the budget decides. *)
HandlePoison ==
  LET n == w.errs + 1
      r == [w EXCEPT !.errs = n, !.back = TRUE, !.err = "none"] IN
  /\ w.pc = "failed" /\ w.err = "poison"
  /\ state' = "faulted"
  /\ w' = IF ShouldRetry(n) THEN Wait(r, "backoff")
          ELSE [r EXCEPT !.pc = IF w.failed # 0 THEN "poison" ELSE "exit"]
  /\ UNCHANGED <<store, paused, mu, rebuild, engine, gen, aside, budget>>

(* time.After in the backoff. *)
Retry ==
  /\ w.pc = "backoff"
  /\ w' = Wait(w, "select")
  /\ UNCHANGED <<store, state, paused, mu, rebuild, engine, gen, aside, budget>>

(* handlePoisonEvent: there is no OnPoisonEvent, or it returns an error ... *)
PoisonStops ==
  /\ w.pc = "poison"
  /\ w' = [w EXCEPT !.pc = "exit"]
  /\ UNCHANGED <<store, state, paused, mu, rebuild, engine, gen, aside, budget>>

(* ... or it returns nil: lastPosition moves to the failed event ... *)
PoisonSkipped ==
  /\ w.pc = "poison"
  /\ reported' = reported \cup {w.failed}
  /\ w' = [w EXCEPT !.pc = "skip", !.last = w.failed, !.to = w.failed, !.failed = 0]
  /\ UNCHANGED <<head, checkpoint, model, state, paused, mu, rebuild, engine, gen, aside, budget>>

(* ... and so does the checkpoint, if it can be saved; then clearError. *)
SaveSkip ==
  /\ w.pc = "skip"
  /\ \/ SetCheckpoint(w.to) /\ UNCHANGED budget
     \/ Spend("trouble") /\ UNCHANGED checkpoint
  /\ w' = Wait([w EXCEPT !.errs = 0, !.back = FALSE, !.to = 0], "select")
  /\ state' = "running"
  /\ UNCHANGED <<head, model, reported, paused, mu, rebuild, engine, gen, aside>>

-----------------------------------------------------------------------------
(* superviseAsyncWorker: the run ended in a fault. *)

MayRestart == options.restarts = Forever \/ w.restarts < options.restarts

(* Mutant: a restart is announced, and the loop left. *)
SuperviseOnce ==
  /\ w.pc = "exit" /\ MayRestart
  /\ state' = "restarting"
  /\ w' = Gone
  /\ UNCHANGED <<store, paused, mu, rebuild, engine, gen, aside, budget>>

Supervise ==
  /\ w.pc = "exit" /\ MayRestart
  /\ state' = "restarting"
  /\ w' = Wait([w EXCEPT !.resume = TRUE, !.restarts = IF options.restarts = Forever THEN 1 ELSE @ + 1], "restart")
  /\ UNCHANGED <<store, paused, mu, rebuild, engine, gen, aside, budget>>

SuperviseEnds ==
  /\ w.pc = "exit" /\ ~ MayRestart
  /\ w' = Gone
  /\ UNCHANGED <<store, state, paused, mu, rebuild, engine, gen, aside, budget>>

RunAgain ==
  /\ w.pc = "restart"
  /\ w' = [w EXCEPT !.pc = "start"]
  /\ UNCHANGED <<store, state, paused, mu, rebuild, engine, gen, aside, budget>>

-----------------------------------------------------------------------------
(* Operators.  Calls that change nothing are left out. *)

Pause ==
  /\ registered /\ Spend("call")
  /\ paused' = TRUE /\ state' = "paused"
  /\ UNCHANGED <<store, mu, w, rebuild, engine, gen, aside>>

Resume ==
  /\ registered /\ paused
  /\ paused' = FALSE /\ state' = "running"
  /\ UNCHANGED <<store, mu, w, rebuild, engine, gen, aside, budget>>

Restart ==
  /\ registered /\ engine = "running" /\ state = "faulted" /\ w.pc = "off"
  /\ Spend("call")
  /\ Launch(TRUE)
  /\ UNCHANGED <<store, state, paused, mu, rebuild, engine, gen, aside>>

(* Nobody waits for the goroutine, which will see its stopCh closed. *)
Unregister ==
  /\ registered /\ Spend("call")
  /\ registered' = FALSE
  /\ UNCHANGED <<store, state, paused, mu, w, rebuild, engine, gen, options, botched, leaked>>

(***************************************************************************)
(* "mink projection rebuild", a process of its own: it resets the stored   *)
(* checkpoint and nothing else.  A worker that runs keeps its lastPosition *)
(* and its next save undoes the reset; the read model is not cleared.      *)
(***************************************************************************)
RebuildCommand ==
  /\ checkpoint > 0
  /\ Spend("call")
  /\ ResetProjectionCheckpoint
  /\ UNCHANGED <<head, model, reported, state, paused, mu, w, rebuild, engine, gen, aside>>

(* Rebuild pauses the worker, then waits for the mutex. *)
RebuildCalled ==
  /\ registered /\ rebuild.pc = "idle"
  /\ Spend("call")
  /\ rebuild' = [NoRebuild EXCEPT !.pc = "lock", !.wasPaused = paused]
  /\ paused' = TRUE /\ state' = "rebuilding"
  /\ UNCHANGED <<store, mu, w, engine, gen, aside>>

RebuildLocks ==
  /\ rebuild.pc = "lock" /\ mu = "free"
  /\ mu' = "rebuild"
  /\ rebuild' = [rebuild EXCEPT !.pc = "clear"]
  /\ UNCHANGED <<store, state, paused, w, engine, gen, aside, budget>>

RebuildClears ==
  /\ rebuild.pc = "clear"
  /\ model' = {}
  /\ rebuild' = [rebuild EXCEPT !.pc = "delete"]
  /\ UNCHANGED <<head, checkpoint, reported, state, paused, mu, w, engine, gen, aside, budget>>

(* A checkpoint that cannot be deleted is logged. *)
RebuildDeletes ==
  /\ rebuild.pc = "delete"
  /\ \/ DeleteCheckpoint /\ UNCHANGED budget
     \/ Spend("trouble") /\ UNCHANGED checkpoint
  /\ rebuild' = [rebuild EXCEPT !.pc = "replay"]
  /\ UNCHANGED <<head, model, reported, state, paused, mu, w, engine, gen, aside>>

(* Mutant: the next batch starts after the position that follows the last. *)
RebuildReplaysFromNext ==
  /\ rebuild.pc = "replay" /\ rebuild.pos < head
  /\ model' = model \cup Todo(IF rebuild.pos = 0 THEN 0 ELSE rebuild.pos + 1, Upto(rebuild.pos))
  /\ rebuild' = [rebuild EXCEPT !.pc = "save", !.pos = Upto(rebuild.pos)]
  /\ UNCHANGED <<head, checkpoint, reported, state, paused, mu, w, engine, gen, aside, budget>>

(* A batch of the replay, then its checkpoint. *)
RebuildReplays ==
  /\ rebuild.pc = "replay" /\ rebuild.pos < head
  /\ model' = model \cup Todo(rebuild.pos, Upto(rebuild.pos))
  /\ rebuild' = [rebuild EXCEPT !.pc = "save", !.pos = Upto(rebuild.pos)]
  /\ UNCHANGED <<head, checkpoint, reported, state, paused, mu, w, engine, gen, aside, budget>>

RebuildSaves ==
  /\ rebuild.pc = "save"
  /\ \/ SetCheckpoint(rebuild.pos) /\ UNCHANGED budget
     \/ Spend("trouble") /\ UNCHANGED checkpoint
  /\ rebuild' = [rebuild EXCEPT !.pc = "replay"]
  /\ UNCHANGED <<head, model, reported, state, paused, mu, w, engine, gen, aside>>

(* The end of the feed: lastPosition is read back from the store, or is 0. *)
RebuildSucceeds ==
  /\ rebuild.pc = "replay" /\ rebuild.pos >= head
  /\ botched' = FALSE
  /\ \/ w' = [w EXCEPT !.last = GetCheckpoint] /\ UNCHANGED budget
     \/ w' = [w EXCEPT !.last = 0] /\ Spend("trouble")
  /\ mu' = "free"
  /\ rebuild' = [rebuild EXCEPT !.pc = "unpause"]
  /\ UNCHANGED <<store, state, paused, engine, gen, options, registered, leaked>>

(* Clear, a load or an Apply fails: lastPosition is not touched. *)
RebuildErrors ==
  /\ rebuild.pc \in {"clear", "replay"}
  /\ botched' = TRUE
  /\ Spend("trouble")
  /\ mu' = "free"
  /\ rebuild' = [rebuild EXCEPT !.pc = "unpause"]
  /\ UNCHANGED <<store, state, paused, w, engine, gen, options, registered, leaked>>

(* The deferred function of Rebuild, after the unlock. *)
RebuildReturns ==
  /\ rebuild.pc = "unpause"
  /\ paused' = rebuild.wasPaused
  /\ state' = IF rebuild.wasPaused THEN "paused" ELSE "running"
  /\ rebuild' = NoRebuild
  /\ UNCHANGED <<store, mu, w, engine, gen, aside, budget>>

-----------------------------------------------------------------------------
(* The engine and its environment. *)

AppendEvent ==
  /\ head < LastEvent
  /\ head' = head + 1
  /\ UNCHANGED <<checkpoint, model, reported, state, paused, mu, w, rebuild, engine, gen, aside, budget>>

(* Start makes a new stopCh; a goroutine that is still alive is not replaced. *)
Start ==
  /\ engine = "stopped"
  /\ engine' = "running" /\ gen' = gen + 1
  /\ IF registered /\ w.pc = "off" THEN Launch(FALSE) ELSE UNCHANGED w
  /\ UNCHANGED <<store, state, paused, mu, rebuild, aside, budget>>

(* Stop closes stopCh and joins the goroutines ... *)
Stop ==
  /\ engine = "running"
  /\ Spend("call")
  /\ engine' = "stopping"
  /\ UNCHANGED <<store, state, paused, mu, w, rebuild, gen, aside>>

StopJoined ==
  /\ engine = "stopping" /\ w.pc = "off"
  /\ engine' = "stopped"
  /\ UNCHANGED <<store, state, paused, mu, w, rebuild, gen, aside, budget>>

(* ... unless its context expires first. *)
StopTimesOut ==
  /\ engine = "stopping"
  /\ Spend("trouble")
  /\ engine' = "stopped"
  /\ leaked' = Alive
  /\ UNCHANGED <<store, state, paused, mu, w, rebuild, gen, options, registered, botched>>

(* The process dies; the stores and the read model stay.  The next one     *)
(* registers the projection again.                                         *)
Crash ==
  /\ Spend("trouble")
  /\ state' = "stopped" /\ paused' = FALSE /\ mu' = "free"
  /\ w' = NoWorker /\ rebuild' = NoRebuild /\ engine' = "stopped"
  /\ botched' = (botched \/ rebuild.pc # "idle")
  /\ registered' = TRUE /\ leaked' = FALSE
  /\ UNCHANGED <<store, gen, options>>

-----------------------------------------------------------------------------
Worker ==
  \/ BeginRun \/ Boot \/ BootFails \/ Tick
  \/ Load \/ LoadFails \/ Apply \/ ApplyFails \/ ApplyPanics
  \/ SaveCheckpoint \/ SaveCheckpointFails
  \/ HandleTransient \/ HandlePoison \/ Retry
  \/ PoisonStops \/ PoisonSkipped \/ SaveSkip
  \/ Supervise \/ SuperviseEnds \/ RunAgain

Rebuilder ==
  \/ RebuildClears \/ RebuildDeletes \/ RebuildReplays \/ RebuildSaves
  \/ RebuildSucceeds \/ RebuildErrors \/ RebuildReturns

Next ==
  \/ Worker \/ Lock \/ StopSeen \/ ContextDone
  \/ Rebuilder \/ RebuildCalled \/ RebuildLocks
  \/ Pause \/ Resume \/ Restart \/ Unregister \/ RebuildCommand
  \/ AppendEvent \/ Start \/ Stop \/ StopJoined \/ StopTimesOut \/ Crash

Spec == Init /\ [][Next]_vars

(***************************************************************************)
(* Goroutines are scheduled and external calls return.  A contended mutex  *)
(* is handed over in the end (sync.Mutex has a starvation mode), and a     *)
(* select that keeps meeting a closed stopCh takes that case in the end    *)
(* (it chooses among ready cases at random): strong fairness for these.    *)
(***************************************************************************)
FairSpec ==
  /\ Spec
  /\ WF_vars(Worker) /\ WF_vars(Rebuilder) /\ WF_vars(StopJoined) /\ WF_vars(Start)
  /\ SF_vars(Lock) /\ SF_vars(RebuildLocks) /\ SF_vars(StopSeen)

-----------------------------------------------------------------------------
(* Properties. *)

Consuming == w.pc \notin {"off", "start", "boot", "exit", "restart"}

(* Nothing is missing from the read model below the position a worker goes *)
(* on from: every handled event was applied or given to OnPoisonEvent.     *)
Complete ==
  Todo(0, IF Consuming /\ w.last > checkpoint THEN w.last ELSE checkpoint) \subseteq model \cup reported

(* The read model stays complete across restarts, crashes, failing saves,  *)
(* skipped events and successful rebuilds in any order (processAsyncBatch, *)
(* handlePoisonEvent, runAsyncWorkerOnce, Rebuild); a failed rebuild costs *)
(* it that until the next one that succeeds.                               *)
NothingLost == rebuild.pc = "idle" /\ ~ botched => Complete

(* "Rebuild resets a single async projection's checkpoint and replays the  *)
(* event log from the beginning, then resumes from the rebuilt position":  *)
(* a worker goes on from a complete read model, also after a failed one.   *)
RebuildLosesNothing == rebuild.pc = "idle" /\ Consuming => Complete

(* Recovery by "a manual Rebuild": a projection that is shown as Running   *)
(* or Paused on a running engine has a worker (Rebuild, Pause, Resume).    *)
StatusIsHonest ==
  engine = "running" /\ rebuild.pc = "idle" /\ state \in {"running", "paused"} => Alive

(* "RestartForever restarts without limit" and "a checkpoint-store outage  *)
(* that heals self-recovers": a running engine has the worker.             *)
Undying == options.restarts = Forever /\ engine = "running" /\ registered /\ ~ leaked => Alive

(* The last run ended on a context error. *)
EndedByContext == ~ Alive /\ w.err = "canceled"

(* Under RestartForever a running engine is without the worker of a        *)
(* registered projection only after a context error: no fault is terminal  *)
(* and no Start finds the supervising flag of the last run still set, as   *)
(* long as Stop was given the time to join it.                             *)
SelfHealing == EndedByContext \/ Undying

(* ... and it catches up with every event, whatever failed on the way,     *)
(* unless the projection is paused, unregistered or ended by a context     *)
(* error, or the engine stopped.                                           *)
CatchesUp ==
  \A e \in Handled :
    (head >= e /\ options.restarts = Forever) ~>
      \/ e \in model \cup reported
      \/ paused \/ ~ registered \/ EndedByContext
      \/ engine # "running" \/ leaked \/ botched

(* Stop returns without its context's help: every goroutine is joined,     *)
(* also one in a backoff or one waiting for a rebuild to end.              *)
StopReturns == engine = "stopping" ~> engine # "stopping"
=============================================================================
