----------------------------- MODULE SagaManager -----------------------------
(***************************************************************************)
(* One saga instance and everything that drives it (saga_manager.go): the  *)
(* event loops of one or more managers over a shared saga store, callers   *)
(* of ProcessEvent and StartSaga, operators calling RetrySaga and          *)
(* ResumeStalled, and the timeout sweep.                                   *)
(*                                                                         *)
(* Within a manager a drive of the saga runs under a mutex found in the    *)
(* sagaLocks map; between managers only the version check of the store's   *)
(* Save stands.  The map entry is deleted when the saga settles, so two    *)
(* mutexes for one saga can be in use: every mutex is an object with its   *)
(* own number here.  The saga's code (HandleEvent, Compensate, IsComplete) *)
(* and the command bus are external: a handler emits Commands commands,    *)
(* and the last event of the feed completes the saga.                      *)
(***************************************************************************)
EXTENDS Integers, Sequences, FiniteSets

CONSTANTS
  Managers,     \* SagaManager instances; each stands for its own Start loop
  Callers,      \* goroutines that call ProcessEvent or StartSaga
  Operators,    \* goroutines that call RetrySaga or ResumeStalled
  ManagerOf,    \* ManagerOf[t]: the manager a caller or an operator uses
  LastEvent,    \* the feed holds the events 1 .. LastEvent of the saga
  Encrypted,    \* the events with encrypted fields
  Commands,     \* commands HandleEvent returns for an event
  RetryAttempts,\* retryAttempts: tries of an event that meets a conflict
  MaxTracked,   \* maxProcessedEventsToTrack
  Deployments   \* [up: the managers that run, limit: bounds on the steps below,
                \* capture: WithSagaRetryCapture]

(***************************************************************************)
(* Bounded steps: calls of ProcessEvent and StartSaga (call), of RetrySaga *)
(* and ResumeStalled (op), failing handlers, commands and compensations    *)
(* (fail), loads and saves the store fails for its own reasons (fault),    *)
(* graceful stops (stop) and crashes (crash) of a manager.                 *)
(***************************************************************************)
Bounded == {"call", "op", "fail", "fault", "stop", "crash"}

Threads == Managers \cup Callers \cup Operators
Mgr(t) == IF t \in Managers THEN t ELSE ManagerOf[t]
Events == 1 .. LastEvent

ASSUME ThreadsAssumption ==
  /\ Managers \cap Callers = {} /\ Managers \cap Operators = {}
  /\ Callers \cap Operators = {}
  /\ ManagerOf \in [Callers \cup Operators -> Managers]

ASSUME BoundsAssumption ==
  /\ LastEvent \in Nat \ {0} /\ Commands \in Nat \ {0} /\ Encrypted \subseteq Events
  /\ RetryAttempts \in Nat \ {0} /\ MaxTracked \in Nat \ {0}
  /\ \A d \in Deployments : d.up \subseteq Managers /\ d.limit \in [Bounded -> Nat] /\ d.capture \in BOOLEAN

VARIABLES
  row,         \* the saga's row in the saga store; version 0 = no row
  cache,       \* cache[m]: m.processedEvents for this saga
  lockMap,     \* lockMap[m]: the mutex m.sagaLocks holds; 0 = no entry
  lastMutex,   \* lastMutex[m]: mutexes m has created so far
  th,          \* th[t]: where thread t is in the call it makes
  loop,        \* loop[m]: "running", "stopping", "stopped" or "absent"
  next,        \* next[m]: the event m's subscription yields next
  position,    \* position[m]: m.position
  budget,      \* the bounded steps: limit, and how many were taken; capture
  sent,        \* history: sent[m][e], commands m dispatched for event e
  rollbacks,   \* history: rollbacks[m], how many times m ran the compensation
  lostRaces,   \* history: lostRaces[m], saves of m that met a newer version
  seen         \* history: seen[m], events m's loop took to an end

managerVars == <<cache, lockMap, lastMutex>>
loopVars == <<loop, next, position>>
effects == <<sent, rollbacks, lostRaces>>
history == <<effects, seen>>
vars == <<row, managerVars, th, loopVars, budget, history>>

-----------------------------------------------------------------------------
Terminal == {"completed", "failed", "compensated", "compensation_failed"}
Retryable == Terminal \ {"completed"}
Statuses == {"none", "started", "running", "compensating"} \cup Terminal

(***************************************************************************)
(* The last trigger event, kept in the saga's row for a retry: the whole   *)
(* event, or only where to find it, so that no decrypted field and no      *)
(* ciphertext is kept (captureCandidate).                                  *)
(***************************************************************************)
NoCapture == [ev |-> 0, whole |-> TRUE]
captureCandidate(e) == [ev |-> e, whole |-> e \notin Encrypted]
isTriggerLocator(captured) == ~ captured.whole

(* The saga object a drive works on; the row it came from had its version. *)
NoSaga == [status |-> "none", version |-> 0, step |-> 0, captured |-> NoCapture]

Idle == [pc |-> "idle", mode |-> "event", ev |-> 0, mtx |-> 0, saga |-> NoSaga,
         k |-> 0, try |-> 0, keys |-> <<>>]

Init ==
  /\ row = [status |-> "none", version |-> 0, step |-> 0, captured |-> NoCapture,
            done |-> <<>>, aged |-> FALSE]
  /\ cache = [m \in Managers |-> <<>>]
  /\ lockMap = [m \in Managers |-> 0]
  /\ lastMutex = [m \in Managers |-> 0]
  /\ th = [t \in Threads |-> Idle]
  /\ \E d \in Deployments :
        /\ loop = [m \in Managers |-> IF m \in d.up THEN "running" ELSE "absent"]
        /\ budget = [limit |-> d.limit, taken |-> [b \in Bounded |-> 0],
                     capture |-> d.capture]
  /\ next = [m \in Managers |-> 1]
  /\ position = [m \in Managers |-> 0]
  /\ sent = [m \in Managers |-> [e \in Events |-> 0]]
  /\ rollbacks = [m \in Managers |-> 0]
  /\ lostRaces = [m \in Managers |-> 0]
  /\ seen = [m \in Managers |-> {}]

Holding == {"load", "dispatch", "compensate", "save", "evict"}
Driving(t) == th[t].pc \in {"dispatch", "compensate", "save"}
Exists == row.version > 0

(* t runs under the cancelled context of a stopping loop: the store fails. *)
Cancelled(t) == t \in Managers /\ loop[t] = "stopping"

(* The keys a save keeps: the most recent MaxTracked of them. *)
Trim(keys) ==
  IF Len(keys) > MaxTracked
  THEN SubSeq(keys, Len(keys) - MaxTracked + 1, Len(keys))
  ELSE keys

HasKey(keys, e) == \E i \in 1 .. Len(keys) : keys[i] = e
Spend(what) ==
  /\ budget.taken[what] < budget.limit[what]
  /\ budget' = [budget EXCEPT !.taken[what] = @ + 1]

-----------------------------------------------------------------------------
(* Entering and leaving a call. *)

(* getSagaLock, then the call waits for the mutex it was given. *)
EnterLock(t, mode, e) ==
  LET m == Mgr(t)
      id == IF lockMap[m] = 0 THEN lastMutex[m] + 1 ELSE lockMap[m] IN
  /\ lockMap' = [lockMap EXCEPT ![m] = id]
  /\ lastMutex' = [lastMutex EXCEPT ![m] = IF id > @ THEN id ELSE @]
  /\ th' = [th EXCEPT ![t] = [Idle EXCEPT !.pc = "lock", !.mode = mode, !.ev = e, !.mtx = id]]
  /\ UNCHANGED cache

(* The loop is done with event e: it advances unless it is stopping. *)
LoopReturns(t, e, complete) ==
  /\ seen' = IF complete THEN [seen EXCEPT ![t] = @ \cup {e}] ELSE seen
  /\ IF loop[t] = "stopping"
     THEN loop' = [loop EXCEPT ![t] = "stopped"] /\ UNCHANGED position
     ELSE position' = [position EXCEPT ![t] = e + 1] /\ UNCHANGED loop

(* The call ends, its deferred Unlock included. *)
Return(t, complete) ==
  /\ th' = [th EXCEPT ![t] = Idle]
  /\ IF t \in Managers /\ th[t].mode = "event"
     THEN LoopReturns(t, th[t].ev, complete)
     ELSE UNCHANGED <<seen, loop, position>>

(* processSagaEvent up to the lock: resolveSagaID looks the saga up. *)
FindByCorrelationID == Exists
isStartingEvent(e) == e = 1
Resolvable(e) == FindByCorrelationID \/ isStartingEvent(e)

(* The loop of Start receives the next event of its subscription.  (With a *)
(* cancelled context every lookup fails, and the loop returns unmoved.)    *)
Receive(t) ==
  /\ t \in Managers
  /\ loop[t] = "running"
  /\ th[t].pc = "idle"
  /\ next[t] \in Events
  /\ next' = [next EXCEPT ![t] = @ + 1]
  /\ IF Resolvable(next[t])
     THEN EnterLock(t, "event", next[t]) /\ UNCHANGED <<loop, position, seen>>
     ELSE LoopReturns(t, next[t], TRUE) /\ UNCHANGED <<th, managerVars>>
  /\ UNCHANGED <<row, budget, effects>>

(***************************************************************************)
(* The event cannot be decrypted, be it one that starts a saga, or the     *)
(* lookup fails, which resolveSagaID takes for no saga: an event that      *)
(* starts one goes on to the lock all the same (Receive), any other is     *)
(* passed over.                                                            *)
(***************************************************************************)
LookupFails(t) ==
  /\ t \in Managers
  /\ loop[t] = "running"
  /\ th[t].pc = "idle"
  /\ next[t] \in Events
  /\ next[t] \in Encrypted \/ ~ isStartingEvent(next[t])
  /\ Spend("fault")
  /\ next' = [next EXCEPT ![t] = @ + 1]
  /\ LoopReturns(t, next[t], FALSE)
  /\ UNCHANGED <<row, th, managerVars, effects>>

(* A caller delivers event e once more, or StartSaga with the first event. *)
ProcessEvent(t, e) ==
  /\ t \in Callers
  /\ th[t].pc = "idle"
  /\ Resolvable(e)
  /\ Spend("call")
  /\ EnterLock(t, "event", e)
  /\ UNCHANGED <<row, loopVars, history>>

(* RetrySaga and ResumeStalled: the status check made before the lock. *)
RetrySaga(t) ==
  /\ t \in Operators
  /\ th[t].pc = "idle"
  /\ row.status \in Retryable
  /\ Spend("op")
  /\ EnterLock(t, "retry", 0)
  /\ UNCHANGED <<row, loopVars, history>>

ResumeStalled(t) ==
  /\ t \in Operators
  /\ th[t].pc = "idle"
  /\ row.status = "running"
  /\ Spend("op")
  /\ EnterLock(t, "resume", 0)
  /\ UNCHANGED <<row, loopVars, history>>

(* Mutant: the cutoff comparison is the wrong way round. *)
SweepFresh(t) ==
  /\ t \in Managers
  /\ loop[t] = "running"
  /\ th[t].pc = "idle"
  /\ row.status = "running"
  /\ ~ row.aged
  /\ EnterLock(t, "sweep", 0)
  /\ UNCHANGED <<row, loopVars, budget, history>>

(* Whether a listing by type and statuses has the saga. *)
FindByType(statuses) == row.status \in statuses

(* sweepTimeouts, run by the loop: the listed saga is Running and old. *)
Sweep(t) ==
  /\ t \in Managers
  /\ loop[t] = "running"
  /\ th[t].pc = "idle"
  /\ FindByType({"running"})
  /\ row.aged
  /\ EnterLock(t, "sweep", 0)
  /\ UNCHANGED <<row, loopVars, budget, history>>

(* Mutant: the saga is not locked. *)
AcquireShared(t) ==
  /\ th[t].pc = "lock"
  /\ th' = [th EXCEPT ![t].pc = "load"]
  /\ UNCHANGED <<row, managerVars, loopVars, budget, history>>

(* lock.Lock() returns. *)
Acquire(t) ==
  /\ th[t].pc = "lock"
  /\ \A u \in Threads \ {t} :
        ~ (Mgr(u) = Mgr(t) /\ th[u].mtx = th[t].mtx /\ th[u].pc \in Holding)
  /\ th' = [th EXCEPT ![t].pc = "load"]
  /\ UNCHANGED <<row, managerVars, loopVars, budget, history>>

-----------------------------------------------------------------------------
(* A drive of the saga, under the mutex. *)

(* captureTriggerEvent; without WithSagaRetryCapture the row keeps what it had. *)
captureTriggerEvent(e) == IF budget.capture THEN captureCandidate(e) ELSE row.captured

(* The thread starts to drive the saga read from the row on event e. *)
StartDrive(t, e, captured, status, pc) ==
  th' = [th EXCEPT ![t] = [@ EXCEPT !.pc = pc, !.ev = e, !.k = 0,
           !.saga = [status |-> status, version |-> row.version, step |-> row.step,
                     captured |-> captured]]]

(* hydrateSaga's effect on the manager: the row's keys replace the cache. *)
Hydrated(m) == IF row.done # <<>> THEN row.done ELSE cache[m]

(* Mutant: the processed-event check is not made. *)
LoadForEventUnchecked(t) ==
  LET e == th[t].ev IN
  /\ th[t].pc = "load" /\ th[t].mode = "event" /\ ~ Cancelled(t)
  /\ cache' = [cache EXCEPT ![Mgr(t)] = Hydrated(Mgr(t))]
  /\ IF ~ Resolvable(e) \/ row.status \in Terminal
     THEN Return(t, TRUE)
     ELSE StartDrive(t, e, captureTriggerEvent(e), "running", "dispatch") /\ UNCHANGED <<seen, loop, position>>
  /\ UNCHANGED <<row, lockMap, lastMutex, next, budget, effects>>

(***************************************************************************)
(* attemptProcessSagaEvent: load and hydrate; nothing to do for a saga     *)
(* that does not exist, has settled or has processed the event; otherwise  *)
(* capture the event and drive the saga with it.                           *)
(***************************************************************************)
LoadForEvent(t) ==
  LET e == th[t].ev IN
  /\ th[t].pc = "load" /\ th[t].mode = "event" /\ ~ Cancelled(t)
  /\ cache' = [cache EXCEPT ![Mgr(t)] = Hydrated(Mgr(t))]
  /\ IF ~ Resolvable(e) \/ row.status \in Terminal \/ HasKey(Hydrated(Mgr(t)), e)
     THEN Return(t, TRUE)
     ELSE StartDrive(t, e, captureTriggerEvent(e), "running", "dispatch") /\ UNCHANGED <<seen, loop, position>>
  /\ UNCHANGED <<row, lockMap, lastMutex, next, budget, effects>>

(* The accept functions of RetrySaga and ResumeStalled, under the lock. *)
Accepts(mode) ==
  \/ mode = "retry" /\ row.status \in Retryable
  \/ mode = "resume" /\ row.status = "running" /\ row.aged

(* Only the retried event is forgotten; earlier ones stay processed. *)
removeProcessedEventKey(keys, e) == SelectSeq(keys, LAMBDA d : d # e)

(* driveLocked: forget the captured event's key, drive the saga with it. *)
LoadForRedrive(t) ==
  LET e == row.captured.ev IN
  /\ th[t].pc = "load" /\ th[t].mode \in {"retry", "resume"}
  /\ IF Accepts(th[t].mode) /\ e # 0
     THEN /\ cache' = [cache EXCEPT ![Mgr(t)] = removeProcessedEventKey(row.done, e)]
          /\ StartDrive(t, e, row.captured, "running", "dispatch")
     ELSE th' = [th EXCEPT ![t] = Idle] /\ UNCHANGED cache
  /\ UNCHANGED <<row, lockMap, lastMutex, loopVars, budget, history>>

(***************************************************************************)
(* reloadTriggerEvent: a locator is followed into the event store, which   *)
(* fails, has lost the event, or cannot decrypt it since its key was       *)
(* revoked: the call is refused and the saga stays as it was.              *)
(***************************************************************************)
ReloadFails(t) ==
  /\ th[t].pc = "load" /\ th[t].mode \in {"retry", "resume"}
  /\ Accepts(th[t].mode) /\ row.captured.ev # 0 /\ isTriggerLocator(row.captured)
  /\ Spend("fault")
  /\ th' = [th EXCEPT ![t] = Idle]
  /\ UNCHANGED <<row, managerVars, loopVars, history>>

(* The lookup or the load under the lock fails: the call ends with nothing *)
(* done; the loop logs the error and goes on to the next event.            *)
LoadFails(t) ==
  /\ th[t].pc = "load"
  /\ Spend("fault")
  /\ Return(t, FALSE)
  /\ UNCHANGED <<row, managerVars, next, effects>>

(* timeoutSaga: the reload under the lock only looks for a settled saga. *)
LoadForSweep(t) ==
  /\ th[t].pc = "load" /\ th[t].mode = "sweep" /\ ~ Cancelled(t)
  /\ IF row.status \in Terminal
     THEN th' = [th EXCEPT ![t] = Idle] /\ UNCHANGED cache
     ELSE /\ cache' = [cache EXCEPT ![Mgr(t)] = Hydrated(Mgr(t))]
          /\ StartDrive(t, 0, row.captured, "compensating", "compensate")
  /\ UNCHANGED <<row, lockMap, lastMutex, loopVars, budget, history>>

(* redrive: the next command succeeds; after the last, IsComplete is asked. *)
Dispatch(t) ==
  LET last == th[t].k + 1 = Commands IN
  /\ th[t].pc = "dispatch"
  /\ sent' = [sent EXCEPT ![Mgr(t)][th[t].ev] = @ + 1]
  /\ th' = [th EXCEPT ![t].k = @ + 1, ![t].pc = IF last THEN "save" ELSE @,
              ![t].saga.step = @ + 1,
              ![t].saga.status = IF last /\ th[t].ev = LastEvent THEN "completed" ELSE @]
  /\ UNCHANGED <<row, managerVars, loopVars, budget, rollbacks, lostRaces, seen>>

(* HandleEvent fails, or a command fails on every attempt. *)
StepFails(t) ==
  /\ th[t].pc = "dispatch"
  /\ Spend("fail")
  /\ th' = [th EXCEPT ![t].pc = "compensate", ![t].saga.status = "compensating"]
  /\ UNCHANGED <<row, managerVars, loopVars, history>>

(* A store lookup or a dispatch returns the context's cancellation. *)
Interrupted(t) ==
  /\ th[t].pc \in {"load", "dispatch"}
  /\ Cancelled(t)
  /\ Return(t, FALSE)
  /\ UNCHANGED <<row, managerVars, next, budget, effects>>

(* handleSagaFailure settles on a status; it is not persisted before that. *)
Settle(t, status) ==
  th' = [th EXCEPT ![t].pc = "save", ![t].saga.status = status]

(* Compensate and all of its commands succeed. *)
Compensate(t) ==
  /\ th[t].pc = "compensate"
  /\ Settle(t, "compensated")
  /\ rollbacks' = [rollbacks EXCEPT ![Mgr(t)] = @ + 1]
  /\ UNCHANGED <<row, managerVars, loopVars, budget, sent, lostRaces, seen>>

(* Compensate itself fails: no command is dispatched. *)
CompensateFails(t) ==
  /\ th[t].pc = "compensate"
  /\ Spend("fail")
  /\ Settle(t, "failed")
  /\ UNCHANGED <<row, managerVars, loopVars, history>>

(* Some compensation command fails; with a cancelled context it has to. *)
CompensatePartly(t) ==
  /\ th[t].pc = "compensate"
  /\ \/ Cancelled(t) /\ UNCHANGED budget
     \/ Spend("fail")
  /\ Settle(t, "compensation_failed")
  /\ rollbacks' = [rollbacks EXCEPT ![Mgr(t)] = @ + 1]
  /\ UNCHANGED <<row, managerVars, loopVars, sent, lostRaces, seen>>

(* The keys saveSaga persists: a compensation adds none. *)
SavedKeys(t) ==
  LET s == th[t].saga IN
  Trim(cache[Mgr(t)] \o IF s.status \in {"running", "completed"} THEN <<th[t].ev>> ELSE <<>>)

(* store.Save accepts the version the saga was loaded with. *)
Save(t) ==
  LET s == th[t].saga IN
  /\ th[t].pc = "save" /\ ~ Cancelled(t)
  /\ row.version = s.version
  /\ row' = [status |-> s.status, version |-> row.version + 1, step |-> s.step,
             captured |-> s.captured, done |-> SavedKeys(t), aged |-> FALSE]
  /\ th' = [th EXCEPT ![t].pc = "evict", ![t].keys = SavedKeys(t)]
  /\ UNCHANGED <<managerVars, loopVars, budget, history>>

(* The version has moved on: an event is tried again from the start. *)
SaveConflict(t) ==
  /\ th[t].pc = "save" /\ ~ Cancelled(t)
  /\ row.version # th[t].saga.version
  /\ IF th[t].mode = "event" /\ th[t].try + 1 < RetryAttempts
     THEN /\ th' = [th EXCEPT ![t].pc = "load", ![t].try = @ + 1, ![t].saga = NoSaga]
          /\ UNCHANGED <<seen, loop, position>>
     ELSE Return(t, TRUE)
  /\ lostRaces' = [lostRaces EXCEPT ![Mgr(t)] = @ + 1]
  /\ UNCHANGED <<row, managerVars, next, budget, sent, rollbacks>>

(* The store fails: the error is logged and the event is not tried again. *)
SaveFails(t) ==
  /\ th[t].pc = "save"
  /\ Spend("fault")
  /\ Return(t, TRUE)
  /\ UNCHANGED <<row, managerVars, next, effects>>

(* The store refuses a cancelled context. *)
SaveCancelled(t) ==
  /\ th[t].pc = "save"
  /\ Cancelled(t)
  /\ Return(t, FALSE)
  /\ UNCHANGED <<row, managerVars, next, budget, effects>>

(* Mutant: only the drive that settles the saga unlocks it. *)
EvictUnlocksSettled(t) ==
  LET m == Mgr(t) IN
  /\ th[t].pc = "evict"
  /\ th[t].saga.status \in Terminal
  /\ cache' = [cache EXCEPT ![m] = <<>>]
  /\ lockMap' = [lockMap EXCEPT ![m] = 0]
  /\ Return(t, TRUE)
  /\ UNCHANGED <<row, lastMutex, next, budget, effects>>

(* saveSaga after the store's Save, then the unlock: a settled saga loses  *)
(* its cache entry and its mutex.                                          *)
Evict(t) ==
  LET m == Mgr(t)
      settled == th[t].saga.status \in Terminal IN
  /\ th[t].pc = "evict"
  /\ cache' = [cache EXCEPT ![m] = IF settled THEN <<>> ELSE th[t].keys]
  /\ lockMap' = [lockMap EXCEPT ![m] = IF settled THEN 0 ELSE @]
  /\ Return(t, TRUE)
  /\ UNCHANGED <<row, lastMutex, next, budget, effects>>

-----------------------------------------------------------------------------
(* The environment: time, stops, restarts, crashes. *)

(* The row's UpdatedAt becomes older than the saga timeout. *)
Age ==
  /\ row.status = "running" /\ ~ row.aged
  /\ row' = [row EXCEPT !.aged = TRUE]
  /\ UNCHANGED <<managerVars, th, loopVars, budget, history>>

(* Stop cancels the loop's context; the loop notices when it is idle. *)
Stop(m) ==
  /\ loop[m] = "running"
  /\ Spend("stop")
  /\ loop' = [loop EXCEPT ![m] = "stopping"]
  /\ UNCHANGED <<row, managerVars, th, next, position, history>>

LoopExits(m) ==
  /\ loop[m] = "stopping"
  /\ th[m].pc = "idle"
  /\ loop' = [loop EXCEPT ![m] = "stopped"]
  /\ UNCHANGED <<row, managerVars, th, next, position, budget, history>>

(* SubscribeAll(position): the events strictly after position. *)
Start(m) ==
  /\ loop[m] = "stopped"
  /\ loop' = [loop EXCEPT ![m] = "running"]
  /\ next' = [next EXCEPT ![m] = position[m] + 1]
  /\ UNCHANGED <<row, managerVars, th, position, budget, history>>

(* The process dies and a new manager is started at a Position() it had. *)
Crash(m) ==
  /\ loop[m] # "absent"
  /\ Spend("crash")
  /\ th' = [t \in Threads |-> IF Mgr(t) = m THEN Idle ELSE th[t]]
  /\ cache' = [cache EXCEPT ![m] = <<>>]
  /\ lockMap' = [lockMap EXCEPT ![m] = 0]
  /\ lastMutex' = [lastMutex EXCEPT ![m] = 0]
  /\ loop' = [loop EXCEPT ![m] = "running"]
  /\ \E p \in {0} \cup {e + 1 : e \in Events} :
        /\ p <= position[m]
        /\ position' = [position EXCEPT ![m] = p]
        /\ next' = [next EXCEPT ![m] = p + 1]
  /\ UNCHANGED <<row, history>>

-----------------------------------------------------------------------------
Drive(t) ==
  \/ Acquire(t)
  \/ LoadForEvent(t) \/ LoadForRedrive(t) \/ ReloadFails(t) \/ LoadForSweep(t) \/ LoadFails(t)
  \/ Dispatch(t) \/ StepFails(t) \/ Interrupted(t)
  \/ Compensate(t) \/ CompensateFails(t) \/ CompensatePartly(t)
  \/ Save(t) \/ SaveConflict(t) \/ SaveFails(t) \/ SaveCancelled(t)
  \/ Evict(t)

Next ==
  \/ \E t \in Managers : Receive(t) \/ LookupFails(t) \/ Sweep(t)
  \/ \E t \in Callers, e \in Events : ProcessEvent(t, e)
  \/ \E t \in Operators : RetrySaga(t) \/ ResumeStalled(t)
  \/ \E t \in Threads : Drive(t)
  \/ Age
  \/ \E m \in Managers : Stop(m) \/ LoopExits(m) \/ Start(m) \/ Crash(m)

Spec == Init /\ [][Next]_vars

(***************************************************************************)
(* Every goroutine is scheduled; a loop keeps selecting between its event  *)
(* channel, its sweep ticker and its context (the ticker fires for ever    *)
(* and the feed is finite, so a ready sweep is selected); time passes.     *)
(***************************************************************************)
FairSpec ==
  /\ Spec
  /\ \A t \in Threads : WF_vars(Drive(t))
  /\ \A m \in Managers : WF_vars(Receive(m)) /\ WF_vars(Sweep(m))
  /\ \A m \in Managers : WF_vars(LoopExits(m)) /\ WF_vars(Start(m))
  /\ WF_vars(Age)

-----------------------------------------------------------------------------
(* Properties. *)

(***************************************************************************)
(* RetrySaga's comment: its drive runs under the lock the event loop uses, *)
(* "so it cannot race an in-flight event for that saga": two goroutines of *)
(* one manager never drive the saga at the same time.                      *)
(***************************************************************************)
OneDriver ==
  \A t, u \in Threads : t # u /\ Mgr(t) = Mgr(u) => ~ (Driving(t) /\ Driving(u))

(***************************************************************************)
(* As long as no operator has driven the saga again, one goroutine of a    *)
(* manager drives it at a time, although settling throws the mutex away    *)
(* while others may wait for it (getSagaLock, saveSaga's eviction).        *)
(***************************************************************************)
OneDriverUnlessRetried == budget.taken.op = 0 => OneDriver

(* What may make a drive of an event run again from the start. *)
Disturbances == LET n == budget.taken IN n.op + n.fault + n.stop + n.crash

(* After an operator's retry several drives of a manager may be under way. *)
Unfinished(m) ==
  IF budget.taken.op = 0 THEN 0 ELSE Cardinality({t \in Threads : Mgr(t) = m /\ Driving(t)})

(* Nobody uses another manager than m. *)
Lone(m) ==
  /\ \A t \in Callers \cup Operators : ManagerOf[t] = m
  /\ \A n \in Managers \ {m} : loop[n] = "absent"

(***************************************************************************)
(* Redelivered events are idempotent: however often an event is delivered, *)
(* a manager sends its commands once, and once more at most for each       *)
(* operator's retry, failed save, stop, crash and save of this manager     *)
(* that met a newer version; the same holds of its compensation            *)
(* (sweepTimeouts does not start over).  Once an operator has retried,     *)
(* drives still under way may come on top.  A manager that nobody shares   *)
(* the saga with meets no newer version, unless an operator retried.       *)
(***************************************************************************)
NothingRepeated ==
  \A m \in Managers :
    LET runs == 1 + Disturbances + lostRaces[m] + Unfinished(m)
    IN /\ \A e \in Events : sent[m][e] <= Commands * runs
       /\ rollbacks[m] <= runs
       /\ Lone(m) /\ budget.taken.op = 0 => lostRaces[m] = 0

(* A restart re-delivers what the stopped loop had not taken to an end.    *)
RestartLosesNothing ==
  \A m \in Managers : loop[m] = "running" =>
    \A e \in 1 .. next[m] - 1 :
      e \in Events => e \in seen[m] \/ (th[m].pc # "idle" /\ th[m].ev = e)

(* Every call on the manager returns: no goroutine waits for ever for a    *)
(* mutex, whichever one it was handed.                                     *)
EveryCallReturns == \A t \in Threads : th[t].pc # "idle" ~> th[t].pc = "idle"

(* A Running saga is settled in the end: it completes or it times out and  *)
(* is compensated, also after a crash in the middle of a drive.            *)
StalledSagaSettles == row.status = "running" ~> row.status \in Terminal
=============================================================================
