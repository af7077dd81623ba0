----------------------------- MODULE Idempotency -----------------------------
(***************************************************************************)
(* IdempotencyMiddleware (idempotency.go) over an idempotency store: the   *)
(* dispatches of one command key by concurrent clients.  The middleware    *)
(* looks the key up, reserves it with StoreIfAbsent, runs the handler and  *)
(* then stores the result or gives the reservation back.  Keys do not      *)
(* interact, so one key is modelled; the handler is external.              *)
(***************************************************************************)
EXTENDS Naturals, FiniteSets

CONSTANTS
  Clients,       \* goroutines (of any process) dispatching the command
  MaxCalls,      \* bound: dispatches
  MaxFailures,   \* bound: handlers that fail
  MaxFaults,     \* bound: store operations that fail
  MaxCrashes     \* bound: clients that crash

ASSUME IdempotencyAssumption ==
  {MaxCalls, MaxFailures, MaxFaults, MaxCrashes} \subseteq Nat

VARIABLES
  config,   \* the options of IdempotencyConfig, fixed when it is installed
  rec,      \* the record stored under the key
  dead,     \* ids of the records that are past their ExpiresAt
  nextId,   \* every record written gets an id of its own
  pc,       \* pc[c]: the step of the middleware client c is at
  copy,     \* copy[c]: the id of the record Get returned
  held,     \* held[c]: the id of c's reservation; 0 = not reserved
  ok,       \* ok[c]: the handler's outcome
  kept,     \* history: successful runs stored since a result last expired
  raced,    \* history: a reservation in use was lost to a clock or a Delete
  orphans,  \* history: reservations whose client died or could not give them back
  budget    \* how many bounded steps are left

local == <<pc, copy, held, ok>>
history == <<kept, raced, orphans>>
vars == <<config, rec, dead, nextId, local, history, budget>>

NoRecord == [id |-> 0, kind |-> "none"]
Live == rec.id # 0 /\ rec.id \notin dead

Init ==
  /\ config \in [failClosed : BOOLEAN, storeErrors : BOOLEAN]
  /\ rec = NoRecord /\ dead = {} /\ nextId = 1
  /\ pc = [c \in Clients |-> "idle"]
  /\ copy = [c \in Clients |-> 0]
  /\ held = [c \in Clients |-> 0]
  /\ ok = [c \in Clients |-> FALSE]
  /\ kept = 0 /\ raced = FALSE /\ orphans = {}
  /\ budget = [call |-> MaxCalls, failure |-> MaxFailures, fault |-> MaxFaults,
               crash |-> MaxCrashes]

Spend(what) == budget[what] > 0 /\ budget' = [budget EXCEPT ![what] = @ - 1]

Goto(c, where) == pc' = [pc EXCEPT ![c] = where]

(* The middleware returns to its caller; its locals are gone. *)
Return(c) ==
  /\ Goto(c, "idle")
  /\ copy' = [copy EXCEPT ![c] = 0]
  /\ held' = [held EXCEPT ![c] = 0]
  /\ ok' = [ok EXCEPT ![c] = FALSE]

(* Write a record of this kind under the key. *)
Put(kind) == rec' = [id |-> nextId, kind |-> kind] /\ nextId' = nextId + 1

-----------------------------------------------------------------------------
(* Store.Get: both stores return nil for an expired record. *)
Get(c) ==
  /\ pc[c] = "idle"
  /\ Spend("call")
  /\ copy' = [copy EXCEPT ![c] = IF Live THEN rec.id ELSE 0]
  /\ Goto(c, IF Live THEN "check" ELSE "reserve")
  /\ UNCHANGED <<config, rec, dead, nextId, held, ok, history>>

(* Get fails: closed, the command fails; open, it runs with no guarantee. *)
GetFails(c) ==
  /\ pc[c] = "idle"
  /\ budget.call > 0
  /\ Spend("fault")
  /\ IF config.failClosed THEN UNCHANGED pc ELSE Goto(c, "bare")
  /\ UNCHANGED <<config, rec, dead, nextId, copy, held, ok, history>>

(* The record is a result to replay or a command in progress ... *)
Answer(c) ==
  /\ pc[c] = "check"
  /\ copy[c] \notin dead
  /\ Return(c)
  /\ UNCHANGED <<config, rec, dead, nextId, history, budget>>

(* ... or it has expired meanwhile: to be deleted, whatever is there by then. *)
FoundStale(c) ==
  /\ pc[c] = "check"
  /\ copy[c] \in dead
  /\ Goto(c, "delete")
  /\ UNCHANGED <<config, rec, dead, nextId, copy, held, ok, history, budget>>

DeleteStale(c) ==
  /\ pc[c] = "delete"
  /\ rec' = NoRecord
  /\ raced' = (raced \/ Live)
  /\ Goto(c, "reserve")
  /\ UNCHANGED <<config, dead, nextId, copy, held, ok, kept, orphans, budget>>

(* Mutant: the reservation does not look for a record. *)
ReserveAlways(c) ==
  /\ pc[c] = "reserve"
  /\ Put("processing")
  /\ held' = [held EXCEPT ![c] = nextId]
  /\ Goto(c, "run")
  /\ UNCHANGED <<config, dead, copy, ok, history, budget>>

(* StoreIfAbsent: an expired record counts as absent. *)
Reserve(c) ==
  /\ pc[c] = "reserve"
  /\ ~ Live
  /\ Put("processing")
  /\ held' = [held EXCEPT ![c] = nextId]
  /\ Goto(c, "run")
  /\ UNCHANGED <<config, dead, copy, ok, history, budget>>

(* The race is lost: the second Get only chooses what to answer. *)
ReserveLost(c) ==
  /\ pc[c] = "reserve"
  /\ Live
  /\ Return(c)
  /\ UNCHANGED <<config, rec, dead, nextId, history, budget>>

(* StoreIfAbsent fails: closed, return; open, run without a reservation.  *)
(* It may be the answer that was lost, after the record was written.       *)
ReserveFails(c) ==
  /\ pc[c] = "reserve"
  /\ Spend("fault")
  /\ IF config.failClosed THEN Return(c) ELSE Goto(c, "run") /\ UNCHANGED <<copy, held, ok>>
  /\ \/ UNCHANGED <<rec, nextId, orphans>>
     \/ ~ Live /\ Put("processing") /\ orphans' = orphans \cup {nextId}
  /\ UNCHANGED <<config, dead, kept, raced>>

(* The handler, with what the middleware does with its outcome. *)
HandlerSucceeds(c) ==
  /\ pc[c] \in {"run", "bare"}
  /\ IF pc[c] = "bare"
     THEN Return(c)
     ELSE Goto(c, "store") /\ ok' = [ok EXCEPT ![c] = TRUE] /\ UNCHANGED <<copy, held>>
  /\ UNCHANGED <<config, rec, dead, nextId, history, budget>>

(* A failure without an error, an unsuccessful result, is not stored under *)
(* StoreErrors either.                                                     *)
HandlerFails(c, err) ==
  LET stored == pc[c] = "run" /\ config.storeErrors /\ err
  IN /\ pc[c] \in {"run", "bare"}
     /\ Spend("failure")
     /\ \/ stored /\ Goto(c, "store") /\ UNCHANGED <<copy, held, ok>>
        \/ ~ stored /\ held[c] # 0 /\ Goto(c, "release") /\ UNCHANGED <<copy, held, ok>>
        \/ ~ stored /\ held[c] = 0 /\ Return(c)
     /\ UNCHANGED <<config, rec, dead, nextId, history>>

(* Mutant: a result is not stored. *)
StoreNothing(c) ==
  /\ pc[c] = "store"
  /\ rec' = NoRecord
  /\ kept' = IF ok[c] THEN kept + 1 ELSE kept
  /\ Return(c)
  /\ UNCHANGED <<config, dead, nextId, raced, orphans, budget>>

(* Store.Store overwrites what is under the key. *)
StoreResult(c) ==
  /\ pc[c] = "store"
  /\ Put("result")
  /\ kept' = IF ok[c] THEN kept + 1 ELSE kept
  /\ Return(c)
  /\ UNCHANGED <<config, dead, raced, orphans, budget>>

(* Mutant: nobody looks at the error of Store. *)
StoreFailsUnseen(c) ==
  /\ pc[c] = "store"
  /\ Spend("fault")
  /\ Return(c)
  /\ UNCHANGED <<config, rec, dead, nextId, history>>

(* Store.Store fails: a reservation that was made is given back. *)
StoreFails(c) ==
  /\ pc[c] = "store"
  /\ Spend("fault")
  /\ IF held[c] # 0
     THEN Goto(c, "release") /\ ok' = [ok EXCEPT ![c] = FALSE] /\ UNCHANGED <<copy, held>>
     ELSE Return(c)
  /\ UNCHANGED <<config, rec, dead, nextId, history>>

(* Store.Delete does not ask whether the record is still c's own. *)
Release(c) ==
  /\ pc[c] = "release"
  /\ rec' = NoRecord
  /\ Return(c)
  /\ UNCHANGED <<config, dead, nextId, history, budget>>

ReleaseFails(c) ==
  /\ pc[c] = "release"
  /\ Spend("fault")
  /\ Return(c)
  /\ orphans' = orphans \cup {held[c]}
  /\ UNCHANGED <<config, rec, dead, nextId, kept, raced>>

-----------------------------------------------------------------------------
(* Time and crashes. *)

InUse(c, id) == held[c] = id /\ pc[c] \in {"run", "store", "release"}

(* The record does not count any more: a result with its effect, a          *)
(* reservation under a handler that is still at work.                      *)
Lose ==
  /\ kept' = IF rec.kind = "result" THEN 0 ELSE kept
  /\ raced' = (raced \/ \E c \in Clients : Live /\ InUse(c, rec.id))

(* The record passes its ExpiresAt: TTL for a result, ReservationTTL for a *)
(* reservation, which a handler is expected to finish within.              *)
Expire ==
  /\ Live
  /\ dead' = dead \cup {rec.id}
  /\ Lose
  /\ UNCHANGED <<config, rec, nextId, local, orphans, budget>>

(* Cleanup(olderThan) deletes what is expired and whatever is older than   *)
(* the caller says, live or not.                                           *)
Cleanup ==
  /\ rec.id # 0
  /\ rec' = NoRecord
  /\ Lose
  /\ UNCHANGED <<config, dead, nextId, local, orphans, budget>>

(* The process of c dies; what it wrote stays. *)
Crash(c) ==
  /\ pc[c] # "idle"
  /\ Spend("crash")
  /\ Return(c)
  /\ orphans' = orphans \cup {held[c]}
  /\ UNCHANGED <<config, rec, dead, nextId, kept, raced>>

-----------------------------------------------------------------------------
Step(c) ==
  \/ Answer(c) \/ FoundStale(c) \/ DeleteStale(c)
  \/ Reserve(c) \/ ReserveLost(c) \/ ReserveFails(c)
  \/ HandlerSucceeds(c) \/ (\E err \in BOOLEAN : HandlerFails(c, err))
  \/ StoreResult(c) \/ StoreFails(c) \/ Release(c) \/ ReleaseFails(c)

Next ==
  \/ \E c \in Clients : Get(c) \/ GetFails(c) \/ Step(c) \/ Crash(c)
  \/ Expire
  \/ Cleanup

Spec == Init /\ [][Next]_vars

-----------------------------------------------------------------------------
(* Properties. *)

(* "Reserve the key before executing so concurrent duplicates cannot both  *)
(* run the handler" (IdempotencyMiddleware): so it is when the middleware  *)
(* fails closed, whoever crashes, until a handler outlives ReservationTTL  *)
(* or the age of a Cleanup, or a stale record's Delete hits another        *)
(* client's reservation.                                                   *)
OneHandler ==
  config.failClosed /\ ~ raced =>
    \A c, d \in Clients : pc[c] \in {"run", "bare"} /\ pc[d] \in {"run", "bare"} => c = d

(* The command takes effect once until its stored result expires, under    *)
(* the same conditions, or is cleaned up.  A success whose result was not   *)
(* stored (a crash, a failing Store) is not counted: FailClosed does not   *)
(* cover those.                                                            *)
EffectOnce ==
  config.failClosed /\ ~ raced =>
    kept + Cardinality({c \in Clients : pc[c] = "store" /\ ok[c]}) <= 1

(* "command in progress" is a true answer: a reservation that blocks the   *)
(* key belongs to a client that is at work, whatever failed, expired or    *)
(* was deleted, unless its client crashed or Delete failed, and then only  *)
(* until ReservationTTL; a failing Store must not leave one behind.        *)
InProgressIsTrue ==
  Live /\ rec.kind = "processing" /\ rec.id \notin orphans => \E c \in Clients : InUse(c, rec.id)
=============================================================================
