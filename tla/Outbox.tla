------------------------------- MODULE Outbox -------------------------------
(***************************************************************************)
(* The transactional outbox: OutboxProcessor (outbox_processor.go) over an *)
(* outbox store (adapters/memory and adapters/postgres, outbox_store.go).  *)
(* Every processor runs a publishing loop, which claims a batch, publishes *)
(* it group by group and marks the outcome, and a maintenance loop, which  *)
(* reclaims, retries and dead-letters.  Several processors, of one or of   *)
(* several processes, share the store.                                     *)
(*                                                                         *)
(* Messages are numbered in the order of their scheduled_at.               *)
(***************************************************************************)
EXTENDS Naturals, FiniteSets, Publishers

CONSTANTS
  LastMessage,    \* messages are 1 .. LastMessage
  Processors,     \* OutboxProcessor instances
  Prefixes,       \* destination prefixes
  Mailings,       \* functions that give every message its letter
  Routed,         \* the prefixes with a registered publisher
  BatchSize,      \* OutboxProcessor.batchSize
  MaxAttempts,    \* min(processor's maxRetries, message's MaxAttempts)
  SlowPublishers, \* TRUE: a publish may outlast processingTimeout
  MaxMishaps      \* bound: publish and store calls that fail, and crashes

Messages == 1 .. LastMessage

ASSUME OutboxAssumption ==
  /\ LastMessage \in Nat /\ BatchSize \in Nat \ {0} /\ MaxAttempts \in Nat \ {0}
  /\ \A f \in Mailings : DOMAIN f = Messages /\ \A m \in Messages : f[m].prefix \in Prefixes
  /\ Routed \subseteq Prefixes
  /\ SlowPublishers \in BOOLEAN
  /\ MaxMishaps \in Nat

VARIABLES
  letter,    \* letter[m]: what message m is (Publishers)
  status,    \* status[m]; "none" before it is scheduled, "gone" once cleaned up
  attempts,  \* attempts[m]: OutboxMessage.Attempts
  stale,     \* messages whose last attempt is older than processingTimeout
  worker,    \* worker[p]: the publishing loop of p
  chore,     \* chore[p]: what p's maintenance loop does next
  sends,     \* history: sends[m], how often m reached its destination
  mishaps    \* how many there have been

messageVars == <<status, attempts, stale>>
vars == <<letter, messageVars, worker, chore, sends, mishaps>>

Statuses == {"none", "pending", "processing", "completed", "failed", "dead_letter", "gone"}
Stored(m) == status[m] \notin {"none", "gone"}

(* claimed: messages of the batch whose group is still to be published;    *)
(* group: the group at hand; todo: its messages not yet marked as failed.  *)
IdleWorker == [pc |-> "idle", claimed |-> {}, group |-> {}, todo |-> {}]

Init ==
  /\ letter \in Mailings
  /\ status = [m \in Messages |-> "none"]
  /\ attempts = [m \in Messages |-> 0]
  /\ stale = {}
  /\ worker = [p \in Processors |-> IdleWorker]
  /\ chore = [p \in Processors |-> "reclaim"]
  /\ sends = [m \in Messages |-> 0]
  /\ mishaps = 0

Mishap == mishaps < MaxMishaps /\ mishaps' = mishaps + 1

(* Every message of S that the table holds gets this status. *)
SetStatus(S, new) ==
  status' = [m \in Messages |-> IF m \in S /\ Stored(m) THEN new ELSE status[m]]

-----------------------------------------------------------------------------
(* Schedule / ScheduleInTx: the message is committed with its event. *)
Schedule(m) ==
  /\ status[m] = "none"
  /\ \A n \in 1 .. m - 1 : status[n] # "none"
  /\ status' = [status EXCEPT ![m] = "pending"]
  /\ UNCHANGED <<attempts, stale, worker, chore, sends, mishaps>>

Pending == {m \in Messages : status[m] = "pending"}

(* The BatchSize messages of S that were scheduled first. *)
Oldest(S) == {m \in S : Cardinality({n \in S : n < m}) < BatchSize}

(* Mutant: the batch is read but not claimed. *)
FetchUnclaimed(p) ==
  LET batch == Oldest(Pending) IN
  /\ worker[p].pc = "idle"
  /\ batch # {}
  /\ attempts' = [m \in Messages |-> IF m \in batch THEN attempts[m] + 1 ELSE attempts[m]]
  /\ stale' = stale \ batch
  /\ worker' = [worker EXCEPT ![p] = [IdleWorker EXCEPT !.pc = "publish", !.claimed = batch]]
  /\ UNCHANGED <<status, chore, sends, mishaps>>

(* processBatch starts: FetchPending claims a batch and counts the attempt. *)
FetchPending(p) ==
  LET batch == Oldest(Pending) IN
  /\ worker[p].pc = "idle"
  /\ batch # {}
  /\ SetStatus(batch, "processing")
  /\ attempts' = [m \in Messages |-> IF m \in batch THEN attempts[m] + 1 ELSE attempts[m]]
  /\ stale' = stale \ batch
  /\ worker' = [worker EXCEPT ![p] = [IdleWorker EXCEPT !.pc = "publish", !.claimed = batch]]
  /\ UNCHANGED <<chore, sends, mishaps>>

(* The messages of the batch for one prefix, and what is left without them. *)
Group(p, x) == {m \in worker[p].claimed : letter[m].prefix = x}

TakeGroup(p, x, pc) ==
  worker' = [worker EXCEPT ![p] = [pc |-> pc, claimed |-> @.claimed \ Group(p, x),
               group |-> Group(p, x), todo |-> IF pc = "fail" THEN Group(p, x) ELSE {}]]

(* The next group, in the order of the map: nobody publishes its prefix ... *)
NoPublisher(p, x) ==
  /\ worker[p].pc = "publish" /\ Group(p, x) # {}
  /\ x \notin Routed
  /\ TakeGroup(p, x, "fail")
  /\ UNCHANGED <<messageVars, chore, sends, mishaps>>

(* ... or its publisher sends every message and all are accepted ... *)
Publish(p, x) ==
  /\ worker[p].pc = "publish" /\ Group(p, x) # {}
  /\ x \in Routed /\ \A m \in Group(p, x) : Sendable(letter[m])
  /\ sends' = [m \in Messages |-> IF m \in Group(p, x) THEN sends[m] + 1 ELSE sends[m]]
  /\ TakeGroup(p, x, "complete")
  /\ UNCHANGED <<messageVars, chore, mishaps>>

(* ... or refuses some of them and sends the others ... *)
PublishRefuses(p, x) ==
  /\ worker[p].pc = "publish" /\ Group(p, x) # {}
  /\ x \in Routed /\ \E m \in Group(p, x) : ~Sendable(letter[m])
  /\ sends' = [m \in Messages |-> IF m \in Group(p, x) /\ Sendable(letter[m]) THEN sends[m] + 1
                                  ELSE sends[m]]
  /\ TakeGroup(p, x, "fail")
  /\ UNCHANGED <<messageVars, chore, mishaps>>

(* ... or hears of a failure, some having been delivered nevertheless. *)
PublishFails(p, x) ==
  /\ worker[p].pc = "publish" /\ Group(p, x) # {}
  /\ x \in Routed
  /\ Mishap
  /\ \E S \in SUBSET {m \in Group(p, x) : Sendable(letter[m])} :
        sends' = [m \in Messages |-> IF m \in S THEN sends[m] + 1 ELSE sends[m]]
  /\ TakeGroup(p, x, "fail")
  /\ UNCHANGED <<messageVars, chore>>

(* On to the next group, or back to the ticker. *)
GroupDone(p) ==
  worker' = [worker EXCEPT ![p] =
    IF @.claimed = {} THEN IdleWorker ELSE [@ EXCEPT !.pc = "publish", !.group = {}, !.todo = {}]]

(* Mutant: the rest of the batch is marked with the group. *)
MarkBatchCompleted(p) ==
  /\ worker[p].pc = "complete"
  /\ SetStatus(worker[p].group \cup worker[p].claimed, "completed")
  /\ GroupDone(p)
  /\ UNCHANGED <<attempts, stale, chore, sends, mishaps>>

(* MarkCompleted does not ask who has claimed the messages by now. *)
MarkCompleted(p) ==
  /\ worker[p].pc = "complete"
  /\ SetStatus(worker[p].group, "completed")
  /\ GroupDone(p)
  /\ UNCHANGED <<attempts, stale, chore, sends, mishaps>>

(* MarkCompleted fails: processBatch returns, its other groups untouched. *)
MarkCompletedFails(p) ==
  /\ worker[p].pc = "complete"
  /\ Mishap
  /\ worker' = [worker EXCEPT ![p] = IdleWorker]
  /\ UNCHANGED <<messageVars, chore, sends>>

(* After the MarkFailed of m, failed itself or not. *)
Marked(p, m) ==
  IF worker[p].todo = {m} THEN GroupDone(p) ELSE worker' = [worker EXCEPT ![p].todo = @ \ {m}]

(* MarkFailed, message by message; it does not ask for the claim either. *)
MarkFailed(p, m) ==
  /\ worker[p].pc = "fail" /\ m \in worker[p].todo
  /\ SetStatus({m}, "failed")
  /\ Marked(p, m)
  /\ UNCHANGED <<attempts, stale, chore, sends, mishaps>>

(* MarkFailed fails: logged, and the message stays claimed. *)
MarkFailedFails(p, m) ==
  /\ worker[p].pc = "fail" /\ m \in worker[p].todo
  /\ Mishap
  /\ Marked(p, m)
  /\ UNCHANGED <<messageVars, chore, sends>>

-----------------------------------------------------------------------------
(* runMaintenance: reclaim, then retry, then dead-letter. *)

ThenDo(p, next) == chore' = [chore EXCEPT ![p] = next]
Failed == {m \in Messages : status[m] = "failed"}

(* What the stores' maintenance statements pick. *)
Reclaimable == {m \in stale : status[m] = "processing"}
Retryable == {m \in Failed : attempts[m] < MaxAttempts}
Exhausted == {m \in Failed : attempts[m] >= MaxAttempts}
Delivered == {m \in Messages : status[m] = "completed"}

(* Mutant: nothing is ever reclaimed (no processing timeout). *)
ReclaimNothing(p) ==
  /\ chore[p] = "reclaim"
  /\ ThenDo(p, "retry")
  /\ UNCHANGED <<messageVars, worker, sends, mishaps>>

ReclaimStale(p) ==
  /\ chore[p] = "reclaim"
  /\ SetStatus(Reclaimable, "pending")
  /\ ThenDo(p, "retry")
  /\ UNCHANGED <<attempts, stale, worker, sends, mishaps>>

RetryFailed(p) ==
  /\ chore[p] = "retry"
  /\ SetStatus(Retryable, "pending")
  /\ ThenDo(p, "dead_letter")
  /\ UNCHANGED <<attempts, stale, worker, sends, mishaps>>

MoveToDeadLetter(p) ==
  /\ chore[p] = "dead_letter"
  /\ SetStatus(Exhausted, "dead_letter")
  /\ ThenDo(p, "reclaim")
  /\ UNCHANGED <<attempts, stale, worker, sends, mishaps>>

(* The maintenance statement of p fails: logged, the next one is run. *)
ChoreFails(p) ==
  /\ Mishap
  /\ ThenDo(p, IF chore[p] = "reclaim" THEN "retry"
               ELSE IF chore[p] = "retry" THEN "dead_letter" ELSE "reclaim")
  /\ UNCHANGED <<messageVars, worker, sends>>

(* runCleanup: completed messages that are old enough are deleted. *)
Cleanup ==
  /\ \E S \in SUBSET Delivered :
        S # {} /\ SetStatus(S, "gone")
  /\ UNCHANGED <<attempts, stale, worker, chore, sends, mishaps>>

-----------------------------------------------------------------------------
(* Time and crashes. *)

(* What p still has to publish or to mark. *)
InFlight(p) ==
  worker[p].claimed \cup (IF worker[p].pc = "fail" THEN worker[p].todo ELSE worker[p].group)

(* The last attempt of m becomes older than processingTimeout. *)
GrowStale(m) ==
  /\ status[m] = "processing" /\ m \notin stale
  /\ SlowPublishers \/ \A p \in Processors : m \notin InFlight(p)
  /\ stale' = stale \cup {m}
  /\ UNCHANGED <<status, attempts, worker, chore, sends, mishaps>>

(* The process of p dies and is started again. *)
Crash(p) ==
  /\ worker[p].pc # "idle"
  /\ Mishap
  /\ worker' = [worker EXCEPT ![p] = IdleWorker]
  /\ chore' = [chore EXCEPT ![p] = "reclaim"]
  /\ UNCHANGED <<messageVars, sends>>

-----------------------------------------------------------------------------
Work(p) ==
  \/ FetchPending(p)
  \/ \E x \in Prefixes : NoPublisher(p, x) \/ Publish(p, x) \/ PublishRefuses(p, x) \/ PublishFails(p, x)
  \/ MarkCompleted(p) \/ MarkCompletedFails(p)
  \/ \E m \in Messages : MarkFailed(p, m) \/ MarkFailedFails(p, m)

Maintain(p) == ReclaimStale(p) \/ RetryFailed(p) \/ MoveToDeadLetter(p) \/ ChoreFails(p)

Next ==
  /\ \/ \E m \in Messages : Schedule(m) \/ GrowStale(m)
     \/ \E p \in Processors : Work(p) \/ Maintain(p) \/ Crash(p)
     \/ Cleanup
  /\ UNCHANGED letter

Spec == Init /\ [][Next]_vars

(* Both loops of every processor are driven by tickers; time passes. *)
FairSpec ==
  /\ Spec
  /\ \A p \in Processors :
       WF_vars(Work(p) /\ UNCHANGED letter) /\ WF_vars(Maintain(p) /\ UNCHANGED letter)
  /\ \A m \in Messages : WF_vars(GrowStale(m) /\ UNCHANGED letter)

-----------------------------------------------------------------------------
(* Properties. *)

(* A message is in the hands of one processor at a time (FetchPending's    *)
(* claim, ReclaimStale's timeout).                                         *)
ClaimedOnce ==
  \A p, q \in Processors : p # q => InFlight(p) \cap InFlight(q) = {}

(* A message recorded as completed has reached its destination, whatever   *)
(* was reclaimed, retried or lost on the way: at-least-once delivery.      *)
CompletedWasSent == \A m \in Messages : status[m] \in {"completed", "gone"} => sends[m] > 0

(* Every scheduled message is published and marked or dead-lettered in the *)
(* end, in spite of failing publishers and stores and of crashes.          *)
EveryMessageSettles ==
  \A m \in Messages : status[m] = "pending" ~> status[m] \in {"completed", "gone", "dead_letter"}
=============================================================================
