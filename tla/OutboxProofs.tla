----------------------------- MODULE OutboxProofs -----------------------------
(***************************************************************************)
(* Proofs about the outbox, for any number of processors, messages,        *)
(* mailings, mishaps and crashes: what is marked as completed was sent,    *)
(* and, if no publish outlasts processingTimeout, no message is in two     *)
(* processors' hands.                                                      *)
(***************************************************************************)
EXTENDS Outbox, TLAPS

Works == [pc : {"idle", "publish", "complete", "fail"}, claimed : SUBSET Messages,
          group : SUBSET Messages, todo : SUBSET Messages]

TypeInv ==
  /\ status \in [Messages -> Statuses]
  /\ stale \subseteq Messages
  /\ worker \in [Processors -> Works]
  /\ sends \in [Messages -> Nat]

(* A group that waits to be marked as completed has been sent. *)
SentInv ==
  /\ \A p \in Processors : worker[p].pc = "complete" => \A m \in worker[p].group : sends[m] > 0
  /\ CompletedWasSent

(* The shape of a processor's work: between two groups there is no group,  *)
(* and a group is no longer among the messages that wait for their turn.   *)
WorkInv ==
  \A p \in Processors :
    /\ worker[p].pc = "idle" => worker[p].claimed = {}
    /\ worker[p].pc \in {"idle", "publish"} => worker[p].group = {}
    /\ worker[p].claimed \cap worker[p].group = {}
    /\ worker[p].todo \subseteq worker[p].group

(* A message in somebody's hands is processing and its attempt is recent,  *)
(* so neither FetchPending nor ReclaimStale touches it.                    *)
ClaimInv ==
  ~ SlowPublishers =>
    /\ \A p \in Processors : \A m \in InFlight(p) : status[m] = "processing" /\ m \notin stale
    /\ ClaimedOnce

OutboxInv == TypeInv /\ SentInv /\ WorkInv /\ ClaimInv

LEMMA InitOutbox == Init => OutboxInv
<1> SUFFICES ASSUME Init PROVE OutboxInv
  OBVIOUS
<1>1. TypeInv
  BY DEF Init, TypeInv, Works, IdleWorker, Statuses
<1>2. SentInv
  BY DEF Init, SentInv, CompletedWasSent, IdleWorker
<1>3. WorkInv
  BY DEF Init, WorkInv, IdleWorker
<1>4. ClaimInv
  BY DEF Init, ClaimInv, ClaimedOnce, InFlight, IdleWorker
<1> QED
  BY <1>1, <1>2, <1>3, <1>4 DEF OutboxInv

-----------------------------------------------------------------------------
(* What SetStatus does to the table. *)
LEMMA SetStatusFacts ==
  ASSUME TypeInv, NEW S \in SUBSET Messages, NEW new \in Statuses, SetStatus(S, new)
  PROVE  /\ status' \in [Messages -> Statuses]
         /\ \A m \in Messages \ S : status'[m] = status[m]
         /\ \A m \in S : status'[m] = new \/ (~ Stored(m) /\ status'[m] = status[m])
         /\ \A m \in S : Stored(m) => status'[m] = new
BY DEF SetStatus, TypeInv, Stored

(* What one processor's step does to the others' work. *)
Others(p) == \A q \in Processors \ {p} : worker'[q] = worker[q]

LEMMA OthersKeep ==
  ASSUME TypeInv, NEW p \in Processors, NEW r, worker' = [worker EXCEPT ![p] = r]
  PROVE  worker'[p] = r /\ Others(p)
BY DEF TypeInv, Others

(***************************************************************************)
(* A step of p that hands it S in place of what it had in flight: enough   *)
(* for the claims to stay exclusive, if nobody else's messages are in S    *)
(* and the step leaves the messages of the others alone.                   *)
(***************************************************************************)
LEMMA ClaimStep ==
  ASSUME TypeInv, ClaimInv, ~ SlowPublishers,
         NEW p \in Processors, Others(p), InFlight(p)' \subseteq Messages,
         \A m \in InFlight(p)' : status'[m] = "processing" /\ m \notin stale',
         \A q \in Processors \ {p} : InFlight(p)' \cap InFlight(q) = {},
         \A q \in Processors \ {p} : \A m \in InFlight(q) :
            status'[m] = status[m] /\ (m \in stale' => m \in stale)
  PROVE  ClaimInv'
<1>1. \A q \in Processors \ {p} : InFlight(q)' = InFlight(q)
  BY DEF Others, InFlight
<1>2. \A q \in Processors : \A m \in InFlight(q)' : status'[m] = "processing" /\ m \notin stale'
  BY <1>1 DEF ClaimInv
<1>3. ClaimedOnce'
  BY <1>1 DEF ClaimInv, ClaimedOnce
<1> QED
  BY <1>2, <1>3 DEF ClaimInv
-----------------------------------------------------------------------------
(* Steps of the clock, of the maintenance loops and of producers. *)
LEMMA TableStep ==
  ASSUME OutboxInv, UNCHANGED <<worker, sends>>,
         status' \in [Messages -> Statuses], stale' \subseteq Messages,
         \A m \in Messages : status'[m] \in {"completed", "gone"} => status[m] \in {"completed", "gone"},
         ~ SlowPublishers => \A p \in Processors : \A m \in InFlight(p) :
            status'[m] = status[m] /\ (m \in stale' => m \in stale)
  PROVE  OutboxInv'
<1> USE DEF OutboxInv, Works
<1>1. TypeInv'
  BY DEF TypeInv
<1>2. SentInv'
  BY DEF SentInv, CompletedWasSent
<1>3. WorkInv'
  BY DEF WorkInv
<1>4. \A p \in Processors : InFlight(p)' = InFlight(p)
  BY DEF InFlight
<1>5. ClaimInv'
  BY <1>4 DEF ClaimInv, ClaimedOnce
<1> QED
  BY <1>1, <1>2, <1>3, <1>5

(* SetStatus on messages that nobody has in his hands. *)
LEMMA MaintenanceStep ==
  ASSUME OutboxInv, UNCHANGED <<worker, sends, stale>>,
         NEW S \in SUBSET Messages, NEW new \in Statuses, SetStatus(S, new),
         new \in {"completed", "gone"} => \A m \in S : status[m] = "completed",
         ~ SlowPublishers => \A m \in S : status[m] # "processing" \/ m \in stale
  PROVE  OutboxInv'
<1> USE DEF OutboxInv, Works
<1>1. /\ status' \in [Messages -> Statuses]
      /\ \A m \in Messages \ S : status'[m] = status[m]
      /\ \A m \in S : status'[m] = new \/ status'[m] = status[m]
  BY SetStatusFacts
<1>2. \A m \in Messages : status'[m] \in {"completed", "gone"} => status[m] \in {"completed", "gone"}
  BY <1>1
<1>3. ~ SlowPublishers => \A p \in Processors : \A m \in InFlight(p) : m \in Messages \ S
  BY DEF ClaimInv, InFlight, TypeInv
<1> QED
  BY <1>1, <1>2, <1>3, TableStep DEF TypeInv

-----------------------------------------------------------------------------
(***************************************************************************)
(* A step of p's publishing loop: it marks the messages S of those it has  *)
(* in its hands, and goes on with r, which holds none but the others.      *)
(***************************************************************************)
LEMMA LoopStep ==
  ASSUME OutboxInv, NEW p \in Processors, NEW S \in SUBSET Messages, NEW r \in Works,
         stale' = stale, status' \in [Messages -> Statuses],
         \A m \in Messages \ S : status'[m] = status[m],
         \A m \in S : status'[m] \in {"completed", "gone"} => sends[m] > 0,
         worker' = [worker EXCEPT ![p] = r],
         sends' \in [Messages -> Nat], \A m \in Messages : sends'[m] >= sends[m],
         r.pc = "complete" => \A m \in r.group : sends'[m] > 0,
         r.pc = "idle" => r.claimed = {},
         r.pc \in {"idle", "publish"} => r.group = {},
         r.claimed \cap r.group = {} /\ r.todo \subseteq r.group,
         S \subseteq InFlight(p),
         r.claimed \cup (IF r.pc = "fail" THEN r.todo ELSE r.group) \subseteq InFlight(p) \ S
  PROVE  OutboxInv'
<1> USE DEF OutboxInv, Works
<1>1. worker'[p] = r /\ Others(p)
  BY OthersKeep
<1>2. TypeInv'
  BY DEF TypeInv
<1>3. SentInv'
  <2>1. CompletedWasSent'
    BY DEF SentInv, CompletedWasSent, TypeInv
  <2>2. \A q \in Processors : worker'[q].pc = "complete" => \A m \in worker'[q].group : sends'[m] > 0
    BY <1>1 DEF SentInv, Others, TypeInv
  <2> QED
    BY <2>1, <2>2 DEF SentInv
<1>4. WorkInv'
  BY <1>1 DEF WorkInv, Others
<1>5. InFlight(p)' \subseteq InFlight(p) \ S /\ InFlight(p) \subseteq Messages
  BY <1>1 DEF InFlight, TypeInv
<1>6. ASSUME ~ SlowPublishers PROVE ClaimInv'
  <2>1. \A q \in Processors \ {p} : InFlight(q) \cap InFlight(p) = {} /\ InFlight(q) \subseteq Messages
    BY <1>6 DEF ClaimInv, ClaimedOnce, InFlight, TypeInv
  <2>2. \A m \in InFlight(p)' : status'[m] = "processing" /\ m \notin stale'
    BY <1>5, <1>6 DEF ClaimInv
  <2>3. \A q \in Processors \ {p} : \A m \in InFlight(q) : status'[m] = status[m]
    BY <2>1
  <2>4. \A q \in Processors \ {p} : InFlight(p)' \cap InFlight(q) = {}
    BY <1>5, <2>1
  <2> QED
    BY <1>1, <1>5, <1>6, <2>2, <2>3, <2>4, ClaimStep
<1> QED
  BY <1>2, <1>3, <1>4, <1>6 DEF ClaimInv

(* The four ways a group is published. *)
LEMMA GroupStep ==
  ASSUME OutboxInv, NEW p \in Processors, NEW x,
         worker[p].pc = "publish", NEW pc \in {"complete", "fail"}, TakeGroup(p, x, pc),
         UNCHANGED <<status, stale>>,
         sends' \in [Messages -> Nat], \A m \in Messages : sends'[m] >= sends[m],
         pc = "complete" => \A m \in Group(p, x) : sends'[m] > 0
  PROVE  OutboxInv'
<1> USE DEF OutboxInv, Works
<1>1. PICK r : r = [pc |-> pc, claimed |-> worker[p].claimed \ Group(p, x),
                    group |-> Group(p, x), todo |-> IF pc = "fail" THEN Group(p, x) ELSE {}]
  OBVIOUS
<1>2. Group(p, x) \subseteq worker[p].claimed /\ worker[p].claimed \subseteq Messages
  BY DEF Group, TypeInv
<1>3. worker' = [worker EXCEPT ![p] = r]
  BY <1>1 DEF TakeGroup, TypeInv
<1>4. r.pc = pc /\ r.claimed = worker[p].claimed \ Group(p, x) /\ r.group = Group(p, x)
      /\ r.todo \subseteq Group(p, x)
  BY <1>1
<1>5. r \in Works
  BY <1>1, <1>2 DEF Works
<1>6. r.claimed \cup (IF r.pc = "fail" THEN r.todo ELSE r.group) \subseteq InFlight(p)
  BY <1>2, <1>4 DEF InFlight
<1>7. PICK S \in SUBSET Messages : S = {}
  OBVIOUS
<1>8. S \subseteq InFlight(p) /\ status' \in [Messages -> Statuses]
  BY <1>7 DEF TypeInv
<1>9. r.claimed \cup (IF r.pc = "fail" THEN r.todo ELSE r.group) \subseteq InFlight(p) \ S
  BY <1>6, <1>7
<1> HIDE DEF OutboxInv, Works
<1> QED
  BY <1>3, <1>4, <1>5, <1>7, <1>8, <1>9, LoopStep

(* What is left to do after a group, and that it is not the group. *)
LEMMA AfterGroup ==
  ASSUME OutboxInv, NEW p \in Processors, GroupDone(p), worker[p].pc \in {"complete", "fail"}
  PROVE  \E r \in Works :
           /\ worker' = [worker EXCEPT ![p] = r]
           /\ r.pc \in {"idle", "publish"} /\ r.claimed = worker[p].claimed
           /\ r.pc = "idle" => r.claimed = {}
           /\ r.group = {} /\ r.todo = {}
<1> USE DEF OutboxInv, Works
<1>1. PICK r : r = IF worker[p].claimed = {} THEN IdleWorker
                   ELSE [worker[p] EXCEPT !.pc = "publish", !.group = {}, !.todo = {}]
  OBVIOUS
<1>2. worker[p] \in Works
  BY DEF TypeInv
<1>3. worker' = [worker EXCEPT ![p] = r]
  BY <1>1 DEF GroupDone, TypeInv
<1>4. /\ r \in Works /\ r.pc \in {"idle", "publish"} /\ r.claimed = worker[p].claimed
      /\ r.pc = "idle" => r.claimed = {}
      /\ r.group = {} /\ r.todo = {}
  <2>1. CASE worker[p].claimed = {}
    BY <1>1, <2>1 DEF IdleWorker
  <2>2. CASE worker[p].claimed # {}
    BY <1>1, <1>2, <2>2
  <2> QED
    BY <2>1, <2>2
<1> HIDE DEF Works
<1> QED
  BY <1>3, <1>4

(* After the MarkFailed of m, m is in p's hands no more. *)
LEMMA AfterMarked ==
  ASSUME OutboxInv, NEW p \in Processors, NEW m \in worker[p].todo, Marked(p, m),
         worker[p].pc = "fail", stale' = stale, sends' = sends,
         NEW S \in SUBSET {m}, status' \in [Messages -> Statuses],
         \A n \in Messages \ S : status'[n] = status[n],
         \A n \in S : status'[n] \in {"completed", "gone"} => sends[n] > 0
  PROVE  OutboxInv'
<1> USE DEF OutboxInv, Works
<1>1. /\ worker[p] \in Works /\ m \in Messages /\ m \notin worker[p].claimed
      /\ worker[p].todo \subseteq worker[p].group
      /\ InFlight(p) = worker[p].claimed \cup worker[p].todo
  BY DEF TypeInv, WorkInv, InFlight
<1>0. sends' \in [Messages -> Nat] /\ \A n \in Messages : sends'[n] >= sends[n]
  BY DEF TypeInv
<1>a. S \in SUBSET Messages /\ S \subseteq InFlight(p)
  BY <1>1
<1>2. CASE worker[p].todo = {m}
  <2>1. PICK r \in Works :
           /\ worker' = [worker EXCEPT ![p] = r]
           /\ r.pc \in {"idle", "publish"} /\ r.claimed = worker[p].claimed
           /\ r.pc = "idle" => r.claimed = {}
           /\ r.group = {} /\ r.todo = {}
    BY <1>2, AfterGroup DEF Marked
  <2>2. r.claimed \cup (IF r.pc = "fail" THEN r.todo ELSE r.group) \subseteq InFlight(p) \ S
    BY <1>1, <2>1
  <2> HIDE DEF OutboxInv, Works
  <2> QED
    BY <1>0, <1>a, <2>1, <2>2, LoopStep
<1>3. CASE worker[p].todo # {m}
  <2>1. PICK r : r = [worker[p] EXCEPT !.todo = @ \ {m}]
    OBVIOUS
  <2>2. worker' = [worker EXCEPT ![p] = r]
    BY <1>3, <2>1 DEF Marked, TypeInv
  <2>3. r \in Works /\ r.pc = "fail" /\ r.claimed = worker[p].claimed
        /\ r.group = worker[p].group /\ r.todo = worker[p].todo \ {m}
    BY <1>1, <2>1
  <2>4. r.claimed \cap r.group = {} /\ r.todo \subseteq r.group
    BY <1>1, <2>3 DEF WorkInv
  <2>5. r.claimed \cup (IF r.pc = "fail" THEN r.todo ELSE r.group) \subseteq InFlight(p) \ S
    BY <1>1, <2>3
  <2> HIDE DEF OutboxInv, Works
  <2> QED
    BY <1>0, <1>a, <2>2, <2>3, <2>4, <2>5, LoopStep
<1> QED
  BY <1>2, <1>3

(* Back to the ticker: p gives up what it had. *)
LEMMA GiveUp ==
  ASSUME OutboxInv, NEW p \in Processors, worker' = [worker EXCEPT ![p] = IdleWorker],
         UNCHANGED <<status, stale, sends>>
  PROVE  OutboxInv'
<1>1. IdleWorker \in Works /\ IdleWorker.claimed = {} /\ IdleWorker.group = {}
      /\ IdleWorker.todo = {} /\ IdleWorker.pc = "idle"
  BY DEF IdleWorker, Works
<1>2. status' \in [Messages -> Statuses] /\ sends' \in [Messages -> Nat]
      /\ \A m \in Messages : sends'[m] >= sends[m]
  BY DEF OutboxInv, TypeInv
<1> HIDE DEF IdleWorker
<1> QED
  BY <1>1, <1>2, LoopStep

(* A batch is claimed: pending messages, which nobody has in his hands. *)
LEMMA FetchStep ==
  ASSUME OutboxInv, NEW p \in Processors, FetchPending(p)
  PROVE  OutboxInv'
<1> USE DEF OutboxInv, Works
<1>1. PICK B : B = Oldest(Pending)
  OBVIOUS
<1>2. B \subseteq Messages /\ \A m \in B : status[m] = "pending"
  BY <1>1 DEF Oldest, Pending
<1>3. PICK r : r = [IdleWorker EXCEPT !.pc = "publish", !.claimed = B]
  OBVIOUS
<1>4. r \in Works /\ r.pc = "publish" /\ r.claimed = B /\ r.group = {} /\ r.todo = {}
  BY <1>2, <1>3 DEF IdleWorker
<1>5. worker' = [worker EXCEPT ![p] = r] /\ SetStatus(B, "processing") /\ stale' = stale \ B
      /\ sends' = sends
  BY <1>1, <1>3 DEF FetchPending
<1>6. worker'[p] = r /\ Others(p)
  BY <1>5, OthersKeep
<1>7. /\ status' \in [Messages -> Statuses]
      /\ \A m \in Messages \ B : status'[m] = status[m]
      /\ \A m \in B : status'[m] = "processing"
  BY <1>2, <1>5, SetStatusFacts DEF Statuses, Stored
<1>8. TypeInv'
  BY <1>4, <1>5, <1>7 DEF TypeInv
<1>9. SentInv'
  <2>1. CompletedWasSent'
    BY <1>5, <1>7 DEF SentInv, CompletedWasSent
  <2>2. \A q \in Processors : worker'[q].pc = "complete" => \A m \in worker'[q].group : sends'[m] > 0
    BY <1>4, <1>5, <1>6 DEF SentInv, Others
  <2> QED
    BY <2>1, <2>2 DEF SentInv
<1>10. WorkInv'
  BY <1>4, <1>6 DEF WorkInv, Others
<1>11. InFlight(p)' = B
  BY <1>4, <1>6 DEF InFlight
<1>12. ASSUME ~ SlowPublishers PROVE ClaimInv'
  <2>1. \A q \in Processors \ {p} : \A m \in InFlight(q) : status[m] = "processing" /\ m \in Messages
    BY <1>12 DEF ClaimInv, InFlight, TypeInv
  <2>2. \A q \in Processors \ {p} : B \cap InFlight(q) = {}
    BY <1>2, <2>1
  <2>3. \A q \in Processors \ {p} : \A m \in InFlight(q) :
            status'[m] = status[m] /\ (m \in stale' => m \in stale)
    BY <1>5, <1>7, <2>1, <2>2
  <2> QED
    BY <1>2, <1>5, <1>6, <1>7, <1>11, <1>12, <2>2, <2>3, ClaimStep
<1> QED
  BY <1>8, <1>9, <1>10, <1>12 DEF ClaimInv

(***************************************************************************)
(* Every step keeps the invariant.                                         *)
(***************************************************************************)
LEMMA WorkStep ==
  ASSUME OutboxInv, NEW p \in Processors, Work(p)
  PROVE  OutboxInv'
<1>0. TypeInv
  BY DEF OutboxInv
<1>1. CASE FetchPending(p)
  BY <1>1, FetchStep
<1>2. ASSUME NEW x \in Prefixes, NoPublisher(p, x)
      PROVE  OutboxInv'
  BY <1>0, <1>2, GroupStep DEF NoPublisher, messageVars, TypeInv
<1>3. ASSUME NEW x \in Prefixes, Publish(p, x)
      PROVE  OutboxInv'
  <2>1. sends' \in [Messages -> Nat] /\ \A m \in Messages : sends'[m] >= sends[m]
    BY <1>0, <1>3 DEF Publish, TypeInv
  <2>2. \A m \in Group(p, x) : sends'[m] > 0
    BY <1>0, <1>3 DEF Publish, Group, TypeInv, Works
  <2> QED
    BY <1>3, <2>1, <2>2, GroupStep DEF Publish, messageVars
<1>4. ASSUME NEW x \in Prefixes, PublishRefuses(p, x)
      PROVE  OutboxInv'
  <2>1. sends' \in [Messages -> Nat] /\ \A m \in Messages : sends'[m] >= sends[m]
    BY <1>0, <1>4 DEF PublishRefuses, TypeInv
  <2> QED
    BY <1>4, <2>1, GroupStep DEF PublishRefuses, messageVars
<1>5. ASSUME NEW x \in Prefixes, PublishFails(p, x)
      PROVE  OutboxInv'
  <2>1. sends' \in [Messages -> Nat] /\ \A m \in Messages : sends'[m] >= sends[m]
    BY <1>0, <1>5 DEF PublishFails, TypeInv
  <2> QED
    BY <1>5, <2>1, GroupStep DEF PublishFails, messageVars
<1>6. CASE MarkCompleted(p)
  <2>1. PICK S : S = worker[p].group
    OBVIOUS
  <2>2. S \in SUBSET Messages /\ S \subseteq InFlight(p)
        /\ worker[p].claimed \subseteq InFlight(p) \ S
    BY <1>0, <1>6, <2>1 DEF MarkCompleted, TypeInv, Works, InFlight, OutboxInv, WorkInv
  <2>3. status' \in [Messages -> Statuses] /\ \A m \in Messages \ S : status'[m] = status[m]
    BY <1>0, <1>6, <2>1, <2>2, SetStatusFacts DEF MarkCompleted, Statuses
  <2>4. \A m \in S : sends[m] > 0
    BY <1>6, <2>1 DEF MarkCompleted, OutboxInv, SentInv
  <2>5. sends' \in [Messages -> Nat] /\ \A m \in Messages : sends'[m] >= sends[m]
    BY <1>0, <1>6 DEF MarkCompleted, TypeInv
  <2>6. stale' = stale
    BY <1>6 DEF MarkCompleted
  <2>7. PICK r \in Works :
           /\ worker' = [worker EXCEPT ![p] = r]
           /\ r.pc \in {"idle", "publish"} /\ r.claimed = worker[p].claimed
           /\ r.pc = "idle" => r.claimed = {}
           /\ r.group = {} /\ r.todo = {}
    BY <1>6, AfterGroup DEF MarkCompleted
  <2>8. r.claimed \cup (IF r.pc = "fail" THEN r.todo ELSE r.group) \subseteq InFlight(p) \ S
    BY <2>2, <2>7
  <2> QED
    BY <2>2, <2>3, <2>4, <2>5, <2>6, <2>7, <2>8, LoopStep
<1>7. CASE MarkCompletedFails(p)
  BY <1>7, GiveUp DEF MarkCompletedFails, messageVars
<1>8. ASSUME NEW m \in Messages, MarkFailed(p, m)
      PROVE  OutboxInv'
  <2>1. PICK S : S = {m}
    OBVIOUS
  <2>2. /\ status' \in [Messages -> Statuses]
        /\ \A n \in Messages \ S : status'[n] = status[n]
        /\ \A n \in S : status'[n] = "failed" \/ status'[n] = status[n]
    BY <1>0, <1>8, <2>1, SetStatusFacts DEF MarkFailed, Statuses
  <2>3. \A n \in S : status'[n] \in {"completed", "gone"} => sends[n] > 0
    BY <2>1, <2>2 DEF OutboxInv, SentInv, CompletedWasSent
  <2> QED
    BY <1>8, <2>1, <2>2, <2>3, AfterMarked DEF MarkFailed
<1>9. ASSUME NEW m \in Messages, MarkFailedFails(p, m)
      PROVE  OutboxInv'
  <2>1. PICK S : S = {}
    OBVIOUS
  <2> QED
    BY <1>0, <1>9, <2>1, AfterMarked DEF MarkFailedFails, messageVars, TypeInv
<1> QED
  BY <1>1, <1>2, <1>3, <1>4, <1>5, <1>6, <1>7, <1>8, <1>9 DEF Work

LEMMA OutboxStep == OutboxInv /\ [Next]_vars => OutboxInv'
<1> SUFFICES ASSUME OutboxInv, [Next]_vars PROVE OutboxInv'
  OBVIOUS
<1>0. TypeInv
  BY DEF OutboxInv
<1>1. CASE UNCHANGED vars
  BY <1>0, <1>1, TableStep DEF vars, messageVars, TypeInv
<1>2. ASSUME NEW m \in Messages, Schedule(m)
      PROVE  OutboxInv'
  <2>1. status' \in [Messages -> Statuses] /\ status[m] = "none" /\ status'[m] = "pending"
        /\ \A n \in Messages \ {m} : status'[n] = status[n]
    BY <1>0, <1>2 DEF Schedule, TypeInv, Statuses
  <2>2. ~ SlowPublishers => \A p \in Processors : \A n \in InFlight(p) : n \in Messages \ {m}
    BY <1>0, <2>1 DEF OutboxInv, ClaimInv, InFlight, TypeInv, Works
  <2> QED
    BY <1>0, <1>2, <2>1, <2>2, TableStep DEF Schedule, TypeInv
<1>3. ASSUME NEW m \in Messages, GrowStale(m)
      PROVE  OutboxInv'
  <2>1. UNCHANGED <<status, worker, sends>> /\ stale' = stale \cup {m}
    BY <1>3 DEF GrowStale
  <2>2. ~ SlowPublishers => \A p \in Processors : \A n \in InFlight(p) : n \in stale' => n \in stale
    BY <1>3, <2>1 DEF GrowStale
  <2> QED
    BY <1>0, <2>1, <2>2, TableStep DEF TypeInv
<1>4. ASSUME NEW p \in Processors, Maintain(p)
      PROVE  OutboxInv'
  <2>1. CASE ReclaimStale(p)
    BY <1>0, <2>1, MaintenanceStep DEF ReclaimStale, Reclaimable, Statuses, TypeInv
  <2>2. CASE RetryFailed(p)
    BY <2>2, MaintenanceStep DEF RetryFailed, Retryable, Failed, Statuses
  <2>3. CASE MoveToDeadLetter(p)
    BY <2>3, MaintenanceStep DEF MoveToDeadLetter, Exhausted, Failed, Statuses
  <2>4. CASE ChoreFails(p)
    BY <1>0, <2>4, TableStep DEF ChoreFails, messageVars, TypeInv
  <2> QED
    BY <1>4, <2>1, <2>2, <2>3, <2>4 DEF Maintain
<1>5. ASSUME NEW p \in Processors, Crash(p)
      PROVE  OutboxInv'
  BY <1>5, GiveUp DEF Crash, messageVars
<1>6. CASE Cleanup
  <2>1. PICK S \in SUBSET Delivered : SetStatus(S, "gone")
    BY <1>6 DEF Cleanup
  <2>2. S \in SUBSET Messages /\ \A m \in S : status[m] = "completed"
    BY <2>1 DEF Delivered
  <2> QED
    BY <1>6, <2>1, <2>2, MaintenanceStep DEF Cleanup, Statuses
<1> QED
  BY <1>1, <1>2, <1>3, <1>4, <1>5, <1>6, WorkStep DEF Next

LEMMA OutboxInvariant == Spec => []OutboxInv
BY InitOutbox, OutboxStep, PTL DEF Spec

(***************************************************************************)
(* At-least-once delivery: whatever processors race, time out, fail or     *)
(* crash, a message the store shows as completed, or has cleaned up, was   *)
(* accepted at its destination.                                            *)
(***************************************************************************)
THEOREM CompletedMeansSent == Spec => []CompletedWasSent
<1>1. OutboxInv => CompletedWasSent
  BY DEF OutboxInv, SentInv
<1> QED
  BY <1>1, OutboxInvariant, PTL

(***************************************************************************)
(* The claim of FetchPending is a lock: while publishers answer within     *)
(* processingTimeout, no two processors hold one message, and no           *)
(* maintenance statement takes it away from the one that does.             *)
(***************************************************************************)
THEOREM ClaimIsExclusive == Spec => [](~ SlowPublishers => ClaimedOnce)
<1>1. OutboxInv => (~ SlowPublishers => ClaimedOnce)
  BY DEF OutboxInv, ClaimInv
<1> QED
  BY <1>1, OutboxInvariant, PTL
=============================================================================
