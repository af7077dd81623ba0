------------------------ MODULE AsyncProjectionProofs ------------------------
(***************************************************************************)
(* Proofs about read models, on both of their sides. The async projection  *)
(* worker that fills one and its rebuilds, for any number of events, batch *)
(* size, retry budget, troubles and operators' calls: the argument for     *)
(* completeness is processingMu, since while a rebuild clears and replays  *)
(* the read model no batch is in progress, and whatever position the       *)
(* worker still carries around lies within the feed, which a successful    *)
(* rebuild has replayed to its end.                                        *)
(*                                                                         *)
(* The repositories that keep one, for any instances, releases, ids and    *)
(* writes: the rows have the shape that the columns present allow          *)
(* (RowsInv), and what an instance has read and not yet written back is    *)
(* what the row has, unless two updates overlapped (HeldInv).              *)
(***************************************************************************)
EXTENDS AsyncProjection, ReadModel, WellFoundedInduction, TLAPS

Pcs == {"off", "start", "boot", "select", "lock", "load", "apply", "save", "failed",
        "backoff", "poison", "skip", "exit", "restart"}

WorkerFields == {"pc", "last", "failed", "errs", "back", "err", "at", "to", "ch", "resume", "restarts"}

(* The fields of the worker and of a rebuild that the proofs look at, that *)
(* no position is beyond the end of the feed, and that a batch being       *)
(* applied is not exhausted.                                               *)
WorkerInv ==
  /\ DOMAIN w = WorkerFields
  /\ w.pc \in Pcs
  /\ w.last \in 0 .. head /\ w.failed \in 0 .. head /\ w.at \in 0 .. head /\ w.to \in 0 .. head
  /\ w.pc = "apply" => Todo(w.at, w.to) # {}

TypeInv ==
  /\ head \in Nat /\ checkpoint \in 0 .. head
  /\ WorkerInv
  /\ DOMAIN rebuild = {"pc", "pos", "wasPaused"}
  /\ rebuild.pc \in {"idle", "lock", "clear", "delete", "replay", "save", "unpause"}
  /\ rebuild.pos \in 0 .. head
  /\ gen \in Nat

(* processingMu is held by a batch or by a rebuild. *)
MutexInv ==
  /\ mu = "worker" <=> w.pc \in {"load", "apply", "save"}
  /\ mu = "rebuild" <=> rebuild.pc \in {"clear", "delete", "replay", "save"}

Known(e) == e \in model \/ e \in reported
Covered(pos) == \A e \in Handled : e <= pos => Known(e)

(* The replay has covered the feed up to its position. *)
ReplayInv ==
  /\ rebuild.pc \in {"lock", "clear", "delete"} => rebuild.pos = 0
  /\ rebuild.pc \in {"replay", "save"} => Covered(rebuild.pos)

(* Every position something may go on from is covered: the checkpoint, the *)
(* worker's own, where its batch is, what it is about to save; and the     *)
(* event that failed last is the only one missing up to it.                *)
Cover ==
  /\ Covered(checkpoint)
  /\ Consuming => Covered(w.last)
  /\ w.pc = "apply" => Covered(w.at)
  /\ w.pc \in {"save", "skip"} => Covered(w.to)
  /\ \A e \in Handled : e < w.failed => Known(e)

(* Unless the read model is being rebuilt, or the last rebuild failed.     *)
(* (A batch that ApplyBatch refuses is skipped as a whole.)                *)
Intact == ~ ApplyBatches /\ ~ botched /\ rebuild.pc \notin {"delete", "replay", "save"}
CoverInv == Intact => Cover

LossInv == TypeInv /\ MutexInv /\ ReplayInv /\ CoverInv

(* Unless a Stop gave up on the goroutine, a stopped engine has none and   *)
(* the one of a running engine selects on the engine's own stopCh.         *)
HealInv ==
  ~ leaked =>
    /\ engine = "stopped" => w.pc = "off"
    /\ engine = "running" /\ w.pc \in {"select", "backoff", "restart"} => w.ch = gen
    /\ engine = "running" /\ registered /\ options.restarts = Forever => w.pc # "off" \/ w.err = "canceled"

-----------------------------------------------------------------------------
(* A set of naturals has a least element, a bounded one a greatest. *)
LEMMA MinOf ==
  ASSUME NEW S \in SUBSET Nat, S # {}
  PROVE  Min(S) \in S /\ \A y \in S : Min(S) <= y
<1> DEFINE R == {ss \in Nat \X Nat : ss[1] < ss[2]}
<1>0. IsWellFoundedOn(R, Nat)
  BY NatLessThanWellFounded DEF OpToRel
<1> HIDE DEF R
<1>1. PICK x \in S : \A y \in S : ~ (<<y, x>> \in R)
  BY <1>0, WFMin
<1>2. ASSUME NEW y \in S, y < x PROVE FALSE
  <2>1. <<y, x>> \in Nat \X Nat /\ <<y, x>>[1] < <<y, x>>[2]
    BY <1>2
  <2>2. <<y, x>> \in R
    BY <2>1, Zenon DEF R
  <2> QED
    BY <1>1, <2>2
<1>3. \A y \in S : x <= y
  BY <1>2
<1> QED
  BY <1>3 DEF Min

LEMMA MaxOf ==
  ASSUME NEW n \in Nat, NEW S \in SUBSET (0 .. n), S # {}
  PROVE  Max(S) \in S /\ \A y \in S : Max(S) >= y
<1>1. PICK D : D = {n - y : y \in S}
  OBVIOUS
<1>2. D \in SUBSET Nat /\ D # {}
  <2>1. PICK y \in S : TRUE
    OBVIOUS
  <2>2. n - y \in D
    BY <1>1
  <2>3. \A z \in S : n - z \in Nat
    OBVIOUS
  <2>4. \A d \in D : d \in Nat
    BY <1>1, <2>3
  <2> QED
    BY <2>2, <2>4
<1>0. Min(D) \in D /\ \A z \in D : Min(D) <= z
  BY <1>2, MinOf
<1>3. PICK x \in S : Min(D) = n - x
  BY <1>0, <1>1
<1>4. \A y \in S : n - x <= n - y
  BY <1>0, <1>1, <1>3
<1>5. \A y \in S : x >= y
  BY <1>4
<1> QED
  BY <1>5 DEF Max

LEMMA ConstantFacts ==
  /\ LastEvent \in Nat /\ BatchSize \in Nat \ {0}
  /\ \A e \in Handled : e \in Nat \ {0} /\ e <= LastEvent
<1>1. LastEvent \in Nat /\ Handled \subseteq Events /\ BatchSize \in Nat \ {0}
  BY ProjectionAssumption, Zenon
<1> QED
  BY <1>1 DEF Events

(* What Apply or ApplyBatch is given next. *)
LEMMA CallFacts ==
  ASSUME TypeInv, w.pc = "apply"
  PROVE  /\ Max(NextCall) \in Todo(w.at, w.to)
         /\ NextCall \subseteq Todo(w.at, w.to)
         /\ ApplyBatches => NextCall = Todo(w.at, w.to)
         /\ ~ ApplyBatches => /\ NextCall = {Max(NextCall)}
                              /\ \A e \in Todo(w.at, w.to) : Max(NextCall) <= e
<1>1. PICK T : T = Todo(w.at, w.to)
  OBVIOUS
<1>2. T \in SUBSET (0 .. LastEvent) /\ T # {} /\ LastEvent \in Nat /\ T \in SUBSET Nat
  BY <1>1, ConstantFacts DEF TypeInv, WorkerInv, Todo
<1>3. CASE ApplyBatches
  BY <1>1, <1>2, <1>3, MaxOf DEF NextCall
<1>4. CASE ~ ApplyBatches
  <2>1. NextCall = {Min(T)}
    BY <1>1, <1>4 DEF NextCall
  <2>2. Min(T) \in T /\ \A e \in T : Min(T) <= e
    BY <1>2, MinOf
  <2>3. Max(NextCall) = Min(T)
    BY <1>2, <2>1, <2>2 DEF Max
  <2> QED
    BY <1>1, <1>4, <2>1, <2>2, <2>3
<1> QED
  BY <1>3, <1>4

(* Where the next batch ends. *)
LEMMA UptoFacts ==
  ASSUME TypeInv, NEW pos \in Nat, pos < head
  PROVE  Upto(pos) \in Nat /\ pos < Upto(pos) /\ Upto(pos) <= head
BY ConstantFacts DEF TypeInv, Upto

(* A batch that fails, and a run that a context ends. *)
LEMMA ProcessingFacts ==
  ASSUME NEW r, DOMAIN r = WorkerFields, NEW err, ProcessingFails(r, err)
  PROVE  /\ mu' = "free" /\ DOMAIN w' = WorkerFields
         /\ w'.pc = "failed" \/ (w'.pc = "off" /\ w'.err = "canceled")
         /\ w'.last = r.last /\ w'.failed = r.failed /\ w'.at = 0 /\ w'.to = 0
<1>1. CASE err = "canceled"
  BY <1>1 DEF ProcessingFails, ExitStopped, NoWorker, WorkerFields
<1>2. CASE err # "canceled"
  <2>1. PICK class : w' = [r EXCEPT !.pc = "failed", !.err = class, !.at = 0, !.to = 0]
    BY <1>2 DEF ProcessingFails
  <2> QED
    BY <1>2, <2>1 DEF ProcessingFails, WorkerFields
<1> QED
  BY <1>1, <1>2

LEMMA FailedApplyFacts ==
  ASSUME DOMAIN w = WorkerFields, NEW e, NEW err, ProcessingFails([w EXCEPT !.failed = e], err)
  PROVE  /\ DOMAIN w' = WorkerFields /\ w'.pc \in {"failed", "off"}
         /\ w'.last = w.last /\ w'.failed = e /\ w'.at = 0 /\ w'.to = 0
<1>1. PICK r : r = [w EXCEPT !.failed = e]
  OBVIOUS
<1>2. DOMAIN r = WorkerFields /\ r.last = w.last /\ r.failed = e
  BY <1>1 DEF WorkerFields
<1>3. ProcessingFails(r, err)
  BY <1>1
<1> QED
  BY <1>2, <1>3, ProcessingFacts

LEMMA ExitFacts ==
  ASSUME DOMAIN w = WorkerFields, BootFails \/ ContextDone
  PROVE  /\ DOMAIN w' = WorkerFields
         /\ w'.pc = "exit" \/ (w'.pc = "off" /\ w'.err = "canceled")
         /\ w'.last = w.last /\ w'.failed = w.failed /\ w'.at \in {0, w.at} /\ w'.to \in {0, w.to}
         /\ w.pc \in {"boot", "select", "backoff", "restart"}
         /\ UNCHANGED <<store, mu, rebuild, engine, gen, aside>>
<1>1. CASE w' = [w EXCEPT !.pc = "exit"]
  BY <1>1 DEF BootFails, ContextDone, WorkerFields
<1>2. CASE ExitStopped(w)
  BY <1>2 DEF BootFails, ContextDone, ExitStopped, NoWorker, WorkerFields
<1> QED
  BY <1>1, <1>2 DEF BootFails, ContextDone

LEMMA InitLoss == Init => LossInv /\ HealInv
<1> SUFFICES ASSUME Init PROVE LossInv /\ HealInv
  OBVIOUS
<1>1. TypeInv
  BY DEF Init, TypeInv, WorkerInv, WorkerFields, Pcs, NoWorker, NoRebuild
<1>2. MutexInv /\ ReplayInv
  BY DEF Init, MutexInv, ReplayInv, NoWorker, NoRebuild
<1>3. CoverInv
  BY ConstantFacts DEF Init, CoverInv, Cover, Consuming, NoWorker, NoRebuild, Covered
<1>4. HealInv
  BY DEF Init, HealInv, NoWorker
<1> QED
  BY <1>1, <1>2, <1>3, <1>4 DEF LossInv

-----------------------------------------------------------------------------
LEMMA TypeStep == TypeInv /\ [Next]_vars => TypeInv'
<1> SUFFICES ASSUME TypeInv, [Next]_vars PROVE TypeInv'
  OBVIOUS
<1>z. DOMAIN w = WorkerFields
  BY DEF TypeInv, WorkerInv
<1>e. ASSUME BootFails \/ ContextDone PROVE TypeInv'
  <2>1. w'.pc # "apply" /\ w'.pc \in Pcs
    BY <1>z, <1>e, ExitFacts DEF Pcs
  <2> QED
    BY <1>z, <1>e, <2>1, ExitFacts DEF TypeInv, WorkerInv, store
<1> USE DEF TypeInv, WorkerInv, WorkerFields, Pcs, store, aside
<1>0. ASSUME UNCHANGED <<head, checkpoint, w, rebuild>>, gen' \in Nat PROVE TypeInv'
  BY <1>0 DEF Todo
<1>1. CASE UNCHANGED vars
  BY <1>0, <1>1 DEF vars
<1>2. CASE Worker
  <2>0. CASE BootFails
    BY <1>e, <2>0
  <2>1. CASE BeginRun \/ PoisonStops \/ RunAgain
    BY <2>1 DEF BeginRun, PoisonStops, RunAgain
  <2>2. CASE Boot
    BY <2>2 DEF Boot, Wait, GetCheckpoint
  <2>3. CASE Tick
    BY <2>3 DEF Tick, Wait
  <2>4. CASE Load
    <3>1. CASE w.last >= head
      <4>1. w' = Wait([w EXCEPT !.errs = 0, !.back = FALSE, !.at = 0, !.to = 0], "select")
        BY <2>4, <3>1 DEF Load, Processed
      <4>2. UNCHANGED <<head, checkpoint, rebuild, gen>>
        BY <2>4 DEF Load
      <4> QED
        BY <4>1, <4>2 DEF Wait
    <3>2. CASE w.last < head
      <4>1. Upto(w.last) \in 0 .. head
        BY <3>2, UptoFacts
      <4>2. PICK next : next = IF Todo(w.last, Upto(w.last)) = {} THEN "save" ELSE "apply"
        OBVIOUS
      <4>3. w' = [w EXCEPT !.at = w.last, !.to = Upto(w.last), !.pc = next]
        BY <2>4, <3>2, <4>2 DEF Load
      <4>4. UNCHANGED <<head, checkpoint, rebuild, gen>>
        BY <2>4 DEF Load
      <4> QED
        BY <4>1, <4>2, <4>3, <4>4
    <3> QED
      BY <3>1, <3>2
  <2>5. CASE LoadFails \/ ApplyPanics
    <3>1. PICK err : ProcessingFails(w, err)
      BY <2>5 DEF LoadFails, ApplyPanics
    <3>3. DOMAIN w' = DOMAIN w /\ w'.pc \in {"failed", "off"} /\ w'.last = w.last /\ w'.failed = w.failed
          /\ w'.at = 0 /\ w'.to = 0
      BY <1>z, <3>1, ProcessingFacts
    <3>2. UNCHANGED <<head, checkpoint, rebuild, gen>>
      BY <2>5 DEF LoadFails, ApplyPanics
    <3> QED
      BY <3>3, <3>2
  <2>6. CASE Apply
    <3>0. w.pc = "apply"
      BY <2>6 DEF Apply
    <3>1. PICK e : e = Max(NextCall) /\ e \in Todo(w.at, w.to) /\ e \in 0 .. head
      BY <3>0, CallFacts, ConstantFacts DEF Todo
    <3>2. /\ w'.at = e /\ w'.to = w.to /\ w'.last = w.last /\ DOMAIN w' = DOMAIN w
          /\ w'.failed \in {0, w.failed} /\ UNCHANGED <<head, checkpoint, rebuild, gen>>
          /\ w'.pc = IF NextCall = Todo(w.at, w.to) THEN "save" ELSE "apply"
      BY <2>6, <3>0, <3>1 DEF Apply
    <3>3. ASSUME NextCall # Todo(w.at, w.to) PROVE Todo(e, w.to) # {}
      <4>1. NextCall = {e} /\ \A d \in Todo(w.at, w.to) : e <= d
        BY <3>0, <3>1, <3>3, CallFacts
      <4>2. PICK d \in Todo(w.at, w.to) : d # e
        <5> HIDE DEF TypeInv, WorkerInv
        <5>1. ASSUME \A d \in Todo(w.at, w.to) : d = e PROVE NextCall = Todo(w.at, w.to)
          BY <3>1, <4>1, <5>1
        <5> QED
          BY <3>3, <5>1
      <4>3. d \in Todo(e, w.to)
        BY <3>1, <4>1, <4>2, ConstantFacts DEF Todo
      <4> QED
        BY <4>3
    <3> QED
      BY <3>1, <3>2, <3>3
  <2>7. CASE ApplyFails
    <3>0. w.pc = "apply"
      BY <2>7 DEF ApplyFails
    <3>1. PICK e : e = Max(NextCall) /\ e \in 0 .. head
      BY <3>0, CallFacts, ConstantFacts DEF Todo
    <3>2. PICK err : ProcessingFails([w EXCEPT !.failed = e], err)
      BY <2>7, <3>1 DEF ApplyFails
    <3>4. DOMAIN w' = DOMAIN w /\ w'.pc \in {"failed", "off"} /\ w'.last = w.last /\ w'.failed = e
          /\ w'.at = 0 /\ w'.to = 0
      BY <1>z, <3>2, FailedApplyFacts
    <3> QED
      BY <2>7, <3>1, <3>4 DEF ApplyFails
  <2>8. CASE SaveCheckpoint \/ SaveCheckpointFails
    <3>1. w' = Wait([[w EXCEPT !.last = w.to] EXCEPT !.errs = 0, !.back = FALSE, !.at = 0, !.to = 0], "select")
      BY <2>8 DEF SaveCheckpoint, SaveCheckpointFails, Processed
    <3>2. checkpoint' \in {checkpoint, w.to} /\ UNCHANGED <<head, rebuild, gen>>
      BY <2>8 DEF SaveCheckpoint, SaveCheckpointFails, SetCheckpoint
    <3> QED
      BY <3>1, <3>2 DEF Wait
  <2>9. CASE HandleTransient \/ Retry
    BY <2>9 DEF HandleTransient, Retry, Wait
  <2>10. CASE HandlePoison
    BY <2>10 DEF HandlePoison, Wait
  <2>11. CASE PoisonSkipped
    BY <2>11 DEF PoisonSkipped
  <2>12. CASE SaveSkip
    BY <2>12 DEF SaveSkip, SetCheckpoint, Wait
  <2>13. CASE Supervise
    BY <2>13 DEF Supervise, Wait
  <2>14. CASE SuperviseEnds
    BY <2>14 DEF SuperviseEnds, Gone, NoWorker
  <2> QED
    BY <1>2, <2>0, <2>1, <2>2, <2>3, <2>4, <2>5, <2>6, <2>7, <2>8, <2>9, <2>10, <2>11, <2>12,
       <2>13, <2>14 DEF Worker
<1>3. CASE Rebuilder
  <2>1. CASE RebuildClears \/ RebuildErrors \/ RebuildReturns
    BY <2>1 DEF RebuildClears, RebuildErrors, RebuildReturns, NoRebuild
  <2>2. CASE RebuildDeletes \/ RebuildSaves
    BY <2>2 DEF RebuildDeletes, RebuildSaves, DeleteCheckpoint, SetCheckpoint
  <2>3. CASE RebuildReplays
    BY <2>3, UptoFacts DEF RebuildReplays
  <2>4. CASE RebuildSucceeds
    BY <2>4 DEF RebuildSucceeds, GetCheckpoint
  <2> QED
    BY <1>3, <2>1, <2>2, <2>3, <2>4 DEF Rebuilder
<1>4. CASE Lock \/ StopSeen \/ ContextDone
  <2>0. CASE ContextDone
    BY <1>e, <2>0
  <2>1. CASE Lock
    BY <2>1 DEF Lock
  <2>2. CASE StopSeen
    BY <2>2 DEF StopSeen, Gone, NoWorker
  <2> QED
    BY <1>4, <2>0, <2>1, <2>2
<1>5. CASE RebuildCalled \/ RebuildLocks
  <2>1. CASE RebuildCalled
    BY <2>1 DEF RebuildCalled, NoRebuild
  <2>2. CASE RebuildLocks
    BY <2>2 DEF RebuildLocks
  <2> QED
    BY <1>5, <2>1, <2>2
<1>6. CASE Pause \/ Resume \/ Unregister \/ Stop \/ StopJoined \/ StopTimesOut
  <2>1. UNCHANGED <<head, checkpoint, w, rebuild, gen>>
    <3> HIDE DEF TypeInv, WorkerInv
    <3> QED
      BY <1>6 DEF Pause, Resume, Unregister, Stop, StopJoined, StopTimesOut
  <2> QED
    BY <1>0, <2>1
<1>7. CASE Restart \/ Start
  <2>0. gen' \in Nat /\ UNCHANGED <<head, checkpoint, rebuild>>
    <3>0. gen \in Nat
      OBVIOUS
    <3> HIDE DEF TypeInv, WorkerInv
    <3>1. CASE Restart
      BY <3>0, <3>1 DEF Restart
    <3>2. CASE Start
      BY <3>0, <3>2 DEF Start
    <3> QED
      BY <1>7, <3>1, <3>2
  <2>1. CASE w' = w
    BY <1>0, <2>0, <2>1
  <2>2. CASE \E resume : Launch(resume)
    BY <2>0, <2>2 DEF Launch
  <2> QED
    BY <1>7, <2>1, <2>2 DEF Restart, Start
<1>8. CASE RebuildCommand \/ AppendEvent
  BY <1>8 DEF RebuildCommand, ResetProjectionCheckpoint, AppendEvent
<1>9. CASE Crash
  BY <1>9 DEF Crash, NoWorker, NoRebuild
<1> QED
  BY <1>1, <1>2, <1>3, <1>4, <1>5, <1>6, <1>7, <1>8, <1>9 DEF Next

(* The mutex: a batch and a rebuild exclude each other. *)
LEMMA MutexStep == TypeInv /\ MutexInv /\ [Next]_vars => MutexInv'
<1> SUFFICES ASSUME TypeInv, MutexInv, [Next]_vars PROVE MutexInv'
  OBVIOUS
<1>e. ASSUME DOMAIN w = WorkerFields, BootFails \/ ContextDone PROVE MutexInv'
  BY <1>e, ExitFacts DEF MutexInv
<1>p. ASSUME DOMAIN w = WorkerFields, LoadFails \/ ApplyFails \/ ApplyPanics PROVE MutexInv'
  <2>1. PICK r, err : ProcessingFails(r, err) /\ DOMAIN r = WorkerFields
    BY <1>p DEF LoadFails, ApplyFails, ApplyPanics
  <2>2. mu' = "free" /\ w'.pc \in {"off", "failed"}
    BY <2>1, ProcessingFacts
  <2> QED
    BY <1>p, <2>2 DEF MutexInv, LoadFails, ApplyFails, ApplyPanics
<1>z. DOMAIN w = WorkerFields
  BY DEF TypeInv, WorkerInv
<1> USE DEF MutexInv, WorkerFields, store, aside
<1>0. /\ DOMAIN w = WorkerFields
      /\ DOMAIN rebuild = {"pc", "pos", "wasPaused"} /\ w.last \in Int /\ head \in Int
  BY DEF TypeInv, WorkerInv
<1>1. CASE UNCHANGED vars
  BY <1>1 DEF vars
<1>2. CASE Worker
  <2>1. CASE BeginRun \/ PoisonStops \/ RunAgain \/ PoisonSkipped
    BY <1>0, <2>1 DEF BeginRun, PoisonStops, RunAgain, PoisonSkipped
  <2>2. CASE Boot \/ Tick
    BY <1>0, <2>2 DEF Boot, Tick, Wait
  <2>3. CASE Load
    BY <1>0, <2>3 DEF Load, Processed, Wait
  <2>4. CASE BootFails \/ LoadFails \/ ApplyFails \/ ApplyPanics
    BY <1>z, <1>e, <1>p, <2>4
  <2>5. CASE Apply
    BY <1>0, <2>5 DEF Apply
  <2>6. CASE SaveCheckpoint \/ SaveCheckpointFails
    BY <1>0, <2>6 DEF SaveCheckpoint, SaveCheckpointFails, Processed, Wait
  <2>7. CASE HandleTransient \/ HandlePoison \/ Retry \/ SaveSkip \/ Supervise
    BY <1>0, <2>7 DEF HandleTransient, HandlePoison, Retry, SaveSkip, Supervise, Wait
  <2>8. CASE SuperviseEnds
    BY <2>8 DEF SuperviseEnds, Gone, NoWorker
  <2> QED
    BY <1>2, <2>1, <2>2, <2>3, <2>4, <2>5, <2>6, <2>7, <2>8 DEF Worker
<1>3. CASE Rebuilder
  <2>1. CASE RebuildClears \/ RebuildDeletes \/ RebuildReplays \/ RebuildSaves
    BY <1>0, <2>1 DEF RebuildClears, RebuildDeletes, RebuildReplays, RebuildSaves
  <2>2. CASE RebuildSucceeds \/ RebuildErrors
    BY <1>0, <2>2 DEF RebuildSucceeds, RebuildErrors
  <2>3. CASE RebuildReturns
    BY <2>3 DEF RebuildReturns, NoRebuild
  <2> QED
    BY <1>3, <2>1, <2>2, <2>3 DEF Rebuilder
<1>4. CASE Lock \/ StopSeen \/ ContextDone
  BY <1>0, <1>z, <1>e, <1>4 DEF Lock, StopSeen, Gone, NoWorker
<1>5. CASE RebuildCalled \/ RebuildLocks
  BY <1>0, <1>5 DEF RebuildCalled, RebuildLocks, NoRebuild
<1>6. CASE Pause \/ Resume \/ Unregister \/ Stop \/ StopJoined \/ StopTimesOut \/ RebuildCommand \/ AppendEvent
  BY <1>6 DEF Pause, Resume, Unregister, Stop, StopJoined, StopTimesOut, RebuildCommand, AppendEvent
<1>7. CASE Restart \/ Start
  BY <1>0, <1>7 DEF Restart, Start, Launch
<1>8. CASE Crash
  BY <1>8 DEF Crash, NoWorker, NoRebuild
<1> QED
  BY <1>1, <1>2, <1>3, <1>4, <1>5, <1>6, <1>7, <1>8 DEF Next

(* The goroutine of a running engine. *)
LEMMA HealStep == TypeInv /\ HealInv /\ [Next]_vars => HealInv'
<1> SUFFICES ASSUME TypeInv, HealInv, [Next]_vars PROVE HealInv'
  OBVIOUS
<1>z. DOMAIN w = WorkerFields
  BY DEF TypeInv, WorkerInv
<1>e. ASSUME BootFails \/ ContextDone PROVE HealInv'
  BY <1>z, <1>e, ExitFacts DEF HealInv, aside
<1>p. ASSUME LoadFails \/ ApplyFails \/ ApplyPanics PROVE HealInv'
  <2>1. PICK r, err : ProcessingFails(r, err) /\ DOMAIN r = WorkerFields
    BY <1>z, <1>p DEF LoadFails, ApplyFails, ApplyPanics
  <2>2. w'.pc = "failed" \/ (w'.pc = "off" /\ w'.err = "canceled")
    BY <2>1, ProcessingFacts
  <2>3. w.pc # "off"
    BY <1>p DEF LoadFails, ApplyFails, ApplyPanics
  <2> QED
    BY <1>p, <2>2, <2>3 DEF HealInv, LoadFails, ApplyFails, ApplyPanics, aside
<1> USE DEF HealInv, WorkerFields, store, aside
<1>0. /\ DOMAIN w = WorkerFields
      /\ w.last \in Int /\ head \in Int /\ gen \in Int
  BY DEF TypeInv, WorkerInv
<1>1. CASE UNCHANGED vars
  BY <1>1 DEF vars
<1>2. CASE Worker
  <2>1. CASE BeginRun \/ PoisonStops \/ RunAgain \/ PoisonSkipped
    BY <1>0, <2>1 DEF BeginRun, PoisonStops, RunAgain, PoisonSkipped
  <2>2. CASE Boot \/ Tick
    BY <1>0, <2>2 DEF Boot, Tick, Wait
  <2>3. CASE Load
    BY <1>0, <2>3 DEF Load, Processed, Wait
  <2>4. CASE BootFails \/ LoadFails \/ ApplyFails \/ ApplyPanics
    BY <1>z, <1>e, <1>p, <2>4
  <2>5. CASE Apply
    BY <1>0, <2>5 DEF Apply
  <2>6. CASE SaveCheckpoint \/ SaveCheckpointFails
    BY <1>0, <2>6 DEF SaveCheckpoint, SaveCheckpointFails, Processed, Wait
  <2>7. CASE HandleTransient \/ HandlePoison \/ Retry \/ SaveSkip \/ Supervise
    BY <1>0, <2>7 DEF HandleTransient, HandlePoison, Retry, SaveSkip, Supervise, Wait
  <2>8. CASE SuperviseEnds
    BY <2>8 DEF SuperviseEnds, MayRestart, Gone, NoWorker
  <2> QED
    BY <1>2, <2>1, <2>2, <2>3, <2>4, <2>5, <2>6, <2>7, <2>8 DEF Worker
<1>3. CASE Rebuilder
  <2>1. CASE RebuildSucceeds
    BY <1>0, <2>1 DEF RebuildSucceeds
  <2> QED
    BY <1>3, <2>1 DEF Rebuilder, RebuildClears, RebuildDeletes, RebuildReplays, RebuildSaves,
                      RebuildErrors, RebuildReturns
<1>4. CASE Lock \/ ContextDone
  BY <1>0, <1>e, <1>4 DEF Lock
<1>5. CASE StopSeen
  BY <1>0, <1>5 DEF StopSeen, StopSignalled, Gone, NoWorker
<1>6. CASE RebuildCalled \/ RebuildLocks \/ Pause \/ Resume \/ Unregister \/ RebuildCommand \/ AppendEvent
  BY <1>6 DEF RebuildCalled, RebuildLocks, Pause, Resume, Unregister, RebuildCommand, AppendEvent
<1>7. CASE Restart \/ Start
  BY <1>0, <1>7 DEF Restart, Start, Launch
<1>8. CASE Stop \/ StopJoined
  BY <1>8 DEF Stop, StopJoined
<1>9. CASE StopTimesOut
  BY <1>9 DEF StopTimesOut, Alive
<1>10. CASE Crash
  BY <1>10 DEF Crash, NoWorker
<1> QED
  BY <1>1, <1>2, <1>3, <1>4, <1>5, <1>6, <1>7, <1>8, <1>9, <1>10 DEF Next

-----------------------------------------------------------------------------
(* Only a rebuild that clears the read model takes anything away. *)
LEMMA ModelGrows ==
  ASSUME [Next]_vars, ~ RebuildClears
  PROVE  \A e : Known(e) => Known(e)'
<1> USE DEF store, aside, Known
<1>1. CASE UNCHANGED vars
  BY <1>1 DEF vars
<1>2. CASE Worker
  BY <1>2 DEF Worker, BeginRun, Boot, BootFails, Tick, Load, LoadFails, Apply, ApplyFails, ApplyPanics,
     SaveCheckpoint, SaveCheckpointFails, HandleTransient, HandlePoison, Retry,
     PoisonStops, PoisonSkipped, SaveSkip, Supervise, SuperviseEnds, RunAgain
<1>3. CASE Rebuilder
  BY <1>3 DEF Rebuilder, RebuildDeletes, RebuildReplays, RebuildSaves, RebuildSucceeds,
     RebuildErrors, RebuildReturns
<1>4. CASE Lock \/ StopSeen \/ ContextDone \/ RebuildCalled \/ RebuildLocks \/ Pause \/ Resume \/ Restart
           \/ Unregister \/ RebuildCommand
  BY <1>4 DEF Lock, StopSeen, ContextDone, Unregister, RebuildCalled, RebuildLocks, Pause, Resume, Restart, RebuildCommand
<1>5. CASE AppendEvent \/ Start \/ Stop \/ StopJoined \/ StopTimesOut \/ Crash
  BY <1>5 DEF AppendEvent, Start, Stop, StopJoined, StopTimesOut, Crash
<1> QED
  BY <1>1, <1>2, <1>3, <1>4, <1>5 DEF Next

(* What a rebuild leaves alone when it is not the rebuild's step. *)
LEMMA RebuildFrame ==
  ASSUME [Next]_vars, ~ Rebuilder, ~ RebuildCalled, ~ RebuildLocks, ~ Crash
  PROVE  UNCHANGED <<rebuild, botched>>
<1> USE DEF aside
<1>1. CASE UNCHANGED vars
  BY <1>1 DEF vars
<1>2. CASE Worker
  BY <1>2 DEF Worker, BeginRun, Boot, BootFails, Tick, Load, LoadFails, Apply, ApplyFails, ApplyPanics,
     SaveCheckpoint, SaveCheckpointFails, HandleTransient, HandlePoison, Retry,
     PoisonStops, PoisonSkipped, SaveSkip, Supervise, SuperviseEnds, RunAgain
<1>3. CASE Lock \/ StopSeen \/ ContextDone \/ Pause \/ Resume \/ Restart \/ Unregister \/ RebuildCommand
  BY <1>3 DEF Lock, StopSeen, ContextDone, Unregister, Pause, Resume, Restart, RebuildCommand
<1>4. CASE AppendEvent \/ Start \/ Stop \/ StopJoined \/ StopTimesOut
  BY <1>4 DEF AppendEvent, Start, Stop, StopJoined, StopTimesOut
<1> QED
  BY <1>1, <1>2, <1>3, <1>4 DEF Next

LEMMA ReplayStep == TypeInv /\ ReplayInv /\ [Next]_vars => ReplayInv'
<1> SUFFICES ASSUME TypeInv, ReplayInv, [Next]_vars PROVE ReplayInv'
  OBVIOUS
<1> USE DEF ReplayInv
<1>0. DOMAIN rebuild = {"pc", "pos", "wasPaused"} /\ rebuild.pos \in Nat
      /\ \A e \in Handled : e \in Nat \ {0}
  BY ConstantFacts DEF TypeInv
<1>1. CASE ~ RebuildClears /\ UNCHANGED rebuild
  BY <1>1, ModelGrows DEF Covered
<1>2. CASE RebuildClears
  BY <1>0, <1>2 DEF RebuildClears
<1>3. CASE RebuildDeletes
  BY <1>0, <1>3 DEF RebuildDeletes, Covered
<1>4. CASE RebuildReplays
  <2>1. rebuild'.pc = "save" /\ rebuild'.pos = Upto(rebuild.pos) /\ UNCHANGED reported
        /\ model' = model \cup Todo(rebuild.pos, Upto(rebuild.pos)) /\ Covered(rebuild.pos)
    BY <1>0, <1>4 DEF RebuildReplays
  <2>2. Upto(rebuild.pos) \in Nat
    BY <1>0, <1>4, UptoFacts DEF RebuildReplays
  <2>3. \A e \in Handled : e <= Upto(rebuild.pos) => e \in model' \/ e \in reported'
    BY <1>0, <2>1, <2>2 DEF Covered, Known, Todo
  <2> QED
    BY <2>1, <2>3 DEF Covered, Known
<1>5. CASE RebuildSaves
  BY <1>0, <1>5 DEF RebuildSaves, Covered, Known
<1>6. CASE RebuildSucceeds \/ RebuildErrors
  BY <1>0, <1>6 DEF RebuildSucceeds, RebuildErrors
<1>7. CASE RebuildReturns \/ Crash
  BY <1>7 DEF RebuildReturns, Crash, NoRebuild
<1>8. CASE RebuildCalled \/ RebuildLocks
  BY <1>0, <1>8 DEF RebuildCalled, RebuildLocks, NoRebuild
<1> QED
  BY <1>1, <1>2, <1>3, <1>4, <1>5, <1>6, <1>7, <1>8, RebuildFrame DEF Rebuilder

-----------------------------------------------------------------------------
(***************************************************************************)
(* A step that applies and reports nothing, after which no batch and no    *)
(* save is under way: what it goes on from was covered.                    *)
(***************************************************************************)
LEMMA PlainStep ==
  ASSUME TypeInv, Cover, UNCHANGED <<model, reported>>,
         \/ checkpoint' \in {checkpoint, 0}
         \/ w.pc \in {"save", "skip"} /\ checkpoint' = w.to,
         w'.pc \notin {"apply", "save", "skip"},
         \/ ~ Consuming' \/ w'.last \in {0, checkpoint}
         \/ Consuming /\ w'.last = w.last
         \/ w.pc = "save" /\ w'.last = w.to,
         w'.failed \in {0, w.failed}
  PROVE  Cover'
<1> USE DEF Cover
<1>0. \A e \in Handled : e \in Nat \ {0}
  BY ConstantFacts
<1>1. Covered(0)
  BY <1>0 DEF Covered
<1>2. \A x : Covered(x) => Covered(x)'
  BY DEF Covered, Known
<1>3. Covered(checkpoint)'
  BY <1>1, <1>2 DEF Covered, Known
<1>4. Consuming' => Covered(w.last)'
  BY <1>1, <1>2 DEF Covered, Known
<1>5. \A e \in Handled : e < w'.failed => Known(e)'
  BY <1>0 DEF Known
<1> QED
  BY <1>3, <1>4, <1>5

LEMMA StillStep ==
  ASSUME TypeInv, Cover, UNCHANGED <<model, reported, w>>, checkpoint' \in {checkpoint, 0}
  PROVE  Cover'
<1>0. \A e \in Handled : e \in Nat \ {0}
  BY ConstantFacts
<1>1. Covered(checkpoint)'
  BY <1>0 DEF Cover, Covered, Known
<1> QED
  BY <1>1 DEF Cover, Covered, Known, Consuming

(* The worker's steps. *)
LEMMA CoverWorker ==
  ASSUME TypeInv, ~ ApplyBatches, Cover, Worker \/ Lock \/ StopSeen \/ ContextDone
  PROVE  Cover'
<1>z. DOMAIN w = WorkerFields
  BY DEF TypeInv, WorkerInv
<1>e. CASE BootFails \/ ContextDone
  <2>1. /\ UNCHANGED <<model, reported, checkpoint>>
        /\ w'.pc \in {"exit", "off"} /\ w'.failed = w.failed
    BY <1>z, <1>e, ExitFacts DEF store
  <2> QED
    BY <2>1, PlainStep DEF Consuming
<1> USE DEF WorkerFields, store, aside
<1>0. /\ DOMAIN w = WorkerFields
      /\ w.last \in Nat /\ w.failed \in Nat /\ w.at \in Nat /\ w.to \in Nat /\ head \in Nat
  BY DEF TypeInv, WorkerInv
<1>1. \A e \in Handled : e \in Nat \ {0}
  BY ConstantFacts
<1>2. CASE BeginRun \/ PoisonStops \/ RunAgain \/ Lock
  BY <1>0, <1>2, PlainStep DEF BeginRun, PoisonStops, RunAgain, Lock, Consuming
<1>3. CASE Boot
  BY <1>0, <1>3, PlainStep DEF Boot, Wait, GetCheckpoint, Consuming
<1>4. CASE Tick
  BY <1>0, <1>4, PlainStep DEF Tick, Wait, Consuming
<1>5. CASE Load /\ w.last >= head
  <2>1. w' = Wait([w EXCEPT !.errs = 0, !.back = FALSE, !.at = 0, !.to = 0], "select")
    BY <1>5 DEF Load, Processed
  <2> QED
    BY <1>0, <1>5, <2>1, PlainStep DEF Load, Wait, Consuming
<1>6. CASE Load /\ ~ (w.last >= head)
  <2>1. PICK next : next = IF Todo(w.last, Upto(w.last)) = {} THEN "save" ELSE "apply"
    OBVIOUS
  <2>2. w' = [w EXCEPT !.at = w.last, !.to = Upto(w.last), !.pc = next]
    BY <1>6, <2>1 DEF Load
  <2>3. w'.pc = next /\ w'.at = w.last /\ w'.to = Upto(w.last) /\ w'.last = w.last /\ w'.failed = w.failed
        /\ UNCHANGED <<model, reported, checkpoint>> /\ w.pc = "load"
    BY <1>0, <1>6, <2>2 DEF Load
  <2>4. Covered(w.last) /\ Upto(w.last) \in Nat
    BY <1>0, <1>6, <2>3, UptoFacts DEF Cover, Consuming
  <2>5. ASSUME next = "save" PROVE Covered(Upto(w.last))
    BY <1>0, <1>1, <2>1, <2>4, <2>5 DEF Covered, Todo
  <2> QED
    BY <2>1, <2>3, <2>4, <2>5 DEF Cover, Covered, Known
<1>7. CASE LoadFails \/ ApplyPanics
  <2>1. PICK err : ProcessingFails(w, err)
    BY <1>7 DEF LoadFails, ApplyPanics
  <2>2. w'.pc \in {"failed", "off"} /\ w'.last = w.last /\ w'.failed = w.failed
    BY <1>z, <2>1, ProcessingFacts
  <2>3. w.pc \in {"load", "apply"} /\ UNCHANGED <<model, reported, checkpoint>>
    BY <1>7 DEF LoadFails, ApplyPanics
  <2> QED
    BY <2>2, <2>3, PlainStep DEF Consuming
<1>8. CASE Apply
  <2>0. w.pc = "apply"
    BY <1>8 DEF Apply
  <2>1. PICK e : e = Max(NextCall) /\ e \in Todo(w.at, w.to) /\ NextCall = {e}
                 /\ \A d \in Todo(w.at, w.to) : e <= d
    BY <2>0, CallFacts
  <2>2. /\ w'.at = e /\ w'.to = w.to /\ w'.last = w.last
        /\ w'.failed \in {0, w.failed} /\ UNCHANGED <<reported, checkpoint>>
        /\ w'.pc = IF {e} = Todo(w.at, w.to) THEN "save" ELSE "apply"
        /\ model' = model \cup {e}
    BY <1>0, <1>8, <2>0, <2>1 DEF Apply
  <2>3. Covered(w.at) /\ Covered(w.last) /\ Covered(checkpoint)
    BY <2>0 DEF Cover, Consuming
  <2>4. Covered(e)'
    BY <1>0, <1>1, <2>1, <2>2, <2>3 DEF Covered, Known, Todo
  <2>5. ASSUME {e} = Todo(w.at, w.to) PROVE Covered(w.to)'
    BY <1>0, <1>1, <2>1, <2>2, <2>3, <2>5 DEF Covered, Known, Todo
  <2>6. Covered(w.last)' /\ Covered(checkpoint)'
    BY <2>2, <2>3 DEF Covered, Known
  <2>7. \A d \in Handled : d < w'.failed => Known(d)'
    BY <1>1, <2>2 DEF Cover, Known
  <2> QED
    BY <2>2, <2>4, <2>5, <2>6, <2>7 DEF Cover
<1>9. CASE ApplyFails
  <2>0. w.pc = "apply"
    BY <1>9 DEF ApplyFails
  <2>1. PICK e : e = Max(NextCall) /\ e \in Todo(w.at, w.to)
                 /\ \A d \in Todo(w.at, w.to) : e <= d
    BY <2>0, CallFacts
  <2>2. PICK err : ProcessingFails([w EXCEPT !.failed = e], err)
    BY <1>9, <2>1 DEF ApplyFails
  <2>3. w'.pc \in {"failed", "off"} /\ w'.failed = e /\ w'.last = w.last /\ UNCHANGED <<model, reported, checkpoint>>
    BY <1>z, <1>9, <2>2, FailedApplyFacts DEF ApplyFails
  <2>4. Covered(w.at) /\ Covered(w.last) /\ Covered(checkpoint)
    BY <2>0 DEF Cover, Consuming
  <2>5. \A d \in Handled : d < e => Known(d)
    BY <1>0, <1>1, <2>1, <2>4 DEF Covered, Todo
  <2> QED
    BY <2>3, <2>4, <2>5 DEF Cover, Covered, Known
<1>10. CASE SaveCheckpoint \/ SaveCheckpointFails
  <2>1. w' = Wait([[w EXCEPT !.last = w.to] EXCEPT !.errs = 0, !.back = FALSE, !.at = 0, !.to = 0], "select")
    BY <1>10 DEF SaveCheckpoint, SaveCheckpointFails, Processed
  <2>2. w'.last = w.to /\ w'.pc = "select" /\ w'.failed = w.failed
    BY <1>0, <2>1 DEF Wait
  <2> QED
    BY <1>10, <2>2, PlainStep DEF SaveCheckpoint, SaveCheckpointFails, SetCheckpoint
<1>11. CASE HandleTransient \/ Retry
  BY <1>0, <1>11, PlainStep DEF HandleTransient, Retry, Wait, Consuming
<1>12. CASE HandlePoison
  <2>1. w'.pc \in {"backoff", "poison", "exit"} /\ w'.last = w.last /\ w'.failed = w.failed
        /\ w.pc = "failed" /\ UNCHANGED <<model, reported, checkpoint>>
    BY <1>0, <1>12 DEF HandlePoison, Wait
  <2> QED
    BY <2>1, PlainStep DEF Consuming
<1>13. CASE PoisonSkipped
  <2>1. w'.pc = "skip" /\ w'.last = w.failed /\ w'.to = w.failed /\ w'.failed = 0
        /\ reported' = reported \cup {w.failed} /\ UNCHANGED <<model, checkpoint>>
    BY <1>0, <1>13 DEF PoisonSkipped
  <2>2. \A d \in Handled : d <= w.failed => Known(d)'
    BY <1>0, <1>1, <2>1 DEF Cover, Known
  <2>3. Covered(checkpoint)'
    BY <2>1 DEF Cover, Covered, Known
  <2> QED
    BY <1>1, <2>1, <2>2, <2>3 DEF Cover, Covered
<1>14. CASE SaveSkip
  BY <1>0, <1>14, PlainStep DEF SaveSkip, SetCheckpoint, Wait, Consuming
<1>15. CASE Supervise
  BY <1>0, <1>15, PlainStep DEF Supervise, Wait, Consuming
<1>16. CASE SuperviseEnds \/ StopSeen
  BY <1>0, <1>16, PlainStep DEF SuperviseEnds, StopSeen, Gone, NoWorker, Consuming
<1> QED
  BY <1>e, <1>2, <1>3, <1>4, <1>5, <1>6, <1>7, <1>8, <1>9, <1>10, <1>11, <1>12, <1>13, <1>14,
     <1>15, <1>16 DEF Worker

(***************************************************************************)
(* The rebuild's steps: it is the end of the feed, reached under the       *)
(* mutex, that makes every position anybody has covered again.             *)
(***************************************************************************)
LEMMA CoverSucceeds ==
  ASSUME TypeInv, MutexInv, ReplayInv, RebuildSucceeds
  PROVE  Cover'
<1>0. /\ DOMAIN w = WorkerFields
      /\ checkpoint \in 0 .. head /\ w.failed \in 0 .. head /\ w.to \in 0 .. head
      /\ head \in Nat /\ rebuild.pos \in 0 .. head
  BY DEF TypeInv, WorkerInv
<1>1. rebuild.pc = "replay" /\ rebuild.pos >= head /\ w'.last \in {0, checkpoint}
      /\ w'.pc = w.pc /\ w'.to = w.to /\ w'.failed = w.failed
      /\ UNCHANGED <<model, reported, checkpoint>>
  BY <1>0 DEF RebuildSucceeds, GetCheckpoint, WorkerFields, store
<1>2. w.pc \notin {"apply", "save"}
  BY <1>1 DEF MutexInv
<1>3. \A e \in Handled : e \in Nat /\ (e <= head => Known(e)')
  BY <1>0, <1>1, ConstantFacts DEF ReplayInv, Covered, Known
<1>4. \A x \in 0 .. head : Covered(x)'
  BY <1>0, <1>3 DEF Covered
<1>5. checkpoint' \in 0 .. head /\ w'.last \in 0 .. head /\ w'.to \in 0 .. head
  BY <1>0, <1>1
<1>6. Covered(checkpoint)' /\ Covered(w.last)' /\ Covered(w.to)'
  BY <1>0, <1>3, <1>5 DEF Covered
<1>7. \A e \in Handled : e < w'.failed => Known(e)'
  BY <1>0, <1>1, <1>3
<1> QED
  BY <1>1, <1>2, <1>6, <1>7 DEF Cover

LEMMA CoverStep == LossInv /\ [Next]_vars => CoverInv'
<1> SUFFICES ASSUME LossInv, [Next]_vars, Intact' PROVE Cover'
  BY DEF CoverInv
<1> USE DEF LossInv
<1>0. ~ ApplyBatches /\ DOMAIN rebuild = {"pc", "pos", "wasPaused"}
  BY DEF Intact, TypeInv
<1>1. ASSUME UNCHANGED <<rebuild, botched>> PROVE Cover
  BY <1>1 DEF CoverInv, Intact
<1>2. CASE Worker \/ Lock \/ StopSeen \/ ContextDone
  <2>1. UNCHANGED <<rebuild, botched>>
    <3>1. CASE Worker
      BY <3>1 DEF aside, Worker, BeginRun, Boot, BootFails, Tick, Load, LoadFails, Apply, ApplyFails,
         ApplyPanics, SaveCheckpoint, SaveCheckpointFails, HandleTransient, HandlePoison, Retry,
         PoisonStops, PoisonSkipped, SaveSkip, Supervise, SuperviseEnds, RunAgain
    <3>2. CASE Lock \/ StopSeen \/ ContextDone
      BY <3>2 DEF aside, Lock, StopSeen, ContextDone
    <3> QED
      BY <1>2, <3>1, <3>2
  <2> QED
    BY <1>0, <1>1, <1>2, <2>1, CoverWorker
<1>3. CASE RebuildSucceeds
  BY <1>3, CoverSucceeds
<1>4. CASE RebuildClears \/ RebuildDeletes \/ RebuildReplays \/ RebuildSaves
  BY <1>0, <1>4 DEF RebuildClears, RebuildDeletes, RebuildReplays, RebuildSaves, Intact
<1>5. CASE RebuildErrors
  BY <1>5 DEF RebuildErrors, Intact
<1>6. CASE RebuildReturns \/ RebuildCalled \/ RebuildLocks
  <2>1. Cover
    BY <1>6 DEF RebuildReturns, RebuildCalled, RebuildLocks, aside, Intact, CoverInv
  <2> QED
    BY <1>6, <2>1, StillStep DEF RebuildReturns, RebuildCalled, RebuildLocks, store
<1>7. CASE Pause \/ Resume \/ Unregister \/ Stop \/ StopJoined \/ StopTimesOut \/ RebuildCommand \/ AppendEvent
  <2>1. UNCHANGED <<rebuild, botched, model, reported, w>> /\ checkpoint' \in {checkpoint, 0}
    BY <1>7 DEF Pause, Resume, Unregister, Stop, StopJoined, StopTimesOut, RebuildCommand, AppendEvent, store, aside,
       ResetProjectionCheckpoint
  <2> QED
    BY <1>1, <2>1, StillStep
<1>8. CASE Restart \/ Start
  <2>1. UNCHANGED <<rebuild, botched, model, reported, checkpoint>>
        /\ (UNCHANGED w \/ \E resume : Launch(resume))
    BY <1>8 DEF Restart, Start, store, aside
  <2>2. CASE UNCHANGED w
    BY <1>1, <2>1, <2>2, StillStep
  <2>3. CASE \E resume : Launch(resume)
    <3>1. w'.pc = "start" /\ w'.failed = w.failed
      BY <2>3 DEF Launch, TypeInv, WorkerInv, WorkerFields
    <3> QED
      BY <1>1, <2>1, <3>1, PlainStep DEF Consuming
  <2> QED
    BY <2>1, <2>2, <2>3
<1>9. CASE Crash
  <2>1. Cover
    BY <1>9 DEF Crash, Intact, CoverInv
  <2>2. w'.pc = "off" /\ w'.failed = 0 /\ UNCHANGED <<model, reported, checkpoint>>
    BY <1>9 DEF Crash, NoWorker, store
  <2> QED
    BY <2>1, <2>2, PlainStep DEF Consuming
<1>10. CASE UNCHANGED vars
  <2>1. UNCHANGED <<rebuild, botched, model, reported, w, checkpoint>>
    BY <1>10 DEF vars, store, aside
  <2> QED
    BY <1>1, <2>1, StillStep
<1> QED
  BY <1>2, <1>3, <1>4, <1>5, <1>6, <1>7, <1>8, <1>9, <1>10 DEF Next, Rebuilder

LEMMA ProjectionInvariant == Spec => [](LossInv /\ HealInv)
<1>1. LossInv /\ HealInv /\ [Next]_vars => (LossInv /\ HealInv)'
  BY TypeStep, MutexStep, ReplayStep, CoverStep, HealStep DEF LossInv
<1> QED
  BY <1>1, InitLoss, PTL DEF Spec

-----------------------------------------------------------------------------
(***************************************************************************)
(* No event is lost: for a projection that applies events one by one, as   *)
(* long as no rebuild is under way and the last one did not fail, every    *)
(* handled event up to where the worker or a successor of it goes on has   *)
(* been applied or reported, however batches, skips, crashes, checkpoint   *)
(* failures and rebuilds interleaved.                                      *)
(***************************************************************************)
THEOREM ReadModelComplete == Spec => [](~ ApplyBatches => NothingLost)
<1>1. LossInv /\ HealInv => (~ ApplyBatches => NothingLost)
  <2> SUFFICES ASSUME LossInv, ~ ApplyBatches, rebuild.pc = "idle", ~ botched
               PROVE  Complete
    BY DEF NothingLost
  <2>1. Cover
    BY DEF LossInv, CoverInv, Intact
  <2>2. Covered(checkpoint) /\ (Consuming => Covered(w.last))
    BY <2>1 DEF Cover
  <2>3. \A x : Covered(x) => Todo(0, x) \subseteq model \cup reported
    BY DEF Covered, Known, Todo
  <2> QED
    BY <2>2, <2>3 DEF Complete
<1> QED
  BY <1>1, ProjectionInvariant, PTL

(***************************************************************************)
(* Under RestartForever the engine that runs has the worker of a           *)
(* registered projection, unless a context error ended it or a Stop whose  *)
(* context expired left a goroutine of the last run behind: no fault, no   *)
(* panic and no exhausted budget is terminal.                              *)
(***************************************************************************)
THEOREM WorkerIsAlive == Spec => []SelfHealing
<1>1. LossInv /\ HealInv => SelfHealing
  BY DEF HealInv, SelfHealing, EndedByContext, Undying, Alive
<1> QED
  BY <1>1, ProjectionInvariant, PTL

-----------------------------------------------------------------------------
(***************************************************************************)
(* The repositories of the read models.  A counter is what was             *)
(* acknowledged because whoever writes it either read it before anybody    *)
(* else could, or marks the row as overlapped; and a migration fills a new *)
(* column before an instance of the new release can use it.                *)
(***************************************************************************)
RowOK(r) ==
  /\ DOMAIN r = Fields /\ r["rank"] \in Int
  /\ r["hits"] \in Nat \cup {NULL} /\ r["score"] \in Int \cup {NULL} /\ r["note"] \in Int \cup {NULL}

(* The counter has a column, and so a value in every row. *)
Counting == repo = "memory" \/ "hits" \in table.cols

TableInv ==
  /\ repo \in {"memory", "postgres"} /\ release \in [Clients -> {1, 2}]
  /\ DOMAIN table = {"exists", "cols", "filled", "index"} /\ table.filled \subseteq table.cols
  /\ DOMAIN pc = Clients /\ DOMAIN missing = Clients /\ DOMAIN held = Clients
  /\ repo = "memory" => \A c \in Clients : release[c] = 2 /\ pc[c] = "ready"
  /\ repo = "postgres" /\ ~ table.exists => table.cols = {} /\ \A c \in Clients : pc[c] = "new"
  /\ \A c \in Clients : pc[c] = "alter" => Model(release[c]) \subseteq table.cols \cup missing[c]
  /\ \A c \in Clients : repo = "postgres" /\ pc[c] = "ready" => Model(release[c]) \subseteq table.cols

RowsInv ==
  /\ \A i \in DOMAIN rows : i \in Ids /\ RowOK(rows[i]) /\ (Counting <=> rows[i]["hits"] # NULL)
  /\ repo = "memory" => \A i \in DOMAIN rows : rows[i]["score"] # NULL
  /\ applied \in [Ids -> Nat] /\ (~ Counting => applied = [i \in Ids |-> 0])
  /\ repo = "postgres" /\ ~ table.exists => DOMAIN rows = {}

(* What an Update holds between its two statements; the counter it will    *)
(* write is one more than what was acknowledged, unless the row overlapped.*)
HeldInv ==
  \A c \in Clients : held[c] # NoHold =>
    /\ repo = "postgres" /\ pc[c] = "ready" /\ held[c].id \in Ids
    /\ DOMAIN held[c].model = Fields /\ held[c].model["rank"] \in Int
    /\ held[c].model["score"] \in Int \cup {NULL} /\ held[c].model["note"] \in Int \cup {NULL}
    /\ release[c] = 2 =>
         /\ held[c].model["hits"] \in Nat
         /\ held[c].id \notin overlapped => held[c].model["hits"] = applied[held[c].id] + 1

ReadInv == TableInv /\ RowsInv /\ HeldInv /\ NoLostUpdate

LEMMA FieldFacts ==
  /\ Model(1) = {"rank"} /\ Model(2) = Fields /\ Model(1) \subseteq Fields
  /\ Fields = {"rank", "hits", "score", "note"} /\ Nullable = {"score", "note"} /\ Pointers = {"note"}
BY DEF Model, Fields, Nullable, Pointers

LEMMA ReadInitOK == ReadInit => ReadInv
<1> SUFFICES ASSUME ReadInit PROVE ReadInv
  OBVIOUS
<1>1. DOMAIN rows = {}
  BY DEF ReadInit
<1>2. TableInv
  BY DeploymentsAssumption DEF ReadInit, TableInv
<1>3. RowsInv
  BY <1>1 DEF ReadInit, RowsInv
<1>4. HeldInv
  BY DEF ReadInit, HeldInv
<1>5. NoLostUpdate
  BY <1>1 DEF NoLostUpdate
<1> QED
  BY <1>2, <1>3, <1>4, <1>5 DEF ReadInv

-----------------------------------------------------------------------------
(* Migrations. *)

LEMMA MigrationSteps ==
  ASSUME ReadInv, NEW c \in Clients, Migrating(c) \/ MigrateFails(c)
  PROVE  ReadInv'
<1> USE DEF ReadInv, Kept, Goto
<1>0. HeldInv /\ NoLostUpdate /\ RowsInv /\ TableInv /\ NULL \notin Int
  BY NullAssumption
<1>1. CASE CreateTable(c)
  <2>1. /\ repo' = repo /\ release' = release /\ rows' = rows /\ missing' = missing /\ held' = held
        /\ applied' = applied /\ overlapped' = overlapped /\ pc' = [pc EXCEPT ![c] = "columns"]
        /\ table' = IF table.exists THEN table
                    ELSE [table EXCEPT !.exists = TRUE, !.cols = Model(release[c])]
        /\ repo = "postgres" /\ pc[c] = "new"
    BY <1>1 DEF CreateTable
  <2>2. TableInv'
    BY <2>1 DEF TableInv
  <2>3. RowsInv' /\ NoLostUpdate'
    BY <2>1 DEF TableInv, RowsInv, Counting, RowOK, NoLostUpdate, Hits
  <2>4. HeldInv'
    BY <2>1 DEF HeldInv, TableInv
  <2> QED
    BY <2>2, <2>3, <2>4
<1>2. CASE ReadColumns(c)
  <2>1. /\ repo' = repo /\ release' = release /\ rows' = rows /\ table' = table /\ held' = held
        /\ applied' = applied /\ overlapped' = overlapped /\ pc' = [pc EXCEPT ![c] = "alter"]
        /\ missing' = [missing EXCEPT ![c] = Model(release[c]) \ table.cols] /\ pc[c] = "columns"
    BY <1>2 DEF ReadColumns
  <2>2. TableInv'
    BY <2>1 DEF TableInv
  <2>3. RowsInv' /\ NoLostUpdate'
    BY <2>1 DEF RowsInv, Counting, NoLostUpdate, Hits, RowOK
  <2>4. HeldInv'
    BY <2>1 DEF HeldInv, TableInv
  <2> QED
    BY <2>2, <2>3, <2>4
<1>3. CASE AddColumn(c)
  <2>1. /\ repo' = repo /\ release' = release /\ pc' = pc /\ held' = held
        /\ applied' = applied /\ overlapped' = overlapped /\ pc[c] = "alter"
    BY <1>3 DEF AddColumn
  <2>2. PICK f \in missing[c] :
        /\ missing' = [missing EXCEPT ![c] = @ \ {f}]
        /\ IF f \in table.cols THEN table' = table /\ rows' = rows
           ELSE /\ table' = [table EXCEPT !.cols = @ \cup {f}, !.filled = @ \cup ({f} \ Nullable)]
                /\ rows' = [i \in DOMAIN rows |->
                              [rows[i] EXCEPT ![f] = IF f \in Nullable THEN NULL ELSE 0]]
    BY <1>3 DEF AddColumn
  <2>4. TableInv'
    <3>1. repo = "postgres"
      BY <2>1, <2>2 DEF TableInv
    <3>2. /\ DOMAIN table' = DOMAIN table /\ table'.exists = table.exists /\ table.exists
          /\ table.cols \cup {f} = table'.cols /\ table'.filled \subseteq table'.cols
      BY <2>1, <2>2 DEF TableInv
    <3>3. /\ DOMAIN missing' = Clients
          /\ \A d \in Clients : missing[d] \subseteq missing'[d] \cup {f}
      BY <2>1, <2>2 DEF TableInv
    <3> QED
      BY <2>1, <2>2, <3>1, <3>2, <3>3 DEF TableInv
  <2>5. CASE f \in table.cols
    BY <2>1, <2>2, <2>4, <2>5 DEF RowsInv, Counting, NoLostUpdate, Hits, RowOK, HeldInv
  <2>6. CASE f \notin table.cols
    <3>1. repo = "postgres" /\ table.exists
      BY <2>1, <2>2 DEF TableInv
    <3>2. /\ table'.cols = table.cols \cup {f} /\ DOMAIN rows' = DOMAIN rows /\ table'.exists = table.exists
          /\ \A i \in DOMAIN rows : rows'[i] = [rows[i] EXCEPT ![f] = IF f \in Nullable THEN NULL ELSE 0]
      BY <2>1, <2>2, <2>6 DEF TableInv
    <3>3. ASSUME NEW i \in DOMAIN rows
          PROVE  /\ RowOK(rows'[i])
                 /\ f = "hits" => rows'[i]["hits"] = 0 /\ Hits(rows'[i]) = Hits(rows[i])
                 /\ f # "hits" => rows'[i]["hits"] = rows[i]["hits"]
      BY <1>0, <2>6, <3>1, <3>2, <3>3, FieldFacts DEF RowsInv, RowOK, Counting, Hits
    <3>4. f = "hits" => Counting' /\ ~ Counting
      BY <2>1, <2>2, <2>6, <3>1, <3>2 DEF Counting
    <3>5. f # "hits" => (Counting' <=> Counting)
      BY <2>1, <2>2, <3>1, <3>2 DEF Counting
    <3>6. RowsInv'
      BY <1>0, <2>1, <2>2, <3>1, <3>2, <3>3, <3>4, <3>5 DEF RowsInv
    <3>7. NoLostUpdate'
      BY <2>1, <2>2, <3>2, <3>3 DEF NoLostUpdate, Hits
    <3>8. HeldInv'
      BY <2>1, <2>2 DEF HeldInv
    <3> QED
      BY <2>4, <3>6, <3>7, <3>8
  <2> QED
    BY <2>5, <2>6
<1>4. CASE CreateIndexes(c)
  <2>1. /\ repo' = repo /\ release' = release /\ rows' = rows /\ missing' = missing /\ held' = held
        /\ applied' = applied /\ overlapped' = overlapped /\ pc' = [pc EXCEPT ![c] = "ready"]
        /\ table' = [table EXCEPT !.index = @ \cup Indexed(release[c])]
        /\ pc[c] = "alter" /\ missing[c] = {}
    BY <1>4 DEF CreateIndexes
  <2>2. TableInv'
    BY <2>1 DEF TableInv
  <2>3. RowsInv' /\ NoLostUpdate'
    BY <2>1 DEF TableInv, RowsInv, Counting, NoLostUpdate, Hits, RowOK
  <2>4. HeldInv'
    BY <2>1 DEF HeldInv, TableInv
  <2> QED
    BY <2>2, <2>3, <2>4
<1>5. CASE MigrateFails(c)
  <2>1. /\ repo' = repo /\ release' = release /\ rows' = rows /\ table' = table /\ held' = held
        /\ applied' = applied /\ overlapped' = overlapped /\ pc' = [pc EXCEPT ![c] = "new"]
        /\ missing' = [missing EXCEPT ![c] = {}] /\ pc[c] \in {"columns", "alter"}
    BY <1>5 DEF MigrateFails
  <2>2. TableInv'
    BY <2>1 DEF TableInv
  <2>3. RowsInv' /\ NoLostUpdate'
    BY <2>1 DEF RowsInv, Counting, NoLostUpdate, Hits, RowOK
  <2>4. HeldInv'
    BY <2>1 DEF HeldInv, TableInv
  <2> QED
    BY <2>2, <2>3, <2>4
<1> QED
  BY <1>1, <1>2, <1>3, <1>4, <1>5 DEF Migrating

-----------------------------------------------------------------------------
(* Calls. *)

Settings == <<repo, release, table, pc, missing>>

LEMMA CallFrame ==
  ASSUME ReadInv, UNCHANGED Settings, DOMAIN held' = Clients
  PROVE  TableInv' /\ (Counting' <=> Counting)
BY DEF ReadInv, TableInv, Settings, Counting

(* An instance that is ready knows the columns of its model. *)
LEMMA ReadyCounts ==
  ASSUME ReadInv, NEW c \in Clients, pc[c] = "ready"
  PROVE  /\ release[c] \in {1, 2} /\ (release[c] = 2 => Counting)
         /\ repo = "postgres" => table.exists
BY FieldFacts DEF ReadInv, TableInv, Counting

(* It never meets a NULL in a column that may not hold one. *)
LEMMA ReadyScans ==
  ASSUME ReadInv, NEW c \in Clients, pc[c] = "ready", NEW i \in DOMAIN rows
  PROVE  ~ mapScanError(release[c], rows[i])
<1>1. RowOK(rows[i]) /\ (Counting <=> rows[i]["hits"] # NULL)
  BY DEF ReadInv, RowsInv
<1>2. CASE release[c] = 1
  BY <1>1, <1>2, FieldFacts, NullAssumption DEF mapScanError, RowOK
<1>3. CASE release[c] = 2
  BY <1>1, <1>3, FieldFacts, NullAssumption, ReadyCounts DEF mapScanError, RowOK
<1> QED
  BY <1>2, <1>3, ReadyCounts

LEMMA PutRow ==
  ASSUME NEW i, NEW r, Put(i, r)
  PROVE  DOMAIN rows' = DOMAIN rows \cup {i} /\ rows'[i] = r /\ \A j \in DOMAIN rows \ {i} : rows'[j] = rows[j]
BY DEF Put

(* A row is written whole, its counter included. *)
LEMMA FreshWrite ==
  ASSUME ReadInv, UNCHANGED Settings, held' = held, NEW c \in Clients, NEW i \in Ids, NEW r,
         pc[c] = "ready", held[c] = NoHold, Put(i, r), RowOK(r), Counting <=> r["hits"] # NULL,
         repo = "memory" => r["score"] # NULL, applied' = [applied EXCEPT ![i] = Hits(r)], Overlap(c, i)
  PROVE  ReadInv'
<1> USE DEF ReadInv
<1>1. TableInv' /\ (Counting' <=> Counting)
  BY CallFrame DEF TableInv
<1>0. /\ DOMAIN rows' = DOMAIN rows \cup {i} /\ rows'[i] = r
      /\ \A j \in DOMAIN rows' : j # i => j \in DOMAIN rows /\ rows'[j] = rows[j]
  <2>1. /\ DOMAIN rows' = DOMAIN rows \cup {i} /\ rows'[i] = r
        /\ \A j \in DOMAIN rows \ {i} : rows'[j] = rows[j]
    BY PutRow
  <2> QED
    BY <2>1
<1>2. Hits(r) \in Nat /\ (~ Counting => Hits(r) = 0)
  BY DEF RowOK, Hits
<1>3. RowsInv'
  <2>1. \A j \in DOMAIN rows' : j \in Ids /\ RowOK(rows'[j]) /\ (Counting' <=> rows'[j]["hits"] # NULL)
    BY <1>0, <1>1 DEF RowsInv
  <2>2. applied' \in [Ids -> Nat] /\ (~ Counting' => applied' = [j \in Ids |-> 0])
    BY <1>1, <1>2 DEF RowsInv
  <2>3. repo = "postgres" => table.exists
    BY ReadyCounts
  <2>4. repo = "memory" => \A j \in DOMAIN rows' : rows'[j]["score"] # NULL
    BY <1>0 DEF RowsInv
  <2> QED
    BY <2>1, <2>2, <2>3, <2>4 DEF RowsInv, Settings
<1>4. /\ \A j : j # i => (j \in overlapped' <=> j \in overlapped)
      /\ HeldByOther(c, i) => i \in overlapped'
  BY DEF Overlap
<1>5. NoLostUpdate'
  <2>2. \A j \in Ids : j # i => applied'[j] = applied[j]
    BY DEF RowsInv
  <2>3. applied'[i] = Hits(r)
    BY DEF RowsInv
  <2>4. \A j \in DOMAIN rows : j \in Ids
    BY DEF RowsInv
  <2> QED
    BY <1>0, <1>4, <2>2, <2>3, <2>4 DEF NoLostUpdate, Hits
<1>6. HeldInv'
  <2> SUFFICES ASSUME NEW d \in Clients, held[d] # NoHold, release[d] = 2, held[d].id \notin overlapped'
               PROVE  held[d].model["hits"] = applied'[held[d].id] + 1
    BY DEF HeldInv, Settings
  <2>1. d # c /\ held[d].id \in Ids
    BY DEF HeldInv
  <2>2. held[d].id # i
    BY <1>4, <2>1 DEF HeldByOther
  <2> QED
    BY <1>4, <2>1, <2>2 DEF HeldInv, RowsInv
<1> QED
  BY <1>1, <1>3, <1>5, <1>6

(* A row is written, but not its counter. *)
LEMMA SideWrite ==
  ASSUME ReadInv, UNCHANGED Settings, NEW i \in DOMAIN rows, NEW r, Put(i, r), RowOK(r),
         r["hits"] = rows[i]["hits"], repo = "memory" => r["score"] # NULL,
         UNCHANGED <<applied, overlapped>>, DOMAIN held' = Clients,
         \A d \in Clients : held'[d] \in {held[d], NoHold}
  PROVE  ReadInv'
<1> USE DEF ReadInv
<1>1. TableInv' /\ (Counting' <=> Counting)
  BY CallFrame
<1>2. /\ DOMAIN rows' = DOMAIN rows
      /\ \A j \in DOMAIN rows : /\ RowOK(rows'[j]) /\ rows'[j]["hits"] = rows[j]["hits"]
                                /\ repo = "memory" => rows'[j]["score"] # NULL
  <2>1. DOMAIN rows' = DOMAIN rows /\ rows'[i] = r /\ \A j \in DOMAIN rows : j # i => rows'[j] = rows[j]
    <3>1. /\ DOMAIN rows' = DOMAIN rows \cup {i} /\ rows'[i] = r
          /\ \A j \in DOMAIN rows \ {i} : rows'[j] = rows[j]
      BY PutRow
    <3> QED
      BY <3>1
  <2>2. \A j \in DOMAIN rows : RowOK(rows[j]) /\ (repo = "memory" => rows[j]["score"] # NULL)
    BY DEF RowsInv
  <2> QED
    BY <2>1, <2>2
<1>3. RowsInv'
  BY <1>1, <1>2 DEF RowsInv, Settings
<1>4. NoLostUpdate'
  BY <1>2 DEF NoLostUpdate, Hits
<1>5. HeldInv'
  BY DEF HeldInv, Settings
<1> QED
  BY <1>1, <1>3, <1>4, <1>5

(* Rows are deleted. *)
LEMMA DropRows ==
  ASSUME ReadInv, UNCHANGED Settings, UNCHANGED <<applied, overlapped>>, DOMAIN held' = Clients,
         \A d \in Clients : held'[d] \in {held[d], NoHold},
         DOMAIN rows' \subseteq DOMAIN rows, \A j \in DOMAIN rows' : rows'[j] = rows[j]
  PROVE  ReadInv'
<1> USE DEF ReadInv
<1>1. TableInv' /\ (Counting' <=> Counting)
  BY CallFrame
<1>2. RowsInv'
  <2>1. \A i \in DOMAIN rows' : i \in Ids /\ RowOK(rows'[i]) /\ (Counting' <=> rows'[i]["hits"] # NULL)
    BY <1>1 DEF RowsInv
  <2>2. applied' \in [Ids -> Nat] /\ (~ Counting' => applied' = [i \in Ids |-> 0])
    BY <1>1 DEF RowsInv
  <2>3. repo' = "postgres" /\ ~ table'.exists => DOMAIN rows' = {}
    BY DEF RowsInv, Settings
  <2>4. repo' = "memory" => \A j \in DOMAIN rows' : rows'[j]["score"] # NULL
    BY DEF RowsInv, Settings
  <2> QED
    BY <2>1, <2>2, <2>3, <2>4 DEF RowsInv
<1>3. NoLostUpdate'
  BY DEF NoLostUpdate, Hits
<1>4. HeldInv'
  BY DEF HeldInv, Settings
<1> QED
  BY <1>1, <1>2, <1>3, <1>4

(* What a client puts into a new row, or over the columns it knows. *)
LEMMA WrittenRow ==
  ASSUME ReadInv, NEW c \in Clients, pc[c] = "ready", NEW m \in Models(release[c]), ~ Rejected(c)
  PROVE  /\ RowOK(NewRow(c, m)) /\ (Counting <=> NewRow(c, m)["hits"] # NULL)
         /\ m["rank"] = 0 \/ m["rank"] = 1
         /\ release[c] = 2 => m["hits"] = 0
         /\ m["note"] \in Int \cup {NULL} /\ m["score"] \in Int \cup {NULL}
         /\ release[c] = 2 => m["score"] # NULL
         /\ repo = "memory" => release[c] = 2 /\ NewRow(c, m)["score"] # NULL
<1>1. /\ m["rank"] \in {0, 1, NULL} /\ m["hits"] \in {0, 1, NULL} /\ m["note"] \in {0, 1, NULL} /\ m["hits"] # 1
      /\ m["score"] \in {0, 1, NULL} /\ \A f \in Model(release[c]) \ Pointers : m[f] # NULL
  BY DEF Models, Fields
<1>2. m["rank"] \in {0, 1} /\ (release[c] = 2 => m["hits"] = 0 /\ m["score"] # NULL)
  BY <1>1, FieldFacts, ReadyCounts
<1>3. /\ DOMAIN NewRow(c, m) = Fields /\ NewRow(c, m)["rank"] = m["rank"] /\ NewRow(c, m)["note"] \in {m["note"], 0, NULL}
      /\ NewRow(c, m)["score"] \in {m["score"], 0, NULL}
      /\ release[c] = 2 => NewRow(c, m)["hits"] = m["hits"] /\ NewRow(c, m)["score"] = m["score"]
      /\ release[c] = 1 => NewRow(c, m)["hits"] = IF "hits" \in table.filled THEN 0 ELSE NULL
  BY FieldFacts, ReadyCounts DEF NewRow
<1>4. release[c] = 1 => (Counting <=> "hits" \in table.filled)
  <2> SUFFICES ASSUME release[c] = 1 PROVE Counting <=> "hits" \in table.filled
    OBVIOUS
  <2>1. repo = "postgres" /\ table.filled \subseteq table.cols
    BY DEF ReadInv, TableInv
  <2> QED
    BY <2>1, FieldFacts DEF Rejected, Unnamed, Counting
<1>5. m["note"] \in Int \cup {NULL} /\ m["score"] \in Int \cup {NULL}
  BY <1>1
<1>6. repo = "memory" => release[c] = 2
  BY DEF ReadInv, TableInv
<1> QED
  BY <1>2, <1>3, <1>4, <1>5, <1>6, NullAssumption, ReadyCounts DEF RowOK

LEMMA InsertStep ==
  ASSUME ReadInv, NEW c \in Clients, NEW i \in Ids, NEW m \in Models(release[c]), Insert(c, i, m)
  PROVE  ReadInv'
<1>1. UNCHANGED Settings /\ held' = held /\ pc[c] = "ready" /\ held[c] = NoHold /\ DOMAIN held' = Clients
  BY DEF Insert, Call, Settings, ReadInv, TableInv
<1>2. CASE i \in DOMAIN rows \/ Rejected(c)
  BY <1>1, <1>2, DropRows DEF Insert
<1>3. CASE ~ (i \in DOMAIN rows \/ Rejected(c))
  BY <1>1, <1>3, FreshWrite, WrittenRow DEF Insert
<1> QED
  BY <1>2, <1>3

LEMMA UpsertStep ==
  ASSUME ReadInv, NEW c \in Clients, NEW i \in Ids, NEW m \in Models(release[c]), Upsert(c, i, m)
  PROVE  ReadInv'
<1>1. UNCHANGED Settings /\ held' = held /\ pc[c] = "ready" /\ held[c] = NoHold /\ DOMAIN held' = Clients
  BY DEF Upsert, Call, Settings, ReadInv, TableInv
<1>2. CASE Rejected(c)
  BY <1>1, <1>2, DropRows DEF Upsert
<1>3. CASE ~ Rejected(c)
  <2>1. PICK r : r = Upserted(c, i, m)
    OBVIOUS
  <2>2. Put(i, r)
    BY <1>3, <2>1 DEF Upsert
  <2>3. i \notin DOMAIN rows => r = NewRow(c, m)
    BY <2>1 DEF Upserted
  <2>4. i \in DOMAIN rows =>
          /\ DOMAIN r = Fields /\ r["rank"] = m["rank"] /\ r["note"] \in {m["note"], rows[i]["note"]}
          /\ r["score"] \in {m["score"], rows[i]["score"]}
          /\ release[c] = 2 => r["hits"] = m["hits"] /\ r["score"] = m["score"]
          /\ release[c] = 1 => r["hits"] = rows[i]["hits"]
    BY <1>1, <2>1, FieldFacts, ReadyCounts DEF Upserted
  <2>5. RowOK(r) /\ (Counting <=> r["hits"] # NULL) /\ (repo = "memory" => r["score"] # NULL)
    BY <1>1, <1>3, <2>3, <2>4, WrittenRow, ReadyCounts, NullAssumption DEF RowOK, ReadInv, RowsInv
  <2>6. CASE release[c] = 2 \/ i \notin DOMAIN rows
    <3>1. applied' = [applied EXCEPT ![i] = Hits(r)] /\ Overlap(c, i)
      BY <1>3, <2>1, <2>6 DEF Upsert
    <3> QED
      BY <1>1, <2>2, <2>5, <3>1, FreshWrite
  <2>7. CASE ~ (release[c] = 2 \/ i \notin DOMAIN rows)
    <3>1. overlapped' = overlapped /\ applied' = [applied EXCEPT ![i] = @]
      BY <1>3, <2>7 DEF Upsert
    <3>2. applied' = applied
      BY <3>1 DEF ReadInv, RowsInv
    <3>3. release[c] = 1
      BY <1>1, <2>7, ReadyCounts
    <3> QED
      BY <1>1, <2>2, <2>4, <2>5, <2>7, <3>1, <3>2, <3>3, SideWrite
  <2> QED
    BY <2>6, <2>7
<1> QED
  BY <1>2, <1>3

LEMMA UpdateInPlaceStep ==
  ASSUME ReadInv, NEW c \in Clients, NEW i \in Ids, UpdateInPlace(c, i)
  PROVE  ReadInv'
<1> USE DEF ReadInv
<1>1. /\ UNCHANGED Settings /\ held' = held /\ overlapped' = overlapped /\ repo = "memory" /\ i \in DOMAIN rows
      /\ applied' = [applied EXCEPT ![i] = @ + 1] /\ Put(i, updateFn(c, rows[i]))
  BY DEF UpdateInPlace, Call, Settings
<1>2. release[c] = 2 /\ Counting
  BY <1>1 DEF TableInv, Counting
<1>3. PICK r : r = updateFn(c, rows[i])
  OBVIOUS
<1>4. rows[i]["hits"] \in Nat /\ RowOK(rows[i])
  BY <1>1, <1>2 DEF RowsInv, RowOK
<1>5. /\ DOMAIN r = Fields /\ r["rank"] = rows[i]["rank"] /\ r["hits"] = rows[i]["hits"] + 1
      /\ r["note"] = rows[i]["note"] /\ r["score"] = rows[i]["score"]
  BY <1>2, <1>3, <1>4, FieldFacts DEF updateFn, RowOK
<1>6. RowOK(r) /\ r["hits"] # NULL /\ Hits(r) = rows[i]["hits"] + 1 /\ Hits(rows[i]) = rows[i]["hits"]
  BY <1>4, <1>5, NullAssumption DEF RowOK, Hits
<1>7. DOMAIN rows' = DOMAIN rows /\ rows'[i] = r /\ \A j \in DOMAIN rows : j # i => rows'[j] = rows[j]
  BY <1>1, <1>3, PutRow
<1>8. TableInv' /\ (Counting' <=> Counting)
  BY <1>1, CallFrame DEF TableInv
<1>9. applied' \in [Ids -> Nat] /\ applied'[i] = applied[i] + 1 /\ \A j \in Ids : j # i => applied'[j] = applied[j]
  BY <1>1 DEF RowsInv
<1>10. RowsInv'
  <2>1. \A j \in DOMAIN rows' : j \in Ids /\ RowOK(rows'[j]) /\ (Counting' <=> rows'[j]["hits"] # NULL)
    BY <1>2, <1>6, <1>7, <1>8 DEF RowsInv
  <2>2. repo = "memory" => \A j \in DOMAIN rows' : rows'[j]["score"] # NULL
    BY <1>1, <1>5, <1>7 DEF RowsInv
  <2> QED
    BY <1>1, <1>2, <1>8, <1>9, <2>1, <2>2 DEF RowsInv, Settings
<1>11. NoLostUpdate'
  <2>1. \A j \in DOMAIN rows : j \in Ids
    BY DEF RowsInv
  <2> QED
    BY <1>1, <1>6, <1>7, <1>9, <2>1 DEF NoLostUpdate, Hits
<1>12. HeldInv'
  BY <1>1 DEF HeldInv, Settings
<1> QED
  BY <1>8, <1>10, <1>11, <1>12

LEMMA UpdateReadStep ==
  ASSUME ReadInv, NEW c \in Clients, NEW i \in Ids, UpdateRead(c, i)
  PROVE  ReadInv'
<1> USE DEF ReadInv
<1>1. PICK m : m = updateFn(c, getScanTargets(rows[i]))
  OBVIOUS
<1>0. ~ mapScanError(release[c], rows[i])
  BY ReadyScans DEF UpdateRead, Call
<1>2. /\ UNCHANGED Settings /\ rows' = rows /\ applied' = applied /\ overlapped' = overlapped
      /\ repo = "postgres" /\ pc[c] = "ready" /\ i \in DOMAIN rows
      /\ held' = [held EXCEPT ![c] = [id |-> i, model |-> m]]
  BY <1>0, <1>1 DEF UpdateRead, Call, Settings
<1>3. DOMAIN held' = Clients /\ TableInv' /\ (Counting' <=> Counting)
  BY <1>2, CallFrame DEF TableInv
<1>4. RowsInv' /\ NoLostUpdate'
  BY <1>2, <1>3 DEF RowsInv, NoLostUpdate, Hits, RowOK, Settings
<1>5. PICK q : q = getScanTargets(rows[i])
  OBVIOUS
<1>6. /\ DOMAIN q = Fields /\ q["rank"] \in Int
      /\ release[c] = 2 => q["hits"] = Hits(rows[i]) /\ q["hits"] \in Nat
      /\ q["score"] \in Int \cup {NULL} /\ q["note"] \in Int \cup {NULL}
  BY <1>2, <1>5, FieldFacts, NullAssumption, ReadyCounts DEF getScanTargets, Hits, RowsInv, RowOK
<1>7. /\ DOMAIN m = Fields /\ m["rank"] \in Int /\ m["score"] \in Int \cup {NULL} /\ m["note"] \in Int \cup {NULL}
      /\ release[c] = 2 => m["hits"] \in Nat /\ m["hits"] = Hits(rows[i]) + 1
  BY <1>1, <1>5, <1>6, FieldFacts DEF updateFn
<1>8. i \notin overlapped => Hits(rows[i]) = applied[i]
  BY <1>2 DEF NoLostUpdate
<1>9. HeldInv'
  <2> SUFFICES ASSUME NEW d \in Clients, held'[d] # NoHold
               PROVE  /\ repo' = "postgres" /\ pc'[d] = "ready" /\ held'[d].id \in Ids
                      /\ DOMAIN held'[d].model = Fields /\ held'[d].model["rank"] \in Int
                      /\ held'[d].model["score"] \in Int \cup {NULL} /\ held'[d].model["note"] \in Int \cup {NULL}
                      /\ release'[d] = 2 =>
                           /\ held'[d].model["hits"] \in Nat
                           /\ held'[d].id \notin overlapped' =>
                                held'[d].model["hits"] = applied'[held'[d].id] + 1
    BY DEF HeldInv
  <2>1. CASE d = c
    BY <1>2, <1>7, <1>8, <2>1 DEF Settings, TableInv
  <2>2. CASE d # c
    BY <1>2, <2>2 DEF HeldInv, Settings, TableInv
  <2> QED
    BY <2>1, <2>2
<1> QED
  BY <1>3, <1>4, <1>9

LEMMA UpdateWriteStep ==
  ASSUME ReadInv, NEW c \in Clients, UpdateWrite(c)
  PROVE  ReadInv'
<1> USE DEF ReadInv
<1>1. PICK i, m : i = held[c].id /\ m = held[c].model
  OBVIOUS
<1>2. UNCHANGED Settings /\ held[c] # NoHold /\ held' = [held EXCEPT ![c] = NoHold]
  BY DEF UpdateWrite, Settings
<1>3. /\ repo = "postgres" /\ pc[c] = "ready" /\ i \in Ids /\ DOMAIN m = Fields /\ m["rank"] \in Int
      /\ m["score"] \in Int \cup {NULL} /\ m["note"] \in Int \cup {NULL}
      /\ release[c] = 2 => m["hits"] \in Nat /\ (i \notin overlapped => m["hits"] = applied[i] + 1)
  BY <1>1, <1>2 DEF HeldInv
<1>4. /\ DOMAIN held' = Clients /\ \A d \in Clients : held'[d] \in {held[d], NoHold}
      /\ \A d \in Clients : held'[d] # NoHold => d # c /\ held'[d] = held[d]
  BY <1>2 DEF TableInv
<1>5. CASE i \notin DOMAIN rows
  <2>1. rows' = rows /\ applied' = applied /\ overlapped' = overlapped
    BY <1>1, <1>5 DEF UpdateWrite
  <2> QED
    BY <1>2, <1>4, <2>1, DropRows
<1>6. CASE i \in DOMAIN rows
  <2>1. PICK r : r = [f \in Fields |-> IF f \in Model(release[c]) THEN m[f] ELSE rows[i][f]]
    OBVIOUS
  <2>2. /\ Put(i, r)
        /\ release[c] = 2 => /\ applied' = [applied EXCEPT ![i] = @ + 1]
                             /\ overlapped' = IF HeldByOther(c, i) THEN overlapped \cup {i} ELSE overlapped
        /\ release[c] # 2 => applied' = applied /\ overlapped' = overlapped
    BY <1>1, <1>6, <2>1 DEF UpdateWrite
  <2>3. /\ DOMAIN r = Fields /\ r["rank"] = m["rank"]
        /\ release[c] = 2 => r["hits"] = m["hits"] /\ r["score"] = m["score"] /\ r["note"] = m["note"]
        /\ release[c] = 1 => r["score"] = rows[i]["score"] /\ r["note"] = rows[i]["note"]
        /\ release[c] = 1 => r["hits"] = rows[i]["hits"]
    BY <1>3, <2>1, FieldFacts, ReadyCounts
  <2>4. CASE release[c] # 2
    <3>1. release[c] = 1
      BY <1>3, <2>4, ReadyCounts
    <3>2. RowOK(r)
      BY <1>3, <1>6, <2>3, <3>1 DEF RowsInv, RowOK
    <3> QED
      BY <1>2, <1>3, <1>4, <1>6, <2>2, <2>3, <2>4, <3>1, <3>2, SideWrite
  <2>5. CASE release[c] = 2
    <3>1. Counting /\ RowOK(r) /\ r["hits"] # NULL /\ Hits(r) = m["hits"]
      BY <1>3, <2>3, <2>5, ReadyCounts, NullAssumption DEF RowOK, Hits
    <3>2. DOMAIN rows' = DOMAIN rows /\ rows'[i] = r /\ \A j \in DOMAIN rows : j # i => rows'[j] = rows[j]
      <4>1. /\ DOMAIN rows' = DOMAIN rows \cup {i} /\ rows'[i] = r
            /\ \A j \in DOMAIN rows \ {i} : rows'[j] = rows[j]
        BY <2>2, PutRow
      <4> QED
        BY <1>6, <4>1
    <3>3. TableInv' /\ (Counting' <=> Counting)
      BY <1>2, <1>4, CallFrame
    <3>4. /\ applied' \in [Ids -> Nat] /\ applied'[i] = applied[i] + 1
          /\ \A j \in Ids : j # i => applied'[j] = applied[j]
      BY <1>3, <2>2, <2>5 DEF RowsInv
    <3>5. overlapped \subseteq overlapped' /\ overlapped' \subseteq overlapped \cup {i}
      BY <2>2, <2>5
    <3>6. RowsInv'
      <4>1. \A j \in DOMAIN rows' : j \in Ids /\ RowOK(rows'[j]) /\ (Counting' <=> rows'[j]["hits"] # NULL)
        BY <3>1, <3>2, <3>3 DEF RowsInv
      <4>2. repo' = "postgres" /\ ~ table'.exists => DOMAIN rows' = {}
        BY <1>2, <3>2 DEF RowsInv, Settings
      <4>3. repo' # "memory"
        BY <1>2, <1>3 DEF Settings
      <4> QED
        BY <3>1, <3>3, <3>4, <4>1, <4>2, <4>3 DEF RowsInv
    <3>7. NoLostUpdate'
      <4>1. \A j \in DOMAIN rows : j \in Ids
        BY DEF RowsInv
      <4> QED
        BY <1>3, <2>5, <3>1, <3>2, <3>4, <3>5, <4>1 DEF NoLostUpdate, Hits
    <3>8. HeldInv'
      <4> SUFFICES ASSUME NEW d \in Clients, held'[d] # NoHold
                   PROVE  /\ repo' = "postgres" /\ pc'[d] = "ready" /\ held'[d].id \in Ids
                          /\ DOMAIN held'[d].model = Fields /\ held'[d].model["rank"] \in Int
                          /\ held'[d].model["score"] \in Int \cup {NULL}
                          /\ held'[d].model["note"] \in Int \cup {NULL}
                          /\ release'[d] = 2 =>
                               /\ held'[d].model["hits"] \in Nat
                               /\ held'[d].id \notin overlapped' =>
                                    held'[d].model["hits"] = applied'[held'[d].id] + 1
        BY DEF HeldInv
      <4>1. d # c /\ held'[d] = held[d]
        BY <1>4
      <4>2. release[d] = 2 /\ held[d].id = i => i \in overlapped'
        BY <2>2, <2>5, <4>1 DEF HeldByOther
      <4> QED
        BY <1>2, <3>4, <3>5, <4>1, <4>2 DEF HeldInv, Settings
    <3> QED
      BY <3>3, <3>6, <3>7, <3>8
  <2> QED
    BY <2>4, <2>5
<1> QED
  BY <1>5, <1>6

LEMMA DeleteSteps ==
  ASSUME ReadInv, NEW c \in Clients,
         Clear(c) \/ (\E i \in Ids : Delete(c, i)) \/ (\E fs \in DeleteFilters : DeleteMany(c, fs))
  PROVE  ReadInv'
<1>1. UNCHANGED Settings /\ held' = held /\ applied' = applied /\ overlapped' = overlapped
  BY DEF Clear, Delete, DeleteMany, Call, Settings
<1>2. rows' = rows \/ \E S : Drop(S)
  BY DEF Clear, Delete, DeleteMany
<1>3. DOMAIN rows' \subseteq DOMAIN rows /\ \A j \in DOMAIN rows' : rows'[j] = rows[j]
  BY <1>2 DEF Drop
<1>4. DOMAIN held' = Clients
  BY <1>1 DEF ReadInv, TableInv
<1> QED
  BY <1>1, <1>3, <1>4, DropRows

LEMMA ReadStep == ReadInv /\ [ReadNext]_readVars => ReadInv'
<1> SUFFICES ASSUME ReadInv, [ReadNext]_readVars PROVE ReadInv'
  OBVIOUS
<1>1. CASE UNCHANGED readVars
  <2>1. UNCHANGED Settings /\ held' = held /\ applied' = applied /\ overlapped' = overlapped /\ rows' = rows
    BY <1>1 DEF readVars, Settings
  <2> QED
    BY <2>1, DropRows DEF ReadInv, TableInv
<1>2. ASSUME NEW c \in Clients, Migrating(c) \/ MigrateFails(c) PROVE ReadInv'
  BY <1>2, MigrationSteps
<1>3. ASSUME NEW c \in Clients, UpdateWrite(c) PROVE ReadInv'
  BY <1>3, UpdateWriteStep
<1>4. ASSUME NEW c \in Clients, NEW i \in Ids, UpdateInPlace(c, i) \/ UpdateRead(c, i) PROVE ReadInv'
  BY <1>4, UpdateInPlaceStep, UpdateReadStep
<1>5. ASSUME NEW c \in Clients, NEW i \in Ids, NEW m \in Models(release[c]), Insert(c, i, m) \/ Upsert(c, i, m)
      PROVE  ReadInv'
  BY <1>5, InsertStep, UpsertStep
<1>6. ASSUME NEW c \in Clients,
             Clear(c) \/ (\E i \in Ids : Delete(c, i)) \/ (\E fs \in DeleteFilters : DeleteMany(c, fs))
      PROVE  ReadInv'
  BY <1>6, DeleteSteps
<1> QED
  BY <1>1, <1>2, <1>3, <1>4, <1>5, <1>6 DEF ReadNext

LEMMA ReadInvariant == ReadSpec => []ReadInv
BY ReadInitOK, ReadStep, PTL DEF ReadSpec

(* Every acknowledged Update of the read-model repositories is in its row, for   *)
(* any instances, ids and mixture of the two releases, through migrations that   *)
(* fail half-way, unless two updates held the row at once.                       *)
THEOREM UpdatesAreKept == ReadSpec => []NoLostUpdate
<1>1. ReadInv => NoLostUpdate
  BY DEF ReadInv
<1> QED
  BY <1>1, ReadInvariant, PTL

(* A filter that both repositories accept means the same to both of them. *)
LEMMA FilterAgrees ==
  ASSUME NEW r, RowOK(r), NEW f, f \in Filters, f.field \in Fields \ Pointers, r[f.field] # NULL
  PROVE  matchCompiled(getScanTargets(r), f) <=> SqlTrue(r, f)
<1>1. f.op \in {"=", "!=", ">", ">=", "<", "<=", "IN", "NOT IN", "IS NULL", "IS NOT NULL", "BETWEEN"}
  BY DEF Filters
<1>2. getScanTargets(r)[f.field] = r[f.field] /\ compareOrdered(f)
  BY FieldFacts DEF getScanTargets, compareOrdered
<1>3. PICK v : v = r[f.field] /\ v # NULL
  OBVIOUS
<1> QED
  BY <1>1, <1>2, <1>3 DEF matchCompiled, SqlTrue

(* An instance that is ready reads every row, and on fields that are not         *)
(* pointers InMemoryRepository and PostgresRepository select the same rows, after *)
(* any history of writes and migrations, for any instances and ids: no default    *)
(* and no missing column shows through a filter, and no NULL but that of a        *)
(* nullable scalar.                                                               *)
THEOREM RepositoriesSelectAlike == ReadSpec => []RepositoriesAgree
<1>1. ASSUME ReadInv PROVE RepositoriesAgree
  <2>1. ASSUME NEW i \in DOMAIN rows, NEW f \in ScalarFilters, repo = "postgres" => f.field \in table.cols
        PROVE  \/ matchCompiled(getScanTargets(rows[i]), f) <=> SqlTrue(rows[i], f)
               \/ f.field \in Nullable /\ rows[i][f.field] = NULL
    <3>1. f \in Filters /\ f.field \in Fields \ Pointers
      BY DEF ScalarFilters
    <3>2. RowOK(rows[i]) /\ (Counting <=> rows[i]["hits"] # NULL)
      BY <1>1 DEF ReadInv, RowsInv
    <3>3. f.field = "hits" => Counting
      BY <1>1, <2>1 DEF Counting, ReadInv, TableInv
    <3>4. f.field \notin Nullable => rows[i][f.field] # NULL
      BY <3>1, <3>2, <3>3, FieldFacts, NullAssumption DEF RowOK
    <3> QED
      BY <3>1, <3>2, <3>4, FilterAgrees
  <2>2. \A c \in Clients, i \in DOMAIN rows : pc[c] = "ready" => ~ mapScanError(release[c], rows[i])
    BY <1>1, ReadyScans
  <2> QED
    BY <2>1, <2>2 DEF RepositoriesAgree
<1> QED
  BY <1>1, ReadInvariant, PTL

-----------------------------------------------------------------------------
(* The order of an answer. *)

(* Key x comes before key y in the direction of o. *)
Precedes(x, y, o) ==
  IF repo = "memory" THEN IF o.desc THEN x > y ELSE x < y
  ELSE IF o.desc THEN Smaller(y, x) ELSE Smaller(x, y)

Keyed == IF repo = "memory" THEN Int ELSE Int \cup {NULL}

LEMMA KeysPrecede ==
  ASSUME NEW x \in Keyed, NEW y \in Keyed, NEW z \in Keyed, NEW o
  PROVE  /\ x # y => (Precedes(x, y, o) <=> ~ Precedes(y, x, o))
         /\ Precedes(x, y, o) => x # y
         /\ Precedes(x, y, o) /\ Precedes(y, z, o) => Precedes(x, z, o)
<1>1. CASE repo = "memory"
  BY <1>1 DEF Precedes, Keyed
<1>2. CASE repo # "memory"
  BY <1>2, NullAssumption DEF Precedes, Keyed, Smaller
<1> QED
  BY <1>1, <1>2

LEMMA OrderShape ==
  ASSUME NEW ob \in TotalOrders
  PROVE  /\ Len(ob) \in 0 .. 2 /\ DOMAIN ob = 1 .. Len(ob)
         /\ \A k \in 1 .. Len(ob) : ob[k].field \in Fields \cup {"id"}
         /\ repo = "memory" \/ (Len(ob) \in 1 .. 2 /\ ob[Len(ob)].field = "id")
<1>1. ob \in Orders /\ (repo = "memory" \/ (ob # <<>> /\ Last(ob).field = "id"))
  BY DEF TotalOrders
<1>2. CASE ob = <<>>
  BY <1>1, <1>2
<1>3. CASE \E f \in Fields \cup {"id"}, d \in BOOLEAN : ob = <<[field |-> f, desc |-> d]>>
  <2>1. PICK f \in Fields \cup {"id"}, d \in BOOLEAN : ob = <<[field |-> f, desc |-> d]>>
    BY <1>3
  <2>2. Len(ob) = 1 /\ DOMAIN ob = 1 .. 1 /\ ob[1].field = f
    BY <2>1
  <2> QED
    BY <1>1, <2>2 DEF Last
<1>4. CASE \E f \in Fields, d \in BOOLEAN :
             ob = <<[field |-> f, desc |-> d], [field |-> "id", desc |-> FALSE]>>
  <2>1. PICK f \in Fields, d \in BOOLEAN : ob = <<[field |-> f, desc |-> d], [field |-> "id", desc |-> FALSE]>>
    BY <1>4
  <2>2. Len(ob) = 2 /\ DOMAIN ob = 1 .. 2 /\ ob[1].field = f /\ ob[2].field = "id"
    BY <2>1
  <2> QED
    BY <2>2
<1> QED
  BY <1>1, <1>2, <1>3, <1>4 DEF Orders

(* The key that decides. *)
LEMMA FirstFacts ==
  ASSUME NEW ob \in TotalOrders, NEW i, NEW j
  PROVE  LET k == FirstDifference(i, j, ob)
         IN /\ k \in 1 .. Len(ob) + 1
            /\ k <= Len(ob) => Differs(i, j, ob[k])
            /\ \A l \in 1 .. Len(ob) : l < k => ~ Differs(i, j, ob[l])
            /\ \A n : /\ n \in 1 .. Len(ob) + 1
                      /\ n <= Len(ob) => Differs(i, j, ob[n])
                      /\ \A l \in 1 .. Len(ob) : l < n => ~ Differs(i, j, ob[l])
                      => n = k
<1>1. Len(ob) \in 0 .. 2 /\ DOMAIN ob = 1 .. Len(ob)
  BY OrderShape
<1>2. PICK n \in 0 .. 2 : n = Len(ob)
  BY <1>1
<1>3. PICK S \in SUBSET (1 .. n + 1) : /\ n + 1 \in S
                                       /\ \A l \in 1 .. n : l \in S <=> Differs(i, j, ob[l])
                                       /\ FirstDifference(i, j, ob) = Min(S)
  <2>1. PICK S : S = {k \in DOMAIN ob : Differs(i, j, ob[k])} \cup {Len(ob) + 1}
    OBVIOUS
  <2>2. S \in SUBSET (1 .. n + 1) /\ n + 1 \in S /\ \A l \in 1 .. n : l \in S <=> Differs(i, j, ob[l])
    BY <1>1, <1>2, <2>1
  <2>3. FirstDifference(i, j, ob) = Min(S)
    BY <2>1 DEF FirstDifference
  <2> QED
    BY <2>2, <2>3
<1>4. \E x \in S : \A y \in S : x =< y
  <2>1. CASE 1 \in S
    BY <1>3, <2>1
  <2>2. CASE 1 \notin S /\ 2 \in S
    BY <1>3, <2>2
  <2>3. CASE 1 \notin S /\ 2 \notin S
    <3>1. 3 \in S /\ \A y \in S : y = 3
      BY <1>2, <1>3, <2>3
    <3> QED
      BY <3>1
  <2> QED
    BY <2>1, <2>2, <2>3
<1>5. PICK k : k = Min(S) /\ k \in S /\ \A y \in S : k =< y
  BY <1>4 DEF Min
<1> QED
  BY <1>2, <1>3, <1>5

LEMMA BeforeByKey ==
  ASSUME NEW ob \in TotalOrders, NEW i, NEW j
  PROVE  LET k == FirstDifference(i, j, ob)
         IN Before(i, j, ob) <=> IF k <= Len(ob) THEN Precedes(Key(i, ob[k].field), Key(j, ob[k].field), ob[k])
                                 ELSE repo = "memory" /\ i < j
<1>1. PICK k : k = FirstDifference(i, j, ob) /\ k \in 1 .. Len(ob) + 1
  BY FirstFacts
<1>2. Len(ob) \in 0 .. 2
  BY OrderShape
<1>3. k > Len(ob) <=> ~ (k <= Len(ob))
  BY <1>1, <1>2
<1>4. CASE repo = "memory"
  BY <1>1, <1>3, <1>4 DEF Before, orderModels, Precedes
<1>5. CASE repo # "memory"
  BY <1>1, <1>3, <1>5 DEF Before, buildOrderClause, Precedes
<1> QED
  BY <1>4, <1>5

(* Keys that are looked at can be compared. *)
LEMMA KeyFacts ==
  ASSUME ReadInv, NEW i \in DOMAIN rows, NEW f \in Fields \cup {"id"}
  PROVE  /\ i \in Int
         /\ repo # "memory" \/ f \notin Pointers => Key(i, f) \in Keyed
<1>1. i \in Ids /\ RowOK(rows[i]) /\ (Counting <=> rows[i]["hits"] # NULL)
  BY DEF ReadInv, RowsInv
<1>2. i \in Int
  BY <1>1, IdsAssumption
<1>3. f \in {"id", "rank", "hits", "score", "note"}
  BY FieldFacts
<1>4. repo = "memory" => rows[i]["hits"] \in Int /\ rows[i]["score"] \in Int
  BY <1>1 DEF Counting, RowOK, ReadInv, RowsInv
<1> QED
  BY <1>1, <1>2, <1>3, <1>4, FieldFacts DEF Key, Keyed, RowOK

(* Of two keys of which neither decides, both are the same. *)
LEMMA DiffersFacts ==
  ASSUME NEW i, NEW j, NEW o
  PROVE  /\ Differs(i, j, o) <=> Differs(j, i, o)
         /\ repo # "memory" \/ o.field \notin Pointers => (~ Differs(i, j, o) <=> Key(i, o.field) = Key(j, o.field))
         /\ Differs(i, j, o) => repo # "memory" \/ o.field \notin Pointers
BY DEF Differs

(* The OrderBys that PagesCover pages by order the rows totally, whatever  *)
(* was written and however the table was migrated: orderModels breaks      *)
(* every tie by the id and skips pointer fields it cannot compare, and     *)
(* ORDER BY with the id last leaves no tie, NULLs included.                *)
THEOREM AnswersAreOrdered == ReadSpec => []OrderIsTotal
<1>1. ASSUME ReadInv PROVE OrderIsTotal
  <2> SUFFICES ASSUME NEW ob \in TotalOrders
               PROVE  /\ \A i, j \in DOMAIN rows : i # j => (Before(i, j, ob) <=> ~Before(j, i, ob))
                      /\ \A i, j, k \in DOMAIN rows : Before(i, j, ob) /\ Before(j, k, ob) => Before(i, k, ob)
    BY DEF OrderIsTotal
  <2>0. PICK n \in 0 .. 2 : /\ n = Len(ob) /\ \A k \in 1 .. n : ob[k].field \in Fields \cup {"id"}
                            /\ repo = "memory" \/ (n # 0 /\ ob[n].field = "id")
    BY OrderShape
  <2>1. ASSUME NEW i \in DOMAIN rows, NEW j \in DOMAIN rows, NEW k \in 1 .. n, Differs(i, j, ob[k])
        PROVE  /\ Key(i, ob[k].field) \in Keyed /\ Key(j, ob[k].field) \in Keyed
               /\ Key(i, ob[k].field) # Key(j, ob[k].field)
    BY <1>1, <2>0, <2>1, KeyFacts, DiffersFacts
  <2>2. ASSUME NEW i \in DOMAIN rows, NEW j \in DOMAIN rows, i # j PROVE Before(i, j, ob) <=> ~Before(j, i, ob)
    <3>1. PICK k : k = FirstDifference(i, j, ob) /\ k \in 1 .. n + 1 /\ (k <= n => Differs(i, j, ob[k]))
                   /\ \A l \in 1 .. n : l < k => ~ Differs(i, j, ob[l])
      BY <2>0, FirstFacts
    <3>2. FirstDifference(j, i, ob) = k
      <4>1. (k <= n => Differs(j, i, ob[k])) /\ \A l \in 1 .. n : l < k => ~ Differs(j, i, ob[l])
        BY <3>1, DiffersFacts
      <4> QED
        BY <2>0, <3>1, <4>1, FirstFacts
    <3>3. CASE k <= n
      <4>1. k \in 1 .. n /\ Key(i, ob[k].field) \in Keyed /\ Key(j, ob[k].field) \in Keyed
            /\ Key(i, ob[k].field) # Key(j, ob[k].field)
        BY <2>0, <2>1, <3>1, <3>3
      <4>2. /\ Before(i, j, ob) <=> Precedes(Key(i, ob[k].field), Key(j, ob[k].field), ob[k])
            /\ Before(j, i, ob) <=> Precedes(Key(j, ob[k].field), Key(i, ob[k].field), ob[k])
        BY <2>0, <3>1, <3>2, <3>3, BeforeByKey
      <4> QED
        BY <4>1, <4>2, KeysPrecede
    <3>4. CASE ~ (k <= n)
      <4>1. repo = "memory"
        <5>1. SUFFICES ASSUME repo # "memory" PROVE FALSE
          OBVIOUS
        <5>2. n \in 1 .. n /\ n < k /\ ob[n].field = "id" /\ Differs(i, j, ob[n])
          BY <2>0, <2>2, <3>1, <3>4, <5>1 DEF Differs, Key
        <5> QED
          BY <3>1, <5>2
      <4>2. (Before(i, j, ob) <=> i < j) /\ (Before(j, i, ob) <=> j < i)
        BY <2>0, <3>1, <3>2, <3>4, <4>1, BeforeByKey
      <4>3. i \in Int /\ j \in Int
        BY <1>1, KeyFacts
      <4> QED
        BY <2>2, <4>2, <4>3
    <3> QED
      BY <3>3, <3>4
  <2>3. ASSUME NEW i \in DOMAIN rows, NEW j \in DOMAIN rows, NEW k \in DOMAIN rows,
               Before(i, j, ob), Before(j, k, ob)
        PROVE  Before(i, k, ob)
    <3>1. PICK a : a = FirstDifference(i, j, ob) /\ a \in 1 .. n + 1 /\ (a <= n => Differs(i, j, ob[a]))
                   /\ \A l \in 1 .. n : l < a => ~ Differs(i, j, ob[l])
      BY <2>0, FirstFacts
    <3>2. PICK b : b = FirstDifference(j, k, ob) /\ b \in 1 .. n + 1 /\ (b <= n => Differs(j, k, ob[b]))
                   /\ \A l \in 1 .. n : l < b => ~ Differs(j, k, ob[l])
      BY <2>0, FirstFacts
    <3>3. /\ IF a <= n THEN Precedes(Key(i, ob[a].field), Key(j, ob[a].field), ob[a]) ELSE repo = "memory" /\ i < j
          /\ IF b <= n THEN Precedes(Key(j, ob[b].field), Key(k, ob[b].field), ob[b]) ELSE repo = "memory" /\ j < k
      BY <2>0, <2>3, <3>1, <3>2, BeforeByKey
    <3>4. PICK c : c = (IF a <= b THEN a ELSE b) /\ c \in 1 .. n + 1 /\ c <= a /\ c <= b
      BY <2>0, <3>1, <3>2
    <3>5. \A l \in 1 .. n : l < c => ~ Differs(i, k, ob[l])
      <4> SUFFICES ASSUME NEW l \in 1 .. n, l < c PROVE ~ Differs(i, k, ob[l])
        OBVIOUS
      <4>1. ~ Differs(i, j, ob[l]) /\ ~ Differs(j, k, ob[l])
        BY <2>0, <3>1, <3>2, <3>4
      <4> QED
        BY <4>1 DEF Differs
    <3>6. ASSUME c <= n
          PROVE  Precedes(Key(i, ob[c].field), Key(k, ob[c].field), ob[c]) /\ Differs(i, k, ob[c])
      <4>0. c \in 1 .. n
        BY <2>0, <3>4, <3>6
      <4>1. repo # "memory" \/ ob[c].field \notin Pointers
        BY <3>1, <3>2, <3>4, <3>6, DiffersFacts
      <4>2. Key(i, ob[c].field) \in Keyed /\ Key(j, ob[c].field) \in Keyed /\ Key(k, ob[c].field) \in Keyed
        BY <1>1, <2>0, <4>0, <4>1, KeyFacts
      <4>3. Precedes(Key(i, ob[c].field), Key(k, ob[c].field), ob[c])
        <5>1. CASE a < b
          <6>1. c = a /\ ~ Differs(j, k, ob[c])
            BY <2>0, <3>1, <3>2, <3>4, <4>0, <5>1
          <6>2. Key(j, ob[c].field) = Key(k, ob[c].field)
            BY <4>1, <6>1, DiffersFacts
          <6> QED
            BY <3>3, <3>6, <6>1, <6>2
        <5>2. CASE b < a
          <6>1. c = b /\ ~ Differs(i, j, ob[c])
            BY <2>0, <3>1, <3>2, <3>4, <4>0, <5>2
          <6>2. Key(i, ob[c].field) = Key(j, ob[c].field)
            BY <4>1, <6>1, DiffersFacts
          <6> QED
            BY <3>3, <3>6, <6>1, <6>2
        <5>3. CASE a = b
          <6>1. c = a /\ c = b
            BY <3>4, <5>3
          <6>2. /\ Precedes(Key(i, ob[c].field), Key(j, ob[c].field), ob[c])
                /\ Precedes(Key(j, ob[c].field), Key(k, ob[c].field), ob[c])
            BY <3>3, <3>6, <6>1
          <6> QED
            BY <4>2, <6>2, KeysPrecede
        <5> QED
          BY <2>0, <3>1, <3>2, <5>1, <5>2, <5>3
      <4>4. Key(i, ob[c].field) # Key(k, ob[c].field)
        BY <4>2, <4>3, KeysPrecede
      <4> QED
        BY <4>1, <4>3, <4>4 DEF Differs
    <3>7. FirstDifference(i, k, ob) = c
      BY <2>0, <3>4, <3>5, <3>6, FirstFacts
    <3>8. CASE c <= n
      BY <2>0, <3>6, <3>7, <3>8, BeforeByKey
    <3>9. CASE ~ (c <= n)
      <4>1. ~ (a <= n) /\ ~ (b <= n)
        BY <2>0, <3>1, <3>2, <3>4, <3>9
      <4>2. repo = "memory" /\ i < j /\ j < k
        BY <3>3, <4>1
      <4>3. i \in Int /\ j \in Int /\ k \in Int
        BY <1>1, KeyFacts
      <4>4. i < k
        BY <4>2, <4>3
      <4> QED
        BY <2>0, <3>7, <3>9, <4>2, <4>4, BeforeByKey
    <3> QED
      BY <3>8, <3>9
  <2> QED
    BY <2>2, <2>3
<1> QED
  BY <1>1, ReadInvariant, PTL

(* Of an answer s the pages of a size tile it: page k starts where page    *)
(* k - 1 ended, has the next rows in their order, and is short or empty    *)
(* only at the end (WithPagination, and the slice of Find).                *)
THEOREM PagesTile ==
  ASSUME NEW S, NEW s \in Seq(S), NEW k \in Nat \ {0}, NEW size \in Nat \ {0}
  PROVE  LET ask == WithPagination(k, size)
             page == Page(s, ask.limit, ask.offset)
         IN /\ ask.offset \in Nat /\ WithPagination(1, size).offset = 0
            /\ WithPagination(k + 1, size).offset = ask.offset + size
            /\ page \in Seq(S)
            /\ ask.offset + Len(page) <= Len(s) \/ page = <<>>
            /\ Len(page) = size \/ (Len(page) < size /\ ask.offset + size > Len(s))
            /\ \A q \in 1 .. Len(page) : page[q] = s[ask.offset + q]
<1>1. PICK o \in Nat : o = (k - 1) * size
  <2>1. PICK j \in Nat : j = k - 1
    OBVIOUS
  <2>2. j * size \in Nat
    OBVIOUS
  <2> QED
    BY <2>1, <2>2
<1>2. PICK ask : ask = WithPagination(k, size) /\ ask.limit = size /\ ask.offset = o
  <2>1. ~ ((k - 1) * size < 0)
    BY <1>1
  <2>2. WithPagination(k, size) = [limit |-> size, offset |-> o]
    BY <1>1, <2>1 DEF WithPagination
  <2> QED
    BY <2>2
<1>3. WithPagination(k + 1, size).offset = o + size /\ WithPagination(1, size).offset = 0
  <2>1. ((k + 1) - 1) * size = (k - 1) * size + size
    OBVIOUS
  <2>2. ((k + 1) - 1) * size = o + size /\ ~ (o + size < 0)
    BY <1>1, <2>1
  <2>3. (1 - 1) * size = 0
    OBVIOUS
  <2> QED
    BY <2>2, <2>3 DEF WithPagination
<1>4. PICK t : t = (IF o >= Len(s) THEN <<>> ELSE SubSeq(s, o + 1, Len(s)))
  OBVIOUS
<1>5. PICK p : p = Page(s, ask.limit, ask.offset) /\ p = IF size < Len(t) THEN SubSeq(t, 1, size) ELSE t
  <2>1. Page(s, size, o) = IF size < Len(t) THEN SubSeq(t, 1, size) ELSE t
    <3>1. size > 0
      OBVIOUS
    <3> QED
      BY <1>4, <3>1, Zenon DEF Page
  <2> QED
    BY <1>2, <2>1
<1>6. CASE o >= Len(s)
  <2>1. t = <<>> /\ Len(t) = 0
    BY <1>4, <1>6
  <2>2. p = <<>> /\ Len(p) = 0 /\ p \in Seq(S)
    BY <1>5, <2>1
  <2>3. Len(p) < size /\ o + size > Len(s)
    BY <1>6, <2>2
  <2> QED
    BY <1>2, <1>3, <1>5, <2>2, <2>3
<1>7. CASE ~ (o >= Len(s))
  <2>1. t = SubSeq(s, o + 1, Len(s))
    BY <1>4, <1>7
  <2>2. t \in Seq(S) /\ Len(t) = Len(s) - o /\ \A q \in 1 .. Len(t) : t[q] = s[o + q]
    BY <1>7, <2>1
  <2>3. CASE size < Len(t)
    <3>1. p = SubSeq(t, 1, size)
      BY <1>5, <2>3
    <3>2. p \in Seq(S) /\ Len(p) = size /\ \A q \in 1 .. Len(p) : p[q] = t[q]
      BY <2>2, <2>3, <3>1
    <3>3. ASSUME NEW q \in 1 .. Len(p) PROVE p[q] = s[o + q]
      <4>1. q \in 1 .. Len(t) /\ p[q] = t[q]
        BY <2>2, <2>3, <3>2
      <4> QED
        BY <2>2, <4>1
    <3>4. o + Len(p) <= Len(s)
      BY <2>2, <2>3, <3>2
    <3> QED
      BY <1>2, <1>3, <1>5, <3>2, <3>3, <3>4
  <2>4. CASE ~ (size < Len(t))
    <3>1. p = t
      BY <1>5, <2>4
    <3>2. o + Len(p) <= Len(s) /\ (Len(p) = size \/ (Len(p) < size /\ o + size > Len(s)))
      BY <2>2, <2>4, <3>1
    <3> QED
      BY <1>2, <1>3, <1>5, <2>2, <3>1, <3>2
  <2> QED
    BY <2>3, <2>4
<1> QED
  BY <1>6, <1>7
=============================================================================
