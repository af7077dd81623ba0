-------------------------- MODULE SagaManagerProofs --------------------------
(***************************************************************************)
(* Proofs about the saga manager, for any number of managers, callers,     *)
(* operators, events, failures and crashes: until an operator drives the   *)
(* saga again, one goroutine of a manager drives it at a time.  The mutex  *)
(* map alone does not give that, for its entry is deleted when the saga    *)
(* settles: it is the settled row, which nothing but an operator can leave *)
(* again, that turns away whoever comes with another mutex.  On top of     *)
(* that, a manager drives an event once, and once more for each failed     *)
(* save, stop, crash and lost race, and for nothing else.                  *)
(***************************************************************************)
EXTENDS SagaManager, FiniteSetTheorems, SequenceTheorems, TLAPS

ThreadShape(r) ==
  /\ DOMAIN r = {"pc", "mode", "ev", "mtx", "saga", "k", "try", "keys"}
  /\ r.pc \in {"idle", "lock"} \cup Holding
  /\ r.mtx \in Nat /\ (r.pc # "idle" => r.mtx # 0)
  /\ DOMAIN r.saga = {"status", "version", "step", "captured"} /\ r.saga.version \in Nat

ShapeInv ==
  /\ DOMAIN th = Threads /\ \A t \in Threads : ThreadShape(th[t])
  /\ DOMAIN row = {"status", "version", "step", "captured", "done", "aged"} /\ row.version \in Nat
  /\ lockMap \in [Managers -> Nat] /\ lastMutex \in [Managers -> Nat]
  /\ DOMAIN budget = {"limit", "taken", "capture"} /\ budget.taken \in [Bounded -> Nat]

(* A mutex of a manager is held by one goroutine. *)
Exclusion ==
  \A t, u \in Threads :
    t # u /\ Mgr(t) = Mgr(u) /\ th[t].pc \in Holding /\ th[u].pc \in Holding => th[t].mtx # th[u].mtx

Quiet == budget.taken["op"] = 0

(* Until the saga settles everybody has the mutex the map holds. *)
OneMutex ==
  row.status \notin Terminal =>
    \A t \in Threads : th[t].pc # "idle" => th[t].mtx = lockMap[Mgr(t)]

(* A drive whose version the store would accept is one of a saga that has  *)
(* not settled; so a settled saga stays settled.                           *)
Settled ==
  /\ \A t \in Threads : Driving(t) =>
       /\ th[t].saga.version <= row.version
       /\ th[t].saga.version = row.version => row.status \notin Terminal
  /\ \A t \in Threads : th[t].pc = "evict" /\ th[t].saga.status \in Terminal => row.status \in Terminal

QuietInv ==
  Quiet =>
    /\ \A t \in Threads : th[t].mode \in {"event", "sweep"}
    /\ OneMutex /\ Settled /\ OneDriver

SagaInv == ShapeInv /\ Exclusion /\ QuietInv

LEMMA MgrType == \A t \in Threads : Mgr(t) \in Managers
BY ThreadsAssumption DEF Threads, Mgr

LEMMA InitSaga == Init => SagaInv
<1> SUFFICES ASSUME Init PROVE SagaInv
  OBVIOUS
<1>1. th = [t \in Threads |-> Idle] /\ Idle.pc = "idle" /\ Idle.mode = "event"
  BY DEF Init, Idle
<1>2. ThreadShape(Idle)
  BY DEF ThreadShape, Idle, NoSaga
<1>3. PICK d \in Deployments : budget = [limit |-> d.limit, taken |-> [b \in Bounded |-> 0], capture |-> d.capture]
  BY DEF Init
<1>4. ShapeInv
  <2>1. DOMAIN th = Threads /\ \A t \in Threads : ThreadShape(th[t])
    BY <1>1, <1>2
  <2>2. DOMAIN row = {"status", "version", "step", "captured", "done", "aged"} /\ row.version \in Nat
    BY DEF Init
  <2>3. lockMap \in [Managers -> Nat] /\ lastMutex \in [Managers -> Nat]
    BY DEF Init
  <2>4. DOMAIN budget = {"limit", "taken", "capture"} /\ budget.taken \in [Bounded -> Nat]
    BY <1>3
  <2> QED
    BY <2>1, <2>2, <2>3, <2>4 DEF ShapeInv
<1>5. Exclusion
  BY <1>1 DEF Exclusion, Holding
<1>6. QuietInv
  BY <1>1 DEF QuietInv, OneMutex, Settled, OneDriver, Driving
<1> QED
  BY <1>4, <1>5, <1>6 DEF SagaInv

-----------------------------------------------------------------------------
(* Bounded steps are counted, never uncounted. *)
BudgetStep ==
  /\ DOMAIN budget' = {"limit", "taken", "capture"} /\ budget'.taken \in [Bounded -> Nat]
  /\ Quiet' => Quiet

LEMMA BudgetFacts ==
  ASSUME SagaInv
  PROVE  /\ UNCHANGED budget => BudgetStep
         /\ \A what \in Bounded : Spend(what) => BudgetStep
         /\ Spend("op") => ~ Quiet'
<1>1. DOMAIN budget = {"limit", "taken", "capture"} /\ budget.taken \in [Bounded -> Nat]
  BY DEF SagaInv, ShapeInv
<1>2. "op" \in Bounded
  BY DEF Bounded
<1>3. ASSUME UNCHANGED budget PROVE BudgetStep
  BY <1>1, <1>3 DEF BudgetStep, Quiet
<1>4. ASSUME NEW what \in Bounded, Spend(what)
      PROVE  /\ DOMAIN budget' = {"limit", "taken", "capture"}
             /\ budget'.taken = [budget.taken EXCEPT ![what] = @ + 1]
  BY <1>1, <1>4 DEF Spend
<1>a. ASSUME NEW f \in [Bounded -> Nat], NEW what \in Bounded
      PROVE  /\ [f EXCEPT ![what] = @ + 1] \in [Bounded -> Nat]
             /\ [f EXCEPT ![what] = @ + 1]["op"] = 0 => f["op"] = 0
             /\ what = "op" => [f EXCEPT ![what] = @ + 1]["op"] # 0
  BY <1>2
<1>5. ASSUME NEW what \in Bounded, Spend(what) PROVE BudgetStep
  <2>1. budget'.taken = [budget.taken EXCEPT ![what] = @ + 1] /\ DOMAIN budget' = {"limit", "taken", "capture"}
    BY <1>4, <1>5
  <2>2. budget'.taken \in [Bounded -> Nat] /\ (budget'.taken["op"] = 0 => budget.taken["op"] = 0)
    BY <1>1, <1>a, <2>1
  <2> QED
    BY <2>1, <2>2 DEF BudgetStep, Quiet
<1>6. ASSUME Spend("op") PROVE ~ Quiet'
  <2>1. budget'.taken = [budget.taken EXCEPT !["op"] = @ + 1]
    BY <1>2, <1>4, <1>6
  <2>2. budget'.taken["op"] # 0
    BY <1>1, <1>2, <1>a, <2>1
  <2> QED
    BY <2>2 DEF Quiet
<1> QED
  BY <1>3, <1>5, <1>6

(***************************************************************************)
(* A step by which thread t goes from th[t] to r, the row and the mutexes  *)
(* being left alone.  It may start to drive the saga only with a saga that *)
(* has not settled.                                                        *)
(***************************************************************************)
Drives == {"dispatch", "compensate", "save"}

LEMMA OwnStep ==
  ASSUME SagaInv, NEW t \in Threads, NEW r, th' = [th EXCEPT ![t] = r],
         UNCHANGED <<row, lockMap, lastMutex>>, BudgetStep,
         ThreadShape(r), r.pc # "evict", r.pc = "idle" \/ r.mtx = th[t].mtx,
         th[t].pc # "idle", r.mode \in {"event", th[t].mode},
         \/ r.pc \notin Holding \/ th[t].pc \in Holding
         \/ \A u \in Threads \ {t} :
               ~ (Mgr(u) = Mgr(t) /\ th[u].mtx = th[t].mtx /\ th[u].pc \in Holding),
         Quiet' /\ r.pc \in Drives =>
            \/ Driving(t) /\ r.saga.version = th[t].saga.version
            \/ th[t].pc = "load" /\ r.saga.version = row.version /\ row.status \notin Terminal
  PROVE  SagaInv'
<1> USE DEF SagaInv
<1>1. DOMAIN th = Threads /\ th'[t] = r /\ \A u \in Threads \ {t} : th'[u] = th[u]
  BY DEF ShapeInv
<1>2. ShapeInv'
  BY <1>1 DEF ShapeInv, BudgetStep
<1>3. Exclusion'
  BY <1>1 DEF Exclusion, ShapeInv, ThreadShape, Holding
<1>4. ASSUME Quiet' PROVE QuietInv'
  <2>0. /\ \A u \in Threads : th[u].mode \in {"event", "sweep"}
        /\ OneMutex /\ Settled /\ OneDriver
    BY <1>4 DEF BudgetStep, QuietInv
  <2>1. \A u \in Threads : th'[u].mode \in {"event", "sweep"}
    BY <1>1, <2>0
  <2>2. OneMutex'
    BY <1>1, <2>0 DEF OneMutex
  <2>3. Settled'
    BY <1>1, <1>4, <2>0 DEF Settled, Driving, Drives, ShapeInv
  <2>4. ASSUME ~ Driving(t), r.pc \in Drives,
               NEW u \in Threads \ {t}, Mgr(u) = Mgr(t), Driving(u)
        PROVE  FALSE
    <3>1. th[t].pc \in Holding /\ row.status \notin Terminal
      BY <1>4, <2>4 DEF Holding
    <3>2. th[u].pc \in Holding /\ th[u].pc # "idle"
      BY <2>4 DEF Driving, Holding
    <3>3. th[u].mtx = th[t].mtx
      BY <2>0, <2>4, <3>1, <3>2 DEF OneMutex, Holding
    <3> QED
      BY <2>4, <3>1, <3>2, <3>3 DEF Exclusion
  <2>5. OneDriver'
    BY <1>1, <2>0, <2>4 DEF OneDriver, Driving, Drives
  <2> QED
    BY <2>1, <2>2, <2>3, <2>5 DEF QuietInv
<1> QED
  BY <1>2, <1>3, <1>4 DEF QuietInv

(* Nobody moves. *)
LEMMA AsideStep ==
  ASSUME SagaInv, UNCHANGED <<th, row, lockMap, lastMutex>>, BudgetStep
  PROVE  SagaInv'
<1> USE DEF SagaInv
<1>1. ShapeInv'
  BY DEF ShapeInv, BudgetStep
<1>2. Exclusion'
  BY DEF Exclusion
<1>3. QuietInv'
  BY DEF QuietInv, BudgetStep, OneMutex, Settled, OneDriver, Driving
<1> QED
  BY <1>1, <1>2, <1>3

(***************************************************************************)
(* getSagaLock: whoever comes while the saga has not settled gets the      *)
(* mutex that everybody else of the manager has.                           *)
(***************************************************************************)
LEMMA EnterStep ==
  ASSUME SagaInv, NEW t \in Threads, th[t].pc = "idle", NEW mode, NEW e, EnterLock(t, mode, e),
         UNCHANGED row, BudgetStep, Quiet' => mode \in {"event", "sweep"}
  PROVE  SagaInv'
<1> USE DEF SagaInv
<1>0. Mgr(t) \in Managers
  BY MgrType
<1>1. PICK m : m = Mgr(t)
  OBVIOUS
<1>2. PICK id : id = IF lockMap[m] = 0 THEN lastMutex[m] + 1 ELSE lockMap[m]
  OBVIOUS
<1>3. PICK r : r = [Idle EXCEPT !.pc = "lock", !.mode = mode, !.ev = e, !.mtx = id]
  OBVIOUS
<1>4. /\ lockMap' = [lockMap EXCEPT ![m] = id] /\ th' = [th EXCEPT ![t] = r]
      /\ lastMutex' = [lastMutex EXCEPT ![m] = IF id > @ THEN id ELSE @]
  BY <1>1, <1>2, <1>3 DEF EnterLock
<1>5. id \in Nat /\ id # 0 /\ (lockMap[m] # 0 => id = lockMap[m])
  BY <1>0, <1>1, <1>2 DEF ShapeInv
<1>6. ThreadShape(r) /\ r.pc = "lock" /\ r.mode = mode /\ r.mtx = id
  BY <1>3, <1>5 DEF ThreadShape, Idle, NoSaga
<1>7. DOMAIN th = Threads /\ th'[t] = r /\ \A u \in Threads \ {t} : th'[u] = th[u]
  BY <1>4 DEF ShapeInv
<1>8. lockMap'[m] = id /\ lockMap' \in [Managers -> Nat] /\ lastMutex' \in [Managers -> Nat]
      /\ \A n \in Managers \ {m} : lockMap'[n] = lockMap[n]
  BY <1>0, <1>1, <1>4, <1>5 DEF ShapeInv
<1>9. ShapeInv'
  <2>1. DOMAIN th' = Threads /\ \A u \in Threads : ThreadShape(th'[u])
    BY <1>4, <1>6, <1>7 DEF ShapeInv
  <2> QED
    BY <1>8, <2>1 DEF ShapeInv, BudgetStep
<1>10. Exclusion'
  BY <1>6, <1>7 DEF Exclusion, Holding
<1>11. ASSUME Quiet' PROVE QuietInv'
  <2>0. /\ \A u \in Threads : th[u].mode \in {"event", "sweep"}
        /\ OneMutex /\ Settled /\ OneDriver
    BY <1>11 DEF BudgetStep, QuietInv
  <2>1. \A u \in Threads : th'[u].mode \in {"event", "sweep"}
    BY <1>6, <1>7, <1>11, <2>0
  <2>2. ASSUME row.status \notin Terminal, NEW u \in Threads \ {t}, th[u].pc # "idle"
        PROVE  th[u].mtx = lockMap'[Mgr(u)]
    <3>1. th[u].mtx = lockMap[Mgr(u)] /\ th[u].mtx # 0 /\ Mgr(u) \in Managers
      BY <2>0, <2>2, MgrType DEF OneMutex, ShapeInv, ThreadShape
    <3> QED
      BY <1>5, <1>8, <3>1
  <2>3. OneMutex'
    BY <1>1, <1>6, <1>7, <1>8, <2>2 DEF OneMutex
  <2>4. Settled' /\ OneDriver'
    BY <1>6, <1>7, <2>0 DEF Settled, OneDriver, Driving
  <2> QED
    BY <2>1, <2>3, <2>4 DEF QuietInv
<1> QED
  BY <1>9, <1>10, <1>11 DEF QuietInv

(* Save: the version check keeps a settled saga settled. *)
LEMMA SaveStep ==
  ASSUME SagaInv, NEW t \in Threads, Save(t)
  PROVE  SagaInv'
<1> USE DEF SagaInv
<1>1. PICK r : r = [th[t] EXCEPT !.pc = "evict", !.keys = SavedKeys(t)]
  OBVIOUS
<1>2. /\ th' = [th EXCEPT ![t] = r] /\ UNCHANGED <<lockMap, lastMutex, budget>>
      /\ row'.status = th[t].saga.status /\ row'.version = row.version + 1
      /\ DOMAIN row' = {"status", "version", "step", "captured", "done", "aged"}
      /\ th[t].pc = "save" /\ row.version = th[t].saga.version
  <2>1. th' = [th EXCEPT ![t] = r]
    BY <1>1 DEF Save, ShapeInv
  <2>2. row'.status = th[t].saga.status /\ row'.version = row.version + 1
    BY DEF Save
  <2>3. DOMAIN row' = {"status", "version", "step", "captured", "done", "aged"}
    BY DEF Save
  <2>4. th[t].pc = "save" /\ row.version = th[t].saga.version /\ UNCHANGED <<lockMap, lastMutex, budget>>
    BY DEF Save, managerVars
  <2> HIDE DEF SagaInv
  <2> QED
    BY <2>1, <2>2, <2>3, <2>4
<1>3. ThreadShape(r) /\ r.pc = "evict" /\ r.mode = th[t].mode /\ r.mtx = th[t].mtx /\ r.saga = th[t].saga
  <2>1. ThreadShape(th[t]) /\ th[t].pc = "save"
    BY <1>2 DEF ShapeInv
  <2>2. DOMAIN th[t] = {"pc", "mode", "ev", "mtx", "saga", "k", "try", "keys"}
    BY <2>1 DEF ThreadShape
  <2>3. DOMAIN r = DOMAIN th[t] /\ r.pc = "evict" /\ r.mode = th[t].mode
        /\ r.mtx = th[t].mtx /\ r.saga = th[t].saga
    BY <1>1, <2>2
  <2>4. ThreadShape(r)
    BY <2>1, <2>3 DEF ThreadShape, Holding
  <2> QED
    BY <2>3, <2>4
<1>4. DOMAIN th = Threads /\ th'[t] = r /\ \A u \in Threads \ {t} : th'[u] = th[u]
  BY <1>2 DEF ShapeInv
<1>5. ShapeInv'
  BY <1>2, <1>3, <1>4 DEF ShapeInv
<1>6. Exclusion'
  BY <1>2, <1>3, <1>4 DEF Exclusion, Holding
<1>7. ASSUME Quiet PROVE QuietInv'
  <2>0. /\ \A u \in Threads : th[u].mode \in {"event", "sweep"}
        /\ OneMutex /\ Settled /\ OneDriver
    BY <1>7 DEF QuietInv
  <2>1. row.status \notin Terminal
    BY <1>2, <2>0 DEF Settled, Driving
  <2>2. OneMutex'
    BY <1>2, <1>3, <1>4, <2>0, <2>1 DEF OneMutex
  <2>3. Settled'
    <3>1. \A u \in Threads : Driving(u)' => th'[u].saga.version < row'.version
      BY <1>2, <1>3, <1>4, <2>0 DEF Settled, Driving, ShapeInv, ThreadShape
    <3>2. \A u \in Threads : Driving(u)' => th'[u].saga.version <= row'.version /\ th'[u].saga.version # row'.version
      BY <1>5, <3>1 DEF ShapeInv, ThreadShape
    <3>3. \A u \in Threads : th'[u].pc = "evict" /\ th'[u].saga.status \in Terminal => row'.status \in Terminal
      BY <1>2, <1>3, <1>4, <2>0, <2>1 DEF Settled
    <3> QED
      BY <3>2, <3>3 DEF Settled
  <2>4. OneDriver'
    BY <1>3, <1>4, <2>0 DEF OneDriver, Driving
  <2> QED
    BY <1>3, <1>4, <2>0, <2>2, <2>3, <2>4 DEF QuietInv
<1> QED
  BY <1>2, <1>5, <1>6, <1>7 DEF QuietInv, Quiet

(* The shape of a thread that is done. *)
LEMMA IdleFacts ==
  ThreadShape(Idle) /\ Idle.pc = "idle" /\ Idle.mode = "event" /\ DOMAIN Idle = {"pc", "mode", "ev", "mtx", "saga", "k", "try", "keys"}
BY DEF Idle, ThreadShape, NoSaga

(* The mutex is thrown away only for a saga that has settled. *)
LEMMA EvictStep ==
  ASSUME SagaInv, NEW t \in Threads, Evict(t)
  PROVE  SagaInv'
<1> USE DEF SagaInv
<1>0. Mgr(t) \in Managers
  BY MgrType
<1>1. th' = [th EXCEPT ![t] = Idle] /\ UNCHANGED <<row, lastMutex, budget>> /\ th[t].pc = "evict"
  BY DEF Evict, Return
<1>2. DOMAIN th = Threads /\ th'[t] = Idle /\ \A u \in Threads \ {t} : th'[u] = th[u]
  BY <1>1 DEF ShapeInv
<1>3. lockMap' \in [Managers -> Nat] /\ (th[t].saga.status \notin Terminal => lockMap' = lockMap)
  BY <1>0 DEF Evict, ShapeInv
<1>4. ShapeInv'
  BY <1>1, <1>2, <1>3, IdleFacts DEF ShapeInv
<1>5. Exclusion'
  BY <1>2, IdleFacts DEF Exclusion, Holding
<1>6. ASSUME Quiet PROVE QuietInv'
  <2>0. /\ \A u \in Threads : th[u].mode \in {"event", "sweep"}
        /\ OneMutex /\ Settled /\ OneDriver
    BY <1>6 DEF QuietInv
  <2>1. row.status \in Terminal \/ lockMap' = lockMap
    BY <1>1, <1>3, <2>0 DEF Settled
  <2>2. OneMutex'
    BY <1>1, <1>2, <2>0, <2>1, IdleFacts DEF OneMutex
  <2>3. Settled' /\ OneDriver'
    BY <1>1, <1>2, <2>0, IdleFacts DEF Settled, OneDriver, Driving
  <2> QED
    BY <1>2, <2>0, <2>2, <2>3, IdleFacts DEF QuietInv
<1> QED
  BY <1>1, <1>4, <1>5, <1>6 DEF QuietInv, Quiet

LEMMA CrashStep ==
  ASSUME SagaInv, NEW m \in Managers, Crash(m)
  PROVE  SagaInv'
<1> USE DEF SagaInv
<1>1. /\ UNCHANGED row /\ lockMap' = [lockMap EXCEPT ![m] = 0] /\ lastMutex' = [lastMutex EXCEPT ![m] = 0]
      /\ th' = [t \in Threads |-> IF Mgr(t) = m THEN Idle ELSE th[t]]
  BY DEF Crash
<1>2. BudgetStep
  BY BudgetFacts DEF Crash, Bounded
<1>3. \A t \in Threads : IF Mgr(t) = m THEN th'[t] = Idle ELSE th'[t] = th[t]
  BY <1>1
<1>4. ShapeInv'
  BY <1>1, <1>2, <1>3, IdleFacts DEF ShapeInv, BudgetStep
<1>5. Exclusion'
  BY <1>3, IdleFacts DEF Exclusion, Holding
<1>6. ASSUME Quiet' PROVE QuietInv'
  <2>0. /\ \A u \in Threads : th[u].mode \in {"event", "sweep"}
        /\ OneMutex /\ Settled /\ OneDriver
    BY <1>2, <1>6 DEF QuietInv, BudgetStep
  <2>1. \A t \in Threads : th'[t].pc # "idle" => Mgr(t) # m /\ th'[t] = th[t]
    BY <1>3, IdleFacts
  <2>2. OneMutex'
    BY <1>1, <2>0, <2>1, MgrType DEF OneMutex, ShapeInv
  <2>3. Settled' /\ OneDriver'
    BY <1>1, <2>0, <2>1 DEF Settled, OneDriver, Driving
  <2>4. \A u \in Threads : th'[u].mode \in {"event", "sweep"}
    BY <1>3, <2>0, IdleFacts
  <2> QED
    BY <2>2, <2>3, <2>4 DEF QuietInv
<1> QED
  BY <1>4, <1>5, <1>6 DEF QuietInv

(* Return, whatever the loop notes. *)
LEMMA ReturnStep ==
  ASSUME SagaInv, NEW t \in Threads, th[t].pc # "idle", th' = [th EXCEPT ![t] = Idle],
         UNCHANGED <<row, lockMap, lastMutex>>, BudgetStep
  PROVE  SagaInv'
BY OwnStep, IdleFacts DEF Holding, Drives

(* The steps of a drive. *)
LEMMA DriveStep ==
  ASSUME SagaInv, NEW t \in Threads, Drive(t)
  PROVE  SagaInv'
<1> USE DEF managerVars, loopVars, history
<1>0. /\ DOMAIN th = Threads /\ ThreadShape(th[t])
      /\ DOMAIN th[t] = {"pc", "mode", "ev", "mtx", "saga", "k", "try", "keys"}
      /\ DOMAIN th[t].saga = {"status", "version", "step", "captured"}
      /\ th[t].saga.version \in Nat /\ row.version \in Nat
      /\ th[t].mtx \in Nat /\ (th[t].pc # "idle" => th[t].mtx # 0)
  BY DEF SagaInv, ShapeInv, ThreadShape
<1>1. ASSUME UNCHANGED budget PROVE BudgetStep
  BY <1>1, BudgetFacts
<1>2. ASSUME NEW what \in {"fail", "fault"}, Spend(what) PROVE BudgetStep
  BY <1>2, BudgetFacts DEF Bounded
<1>3. ASSUME NEW r, DOMAIN r = DOMAIN th[t], r.mtx = th[t].mtx, r.pc \in Holding \ {"evict"},
             r.mode = th[t].mode, th[t].pc \in Holding,
             DOMAIN r.saga = {"status", "version", "step", "captured"}, r.saga.version \in Nat,
             Quiet' /\ r.pc \in Drives =>
                \/ Driving(t) /\ r.saga.version = th[t].saga.version
                \/ th[t].pc = "load" /\ r.saga.version = row.version /\ row.status \notin Terminal,
             th' = [th EXCEPT ![t] = r], UNCHANGED <<row, lockMap, lastMutex>>, BudgetStep
      PROVE  SagaInv'
  <2>1. ThreadShape(r) /\ th[t].pc # "idle"
    BY <1>0, <1>3 DEF ThreadShape, Holding
  <2> QED
    BY <1>3, <2>1, OwnStep
<1>4. CASE Acquire(t)
  <2>1. PICK r : r = [th[t] EXCEPT !.pc = "load"]
    OBVIOUS
  <2>2. th' = [th EXCEPT ![t] = r] /\ th[t].pc = "lock" /\ UNCHANGED <<row, lockMap, lastMutex, budget>>
    BY <1>0, <1>4, <2>1 DEF Acquire
  <2>3. ThreadShape(r) /\ r.pc = "load" /\ r.mtx = th[t].mtx /\ r.mode = th[t].mode
    BY <1>0, <2>1, <2>2 DEF ThreadShape, Holding
  <2>4. \A u \in Threads \ {t} :
           ~ (Mgr(u) = Mgr(t) /\ th[u].mtx = th[t].mtx /\ th[u].pc \in Holding)
    BY <1>4 DEF Acquire
  <2> QED
    BY <1>1, <2>2, <2>3, <2>4, OwnStep DEF Drives
<1>5. ASSUME NEW e, NEW captured, NEW status, NEW pc \in {"dispatch", "compensate"},
             StartDrive(t, e, captured, status, pc), th[t].pc = "load",
             Quiet' => row.status \notin Terminal,
             UNCHANGED <<row, lockMap, lastMutex>>, BudgetStep
      PROVE  SagaInv'
  <2>1. PICK r : r = [th[t] EXCEPT !.pc = pc, !.ev = e, !.k = 0,
                        !.saga = [status |-> status, version |-> row.version, step |-> row.step,
                                  captured |-> captured]]
    OBVIOUS
  <2>2. th' = [th EXCEPT ![t] = r]
    BY <1>0, <1>5, <2>1 DEF StartDrive
  <2>3. DOMAIN r = DOMAIN th[t] /\ r.mtx = th[t].mtx /\ r.pc = pc /\ r.mode = th[t].mode
    BY <1>0, <2>1
  <2>4. DOMAIN r.saga = {"status", "version", "step", "captured"} /\ r.saga.version = row.version
    BY <1>0, <2>1
  <2> QED
    BY <1>0, <1>3, <1>5, <2>2, <2>3, <2>4 DEF Holding
<1>6. CASE LoadForEvent(t)
  <2>1. CASE Return(t, TRUE)
    BY <1>1, <1>6, <2>1, ReturnStep DEF LoadForEvent, Return
  <2>2. CASE ~ Return(t, TRUE)
    BY <1>1, <1>5, <1>6, <2>2 DEF LoadForEvent
  <2> QED
    BY <2>1, <2>2
<1>7. CASE LoadForRedrive(t)
  <2>0. ~ Quiet' /\ th[t].pc = "load" /\ UNCHANGED <<row, lockMap, lastMutex, budget>>
    <3>1. th[t].mode \in {"retry", "resume"} /\ UNCHANGED budget
      BY <1>7 DEF LoadForRedrive
    <3>2. ~ Quiet
      BY <3>1 DEF SagaInv, QuietInv
    <3> QED
      BY <1>7, <3>1, <3>2 DEF LoadForRedrive, Quiet
  <2>1. CASE th' = [th EXCEPT ![t] = Idle]
    BY <1>1, <2>0, <2>1, ReturnStep
  <2>2. CASE StartDrive(t, row.captured.ev, row.captured, "running", "dispatch")
    BY <1>1, <1>5, <2>0, <2>2
  <2> QED
    BY <1>7, <2>1, <2>2 DEF LoadForRedrive
<1>8. CASE ReloadFails(t)
  BY <1>2, <1>8, ReturnStep DEF ReloadFails
<1>9. CASE LoadForSweep(t)
  <2>0. th[t].pc = "load" /\ UNCHANGED <<row, lockMap, lastMutex, budget>>
    BY <1>9 DEF LoadForSweep
  <2>1. CASE th' = [th EXCEPT ![t] = Idle]
    BY <1>1, <2>0, <2>1, ReturnStep
  <2>2. CASE th' # [th EXCEPT ![t] = Idle]
    BY <1>1, <1>5, <1>9, <2>0, <2>2 DEF LoadForSweep
  <2> QED
    BY <2>1, <2>2
<1>10. ASSUME NEW r, DOMAIN r = DOMAIN th[t], r.mtx = th[t].mtx, r.pc \in Drives,
              r.mode = th[t].mode, th[t].pc \in Drives,
              DOMAIN r.saga = {"status", "version", "step", "captured"},
              r.saga.version = th[t].saga.version,
              th' = [th EXCEPT ![t] = r], UNCHANGED <<row, lockMap, lastMutex>>, BudgetStep
      PROVE  SagaInv'
  BY <1>0, <1>3, <1>10 DEF Drives, Driving, Holding
<1>11. CASE Dispatch(t)
  <2>1. PICK r : r = [th[t] EXCEPT
              !.k = @ + 1, !.pc = IF th[t].k + 1 = Commands THEN "save" ELSE @, !.saga.step = @ + 1,
              !.saga.status = IF th[t].k + 1 = Commands /\ th[t].ev = LastEvent THEN "completed" ELSE @]
    OBVIOUS
  <2>a. th' = [th EXCEPT ![t] = r]
    BY <1>0, <1>11, <2>1 DEF Dispatch
  <2>2. th[t].pc = "dispatch" /\ UNCHANGED <<row, lockMap, lastMutex, budget>>
    BY <1>11 DEF Dispatch
  <2>3. DOMAIN r = DOMAIN th[t] /\ r.mtx = th[t].mtx /\ r.pc \in Drives /\ r.mode = th[t].mode
    BY <1>0, <2>1, <2>2 DEF Drives
  <2>4. DOMAIN r.saga = DOMAIN th[t].saga /\ r.saga.version = th[t].saga.version
    BY <1>0, <2>1
  <2> QED
    BY <1>0, <1>1, <1>10, <2>a, <2>2, <2>3, <2>4 DEF Drives
<1>12. ASSUME NEW pc \in {"compensate", "save"}, NEW status, th[t].pc \in Drives,
              th' = [th EXCEPT ![t].pc = pc, ![t].saga.status = status],
              UNCHANGED <<row, lockMap, lastMutex>>, BudgetStep
       PROVE  SagaInv'
  <2>1. PICK r : r = [th[t] EXCEPT !.pc = pc, !.saga.status = status]
    OBVIOUS
  <2>2. th' = [th EXCEPT ![t] = r]
    BY <1>0, <1>12, <2>1
  <2>3. DOMAIN r = DOMAIN th[t] /\ r.mtx = th[t].mtx /\ r.pc = pc /\ r.mode = th[t].mode
    BY <1>0, <2>1
  <2>4. DOMAIN r.saga = DOMAIN th[t].saga /\ r.saga.version = th[t].saga.version
    BY <1>0, <2>1
  <2>5. r.pc \in Drives /\ DOMAIN r.saga = {"status", "version", "step", "captured"}
    BY <1>0, <2>3, <2>4 DEF Drives
  <2> QED
    BY <1>10, <1>12, <2>2, <2>3, <2>4, <2>5, Zenon
<1>13. CASE StepFails(t)
  <2>1. BudgetStep
    BY <1>2, <1>13 DEF StepFails
  <2>2. /\ th[t].pc \in Drives /\ UNCHANGED <<row, lockMap, lastMutex>>
        /\ th' = [th EXCEPT ![t].pc = "compensate", ![t].saga.status = "compensating"]
    BY <1>13 DEF StepFails, Drives
  <2> QED
    BY <1>12, <2>1, <2>2
<1>14. CASE Interrupted(t)
  BY <1>1, <1>14, ReturnStep DEF Interrupted, Return
<1>15. CASE Compensate(t) \/ CompensateFails(t) \/ CompensatePartly(t)
  <2>1. BudgetStep
    BY <1>1, <1>2, <1>15 DEF Compensate, CompensateFails, CompensatePartly
  <2> QED
    BY <1>12, <1>15, <2>1 DEF Compensate, CompensateFails, CompensatePartly, Settle, Drives
<1>16. CASE Save(t)
  BY <1>16, SaveStep
<1>17. CASE SaveConflict(t)
  <2>0. th[t].pc = "save" /\ UNCHANGED <<row, lockMap, lastMutex, budget>>
    BY <1>17 DEF SaveConflict
  <2>1. CASE ~ (th[t].mode = "event" /\ th[t].try + 1 < RetryAttempts)
    <3>1. Return(t, TRUE)
      BY <1>17, <2>1 DEF SaveConflict
    <3> QED
      BY <1>1, <2>0, <3>1, ReturnStep DEF Return
  <2>2. CASE th[t].mode = "event" /\ th[t].try + 1 < RetryAttempts
    <3>1. PICK r : r = [th[t] EXCEPT !.pc = "load", !.try = @ + 1, !.saga = NoSaga]
      OBVIOUS
    <3>2. th' = [th EXCEPT ![t] = r]
      BY <1>0, <1>17, <2>2, <3>1 DEF SaveConflict
    <3>3. DOMAIN r = DOMAIN th[t] /\ r.mtx = th[t].mtx /\ r.pc = "load" /\ r.mode = th[t].mode
          /\ DOMAIN r.saga = {"status", "version", "step", "captured"} /\ r.saga.version \in Nat
      BY <1>0, <3>1 DEF NoSaga
    <3> QED
      BY <1>1, <1>3, <2>0, <3>2, <3>3 DEF Holding, Drives
  <2> QED
    BY <2>1, <2>2
<1>18. CASE SaveFails(t) \/ LoadFails(t)
  BY <1>2, <1>18, ReturnStep DEF SaveFails, LoadFails, Return
<1>19. CASE SaveCancelled(t)
  BY <1>1, <1>19, ReturnStep DEF SaveCancelled, Return
<1>20. CASE Evict(t)
  BY <1>20, EvictStep
<1> QED
  BY <1>4, <1>6, <1>7, <1>8, <1>9, <1>11, <1>13, <1>14, <1>15, <1>16, <1>17, <1>18, <1>19, <1>20
  DEF Drive

(* Every step keeps the invariant. *)
LEMMA SagaStep == SagaInv /\ [Next]_vars => SagaInv'
<1> SUFFICES ASSUME SagaInv, [Next]_vars PROVE SagaInv'
  OBVIOUS
<1> USE DEF managerVars, loopVars, history
<1>0. Managers \subseteq Threads /\ Callers \subseteq Threads /\ Operators \subseteq Threads
  BY DEF Threads
<1>1. ASSUME UNCHANGED budget PROVE BudgetStep
  BY <1>1, BudgetFacts
<1>2. ASSUME NEW what \in Bounded, Spend(what) PROVE BudgetStep
  BY <1>2, BudgetFacts
<1>3. ASSUME NEW t \in Managers, Receive(t) PROVE SagaInv'
  <2>0. th[t].pc = "idle" /\ UNCHANGED <<row, budget>>
    BY <1>3 DEF Receive
  <2>1. CASE EnterLock(t, "event", next[t])
    BY <1>0, <1>1, <2>0, <2>1, EnterStep
  <2>2. CASE UNCHANGED <<th, lockMap, lastMutex>>
    BY <1>1, <2>0, <2>2, AsideStep
  <2> QED
    BY <1>3, <2>1, <2>2 DEF Receive
<1>4. ASSUME NEW t \in Managers, LookupFails(t) PROVE SagaInv'
  BY <1>2, <1>4, AsideStep DEF LookupFails, Bounded
<1>5. ASSUME NEW t \in Managers, Sweep(t) PROVE SagaInv'
  BY <1>0, <1>1, <1>5, EnterStep DEF Sweep
<1>6. ASSUME NEW t \in Callers, NEW e \in Events, ProcessEvent(t, e) PROVE SagaInv'
  BY <1>0, <1>2, <1>6, EnterStep DEF ProcessEvent, Bounded
<1>7. ASSUME NEW t \in Operators, RetrySaga(t) \/ ResumeStalled(t) PROVE SagaInv'
  <2>1. Spend("op") /\ BudgetStep /\ ~ Quiet' /\ UNCHANGED row /\ th[t].pc = "idle"
    BY <1>2, <1>7, BudgetFacts DEF RetrySaga, ResumeStalled, Bounded
  <2> QED
    BY <1>0, <1>7, <2>1, EnterStep DEF RetrySaga, ResumeStalled
<1>8. ASSUME NEW t \in Threads, Drive(t) PROVE SagaInv'
  BY <1>8, DriveStep
<1>9. CASE Age
  <2>1. /\ UNCHANGED <<th, lockMap, lastMutex, budget>>
        /\ row' = [row EXCEPT !.aged = TRUE]
    BY <1>9 DEF Age
  <2>2. DOMAIN row = {"status", "version", "step", "captured", "done", "aged"}
    BY DEF SagaInv, ShapeInv
  <2>3. DOMAIN row' = DOMAIN row /\ row'.status = row.status /\ row'.version = row.version
    BY <2>1, <2>2
  <2>4. ShapeInv'
    BY <2>1, <2>3 DEF SagaInv, ShapeInv
  <2>5. Exclusion'
    BY <2>1 DEF SagaInv, Exclusion
  <2>6. QuietInv'
    BY <2>1, <2>3 DEF SagaInv, QuietInv, Quiet, OneMutex, Settled, OneDriver, Driving
  <2> QED
    BY <2>4, <2>5, <2>6 DEF SagaInv
<1>10. ASSUME NEW m \in Managers, Stop(m) \/ LoopExits(m) \/ Start(m) PROVE SagaInv'
  <2>1. BudgetStep
    BY <1>1, <1>2, <1>10 DEF Stop, LoopExits, Start, Bounded
  <2> QED
    BY <1>10, <2>1, AsideStep DEF Stop, LoopExits, Start
<1>11. ASSUME NEW m \in Managers, Crash(m) PROVE SagaInv'
  BY <1>11, CrashStep
<1>12. CASE UNCHANGED vars
  BY <1>1, <1>12, AsideStep DEF vars
<1> QED
  BY <1>3, <1>4, <1>5, <1>6, <1>7, <1>8, <1>9, <1>10, <1>11, <1>12 DEF Next

(***************************************************************************)
(* The invariant of the mutexes, the row and the drives, always.           *)
(***************************************************************************)
THEOREM SagaInvariant == Spec => []SagaInv
<1>1. SagaInv /\ [Next]_vars => SagaInv'
  BY SagaStep
<1> QED
  BY <1>1, InitSaga, PTL DEF Spec

(***************************************************************************)
(* Two goroutines of a manager never drive the saga at the same time, as   *)
(* long as no operator has called RetrySaga or ResumeStalled, although     *)
(* saveSaga deletes the mutex of a settled saga while others wait for it.  *)
(***************************************************************************)
THEOREM OneDriverAtATime == Spec => []OneDriverUnlessRetried
<1>1. SagaInv => OneDriverUnlessRetried
  BY DEF SagaInv, QuietInv, Quiet, OneDriverUnlessRetried
<1> QED
  BY <1>1, SagaInvariant, PTL

-----------------------------------------------------------------------------
(***************************************************************************)
(* How often commands go out.  A manager owes every event one drive, and   *)
(* one more for each disturbance and each race that it lost: what it was   *)
(* allowed before (Allowed) covers every drive that came to nothing, and   *)
(* whoever is driving an event has one drive on top of it.  A drive whose  *)
(* save the store accepts closes the event for ever, by its key or by the  *)
(* settled row, as long as no operator retries and no key is trimmed.      *)
(***************************************************************************)
Paid(m) == Disturbances + lostRaces[m]
Allowed(m) == Commands * Paid(m)

Keys == {s \in Seq(Events) : \A i, j \in 1 .. Len(s) : s[i] = s[j] => i = j}
Open(e) == row.status \notin Terminal /\ ~ HasKey(row.done, e)
Working(t) == Driving(t) /\ th[t].mode = "event"
Doing(t, e) == Working(t) /\ th[t].ev = e
RolledBack(t) == th[t].pc = "save" /\ th[t].saga.status \in {"compensated", "compensation_failed"}

(* A loop that is stopping has spent the disturbance its drive will end by. *)
Credit(t) == IF Cancelled(t) THEN 1 ELSE 0
SentOnTop(t) == IF th[t].pc = "dispatch" THEN th[t].k ELSE Commands

CountTypes ==
  /\ sent \in [Managers -> [Events -> Nat]]
  /\ rollbacks \in [Managers -> Nat] /\ lostRaces \in [Managers -> Nat]
  /\ DOMAIN loop = Managers
  /\ row.done \in Keys /\ cache \in [Managers -> Keys]
  /\ \A t \in Threads : th[t].pc = "evict" => th[t].keys \in Keys

(* What a drive is about, and that the keys of a row go into the next one. *)
DriveShape(t) ==
  /\ th[t].pc # "idle" /\ th[t].mode = "event" => th[t].ev \in Events
  /\ th[t].pc = "dispatch" => th[t].mode = "event" /\ th[t].k \in 0 .. Commands - 1 /\ th[t].saga.status = "running"
  /\ th[t].pc = "compensate" => th[t].saga.status = "compensating"
  /\ th[t].pc = "save" => th[t].saga.status \in {"running"} \cup Terminal
  /\ th[t].pc = "save" /\ th[t].mode = "sweep" => th[t].saga.status \in Retryable

KeysKept(t) ==
  Driving(t) /\ th[t].saga.version = row.version =>
    /\ \A x \in Events : HasKey(row.done, x) => HasKey(cache[Mgr(t)], x)
    /\ th[t].mode = "event" => ~ HasKey(cache[Mgr(t)], th[t].ev)

SentInv ==
  /\ \A m \in Managers, e \in Events :
       /\ sent[m][e] <= Allowed(m) + Commands
       /\ Open(e) => sent[m][e] <= Allowed(m) \/ \E t \in Threads : Mgr(t) = m /\ Doing(t, e)
  /\ \A t \in Threads : Working(t) =>
       sent[Mgr(t)][th[t].ev] <= Allowed(Mgr(t)) - Commands * Credit(t) + SentOnTop(t)

RollInv ==
  /\ \A m \in Managers :
       /\ rollbacks[m] <= Paid(m) + 1
       /\ row.status \notin Terminal =>
            rollbacks[m] <= Paid(m) \/ \E t \in Threads : Mgr(t) = m /\ Driving(t)
  /\ \A t \in Threads : Driving(t) =>
       rollbacks[Mgr(t)] <= Paid(Mgr(t)) - Credit(t) + (IF RolledBack(t) THEN 1 ELSE 0)

LoneInv ==
  \A m \in Managers : Lone(m) =>
    /\ lostRaces[m] = 0
    /\ \A t \in Threads : /\ Mgr(t) # m => th[t].pc = "idle"
                          /\ Driving(t) => th[t].saga.version = row.version

CountInv ==
  /\ CountTypes
  /\ \A t \in Threads : DriveShape(t) /\ KeysKept(t)
  /\ SentInv /\ RollInv /\ LoneInv

Tracked == LastEvent <= MaxTracked
QuietCountInv == Quiet /\ Tracked => CountInv

-----------------------------------------------------------------------------
(* Keys. *)

LEMMA KeysBounded ==
  ASSUME NEW c \in Keys
  PROVE  c \in Seq(Events) /\ Len(c) \in Nat /\ Len(c) <= LastEvent
<1>1. c \in Seq(Events) /\ Len(c) \in Nat /\ \A i, j \in 1 .. Len(c) : c[i] = c[j] => i = j
  BY DEF Keys
<1>2. c \in [1 .. Len(c) -> Events]
  BY <1>1
<1>3. c \in Injection(1 .. Len(c), Events)
  BY <1>1, <1>2, Zenon DEF Injection, IsInjective
<1>4. IsFiniteSet(Events) /\ Cardinality(Events) = LastEvent
  <2>1. 1 \in Int /\ LastEvent \in Int
    BY BoundsAssumption
  <2>2. IsFiniteSet(1 .. LastEvent) /\ Cardinality(1 .. LastEvent) = IF 1 > LastEvent THEN 0 ELSE LastEvent - 1 + 1
    BY <2>1, FS_Interval
  <2> QED
    BY <2>2, BoundsAssumption DEF Events
<1>5. Cardinality(1 .. Len(c)) <= Cardinality(Events)
  BY <1>3, <1>4, FS_Injection, Zenon
<1>6. Cardinality(1 .. Len(c)) = Len(c)
  <2>1. 1 \in Int /\ Len(c) \in Int
    BY <1>1
  <2>2. Cardinality(1 .. Len(c)) = IF 1 > Len(c) THEN 0 ELSE Len(c) - 1 + 1
    BY <2>1, FS_Interval
  <2> QED
    BY <1>1, <2>2
<1> QED
  BY <1>1, <1>4, <1>5, <1>6

(* Saving a key keeps the others: nothing is trimmed. *)
LEMMA SavedFacts ==
  ASSUME NEW c \in Keys, NEW e \in Events, ~ HasKey(c, e), Tracked
  PROVE  /\ Trim(c \o <<e>>) \in Keys
         /\ HasKey(Trim(c \o <<e>>), e)
         /\ \A x \in Events : HasKey(c, x) => HasKey(Trim(c \o <<e>>), x)
<1>1. c \in Seq(Events) /\ Len(c) \in Nat /\ \A i, j \in 1 .. Len(c) : c[i] = c[j] => i = j
  BY DEF Keys
<1>2. PICK d : d = c \o <<e>>
  OBVIOUS
<1>3. /\ d \in Seq(Events) /\ Len(d) = Len(c) + 1 /\ d[Len(c) + 1] = e
      /\ \A i \in 1 .. Len(c) : d[i] = c[i]
  BY <1>1, <1>2
<1>4. \A i \in 1 .. Len(c) : c[i] # e
  BY DEF HasKey
<1>5. d \in Keys
  <2>1. ASSUME NEW i \in 1 .. Len(d), NEW j \in 1 .. Len(d), d[i] = d[j] PROVE i = j
    <3>1. (i \in 1 .. Len(c) \/ i = Len(c) + 1) /\ (j \in 1 .. Len(c) \/ j = Len(c) + 1)
      BY <1>1, <1>3
    <3> QED
      BY <1>1, <1>3, <1>4, <2>1, <3>1
  <2> QED
    BY <1>3, <2>1 DEF Keys
<1>6. ~ (Len(d) > MaxTracked)
  BY <1>5, KeysBounded, BoundsAssumption DEF Tracked
<1>7. Trim(d) = d
  BY <1>6 DEF Trim
<1>8. HasKey(d, e)
  BY <1>1, <1>3 DEF HasKey
<1>9. ASSUME NEW x \in Events, HasKey(c, x) PROVE HasKey(d, x)
  <2>1. PICK i \in 1 .. Len(c) : c[i] = x
    BY <1>9 DEF HasKey
  <2>2. i \in 1 .. Len(d) /\ d[i] = x
    BY <1>1, <1>3, <2>1
  <2> QED
    BY <2>2 DEF HasKey
<1> QED
  BY <1>2, <1>5, <1>7, <1>8, <1>9

LEMMA CarriedFacts ==
  ASSUME NEW c \in Keys, Tracked
  PROVE  Trim(c \o <<>>) = c
<1>1. c \in Seq(Events) /\ c \o <<>> = c
  BY ConcatEmptySeq DEF Keys
<1>2. ~ (Len(c) > MaxTracked)
  BY KeysBounded, BoundsAssumption DEF Tracked
<1> QED
  BY <1>1, <1>2 DEF Trim

LEMMA HydratedFacts ==
  ASSUME CountTypes, NEW m \in Managers
  PROVE  Hydrated(m) \in Keys /\ \A x \in Events : HasKey(row.done, x) => HasKey(Hydrated(m), x)
<1>1. CASE row.done # <<>>
  BY <1>1 DEF Hydrated, CountTypes
<1>2. CASE row.done = <<>>
  BY <1>2 DEF Hydrated, CountTypes, HasKey
<1> QED
  BY <1>1, <1>2

-----------------------------------------------------------------------------
(* Bounded steps. *)

LEMMA TakenFacts ==
  ASSUME SagaInv
  PROVE  /\ Disturbances \in Nat
         /\ UNCHANGED budget => Disturbances' = Disturbances
         /\ \A what \in {"fault", "stop", "crash"} : Spend(what) => Disturbances' = Disturbances + 1
         /\ \A what \in {"call", "fail"} : Spend(what) => Disturbances' = Disturbances
<1>1. DOMAIN budget = {"limit", "taken", "capture"} /\ budget.taken \in [Bounded -> Nat]
  BY DEF SagaInv, ShapeInv
<1>2. PICK f \in [Bounded -> Nat] : f = budget.taken
  BY <1>1
<1>3. /\ f["op"] \in Nat /\ f["fault"] \in Nat /\ f["stop"] \in Nat /\ f["crash"] \in Nat
      /\ Disturbances = f["op"] + f["fault"] + f["stop"] + f["crash"]
  BY <1>2 DEF Disturbances, Bounded
<1>4. ASSUME UNCHANGED budget PROVE Disturbances' = Disturbances
  BY <1>4 DEF Disturbances
<1>5. ASSUME NEW what \in Bounded, Spend(what) PROVE budget'.taken = [f EXCEPT ![what] = @ + 1]
  BY <1>1, <1>2, <1>5 DEF Spend
<1>6. ASSUME NEW what \in Bounded, Spend(what)
      PROVE  \E g : /\ g = [f EXCEPT ![what] = @ + 1]
                    /\ Disturbances' = g["op"] + g["fault"] + g["stop"] + g["crash"]
  <2>1. budget'.taken = [f EXCEPT ![what] = @ + 1]
    BY <1>5, <1>6
  <2> QED
    BY <2>1 DEF Disturbances
<1>7. ASSUME NEW what \in {"fault", "stop", "crash"}, Spend(what) PROVE Disturbances' = Disturbances + 1
  <2>1. what \in Bounded
    BY DEF Bounded
  <2>2. PICK g : /\ g = [f EXCEPT ![what] = @ + 1]
                 /\ Disturbances' = g["op"] + g["fault"] + g["stop"] + g["crash"]
    BY <1>6, <1>7, <2>1
  <2>3. g["op"] + g["fault"] + g["stop"] + g["crash"] = f["op"] + f["fault"] + f["stop"] + f["crash"] + 1
    BY <1>3, <2>2 DEF Bounded
  <2> QED
    BY <1>3, <2>2, <2>3
<1>8. ASSUME NEW what \in {"call", "fail"}, Spend(what) PROVE Disturbances' = Disturbances
  <2>1. what \in Bounded
    BY DEF Bounded
  <2>2. PICK g : /\ g = [f EXCEPT ![what] = @ + 1]
                 /\ Disturbances' = g["op"] + g["fault"] + g["stop"] + g["crash"]
    BY <1>6, <1>8, <2>1
  <2>3. g["op"] = f["op"] /\ g["fault"] = f["fault"] /\ g["stop"] = f["stop"] /\ g["crash"] = f["crash"]
    BY <2>2 DEF Bounded
  <2> QED
    BY <1>3, <2>2, <2>3
<1> QED
  BY <1>3, <1>4, <1>7, <1>8

(* One more disturbance, or one more lost race, pays for one more drive. *)
LEMMA PaidFacts ==
  ASSUME SagaInv, CountTypes, NEW m \in Managers
  PROVE  /\ Paid(m) \in Nat /\ Allowed(m) \in Nat
         /\ \A k \in Nat : Paid(m)' = Paid(m) + k => Allowed(m)' = Allowed(m) + Commands * k
<1>1. Disturbances \in Nat /\ lostRaces[m] \in Nat /\ Commands \in Nat
  BY TakenFacts, BoundsAssumption DEF CountTypes
<1>2. PICK p \in Nat, c \in Nat : p = Paid(m) /\ c = Commands
  BY <1>1 DEF Paid
<1>3. Allowed(m) = c * p /\ c * p \in Nat
  BY <1>2 DEF Allowed
<1>4. ASSUME NEW k \in Nat, Paid(m)' = Paid(m) + k PROVE Allowed(m)' = Allowed(m) + Commands * k
  <2>1. Allowed(m)' = c * (p + k)
    BY <1>2, <1>4 DEF Allowed
  <2>2. c * (p + k) = c * p + c * k
    OBVIOUS
  <2> QED
    BY <1>2, <1>3, <2>1, <2>2
<1> QED
  BY <1>2, <1>3, <1>4
-----------------------------------------------------------------------------
(* While a drive could still be saved no other goroutine of its manager    *)
(* holds a mutex of the saga.                                              *)
LEMMA Alone ==
  ASSUME SagaInv, Quiet, NEW t \in Threads, NEW u \in Threads \ {t}, Mgr(u) = Mgr(t),
         th[t].pc \in Holding, th[u].pc \in Holding, row.status \notin Terminal
  PROVE  FALSE
<1>1. OneMutex /\ Exclusion /\ th[t].pc # "idle" /\ th[u].pc # "idle"
  BY DEF SagaInv, QuietInv, Holding
<1>2. th[t].mtx = lockMap[Mgr(t)] /\ th[u].mtx = lockMap[Mgr(u)]
  BY <1>1 DEF OneMutex
<1> QED
  BY <1>1, <1>2 DEF Exclusion

LEMMA LiveDrive ==
  ASSUME SagaInv, Quiet, NEW t \in Threads, Driving(t), th[t].saga.version = row.version
  PROVE  row.status \notin Terminal /\ th[t].pc \in Holding
BY DEF SagaInv, QuietInv, Settled, Driving, Holding

(* No other thread of t's manager drives the saga. *)
Unattended(t) == \A u \in Threads \ {t} : Mgr(u) = Mgr(t) => ~ Driving(u)

(***************************************************************************)
(* The accounts after a step of one thread: what it sent it was allowed,   *)
(* and a drive that ends has closed its event or was paid for.             *)
(***************************************************************************)
Account(t) ==
  /\ \A m \in Managers, e \in Events :
       \/ sent'[m][e] = sent[m][e]
       \/ m = Mgr(t) /\ Doing(t, e)' /\ Unattended(t)
  /\ \A m \in Managers :
       \/ rollbacks'[m] = rollbacks[m]
       \/ m = Mgr(t) /\ Driving(t)' /\ Unattended(t)
  /\ Working(t) => \A e \in Events :
       Doing(t, e) /\ ~ Doing(t, e)' => ~ Open(e)' \/ sent'[Mgr(t)][e] <= Allowed(Mgr(t))'
  /\ Working(t)' => /\ th'[t].ev \in Events /\ SentOnTop(t)' \in 0 .. Commands
                    /\ sent'[Mgr(t)][th'[t].ev] <= Allowed(Mgr(t))' - Commands * Credit(t)' + SentOnTop(t)'
  /\ Driving(t) /\ ~ Driving(t)' => row'.status \in Terminal \/ rollbacks'[Mgr(t)] <= Paid(Mgr(t))'
  /\ Driving(t)' => rollbacks'[Mgr(t)] <= Paid(Mgr(t))' - Credit(t)' + (IF RolledBack(t)' THEN 1 ELSE 0)

LEMMA AccountStep ==
  ASSUME SagaInv, CountInv, CountTypes', NEW t \in Threads,
         \A u \in Threads \ {t} : th'[u] = th[u] /\ (Driving(u) => (Cancelled(u)' <=> Cancelled(u))),
         \A m \in Managers : \E k \in {0, 1} : Paid(m)' = Paid(m) + k,
         row'.status \notin Terminal => row.status \notin Terminal,
         \A e \in Events : Open(e)' => Open(e),
         Account(t)
  PROVE  SentInv' /\ RollInv'
<1> USE DEF Account, Unattended
<1>0. /\ CountTypes /\ SentInv /\ RollInv /\ Commands \in Nat
      /\ \A u \in Threads : DriveShape(u)
  BY BoundsAssumption DEF CountInv
<1>1. \A m \in Managers : /\ Paid(m) \in Nat /\ Paid(m)' \in Nat /\ Paid(m) <= Paid(m)'
                          /\ Allowed(m) \in Nat /\ Allowed(m)' \in Nat /\ Allowed(m) <= Allowed(m)'
  <2> SUFFICES ASSUME NEW m \in Managers
               PROVE  /\ Paid(m) \in Nat /\ Paid(m)' \in Nat /\ Paid(m) <= Paid(m)'
                      /\ Allowed(m) \in Nat /\ Allowed(m)' \in Nat /\ Allowed(m) <= Allowed(m)'
    OBVIOUS
  <2>1. PICK k \in {0, 1} : Paid(m)' = Paid(m) + k
    OBVIOUS
  <2>2. Paid(m) \in Nat /\ Allowed(m) \in Nat /\ Allowed(m)' = Allowed(m) + Commands * k
    BY <1>0, <2>1, PaidFacts
  <2>3. Commands * k \in Nat
    BY <1>0
  <2> QED
    BY <2>1, <2>2, <2>3
<1>2. /\ \A u \in Threads : Mgr(u) \in Managers
      /\ \A m \in Managers, e \in Events : sent[m][e] \in Nat /\ sent'[m][e] \in Nat
      /\ \A m \in Managers : rollbacks[m] \in Nat /\ rollbacks'[m] \in Nat
  BY <1>0, MgrType DEF CountTypes
<1>3. \A u \in Threads \ {t} : /\ Driving(u)' <=> Driving(u)
                               /\ Working(u)' <=> Working(u)
                               /\ \A e : Doing(u, e)' <=> Doing(u, e)
                               /\ SentOnTop(u)' = SentOnTop(u) /\ (RolledBack(u)' <=> RolledBack(u))
                               /\ Driving(u) => Credit(u)' = Credit(u)
  BY DEF Driving, Working, Doing, SentOnTop, RolledBack, Credit
<1>4. (Commands * Credit(t)) ' \in Nat /\ Credit(t)' \in Nat
  BY <1>0 DEF Credit
<1>5. ASSUME NEW u \in Threads, Working(u)'
      PROVE  sent'[Mgr(u)][th'[u].ev] <= Allowed(Mgr(u))' - Commands * Credit(u)' + SentOnTop(u)'
  <2>1. CASE u = t
    BY <1>5, <2>1
  <2>2. CASE u # t
    <3>1. Working(u) /\ Driving(u) /\ th'[u].ev = th[u].ev
      BY <1>3, <1>5, <2>2 DEF Working
    <3>2. th[u].ev \in Events /\ th[u].pc # "idle"
      BY <1>0, <3>1 DEF DriveShape, Working, Driving
    <3>3. sent'[Mgr(u)][th[u].ev] = sent[Mgr(u)][th[u].ev]
      BY <1>2, <2>2, <3>1, <3>2
    <3>4. sent[Mgr(u)][th[u].ev] <= Allowed(Mgr(u)) - Commands * Credit(u) + SentOnTop(u)
      BY <1>0, <3>1 DEF SentInv
    <3>5. Credit(u)' = Credit(u) /\ SentOnTop(u)' = SentOnTop(u) /\ Commands * Credit(u) \in Nat /\ SentOnTop(u) \in Nat
      <4>1. SentOnTop(u) \in Nat
        BY <1>0 DEF SentOnTop, DriveShape
      <4> QED
        BY <1>0, <1>3, <2>2, <3>1, <4>1 DEF Credit
    <3>6. sent[Mgr(u)][th[u].ev] <= Allowed(Mgr(u))' - Commands * Credit(u) + SentOnTop(u)
      BY <1>1, <1>2, <3>2, <3>4, <3>5
    <3> QED
      BY <3>1, <3>3, <3>5, <3>6
  <2> QED
    BY <2>1, <2>2
<1>6. ASSUME NEW m \in Managers, NEW e \in Events
      PROVE  /\ sent'[m][e] <= Allowed(m)' + Commands
             /\ Open(e)' => sent'[m][e] <= Allowed(m)' \/ \E u \in Threads : Mgr(u) = m /\ Doing(u, e)'
  <2>1. CASE m = Mgr(t) /\ Doing(t, e)'
    <3>1. Working(t)' /\ th'[t].ev = e
      BY <2>1 DEF Doing
    <3>2. sent'[m][e] <= Allowed(m)' - Commands * Credit(t)' + SentOnTop(t)' /\ SentOnTop(t)' \in 0 .. Commands
      BY <2>1, <3>1
    <3>3. sent'[m][e] <= Allowed(m)' + Commands
      BY <1>0, <1>1, <1>2, <1>4, <3>2
    <3> QED
      BY <2>1, <3>3
  <2>2. CASE ~ (m = Mgr(t) /\ Doing(t, e)')
    <3>1. sent'[m][e] = sent[m][e]
      BY <2>2
    <3>2. sent[m][e] <= Allowed(m) + Commands
      BY <1>0 DEF SentInv
    <3>3. ASSUME Open(e)', ~ \E u \in Threads : Mgr(u) = m /\ Doing(u, e)' PROVE sent'[m][e] <= Allowed(m)'
      <4>1. Open(e)
        BY <3>3
      <4>2. CASE sent[m][e] <= Allowed(m)
        BY <1>1, <1>2, <3>1, <4>2
      <4>3. CASE \E u \in Threads : Mgr(u) = m /\ Doing(u, e)
        <5>1. PICK u \in Threads : Mgr(u) = m /\ Doing(u, e)
          BY <4>3
        <5>2. u = t /\ Working(t) /\ ~ Doing(t, e)'
          BY <1>3, <3>3, <5>1 DEF Doing
        <5> QED
          BY <3>3, <5>1, <5>2
      <4> QED
        BY <1>0, <4>1, <4>2, <4>3 DEF SentInv
    <3> QED
      BY <1>0, <1>1, <1>2, <3>1, <3>2, <3>3
  <2> QED
    BY <2>1, <2>2
<1>7. SentInv'
  BY <1>5, <1>6 DEF SentInv
<1>8. ASSUME NEW u \in Threads, Driving(u)'
      PROVE  rollbacks'[Mgr(u)] <= Paid(Mgr(u))' - Credit(u)' + (IF RolledBack(u)' THEN 1 ELSE 0)
  <2>1. CASE u = t
    BY <1>8, <2>1
  <2>2. CASE u # t
    <3>1. Driving(u) /\ Credit(u)' = Credit(u) /\ (RolledBack(u)' <=> RolledBack(u)) /\ Credit(u) \in Nat
      BY <1>3, <1>8, <2>2 DEF Credit
    <3>2. rollbacks'[Mgr(u)] = rollbacks[Mgr(u)]
      BY <1>2, <2>2, <3>1
    <3>3. rollbacks[Mgr(u)] <= Paid(Mgr(u)) - Credit(u) + (IF RolledBack(u) THEN 1 ELSE 0)
      BY <1>0, <3>1 DEF RollInv
    <3> QED
      BY <1>1, <1>2, <3>1, <3>2, <3>3
  <2> QED
    BY <2>1, <2>2
<1>9. ASSUME NEW m \in Managers
      PROVE  /\ rollbacks'[m] <= Paid(m)' + 1
             /\ row'.status \notin Terminal =>
                  rollbacks'[m] <= Paid(m)' \/ \E u \in Threads : Mgr(u) = m /\ Driving(u)'
  <2>1. CASE m = Mgr(t) /\ Driving(t)'
    <3>1. rollbacks'[m] <= Paid(m)' - Credit(t)' + (IF RolledBack(t)' THEN 1 ELSE 0)
      BY <2>1
    <3>2. rollbacks'[m] <= Paid(m)' + 1
      BY <1>1, <1>2, <1>4, <3>1
    <3> QED
      BY <2>1, <3>2
  <2>2. CASE ~ (m = Mgr(t) /\ Driving(t)')
    <3>1. rollbacks'[m] = rollbacks[m]
      BY <2>2
    <3>2. rollbacks[m] <= Paid(m) + 1
      BY <1>0 DEF RollInv
    <3>3. ASSUME row'.status \notin Terminal, ~ \E u \in Threads : Mgr(u) = m /\ Driving(u)'
          PROVE  rollbacks'[m] <= Paid(m)'
      <4>1. row.status \notin Terminal
        BY <3>3
      <4>2. CASE rollbacks[m] <= Paid(m)
        BY <1>1, <1>2, <3>1, <4>2
      <4>3. CASE \E u \in Threads : Mgr(u) = m /\ Driving(u)
        <5>1. PICK u \in Threads : Mgr(u) = m /\ Driving(u)
          BY <4>3
        <5>2. u = t /\ ~ Driving(t)'
          BY <1>3, <3>3, <5>1
        <5> QED
          BY <3>3, <5>1, <5>2
      <4> QED
        BY <1>0, <4>1, <4>2, <4>3 DEF RollInv
    <3> QED
      BY <1>1, <1>2, <3>1, <3>2, <3>3
  <2> QED
    BY <2>1, <2>2
<1>10. RollInv'
  BY <1>8, <1>9 DEF RollInv
<1> QED
  BY <1>7, <1>10

(***************************************************************************)
(* A step of one thread that leaves the row's status, version and keys.    *)
(***************************************************************************)
StepFrame(t) ==
  /\ \A u \in Threads \ {t} : th'[u] = th[u]
  /\ row'.status = row.status /\ row'.version = row.version /\ row'.done = row.done
  /\ \A n \in Managers \ {Mgr(t)} : cache'[n] = cache[n]
  /\ cache' = cache \/ th[t].pc \in Holding
  /\ \A n \in Managers \ {t} : loop'[n] = loop[n]
  /\ t \in Managers /\ loop'[t] = "absent" => loop[t] = "absent"
  /\ \A m \in Managers : \E k \in {0, 1} : Paid(m)' = Paid(m) + k
  /\ \A m \in Managers :
       \/ lostRaces'[m] = lostRaces[m]
       \/ m = Mgr(t) /\ Driving(t) /\ th[t].saga.version # row.version
  /\ th'[t].pc # "idle" => th[t].pc # "idle" \/ t \notin Managers \/ loop[t] # "absent"
  /\ Driving(t)' => \/ th'[t].saga.version = row.version
                    \/ Driving(t) /\ th'[t].saga.version = th[t].saga.version
  /\ CountTypes' /\ DriveShape(t)' /\ KeysKept(t)'

LEMMA FrameFacts ==
  ASSUME SagaInv, Quiet, CountInv, NEW t \in Threads, StepFrame(t)
  PROVE  /\ \A u \in Threads : DriveShape(u)' /\ KeysKept(u)'
         /\ LoneInv'
<1>1. ASSUME NEW u \in Threads PROVE DriveShape(u)' /\ KeysKept(u)'
  <2>1. CASE u = t
    BY <2>1 DEF StepFrame
  <2>2. CASE u # t
    <3>1. th'[u] = th[u] /\ row'.version = row.version /\ row'.done = row.done /\ DriveShape(u) /\ KeysKept(u)
      BY <2>2 DEF StepFrame, CountInv
    <3>2. DriveShape(u)'
      BY <3>1 DEF DriveShape
    <3>3. ASSUME Driving(u), th[u].saga.version = row.version PROVE cache'[Mgr(u)] = cache[Mgr(u)]
      <4>1. CASE cache' = cache
        BY <4>1
      <4>2. CASE Mgr(u) # Mgr(t)
        BY <4>2, MgrType DEF StepFrame
      <4>3. CASE cache' # cache /\ Mgr(u) = Mgr(t)
        <5>1. th[t].pc \in Holding /\ row.status \notin Terminal /\ th[u].pc \in Holding
          BY <3>3, <4>3, LiveDrive DEF StepFrame
        <5> QED
          BY <2>2, <4>3, <5>1, Alone
      <4> QED
        BY <4>1, <4>2, <4>3
    <3>4. Driving(u)' <=> Driving(u)
      BY <3>1 DEF Driving
    <3>5. KeysKept(u)'
      <4>1. SUFFICES ASSUME Driving(u)', th'[u].saga.version = row'.version
                     PROVE  /\ \A x \in Events : HasKey(row'.done, x) => HasKey(cache'[Mgr(u)], x)
                            /\ th'[u].mode = "event" => ~ HasKey(cache'[Mgr(u)], th'[u].ev)
        BY DEF KeysKept
      <4>2. cache'[Mgr(u)] = cache[Mgr(u)] /\ Driving(u) /\ th[u].saga.version = row.version
        BY <3>1, <3>3, <3>4, <4>1
      <4> QED
        BY <3>1, <4>2 DEF KeysKept
    <3> QED
      BY <3>2, <3>5
  <2> QED
    BY <2>1, <2>2
<1>2. LoneInv'
  <2> SUFFICES ASSUME NEW m \in Managers, Lone(m)'
               PROVE  /\ lostRaces'[m] = 0
                      /\ \A u \in Threads : /\ Mgr(u) # m => th'[u].pc = "idle"
                                            /\ Driving(u)' => th'[u].saga.version = row'.version
    BY DEF LoneInv
  <2>1. Lone(m)
    <3>1. ASSUME NEW n \in Managers \ {m} PROVE loop[n] = "absent"
      BY DEF Lone, StepFrame
    <3> QED
      BY <3>1 DEF Lone
  <2>2. /\ lostRaces[m] = 0
        /\ \A u \in Threads : /\ Mgr(u) # m => th[u].pc = "idle"
                              /\ Driving(u) => th[u].saga.version = row.version
    BY <2>1 DEF CountInv, LoneInv
  <2>3. lostRaces'[m] = 0
    BY <2>2 DEF StepFrame
  <2>4. ASSUME NEW u \in Threads, Mgr(u) # m PROVE th'[u].pc = "idle"
    <3>1. u \in Managers /\ loop[u] = "absent"
      BY <2>1, <2>4 DEF Lone, Mgr, Threads
    <3> QED
      BY <2>2, <2>4, <3>1 DEF StepFrame
  <2>5. ASSUME NEW u \in Threads, Driving(u)' PROVE th'[u].saga.version = row'.version
    <3>1. CASE u = t
      BY <2>2, <2>5, <3>1 DEF StepFrame
    <3>2. CASE u # t
      <4>1. th'[u] = th[u] /\ Driving(u)
        BY <2>5, <3>2 DEF StepFrame, Driving
      <4> QED
        BY <2>2, <4>1 DEF StepFrame
    <3> QED
      BY <3>1, <3>2
  <2> QED
    BY <2>3, <2>4, <2>5
<1> QED
  BY <1>1, <1>2

LEMMA OwnCount ==
  ASSUME SagaInv, Quiet, CountInv, NEW t \in Threads, StepFrame(t), Account(t)
  PROVE  CountInv'
<1>1. \A u \in Threads \ {t} : th'[u] = th[u] /\ (Driving(u) => (Cancelled(u)' <=> Cancelled(u)))
  BY DEF StepFrame, Cancelled
<1>2. /\ \A m \in Managers : \E k \in {0, 1} : Paid(m)' = Paid(m) + k
      /\ row'.status \notin Terminal => row.status \notin Terminal
      /\ \A e \in Events : Open(e)' => Open(e)
      /\ CountTypes'
  BY DEF StepFrame, Open
<1>3. SentInv' /\ RollInv'
  BY <1>1, <1>2, AccountStep
<1> QED
  BY <1>2, <1>3, FrameFacts DEF CountInv

-----------------------------------------------------------------------------
(* Steps of each kind. *)

(* What a step does to the disturbances and to the lost races. *)
PaidStep ==
  /\ Disturbances' \in {Disturbances, Disturbances + 1}
  /\ \A m \in Managers : lostRaces'[m] \in {lostRaces[m], lostRaces[m] + 1}
  /\ Disturbances' = Disturbances \/ \A m \in Managers : lostRaces'[m] = lostRaces[m]

LEMMA PaidStepFacts ==
  ASSUME SagaInv, CountTypes, PaidStep, NEW m \in Managers
  PROVE  \E k \in {0, 1} : Paid(m)' = Paid(m) + k
<1>1. Disturbances \in Nat /\ lostRaces[m] \in Nat
  BY TakenFacts DEF CountTypes
<1>2. CASE Disturbances' = Disturbances /\ lostRaces'[m] = lostRaces[m]
  BY <1>1, <1>2 DEF Paid
<1>3. CASE Disturbances' = Disturbances /\ lostRaces'[m] = lostRaces[m] + 1
  BY <1>1, <1>3 DEF Paid
<1>4. CASE Disturbances' = Disturbances + 1 /\ lostRaces'[m] = lostRaces[m]
  BY <1>1, <1>4 DEF Paid
<1> QED
  BY <1>2, <1>3, <1>4 DEF PaidStep

LEMMA PaidStepKinds ==
  ASSUME SagaInv, UNCHANGED lostRaces,
         UNCHANGED budget \/ \E what \in {"call", "fail", "fault", "stop", "crash"} : Spend(what)
  PROVE  PaidStep
BY TakenFacts DEF PaidStep

(* The loop's own state: only its own stop changes, and it stays present. *)
LoopStep(t) ==
  /\ DOMAIN loop' = Managers
  /\ \A n \in Managers \ {t} : loop'[n] = loop[n]
  /\ t \in Managers /\ loop'[t] = "absent" => loop[t] = "absent"

LEMMA LoopStepFacts ==
  ASSUME CountTypes, NEW t \in Threads
  PROVE  /\ UNCHANGED loop => LoopStep(t)
         /\ \A c, e : LoopReturns(t, e, c) => LoopStep(t)
         /\ \A c : Return(t, c) => LoopStep(t)
<1>1. DOMAIN loop = Managers
  BY DEF CountTypes
<1>2. UNCHANGED loop => LoopStep(t)
  BY <1>1 DEF LoopStep
<1>3. ASSUME NEW c, NEW e, LoopReturns(t, e, c) PROVE LoopStep(t)
  BY <1>1, <1>2, <1>3 DEF LoopReturns, LoopStep
<1>4. ASSUME NEW c, Return(t, c) PROVE LoopStep(t)
  BY <1>2, <1>3, <1>4 DEF Return
<1> QED
  BY <1>2, <1>3, <1>4

LEMMA TypesStep ==
  ASSUME CountTypes, NEW t \in Threads, \A u \in Threads \ {t} : th'[u] = th[u],
         th'[t].pc # "evict", row'.done = row.done, cache' \in [Managers -> Keys], DOMAIN loop' = Managers,
         sent' \in [Managers -> [Events -> Nat]], rollbacks' \in [Managers -> Nat],
         lostRaces' \in [Managers -> Nat]
  PROVE  CountTypes'
BY DEF CountTypes

(* No drive begins, goes on or ends. *)
LEMMA AsideAccount ==
  ASSUME NEW t \in Threads, ~ Driving(t), ~ Driving(t)', UNCHANGED <<sent, rollbacks>>
  PROVE  Account(t)
<1>1. ~ Working(t) /\ ~ Working(t)' /\ sent' = sent /\ rollbacks' = rollbacks
  BY DEF Working
<1>2. \A m \in Managers, e \in Events : sent'[m][e] = sent[m][e]
  BY <1>1
<1>3. \A m \in Managers : rollbacks'[m] = rollbacks[m]
  BY <1>1
<1> QED
  BY <1>1, <1>2, <1>3, Zenon DEF Account

(* A drive comes to nothing: it was stopped, or this step pays for another. *)
LEMMA EndAccount ==
  ASSUME SagaInv, CountInv, NEW t \in Threads, StepFrame(t), ~ Driving(t)', UNCHANGED <<sent, rollbacks>>,
         Driving(t) => Cancelled(t) \/ Paid(Mgr(t))' = Paid(Mgr(t)) + 1
  PROVE  Account(t)
<1>1. CASE ~ Driving(t)
  BY <1>1, AsideAccount
<1>2. CASE Driving(t)
  <2>0. /\ Mgr(t) \in Managers /\ CountTypes /\ SentInv /\ RollInv /\ DriveShape(t) /\ Commands \in Nat
        /\ rollbacks[Mgr(t)] \in Nat
    BY MgrType, BoundsAssumption DEF CountInv, CountTypes
  <2>1. PICK k \in {0, 1} : Paid(Mgr(t))' = Paid(Mgr(t)) + k
    BY <2>0 DEF StepFrame
  <2>2. /\ Paid(Mgr(t)) \in Nat /\ Allowed(Mgr(t)) \in Nat
        /\ Allowed(Mgr(t))' = Allowed(Mgr(t)) + Commands * k /\ (Cancelled(t) \/ k = 1)
    BY <1>2, <2>0, <2>1, PaidFacts
  <2>3. ASSUME NEW e \in Events, Doing(t, e) PROVE sent[Mgr(t)][e] <= Allowed(Mgr(t))'
    <3>1. sent[Mgr(t)][e] \in Nat /\ Working(t) /\ th[t].ev = e /\ SentOnTop(t) \in 0 .. Commands
      BY <2>0, <2>3 DEF CountTypes, Doing, SentOnTop, DriveShape
    <3>2. /\ sent[Mgr(t)][e] <= Allowed(Mgr(t)) + Commands
          /\ sent[Mgr(t)][e] <= Allowed(Mgr(t)) - Commands * Credit(t) + SentOnTop(t)
      BY <2>0, <3>1 DEF SentInv
    <3>3. CASE k = 1
      BY <2>0, <2>2, <3>1, <3>2, <3>3
    <3>4. CASE k = 0 /\ Credit(t) = 1
      BY <2>0, <2>2, <3>1, <3>2, <3>4
    <3> QED
      BY <2>1, <2>2, <3>3, <3>4 DEF Credit
  <2>4. rollbacks[Mgr(t)] <= Paid(Mgr(t))'
    <3>1. /\ rollbacks[Mgr(t)] <= Paid(Mgr(t)) + 1
          /\ rollbacks[Mgr(t)] <= Paid(Mgr(t)) - Credit(t) + 1
      BY <1>2, <2>0, <2>2 DEF RollInv, Credit
    <3> QED
      BY <2>0, <2>1, <2>2, <3>1 DEF Credit
  <2>5. ~ Working(t)'
    BY DEF Working
  <2> QED
    BY <2>3, <2>4, <2>5 DEF Account
<1> QED
  BY <1>1, <1>2

(* A drive begins on a saga that has not settled and an open event. *)
LEMMA StartAccount ==
  ASSUME SagaInv, Quiet, CountInv, NEW t \in Threads, StepFrame(t), th[t].pc = "load", Driving(t)',
         ~ Cancelled(t)', UNCHANGED <<sent, rollbacks>>, row.status \notin Terminal,
         Working(t)' => Open(th'[t].ev)
  PROVE  Account(t)
<1>0. /\ Mgr(t) \in Managers /\ CountTypes /\ SentInv /\ RollInv /\ DriveShape(t)' /\ Commands \in Nat
      /\ ~ Driving(t) /\ th[t].pc \in Holding
  BY MgrType, BoundsAssumption DEF CountInv, CountTypes, Driving, Holding, StepFrame
<1>1. Unattended(t)
  BY <1>0, Alone DEF Unattended, Driving, Holding
<1>2. PICK k \in {0, 1} : Paid(Mgr(t))' = Paid(Mgr(t)) + k
  BY <1>0 DEF StepFrame
<1>3. /\ Paid(Mgr(t)) \in Nat /\ Allowed(Mgr(t)) \in Nat /\ Commands * k \in Nat
      /\ Allowed(Mgr(t))' = Allowed(Mgr(t)) + Commands * k
  BY <1>0, <1>2, PaidFacts
<1>4. ASSUME Working(t)'
      PROVE  /\ th'[t].ev \in Events /\ SentOnTop(t)' \in 0 .. Commands
             /\ sent[Mgr(t)][th'[t].ev] <= Allowed(Mgr(t))' - Commands * Credit(t)' + SentOnTop(t)'
  <2>1. th'[t].ev \in Events /\ SentOnTop(t)' \in 0 .. Commands
    BY <1>0, <1>4 DEF DriveShape, SentOnTop, Working, Driving
  <2>2. sent[Mgr(t)][th'[t].ev] <= Allowed(Mgr(t))
    <3>1. ~ \E u \in Threads : Mgr(u) = Mgr(t) /\ Doing(u, th'[t].ev)
      BY <1>0, <1>1 DEF Unattended, Doing, Working
    <3> QED
      BY <1>0, <1>4, <2>1, <3>1 DEF SentInv
  <2>3. Credit(t)' = 0 /\ sent[Mgr(t)][th'[t].ev] \in Nat
    BY <1>0, <2>1 DEF Credit, CountTypes
  <2> QED
    BY <1>0, <1>3, <2>1, <2>2, <2>3
<1>5. rollbacks[Mgr(t)] <= Paid(Mgr(t))' - Credit(t)' + (IF RolledBack(t)' THEN 1 ELSE 0)
  <2>1. rollbacks[Mgr(t)] <= Paid(Mgr(t)) /\ rollbacks[Mgr(t)] \in Nat
    BY <1>0, <1>1 DEF RollInv, Unattended, CountTypes
  <2>2. Credit(t)' = 0
    BY DEF Credit
  <2> QED
    BY <1>2, <1>3, <2>1, <2>2
<1>6. ~ Working(t)
  BY <1>0 DEF Working
<1> QED
  BY <1>0, <1>4, <1>5, <1>6 DEF Account

(* A call that returns or (re)loads, its drive unsaved or saved before. *)
LEMMA LeaveCount ==
  ASSUME SagaInv, Quiet, CountInv, NEW t \in Threads, th[t].pc # "idle", NEW r, th' = [th EXCEPT ![t] = r],
         r.pc \in {"idle", "load"}, r.pc = "load" => r.mode = th[t].mode /\ r.ev = th[t].ev,
         UNCHANGED <<row, sent, rollbacks>>, LoopStep(t), PaidStep, lostRaces' \in [Managers -> Nat],
         \A m \in Managers : \/ lostRaces'[m] = lostRaces[m]
                             \/ m = Mgr(t) /\ Driving(t) /\ th[t].saga.version # row.version,
         cache' \in [Managers -> Keys], \A n \in Managers \ {Mgr(t)} : cache'[n] = cache[n],
         cache' = cache \/ th[t].pc \in Holding,
         Driving(t) => Cancelled(t) \/ Paid(Mgr(t))' = Paid(Mgr(t)) + 1
  PROVE  CountInv'
<1>1. th'[t] = r /\ \A u \in Threads \ {t} : th'[u] = th[u]
  BY DEF SagaInv, ShapeInv
<1>2. th'[t].pc \in {"idle", "load"} /\ ~ Driving(t)' /\ th'[t].pc # "evict"
  BY <1>1 DEF Driving
<1>3. CountTypes /\ DriveShape(t)
  BY DEF CountInv
<1>4. CountTypes'
  <2>1. sent' \in [Managers -> [Events -> Nat]] /\ rollbacks' \in [Managers -> Nat]
        /\ row'.done = row.done /\ DOMAIN loop' = Managers
    BY <1>3 DEF CountTypes, LoopStep
  <2> QED
    BY <1>1, <1>2, <1>3, <2>1, TypesStep
<1>5. DriveShape(t)' /\ KeysKept(t)'
  BY <1>1, <1>2, <1>3 DEF DriveShape, KeysKept
<1>6. \A m \in Managers : \E k \in {0, 1} : Paid(m)' = Paid(m) + k
  BY <1>3, PaidStepFacts
<1>7. StepFrame(t)
  <2>1. row'.status = row.status /\ row'.version = row.version /\ row'.done = row.done
    OBVIOUS
  <2> QED
    BY <1>1, <1>2, <1>4, <1>5, <1>6, <2>1, Zenon DEF StepFrame, LoopStep
<1>8. Account(t)
  BY <1>2, <1>7, EndAccount
<1> QED
  BY <1>7, <1>8, OwnCount

(* Nobody moves, except one loop that is stopped, exits or starts again. *)
LEMMA LoopCount ==
  ASSUME SagaInv, Quiet, CountInv, NEW t \in Managers, UNCHANGED <<th, row, cache, sent, rollbacks, lostRaces>>,
         LoopStep(t), PaidStep,
         Cancelled(t)' => Cancelled(t) \/ Paid(t)' = Paid(t) + 1
  PROVE  CountInv'
<1>0. /\ t \in Threads /\ Mgr(t) = t /\ CountTypes /\ DriveShape(t) /\ KeysKept(t) /\ SentInv /\ RollInv
      /\ Commands \in Nat
  BY BoundsAssumption DEF Threads, Mgr, CountInv
<1>1. CountTypes'
  BY <1>0 DEF CountTypes, LoopStep
<1>2. DriveShape(t)' /\ KeysKept(t)' /\ (Driving(t)' <=> Driving(t))
  BY <1>0 DEF DriveShape, KeysKept, Driving
<1>3. \A m \in Managers : \E k \in {0, 1} : Paid(m)' = Paid(m) + k
  BY <1>0, PaidStepFacts
<1>4. StepFrame(t)
  BY <1>0, <1>1, <1>2, <1>3 DEF StepFrame, LoopStep
<1>5. PICK k \in {0, 1} : Paid(t)' = Paid(t) + k
  BY <1>3
<1>6. /\ Paid(t) \in Nat /\ Allowed(t) \in Nat /\ Commands * k \in Nat
      /\ Allowed(t)' = Allowed(t) + Commands * k
      /\ \/ Credit(t)' = 0
         \/ Credit(t)' = 1 /\ Credit(t) = 1
         \/ Credit(t)' = 1 /\ Credit(t) = 0 /\ k = 1
  <2>1. Paid(t) \in Nat /\ Allowed(t) \in Nat /\ Allowed(t)' = Allowed(t) + Commands * k /\ Commands * k \in Nat
    BY <1>0, <1>5, PaidFacts
  <2>2. Cancelled(t)' /\ ~ Cancelled(t) => k = 1
    BY <1>5, <2>1
  <2> QED
    BY <2>1, <2>2 DEF Credit
<1>7. Account(t)
  <2>1. (Working(t)' <=> Working(t)) /\ SentOnTop(t)' = SentOnTop(t) /\ (RolledBack(t)' <=> RolledBack(t))
        /\ \A e : Doing(t, e)' <=> Doing(t, e)
    BY <1>2 DEF Working, SentOnTop, RolledBack, Doing
  <2>2. ASSUME Working(t)
        PROVE  /\ th[t].ev \in Events /\ SentOnTop(t) \in 0 .. Commands
               /\ sent[t][th[t].ev] <= Allowed(t)' - Commands * Credit(t)' + SentOnTop(t)
    <3>1. th[t].ev \in Events /\ SentOnTop(t) \in 0 .. Commands
      BY <1>0, <2>2 DEF DriveShape, SentOnTop, Working, Driving
    <3>2. sent[t][th[t].ev] <= Allowed(t) - Commands * Credit(t) + SentOnTop(t) /\ sent[t][th[t].ev] \in Nat
      BY <1>0, <2>2, <3>1 DEF SentInv, CountTypes
    <3>3. Credit(t) \in {0, 1}
      BY DEF Credit
    <3>4. CASE Credit(t)' = 0
      BY <1>0, <1>6, <3>1, <3>2, <3>3, <3>4
    <3>5. CASE Credit(t)' = 1 /\ Credit(t) = 1
      BY <1>0, <1>6, <3>1, <3>2, <3>5
    <3>6. CASE Credit(t)' = 1 /\ Credit(t) = 0 /\ k = 1
      BY <1>0, <1>6, <3>1, <3>2, <3>6
    <3> QED
      BY <1>6, <3>1, <3>3, <3>4, <3>5, <3>6
  <2>3. ASSUME Driving(t)
        PROVE  rollbacks[t] <= Paid(t)' - Credit(t)' + (IF RolledBack(t) THEN 1 ELSE 0)
    <3>1. rollbacks[t] <= Paid(t) - Credit(t) + (IF RolledBack(t) THEN 1 ELSE 0) /\ rollbacks[t] \in Nat
      BY <1>0, <2>3 DEF RollInv, CountTypes
    <3>2. PICK r \in {0, 1} : r = IF RolledBack(t) THEN 1 ELSE 0
      OBVIOUS
    <3> QED
      BY <1>5, <1>6, <3>1, <3>2 DEF Credit
  <2> QED
    BY <1>0, <1>2, <2>1, <2>2, <2>3 DEF Account
<1> QED
  BY <1>0, <1>4, <1>7, OwnCount

(* Nothing moves at all, or the row only grows older. *)
LEMMA StillCount ==
  ASSUME CountInv, UNCHANGED <<th, cache, loop, budget, sent, rollbacks, lostRaces>>,
         row'.status = row.status, row'.version = row.version, row'.done = row.done
  PROVE  CountInv'
<1>1. Disturbances' = Disturbances
  BY DEF Disturbances
<1>2. \A m : Paid(m)' = Paid(m) /\ Allowed(m)' = Allowed(m) /\ (Lone(m)' <=> Lone(m))
  BY <1>1 DEF Paid, Allowed, Lone
<1>3. \A t : /\ Driving(t)' <=> Driving(t)
             /\ Working(t)' <=> Working(t)
             /\ RolledBack(t)' <=> RolledBack(t)
             /\ Credit(t)' = Credit(t) /\ SentOnTop(t)' = SentOnTop(t)
             /\ \A e : Doing(t, e)' <=> Doing(t, e)
  BY DEF Driving, Working, RolledBack, Credit, Cancelled, SentOnTop, Doing
<1>4. \A e : Open(e)' <=> Open(e)
  BY DEF Open
<1>5. CountTypes' /\ \A t \in Threads : DriveShape(t)' /\ KeysKept(t)'
  BY <1>3 DEF CountInv, CountTypes, DriveShape, KeysKept
<1>6. SentInv'
  BY <1>2, <1>3, <1>4 DEF CountInv, SentInv
<1>7. RollInv'
  BY <1>2, <1>3 DEF CountInv, RollInv
<1>8. LoneInv'
  BY <1>2, <1>3 DEF CountInv, LoneInv
<1> QED
  BY <1>5, <1>6, <1>7, <1>8 DEF CountInv

(* getSagaLock and the wait for the mutex. *)
LEMMA EnterCount ==
  ASSUME SagaInv, Quiet, CountInv, NEW t \in Threads, th[t].pc = "idle", NEW mode, NEW e, EnterLock(t, mode, e),
         mode = "event" => e \in Events, UNCHANGED <<row, loop, sent, rollbacks, lostRaces>>, PaidStep,
         t \in Callers \/ loop[t] = "running"
  PROVE  CountInv'
<1>1. /\ th'[t].pc = "lock" /\ th'[t].mode = mode /\ th'[t].ev = e /\ cache' = cache
      /\ \A u \in Threads \ {t} : th'[u] = th[u]
  BY DEF SagaInv, ShapeInv, EnterLock, Idle
<1>2. ~ Driving(t) /\ ~ Driving(t)'
  BY <1>1 DEF Driving
<1>3. CountTypes
  BY DEF CountInv
<1>4. CountTypes'
  BY <1>1, <1>3 DEF CountTypes
<1>5. DriveShape(t)' /\ KeysKept(t)'
  BY <1>1, <1>2 DEF DriveShape, KeysKept
<1>6. \A m \in Managers : \E k \in {0, 1} : Paid(m)' = Paid(m) + k
  BY <1>3, PaidStepFacts
<1>7. t \notin Managers \/ loop[t] # "absent"
  BY ThreadsAssumption
<1>8. StepFrame(t)
  <2>1. row'.status = row.status /\ row'.version = row.version /\ row'.done = row.done /\ loop' = loop
        /\ lostRaces' = lostRaces
    OBVIOUS
  <2> QED
    BY <1>1, <1>2, <1>4, <1>5, <1>6, <1>7, <2>1, Zenon DEF StepFrame
<1>9. Account(t)
  BY <1>2, AsideAccount
<1> QED
  BY <1>8, <1>9, OwnCount

(* The thread of a step that changes some of its fields. *)
LEMMA MovedThread ==
  ASSUME SagaInv, NEW t \in Threads, NEW r, th' = [th EXCEPT ![t] = r]
  PROVE  th'[t] = r /\ \A u \in Threads \ {t} : th'[u] = th[u]
BY DEF SagaInv, ShapeInv

(* A drive begins, with the keys the row or the cache has. *)
LEMMA StartCount ==
  ASSUME SagaInv, Quiet, CountInv, NEW t \in Threads, th[t].pc = "load", ~ Cancelled(t),
         NEW e, NEW captured, NEW status, NEW pc, StartDrive(t, e, captured, status, pc),
         row.status \notin Terminal, cache' = [cache EXCEPT ![Mgr(t)] = Hydrated(Mgr(t))],
         UNCHANGED <<row, loop, budget, sent, rollbacks, lostRaces>>,
         \/ /\ th[t].mode = "event" /\ pc = "dispatch" /\ status = "running"
            /\ e \in Events /\ ~ HasKey(Hydrated(Mgr(t)), e)
         \/ th[t].mode = "sweep" /\ pc = "compensate" /\ status = "compensating"
  PROVE  CountInv'
<1>0. /\ Mgr(t) \in Managers /\ CountTypes /\ Commands \in Nat \ {0} /\ th[t].pc \in Holding /\ DOMAIN th = Threads
      /\ DOMAIN th[t] = {"pc", "mode", "ev", "mtx", "saga", "k", "try", "keys"}
  BY MgrType, BoundsAssumption DEF CountInv, Holding, SagaInv, ShapeInv, ThreadShape
<1>1. PICK r : r = [th[t] EXCEPT !.pc = pc, !.ev = e, !.k = 0,
                      !.saga = [status |-> status, version |-> row.version, step |-> row.step,
                                captured |-> captured]]
  OBVIOUS
<1>2. th' = [th EXCEPT ![t] = r]
  BY <1>0, <1>1 DEF StartDrive
<1>3. r.pc = pc /\ r.ev = e /\ r.k = 0 /\ r.mode = th[t].mode /\ r.saga.status = status /\ r.saga.version = row.version
  BY <1>0, <1>1
<1>4. th'[t] = r /\ \A u \in Threads \ {t} : th'[u] = th[u]
  BY <1>2, MovedThread
<1>5. PICK h \in Keys : h = Hydrated(Mgr(t)) /\ \A x \in Events : HasKey(row.done, x) => HasKey(h, x)
  BY <1>0, HydratedFacts
<1>6. cache \in [Managers -> Keys] /\ cache' = [cache EXCEPT ![Mgr(t)] = h]
  BY <1>0, <1>5 DEF CountTypes
<1>7. cache' \in [Managers -> Keys] /\ cache'[Mgr(t)] = h /\ \A n \in Managers \ {Mgr(t)} : cache'[n] = cache[n]
  BY <1>0, <1>6
<1>8. CountTypes'
  <2>1. /\ sent' \in [Managers -> [Events -> Nat]] /\ rollbacks' \in [Managers -> Nat]
        /\ lostRaces' \in [Managers -> Nat] /\ row'.done = row.done /\ DOMAIN loop' = Managers
    BY <1>0 DEF CountTypes
  <2>2. th'[t].pc # "evict"
    BY <1>3, <1>4
  <2> QED
    BY <1>0, <1>4, <1>7, <2>1, <2>2, TypesStep
<1>9. DriveShape(t)'
  BY <1>0, <1>3, <1>4 DEF DriveShape
<1>10. KeysKept(t)'
  BY <1>3, <1>4, <1>5, <1>7 DEF KeysKept
<1>11. \A m \in Managers : \E k \in {0, 1} : Paid(m)' = Paid(m) + k
  <2>1. PaidStep
    BY PaidStepKinds
  <2> QED
    BY <1>0, <2>1, PaidStepFacts
<1>12. StepFrame(t)
  <2>1. row'.status = row.status /\ row'.version = row.version /\ row'.done = row.done /\ loop' = loop
        /\ lostRaces' = lostRaces
    OBVIOUS
  <2> QED
    BY <1>0, <1>3, <1>4, <1>7, <1>8, <1>9, <1>10, <1>11, <2>1 DEF StepFrame
<1>13. Driving(t)' /\ ~ Cancelled(t)'
  BY <1>3, <1>4 DEF Driving, Cancelled
<1>14. ASSUME Working(t)' PROVE Open(th'[t].ev)
  BY <1>3, <1>4, <1>5, <1>14 DEF Open, Working
<1>15. Account(t)
  BY <1>12, <1>13, <1>14, StartAccount
<1> QED
  BY <1>12, <1>15, OwnCount

(* A drive goes on: what a step of it may do to the row's keys and to time. *)
LEMMA DrivesOn ==
  ASSUME SagaInv, Quiet, CountInv, NEW t \in Threads, NEW r, th' = [th EXCEPT ![t] = r], Driving(t),
         r.pc \in {"dispatch", "compensate", "save"}, r.mode = th[t].mode, r.ev = th[t].ev,
         r.saga.version = th[t].saga.version, UNCHANGED <<row, cache, loop, lostRaces>>, PaidStep,
         sent' \in [Managers -> [Events -> Nat]], rollbacks' \in [Managers -> Nat], DriveShape(t)'
  PROVE  /\ StepFrame(t) /\ th'[t] = r /\ Driving(t)' /\ Unattended(t) /\ Credit(t)' = Credit(t)
         /\ Working(t)' <=> Working(t)
         /\ \A e : Doing(t, e)' <=> Doing(t, e)
<1>1. th'[t] = r /\ \A u \in Threads \ {t} : th'[u] = th[u]
  BY MovedThread
<1>2. CountTypes /\ KeysKept(t)
  BY DEF CountInv
<1>3. CountTypes'
  <2>1. lostRaces' \in [Managers -> Nat] /\ row'.done = row.done /\ DOMAIN loop' = Managers
        /\ cache' \in [Managers -> Keys]
    BY <1>2 DEF CountTypes
  <2>2. th'[t].pc # "evict"
    BY <1>1
  <2> QED
    BY <1>1, <1>2, <2>1, <2>2, TypesStep
<1>4. Driving(t)' /\ KeysKept(t)'
  BY <1>1, <1>2 DEF KeysKept, Driving
<1>5. \A m \in Managers : \E k \in {0, 1} : Paid(m)' = Paid(m) + k
  BY <1>2, PaidStepFacts
<1>6. StepFrame(t)
  <2>1. th[t].pc # "idle"
    BY DEF Driving
  <2> QED
    BY <1>1, <1>3, <1>4, <1>5, <2>1 DEF StepFrame
<1>7. Unattended(t)
  BY DEF Unattended, SagaInv, QuietInv, OneDriver
<1>8. Credit(t)' = Credit(t) /\ (Working(t)' <=> Working(t)) /\ \A e : Doing(t, e)' <=> Doing(t, e)
  BY <1>1, <1>4 DEF Credit, Cancelled, Working, Doing
<1> QED
  BY <1>1, <1>4, <1>6, <1>7, <1>8

(* The next command of a drive goes out. *)
LEMMA DispatchCount ==
  ASSUME SagaInv, Quiet, CountInv, NEW t \in Threads, Dispatch(t)
  PROVE  CountInv'
<1>0. /\ Mgr(t) \in Managers /\ CountTypes /\ Commands \in Nat \ {0} /\ DOMAIN th = Threads /\ DriveShape(t)
      /\ DOMAIN th[t] = {"pc", "mode", "ev", "mtx", "saga", "k", "try", "keys"}
      /\ DOMAIN th[t].saga = {"status", "version", "step", "captured"} /\ SentInv /\ RollInv
  BY MgrType, BoundsAssumption DEF CountInv, SagaInv, ShapeInv, ThreadShape
<1>1. /\ th[t].pc = "dispatch" /\ sent' = [sent EXCEPT ![Mgr(t)][th[t].ev] = @ + 1]
      /\ UNCHANGED <<row, cache, loop, budget, rollbacks, lostRaces>>
  BY DEF Dispatch, managerVars, loopVars
<1>2. Driving(t) /\ Working(t) /\ th[t].mode = "event" /\ th[t].ev \in Events /\ th[t].k \in 0 .. Commands - 1
      /\ th[t].saga.status = "running"
  BY <1>0, <1>1 DEF DriveShape, Driving, Working
<1>3. PICK r : r = [th[t] EXCEPT
              !.k = @ + 1, !.pc = IF th[t].k + 1 = Commands THEN "save" ELSE @, !.saga.step = @ + 1,
              !.saga.status = IF th[t].k + 1 = Commands /\ th[t].ev = LastEvent THEN "completed" ELSE @]
  OBVIOUS
<1>4. th' = [th EXCEPT ![t] = r]
  BY <1>0, <1>3 DEF Dispatch
<1>5. /\ r.pc = (IF th[t].k + 1 = Commands THEN "save" ELSE "dispatch") /\ r.k = th[t].k + 1
      /\ r.mode = th[t].mode /\ r.ev = th[t].ev
  BY <1>0, <1>1, <1>3
<1>6. /\ r.saga.version = th[t].saga.version
      /\ r.saga.status \in {"running", "completed"} /\ (r.pc = "dispatch" => r.saga.status = "running")
  BY <1>0, <1>2, <1>3
<1>7. th'[t] = r
  BY <1>4, MovedThread
<1>8. DriveShape(t)'
  <2>1. r.pc = "dispatch" => r.k \in 0 .. Commands - 1
    BY <1>0, <1>2, <1>5
  <2> QED
    BY <1>2, <1>5, <1>6, <1>7, <2>1 DEF DriveShape, Terminal
<1>9. PICK m \in Managers, e \in Events : m = Mgr(t) /\ e = th[t].ev
  BY <1>0, <1>2
<1>10. /\ sent' \in [Managers -> [Events -> Nat]] /\ sent'[m][e] = sent[m][e] + 1 /\ sent[m][e] \in Nat
       /\ \A n \in Managers, x \in Events : sent'[n][x] = sent[n][x] \/ (n = m /\ x = e)
  <2>1. sent \in [Managers -> [Events -> Nat]] /\ sent' = [sent EXCEPT ![m][e] = @ + 1]
    BY <1>0, <1>1, <1>9 DEF CountTypes
  <2> QED
    BY <2>1
<1>11. PaidStep /\ rollbacks' \in [Managers -> Nat] /\ Disturbances' = Disturbances
  BY <1>0, <1>1, PaidStepKinds DEF CountTypes, Disturbances
<1>12. /\ StepFrame(t) /\ Driving(t)' /\ Unattended(t) /\ Credit(t)' = Credit(t)
       /\ Working(t)' <=> Working(t)
       /\ \A x : Doing(t, x)' <=> Doing(t, x)
  BY <1>1, <1>2, <1>4, <1>5, <1>6, <1>8, <1>10, <1>11, DrivesOn
<1>13. Paid(m)' = Paid(m) /\ Allowed(m)' = Allowed(m) /\ Paid(m) \in Nat /\ Allowed(m) \in Nat
  BY <1>0, <1>1, <1>11, PaidFacts DEF Paid, Allowed
<1>14. SentOnTop(t)' = SentOnTop(t) + 1 /\ SentOnTop(t) \in Nat /\ SentOnTop(t)' \in 0 .. Commands
  BY <1>0, <1>1, <1>2, <1>5, <1>7 DEF SentOnTop
<1>15. sent'[m][e] <= Allowed(m)' - Commands * Credit(t)' + SentOnTop(t)'
  <2>1. sent[m][e] <= Allowed(m) - Commands * Credit(t) + SentOnTop(t)
    BY <1>0, <1>2, <1>9 DEF SentInv
  <2>2. Commands * Credit(t) \in Nat
    BY <1>0 DEF Credit
  <2>3. PICK c \in Nat : c = Commands * Credit(t) /\ c = Commands * Credit(t)'
    BY <1>12, <2>2
  <2> QED
    BY <1>10, <1>13, <1>14, <2>1, <2>3
<1>16. rollbacks'[m] <= Paid(m)' - Credit(t)' + (IF RolledBack(t)' THEN 1 ELSE 0)
  <2>1. ~ RolledBack(t)
    BY <1>1 DEF RolledBack
  <2>2. rollbacks[m] <= Paid(m) - Credit(t) /\ rollbacks[m] \in Nat /\ Credit(t) \in Nat
    BY <1>0, <1>2, <1>9, <1>13, <2>1 DEF RollInv, CountTypes, Credit
  <2>3. rollbacks'[m] <= Paid(m)' - Credit(t)'
    BY <1>1, <1>12, <1>13, <2>2
  <2> QED
    BY <1>1, <1>12, <1>13, <2>2, <2>3
<1>17. Account(t)
  <2>1. \A n \in Managers, x \in Events : \/ sent'[n][x] = sent[n][x]
                                          \/ n = Mgr(t) /\ Doing(t, x)' /\ Unattended(t)
    BY <1>2, <1>9, <1>10, <1>12 DEF Doing
  <2>2. \A n \in Managers : rollbacks'[n] = rollbacks[n]
    BY <1>1
  <2>3. th'[t].ev = e
    BY <1>5, <1>7, <1>9
  <2> QED
    BY <1>9, <1>12, <1>14, <1>15, <1>16, <2>1, <2>2, <2>3 DEF Account
<1> QED
  BY <1>12, <1>17, OwnCount

(* A drive turns to its compensation, or settles on what came of it. *)
LEMMA SettleCount ==
  ASSUME SagaInv, Quiet, CountInv, NEW t \in Threads, NEW pc, NEW status,
         th' = [th EXCEPT ![t].pc = pc, ![t].saga.status = status],
         UNCHANGED <<row, cache, loop, sent, lostRaces>>, Disturbances' = Disturbances,
         \/ /\ th[t].pc = "dispatch" /\ pc = "compensate" /\ status = "compensating" /\ UNCHANGED rollbacks
         \/ /\ th[t].pc = "compensate" /\ pc = "save" /\ status = "failed" /\ UNCHANGED rollbacks
         \/ /\ th[t].pc = "compensate" /\ pc = "save" /\ status \in {"compensated", "compensation_failed"}
            /\ rollbacks' = [rollbacks EXCEPT ![Mgr(t)] = @ + 1]
  PROVE  CountInv'
<1>0. /\ Mgr(t) \in Managers /\ CountTypes /\ Commands \in Nat \ {0} /\ DOMAIN th = Threads /\ DriveShape(t)
      /\ DOMAIN th[t] = {"pc", "mode", "ev", "mtx", "saga", "k", "try", "keys"}
      /\ DOMAIN th[t].saga = {"status", "version", "step", "captured"} /\ SentInv /\ RollInv
  BY MgrType, BoundsAssumption DEF CountInv, SagaInv, ShapeInv, ThreadShape
<1>1. PICK r : r = [th[t] EXCEPT !.pc = pc, !.saga.status = status]
  OBVIOUS
<1>2. th' = [th EXCEPT ![t] = r]
  BY <1>0, <1>1
<1>3. r.pc = pc /\ r.mode = th[t].mode /\ r.ev = th[t].ev /\ r.saga.version = th[t].saga.version /\ r.saga.status = status
  BY <1>0, <1>1
<1>4. th'[t] = r
  BY <1>2, MovedThread
<1>5. Driving(t) /\ ~ RolledBack(t)
  BY DEF Driving, RolledBack
<1>6. DriveShape(t)'
  BY <1>0, <1>3, <1>4 DEF DriveShape, Terminal, Retryable
<1>7. PICK m \in Managers : m = Mgr(t)
  BY <1>0
<1>8. PICK b \in {0, 1} : /\ b = 1 <=> (pc = "save" /\ status \in {"compensated", "compensation_failed"})
                          /\ rollbacks' = [rollbacks EXCEPT ![m] = @ + b]
  <2>1. rollbacks \in [Managers -> Nat]
    BY <1>0 DEF CountTypes
  <2>2. CASE UNCHANGED rollbacks /\ ~ (pc = "save" /\ status \in {"compensated", "compensation_failed"})
    BY <1>7, <2>1, <2>2
  <2>3. CASE rollbacks' = [rollbacks EXCEPT ![m] = @ + 1] /\ pc = "save" /\ status \in {"compensated", "compensation_failed"}
    BY <2>3
  <2> QED
    BY <1>7, <2>2, <2>3
<1>9. /\ rollbacks' \in [Managers -> Nat] /\ rollbacks'[m] = rollbacks[m] + b /\ rollbacks[m] \in Nat
      /\ \A n \in Managers \ {m} : rollbacks'[n] = rollbacks[n]
  <2>1. rollbacks \in [Managers -> Nat]
    BY <1>0 DEF CountTypes
  <2> QED
    BY <1>8, <2>1
<1>10. PaidStep /\ sent' \in [Managers -> [Events -> Nat]]
  BY <1>0 DEF CountTypes, PaidStep
<1>11. /\ StepFrame(t) /\ Driving(t)' /\ Unattended(t) /\ Credit(t)' = Credit(t)
       /\ Working(t)' <=> Working(t)
       /\ \A x : Doing(t, x)' <=> Doing(t, x)
  BY <1>2, <1>3, <1>5, <1>6, <1>9, <1>10, DrivesOn
<1>12. Paid(m)' = Paid(m) /\ Allowed(m)' = Allowed(m) /\ Paid(m) \in Nat /\ Allowed(m) \in Nat
  BY <1>0, PaidFacts DEF Paid, Allowed
<1>13. SentOnTop(t)' = Commands /\ SentOnTop(t) \in 0 .. Commands
  BY <1>0, <1>3, <1>4 DEF SentOnTop, DriveShape
<1>14. ASSUME Working(t)
       PROVE  /\ th'[t].ev \in Events /\ SentOnTop(t)' \in 0 .. Commands
              /\ sent'[m][th'[t].ev] <= Allowed(m)' - Commands * Credit(t)' + SentOnTop(t)'
  <2>1. th'[t].ev = th[t].ev /\ th[t].ev \in Events
    BY <1>0, <1>3, <1>4, <1>14 DEF DriveShape, Working, Driving
  <2>2. sent[m][th[t].ev] <= Allowed(m) - Commands * Credit(t) + SentOnTop(t) /\ sent[m][th[t].ev] \in Nat
    BY <1>0, <1>7, <1>14, <2>1 DEF SentInv, CountTypes
  <2>3. Commands * Credit(t) \in Nat
    BY <1>0 DEF Credit
  <2>4. PICK c \in Nat : c = Commands * Credit(t) /\ c = Commands * Credit(t)'
    BY <1>11, <2>3
  <2>5. sent[m][th[t].ev] <= Allowed(m)' - c + SentOnTop(t)'
    BY <1>0, <1>12, <1>13, <2>2, <2>4
  <2> QED
    BY <1>0, <1>13, <2>1, <2>4, <2>5
<1>15. rollbacks'[m] <= Paid(m)' - Credit(t)' + (IF RolledBack(t)' THEN 1 ELSE 0)
  <2>1. RolledBack(t)' <=> b = 1
    BY <1>3, <1>4, <1>8 DEF RolledBack
  <2>2. rollbacks[m] <= Paid(m) - Credit(t) /\ Credit(t) \in Nat
    BY <1>0, <1>5, <1>7, <1>12 DEF RollInv, Credit
  <2>3. rollbacks'[m] <= Paid(m)' - Credit(t)' + b
    BY <1>9, <1>11, <1>12, <2>2
  <2> QED
    BY <2>1, <2>3
<1>16. Account(t)
  BY <1>7, <1>9, <1>11, <1>14, <1>15 DEF Account
<1> QED
  BY <1>11, <1>16, OwnCount

(***************************************************************************)
(* The store accepts a save: the keys of the row are kept, and the event   *)
(* that was driven is closed, by its own key or by the settled row.        *)
(***************************************************************************)
LEMMA SavedKeysFacts ==
  ASSUME SagaInv, Quiet, Tracked, CountInv, NEW t \in Threads, Save(t)
  PROVE  /\ SavedKeys(t) \in Keys
         /\ \A x \in Events : HasKey(row.done, x) => HasKey(SavedKeys(t), x)
         /\ th[t].saga.status \notin Terminal =>
              th[t].saga.status = "running" /\ HasKey(SavedKeys(t), th[t].ev)
<1>0. /\ th[t].pc = "save" /\ th[t].saga.version = row.version /\ Driving(t) /\ DriveShape(t) /\ KeysKept(t)
      /\ Mgr(t) \in Managers /\ th[t].mode \in {"event", "sweep"}
  BY MgrType DEF Save, Driving, CountInv, SagaInv, QuietInv
<1>1. PICK c \in Keys : c = cache[Mgr(t)]
  BY <1>0 DEF CountInv, CountTypes
<1>2. /\ \A x \in Events : HasKey(row.done, x) => HasKey(c, x)
      /\ th[t].mode = "event" => ~ HasKey(c, th[t].ev)
  BY <1>0, <1>1 DEF KeysKept
<1>3. CASE th[t].saga.status \in {"running", "completed"}
  <2>1. th[t].mode = "event" /\ th[t].ev \in Events
    BY <1>0, <1>3 DEF DriveShape, Retryable, Terminal
  <2>2. SavedKeys(t) = Trim(c \o <<th[t].ev>>)
    BY <1>1, <1>3 DEF SavedKeys
  <2>3. /\ Trim(c \o <<th[t].ev>>) \in Keys /\ HasKey(Trim(c \o <<th[t].ev>>), th[t].ev)
        /\ \A x \in Events : HasKey(c, x) => HasKey(Trim(c \o <<th[t].ev>>), x)
    BY <1>2, <2>1, SavedFacts
  <2>4. th[t].saga.status \notin Terminal => th[t].saga.status = "running"
    BY <1>3 DEF Terminal
  <2> QED
    BY <1>2, <2>2, <2>3, <2>4, Zenon
<1>4. CASE th[t].saga.status \notin {"running", "completed"}
  <2>1. SavedKeys(t) = Trim(c \o <<>>)
    BY <1>1, <1>4 DEF SavedKeys
  <2>2. SavedKeys(t) = c
    BY <2>1, CarriedFacts
  <2>3. th[t].saga.status \in Terminal
    BY <1>0, <1>4 DEF DriveShape
  <2> QED
    BY <1>2, <2>2, <2>3
<1> QED
  BY <1>3, <1>4

LEMMA SaveCount ==
  ASSUME SagaInv, Quiet, Tracked, CountInv, NEW t \in Threads, Save(t)
  PROVE  CountInv'
<1>0. /\ th[t].pc = "save" /\ th[t].saga.version = row.version /\ Driving(t) /\ DriveShape(t) /\ Mgr(t) \in Managers
      /\ CountTypes /\ SentInv /\ RollInv /\ LoneInv /\ Settled /\ OneDriver /\ row.version \in Nat
      /\ UNCHANGED <<cache, loop, budget, sent, rollbacks, lostRaces>>
      /\ \A u \in Threads : th[u].saga.version \in Nat
  BY MgrType DEF Save, Driving, CountInv, SagaInv, QuietInv, ShapeInv, ThreadShape, managerVars, loopVars, history, effects
<1>1. row.status \notin Terminal
  BY <1>0 DEF Settled
<1>2. /\ row'.status = th[t].saga.status /\ row'.version = row.version + 1 /\ row'.done = SavedKeys(t)
  BY DEF Save
<1>3. /\ th'[t].pc = "evict" /\ th'[t].keys = SavedKeys(t) /\ th'[t].mode = th[t].mode /\ th'[t].ev = th[t].ev
      /\ \A u \in Threads \ {t} : th'[u] = th[u]
  <2>1. /\ DOMAIN th = Threads /\ DOMAIN th[t] = {"pc", "mode", "ev", "mtx", "saga", "k", "try", "keys"}
        /\ th' = [th EXCEPT ![t].pc = "evict", ![t].keys = SavedKeys(t)]
    BY DEF Save, SagaInv, ShapeInv, ThreadShape
  <2> QED
    BY <2>1
<1>4. PICK keys \in Keys : /\ keys = SavedKeys(t)
                           /\ \A x \in Events : HasKey(row.done, x) => HasKey(keys, x)
                           /\ th[t].saga.status \notin Terminal =>
                                th[t].saga.status = "running" /\ HasKey(keys, th[t].ev)
  BY SavedKeysFacts
<1>5. CountTypes'
  <2>1. row'.done \in Keys /\ \A u \in Threads : th'[u].pc = "evict" => th'[u].keys \in Keys
    BY <1>0, <1>2, <1>3, <1>4 DEF CountTypes
  <2> QED
    BY <1>0, <2>1 DEF CountTypes
<1>6. ~ Driving(t)' /\ ~ Working(t)' /\ \A e : ~ Doing(t, e)'
  BY <1>3 DEF Driving, Working, Doing
<1>7. ASSUME NEW u \in Threads, Driving(u)'
      PROVE  u # t /\ Driving(u) /\ th'[u] = th[u] /\ th[u].saga.version # row'.version /\ Mgr(u) # Mgr(t)
  <2>1. u # t /\ th'[u] = th[u] /\ Driving(u)
    BY <1>3, <1>6, <1>7 DEF Driving
  <2>2. th[u].saga.version <= row.version /\ th[u].saga.version \in Nat
    BY <1>0, <2>1 DEF Settled
  <2>3. Mgr(u) # Mgr(t)
    BY <1>0, <2>1 DEF OneDriver
  <2> QED
    BY <1>0, <1>2, <2>1, <2>2, <2>3
<1>8. \A u \in Threads : DriveShape(u)' /\ KeysKept(u)'
  <2>1. ASSUME NEW u \in Threads PROVE KeysKept(u)'
    BY <1>7 DEF KeysKept
  <2>2. DriveShape(t)'
    BY <1>0, <1>3 DEF DriveShape
  <2>3. ASSUME NEW u \in Threads \ {t} PROVE DriveShape(u)'
    BY <1>3 DEF DriveShape, CountInv
  <2> QED
    BY <2>1, <2>2, <2>3
<1>9. Disturbances' = Disturbances /\ \A m \in Managers : Paid(m)' = Paid(m) /\ Paid(m) \in Nat /\ Allowed(m)' = Allowed(m)
  <2>1. Disturbances' = Disturbances
    BY <1>0, TakenFacts
  <2> QED
    BY <1>0, <2>1, PaidFacts DEF Paid, Allowed
<1>10. \A m \in Managers : \E k \in {0, 1} : Paid(m)' = Paid(m) + k
  BY <1>9
<1>11. \A u \in Threads \ {t} : th'[u] = th[u] /\ (Driving(u) => (Cancelled(u)' <=> Cancelled(u)))
  BY <1>0, <1>3 DEF Cancelled
<1>12. /\ row'.status \notin Terminal => row.status \notin Terminal
       /\ \A e \in Events : Open(e)' => Open(e)
  BY <1>1, <1>2, <1>4 DEF Open
<1>13. Account(t)
  <2>1. ASSUME NEW e \in Events, Doing(t, e) PROVE ~ Open(e)'
    BY <1>2, <1>4, <2>1 DEF Open, Doing
  <2>2. row'.status \in Terminal \/ rollbacks'[Mgr(t)] <= Paid(Mgr(t))'
    <3>1. ASSUME row'.status \notin Terminal PROVE rollbacks[Mgr(t)] <= Paid(Mgr(t))
      <4>1. ~ RolledBack(t)
        BY <1>2, <1>4, <3>1 DEF RolledBack
      <4>2. rollbacks[Mgr(t)] <= Paid(Mgr(t)) - Credit(t) /\ rollbacks[Mgr(t)] \in Nat
            /\ Credit(t) \in Nat /\ Paid(Mgr(t)) \in Nat
        BY <1>0, <1>9, <4>1 DEF RollInv, CountTypes, Credit
      <4> QED
        BY <4>2
    <3> QED
      BY <1>0, <1>9, <3>1
  <2> QED
    BY <1>0, <1>6, <2>1, <2>2 DEF Account
<1>14. SentInv' /\ RollInv'
  BY <1>5, <1>10, <1>11, <1>12, <1>13, AccountStep
<1>15. LoneInv'
  <2> SUFFICES ASSUME NEW m \in Managers, Lone(m)'
               PROVE  /\ lostRaces'[m] = 0
                      /\ \A u \in Threads : /\ Mgr(u) # m => th'[u].pc = "idle"
                                            /\ Driving(u)' => th'[u].saga.version = row'.version
    BY DEF LoneInv
  <2>1. Lone(m)
    BY <1>0 DEF Lone
  <2>2. lostRaces[m] = 0 /\ \A u \in Threads : Mgr(u) # m => th[u].pc = "idle"
    BY <1>0, <2>1 DEF LoneInv
  <2>3. Mgr(t) = m
    BY <1>0, <2>2
  <2>4. ASSUME NEW u \in Threads PROVE ~ Driving(u)'
    <3>1. SUFFICES ASSUME Driving(u)' PROVE FALSE
      OBVIOUS
    <3>2. Driving(u) /\ Mgr(u) # m
      BY <1>7, <2>3, <3>1
    <3> QED
      BY <2>2, <3>2 DEF Driving
  <2> QED
    BY <1>0, <1>3, <2>2, <2>3, <2>4
<1> QED
  BY <1>5, <1>8, <1>14, <1>15 DEF CountInv

(* A crash: every drive of the manager is gone, and one more is paid for. *)
LEMMA CrashCount ==
  ASSUME SagaInv, Quiet, CountInv, NEW m \in Managers, Crash(m)
  PROVE  CountInv'
<1>0. /\ CountTypes /\ SentInv /\ RollInv /\ LoneInv /\ Commands \in Nat /\ UNCHANGED <<row, sent, rollbacks, lostRaces>>
      /\ \A t \in Threads : DriveShape(t) /\ KeysKept(t)
  BY BoundsAssumption DEF CountInv, Crash, history, effects
<1>1. \A t \in Threads : IF Mgr(t) = m THEN th'[t] = Idle ELSE th'[t] = th[t]
  BY DEF Crash
<1>2. <<>> \in Keys
  BY DEF Keys
<1>3. cache' \in [Managers -> Keys] /\ \A n \in Managers \ {m} : cache'[n] = cache[n]
  BY <1>0, <1>2 DEF Crash, CountTypes
<1>4. DOMAIN loop' = Managers /\ loop[m] # "absent" /\ \A n \in Managers \ {m} : loop'[n] = loop[n]
  BY <1>0 DEF Crash, CountTypes
<1>5. \A t \in Threads : th'[t].pc # "idle" => Mgr(t) # m /\ th'[t] = th[t]
  BY <1>1, IdleFacts
<1>6. CountTypes'
  <2>1. \A t \in Threads : th'[t].pc = "evict" => th'[t].keys \in Keys
    BY <1>0, <1>5 DEF CountTypes
  <2> QED
    BY <1>0, <1>3, <1>4, <2>1 DEF CountTypes
<1>7. \A n \in Managers : /\ Paid(n) \in Nat /\ Allowed(n) \in Nat
                          /\ Paid(n)' = Paid(n) + 1 /\ Allowed(n)' = Allowed(n) + Commands
  <2> SUFFICES ASSUME NEW n \in Managers
               PROVE  /\ Paid(n) \in Nat /\ Allowed(n) \in Nat
                      /\ Paid(n)' = Paid(n) + 1 /\ Allowed(n)' = Allowed(n) + Commands
    OBVIOUS
  <2>1. Disturbances' = Disturbances + 1 /\ Disturbances \in Nat /\ lostRaces[n] \in Nat
    BY <1>0, TakenFacts DEF Crash, CountTypes
  <2>2. Paid(n)' = Paid(n) + 1
    BY <1>0, <2>1 DEF Paid
  <2>3. Paid(n) \in Nat /\ Allowed(n) \in Nat /\ Allowed(n)' = Allowed(n) + Commands * 1
    BY <1>0, <2>2, PaidFacts
  <2> QED
    BY <1>0, <2>2, <2>3
<1>8. ASSUME NEW t \in Threads, Driving(t)'
      PROVE  /\ Driving(t) /\ th'[t] = th[t] /\ Mgr(t) \in Managers \ {m}
             /\ Credit(t)' = Credit(t) /\ (Working(t)' <=> Working(t)) /\ (RolledBack(t)' <=> RolledBack(t))
             /\ SentOnTop(t)' = SentOnTop(t)
  <2>1. Mgr(t) # m /\ th'[t] = th[t]
    BY <1>5, <1>8 DEF Driving
  <2>2. Driving(t) /\ Mgr(t) \in Managers
    BY <1>8, <2>1, MgrType DEF Driving
  <2>3. Cancelled(t)' <=> Cancelled(t)
    BY <1>4, <2>1 DEF Cancelled, Mgr
  <2> QED
    BY <2>1, <2>2, <2>3 DEF Credit, Working, RolledBack, SentOnTop, Driving
<1>9. ASSUME NEW t \in Threads PROVE DriveShape(t)' /\ KeysKept(t)'
  <2>1. DriveShape(t)'
    BY <1>0, <1>5 DEF DriveShape
  <2>2. KeysKept(t)'
    <3>1. CASE ~ Driving(t)'
      BY <3>1 DEF KeysKept
    <3>2. CASE Driving(t)'
      BY <1>0, <1>3, <1>8, <3>2 DEF KeysKept
    <3> QED
      BY <3>1, <3>2
  <2> QED
    BY <2>1, <2>2
<1>10. SentInv'
  <2>1. ASSUME NEW n \in Managers, NEW e \in Events PROVE sent'[n][e] <= Allowed(n)' /\ sent'[n][e] <= Allowed(n)' + Commands
    <3>1. sent[n][e] <= Allowed(n) + Commands /\ sent[n][e] \in Nat
      BY <1>0 DEF SentInv, CountTypes
    <3> QED
      BY <1>0, <1>7, <3>1
  <2>2. ASSUME NEW t \in Threads, Working(t)'
        PROVE  sent'[Mgr(t)][th'[t].ev] <= Allowed(Mgr(t))' - Commands * Credit(t)' + SentOnTop(t)'
    <3>0. Driving(t)'
      BY <2>2 DEF Working
    <3>1. /\ Working(t) /\ th'[t] = th[t] /\ Mgr(t) \in Managers /\ Credit(t)' = Credit(t)
          /\ SentOnTop(t)' = SentOnTop(t) /\ th[t].ev \in Events
      BY <1>0, <1>8, <2>2, <3>0 DEF DriveShape, Working, Driving
    <3>2. sent[Mgr(t)][th[t].ev] <= Allowed(Mgr(t)) - Commands * Credit(t) + SentOnTop(t)
          /\ sent[Mgr(t)][th[t].ev] \in Nat
      BY <1>0, <3>1 DEF SentInv, CountTypes
    <3>3. PICK c \in Nat : c = Commands * Credit(t)
      BY <1>0 DEF Credit
    <3>4. SentOnTop(t) \in Nat
      BY <1>0 DEF SentOnTop, DriveShape
    <3>5. sent[Mgr(t)][th[t].ev] <= Allowed(Mgr(t))' - c + SentOnTop(t)
      BY <1>0, <1>7, <3>1, <3>2, <3>3, <3>4
    <3> QED
      BY <1>0, <3>1, <3>3, <3>5
  <2> QED
    BY <2>1, <2>2 DEF SentInv
<1>11. RollInv'
  <2>1. ASSUME NEW n \in Managers PROVE rollbacks'[n] <= Paid(n)' /\ rollbacks'[n] <= Paid(n)' + 1
    <3>1. rollbacks[n] <= Paid(n) + 1 /\ rollbacks[n] \in Nat
      BY <1>0 DEF RollInv, CountTypes
    <3> QED
      BY <1>0, <1>7, <3>1
  <2>2. ASSUME NEW t \in Threads, Driving(t)'
        PROVE  rollbacks'[Mgr(t)] <= Paid(Mgr(t))' - Credit(t)' + (IF RolledBack(t)' THEN 1 ELSE 0)
    <3>1. /\ Driving(t) /\ Mgr(t) \in Managers /\ Credit(t)' = Credit(t) /\ Credit(t) \in Nat
          /\ RolledBack(t)' <=> RolledBack(t)
      BY <1>8, <2>2 DEF Credit
    <3>2. PICK r \in {0, 1} : r = (IF RolledBack(t) THEN 1 ELSE 0) /\ r = (IF RolledBack(t)' THEN 1 ELSE 0)
      BY <3>1
    <3>3. rollbacks[Mgr(t)] <= Paid(Mgr(t)) - Credit(t) + r /\ rollbacks[Mgr(t)] \in Nat
      BY <1>0, <3>1, <3>2 DEF RollInv, CountTypes
    <3>4. rollbacks'[Mgr(t)] <= Paid(Mgr(t))' - Credit(t)' + r
      BY <1>0, <1>7, <3>1, <3>3
    <3> QED
      BY <3>2, <3>4
  <2> QED
    BY <2>1, <2>2 DEF RollInv
<1>12. LoneInv'
  <2> SUFFICES ASSUME NEW n \in Managers, Lone(n)'
               PROVE  /\ lostRaces'[n] = 0
                      /\ \A u \in Threads : /\ Mgr(u) # n => th'[u].pc = "idle"
                                            /\ Driving(u)' => th'[u].saga.version = row'.version
    BY DEF LoneInv
  <2>1. Lone(n)
    <3>1. loop'[m] # "absent"
      BY <1>0 DEF Crash, CountTypes
    <3> QED
      BY <1>4, <3>1 DEF Lone
  <2>2. lostRaces[n] = 0 /\ \A u \in Threads : /\ Mgr(u) # n => th[u].pc = "idle"
                                               /\ Driving(u) => th[u].saga.version = row.version
    BY <1>0, <2>1 DEF LoneInv
  <2> QED
    BY <1>0, <1>5, <1>8, <2>2
<1> QED
  BY <1>6, <1>9, <1>10, <1>11, <1>12 DEF CountInv

LEMMA InitCount == Init => CountInv
<1> SUFFICES ASSUME Init PROVE CountInv
  OBVIOUS
<1>0. SagaInv /\ Commands \in Nat
  BY InitSaga, BoundsAssumption
<1>1. /\ th = [t \in Threads |-> Idle] /\ row.done = <<>> /\ cache = [m \in Managers |-> <<>>]
      /\ sent = [m \in Managers |-> [e \in Events |-> 0]] /\ rollbacks = [m \in Managers |-> 0]
      /\ lostRaces = [m \in Managers |-> 0] /\ DOMAIN loop = Managers
  BY DEF Init
<1>2. \A t \in Threads : th[t].pc = "idle" /\ ~ Driving(t)
  BY <1>1, IdleFacts DEF Driving
<1>3. <<>> \in Keys
  BY DEF Keys
<1>4. CountTypes
  BY <1>1, <1>2, <1>3 DEF CountTypes
<1>5. \A m \in Managers : Paid(m) \in Nat /\ Allowed(m) \in Nat
  BY <1>0, <1>4, PaidFacts
<1>6. \A t \in Threads : DriveShape(t) /\ KeysKept(t)
  BY <1>2 DEF DriveShape, KeysKept
<1>7. SentInv
  <2>1. \A m \in Managers, e \in Events : sent[m][e] = 0
    BY <1>1
  <2> QED
    BY <1>0, <1>2, <1>5, <2>1 DEF SentInv, Working
<1>8. RollInv
  <2>1. \A m \in Managers : rollbacks[m] = 0
    BY <1>1
  <2> QED
    BY <1>2, <1>5, <2>1 DEF RollInv
<1>9. LoneInv
  BY <1>1, <1>2 DEF LoneInv
<1> QED
  BY <1>4, <1>6, <1>7, <1>8, <1>9 DEF CountInv

(* The steps of a drive that save nothing. *)
LEMMA DriveCount ==
  ASSUME SagaInv, Quiet, Quiet', Tracked, CountInv, NEW t \in Threads, Drive(t)
  PROVE  CountInv'
<1> USE DEF managerVars, loopVars, history, effects
<1>0. /\ CountTypes /\ DriveShape(t) /\ Mgr(t) \in Managers /\ th[t].mode \in {"event", "sweep"}
      /\ lostRaces \in [Managers -> Nat] /\ cache \in [Managers -> Keys]
      /\ DOMAIN th = Threads /\ DOMAIN th[t] = {"pc", "mode", "ev", "mtx", "saga", "k", "try", "keys"}
      /\ Idle.pc = "idle"
  BY MgrType, IdleFacts DEF CountInv, CountTypes, SagaInv, ShapeInv, ThreadShape, QuietInv
<1>1. ASSUME NEW c, Return(t, c) PROVE LoopStep(t) /\ th' = [th EXCEPT ![t] = Idle]
  BY <1>0, <1>1, LoopStepFacts DEF Return
<1>2. ASSUME UNCHANGED loop PROVE LoopStep(t)
  BY <1>0, <1>2, LoopStepFacts
<1>3. PICK h \in Keys : h = Hydrated(Mgr(t))
  BY <1>0, HydratedFacts
<1>4. ASSUME cache' = [cache EXCEPT ![Mgr(t)] = Hydrated(Mgr(t))]
      PROVE  cache' \in [Managers -> Keys] /\ \A n \in Managers \ {Mgr(t)} : cache'[n] = cache[n]
  BY <1>0, <1>3, <1>4
<1>5. ASSUME UNCHANGED <<budget, lostRaces>> PROVE PaidStep
  BY <1>5, PaidStepKinds
<1>6. ASSUME NEW r, th[t].pc # "idle", th' = [th EXCEPT ![t] = r],
             r.pc \in {"idle", "load"}, r.pc = "load" => r.mode = th[t].mode /\ r.ev = th[t].ev,
             UNCHANGED <<row, budget, sent, rollbacks, lostRaces>>, LoopStep(t),
             cache' \in [Managers -> Keys], \A n \in Managers \ {Mgr(t)} : cache'[n] = cache[n],
             cache' = cache \/ th[t].pc \in Holding, Driving(t) => Cancelled(t)
      PROVE  CountInv'
  BY <1>0, <1>5, <1>6, LeaveCount
<1>7. CASE Acquire(t)
  <2>1. PICK r : r = [th[t] EXCEPT !.pc = "load"]
    OBVIOUS
  <2>2. /\ th' = [th EXCEPT ![t] = r] /\ th[t].pc = "lock"
        /\ UNCHANGED <<row, cache, loop, budget, sent, rollbacks, lostRaces>>
    BY <1>0, <1>7, <2>1 DEF Acquire
  <2>3. r.pc = "load" /\ r.mode = th[t].mode /\ r.ev = th[t].ev
    BY <1>0, <2>1
  <2>4. ~ Driving(t)
    BY <2>2 DEF Driving
  <2> QED
    BY <1>0, <1>2, <1>6, <2>2, <2>3, <2>4
<1>8. CASE LoadForEvent(t)
  <2>1. /\ th[t].pc = "load" /\ th[t].mode = "event" /\ ~ Cancelled(t)
        /\ cache' = [cache EXCEPT ![Mgr(t)] = Hydrated(Mgr(t))]
        /\ UNCHANGED <<row, budget, sent, rollbacks, lostRaces>>
    BY <1>8 DEF LoadForEvent
  <2>2. ~ Driving(t) /\ th[t].pc \in Holding /\ th[t].pc # "idle" /\ th[t].ev \in Events
    BY <1>0, <2>1 DEF Driving, Holding, DriveShape
  <2>3. CASE Return(t, TRUE)
    BY <1>0, <1>1, <1>4, <1>6, <2>1, <2>2, <2>3
  <2>4. CASE ~ Return(t, TRUE)
    <3>1. /\ StartDrive(t, th[t].ev, captureTriggerEvent(th[t].ev), "running", "dispatch") /\ UNCHANGED loop
          /\ row.status \notin Terminal /\ ~ HasKey(Hydrated(Mgr(t)), th[t].ev)
      BY <1>8, <2>4 DEF LoadForEvent
    <3> QED
      BY <2>1, <2>2, <3>1, StartCount
  <2> QED
    BY <2>3, <2>4
<1>9. CASE LoadForSweep(t)
  <2>1. /\ th[t].pc = "load" /\ th[t].mode = "sweep" /\ ~ Cancelled(t)
        /\ UNCHANGED <<row, loop, budget, sent, rollbacks, lostRaces>>
    BY <1>9 DEF LoadForSweep
  <2>2. ~ Driving(t) /\ th[t].pc # "idle"
    BY <2>1 DEF Driving
  <2>3. CASE row.status \in Terminal
    <3>1. th' = [th EXCEPT ![t] = Idle] /\ UNCHANGED cache
      BY <1>9, <2>3 DEF LoadForSweep
    <3> QED
      BY <1>0, <1>2, <1>6, <2>1, <2>2, <3>1
  <2>4. CASE row.status \notin Terminal
    <3>1. /\ cache' = [cache EXCEPT ![Mgr(t)] = Hydrated(Mgr(t))]
          /\ StartDrive(t, 0, row.captured, "compensating", "compensate")
      BY <1>9, <2>4 DEF LoadForSweep
    <3> QED
      BY <2>1, <2>4, <3>1, StartCount
  <2> QED
    BY <2>3, <2>4
<1>10. CASE LoadForRedrive(t) \/ ReloadFails(t)
  BY <1>0, <1>10 DEF LoadForRedrive, ReloadFails
<1>11. CASE Dispatch(t)
  BY <1>11, DispatchCount
<1>12. ASSUME Spend("fail") PROVE Disturbances' = Disturbances
  BY <1>12, TakenFacts
<1>13. CASE StepFails(t)
  BY <1>12, <1>13, SettleCount DEF StepFails
<1>14. CASE Compensate(t) \/ CompensateFails(t) \/ CompensatePartly(t)
  <2>1. Disturbances' = Disturbances
    BY <1>12, <1>14, TakenFacts DEF Compensate, CompensateFails, CompensatePartly
  <2>2. CASE Compensate(t)
    BY <2>1, <2>2, SettleCount DEF Compensate, Settle
  <2>3. CASE CompensateFails(t)
    BY <2>1, <2>3, SettleCount DEF CompensateFails, Settle
  <2>4. CASE CompensatePartly(t)
    BY <2>1, <2>4, SettleCount DEF CompensatePartly, Settle
  <2> QED
    BY <1>14, <2>2, <2>3, <2>4
<1>15. CASE Interrupted(t) \/ SaveCancelled(t)
  <2>1. /\ th[t].pc # "idle" /\ Return(t, FALSE) /\ Cancelled(t)
        /\ UNCHANGED <<row, cache, budget, sent, rollbacks, lostRaces>>
    BY <1>15 DEF Interrupted, SaveCancelled
  <2> QED
    BY <1>0, <1>1, <1>6, <2>1
<1>16. CASE Save(t)
  BY <1>16, SaveCount
<1>17. CASE SaveConflict(t)
  <2>0. /\ th[t].pc = "save" /\ row.version # th[t].saga.version /\ Driving(t) /\ th[t].pc # "idle"
        /\ lostRaces' = [lostRaces EXCEPT ![Mgr(t)] = @ + 1]
        /\ UNCHANGED <<row, cache, budget, sent, rollbacks>>
    BY <1>17 DEF SaveConflict, Driving
  <2>1. /\ lostRaces' \in [Managers -> Nat] /\ lostRaces'[Mgr(t)] = lostRaces[Mgr(t)] + 1
        /\ \A m \in Managers : lostRaces'[m] = lostRaces[m] \/ m = Mgr(t)
    BY <1>0, <2>0
  <2>2. Disturbances' = Disturbances /\ Disturbances \in Nat
    BY <2>0, TakenFacts
  <2>3. PaidStep
    BY <2>1, <2>2 DEF PaidStep
  <2>4. Paid(Mgr(t))' = Paid(Mgr(t)) + 1
    <3>1. lostRaces[Mgr(t)] \in Nat
      BY <1>0
    <3> QED
      BY <2>1, <2>2, <3>1 DEF Paid
  <2>5. PICK r : /\ th' = [th EXCEPT ![t] = r] /\ LoopStep(t) /\ r.pc \in {"idle", "load"}
                 /\ r.pc = "load" => r.mode = th[t].mode /\ r.ev = th[t].ev
    <3>1. CASE ~ (th[t].mode = "event" /\ th[t].try + 1 < RetryAttempts)
      <4>1. Return(t, TRUE)
        BY <1>17, <3>1 DEF SaveConflict
      <4> QED
        BY <1>0, <1>1, <4>1
    <3>2. CASE th[t].mode = "event" /\ th[t].try + 1 < RetryAttempts
      <4>1. PICK r : r = [th[t] EXCEPT !.pc = "load", !.try = @ + 1, !.saga = NoSaga]
        OBVIOUS
      <4>2. th' = [th EXCEPT ![t] = r] /\ UNCHANGED loop
        BY <1>0, <1>17, <3>2, <4>1 DEF SaveConflict
      <4>3. r.pc = "load" /\ r.mode = th[t].mode /\ r.ev = th[t].ev
        BY <1>0, <4>1
      <4> QED
        BY <1>2, <4>2, <4>3
    <3> QED
      BY <3>1, <3>2
  <2>6. \A m \in Managers : \/ lostRaces'[m] = lostRaces[m]
                            \/ m = Mgr(t) /\ Driving(t) /\ th[t].saga.version # row.version
    BY <2>0, <2>1
  <2> QED
    BY <1>0, <2>0, <2>1, <2>3, <2>4, <2>5, <2>6, LeaveCount
<1>18. CASE SaveFails(t) \/ LoadFails(t)
  <2>0. /\ th[t].pc # "idle" /\ (Return(t, TRUE) \/ Return(t, FALSE)) /\ Spend("fault")
        /\ UNCHANGED <<row, cache, sent, rollbacks, lostRaces>>
    BY <1>18 DEF SaveFails, LoadFails
  <2>1. PaidStep /\ Disturbances' = Disturbances + 1 /\ Disturbances \in Nat /\ lostRaces[Mgr(t)] \in Nat
    BY <1>0, <2>0, TakenFacts, PaidStepKinds
  <2>2. Paid(Mgr(t))' = Paid(Mgr(t)) + 1
    BY <2>0, <2>1 DEF Paid
  <2> QED
    BY <1>0, <1>1, <2>0, <2>1, <2>2, LeaveCount
<1>19. CASE Evict(t)
  <2>0. /\ th[t].pc = "evict" /\ Return(t, TRUE) /\ UNCHANGED <<row, budget, sent, rollbacks, lostRaces>>
        /\ cache' = [cache EXCEPT ![Mgr(t)] = IF th[t].saga.status \in Terminal THEN <<>> ELSE th[t].keys]
    BY <1>19 DEF Evict
  <2>1. PICK c \in Keys : c = IF th[t].saga.status \in Terminal THEN <<>> ELSE th[t].keys
    <3>1. <<>> \in Keys
      BY DEF Keys
    <3>2. th[t].keys \in Keys
      BY <1>0, <2>0 DEF CountTypes
    <3> QED
      BY <3>1, <3>2
  <2>2. cache' \in [Managers -> Keys] /\ \A n \in Managers \ {Mgr(t)} : cache'[n] = cache[n]
    BY <1>0, <2>0, <2>1
  <2>3. ~ Driving(t) /\ th[t].pc \in Holding /\ th[t].pc # "idle"
    BY <2>0 DEF Driving, Holding
  <2> QED
    BY <1>0, <1>1, <1>6, <2>0, <2>2, <2>3
<1> QED
  BY <1>7, <1>8, <1>9, <1>10, <1>11, <1>13, <1>14, <1>15, <1>16, <1>17, <1>18, <1>19 DEF Drive

(* Every step keeps the accounts, until an operator retries. *)
LEMMA CountStep == SagaInv /\ QuietCountInv /\ [Next]_vars => QuietCountInv'
<1> SUFFICES ASSUME SagaInv, QuietCountInv, [Next]_vars, Quiet', Tracked PROVE CountInv'
  BY DEF QuietCountInv, Tracked
<1> USE DEF managerVars, loopVars, history, effects
<1>0. Managers \subseteq Threads /\ Callers \subseteq Threads /\ Operators \subseteq Threads
  BY DEF Threads
<1>1. ASSUME UNCHANGED budget PROVE Quiet /\ CountInv
  BY <1>1 DEF Quiet, QuietCountInv
<1>2. ASSUME NEW what \in Bounded, Spend(what) PROVE Quiet /\ CountInv
  BY <1>2, BudgetFacts DEF BudgetStep, QuietCountInv
<1>3. ASSUME CountInv, NEW m \in Managers
      PROVE  /\ UNCHANGED loop => LoopStep(m)
             /\ \A c, e : LoopReturns(m, e, c) => LoopStep(m)
             /\ DOMAIN loop = Managers
  BY <1>0, <1>3, LoopStepFacts DEF CountInv, CountTypes
<1>4. ASSUME NEW t \in Managers, Receive(t) PROVE CountInv'
  <2>0. /\ th[t].pc = "idle" /\ loop[t] = "running" /\ next[t] \in Events
        /\ UNCHANGED <<row, budget, sent, rollbacks, lostRaces>>
    BY <1>4 DEF Receive
  <2>1. Quiet /\ CountInv /\ PaidStep
    BY <1>1, <2>0, PaidStepKinds
  <2>2. CASE EnterLock(t, "event", next[t]) /\ UNCHANGED loop
    BY <1>0, <2>0, <2>1, <2>2, EnterCount
  <2>3. CASE LoopReturns(t, next[t], TRUE) /\ UNCHANGED <<th, cache>>
    <3>1. LoopStep(t) /\ ~ Cancelled(t)'
      BY <1>3, <2>0, <2>1, <2>3 DEF LoopReturns, Cancelled
    <3> QED
      BY <2>0, <2>1, <2>3, <3>1, LoopCount
  <2> QED
    BY <1>4, <2>2, <2>3 DEF Receive
<1>5. ASSUME NEW t \in Managers, LookupFails(t) PROVE CountInv'
  <2>0. /\ loop[t] = "running" /\ LoopReturns(t, next[t], FALSE) /\ Spend("fault")
        /\ UNCHANGED <<row, th, cache, sent, rollbacks, lostRaces>>
    BY <1>5 DEF LookupFails
  <2>1. Quiet /\ CountInv /\ PaidStep
    BY <1>2, <2>0, PaidStepKinds DEF Bounded
  <2>2. LoopStep(t) /\ ~ Cancelled(t)'
    BY <1>3, <2>0, <2>1 DEF LoopReturns, Cancelled
  <2> QED
    BY <2>0, <2>1, <2>2, LoopCount
<1>6. ASSUME NEW t \in Managers, Sweep(t) PROVE CountInv'
  <2>0. /\ th[t].pc = "idle" /\ loop[t] = "running" /\ EnterLock(t, "sweep", 0)
        /\ UNCHANGED <<row, loop, budget, sent, rollbacks, lostRaces>>
    BY <1>6 DEF Sweep
  <2>1. Quiet /\ CountInv /\ PaidStep
    BY <1>1, <2>0, PaidStepKinds
  <2> QED
    BY <1>0, <2>0, <2>1, EnterCount
<1>7. ASSUME NEW t \in Callers, NEW e \in Events, ProcessEvent(t, e) PROVE CountInv'
  <2>0. /\ th[t].pc = "idle" /\ EnterLock(t, "event", e) /\ Spend("call")
        /\ UNCHANGED <<row, loop, sent, rollbacks, lostRaces>>
    BY <1>7 DEF ProcessEvent
  <2>1. Quiet /\ CountInv /\ PaidStep
    BY <1>2, <2>0, PaidStepKinds DEF Bounded
  <2> QED
    BY <1>0, <2>0, <2>1, EnterCount
<1>8. ASSUME NEW t \in Operators, RetrySaga(t) \/ ResumeStalled(t) PROVE CountInv'
  BY <1>8, BudgetFacts DEF RetrySaga, ResumeStalled
<1>9. ASSUME NEW t \in Threads, Drive(t) PROVE CountInv'
  <2>1. Quiet /\ CountInv
    <3>1. UNCHANGED budget \/ Spend("fail") \/ Spend("fault")
      BY <1>9 DEF Drive, Acquire, LoadForEvent, LoadForRedrive, ReloadFails, LoadForSweep, LoadFails, Dispatch, StepFails,
                  Interrupted, Compensate, CompensateFails, CompensatePartly, Save, SaveConflict, SaveFails,
                  SaveCancelled, Evict
    <3> QED
      BY <1>1, <1>2, <3>1 DEF Bounded
  <2> QED
    BY <1>9, <2>1, DriveCount
<1>10. CASE Age
  <2>1. /\ UNCHANGED <<th, cache, loop, budget, sent, rollbacks, lostRaces>>
        /\ row' = [row EXCEPT !.aged = TRUE]
    BY <1>10 DEF Age
  <2>2. DOMAIN row = {"status", "version", "step", "captured", "done", "aged"}
    BY DEF SagaInv, ShapeInv
  <2>3. row'.status = row.status /\ row'.version = row.version /\ row'.done = row.done
    BY <2>1, <2>2
  <2> QED
    BY <1>1, <2>1, <2>3, StillCount
<1>11. ASSUME NEW m \in Managers, Stop(m) PROVE CountInv'
  <2>0. /\ Spend("stop") /\ loop' = [loop EXCEPT ![m] = "stopping"]
        /\ UNCHANGED <<row, th, cache, sent, rollbacks, lostRaces>>
    BY <1>11 DEF Stop
  <2>1. Quiet /\ CountInv /\ PaidStep /\ Disturbances' = Disturbances + 1 /\ Disturbances \in Nat
    BY <1>2, <2>0, PaidStepKinds, TakenFacts DEF Bounded
  <2>2. DOMAIN loop = Managers /\ lostRaces[m] \in Nat
    BY <2>1 DEF CountInv, CountTypes
  <2>3. LoopStep(m)
    BY <2>0, <2>2 DEF LoopStep
  <2>4. Paid(m)' = Paid(m) + 1
    BY <2>0, <2>1, <2>2 DEF Paid
  <2> QED
    BY <2>0, <2>1, <2>3, <2>4, LoopCount
<1>12. ASSUME NEW m \in Managers, LoopExits(m) \/ Start(m) PROVE CountInv'
  <2>0. UNCHANGED <<row, th, cache, budget, sent, rollbacks, lostRaces>>
    BY <1>12 DEF LoopExits, Start
  <2>1. Quiet /\ CountInv /\ PaidStep
    BY <1>1, <2>0, PaidStepKinds
  <2>2. LoopStep(m) /\ ~ Cancelled(m)'
    <3>1. DOMAIN loop = Managers
      BY <1>3, <2>1
    <3> QED
      BY <1>12, <3>1 DEF LoopExits, Start, LoopStep, Cancelled
  <2> QED
    BY <2>0, <2>1, <2>2, LoopCount
<1>13. ASSUME NEW m \in Managers, Crash(m) PROVE CountInv'
  BY <1>2, <1>13, CrashCount DEF Crash, Bounded
<1>14. CASE UNCHANGED vars
  BY <1>1, <1>14, StillCount DEF vars
<1> QED
  BY <1>4, <1>5, <1>6, <1>7, <1>8, <1>9, <1>10, <1>11, <1>12, <1>13, <1>14 DEF Next

(***************************************************************************)
(* However often an event is delivered, a manager sends its commands once, *)
(* and runs the compensation once, and once more at most for each failed   *)
(* save, stop, crash and lost race; a manager that nobody shares the saga  *)
(* with loses none.  It holds as long as no operator retries and while no  *)
(* key of the saga is trimmed (maxProcessedEventsToTrack): beyond that     *)
(* window saveSaga forgets events and they are driven again.               *)
(***************************************************************************)
THEOREM NothingSentTwice == Spec => [](budget.taken["op"] = 0 /\ LastEvent <= MaxTracked => NothingRepeated)
<1>1. Init => QuietCountInv
  BY InitCount DEF QuietCountInv
<1>2. SagaInv /\ QuietCountInv => (budget.taken["op"] = 0 /\ LastEvent <= MaxTracked => NothingRepeated)
  <2> SUFFICES ASSUME SagaInv, CountInv, budget.taken["op"] = 0, NEW m \in Managers
               PROVE  LET runs == 1 + Disturbances + lostRaces[m] + Unfinished(m)
                      IN /\ \A e \in Events : sent[m][e] <= Commands * runs
                         /\ rollbacks[m] <= runs
                         /\ Lone(m) /\ budget.taken.op = 0 => lostRaces[m] = 0
    BY DEF QuietCountInv, Quiet, Tracked, NothingRepeated
  <2>1. Disturbances \in Nat /\ lostRaces[m] \in Nat /\ Commands \in Nat /\ Unfinished(m) = 0
    BY TakenFacts, BoundsAssumption DEF CountInv, CountTypes, Unfinished
  <2>2. PICK p \in Nat : p = Paid(m) /\ p + 1 = 1 + Disturbances + lostRaces[m] + Unfinished(m)
    BY <2>1 DEF Paid
  <2>3. ASSUME NEW e \in Events PROVE sent[m][e] <= Commands * (p + 1)
    <3>1. sent[m][e] <= Commands * p + Commands
      BY <2>2 DEF CountInv, SentInv, Allowed
    <3>2. Commands * (p + 1) = Commands * p + Commands
      BY <2>1
    <3> QED
      BY <3>1, <3>2
  <2>4. rollbacks[m] <= p + 1
    BY <2>2 DEF CountInv, RollInv
  <2>5. Lone(m) => lostRaces[m] = 0
    BY DEF CountInv, LoneInv
  <2> QED
    BY <2>2, <2>3, <2>4, <2>5
<1> QED
  BY <1>1, <1>2, CountStep, SagaInvariant, PTL DEF Spec
=============================================================================
