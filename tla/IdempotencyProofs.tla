--------------------------- MODULE IdempotencyProofs ---------------------------
(***************************************************************************)
(* Proofs about the idempotency middleware, for any number of clients,     *)
(* calls, failures, faults and crashes: failing closed, the reservation is *)
(* a lock on the key, and a stored result ends the matter until it expires.*)
(***************************************************************************)
EXTENDS Idempotency, FiniteSetTheorems, TLAPS

(* The type of the state the proofs look at. *)
TypeInv ==
  /\ rec \in [id : Nat, kind : {"none", "processing", "result"}]
  /\ nextId \in Nat \ {0}
  /\ pc \in [Clients -> {"idle", "check", "delete", "reserve", "run", "bare", "store", "release"}]
  /\ held \in [Clients -> Nat]
  /\ kept \in Nat

(* Ids are handed out once: every id in use is below the next one, and no  *)
(* two clients hold the same reservation.                                  *)
IdInv ==
  /\ rec.id < nextId /\ dead \subseteq 1 .. nextId - 1
  /\ \A c \in Clients : held[c] < nextId
  /\ \A c, d \in Clients : held[c] = held[d] /\ held[c] # 0 => c = d

Busy(c) == pc[c] \in {"run", "store", "release"}

(* Whoever is between Reserve and Return owns the record under the key,    *)
(* which is his live reservation; an effect that was stored is a live      *)
(* result.  Failing closed nobody runs the handler without a reservation.  *)
ReservationInv ==
  config.failClosed /\ ~ raced =>
    /\ \A c \in Clients : pc[c] # "bare"
    /\ \A c \in Clients : Busy(c) =>
         /\ held[c] = rec.id /\ Live /\ rec.kind = "processing"
    /\ kept # 0 => kept = 1 /\ Live /\ rec.kind = "result"

CoreInv == TypeInv /\ IdInv /\ ReservationInv
IdemInv == CoreInv /\ InProgressIsTrue

LEMMA InitIdem == Init => IdemInv
<1> SUFFICES ASSUME Init PROVE IdemInv
  OBVIOUS
<1>2. TypeInv
  BY DEF Init, TypeInv, NoRecord
<1>3. IdInv
  BY DEF Init, IdInv, NoRecord
<1>4. ReservationInv
  BY DEF Init, ReservationInv, Busy
<1>5. InProgressIsTrue
  BY DEF Init, InProgressIsTrue, NoRecord
<1> QED
  BY <1>2, <1>3, <1>4, <1>5 DEF IdemInv, CoreInv

(* A step keeps what is in progress so when it touches no live reservation *)
(* of another, or orphans the one it leaves.                               *)
LEMMA IdemProgress == IdemInv /\ [Next]_vars => InProgressIsTrue'
<1> SUFFICES ASSUME IdemInv, [Next]_vars PROVE InProgressIsTrue'
  OBVIOUS
<1>0. TypeInv /\ IdInv /\ InProgressIsTrue
  BY DEF IdemInv, CoreInv
<1>1. CASE UNCHANGED vars
  BY <1>0, <1>1 DEF vars, local, history, InProgressIsTrue, InUse, Live
<1>2. CASE Expire
  BY <1>0, <1>2 DEF Expire, Lose, local, InProgressIsTrue, InUse, Live
<1>3. CASE Cleanup
  BY <1>0, <1>3 DEF Cleanup, NoRecord, InProgressIsTrue
<1>4. ASSUME NEW c \in Clients, Get(c) \/ GetFails(c) \/ FoundStale(c) PROVE InProgressIsTrue'
  BY <1>0, <1>4 DEF Get, GetFails, FoundStale, Goto, history, TypeInv, InProgressIsTrue, InUse, Live
<1>5. ASSUME NEW c \in Clients, DeleteStale(c) \/ Release(c) PROVE InProgressIsTrue'
  BY <1>5 DEF DeleteStale, Release, NoRecord, InProgressIsTrue
<1>6. ASSUME NEW c \in Clients, Answer(c) \/ ReserveLost(c) PROVE InProgressIsTrue'
  BY <1>0, <1>6 DEF Answer, ReserveLost, Return, Goto, history, TypeInv, InProgressIsTrue, InUse, Live
<1>7. ASSUME NEW c \in Clients, Crash(c) \/ ReleaseFails(c) PROVE InProgressIsTrue'
  <2>1. \A id : InUse(c, id) => id = held[c]
    BY DEF InUse
  <2>2. \A d \in Clients : \A id : d # c /\ InUse(d, id) => InUse(d, id)'
    BY <1>0, <1>7 DEF Crash, ReleaseFails, Return, Goto, TypeInv, InUse
  <2>3. UNCHANGED <<rec, dead>> /\ orphans' = orphans \cup {held[c]}
    BY <1>7 DEF Crash, ReleaseFails
  <2> QED
    BY <1>0, <2>1, <2>2, <2>3 DEF InProgressIsTrue, Live
<1>8. ASSUME NEW c \in Clients, Reserve(c) PROVE InProgressIsTrue'
  BY <1>0, <1>8 DEF Reserve, Put, Goto, TypeInv, InProgressIsTrue, InUse
<1>9. ASSUME NEW c \in Clients, ReserveFails(c) PROVE InProgressIsTrue'
  <2>1. \A d \in Clients : \A id : InUse(d, id) => InUse(d, id)'
    BY <1>0, <1>9 DEF ReserveFails, Return, Goto, TypeInv, InUse
  <2>2. CASE UNCHANGED <<rec, nextId, orphans>>
    BY <1>0, <1>9, <2>1, <2>2 DEF ReserveFails, InProgressIsTrue, Live
  <2>3. CASE Put("processing") /\ orphans' = orphans \cup {nextId}
    BY <2>3 DEF Put, InProgressIsTrue
  <2> QED
    BY <1>9, <2>2, <2>3 DEF ReserveFails
<1>10. ASSUME NEW c \in Clients, StoreResult(c) PROVE InProgressIsTrue'
  BY <1>10 DEF StoreResult, Put, InProgressIsTrue
<1>11. ASSUME NEW c \in Clients,
              HandlerSucceeds(c) \/ (\E err \in BOOLEAN : HandlerFails(c, err)) \/ StoreFails(c)
       PROVE  InProgressIsTrue'
  <2>1. UNCHANGED <<rec, dead, orphans>>
    BY <1>11 DEF HandlerSucceeds, HandlerFails, StoreFails, history
  <2>2. ASSUME NEW d \in Clients, NEW id, id # 0, InUse(d, id) PROVE InUse(d, id)'
    BY <1>0, <1>11, <2>2 DEF HandlerSucceeds, HandlerFails, StoreFails, Return, Goto, TypeInv, InUse
  <2> QED
    BY <1>0, <2>1, <2>2 DEF InProgressIsTrue, Live
<1> QED
  BY <1>1, <1>2, <1>3, <1>4, <1>5, <1>6, <1>7, <1>8, <1>9, <1>10, <1>11 DEF Next, Step

(* One proof per action; what Return forgets cannot hurt. *)
LEMMA CoreStep == CoreInv /\ [Next]_vars => CoreInv'
<1> SUFFICES ASSUME CoreInv, [Next]_vars PROVE CoreInv'
  OBVIOUS
<1> USE DEF CoreInv
<1>1. CASE UNCHANGED vars
  BY <1>1 DEF vars, local, history, TypeInv, IdInv, ReservationInv, Busy, Live
<1>2. CASE Expire
  <2>1. TypeInv' /\ IdInv'
    <3>1. TypeInv'
      BY <1>2 DEF Expire, Lose, local, TypeInv
    <3>2. rec.id \in 1 .. nextId - 1
      BY <1>2 DEF Expire, Lose, TypeInv, IdInv, Live
    <3>3. IdInv'
      BY <1>2, <3>2 DEF Expire, Lose, local, IdInv
    <3> QED
      BY <3>1, <3>3
  <2>2. ASSUME config.failClosed, ~ raced'
        PROVE  ~ raced /\ \A c \in Clients : pc[c] # "bare" /\ ~ Busy(c)
    BY <1>2, <2>2 DEF Expire, Lose, TypeInv, ReservationInv, Busy, InUse
  <2>3. ReservationInv'
    BY <1>2, <2>2 DEF Expire, Lose, local, TypeInv, ReservationInv, Busy, Live
  <2> QED
    BY <2>1, <2>3
<1>3. CASE Cleanup
  <2>1. TypeInv' /\ IdInv'
    BY <1>3 DEF Cleanup, Lose, local, TypeInv, IdInv, NoRecord
  <2>2. ASSUME config.failClosed, ~ raced'
        PROVE  ~ raced /\ \A c \in Clients : pc[c] # "bare" /\ ~ Busy(c)
    BY <1>3, <2>2 DEF Cleanup, Lose, TypeInv, ReservationInv, Busy, InUse
  <2>3. ReservationInv'
    BY <1>3, <2>2 DEF Cleanup, Lose, local, TypeInv, ReservationInv, Busy, Live
  <2> QED
    BY <2>1, <2>3
<1>4. ASSUME NEW c \in Clients, Get(c)
      PROVE  CoreInv'
  BY <1>4 DEF Get, history, Spend, Goto, TypeInv, IdInv, ReservationInv, Busy, Live
<1>5. ASSUME NEW c \in Clients, GetFails(c)
      PROVE  CoreInv'
  BY <1>5 DEF GetFails, history, Spend, Goto, TypeInv, IdInv, ReservationInv, Busy, Live
<1>6. ASSUME NEW c \in Clients, Crash(c)
      PROVE  CoreInv'
  BY <1>6 DEF Crash, Return, Spend, Goto, TypeInv, IdInv, ReservationInv, Busy, Live
<1>7. ASSUME NEW c \in Clients, Answer(c)
      PROVE  CoreInv'
  BY <1>7 DEF Answer, history, Return, Goto, TypeInv, IdInv, ReservationInv, Busy, Live
<1>8. ASSUME NEW c \in Clients, FoundStale(c)
      PROVE  CoreInv'
  BY <1>8 DEF FoundStale, history, Goto, TypeInv, IdInv, ReservationInv, Busy, Live
<1>9. ASSUME NEW c \in Clients, DeleteStale(c)
      PROVE  CoreInv'
  <2>1. TypeInv' /\ IdInv'
    BY <1>9 DEF DeleteStale, Goto, TypeInv, IdInv, NoRecord
  <2>2. ASSUME config.failClosed, ~ raced'
        PROVE  ~ raced /\ ~ Live
    BY <1>9, <2>2 DEF DeleteStale
  <2>3. ReservationInv'
    BY <1>9, <2>2 DEF DeleteStale, Goto, TypeInv, ReservationInv, Busy
  <2> QED
    BY <2>1, <2>3
<1>10. ASSUME NEW c \in Clients, Reserve(c)
       PROVE  CoreInv'
  <2>1. TypeInv'
    BY <1>10 DEF Reserve, history, Put, Goto, TypeInv
  <2>2. IdInv'
    BY <1>10 DEF Reserve, history, Put, Goto, TypeInv, IdInv
  <2>3. ReservationInv'
    <3>1. nextId # 0 /\ nextId \notin dead
      BY DEF TypeInv, IdInv
    <3> QED
      BY <1>10, <3>1 DEF Reserve, history, Put, Goto, TypeInv, ReservationInv, Busy, Live
  <2> QED
    BY <2>1, <2>2, <2>3
<1>11. ASSUME NEW c \in Clients, ReserveLost(c)
       PROVE  CoreInv'
  BY <1>11 DEF ReserveLost, history, Return, Goto, TypeInv, IdInv, ReservationInv, Busy, Live
<1>12. ASSUME NEW c \in Clients, ReserveFails(c)
       PROVE  CoreInv'
  <2>1. TypeInv'
    BY <1>12 DEF ReserveFails, Put, Return, Spend, Goto, TypeInv
  <2>2. IdInv'
    BY <1>12 DEF ReserveFails, Put, Return, Spend, Goto, TypeInv, IdInv
  <2>3. ReservationInv'
    BY <1>12 DEF ReserveFails, Return, Spend, Goto, TypeInv, IdInv, ReservationInv, Busy, Live
  <2> QED
    BY <2>1, <2>2, <2>3
<1>13. ASSUME NEW c \in Clients, HandlerSucceeds(c)
       PROVE  CoreInv'
  <2>1. TypeInv'
    BY <1>13 DEF HandlerSucceeds, history, Return, Goto, TypeInv
  <2>2. IdInv'
    BY <1>13 DEF HandlerSucceeds, history, Return, Goto, TypeInv, IdInv
  <2>3. ReservationInv'
    BY <1>13 DEF HandlerSucceeds, history, Return, Goto, TypeInv, IdInv, ReservationInv, Busy, Live
  <2> QED
    BY <2>1, <2>2, <2>3
<1>14. ASSUME NEW c \in Clients, NEW err \in BOOLEAN, HandlerFails(c, err)
       PROVE  CoreInv'
  <2>1. TypeInv'
    BY <1>14 DEF HandlerFails, history, Return, Spend, Goto, TypeInv
  <2>2. IdInv'
    BY <1>14 DEF HandlerFails, history, Return, Spend, Goto, TypeInv, IdInv
  <2>3. ReservationInv'
    BY <1>14 DEF HandlerFails, history, Return, Spend, Goto, TypeInv, IdInv, ReservationInv, Busy, Live
  <2> QED
    BY <2>1, <2>2, <2>3
<1>15. ASSUME NEW c \in Clients, StoreResult(c)
       PROVE  CoreInv'
  BY <1>15 DEF StoreResult, Put, Return, Goto, TypeInv, IdInv, ReservationInv, Busy, Live
<1>16. ASSUME NEW c \in Clients, StoreFails(c)
       PROVE  CoreInv'
  <2>1. TypeInv'
    BY <1>16 DEF StoreFails, history, Return, Spend, Goto, TypeInv
  <2>2. IdInv'
    BY <1>16 DEF StoreFails, history, Return, Spend, Goto, TypeInv, IdInv
  <2>3. ReservationInv'
    BY <1>16 DEF StoreFails, history, Return, Spend, Goto, TypeInv, IdInv, ReservationInv, Busy, Live
  <2> QED
    BY <2>1, <2>2, <2>3
<1>17. ASSUME NEW c \in Clients, Release(c)
       PROVE  CoreInv'
  BY <1>17 DEF Release, history, Return, Goto, TypeInv, IdInv, ReservationInv, Busy, Live, NoRecord
<1>18. ASSUME NEW c \in Clients, ReleaseFails(c)
       PROVE  CoreInv'
  BY <1>18 DEF ReleaseFails, Return, Spend, Goto, TypeInv, IdInv, ReservationInv, Busy, Live
<1> QED
  BY <1>1, <1>2, <1>3, <1>4, <1>5, <1>6, <1>7, <1>8, <1>9, <1>10, <1>11, <1>12, <1>13,
     <1>14, <1>15, <1>16, <1>17, <1>18 DEF Next, Step

LEMMA IdemInvariant == Spec => []IdemInv
<1>1. IdemInv /\ [Next]_vars => IdemInv'
  BY CoreStep, IdemProgress DEF IdemInv
<1> QED
  BY <1>1, InitIdem, PTL DEF Spec

(***************************************************************************)
(* Failing closed, two handlers for one key never run at once, unless a    *)
(* handler outlived ReservationTTL or a stale Delete hit a reservation.    *)
(***************************************************************************)
THEOREM HandlersExclude == Spec => []OneHandler
<1>1. IdemInv => OneHandler
  BY DEF IdemInv, CoreInv, TypeInv, IdInv, ReservationInv, OneHandler, Busy, Live
<1> QED
  BY <1>1, IdemInvariant, PTL

(***************************************************************************)
(* Under the same conditions a command's effect is stored once until its   *)
(* result expires, and no second success waits to be stored.               *)
(***************************************************************************)
THEOREM EffectsAreSingle == Spec => []EffectOnce
<1>1. IdemInv => EffectOnce
  <2> SUFFICES ASSUME IdemInv, config.failClosed, ~ raced
               PROVE  kept + Cardinality({c \in Clients : pc[c] = "store" /\ ok[c]}) <= 1
    BY DEF EffectOnce
  <2> DEFINE S == {c \in Clients : pc[c] = "store" /\ ok[c]}
  <2>1. \A c \in S : held[c] = rec.id /\ Live /\ rec.kind = "processing"
    BY DEF IdemInv, CoreInv, ReservationInv, Busy
  <2>2. \A c, d \in S : c = d
    BY <2>1 DEF IdemInv, CoreInv, IdInv, Live
  <2>0. kept \in {0, 1}
    BY DEF IdemInv, CoreInv, ReservationInv
  <2>3. CASE S = {}
    BY <2>0, <2>3, FS_EmptySet
  <2>4. CASE S # {}
    <3>1. PICK c \in S : S = {c}
      BY <2>2, <2>4
    <3>2. Cardinality(S) = 1
      BY <3>1, FS_Singleton
    <3>3. kept = 0
      BY <2>1, <3>1 DEF IdemInv, CoreInv, ReservationInv
    <3> QED
      BY <3>2, <3>3
  <2> QED
    BY <2>3, <2>4
<1> QED
  BY <1>1, IdemInvariant, PTL

(***************************************************************************)
(* Whatever is configured: who is told "command in progress" is told the   *)
(* truth, unless the client at work crashed or its Delete failed.          *)
(***************************************************************************)
THEOREM ProgressIsReal == Spec => []InProgressIsTrue
<1>1. IdemInv => InProgressIsTrue
  BY DEF IdemInv
<1> QED
  BY <1>1, IdemInvariant, PTL
=============================================================================
