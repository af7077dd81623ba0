------------------------- MODULE PostgresStoreProofs -------------------------
(***************************************************************************)
(* Proofs about PostgresStore, for every number of clients, streams and    *)
(* subscriptions, every page size and every bound: types, the watermark,   *)
(* the versions of a stream, and the refinement of EventLog.               *)
(***************************************************************************)
EXTENDS PostgresRefinement, FiniteSetTheorems, TLAPS

-----------------------------------------------------------------------------
(* Type correctness. *)

LEMMA InitType == Init => TypeOK
<1> SUFFICES ASSUME Init PROVE TypeOK
  OBVIOUS
<1>1. GenesisRows \in SUBSET Row
  BY GenesisAssumption DEF GenesisRows, Row
<1>2. budget \in [append : Nat, rewrite : Nat, restart : Nat]
  BY BoundsAssumption DEF Init
<1>3. nextXid \in Nat \ {0} /\ nextPos \in Nat \ {0}
  BY GenesisAssumption DEF Init
<1> QED
  BY <1>1, <1>2, <1>3 DEF Init, TypeOK

(* What a statement may do to the transaction ids. *)
LEMMA AssignXidType ==
  ASSUME TypeOK, NEW c \in Clients, AssignXid(c)
  PROVE  /\ nextXid' \in Nat \ {0} /\ nextXid <= nextXid'
         /\ xid' \in [Clients -> Nat]
         /\ xid'[c] \in Nat \ {0}
BY DEF TypeOK, AssignXid

LEMMA EndTxType ==
  ASSUME TypeOK, NEW c \in Clients, EndTx(c)
  PROVE  /\ pc' \in [Clients -> {"idle", "select", "create", "creating", "insert"}]
         /\ req' \in [Clients -> Requests \cup {NoCall}]
         /\ \A d \in Clients : pc'[d] # "idle" => req'[d] \in Requests
         /\ ver' \in [Clients -> Nat] /\ left' \in [Clients -> Nat]
         /\ xid' \in [Clients -> Nat]
         /\ holder' \in [Streams -> Clients \cup {NoClient}]
BY DEF TypeOK, EndTx

LEMMA RollbackType ==
  ASSUME TypeOK, NEW c \in Clients, Rollback(c)
  PROVE  TypeOK'
<1>1. rows' \in SUBSET Row
  BY DEF TypeOK, Rollback
<1> QED
  BY <1>1, EndTxType DEF TypeOK, Rollback, readVars

LEMMA TypeStep == TypeOK /\ [Next]_vars => TypeOK'
<1> SUFFICES ASSUME TypeOK, [Next]_vars PROVE TypeOK'
  OBVIOUS
<1> USE DEF tableVars, readVars, txVars
<1>1. ASSUME NEW c \in Clients, NEW r \in Requests, Begin(c, r) PROVE TypeOK'
  <2>1. r.n \in Nat
    BY <1>1, BoundsAssumption DEF Requests
  <2>2. budget' \in [append : Nat, rewrite : Nat, restart : Nat]
    BY <1>1 DEF TypeOK, Begin
  <2> QED
    BY <1>1, <2>1, <2>2 DEF TypeOK, Begin
<1>2. ASSUME NEW c \in Clients, SelectNoRow(c) PROVE TypeOK'
  BY <1>2 DEF TypeOK, SelectNoRow
<1>3. ASSUME NEW c \in Clients, SelectRow(c) PROVE TypeOK'
  <2>1. req[c].stream \in Streams
    BY <1>3 DEF TypeOK, SelectRow, Requests
  <2>2. nextXid' \in Nat \ {0} /\ xid' \in [Clients -> Nat]
    BY <1>3, AssignXidType DEF TypeOK, SelectRow
  <2> QED
    BY <1>3, <2>1, <2>2 DEF TypeOK, SelectRow
<1>4. ASSUME NEW c \in Clients, Conflict(c) PROVE TypeOK'
  BY <1>4, RollbackType DEF Conflict
<1>5. ASSUME NEW c \in Clients, InsertStream(c) PROVE TypeOK'
  BY <1>5, AssignXidType DEF TypeOK, InsertStream
<1>6. ASSUME NEW c \in Clients, StreamInserted(c) PROVE TypeOK'
  BY <1>6 DEF TypeOK, StreamInserted
<1>7. ASSUME NEW c \in Clients, StreamDuplicate(c) PROVE TypeOK'
  BY <1>7, RollbackType DEF StreamDuplicate
<1>8. ASSUME NEW c \in Clients, InsertEvent(c) PROVE TypeOK'
  <2>1. req[c].stream \in Streams
    BY <1>8 DEF TypeOK, InsertEvent, Requests
  <2>2. /\ nextXid' \in Nat \ {0} /\ xid' \in [Clients -> Nat]
        /\ xid'[c] \in Nat \ {0}
    BY <1>8, AssignXidType DEF InsertEvent
  <2>3. [pos |-> nextPos, stream |-> req[c].stream, version |-> ver[c] + 1,
         xid |-> xid'[c], by |-> c] \in Row
    BY <2>1, <2>2 DEF TypeOK, Row
  <2>4. rows' \in SUBSET Row
    BY <1>8, <2>3 DEF TypeOK, InsertEvent
  <2>5. ver' \in [Clients -> Nat] /\ left' \in [Clients -> Nat] /\ nextPos' \in Nat \ {0}
    BY <1>8 DEF TypeOK, InsertEvent
  <2>6. UNCHANGED <<pc, req, streamVer, holder, readVars, budget>>
    BY <1>8 DEF InsertEvent
  <2> QED
    BY <2>2, <2>4, <2>5, <2>6 DEF TypeOK
<1>9. ASSUME NEW c \in Clients, Commit(c) PROVE TypeOK'
  <2>1. streamVer' \in [Streams -> Nat]
    BY <1>9 DEF TypeOK, Commit
  <2> QED
    BY <1>9, <2>1, EndTxType DEF TypeOK, Commit
<1>10. ASSUME NEW c \in Clients, Abort(c) PROVE TypeOK'
  BY <1>10, RollbackType DEF Abort
<1>11. ASSUME NEW r \in Readers, Poll(r) PROVE TypeOK'
  <2>1. Page(Candidates(r)) \in SUBSET Row
    BY DEF TypeOK, Page, Candidates
  <2> QED
    BY <1>11, <2>1 DEF TypeOK, Poll
<1>12. ASSUME NEW r \in Readers, Deliver(r) PROVE TypeOK'
  <2>1. PICK e \in batch[r] :
          /\ batch' = [batch EXCEPT ![r] = @ \ {e}]
          /\ delivered' = [delivered EXCEPT ![r] = @ \cup {e}]
          /\ cursor' = [cursor EXCEPT ![r] = IF batch[r] = {e} THEN e.pos ELSE @]
          /\ UNCHANGED <<nextXid, nextPos, txVars, tableVars, budget>>
    BY <1>12 DEF Deliver
  <2>2. e \in Row /\ e.pos \in Nat
    BY <2>1 DEF TypeOK, Row
  <2> QED
    BY <2>1, <2>2 DEF TypeOK
<1>13. ASSUME NEW r \in Readers, Resubscribe(r) PROVE TypeOK'
  <2>1. PICK p \in {0} \cup {e.pos : e \in delivered[r]} : cursor' = [cursor EXCEPT ![r] = p]
    BY <1>13 DEF Resubscribe
  <2>2. p \in Nat
    BY <2>1 DEF TypeOK, Row
  <2>3. budget' \in [append : Nat, rewrite : Nat, restart : Nat]
    BY <1>13 DEF TypeOK, Resubscribe
  <2> QED
    BY <1>13, <2>1, <2>2, <2>3 DEF TypeOK, Resubscribe
<1>14. ASSUME NEW e \in rows, Rewrite(e) PROVE TypeOK'
  <2>1. [e EXCEPT !.xid = nextXid] \in Row
    BY DEF TypeOK, Row
  <2>2. budget' \in [append : Nat, rewrite : Nat, restart : Nat]
    BY <1>14 DEF TypeOK, Rewrite
  <2> QED
    BY <1>14, <2>1, <2>2 DEF TypeOK, Rewrite
<1>15. CASE UNCHANGED vars
  BY <1>15 DEF TypeOK, vars
<1> QED
  BY <1>1, <1>2, <1>3, <1>4, <1>5, <1>6, <1>7, <1>8, <1>9, <1>10, <1>11, <1>12, <1>13,
     <1>14, <1>15 DEF Next, AppendCall, Statement, Read

(***************************************************************************)
(* Every reachable state of the adapter is well typed; in particular a     *)
(* transaction in progress always has a request on a known stream.         *)
(***************************************************************************)
THEOREM TypeCorrect == Spec => []TypeOK
BY InitType, TypeStep, PTL DEF Spec

-----------------------------------------------------------------------------
(***************************************************************************)
(* The safe watermark.  The invariant behind SkipOnlyByInversion: the      *)
(* cursor is the position of a delivered row; whatever is behind a         *)
(* delivered row is delivered or overtaken by an older transaction; and    *)
(* whatever is behind a loaded row is that, or loaded with it, or younger  *)
(* than it.  None of this needs the locks, only that positions and xids    *)
(* are handed out once and in order.                                       *)
(***************************************************************************)
FreshInv ==
  /\ IsFiniteSet(rows)
  /\ \A c \in Clients : xid[c] < nextXid
  /\ \A e \in rows : e.pos < nextPos /\ e.xid < nextXid
  /\ \A e, f \in rows : e.pos = f.pos => e = f
  /\ \A r \in Readers : \A d \in batch[r] \cup delivered[r] : d.pos < nextPos /\ d.xid < nextXid

Explained(r, e) ==
  \E d \in delivered[r] : d.pos = e.pos \/ (d.pos > e.pos /\ d.xid < e.xid)

CursorInv ==
  \A r \in Readers : cursor[r] = 0 \/ \E d \in delivered[r] : d.pos = cursor[r]

DeliveredInv ==
  \A r \in Readers : \A y \in delivered[r] : \A e \in rows :
    e.stream \in Filter[r] /\ e.pos <= y.pos => Explained(r, e)

BatchInv ==
  \A r \in Readers : \A x \in batch[r] : \A e \in rows :
    e.stream \in Filter[r] /\ e.pos <= x.pos =>
      \/ Explained(r, e)
      \/ \E b \in batch[r] : b.pos = e.pos
      \/ e.pos < x.pos /\ x.xid < e.xid

FeedInv == FreshInv /\ CursorInv /\ DeliveredInv /\ BatchInv

LEMMA InitFeed == Init => FeedInv
<1> SUFFICES ASSUME Init PROVE FeedInv
  OBVIOUS
<1>1. IsFiniteSet(GenesisRows)
  <2>1. IsFiniteSet(1 .. Len(GenesisOrder))
    BY FS_Interval, GenesisAssumption
  <2> DEFINE g == [i \in 1 .. Len(GenesisOrder) |->
                     [pos |-> i, stream |-> GenesisOrder[i], version |-> 1, xid |-> i,
                      by |-> NoClient]]
  <2>2. g \in Surjection(1 .. Len(GenesisOrder), GenesisRows)
    BY DEF Surjection, GenesisRows
  <2> QED
    BY <2>1, <2>2, FS_Surjection DEF ExistsSurjection
<1>2. FreshInv
  BY <1>1, GenesisAssumption DEF Init, FreshInv, GenesisRows
<1> QED
  BY <1>2 DEF Init, FeedInv, CursorInv, DeliveredInv, BatchInv

(***************************************************************************)
(* A step of a writer: a row it leaves in the table was there, or takes a  *)
(* fresh position, or is a rewritten row of the same position.             *)
(***************************************************************************)
WriterStep ==
  /\ UNCHANGED readVars
  /\ \A e \in rows' : \/ e.pos >= nextPos
                       \/ \E f \in rows : /\ f.pos = e.pos /\ f.stream = e.stream
                                          /\ f.xid <= e.xid

LEMMA WriterKeepsFeed ==
  ASSUME TypeOK, TypeOK', FeedInv, WriterStep
  PROVE  CursorInv' /\ DeliveredInv' /\ BatchInv'
<1> USE DEF WriterStep, readVars
<1>1. CursorInv'
  BY DEF FeedInv, CursorInv
<1>2. ASSUME NEW r \in Readers, NEW e \in rows', NEW f \in rows,
             f.pos = e.pos, f.xid <= e.xid, Explained(r, f)
      PROVE  Explained(r, e)'
  <2>1. PICK d \in delivered[r] : d.pos = f.pos \/ (d.pos > f.pos /\ d.xid < f.xid)
    BY <1>2 DEF Explained
  <2>2. d.xid \in Nat /\ f.xid \in Nat /\ e.xid \in Nat
    BY DEF TypeOK, Row
  <2> QED
    BY <1>2, <2>1, <2>2 DEF Explained
<1>3. DeliveredInv'
  <2> SUFFICES ASSUME NEW r \in Readers, NEW y \in delivered[r], NEW e \in rows',
                      e.stream \in Filter[r], e.pos <= y.pos
               PROVE  Explained(r, e)'
    BY DEF DeliveredInv
  <2>1. y.pos < nextPos /\ y.pos \in Nat /\ e.pos \in Nat /\ nextPos \in Nat
    BY DEF FeedInv, FreshInv, TypeOK, Row
  <2>2. PICK f \in rows : f.pos = e.pos /\ f.stream = e.stream /\ f.xid <= e.xid
    BY <2>1
  <2>3. Explained(r, f)
    BY <2>2 DEF FeedInv, DeliveredInv
  <2> QED
    BY <1>2, <2>2, <2>3
<1>4. BatchInv'
  <2> SUFFICES ASSUME NEW r \in Readers, NEW x \in batch[r], NEW e \in rows',
                      e.stream \in Filter[r], e.pos <= x.pos
               PROVE  \/ Explained(r, e)'
                      \/ \E b \in batch[r] : b.pos = e.pos
                      \/ e.pos < x.pos /\ x.xid < e.xid
    BY DEF BatchInv
  <2>1. x.pos < nextPos /\ x.pos \in Nat /\ e.pos \in Nat /\ nextPos \in Nat
    BY DEF FeedInv, FreshInv, TypeOK, Row
  <2>2. PICK f \in rows : f.pos = e.pos /\ f.stream = e.stream /\ f.xid <= e.xid
    BY <2>1
  <2>3. x.xid \in Nat /\ f.xid \in Nat /\ e.xid \in Nat
    BY DEF TypeOK, Row
  <2>4. \/ Explained(r, f)
        \/ \E b \in batch[r] : b.pos = f.pos
        \/ f.pos < x.pos /\ x.xid < f.xid
    BY <2>2 DEF FeedInv, BatchInv
  <2> QED
    BY <1>2, <2>2, <2>3, <2>4
<1> QED
  BY <1>1, <1>3, <1>4

(* A step that keeps the readers, and only hands out fresh numbers. *)
LEMMA RowsUnchanged ==
  ASSUME TypeOK, TypeOK', FeedInv, UNCHANGED readVars, rows' \in SUBSET rows,
         nextPos' = nextPos, nextXid <= nextXid',
         \A c \in Clients : xid'[c] < nextXid'
  PROVE  FeedInv'
<1>1. WriterStep
  BY DEF WriterStep, TypeOK, Row
<1>2. IsFiniteSet(rows')
  BY FS_Subset DEF FeedInv, FreshInv
<1>3. \A e \in rows' : e.pos < nextPos' /\ e.xid < nextXid'
  BY DEF FeedInv, FreshInv, TypeOK, Row
<1>4. \A r \in Readers : \A d \in (batch[r] \cup delivered[r])' : d.pos < nextPos' /\ d.xid < nextXid'
  BY DEF FeedInv, FreshInv, TypeOK, Row, readVars
<1>5. FreshInv'
  BY <1>2, <1>3, <1>4 DEF FeedInv, FreshInv
<1> QED
  BY <1>1, <1>5, WriterKeepsFeed DEF FeedInv

(* The page a poll loads has no gaps among the candidates. *)
LEMMA PageIsLowerClosed ==
  ASSUME NEW S, IsFiniteSet(S), NEW x \in Page(S), NEW e \in S, \A f \in S : f.pos \in Nat,
         e.pos <= x.pos
  PROVE  e \in Page(S)
<1> DEFINE Upto(f) == {g \in S : g.pos <= f.pos}
<1>1. Upto(e) \in SUBSET Upto(x) /\ Upto(x) \in SUBSET S
  BY DEF Page
<1>2. IsFiniteSet(Upto(x))
  BY <1>1, FS_Subset
<1>3. Cardinality(Upto(e)) <= Cardinality(Upto(x))
  BY <1>1, <1>2, FS_Subset
<1>4. IsFiniteSet(Upto(e))
  BY <1>1, <1>2, FS_Subset
<1>5. Cardinality(Upto(e)) \in Nat /\ Cardinality(Upto(x)) \in Nat
  BY <1>2, <1>4, FS_CardinalityType
<1>6. Cardinality(Upto(x)) <= Limit
  BY DEF Page
<1>7. Cardinality(Upto(e)) <= Limit
  BY <1>3, <1>5, <1>6, BoundsAssumption
<1> QED
  BY <1>7 DEF Page

(* Loading a page: what it leaves out is behind the cursor or too young. *)
LEMMA PollKeepsFeed ==
  ASSUME TypeOK, TypeOK', FeedInv, NEW q \in Readers, Poll(q)
  PROVE  FeedInv'
<1> USE DEF txVars, tableVars
<1> DEFINE S == Candidates(q)
<1>1. S \in SUBSET rows /\ Page(S) \in SUBSET S
  BY DEF Candidates, Page
<1>2. IsFiniteSet(S) /\ \A f \in S : f.pos \in Nat
  BY <1>1, FS_Subset DEF FeedInv, FreshInv, TypeOK, Row
<1>3. /\ UNCHANGED <<nextXid, nextPos, xid, rows, cursor, delivered>>
      /\ batch' = [batch EXCEPT ![q] = Page(S)]
  BY DEF Poll
<1>4. FreshInv'
  BY <1>1, <1>3 DEF FeedInv, FreshInv, TypeOK
<1>5. CursorInv' /\ DeliveredInv'
  BY <1>3 DEF FeedInv, CursorInv, DeliveredInv, Explained
<1>6. ASSUME NEW x \in Page(S), NEW e \in rows, e.stream \in Filter[q], e.pos <= x.pos
      PROVE  \/ Explained(q, e)
             \/ e \in Page(S)
             \/ e.pos < x.pos /\ x.xid < e.xid
  <2>1. /\ e.pos \in Nat \ {0} /\ x.pos \in Nat /\ e.xid \in Nat \ {0} /\ x.xid \in Nat
        /\ cursor[q] \in Nat /\ xid \in [Clients -> Nat]
    BY <1>1 DEF TypeOK, Row
  <2>2. CASE e.pos <= cursor[q]
    BY <1>6, <2>1, <2>2 DEF FeedInv, CursorInv, DeliveredInv
  <2>3. CASE e.pos > cursor[q] /\ Visible(e) /\ Safe(e)
    <3>1. e \in S
      BY <1>6, <2>3 DEF Candidates
    <3> QED
      BY <1>2, <1>6, <3>1, PageIsLowerClosed
  <2>4. CASE ~ Visible(e) \/ ~ Safe(e)
    <3>1. PICK c \in Clients : xid[c] # 0 /\ xid[c] <= e.xid
      BY <2>1, <2>4 DEF Visible, Safe
    <3>2. x.xid < xid[c]
      BY <1>1, <3>1 DEF Candidates, Safe
    <3>3. x.xid < e.xid
      BY <2>1, <3>1, <3>2
    <3>4. x.pos # e.pos
      BY <1>1, <2>1, <3>3 DEF FeedInv, FreshInv
    <3> QED
      BY <1>6, <2>1, <3>3, <3>4
  <2> QED
    BY <2>1, <2>2, <2>3, <2>4
<1>7. BatchInv'
  <2> SUFFICES ASSUME NEW r \in Readers, NEW x \in batch'[r], NEW e \in rows,
                      e.stream \in Filter[r], e.pos <= x.pos
               PROVE  \/ Explained(r, e)
                      \/ \E b \in batch'[r] : b.pos = e.pos
                      \/ e.pos < x.pos /\ x.xid < e.xid
    BY <1>3 DEF BatchInv, Explained
  <2>1. CASE r = q
    <3>1. batch'[r] = Page(S)
      BY <1>3, <2>1 DEF TypeOK
    <3> QED
      BY <1>6, <2>1, <3>1
  <2>2. CASE r # q
    <3>1. batch'[r] = batch[r]
      BY <1>3, <2>2 DEF TypeOK
    <3> QED
      BY <3>1 DEF FeedInv, BatchInv
  <2> QED
    BY <2>1, <2>2
<1> QED
  BY <1>4, <1>5, <1>7 DEF FeedInv

(* Delivering the lowest row of the batch. *)
LEMMA DeliverKeepsFeed ==
  ASSUME TypeOK, TypeOK', FeedInv, NEW q \in Readers, Deliver(q)
  PROVE  FeedInv'
<1> USE DEF txVars, tableVars
<1>1. PICK y \in batch[q] :
        /\ \A f \in batch[q] : y.pos <= f.pos
        /\ batch' = [batch EXCEPT ![q] = @ \ {y}]
        /\ delivered' = [delivered EXCEPT ![q] = @ \cup {y}]
        /\ cursor' = [cursor EXCEPT ![q] = IF batch[q] = {y} THEN y.pos ELSE @]
        /\ UNCHANGED <<nextXid, nextPos, xid, rows>>
  BY DEF Deliver
<1>2. /\ batch'[q] = batch[q] \ {y} /\ delivered'[q] = delivered[q] \cup {y}
      /\ \A r \in Readers \ {q} : batch'[r] = batch[r] /\ delivered'[r] = delivered[r]
      /\ \A r \in Readers : delivered[r] \in SUBSET delivered'[r]
  BY <1>1 DEF TypeOK
<1>3. FreshInv'
  BY <1>1, <1>2 DEF FeedInv, FreshInv
<1>4. CursorInv'
  BY <1>1, <1>2 DEF FeedInv, CursorInv, TypeOK
<1>5. ASSUME NEW r \in Readers, NEW e \in rows, Explained(r, e)
      PROVE  Explained(r, e)'
  BY <1>2, <1>5 DEF Explained
<1>6. ASSUME NEW e \in rows, e.stream \in Filter[q], e.pos <= y.pos
      PROVE  Explained(q, e)'
  <2>1. e.pos \in Nat /\ y.pos \in Nat
    BY DEF TypeOK, Row
  <2>2. \/ Explained(q, e)
        \/ \E b \in batch[q] : b.pos = e.pos
        \/ e.pos < y.pos /\ y.xid < e.xid
    BY <1>6 DEF FeedInv, BatchInv
  <2>3. CASE \E b \in batch[q] : b.pos = e.pos
    <3>1. y.pos = e.pos
      BY <1>1, <1>6, <2>1, <2>3
    <3> QED
      BY <1>2, <3>1 DEF Explained
  <2>4. CASE e.pos < y.pos /\ y.xid < e.xid
    BY <1>2, <2>1, <2>4 DEF Explained
  <2> QED
    BY <1>5, <2>2, <2>3, <2>4
<1>7. DeliveredInv'
  BY <1>1, <1>2, <1>5, <1>6 DEF FeedInv, DeliveredInv
<1>8. BatchInv'
  <2> SUFFICES ASSUME NEW r \in Readers, NEW x \in batch'[r], NEW e \in rows,
                      e.stream \in Filter[r], e.pos <= x.pos
               PROVE  \/ Explained(r, e)'
                      \/ \E b \in batch'[r] : b.pos = e.pos
                      \/ e.pos < x.pos /\ x.xid < e.xid
    BY <1>1 DEF BatchInv
  <2>1. x \in batch[r]
    BY <1>2
  <2>2. \/ Explained(r, e)
        \/ \E b \in batch[r] : b.pos = e.pos
        \/ e.pos < x.pos /\ x.xid < e.xid
    BY <2>1 DEF FeedInv, BatchInv
  <2>3. ASSUME NEW b \in batch[r], b.pos = e.pos
        PROVE  Explained(r, e)' \/ \E a \in batch'[r] : a.pos = e.pos
    BY <1>2, <2>3 DEF Explained
  <2> QED
    BY <1>5, <2>2, <2>3
<1> QED
  BY <1>3, <1>4, <1>7, <1>8 DEF FeedInv

(* Subscribing again: the new cursor is the start or a delivered position. *)
LEMMA ResubscribeKeepsFeed ==
  ASSUME TypeOK, TypeOK', FeedInv, NEW q \in Readers, Resubscribe(q)
  PROVE  FeedInv'
<1> USE DEF txVars, tableVars
<1>1. PICK p \in {0} \cup {e.pos : e \in delivered[q]} :
        /\ cursor' = [cursor EXCEPT ![q] = p]
        /\ batch' = [batch EXCEPT ![q] = {}]
        /\ UNCHANGED <<nextXid, nextPos, xid, rows, delivered>>
  BY DEF Resubscribe
<1>2. \A r \in Readers : batch'[r] \in SUBSET batch[r]
  BY <1>1 DEF TypeOK
<1>3. FreshInv'
  BY <1>1, <1>2 DEF FeedInv, FreshInv
<1>4. CursorInv'
  BY <1>1 DEF FeedInv, CursorInv, TypeOK
<1>5. DeliveredInv'
  BY <1>1 DEF FeedInv, DeliveredInv, Explained
<1>6. \A r \in Readers : batch'[r] = batch[r] \/ batch'[r] = {}
  BY <1>1 DEF TypeOK
<1>7. BatchInv'
  BY <1>1, <1>6 DEF FeedInv, BatchInv, Explained
<1> QED
  BY <1>3, <1>4, <1>5, <1>7 DEF FeedInv

LEMMA RollbackKeepsFeed ==
  ASSUME TypeOK, TypeOK', FeedInv, NEW c \in Clients, Rollback(c)
  PROVE  FeedInv'
<1>1. \A d \in Clients : xid'[d] < nextXid'
  BY DEF FeedInv, FreshInv, TypeOK, Rollback, EndTx
<1> QED
  BY <1>1, RowsUnchanged DEF Rollback, TypeOK

LEMMA AssignXidFresh ==
  ASSUME TypeOK, FreshInv, NEW c \in Clients, AssignXid(c)
  PROVE  nextXid <= nextXid' /\ \A d \in Clients : xid'[d] < nextXid'
BY DEF TypeOK, FreshInv, AssignXid

LEMMA InsertKeepsFeed ==
  ASSUME TypeOK, TypeOK', FeedInv, NEW c \in Clients, InsertEvent(c)
  PROVE  FeedInv'
<1> DEFINE new == [pos |-> nextPos, stream |-> req[c].stream, version |-> ver[c] + 1,
                   xid |-> xid'[c], by |-> c]
<1>1. /\ rows' = rows \cup {new} /\ nextPos' = nextPos + 1
      /\ UNCHANGED readVars
  BY DEF InsertEvent
<1>2. nextXid <= nextXid' /\ \A d \in Clients : xid'[d] < nextXid'
  BY AssignXidFresh DEF InsertEvent, FeedInv
<1>3. IsFiniteSet(rows')
  BY <1>1, FS_AddElement DEF FeedInv, FreshInv
<1>4. WriterStep
  BY <1>1 DEF WriterStep, TypeOK, Row
<1>5. \A e \in rows' : e.pos < nextPos' /\ e.xid < nextXid'
  BY <1>1, <1>2 DEF FeedInv, FreshInv, TypeOK, Row
<1>6. \A e, f \in rows' : e.pos = f.pos => e = f
  BY <1>1 DEF FeedInv, FreshInv, TypeOK, Row
<1>7. \A r \in Readers : \A d \in (batch[r] \cup delivered[r])' : d.pos < nextPos' /\ d.xid < nextXid'
  BY <1>1, <1>2 DEF FeedInv, FreshInv, TypeOK, Row, readVars
<1> QED
  BY <1>2, <1>3, <1>4, <1>5, <1>6, <1>7, WriterKeepsFeed DEF FeedInv, FreshInv

LEMMA RewriteKeepsFeed ==
  ASSUME TypeOK, TypeOK', FeedInv, NEW e \in rows, Rewrite(e)
  PROVE  FeedInv'
<1> DEFINE new == [e EXCEPT !.xid = nextXid]
<1>1. /\ rows' = (rows \ {e}) \cup {new} /\ nextPos' = nextPos /\ nextXid' = nextXid + 1
      /\ UNCHANGED <<xid, readVars>>
  BY DEF Rewrite, txVars
<1>2. new.pos = e.pos /\ new.stream = e.stream /\ new.xid = nextXid /\ e.xid < nextXid
  BY DEF TypeOK, Row, FeedInv, FreshInv
<1>3. IsFiniteSet(rows')
  BY <1>1, FS_AddElement, FS_RemoveElement DEF FeedInv, FreshInv
<1>4. WriterStep
  BY <1>1, <1>2 DEF WriterStep, TypeOK, Row
<1>5. \A f \in rows' : f.pos < nextPos' /\ f.xid < nextXid'
  BY <1>1, <1>2 DEF FeedInv, FreshInv, TypeOK, Row
<1>6. \A f, g \in rows' : f.pos = g.pos => f = g
  BY <1>1, <1>2 DEF FeedInv, FreshInv
<1>7. \A r \in Readers : \A d \in (batch[r] \cup delivered[r])' : d.pos < nextPos' /\ d.xid < nextXid'
  BY <1>1 DEF FeedInv, FreshInv, TypeOK, Row, readVars
<1>8. \A c \in Clients : xid'[c] < nextXid'
  BY <1>1 DEF FeedInv, FreshInv, TypeOK
<1> QED
  BY <1>3, <1>4, <1>5, <1>6, <1>7, <1>8, WriterKeepsFeed DEF FeedInv, FreshInv

LEMMA FeedStep == TypeOK /\ TypeOK' /\ FeedInv /\ [Next]_vars => FeedInv'
<1> SUFFICES ASSUME TypeOK, TypeOK', FeedInv, [Next]_vars PROVE FeedInv'
  OBVIOUS
<1> USE DEF tableVars, txVars
<1>1. ASSUME NEW c \in Clients, NEW r \in Requests, Begin(c, r) PROVE FeedInv'
  BY <1>1, RowsUnchanged DEF Begin, FeedInv, FreshInv, TypeOK
<1>2. ASSUME NEW c \in Clients, SelectNoRow(c) PROVE FeedInv'
  BY <1>2, RowsUnchanged DEF SelectNoRow, FeedInv, FreshInv, TypeOK
<1>3. ASSUME NEW c \in Clients, SelectRow(c) PROVE FeedInv'
  <2>1. nextXid <= nextXid' /\ \A d \in Clients : xid'[d] < nextXid'
    BY <1>3, AssignXidFresh DEF SelectRow, FeedInv, FreshInv, TypeOK
  <2> QED
    BY <1>3, <2>1, RowsUnchanged DEF SelectRow
<1>4. ASSUME NEW c \in Clients, Conflict(c) PROVE FeedInv'
  BY <1>4, RollbackKeepsFeed DEF Conflict
<1>5. ASSUME NEW c \in Clients, InsertStream(c) PROVE FeedInv'
  <2>1. nextXid <= nextXid' /\ \A d \in Clients : xid'[d] < nextXid'
    BY <1>5, AssignXidFresh DEF InsertStream, FeedInv
  <2> QED
    BY <1>5, <2>1, RowsUnchanged DEF InsertStream
<1>6. ASSUME NEW c \in Clients, StreamInserted(c) PROVE FeedInv'
  BY <1>6, RowsUnchanged DEF StreamInserted, FeedInv, FreshInv, TypeOK
<1>7. ASSUME NEW c \in Clients, StreamDuplicate(c) PROVE FeedInv'
  BY <1>7, RollbackKeepsFeed DEF StreamDuplicate
<1>8. ASSUME NEW c \in Clients, InsertEvent(c) PROVE FeedInv'
  BY <1>8, InsertKeepsFeed
<1>9. ASSUME NEW c \in Clients, Commit(c) PROVE FeedInv'
  <2>1. \A d \in Clients : xid'[d] < nextXid'
    BY <1>9 DEF Commit, EndTx, FeedInv, FreshInv, TypeOK
  <2> QED
    BY <1>9, <2>1, RowsUnchanged DEF Commit, TypeOK
<1>10. ASSUME NEW c \in Clients, Abort(c) PROVE FeedInv'
  BY <1>10, RollbackKeepsFeed DEF Abort
<1>11. ASSUME NEW r \in Readers, Read(r) PROVE FeedInv'
  BY <1>11, PollKeepsFeed, DeliverKeepsFeed, ResubscribeKeepsFeed DEF Read
<1>12. ASSUME NEW e \in rows, Rewrite(e) PROVE FeedInv'
  BY <1>12, RewriteKeepsFeed
<1>13. CASE UNCHANGED vars
  BY <1>13, RowsUnchanged DEF vars, FeedInv, FreshInv, TypeOK
<1> QED
  BY <1>1, <1>2, <1>3, <1>4, <1>5, <1>6, <1>7, <1>8, <1>9, <1>10, <1>11, <1>12, <1>13
  DEF Next, AppendCall, Statement

LEMMA FeedImpliesSkip == TypeOK /\ FeedInv => SkipOnlyByInversion
<1> SUFFICES ASSUME TypeOK, FeedInv, NEW r \in Readers, NEW e \in rows, Skipped(r, e)
             PROVE  \E d \in delivered[r] : d.pos > e.pos /\ d.xid < e.xid
  BY DEF SkipOnlyByInversion
<1>1. cursor[r] # 0
  BY DEF Skipped, TypeOK, Row
<1>2. PICK y \in delivered[r] : y.pos = cursor[r]
  BY <1>1 DEF FeedInv, CursorInv
<1>3. Explained(r, e)
  BY <1>2 DEF Skipped, FeedInv, DeliveredInv
<1> QED
  BY <1>3 DEF Explained, Skipped

(***************************************************************************)
(* The watermark theorem: whatever the number of writers, batches, aborts, *)
(* rewrites, pages and restarts, a subscription built on safePositionClause *)
(* passes over a row only if it delivered one of a higher position and an  *)
(* older transaction.  So the feed is complete exactly as far as positions *)
(* and transaction ids are assigned in the same order.                     *)
(***************************************************************************)
THEOREM WatermarkSkipsOnlyInversions == Spec => []SkipOnlyByInversion
<1>1. Init => TypeOK /\ FeedInv
  BY InitType, InitFeed
<1>2. (TypeOK /\ FeedInv) /\ [Next]_vars => (TypeOK /\ FeedInv)'
  BY TypeStep, FeedStep
<1> QED
  BY <1>1, <1>2, FeedImpliesSkip, PTL DEF Spec

-----------------------------------------------------------------------------
(***************************************************************************)
(* The lock protocol of appendInTx: the row lock and the unique index on   *)
(* streams alone make versions unique and gap-free.                        *)
(***************************************************************************)
(* An xid belongs to one transaction, which has written or locked something. *)
XidInv ==
  /\ \A c \in Clients : pc[c] \in {"idle", "select", "create"} => xid[c] = 0
  /\ \A c, d \in Clients : xid[c] = xid[d] /\ xid[c] # 0 => c = d

(* Who inserts events holds the stream's row, and nobody else holds a row. *)
LockInv ==
  /\ \A c \in Clients : pc[c] = "insert" =>
        holder[req[c].stream] = c /\ streamVer[req[c].stream] <= ver[c]
  /\ \A c \in Clients : pc[c] # "insert" => ver[c] = 0
  /\ \A s \in Streams : holder[s] # NoClient =>
        pc[holder[s]] = "insert" /\ req[holder[s]].stream = s

(* e is an uncommitted row of c: above the committed version of its stream. *)
Owner(e, c) ==
  /\ pc[c] = "insert" /\ xid[c] = e.xid /\ req[c].stream = e.stream
  /\ streamVer[e.stream] < e.version /\ e.version <= ver[c]

RowInv ==
  \A e \in rows : \/ Visible(e) /\ e.version <= streamVer[e.stream]
                  \/ \E c \in Clients : Owner(e, c)

(* Every committed version has a visible row, every written one a row. *)
CommittedInv ==
  \A s \in Streams : \A v \in 1 .. streamVer[s] :
    \E e \in rows : Visible(e) /\ e.stream = s /\ e.version = v

WrittenInv ==
  \A c \in Clients : pc[c] = "insert" =>
    \A v \in (streamVer[req[c].stream] + 1) .. ver[c] :
      \E e \in rows : e.stream = req[c].stream /\ e.version = v /\ e.xid = xid[c]

VersionInv == XidInv /\ LockInv /\ RowInv /\ CommittedInv /\ WrittenInv /\ VersionsUnique

LEMMA InitVersion == Init => VersionInv
<1> SUFFICES ASSUME Init PROVE VersionInv
  OBVIOUS
<1>1. XidInv /\ LockInv
  BY DEF Init, XidInv, LockInv
<1>2. \A e \in rows : Visible(e) /\ e.version = 1 /\ streamVer[e.stream] = 1
  BY GenesisAssumption DEF Init, GenesisRows, Visible
<1>3. RowInv
  BY <1>2 DEF RowInv
<1>4. CommittedInv
  <2> SUFFICES ASSUME NEW s \in Streams, NEW v \in 1 .. streamVer[s]
               PROVE  \E e \in rows : Visible(e) /\ e.stream = s /\ e.version = v
    BY DEF CommittedInv
  <2>1. v = 1 /\ \E i \in 1 .. Len(GenesisOrder) : GenesisOrder[i] = s
    BY DEF Init
  <2>2. PICK i \in 1 .. Len(GenesisOrder) : GenesisOrder[i] = s
    BY <2>1
  <2> DEFINE g == [pos |-> i, stream |-> GenesisOrder[i], version |-> 1, xid |-> i,
                   by |-> NoClient]
  <2>3. g \in rows /\ g.stream = s /\ g.version = v
    BY <2>1, <2>2 DEF Init, GenesisRows
  <2> QED
    BY <1>2, <2>3
<1>5. WrittenInv
  BY DEF Init, WrittenInv
<1>6. VersionsUnique
  BY GenesisAssumption DEF Init, GenesisRows, VersionsUnique
<1> QED
  BY <1>1, <1>3, <1>4, <1>5, <1>6 DEF VersionInv

(* Row facts used by every step. *)
LEMMA RowFacts ==
  ASSUME TypeOK
  PROVE  \A e \in rows : /\ e.xid \in Nat \ {0} /\ e.version \in Nat \ {0}
                         /\ e.stream \in Streams /\ e.pos \in Nat
BY DEF TypeOK, Row

(* A rollback removes exactly the rows of the transaction. *)
LEMMA RollbackKeepsVersions ==
  ASSUME TypeOK, TypeOK', FreshInv, VersionInv, NEW c \in Clients, pc[c] # "idle", Rollback(c)
  PROVE  VersionInv'
<1> USE DEF VersionInv
<1>1. /\ pc' = [pc EXCEPT ![c] = "idle"] /\ req' = [req EXCEPT ![c] = NoCall]
      /\ ver' = [ver EXCEPT ![c] = 0] /\ xid' = [xid EXCEPT ![c] = 0]
      /\ holder' = [s \in Streams |-> IF holder[s] = c THEN NoClient ELSE holder[s]]
      /\ rows' = {e \in rows : e.xid # xid[c]} /\ streamVer' = streamVer
  BY DEF Rollback, EndTx
<1>2. XidInv'
  BY <1>1 DEF XidInv, TypeOK
<1>3. \A d \in Clients : pc[d] = "insert" => req[d].stream \in Streams
  BY DEF TypeOK, Requests
<1>4. LockInv'
  BY <1>1, <1>3, ConfigAssumption DEF LockInv, TypeOK
<1>5. RowInv'
  BY <1>1, RowFacts DEF RowInv, Visible, Owner, TypeOK
<1>6. CommittedInv'
  BY <1>1, RowFacts DEF CommittedInv, Visible, TypeOK
<1>7. WrittenInv'
  <2> SUFFICES ASSUME NEW d \in Clients, pc'[d] = "insert",
                      NEW v \in (streamVer[req'[d].stream] + 1) .. ver'[d]
               PROVE  \E e \in rows' : e.stream = req'[d].stream /\ e.version = v /\ e.xid = xid'[d]
    BY <1>1 DEF WrittenInv
  <2>1. d # c /\ pc[d] = "insert" /\ req'[d] = req[d] /\ ver'[d] = ver[d] /\ xid'[d] = xid[d]
    BY <1>1 DEF TypeOK
  <2>2. PICK e \in rows : e.stream = req[d].stream /\ e.version = v /\ e.xid = xid[d]
    BY <2>1 DEF WrittenInv
  <2>3. e.xid # xid[c]
    BY <2>1, <2>2, RowFacts DEF XidInv
  <2> QED
    BY <1>1, <2>1, <2>2, <2>3
<1>8. VersionsUnique'
  BY <1>1 DEF VersionsUnique
<1> QED
  BY <1>2, <1>4, <1>5, <1>6, <1>7, <1>8

(* A fresh xid is nobody's and on no row. *)
LEMMA AssignXidUnique ==
  ASSUME TypeOK, FreshInv, XidInv, NEW c \in Clients, AssignXid(c)
  PROVE  /\ xid'[c] # 0 /\ (xid[c] = 0 => xid'[c] = nextXid) /\ (xid[c] # 0 => xid'[c] = xid[c])
         /\ \A d \in Clients : d # c => xid'[d] = xid[d]
         /\ \A d, f \in Clients : xid'[d] = xid'[f] /\ xid'[d] # 0 => d = f
         /\ \A e \in rows : xid[c] = 0 => e.xid # xid'[c]
<1>1. nextXid \in Nat \ {0} /\ \A e \in rows : e.xid \in Nat /\ e.xid < nextXid
  BY RowFacts DEF TypeOK, FreshInv
<1>2. \A d \in Clients : xid[d] \in Nat /\ xid[d] < nextXid
  BY DEF TypeOK, FreshInv
<1>3. CASE xid[c] = 0
  <2>1. xid' = [xid EXCEPT ![c] = nextXid]
    BY <1>3 DEF AssignXid
  <2>2. xid'[c] = nextXid /\ \A d \in Clients : d # c => xid'[d] = xid[d]
    BY <2>1 DEF TypeOK
  <2> QED
    BY <1>1, <1>2, <1>3, <2>2 DEF XidInv
<1>4. CASE xid[c] # 0
  BY <1>4 DEF AssignXid, XidInv
<1> QED
  BY <1>3, <1>4

(* Giving c, who has written no row, its xid disturbs nobody's rows. *)
LEMMA SelectRowKeepsVersions ==
  ASSUME TypeOK, TypeOK', FreshInv, VersionInv, NEW c \in Clients, SelectRow(c)
  PROVE  VersionInv'
<1> USE DEF VersionInv
<1> DEFINE s == req[c].stream
<1>1. /\ s \in Streams /\ pc[c] = "select" /\ holder[s] = NoClient /\ xid[c] = 0
      /\ holder' = [holder EXCEPT ![s] = c] /\ ver' = [ver EXCEPT ![c] = streamVer[s]]
      /\ pc' = [pc EXCEPT ![c] = "insert"] /\ UNCHANGED <<req, streamVer, rows>>
  BY DEF SelectRow, TypeOK, Requests, XidInv
<1>2. /\ \A d \in Clients : d # c => xid'[d] = xid[d]
      /\ \A d, f \in Clients : xid'[d] = xid'[f] /\ xid'[d] # 0 => d = f
      /\ \A e \in rows : e.xid # xid'[c]
  BY <1>1, AssignXidUnique, RowFacts DEF SelectRow, XidInv
<1>3. XidInv'
  BY <1>1, <1>2 DEF XidInv, TypeOK
<1>4. \A d \in Clients : pc[d] = "insert" => req[d].stream \in Streams /\ req[d].stream # s
  BY <1>1, ConfigAssumption DEF TypeOK, Requests, LockInv
<1>5. LockInv'
  BY <1>1, <1>4, ConfigAssumption DEF LockInv, TypeOK
<1>6. RowInv'
  <2> SUFFICES ASSUME NEW e \in rows
               PROVE  \/ Visible(e)' /\ e.version <= streamVer[e.stream]
                      \/ \E d \in Clients : Owner(e, d)'
    BY <1>1 DEF RowInv
  <2>1. CASE Visible(e) /\ e.version <= streamVer[e.stream]
    BY <1>1, <1>2, <2>1 DEF Visible
  <2>2. ASSUME NEW d \in Clients, Owner(e, d) PROVE Owner(e, d)'
    BY <1>1, <1>2, <2>2 DEF Owner, TypeOK
  <2> QED
    BY <2>1, <2>2 DEF RowInv
<1>7. CommittedInv'
  BY <1>1, <1>2 DEF CommittedInv, Visible
<1>8. WrittenInv'
  <2> SUFFICES ASSUME NEW d \in Clients, pc'[d] = "insert",
                      NEW v \in (streamVer[req[d].stream] + 1) .. ver'[d]
               PROVE  \E e \in rows : e.stream = req[d].stream /\ e.version = v /\ e.xid = xid'[d]
    BY <1>1 DEF WrittenInv
  <2>1. d # c
    BY <1>1 DEF TypeOK
  <2> QED
    BY <1>1, <1>2, <2>1 DEF WrittenInv, TypeOK
<1>9. VersionsUnique'
  BY <1>1 DEF VersionsUnique
<1> QED
  BY <1>3, <1>5, <1>6, <1>7, <1>8, <1>9

LEMMA InsertStreamKeepsVersions ==
  ASSUME TypeOK, TypeOK', FreshInv, VersionInv, NEW c \in Clients, InsertStream(c)
  PROVE  VersionInv'
<1> USE DEF VersionInv
<1>1. /\ pc[c] = "create" /\ xid[c] = 0 /\ pc' = [pc EXCEPT ![c] = "creating"]
      /\ UNCHANGED <<req, ver, streamVer, holder, rows>>
  BY DEF InsertStream, XidInv, tableVars
<1>2. /\ \A d \in Clients : d # c => xid'[d] = xid[d]
      /\ \A d, f \in Clients : xid'[d] = xid'[f] /\ xid'[d] # 0 => d = f
      /\ \A e \in rows : e.xid # xid'[c]
  BY <1>1, AssignXidUnique DEF InsertStream
<1>3. XidInv'
  BY <1>1, <1>2 DEF XidInv, TypeOK
<1>4. LockInv'
  BY <1>1 DEF LockInv, TypeOK
<1>5. RowInv'
  <2> SUFFICES ASSUME NEW e \in rows
               PROVE  \/ Visible(e)' /\ e.version <= streamVer[e.stream]
                      \/ \E d \in Clients : Owner(e, d)'
    BY <1>1 DEF RowInv
  <2>1. CASE Visible(e) /\ e.version <= streamVer[e.stream]
    BY <1>1, <1>2, <2>1 DEF Visible
  <2>2. ASSUME NEW d \in Clients, Owner(e, d) PROVE Owner(e, d)'
    BY <1>1, <1>2, <2>2 DEF Owner, TypeOK
  <2> QED
    BY <2>1, <2>2 DEF RowInv
<1>6. CommittedInv'
  BY <1>1, <1>2 DEF CommittedInv, Visible
<1>7. WrittenInv'
  BY <1>1, <1>2 DEF WrittenInv, TypeOK
<1>8. VersionsUnique'
  BY <1>1 DEF VersionsUnique
<1> QED
  BY <1>3, <1>4, <1>5, <1>6, <1>7, <1>8

(* The rival creators of a stream: only one gets its row into the index. *)
LEMMA StreamInsertedKeepsVersions ==
  ASSUME TypeOK, TypeOK', FreshInv, VersionInv, NEW c \in Clients, StreamInserted(c)
  PROVE  VersionInv'
<1> USE DEF VersionInv
<1> DEFINE s == req[c].stream
<1>1. /\ s \in Streams /\ pc[c] = "creating" /\ streamVer[s] = 0 /\ holder[s] = NoClient
      /\ ver[c] = 0 /\ holder' = [holder EXCEPT ![s] = c] /\ pc' = [pc EXCEPT ![c] = "insert"]
      /\ UNCHANGED <<req, ver, xid, streamVer, rows>>
  BY DEF StreamInserted, TypeOK, Requests, LockInv
<1>2. XidInv'
  BY <1>1 DEF XidInv, TypeOK
<1>3. \A d \in Clients : pc[d] = "insert" => req[d].stream \in Streams /\ req[d].stream # s
  BY <1>1, ConfigAssumption DEF TypeOK, Requests, LockInv
<1>4. LockInv'
  BY <1>1, <1>3, ConfigAssumption DEF LockInv, TypeOK
<1>5. RowInv'
  BY <1>1 DEF RowInv, Visible, Owner, TypeOK
<1>6. CommittedInv'
  BY <1>1 DEF CommittedInv, Visible
<1>7. WrittenInv'
  BY <1>1 DEF WrittenInv, TypeOK
<1>8. VersionsUnique'
  BY <1>1 DEF VersionsUnique
<1> QED
  BY <1>2, <1>4, <1>5, <1>6, <1>7, <1>8

(* The version after ver[c] is above every row of the stream c has locked. *)
LEMMA InsertEventKeepsVersions ==
  ASSUME TypeOK, TypeOK', FreshInv, VersionInv, NEW c \in Clients, InsertEvent(c)
  PROVE  VersionInv'
<1> USE DEF VersionInv
<1> DEFINE s == req[c].stream
<1>0. PICK new : new = [pos |-> nextPos, stream |-> s, version |-> ver[c] + 1, xid |-> xid'[c],
                       by |-> c]
  OBVIOUS
<1>1. /\ s \in Streams /\ pc[c] = "insert" /\ holder[s] = c /\ streamVer[s] <= ver[c]
      /\ rows' = rows \cup {new} /\ ver' = [ver EXCEPT ![c] = @ + 1]
      /\ UNCHANGED <<pc, req, streamVer, holder>>
      /\ ver[c] \in Nat /\ streamVer[s] \in Nat /\ ver'[c] = ver[c] + 1
      /\ new.stream = s /\ new.version = ver[c] + 1 /\ new.xid = xid'[c]
  BY <1>0 DEF InsertEvent, TypeOK, Requests, LockInv
<1>2. /\ xid'[c] # 0 /\ (xid[c] # 0 => xid'[c] = xid[c])
      /\ \A d \in Clients : d # c => xid'[d] = xid[d]
      /\ \A d, f \in Clients : xid'[d] = xid'[f] /\ xid'[d] # 0 => d = f
      /\ \A e \in rows : xid[c] = 0 => e.xid # xid'[c]
  BY AssignXidUnique DEF InsertEvent
<1>3. XidInv'
  BY <1>1, <1>2 DEF XidInv, TypeOK
<1>4. LockInv'
  BY <1>1 DEF LockInv, TypeOK
<1>5. \A e \in rows : e.stream = s => e.version <= ver[c]
  <2> SUFFICES ASSUME NEW e \in rows, e.stream = s PROVE e.version <= ver[c]
    OBVIOUS
  <2>1. CASE e.version <= streamVer[s]
    BY <1>1, <2>1, RowFacts
  <2>2. ASSUME NEW d \in Clients, Owner(e, d) PROVE e.version <= ver[c]
    <3>1. d = c
      BY <1>1, <2>2 DEF Owner, LockInv
    <3> QED
      BY <2>2, <3>1 DEF Owner
  <2> QED
    BY <2>1, <2>2 DEF RowInv
<1>6. \A e \in rows : Visible(e) => Visible(e)'
  BY <1>2, RowFacts DEF Visible
<1>7. ASSUME NEW e \in rows, NEW d \in Clients, Owner(e, d) PROVE Owner(e, d)'
  <2>1. xid'[d] = xid[d]
    BY <1>2, <1>7, RowFacts DEF Owner
  <2>2. ver[d] <= ver'[d] /\ ver[d] \in Nat /\ ver'[d] \in Nat
    BY <1>1 DEF TypeOK
  <2> QED
    BY <1>1, <1>7, <2>1, <2>2, RowFacts DEF Owner
<1>8. Owner(new, c)'
  BY <1>1 DEF Owner, TypeOK
<1>9. RowInv'
  BY <1>1, <1>6, <1>7, <1>8 DEF RowInv
<1>10. CommittedInv'
  BY <1>1, <1>6 DEF CommittedInv
<1>11. WrittenInv'
  <2> SUFFICES ASSUME NEW d \in Clients, pc[d] = "insert",
                      NEW v \in (streamVer[req[d].stream] + 1) .. ver'[d]
               PROVE  \E e \in rows' : e.stream = req[d].stream /\ e.version = v /\ e.xid = xid'[d]
    BY <1>1 DEF WrittenInv
  <2>1. CASE d = c /\ v = ver[c] + 1
    BY <1>1, <2>1
  <2>2. CASE d # c \/ v # ver[c] + 1
    <3>1. v \in (streamVer[req[d].stream] + 1) .. ver[d]
      BY <1>1, <2>2 DEF TypeOK, Requests
    <3>2. PICK e \in rows : e.stream = req[d].stream /\ e.version = v /\ e.xid = xid[d]
      BY <3>1 DEF WrittenInv
    <3>3. xid'[d] = xid[d]
      BY <1>2, <3>2, RowFacts
    <3> QED
      BY <1>1, <3>2, <3>3
  <2> QED
    BY <2>1, <2>2
<1>12. VersionsUnique'
  BY <1>1, <1>5, RowFacts DEF VersionsUnique
<1> QED
  BY <1>3, <1>4, <1>9, <1>10, <1>11, <1>12

(* Committing publishes exactly the versions above the old stream version. *)
LEMMA CommitKeepsVersions ==
  ASSUME TypeOK, TypeOK', FreshInv, VersionInv, NEW c \in Clients, Commit(c)
  PROVE  VersionInv'
<1> USE DEF VersionInv
<1> DEFINE s == req[c].stream
<1>1. /\ s \in Streams /\ pc[c] = "insert" /\ holder[s] = c /\ streamVer[s] <= ver[c]
      /\ ver[c] \in Nat /\ streamVer[s] \in Nat
  BY DEF Commit, TypeOK, Requests, LockInv
<1>2. /\ streamVer' = [streamVer EXCEPT ![s] = ver[c]] /\ rows' = rows
      /\ pc' = [pc EXCEPT ![c] = "idle"] /\ req' = [req EXCEPT ![c] = NoCall]
      /\ ver' = [ver EXCEPT ![c] = 0] /\ xid' = [xid EXCEPT ![c] = 0]
      /\ holder' = [t \in Streams |-> IF holder[t] = c THEN NoClient ELSE holder[t]]
  BY DEF Commit, EndTx
<1>3. XidInv'
  BY <1>2 DEF XidInv, TypeOK
<1>4. \A d \in Clients : d # c /\ pc[d] = "insert" => req[d].stream \in Streams /\ req[d].stream # s
  BY <1>1 DEF TypeOK, Requests, LockInv
<1>5. LockInv'
  BY <1>2, <1>4, ConfigAssumption DEF LockInv, TypeOK
<1>6. \A e \in rows : Visible(e) \/ e.xid = xid[c] => Visible(e)'
  BY <1>2, RowFacts DEF Visible, XidInv, TypeOK
<1>7. RowInv'
  <2> SUFFICES ASSUME NEW e \in rows
               PROVE  \/ Visible(e)' /\ e.version <= streamVer'[e.stream]
                      \/ \E d \in Clients : Owner(e, d)'
    BY <1>2 DEF RowInv
  <2>1. CASE Visible(e) /\ e.version <= streamVer[e.stream]
    BY <1>1, <1>2, <1>6, <2>1, RowFacts DEF TypeOK
  <2>2. CASE Owner(e, c)
    BY <1>1, <1>2, <1>6, <2>2, RowFacts DEF Owner, TypeOK
  <2>3. ASSUME NEW d \in Clients, d # c, Owner(e, d) PROVE Owner(e, d)'
    BY <1>2, <1>4, <2>3, RowFacts DEF Owner, TypeOK
  <2> QED
    BY <2>1, <2>2, <2>3 DEF RowInv
<1>8. CommittedInv'
  <2> SUFFICES ASSUME NEW t \in Streams, NEW v \in 1 .. streamVer'[t]
               PROVE  \E e \in rows : Visible(e)' /\ e.stream = t /\ e.version = v
    BY <1>2 DEF CommittedInv
  <2>1. CASE v \in 1 .. streamVer[t]
    BY <1>6, <2>1 DEF CommittedInv
  <2>2. CASE v \notin 1 .. streamVer[t]
    <3>1. t = s /\ v \in (streamVer[s] + 1) .. ver[c]
      BY <1>1, <1>2, <2>2 DEF TypeOK
    <3>2. PICK e \in rows : e.stream = s /\ e.version = v /\ e.xid = xid[c]
      BY <1>1, <3>1 DEF WrittenInv
    <3> QED
      BY <1>6, <3>1, <3>2
  <2> QED
    BY <2>1, <2>2
<1>9. WrittenInv'
  <2> SUFFICES ASSUME NEW d \in Clients, pc'[d] = "insert",
                      NEW v \in (streamVer'[req'[d].stream] + 1) .. ver'[d]
               PROVE  \E e \in rows : e.stream = req'[d].stream /\ e.version = v /\ e.xid = xid'[d]
    BY <1>2 DEF WrittenInv
  <2>1. d # c /\ pc[d] = "insert" /\ req'[d] = req[d] /\ ver'[d] = ver[d] /\ xid'[d] = xid[d]
    BY <1>2 DEF TypeOK
  <2>2. streamVer'[req[d].stream] = streamVer[req[d].stream]
    BY <1>2, <1>4, <2>1 DEF TypeOK
  <2> QED
    BY <2>1, <2>2 DEF WrittenInv
<1>10. VersionsUnique'
  BY <1>2 DEF VersionsUnique
<1> QED
  BY <1>3, <1>5, <1>7, <1>8, <1>9, <1>10

(* A rewritten row keeps its stream, version and position, and is visible. *)
LEMMA RewriteKeepsVersions ==
  ASSUME TypeOK, TypeOK', FreshInv, VersionInv, NEW e \in rows, Rewrite(e)
  PROVE  VersionInv'
<1> USE DEF VersionInv
<1> DEFINE new == [e EXCEPT !.xid = nextXid]
<1>1. /\ rows' = (rows \ {e}) \cup {new} /\ Visible(e)
      /\ UNCHANGED <<pc, req, ver, xid, streamVer, holder>>
  BY DEF Rewrite, txVars
<1>2. new.pos = e.pos /\ new.stream = e.stream /\ new.version = e.version /\ new.xid = nextXid
  BY DEF TypeOK, Row
<1>3. Visible(new)
  BY <1>2 DEF Visible, FreshInv, TypeOK
<1>4. \A f : Visible(f)' <=> Visible(f)
  BY <1>1 DEF Visible
<1>5. XidInv' /\ LockInv'
  BY <1>1 DEF XidInv, LockInv
<1>6. e.version <= streamVer[e.stream]
  BY <1>1 DEF RowInv, Owner, Visible
<1>7. RowInv'
  BY <1>1, <1>2, <1>3, <1>4, <1>6 DEF RowInv, Owner
<1>8. CommittedInv'
  <2> SUFFICES ASSUME NEW s \in Streams, NEW v \in 1 .. streamVer[s]
               PROVE  \E f \in rows' : Visible(f) /\ f.stream = s /\ f.version = v
    BY <1>1, <1>4 DEF CommittedInv
  <2>1. PICK f \in rows : Visible(f) /\ f.stream = s /\ f.version = v
    BY DEF CommittedInv
  <2>2. CASE f = e
    BY <1>1, <1>2, <1>3, <2>1, <2>2
  <2>3. CASE f # e
    BY <1>1, <2>1, <2>3
  <2> QED
    BY <2>2, <2>3
<1>9. WrittenInv'
  BY <1>1 DEF WrittenInv, Visible
<1>10. VersionsUnique'
  <2> SUFFICES ASSUME NEW f \in rows', NEW g \in rows',
                      f.stream = g.stream, f.version = g.version
               PROVE  f.pos = g.pos
    BY DEF VersionsUnique
  <2>1. PICK f0 \in rows : f0.stream = f.stream /\ f0.version = f.version /\ f0.pos = f.pos
    BY <1>1, <1>2
  <2>2. PICK g0 \in rows : g0.stream = g.stream /\ g0.version = g.version /\ g0.pos = g.pos
    BY <1>1, <1>2
  <2> QED
    BY <2>1, <2>2 DEF VersionsUnique
<1> QED
  BY <1>5, <1>7, <1>8, <1>9, <1>10

LEMMA VersionStep ==
  TypeOK /\ TypeOK' /\ FeedInv /\ VersionInv /\ [Next]_vars => VersionInv'
<1> SUFFICES ASSUME TypeOK, TypeOK', FeedInv, VersionInv, [Next]_vars PROVE VersionInv'
  OBVIOUS
<1>0. FreshInv
  BY DEF FeedInv
<1> USE DEF tableVars, txVars
<1>1. ASSUME NEW c \in Clients, NEW r \in Requests, Begin(c, r) PROVE VersionInv'
  <2>1. /\ pc[c] = "idle" /\ pc' = [pc EXCEPT ![c] = "select"] /\ req' = [req EXCEPT ![c] = r]
        /\ UNCHANGED <<ver, xid, streamVer, holder, rows>>
    BY <1>1 DEF Begin
  <2>2. XidInv' /\ LockInv'
    BY <2>1 DEF VersionInv, XidInv, LockInv, TypeOK
  <2>3. RowInv'
    BY <2>1 DEF VersionInv, RowInv, Visible, Owner, TypeOK
  <2>4. CommittedInv' /\ WrittenInv' /\ VersionsUnique'
    BY <2>1 DEF VersionInv, CommittedInv, WrittenInv, VersionsUnique, Visible, TypeOK
  <2> QED
    BY <2>2, <2>3, <2>4 DEF VersionInv
<1>2. ASSUME NEW c \in Clients, SelectNoRow(c) PROVE VersionInv'
  <2>1. /\ pc[c] = "select" /\ pc' = [pc EXCEPT ![c] = "create"]
        /\ UNCHANGED <<req, ver, xid, streamVer, holder, rows>>
    BY <1>2 DEF SelectNoRow
  <2>2. XidInv' /\ LockInv'
    BY <2>1 DEF VersionInv, XidInv, LockInv, TypeOK
  <2>3. RowInv'
    BY <2>1 DEF VersionInv, RowInv, Visible, Owner, TypeOK
  <2>4. CommittedInv' /\ WrittenInv' /\ VersionsUnique'
    BY <2>1 DEF VersionInv, CommittedInv, WrittenInv, VersionsUnique, Visible, TypeOK
  <2> QED
    BY <2>2, <2>3, <2>4 DEF VersionInv
<1>3. ASSUME NEW c \in Clients, SelectRow(c) PROVE VersionInv'
  BY <1>0, <1>3, SelectRowKeepsVersions
<1>4. ASSUME NEW c \in Clients, Conflict(c) PROVE VersionInv'
  BY <1>0, <1>4, RollbackKeepsVersions DEF Conflict
<1>5. ASSUME NEW c \in Clients, InsertStream(c) PROVE VersionInv'
  BY <1>0, <1>5, InsertStreamKeepsVersions
<1>6. ASSUME NEW c \in Clients, StreamInserted(c) PROVE VersionInv'
  BY <1>0, <1>6, StreamInsertedKeepsVersions
<1>7. ASSUME NEW c \in Clients, StreamDuplicate(c) PROVE VersionInv'
  BY <1>0, <1>7, RollbackKeepsVersions DEF StreamDuplicate
<1>8. ASSUME NEW c \in Clients, InsertEvent(c) PROVE VersionInv'
  BY <1>0, <1>8, InsertEventKeepsVersions
<1>9. ASSUME NEW c \in Clients, Commit(c) PROVE VersionInv'
  BY <1>0, <1>9, CommitKeepsVersions
<1>10. ASSUME NEW c \in Clients, Abort(c) PROVE VersionInv'
  BY <1>0, <1>10, RollbackKeepsVersions DEF Abort
<1>11. ASSUME UNCHANGED <<txVars, tableVars>> PROVE VersionInv'
  BY <1>11 DEF VersionInv, XidInv, LockInv, RowInv, CommittedInv, WrittenInv, VersionsUnique,
               Visible, Owner
<1>12. ASSUME NEW r \in Readers, Read(r) PROVE VersionInv'
  BY <1>11, <1>12 DEF Read, Poll, Deliver, Resubscribe
<1>13. ASSUME NEW e \in rows, Rewrite(e) PROVE VersionInv'
  BY <1>0, <1>13, RewriteKeepsVersions
<1>14. CASE UNCHANGED vars
  BY <1>11, <1>14 DEF vars
<1> QED
  BY <1>1, <1>2, <1>3, <1>4, <1>5, <1>6, <1>7, <1>8, <1>9, <1>10, <1>12, <1>13, <1>14
  DEF Next, AppendCall, Statement

LEMMA StoreInvariant == Spec => [](TypeOK /\ FeedInv /\ VersionInv)
<1>1. Init => TypeOK /\ FeedInv /\ VersionInv
  BY InitType, InitFeed, InitVersion
<1>2. (TypeOK /\ FeedInv /\ VersionInv) /\ [Next]_vars => (TypeOK /\ FeedInv /\ VersionInv)'
  BY TypeStep, FeedStep, VersionStep
<1> QED
  BY <1>1, <1>2, PTL DEF Spec

(***************************************************************************)
(* No two rows ever share a stream and a version: the UNIQUE constraint on *)
(* the events table cannot fire, whatever the clients do.                  *)
(***************************************************************************)
THEOREM VersionsAreUnique == Spec => []VersionsUnique
<1>1. VersionInv => VersionsUnique
  BY DEF VersionInv
<1> QED
  BY <1>1, StoreInvariant, PTL

LEMMA GapFreeFromInv == TypeOK /\ VersionInv => StreamsGapFree
<1> SUFFICES ASSUME TypeOK, VersionInv, NEW s \in Streams
             PROVE  {e.version : e \in {f \in rows : f.stream = s /\ Visible(f)}}
                      = 1 .. streamVer[s]
  BY DEF StreamsGapFree
<1>1. ASSUME NEW e \in rows, e.stream = s, Visible(e) PROVE e.version \in 1 .. streamVer[s]
  <2>1. e.version <= streamVer[s]
    BY <1>1 DEF VersionInv, RowInv, Owner, Visible
  <2> QED
    BY <2>1, RowFacts DEF TypeOK
<1>2. ASSUME NEW v \in 1 .. streamVer[s]
      PROVE  v \in {e.version : e \in {f \in rows : f.stream = s /\ Visible(f)}}
  <2>1. PICK e \in rows : Visible(e) /\ e.stream = s /\ e.version = v
    BY <1>2 DEF VersionInv, CommittedInv
  <2> QED
    BY <2>1
<1> QED
  BY <1>1, <1>2

(***************************************************************************)
(* A stream's committed versions are 1 up to its recorded version, with no *)
(* gap: the version LoadAggregate counts is the version Append checks.     *)
(***************************************************************************)
THEOREM StreamsAreGapFree == Spec => []StreamsGapFree
BY GapFreeFromInv, StoreInvariant, PTL

(* A step takes no committed event away. *)
LEMMA VisibleStays ==
  ASSUME TypeOK, TypeOK', FeedInv, VersionInv, [Next]_vars,
         NEW e \in rows, Visible(e)
  PROVE  \E f \in rows' : /\ Visible(f)'
                          /\ f.stream = e.stream /\ f.version = e.version /\ f.pos = e.pos /\ f.by = e.by
<1> USE DEF tableVars, txVars
<1>0. /\ e.xid \in Nat \ {0} /\ e.xid < nextXid
      /\ \A c \in Clients : xid[c] # e.xid
  BY RowFacts DEF Visible, FeedInv, FreshInv
<1>1. ASSUME e \in rows', \A c \in Clients : xid'[c] = xid[c] \/ xid'[c] = 0 \/ xid'[c] = nextXid
      PROVE  \E f \in rows' : /\ Visible(f)'
                              /\ f.stream = e.stream /\ f.version = e.version /\ f.pos = e.pos /\ f.by = e.by
  <2>1. Visible(e)'
    BY <1>0, <1>1 DEF Visible, TypeOK
  <2> QED
    BY <1>1, <2>1
<1>2. ASSUME NEW c \in Clients, AssignXid(c)
      PROVE  \A d \in Clients : xid'[d] = xid[d] \/ xid'[d] = nextXid
  BY <1>2 DEF AssignXid, TypeOK
<1>3. ASSUME NEW c \in Clients, EndTx(c)
      PROVE  \A d \in Clients : xid'[d] = xid[d] \/ xid'[d] = 0
  BY <1>3 DEF EndTx, TypeOK
<1>4. ASSUME NEW c \in Clients, Rollback(c)
      PROVE  e \in rows' /\ \A d \in Clients : xid'[d] = xid[d] \/ xid'[d] = 0
  BY <1>0, <1>3, <1>4 DEF Rollback
<1>5. ASSUME NEW c \in Clients, Statement(c)
      PROVE  e \in rows' /\ \A d \in Clients : xid'[d] = xid[d] \/ xid'[d] = 0 \/ xid'[d] = nextXid
  <2>1. CASE SelectNoRow(c)
    BY <2>1 DEF SelectNoRow
  <2>2. CASE SelectRow(c)
    BY <1>2, <2>2 DEF SelectRow
  <2>3. CASE Conflict(c)
    BY <1>4, <2>3 DEF Conflict
  <2>4. CASE InsertStream(c)
    BY <1>2, <2>4 DEF InsertStream
  <2>5. CASE StreamInserted(c)
    BY <2>5 DEF StreamInserted
  <2>6. CASE StreamDuplicate(c)
    BY <1>4, <2>6 DEF StreamDuplicate
  <2>7. CASE InsertEvent(c)
    BY <1>2, <2>7 DEF InsertEvent
  <2>8. CASE Commit(c)
    BY <1>3, <2>8 DEF Commit
  <2> QED
    BY <1>5, <2>1, <2>2, <2>3, <2>4, <2>5, <2>6, <2>7, <2>8 DEF Statement
<1>6. CASE \E c \in Clients : AppendCall(c)
  <2>1. PICK c \in Clients : AppendCall(c)
    BY <1>6
  <2>2. CASE \E r \in Requests : Begin(c, r)
    BY <1>1, <2>2 DEF Begin
  <2>3. CASE Statement(c)
    BY <1>1, <1>5, <2>3
  <2>4. CASE Abort(c)
    BY <1>1, <1>4, <2>4 DEF Abort
  <2> QED
    BY <2>1, <2>2, <2>3, <2>4 DEF AppendCall
<1>7. CASE \E r \in Readers : Read(r)
  BY <1>1, <1>7 DEF Read, Poll, Deliver, Resubscribe
<1>8. CASE \E g \in rows : Rewrite(g)
  <2>1. PICK g \in rows : Rewrite(g)
    BY <1>8
  <2>2. PICK new : new = [g EXCEPT !.xid = nextXid]
    OBVIOUS
  <2>3. /\ rows' = (rows \ {g}) \cup {new} /\ UNCHANGED xid
        /\ new.stream = g.stream /\ new.version = g.version /\ new.pos = g.pos /\ new.by = g.by
        /\ new.xid = nextXid
    BY <2>1, <2>2 DEF Rewrite, TypeOK, Row
  <2>4. CASE g # e
    BY <1>1, <2>3, <2>4
  <2>5. CASE g = e
    <3>1. Visible(new)'
      BY <2>3 DEF Visible, FeedInv, FreshInv, TypeOK
    <3> QED
      BY <2>3, <2>5, <3>1
  <2> QED
    BY <2>4, <2>5
<1>9. CASE UNCHANGED vars
  BY <1>1, <1>9 DEF vars
<1> QED
  BY <1>6, <1>7, <1>8, <1>9 DEF Next

LEMMA AppendOnlyStep ==
  ASSUME TypeOK, TypeOK', FeedInv, VersionInv, VersionInv', [Next]_vars
  PROVE  /\ VisibleEvents \subseteq VisibleEvents'
         /\ \A a \in VisibleEvents' \ VisibleEvents, b \in VisibleEvents :
               a[1] = b[1] => a[2] > b[2]
<1>1. VisibleEvents \subseteq VisibleEvents'
  <2> SUFFICES ASSUME NEW a \in VisibleEvents PROVE a \in VisibleEvents'
    OBVIOUS
  <2>1. PICK e \in rows : Visible(e) /\ a = <<e.stream, e.version, e.pos>>
    BY DEF VisibleEvents
  <2>2. PICK f \in rows' : /\ Visible(f)'
                          /\ f.stream = e.stream /\ f.version = e.version /\ f.pos = e.pos
    BY <2>1, VisibleStays
  <2> QED
    BY <2>1, <2>2 DEF VisibleEvents
<1>2. ASSUME NEW a \in VisibleEvents', a \notin VisibleEvents, NEW b \in VisibleEvents, a[1] = b[1]
      PROVE  a[2] > b[2]
  <2>1. PICK e \in rows' : Visible(e)' /\ a = <<e.stream, e.version, e.pos>>
    BY DEF VisibleEvents
  <2>2. PICK g \in rows : Visible(g) /\ b = <<g.stream, g.version, g.pos>>
    BY DEF VisibleEvents
  <2>3. e.stream = g.stream /\ e.stream \in Streams /\ e.version \in Nat \ {0} /\ g.version \in Nat
    BY <1>2, <2>1, <2>2 DEF TypeOK, Row
  <2>4. g.version <= streamVer[e.stream] /\ streamVer[e.stream] \in Nat
    BY <2>2, <2>3 DEF VersionInv, RowInv, Owner, Visible, TypeOK
  <2>5. e.version > streamVer[e.stream]
    <3> SUFFICES ASSUME e.version \in 1 .. streamVer[e.stream] PROVE FALSE
      BY <2>3, <2>4
    <3>1. PICK h \in rows : Visible(h) /\ h.stream = e.stream /\ h.version = e.version
      BY <2>3 DEF VersionInv, CommittedInv
    <3>2. PICK f \in rows' : f.stream = h.stream /\ f.version = h.version /\ f.pos = h.pos
      BY <3>1, VisibleStays
    <3>3. e.pos = h.pos
      BY <3>1, <3>2 DEF VersionInv, VersionsUnique
    <3>4. a \in VisibleEvents
      BY <2>1, <3>1, <3>3 DEF VisibleEvents
    <3> QED
      BY <1>2, <3>4
  <2> QED
    BY <2>1, <2>2, <2>3, <2>4, <2>5
<1> QED
  BY <1>1, <1>2

(***************************************************************************)
(* Streams only grow at the end: a SubscribeStream poll of the versions    *)
(* above its cursor never misses one that commits later.                   *)
(***************************************************************************)
THEOREM StreamsGrowAtTheEnd == Spec => StreamsAppendOnly
<1>1. /\ TypeOK /\ FeedInv /\ VersionInv
      /\ (TypeOK /\ FeedInv /\ VersionInv)'
      /\ [Next]_vars
      => [ /\ VisibleEvents \subseteq VisibleEvents'
           /\ \A a \in VisibleEvents' \ VisibleEvents, b \in VisibleEvents :
                 a[1] = b[1] => a[2] > b[2] ]_vars
  BY AppendOnlyStep
<1> QED
  BY <1>1, StoreInvariant, PTL DEF Spec, StreamsAppendOnly

-----------------------------------------------------------------------------
(* The refinement: the COMMIT of a transaction is the abstract Apply, its  *)
(* rollback the abstract Fail, and every other statement a stutter.        *)

(* The expected version that was checked still holds while c inserts, and  *)
(* ver and left add up to the version the batch ends at.                   *)
BatchFits(c) ==
  LET s == req[c].stream IN
  /\ CheckVersion(req[c].expected, streamVer[s], streamVer[s] # 0)
  /\ ver[c] + left[c] = streamVer[s] + req[c].n

(* What a transaction knows about its call, and that its rows are its own. *)
CallInv ==
  /\ \A c \in Clients : pc[c] = "idle" => req[c] = NoCall
  /\ \A c \in Clients : pc[c] \in {"select", "create", "creating"} => left[c] = req[c].n
  /\ \A c \in Clients : pc[c] \in {"create", "creating"} =>
        CheckVersion(req[c].expected, 0, FALSE)
  /\ \A c \in Clients : pc[c] = "insert" => BatchFits(c)

AuthorInv == \A e \in rows, c \in Clients : xid[c] = e.xid => e.by = c

RefInv == TypeOK /\ FeedInv /\ VersionInv /\ CallInv /\ AuthorInv

LEMMA InitCall == Init => CallInv /\ AuthorInv
<1> SUFFICES ASSUME Init PROVE CallInv /\ AuthorInv
  OBVIOUS
<1>1. CallInv
  BY DEF Init, CallInv
<1>2. AuthorInv
  BY DEF Init, AuthorInv, GenesisRows
<1> QED
  BY <1>1, <1>2

-----------------------------------------------------------------------------
(* Rows are written under their author's transaction id. *)
LEMMA AuthorStep ==
  ASSUME TypeOK, TypeOK', FeedInv, VersionInv, VersionInv', AuthorInv, [Next]_vars
  PROVE  AuthorInv'
<1> USE DEF tableVars, txVars
<1>0. \A e \in rows : e.xid \in Nat \ {0} /\ e.xid < nextXid
  BY RowFacts DEF FeedInv, FreshInv
<1>1. ASSUME rows' \subseteq rows,
             \A d \in Clients : xid'[d] = xid[d] \/ xid'[d] = 0 \/ xid'[d] = nextXid
      PROVE  AuthorInv'
  BY <1>0, <1>1 DEF AuthorInv, TypeOK
<1>2. ASSUME NEW c \in Clients, AssignXid(c)
      PROVE  \A d \in Clients : xid'[d] = xid[d] \/ xid'[d] = nextXid
  BY <1>2 DEF AssignXid, TypeOK
<1>3. ASSUME NEW c \in Clients, EndTx(c)
      PROVE  \A d \in Clients : xid'[d] = xid[d] \/ xid'[d] = 0
  BY <1>3 DEF EndTx, TypeOK
<1>4. ASSUME NEW c \in Clients, AppendCall(c) PROVE AuthorInv'
  <2>1. CASE \E r \in Requests : Begin(c, r)
    BY <1>1, <2>1 DEF Begin
  <2>2. CASE SelectNoRow(c)
    BY <1>1, <2>2 DEF SelectNoRow
  <2>3. CASE SelectRow(c)
    BY <1>1, <1>2, <2>3 DEF SelectRow
  <2>4. CASE Conflict(c)
    BY <1>1, <1>3, <2>4 DEF Conflict, Rollback
  <2>5. CASE InsertStream(c)
    BY <1>1, <1>2, <2>5 DEF InsertStream
  <2>6. CASE StreamInserted(c)
    BY <1>1, <2>6 DEF StreamInserted
  <2>7. CASE StreamDuplicate(c)
    BY <1>1, <1>3, <2>7 DEF StreamDuplicate, Rollback
  <2>8. CASE InsertEvent(c)
    <3>1. PICK new : /\ new = [pos |-> nextPos, stream |-> req[c].stream, version |-> ver[c] + 1,
                               xid |-> xid'[c], by |-> c]
                     /\ rows' = rows \cup {new}
      BY <2>8 DEF InsertEvent
    <3>2. new.by = c /\ new.xid = xid'[c]
      BY <3>1
    <3>3. xid'[c] # 0
      BY <2>8 DEF InsertEvent, AssignXid, TypeOK
    <3>4. \A d \in Clients : xid'[d] = new.xid => d = c
      BY <3>2, <3>3 DEF VersionInv, XidInv
    <3>5. \A e \in rows, d \in Clients : xid'[d] = e.xid => e.by = d
      BY <1>0, <1>2, <2>8 DEF InsertEvent, AuthorInv, TypeOK
    <3> QED
      BY <3>1, <3>2, <3>4, <3>5 DEF AuthorInv
  <2>9. CASE Commit(c)
    BY <1>1, <1>3, <2>9 DEF Commit
  <2>10. CASE Abort(c)
    BY <1>1, <1>3, <2>10 DEF Abort, Rollback
  <2> QED
    BY <1>4, <2>1, <2>2, <2>3, <2>4, <2>5, <2>6, <2>7, <2>8, <2>9, <2>10
    DEF AppendCall, Statement
<1>5. CASE \E r \in Readers : Read(r)
  BY <1>1, <1>5 DEF Read, Poll, Deliver, Resubscribe
<1>6. CASE \E g \in rows : Rewrite(g)
  <2>1. PICK g \in rows : Rewrite(g)
    BY <1>6
  <2>2. PICK new : new = [g EXCEPT !.xid = nextXid]
    OBVIOUS
  <2>3. rows' = (rows \ {g}) \cup {new} /\ UNCHANGED xid /\ new.xid = nextXid
    BY <2>1, <2>2 DEF Rewrite, TypeOK, Row
  <2>4. \A d \in Clients : xid'[d] # new.xid
    BY <2>3 DEF FeedInv, FreshInv, TypeOK
  <2> QED
    BY <2>3, <2>4 DEF AuthorInv
<1>7. CASE UNCHANGED vars
  BY <1>1, <1>7 DEF vars
<1> QED
  BY <1>4, <1>5, <1>6, <1>7 DEF Next

(***************************************************************************)
(* A transaction that inserts holds its stream's row, so nobody moves the  *)
(* version it checked; one statement of its own keeps the sum.             *)
(***************************************************************************)
LEMMA CallStep ==
  ASSUME TypeOK, TypeOK', VersionInv, CallInv, [Next]_vars
  PROVE  CallInv'
<1> USE DEF tableVars, txVars
<1>1. ASSUME UNCHANGED <<pc, req, ver, left, streamVer>>
      PROVE  CallInv'
  BY <1>1 DEF CallInv, BatchFits
<1>2. ASSUME NEW c \in Clients, EndTx(c), UNCHANGED streamVer
      PROVE  CallInv'
  BY <1>2 DEF EndTx, CallInv, BatchFits, TypeOK
<1>3. ASSUME NEW c \in Clients, AppendCall(c) PROVE CallInv'
  <2>1. CASE \E r \in Requests : Begin(c, r)
    <3>1. PICK r \in Requests : Begin(c, r)
      BY <2>1
    <3>2. pc'[c] = "select" /\ left'[c] = r.n /\ req'[c] = r /\ UNCHANGED streamVer
      BY <3>1 DEF Begin, TypeOK
    <3>3. \A d \in Clients \ {c} :
             pc'[d] = pc[d] /\ req'[d] = req[d] /\ ver'[d] = ver[d] /\ left'[d] = left[d]
      BY <3>1 DEF Begin, TypeOK
    <3> QED
      BY <3>2, <3>3 DEF CallInv, BatchFits
  <2>2. CASE SelectNoRow(c)
    BY <2>2 DEF SelectNoRow, CallInv, BatchFits, TypeOK
  <2>3. CASE SelectRow(c)
    <3>1. req[c] \in Requests /\ left[c] = req[c].n
      BY <2>3 DEF SelectRow, CallInv, TypeOK
    <3>2. BatchFits(c)'
      BY <2>3, <3>1 DEF SelectRow, BatchFits, TypeOK, Requests
    <3> QED
      BY <2>3, <3>2 DEF SelectRow, CallInv, BatchFits, TypeOK
  <2>4. CASE Conflict(c)
    BY <1>2, <2>4 DEF Conflict, Rollback
  <2>5. CASE InsertStream(c)
    BY <2>5 DEF InsertStream, CallInv, BatchFits, TypeOK
  <2>6. CASE StreamInserted(c)
    <3>1. req[c] \in Requests /\ left[c] = req[c].n /\ ver[c] = 0 /\ streamVer[req[c].stream] = 0
      BY <2>6 DEF StreamInserted, CallInv, TypeOK, VersionInv, LockInv
    <3>2. CheckVersion(req[c].expected, 0, FALSE)
      BY <2>6 DEF StreamInserted, CallInv
    <3>3. CheckVersion(req[c].expected, 0, 0 # 0)
      BY <3>2 DEF CheckVersion
    <3>4. BatchFits(c)'
      BY <2>6, <3>1, <3>3 DEF StreamInserted, BatchFits, Requests
    <3> QED
      BY <2>6, <3>4 DEF StreamInserted, CallInv, BatchFits, TypeOK
  <2>7. CASE StreamDuplicate(c)
    BY <1>2, <2>7 DEF StreamDuplicate, Rollback
  <2>8. CASE InsertEvent(c)
    <3>1. ver'[c] + left'[c] = ver[c] + left[c] /\ UNCHANGED <<pc, req, streamVer>>
      BY <2>8 DEF InsertEvent, TypeOK
    <3>2. \A d \in Clients \ {c} : ver'[d] = ver[d] /\ left'[d] = left[d]
      BY <2>8 DEF InsertEvent, TypeOK
    <3>3. pc[c] = "insert"
      BY <2>8 DEF InsertEvent
    <3> QED
      BY <3>1, <3>2, <3>3 DEF CallInv, BatchFits
  <2>9. CASE Commit(c)
    <3>1. \A d \in Clients \ {c} : pc[d] = "insert" => req[d].stream # req[c].stream
      BY <2>9 DEF Commit, VersionInv, LockInv
    <3>0. \A d \in Clients : pc[d] = "insert" => req[d].stream \in Streams
      BY DEF TypeOK, Requests
    <3>2. \A d \in Clients \ {c} : pc[d] = "insert" => streamVer'[req[d].stream] = streamVer[req[d].stream]
      BY <2>9, <3>0, <3>1 DEF Commit, TypeOK
    <3>3. \A d \in Clients \ {c} :
             pc'[d] = pc[d] /\ req'[d] = req[d] /\ ver'[d] = ver[d] /\ left'[d] = left[d]
      BY <2>9 DEF Commit, EndTx, TypeOK
    <3>4. pc'[c] = "idle" /\ req'[c] = NoCall
      BY <2>9 DEF Commit, EndTx, TypeOK
    <3>5. \A d \in Clients \ {c} : pc[d] = "insert" => BatchFits(d) /\ pc'[d] = "insert"
      BY <3>3 DEF CallInv
    <3>6. \A d \in Clients \ {c} : pc[d] = "insert" => BatchFits(d)'
      BY <3>2, <3>3, <3>5 DEF BatchFits
    <3>7. \A d \in Clients : pc'[d] = "insert" => BatchFits(d)'
      BY <3>3, <3>4, <3>6
    <3> QED
      BY <3>3, <3>4, <3>7 DEF CallInv
  <2>10. CASE Abort(c)
    BY <1>2, <2>10 DEF Abort, Rollback
  <2> QED
    BY <1>3, <2>1, <2>2, <2>3, <2>4, <2>5, <2>6, <2>7, <2>8, <2>9, <2>10
    DEF AppendCall, Statement
<1>4. CASE \E r \in Readers : Read(r)
  BY <1>1, <1>4 DEF Read, Poll, Deliver, Resubscribe
<1>5. CASE \E g \in rows : Rewrite(g)
  BY <1>1, <1>5 DEF Rewrite
<1>6. CASE UNCHANGED vars
  BY <1>1, <1>6 DEF vars
<1> QED
  BY <1>3, <1>4, <1>5, <1>6 DEF Next

LEMMA RefInvariant == Spec => []RefInv
<1>1. Init => CallInv /\ AuthorInv
  BY InitCall
<1>2. /\ CallInv /\ AuthorInv /\ (TypeOK /\ FeedInv /\ VersionInv)
      /\ (TypeOK /\ FeedInv /\ VersionInv)' /\ [Next]_vars
      => (CallInv /\ AuthorInv)'
  BY CallStep, AuthorStep
<1> QED
  BY <1>1, <1>2, StoreInvariant, PTL DEF Spec, RefInv

-----------------------------------------------------------------------------
(* A committed row is the only one of its version: Author finds its author. *)
LEMMA AuthorIs ==
  RefInv => \A e \in rows : Visible(e) => Author(e.stream, e.version) = e.by
<1> SUFFICES ASSUME RefInv, NEW e \in rows, Visible(e)
             PROVE  Author(e.stream, e.version) = e.by
  OBVIOUS
<1> DEFINE P(f) == f.stream = e.stream /\ f.version = e.version /\ Visible(f)
<1>1. \A f \in rows : P(f) => f = e
  BY DEF RefInv, VersionInv, VersionsUnique, FeedInv, FreshInv
<1>2. P(e)
  OBVIOUS
<1> HIDE DEF P
<1>3. (CHOOSE f \in rows : P(f)) = e
  BY <1>1, <1>2
<1> QED
  BY <1>3 DEF Author, P

LEMMA AuthorIsNext ==
  (RefInv => \A e \in rows : Visible(e) => Author(e.stream, e.version) = e.by)'
  BY AuthorIs, PTL

(* What is committed keeps its author. *)
LEMMA AuthorStays ==
  ASSUME RefInv, RefInv', [Next]_vars,
         NEW s \in Streams, NEW v \in 1 .. streamVer[s]
  PROVE  Author(s, v)' = Author(s, v)
<1>1. PICK e \in rows : Visible(e) /\ e.stream = s /\ e.version = v
  BY DEF RefInv, VersionInv, CommittedInv
<1>2. PICK f \in rows' : Visible(f)' /\ f.stream = s /\ f.version = v /\ f.by = e.by
  BY <1>1, VisibleStays DEF RefInv
<1>3. Author(s, v) = e.by
  BY <1>1, AuthorIs
<1>4. Author(s, v)' = f.by
  BY <1>2, AuthorIsNext
<1> QED
  BY <1>2, <1>3, <1>4

(* A step that commits nothing leaves the abstract log alone. *)
LEMMA LogStays ==
  ASSUME RefInv, RefInv', [Next]_vars, UNCHANGED streamVer
  PROVE  UNCHANGED CommittedLog
BY AuthorStays DEF CommittedLog

LEMMA LogShape ==
  ASSUME RefInv, NEW s \in Streams
  PROVE  /\ Len(CommittedLog[s]) = streamVer[s]
         /\ CommittedLog[s] # << >> <=> streamVer[s] # 0
         /\ \A v \in 1 .. streamVer[s] : CommittedLog[s][v] = Author(s, v)
<1>1. CommittedLog[s] = [v \in 1 .. streamVer[s] |-> Author(s, v)] /\ streamVer[s] \in Nat
  BY DEF CommittedLog, RefInv, TypeOK
<1>2. Len(CommittedLog[s]) = streamVer[s]
  BY <1>1
<1> QED
  BY <1>1, <1>2

(* COMMIT is Apply: the rows that become visible are the batch. *)
LEMMA CommitApplies ==
  ASSUME RefInv, RefInv', [Next]_vars, NEW c \in Clients, Commit(c)
  PROVE  Log!Apply(c)
<1>a. PICK s : s = req[c].stream
  OBVIOUS
<1>b. PICK n : n = req[c].n
  OBVIOUS
<1>1. pc[c] = "insert" /\ left[c] = 0 /\ streamVer' = [streamVer EXCEPT ![s] = ver[c]] /\ rows' = rows
  BY <1>a DEF Commit
<1>2. req[c] \in Requests /\ s \in Streams /\ n \in Nat \ {0}
  BY <1>1, <1>a, <1>b DEF RefInv, TypeOK, Requests
<1>3. BatchFits(c)
  BY <1>1 DEF RefInv, CallInv
<1>4. streamVer[s] \in Nat /\ ver[c] = streamVer[s] + n
  BY <1>1, <1>2, <1>3, <1>a, <1>b DEF BatchFits, RefInv, TypeOK
<1>5. req' = [req EXCEPT ![c] = NoCall]
  BY DEF Commit, EndTx
<1>6. CheckVersion(req[c].expected, Len(CommittedLog[s]), CommittedLog[s] # << >>)
  BY <1>2, <1>3, <1>a, LogShape DEF BatchFits, CheckVersion
<1>7. ASSUME NEW v \in streamVer[s] + 1 .. ver[c]
      PROVE  Author(s, v)' = c
  <2>1. PICK e \in rows : e.stream = s /\ e.version = v /\ e.xid = xid[c]
    BY <1>1, <1>a DEF RefInv, VersionInv, WrittenInv
  <2>2. e.by = c
    BY <2>1 DEF RefInv, AuthorInv
  <2>3. xid' = [xid EXCEPT ![c] = 0] /\ e.xid # 0
    BY RowFacts DEF Commit, EndTx, RefInv
  <2>4. Visible(e)'
    BY <2>1, <2>3 DEF Visible, RefInv, TypeOK, VersionInv, XidInv
  <2>5. e \in rows'
    BY <1>1
  <2>6. Author(e.stream, e.version)' = e.by
    BY <2>4, <2>5, AuthorIsNext
  <2> QED
    BY <2>1, <2>2, <2>6
<1>8. CommittedLog'[s] = CommittedLog[s] \o [i \in 1 .. n |-> c]
  <2>1. streamVer'[s] = ver[c]
    BY <1>1, <1>2 DEF RefInv, TypeOK
  <2>2. CommittedLog'[s] = [v \in 1 .. ver[c] |-> Author(s, v)']
    BY <1>2, <2>1 DEF CommittedLog
  <2>3. CommittedLog[s] = [v \in 1 .. streamVer[s] |-> Author(s, v)]
    BY <1>2 DEF CommittedLog
  <2>4. \A v \in 1 .. streamVer[s] : Author(s, v)' = Author(s, v)
    BY <1>2, AuthorStays
  <2>5. \A v \in 1 .. ver[c] :
           Author(s, v)' = IF v <= streamVer[s] THEN CommittedLog[s][v] ELSE c
    BY <1>4, <1>2, <1>7, <2>3, <2>4
  <2> HIDE DEF CommittedLog
  <2>6. CommittedLog'[s] = [v \in 1 .. ver[c] |->
                              IF v <= streamVer[s] THEN CommittedLog[s][v] ELSE c]
    BY <2>2, <2>5
  <2>7. Len(CommittedLog[s]) = streamVer[s]
    BY <1>2, LogShape
  <2>8. PICK L : L = CommittedLog[s]
    OBVIOUS
  <2>9. L \in Seq(Range(L)) /\ Len(L) = streamVer[s]
    BY <1>4, <2>3, <2>7, <2>8 DEF Range
  <2>10. L \o [i \in 1 .. n |-> c]
          = [v \in 1 .. streamVer[s] + n |-> IF v <= streamVer[s] THEN L[v] ELSE c]
    BY <1>2, <1>4, <2>9
  <2> QED
    BY <1>4, <2>6, <2>8, <2>10
<1>9. \A q \in Streams \ {s} : CommittedLog'[q] = CommittedLog[q]
  BY <1>1, AuthorStays DEF CommittedLog, RefInv, TypeOK
<1>10. CommittedLog' = [CommittedLog EXCEPT ![s] = @ \o [i \in 1 .. n |-> c]]
  <2>1. DOMAIN CommittedLog = Streams /\ DOMAIN CommittedLog' = Streams
    BY DEF CommittedLog
  <2>2. CommittedLog' = [q \in Streams |-> CommittedLog'[q]]
    BY DEF CommittedLog
  <2>3. CommittedLog = [q \in Streams |-> CommittedLog[q]]
    BY DEF CommittedLog
  <2> QED
    BY <1>2, <1>8, <1>9, <2>1, <2>2, <2>3
<1>11. req[c] # NoCall
  <2>1. NoCall.n = 0
    BY DEF NoCall
  <2> QED
    BY <1>2, <1>b, <2>1
<1>12. NoCall = Log!NoCall
  BY DEF NoCall, Log!NoCall
<1>13. Log!CheckVersion(req[c].expected, Len(CommittedLog[s]), CommittedLog[s] # << >>)
  BY <1>6 DEF CheckVersion, Log!CheckVersion, Log!AnyVersion, Log!NoStream, Log!StreamExists,
              AnyVersion, NoStream, StreamExists
<1> HIDE DEF NoCall
<1> QED
  BY <1>5, <1>10, <1>11, <1>12, <1>13, <1>a, <1>b DEF Log!Apply

LEMMA RollbackFails ==
  ASSUME RefInv, RefInv', [Next]_vars, NEW c \in Clients, pc[c] # "idle", Rollback(c)
  PROVE  Log!Fail(c)
<1>1. UNCHANGED CommittedLog
  BY LogStays DEF Rollback
<1>2. req[c] # NoCall
  BY DEF RefInv, TypeOK, Requests, NoCall
<1> QED
  BY <1>1, <1>2 DEF Log!Fail, Log!NoCall, NoCall, Rollback, EndTx

LEMMA StepSimulation ==
  ASSUME RefInv, RefInv', [Next]_vars
  PROVE  [Log!Next]_(Log!vars)
<1> USE DEF tableVars, txVars
<1>1. ASSUME UNCHANGED <<req, streamVer>>
      PROVE  UNCHANGED Log!vars
  BY <1>1, LogStays DEF Log!vars
<1>2. ASSUME NEW c \in Clients, AppendCall(c) PROVE [Log!Next]_(Log!vars)
  <2>1. CASE \E r \in Requests : Begin(c, r)
    <3>1. PICK r \in Requests : Begin(c, r)
      BY <2>1
    <3>2. UNCHANGED CommittedLog
      BY <3>1, LogStays DEF Begin
    <3>3. Log!Submit(c, r)
      BY <3>1, <3>2 DEF Begin, Log!Submit, Log!NoCall, NoCall, RefInv, CallInv
    <3> QED
      BY <3>3 DEF Log!Next
  <2>2. CASE SelectNoRow(c) \/ SelectRow(c)
    BY <1>1, <2>2 DEF SelectNoRow, SelectRow
  <2>3. CASE InsertStream(c) \/ StreamInserted(c)
    BY <1>1, <2>3 DEF InsertStream, StreamInserted
  <2>4. CASE InsertEvent(c)
    BY <1>1, <2>4 DEF InsertEvent
  <2>5. CASE Conflict(c) \/ StreamDuplicate(c) \/ Abort(c)
    BY <2>5, RollbackFails DEF Conflict, StreamDuplicate, Abort, Log!Next
  <2>6. CASE Commit(c)
    BY <2>6, CommitApplies DEF Log!Next
  <2> QED
    BY <1>2, <2>1, <2>2, <2>3, <2>4, <2>5, <2>6 DEF AppendCall, Statement
<1>3. CASE \E r \in Readers : Read(r)
  BY <1>1, <1>3 DEF Read, Poll, Deliver, Resubscribe
<1>4. CASE \E g \in rows : Rewrite(g)
  BY <1>1, <1>4 DEF Rewrite
<1>5. CASE UNCHANGED vars
  BY <1>1, <1>5 DEF vars
<1> QED
  BY <1>2, <1>3, <1>4, <1>5 DEF Next

LEMMA InitSimulation == Init => Log!Init
<1> SUFFICES ASSUME Init PROVE Log!Init
  OBVIOUS
<1>1. RefInv
  BY InitType, InitFeed, InitVersion, InitCall DEF RefInv
<1>2. ASSUME NEW s \in Streams
      PROVE  CommittedLog[s] = IF s \in {GenesisOrder[i] : i \in 1 .. Len(GenesisOrder)}
                               THEN <<NoClient>> ELSE << >>
  <2>1. CASE s \in {GenesisOrder[i] : i \in 1 .. Len(GenesisOrder)}
    <3>1. PICK i \in 1 .. Len(GenesisOrder) : GenesisOrder[i] = s
      BY <2>1
    <3>2. streamVer[s] = 1
      BY <3>1 DEF Init
    <3>3. PICK e \in rows : Visible(e) /\ e.stream = s /\ e.version = 1
      BY <1>1, <3>2 DEF RefInv, VersionInv, CommittedInv
    <3>4. e.by = NoClient
      BY <3>3 DEF Init, GenesisRows
    <3>5. Author(s, 1) = NoClient
      BY <1>1, <3>3, <3>4, AuthorIs
    <3>6. CommittedLog[s] = [v \in 1 .. 1 |-> Author(s, v)]
      BY <3>2 DEF CommittedLog
    <3> QED
      BY <2>1, <3>5, <3>6
  <2>2. CASE s \notin {GenesisOrder[i] : i \in 1 .. Len(GenesisOrder)}
    <3>1. streamVer[s] = 0
      BY <2>2 DEF Init
    <3>2. CommittedLog[s] = [v \in 1 .. 0 |-> Author(s, v)]
      BY <3>1 DEF CommittedLog
    <3> QED
      BY <2>2, <3>2
  <2> QED
    BY <2>1, <2>2
<1>3. CommittedLog = [s \in Streams |-> IF s \in {GenesisOrder[i] : i \in 1 .. Len(GenesisOrder)}
                                        THEN <<NoClient>> ELSE << >>]
  BY <1>2 DEF CommittedLog
<1> QED
  BY <1>3 DEF Init, Log!Init, Log!NoCall, NoCall

(***************************************************************************)
(* Append is linearizable: the interleaved statements of any number of     *)
(* appendInTx transactions are a behaviour of the abstract log, in which a *)
(* batch takes effect at once against the version it expects.              *)
(***************************************************************************)
THEOREM AppendsAreAtomic == Spec => ImplementsEventLog
<1>1. RefInv /\ RefInv' /\ [Next]_vars => [Log!Next]_(Log!vars)
  BY StepSimulation
<1> QED
  BY <1>1, InitSimulation, RefInvariant, PTL DEF Spec, ImplementsEventLog, Log!Spec
=============================================================================
