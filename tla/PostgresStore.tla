---------------------------- MODULE PostgresStore ----------------------------
(***************************************************************************)
(* The PostgreSQL adapter: concurrent Append transactions and the polling  *)
(* subscriptions that read the global feed behind them.                    *)
(*                                                                         *)
(* adapters/postgres/postgres.go, appendInTx: a transaction locks the      *)
(* stream row if there is one, checks the expected version, creates the    *)
(* row if there is none, inserts the events one statement at a time (each  *)
(* takes the next value of the global_position sequence), updates the row  *)
(* and commits.  adapters/postgres/subscription.go: a reader repeatedly    *)
(* loads the rows above its cursor whose writer is older than every        *)
(* transaction still in flight, and advances the cursor past the batch.    *)
(*                                                                         *)
(* PostgreSQL itself (READ COMMITTED, row locks, unique indexes, xids,     *)
(* sequences, snapshots) is external and modelled from how the adapter     *)
(* uses it.                                                                *)
(***************************************************************************)
EXTENDS ExpectedVersion, Sequences, FiniteSets

CONSTANTS
  Streams,       \* stream ids
  Clients,       \* goroutines that call Append
  Readers,       \* subscriptions on the global feed
  Filter,        \* Filter[r]: the streams subscription r is about
  NoClient,      \* nobody: a free row lock, the author of genesis events
  GenesisOrder,  \* the streams that already hold one event, in position order
  Limit,         \* the LIMIT of the position scan (the subscription's buffer)
  XidAtLock,     \* TRUE: SELECT ... FOR UPDATE on a row assigns an xid
  MaxBatch,      \* bound: events in one Append call
  MaxExpected,   \* bound: the largest explicit expected version of a call
  MaxAppends,    \* bound: Append calls
  Budgets        \* bounds: appends, in-place rewrites of a stored event and
                 \* subscription restarts; a behaviour is given one of them

ASSUME BoundsAssumption ==
  /\ Limit \in Nat \ {0}
  /\ MaxBatch \in Nat \ {0}
  /\ MaxExpected \in Nat /\ MaxAppends \in Nat
  /\ Budgets \subseteq [append : 0 .. MaxAppends, rewrite : Nat, restart : Nat]

ASSUME ConfigAssumption ==
  /\ XidAtLock \in BOOLEAN
  /\ Filter \in [Readers -> SUBSET Streams]
  /\ NoClient \notin Clients

ASSUME GenesisAssumption ==
  /\ GenesisOrder \in Seq(Streams)
  /\ \A i, j \in 1 .. Len(GenesisOrder) :
        GenesisOrder[i] = GenesisOrder[j] => i = j

VARIABLES
  nextXid,    \* the next transaction id
  nextPos,    \* the next value of the global_position sequence
  pc,         \* pc[c]: the next statement of client c's Append
  req,        \* req[c]: the arguments of client c's Append
  ver,        \* ver[c]: appendInTx's currentVersion
  left,       \* left[c]: events of the batch not inserted yet
  xid,        \* xid[c]: c's transaction id; 0 while it has none
  streamVer,  \* streamVer[s]: the committed streams.version; 0 = no row
  holder,     \* holder[s]: whose transaction locks or has inserted the row
  rows,       \* the events table, rows of open transactions included
  cursor,     \* cursor[r]: the position subscription r has advanced to
  batch,      \* batch[r]: rows loaded by r and not yet delivered
  delivered,  \* delivered[r]: rows r has handed to its consumer
  budget      \* how many bounded steps are left

txVars == <<pc, req, ver, left, xid>>
tableVars == <<streamVer, holder, rows>>
readVars == <<cursor, batch, delivered>>
vars == <<nextXid, nextPos, txVars, tableVars, readVars, budget>>

-----------------------------------------------------------------------------
Requests ==
  [stream : Streams, expected : {AnyVersion, StreamExists} \cup (0 .. MaxExpected),
   n : 1 .. MaxBatch]

Row == [pos : Nat \ {0}, stream : Streams, version : Nat \ {0}, xid : Nat \ {0},
        by : Clients \cup {NoClient}]

GenesisRows ==
  {[pos |-> i, stream |-> GenesisOrder[i], version |-> 1, xid |-> i, by |-> NoClient] :
     i \in 1 .. Len(GenesisOrder)}

(* The arguments a client has none of: no Append is in progress. *)
NoCall == [stream |-> NoClient, expected |-> 0, n |-> 0]

Init ==
  /\ nextXid = Len(GenesisOrder) + 1
  /\ nextPos = Len(GenesisOrder) + 1
  /\ pc = [c \in Clients |-> "idle"]
  /\ req = [c \in Clients |-> NoCall]
  /\ ver = [c \in Clients |-> 0]
  /\ left = [c \in Clients |-> 0]
  /\ xid = [c \in Clients |-> 0]
  /\ streamVer = [s \in Streams |->
                    IF \E i \in 1 .. Len(GenesisOrder) : GenesisOrder[i] = s THEN 1 ELSE 0]
  /\ holder = [s \in Streams |-> NoClient]
  /\ rows = GenesisRows
  /\ cursor = [r \in Readers |-> 0]
  /\ batch = [r \in Readers |-> {}]
  /\ delivered = [r \in Readers |-> {}]
  /\ budget \in Budgets

-----------------------------------------------------------------------------
(* Transactions. *)

(* BEGIN.  Append has validated the stream id and the batch size. *)
Begin(c, r) ==
  /\ pc[c] = "idle"
  /\ budget.append > 0
  /\ budget' = [budget EXCEPT !.append = @ - 1]
  /\ pc' = [pc EXCEPT ![c] = "select"]
  /\ req' = [req EXCEPT ![c] = r]
  /\ left' = [left EXCEPT ![c] = r.n]
  /\ UNCHANGED <<nextXid, nextPos, ver, xid, tableVars, readVars>>

(* Mutant: the row lock outlives the transaction. *)
EndTxKeepsLock(c) ==
  /\ pc' = [pc EXCEPT ![c] = "idle"]
  /\ req' = [req EXCEPT ![c] = NoCall]
  /\ ver' = [ver EXCEPT ![c] = 0]
  /\ left' = [left EXCEPT ![c] = 0]
  /\ xid' = [xid EXCEPT ![c] = 0]
  /\ UNCHANGED holder

(* The end of c's transaction, however it ends: locks and xid are gone. *)
EndTx(c) ==
  /\ pc' = [pc EXCEPT ![c] = "idle"]
  /\ req' = [req EXCEPT ![c] = NoCall]
  /\ ver' = [ver EXCEPT ![c] = 0]
  /\ left' = [left EXCEPT ![c] = 0]
  /\ xid' = [xid EXCEPT ![c] = 0]
  /\ holder' = [s \in Streams |-> IF holder[s] = c THEN NoClient ELSE holder[s]]

(* The deferred tx.Rollback(): the rows of the transaction never were. *)
Rollback(c) ==
  /\ EndTx(c)
  /\ rows' = {e \in rows : e.xid # xid[c]}
  /\ UNCHANGED <<nextXid, nextPos, streamVer, readVars, budget>>

(* The statement of c assigns a transaction id if c has none. *)
AssignXid(c) ==
  IF xid[c] = 0
  THEN xid' = [xid EXCEPT ![c] = nextXid] /\ nextXid' = nextXid + 1
  ELSE UNCHANGED <<xid, nextXid>>

(***************************************************************************)
(* SELECT version ... FOR UPDATE, then CheckVersion.  No committed row: no *)
(* lock is taken and the version is 0.  A row: the statement waits for its *)
(* lock and reads the version the last holder committed.                   *)
(***************************************************************************)
SelectNoRow(c) ==
  /\ pc[c] = "select"
  /\ streamVer[req[c].stream] = 0
  /\ CheckVersion(req[c].expected, 0, FALSE)
  /\ pc' = [pc EXCEPT ![c] = "create"]
  /\ UNCHANGED <<nextXid, nextPos, req, ver, left, xid, tableVars, readVars, budget>>

(* Mutant: SELECT version without FOR UPDATE. *)
SelectRowUnlocked(c) ==
  LET s == req[c].stream IN
  /\ pc[c] = "select"
  /\ streamVer[s] # 0
  /\ CheckVersion(req[c].expected, streamVer[s], TRUE)
  /\ ver' = [ver EXCEPT ![c] = streamVer[s]]
  /\ pc' = [pc EXCEPT ![c] = "insert"]
  /\ UNCHANGED <<nextXid, nextPos, req, left, xid, tableVars, readVars, budget>>

SelectRow(c) ==
  LET s == req[c].stream IN
  /\ pc[c] = "select"
  /\ streamVer[s] # 0
  /\ holder[s] = NoClient
  /\ CheckVersion(req[c].expected, streamVer[s], TRUE)
  /\ holder' = [holder EXCEPT ![s] = c]
  /\ ver' = [ver EXCEPT ![c] = streamVer[s]]
  /\ pc' = [pc EXCEPT ![c] = "insert"]
  /\ IF XidAtLock THEN AssignXid(c) ELSE UNCHANGED <<xid, nextXid>>
  /\ UNCHANGED <<nextPos, req, left, streamVer, rows, readVars, budget>>

(* CheckVersion refuses the version that was read: appendInTx returns. *)
Conflict(c) ==
  LET s == req[c].stream IN
  /\ pc[c] = "select"
  /\ streamVer[s] # 0 => holder[s] = NoClient
  /\ ~ CheckVersion(req[c].expected, streamVer[s], streamVer[s] # 0)
  /\ Rollback(c)

(* INSERT INTO streams: the row gets the xid, then meets the unique index. *)
InsertStream(c) ==
  /\ pc[c] = "create"
  /\ AssignXid(c)
  /\ pc' = [pc EXCEPT ![c] = "creating"]
  /\ UNCHANGED <<nextPos, req, ver, left, tableVars, readVars, budget>>

(* No other row for the stream: c's uncommitted row is in the index. *)
StreamInserted(c) ==
  LET s == req[c].stream IN
  /\ pc[c] = "creating"
  /\ streamVer[s] = 0
  /\ holder[s] = NoClient
  /\ holder' = [holder EXCEPT ![s] = c]
  /\ pc' = [pc EXCEPT ![c] = "insert"]
  /\ UNCHANGED <<nextXid, nextPos, req, ver, left, xid, streamVer, rows, readVars, budget>>

(* Another creator committed first: unique violation, reported as a conflict. *)
StreamDuplicate(c) ==
  /\ pc[c] = "creating"
  /\ streamVer[req[c].stream] # 0
  /\ Rollback(c)

(* Mutant: the loop inserts one event more than the batch has. *)
InsertEventTooMany(c) ==
  /\ pc[c] = "insert"
  /\ left[c] >= 0
  /\ AssignXid(c)
  /\ rows' = rows \cup {[pos |-> nextPos, stream |-> req[c].stream, version |-> ver[c] + 1,
                         xid |-> xid'[c], by |-> c]}
  /\ nextPos' = nextPos + 1
  /\ ver' = [ver EXCEPT ![c] = @ + 1]
  /\ left' = [left EXCEPT ![c] = @ - 1]
  /\ UNCHANGED <<pc, req, streamVer, holder, readVars, budget>>

(***************************************************************************)
(* One INSERT INTO events ... RETURNING global_position.  The UNIQUE       *)
(* (stream_id, version) constraint is left out: VersionsUnique shows that  *)
(* the row lock alone keeps it from ever firing.                           *)
(***************************************************************************)
InsertEvent(c) ==
  /\ pc[c] = "insert"
  /\ left[c] > 0
  /\ AssignXid(c)
  /\ rows' = rows \cup {[pos |-> nextPos, stream |-> req[c].stream, version |-> ver[c] + 1,
                         xid |-> xid'[c], by |-> c]}
  /\ nextPos' = nextPos + 1
  /\ ver' = [ver EXCEPT ![c] = @ + 1]
  /\ left' = [left EXCEPT ![c] = @ - 1]
  /\ UNCHANGED <<pc, req, streamVer, holder, readVars, budget>>

(* Mutant: streams.version is bumped by one, not by the size of the batch. *)
CommitBumpsByOne(c) ==
  /\ pc[c] = "insert"
  /\ left[c] = 0
  /\ streamVer' = [streamVer EXCEPT ![req[c].stream] = @ + 1]
  /\ EndTx(c)
  /\ UNCHANGED <<nextXid, nextPos, rows, readVars, budget>>

(* UPDATE streams SET version, then COMMIT. *)
Commit(c) ==
  /\ pc[c] = "insert"
  /\ left[c] = 0
  /\ streamVer' = [streamVer EXCEPT ![req[c].stream] = ver[c]]
  /\ EndTx(c)
  /\ UNCHANGED <<nextXid, nextPos, rows, readVars, budget>>

(* A failed statement, a cancelled context, a lost connection or a crash. *)
Abort(c) ==
  /\ pc[c] # "idle"
  /\ Rollback(c)

-----------------------------------------------------------------------------
(* Reading. *)

(* e's writer is not in progress (an aborted writer has no rows). *)
Visible(e) == \A c \in Clients : xid[c] # e.xid

(* Mutant: the position scan without the watermark. *)
SafeAlways(e) == TRUE

(* Mutant: a finished transaction still counts as in flight. *)
SafeHeldBackForEver(e) == \A c \in Clients : e.xid < xid[c]

(* safePositionClause: e's writer is older than every writer in flight. *)
Safe(e) == \A c \in Clients : xid[c] # 0 => e.xid < xid[c]

(* The WHERE of positionScanQuery. *)
Candidates(r) ==
  {e \in rows : Visible(e) /\ e.pos > cursor[r] /\ Safe(e) /\ e.stream \in Filter[r]}

(* ORDER BY global_position ASC LIMIT Limit. *)
Page(S) == {e \in S : Cardinality({f \in S : f.pos <= e.pos}) <= Limit}

(* One round of runPollingLoop's loader; an empty page waits for the ticker. *)
Poll(r) ==
  /\ batch[r] = {}
  /\ batch' = [batch EXCEPT ![r] = Page(Candidates(r))]
  /\ UNCHANGED <<nextXid, nextPos, txVars, tableVars, cursor, delivered, budget>>

(* ch <- event; the position moves once the whole batch is delivered. *)
Deliver(r) ==
  \E e \in batch[r] :
    /\ \A f \in batch[r] : e.pos <= f.pos
    /\ batch' = [batch EXCEPT ![r] = @ \ {e}]
    /\ delivered' = [delivered EXCEPT ![r] = @ \cup {e}]
    /\ cursor' = [cursor EXCEPT ![r] = IF batch[r] = {e} THEN e.pos ELSE @]
    /\ UNCHANGED <<nextXid, nextPos, txVars, tableVars, budget>>

(***************************************************************************)
(* The subscription is cancelled, maybe in the middle of a batch, and the  *)
(* consumer subscribes again from the start or from an event it was given. *)
(***************************************************************************)
Resubscribe(r) ==
  /\ budget.restart > 0
  /\ budget' = [budget EXCEPT !.restart = @ - 1]
  /\ \E p \in {0} \cup {e.pos : e \in delivered[r]} : cursor' = [cursor EXCEPT ![r] = p]
  /\ batch' = [batch EXCEPT ![r] = {}]
  /\ UNCHANGED <<nextXid, nextPos, txVars, tableVars, delivered>>

(***************************************************************************)
(* RewriteEventData (in-place re-encryption): an UPDATE of one committed   *)
(* row in a transaction of its own.  The new row version carries the xid   *)
(* of the UPDATE as its xmin.                                              *)
(***************************************************************************)
Rewrite(e) ==
  /\ budget.rewrite > 0
  /\ budget' = [budget EXCEPT !.rewrite = @ - 1]
  /\ Visible(e)
  /\ rows' = (rows \ {e}) \cup {[e EXCEPT !.xid = nextXid]}
  /\ nextXid' = nextXid + 1
  /\ UNCHANGED <<nextPos, txVars, streamVer, holder, readVars>>

-----------------------------------------------------------------------------
Statement(c) ==
  \/ SelectNoRow(c) \/ SelectRow(c) \/ Conflict(c)
  \/ InsertStream(c) \/ StreamInserted(c) \/ StreamDuplicate(c)
  \/ InsertEvent(c) \/ Commit(c)

AppendCall(c) == (\E r \in Requests : Begin(c, r)) \/ Statement(c) \/ Abort(c)

Read(r) == Poll(r) \/ Deliver(r) \/ Resubscribe(r)

Next ==
  \/ \E c \in Clients : AppendCall(c)
  \/ \E r \in Readers : Read(r)
  \/ \E e \in rows : Rewrite(e)

Spec == Init /\ [][Next]_vars

(***************************************************************************)
(* PostgreSQL answers every statement that is not blocked, and the polling *)
(* goroutine of a live subscription keeps running.  Nothing obliges a      *)
(* client to call Append, a transaction to fail or a consumer to restart.  *)
(***************************************************************************)
Fairness ==
  /\ \A c \in Clients : WF_vars(Statement(c))
  /\ \A r \in Readers : WF_vars(Poll(r)) /\ WF_vars(Deliver(r))

FairSpec == Spec /\ Fairness

-----------------------------------------------------------------------------
(* Properties. *)

(* Type correctness of the adapter's and the database's state. *)
TypeOK ==
  /\ nextXid \in Nat \ {0} /\ nextPos \in Nat \ {0}
  /\ pc \in [Clients -> {"idle", "select", "create", "creating", "insert"}]
  /\ req \in [Clients -> Requests \cup {NoCall}]
  /\ \A c \in Clients : pc[c] # "idle" => req[c] \in Requests
  /\ ver \in [Clients -> Nat] /\ left \in [Clients -> Nat] /\ xid \in [Clients -> Nat]
  /\ streamVer \in [Streams -> Nat]
  /\ holder \in [Streams -> Clients \cup {NoClient}]
  /\ rows \in SUBSET Row
  /\ cursor \in [Readers -> Nat]
  /\ batch \in [Readers -> SUBSET Row] /\ delivered \in [Readers -> SUBSET Row]
  /\ budget \in [append : Nat, rewrite : Nat, restart : Nat]

(***************************************************************************)
(* No two rows, those of open transactions included, have the same stream  *)
(* and version.  appendInTx computes versions from a read that precedes    *)
(* the inserts by several statements, so this is what the row lock and the *)
(* unique index on streams are for; the UNIQUE constraint on events is     *)
(* only a backstop.                                                        *)
(***************************************************************************)
VersionsUnique ==
  \A e, f \in rows : e.stream = f.stream /\ e.version = f.version => e.pos = f.pos

(***************************************************************************)
(* The committed events of a stream are exactly its versions 1 up to the   *)
(* version in its streams row: what Load, CheckVersion and the version     *)
(* LoadAggregate derives from the number of events all rely on.            *)
(***************************************************************************)
StreamsGapFree ==
  \A s \in Streams : {e.version : e \in {f \in rows : f.stream = s /\ Visible(f)}}
                        = 1 .. streamVer[s]

VisibleEvents == {<<e.stream, e.version, e.pos>> : e \in {f \in rows : Visible(f)}}

(***************************************************************************)
(* A committed event never disappears, and an event that becomes visible   *)
(* has a higher version than every visible event of its stream.  This is   *)
(* what makes SubscribeStream's "version > cursor" poll complete without   *)
(* any watermark.                                                          *)
(***************************************************************************)
StreamsAppendOnly ==
  [][ /\ VisibleEvents \subseteq VisibleEvents'
      /\ \A a \in VisibleEvents' \ VisibleEvents, b \in VisibleEvents :
            a[1] = b[1] => a[2] > b[2] ]_vars

(* e is behind r's cursor and r was never given it. *)
Skipped(r, e) ==
  /\ e.stream \in Filter[r]
  /\ e.pos <= cursor[r]
  /\ \A d \in delivered[r] : d.pos # e.pos

(***************************************************************************)
(* The safe-watermark guarantee that safePositionClause really gives: a    *)
(* subscription passes over a row only when it has delivered a row of a    *)
(* higher position whose transaction is older.  (Rows that roll back later *)
(* are included, so a cursor does not depend on how writers end.)          *)
(***************************************************************************)
SkipOnlyByInversion ==
  \A r \in Readers : \A e \in rows :
    Skipped(r, e) => \E d \in delivered[r] : d.pos > e.pos /\ d.xid < e.xid

(***************************************************************************)
(* The guarantee safePositionClause's comment claims: "subscriptions,      *)
(* projections, and sagas never skip a committed event".                   *)
(***************************************************************************)
NeverSkips ==
  \A r \in Readers : \A e \in rows : Visible(e) => ~ Skipped(r, e)

(***************************************************************************)
(* Every Append returns: no two transactions wait for each other, and the  *)
(* creator of a stream does not wait for ever for a rival's row.           *)
(***************************************************************************)
AppendsTerminate == \A c \in Clients : pc[c] # "idle" ~> pc[c] = "idle"

(***************************************************************************)
(* The watermark does not stall: the cursor of every subscription passes   *)
(* every committed position its filter selects, by delivering it or by     *)
(* skipping it, whatever aborts leave gaps in the sequence.                *)
(***************************************************************************)
CursorCatchesUp ==
  \A r \in Readers : \A p \in 1 .. Len(GenesisOrder) + MaxAppends * MaxBatch :
    (\E e \in rows : e.pos = p /\ Visible(e) /\ e.stream \in Filter[r]) ~> cursor[r] >= p
=============================================================================
