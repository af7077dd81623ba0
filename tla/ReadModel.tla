------------------------------ MODULE ReadModel ------------------------------
(***************************************************************************)
(* The two read-model repositories of go-mink: the map behind a mutex of   *)
(* InMemoryRepository (repository.go) and the table of PostgresRepository  *)
(* (adapters/postgres/readmodel.go), whose every call is one or two SQL    *)
(* statements outside any transaction, and whose constructor migrates the  *)
(* table while other instances, of the same or of the previous release of  *)
(* the program, already use it.                                            *)
(*                                                                         *)
(* A read model has the id, the field "rank" (release 1 and 2) and the     *)
(* fields "hits", "score" and "note" (release 2 only).  "score" and "note" *)
(* carry the `nullable` tag; "note" is a pointer, the others are numbers.  *)
(***************************************************************************)
EXTENDS Integers, FiniteSets, Sequences, FiniteSetsExt, SequencesExt

CONSTANTS Clients,    \* instances of the program
          Ids,        \* row ids, numbers so that they are ordered
          Deployments,\* assignments of a release, 1 or 2, to every client
          MaxWrites,  \* bound on writing calls
          MaxFaults,  \* bound on failing migrations
          NULL        \* SQL NULL, a nil pointer

ASSUME IdsAssumption == Ids \subseteq Nat /\ IsFiniteSet(Ids)
ASSUME DeploymentsAssumption == Deployments \subseteq [Clients -> {1, 2}]
ASSUME NullAssumption == NULL \notin Int

VARIABLES repo,       \* "memory" or "postgres"
          release,    \* the release every client runs
          table,      \* exists, cols, filled (has a default), index
          rows,       \* the stored models, by id
          pc,         \* where a client's constructor is, or "ready"
          missing,    \* columns the client's migration found missing
          held,       \* the id and model between the SELECT and the UPDATE
          writes, faults,
          applied,    \* ghost: increments of "hits" that were acknowledged
          overlapped  \* ghost: ids that two updates held at the same time

readVars == <<repo, release, table, rows, pc, missing, held, writes, faults, applied, overlapped>>

Fields == {"rank", "hits", "score", "note"}
Nullable == {"score", "note"}
Pointers == {"note"}
Model(v) == IF v = 1 THEN {"rank"} ELSE Fields
ColumnNo(f) == CHOOSE k \in 1 .. 4 : <<"rank", "hits", "score", "note">>[k] = f
Indexed(v) == IF v = 1 THEN {} ELSE {"hits"}
Values == 0 .. MaxWrites
Rows == [Fields -> Values \cup {NULL}]
NoHold == [id |-> 0, model |-> NULL]

\* The models a client of release v writes; a field it does not have is absent.
Models(v) == {m \in [Fields -> {0, 1, NULL}] :
                /\ \A f \in Fields \ Model(v) : m[f] = NULL
                /\ \A f \in Model(v) \ Pointers : m[f] # NULL
                /\ m["hits"] # 1 /\ m["score"] # 1 /\ m["note"] # 0}

-----------------------------------------------------------------------------
(* Queries. A filter is a record [field, op, arg]; an unusable one (unknown *)
(* field, empty IN list, BETWEEN without two bounds) is refused by both     *)
(* repositories before any row is looked at.                                *)

Ordered(op, x, y) ==
  CASE op = ">" -> x > y [] op = ">=" -> x >= y [] op = "<" -> x < y [] op = "<=" -> x <= y

Filters == [field : Fields, op : {"=", "!=", ">", ">=", "<", "<="}, arg : 0 .. 1]
      \cup [field : Fields \cup {"typo"}, op : {"IN", "NOT IN"}, arg : {{}, {0}, {0, 1}}]
      \cup [field : Fields, op : {"IS NULL", "IS NOT NULL"}, arg : {NULL}]
      \cup [field : Fields, op : {"BETWEEN"}, arg : {<<0, 0>>, <<1, 1>>, <<1, 0>>, <<0>>}]

validateFilterFields(known, fs) == \A f \in fs : f.field \in known

compileFilters(fs) ==
  \A f \in fs : /\ f.op \in {"IN", "NOT IN"} => f.arg # {}
                /\ f.op = "BETWEEN" => Len(f.arg) = 2

\* compareOrdered: defined for two numbers, never for a pointer, which toFloat
\* does not look behind.
compareOrdered(f) == f.field \notin Pointers

\* Mutant: the upper bound of BETWEEN is left out of the range.
matchHalfOpen(m, f) ==
  f.op = "BETWEEN" /\ f.arg[1] <= m[f.field] /\ m[f.field] < f.arg[2]

matchCompiled(m, f) ==
  LET val == m[f.field]
      equal(x) == compareOrdered(f) /\ val = x
  IN CASE f.op = "IS NULL" -> val = NULL
       [] f.op = "IS NOT NULL" -> val # NULL
       [] f.op = "=" -> equal(f.arg)
       [] f.op = "!=" -> ~equal(f.arg)
       [] f.op \in {">", ">=", "<", "<="} -> compareOrdered(f) /\ Ordered(f.op, val, f.arg)
       [] f.op = "IN" -> \E x \in f.arg : equal(x)
       [] f.op = "NOT IN" -> ~\E x \in f.arg : equal(x)
       [] f.op = "BETWEEN" -> compareOrdered(f) /\ f.arg[1] <= val /\ val <= f.arg[2]

\* A condition of the WHERE clause is true, not false or unknown.
SqlTrue(r, f) ==
  LET val == r[f.field]
  IN CASE f.op = "IS NULL" -> val = NULL
       [] f.op = "IS NOT NULL" -> val # NULL
       [] f.op = "=" -> val # NULL /\ val = f.arg
       [] f.op = "!=" -> val # NULL /\ val # f.arg
       [] f.op \in {">", ">=", "<", "<="} -> val # NULL /\ Ordered(f.op, val, f.arg)
       [] f.op = "IN" -> val # NULL /\ val \in f.arg
       [] f.op = "NOT IN" -> val # NULL /\ val \notin f.arg
       [] f.op = "BETWEEN" -> val # NULL /\ f.arg[1] <= val /\ val <= f.arg[2]

\* Reading a row into a model: NULL becomes the zero of a scalar field with the
\* tag and nil in a pointer; in any other field it is a NullColumnError.
getScanTargets(r) == [f \in Fields |-> IF r[f] = NULL /\ f \in Nullable \ Pointers THEN 0 ELSE r[f]]
mapScanError(v, r) == \E f \in Model(v) \ (Nullable \cup Pointers) : r[f] = NULL

Usable(v, fs) == validateFilterFields(Model(v), fs) /\ compileFilters(fs)

matchingModels(data, fs) == {i \in DOMAIN data : \A f \in fs : matchCompiled(data[i], f)}
buildWhereClause(data, fs) == {i \in DOMAIN data : \A f \in fs : SqlTrue(data[i], f)}

Selected(fs) == IF repo = "memory" THEN matchingModels(rows, fs) ELSE buildWhereClause(rows, fs)

\* Orders: a sequence of [field, desc]; "id" names the key. In memory the id
\* breaks every tie; in SQL ties are in any order and NULL counts as largest.
Orders == {<<>>} \cup {<<[field |-> f, desc |-> d]>> : f \in Fields \cup {"id"}, d \in BOOLEAN}
      \cup {<<[field |-> f, desc |-> d], [field |-> "id", desc |-> FALSE]>> : f \in Fields, d \in BOOLEAN}

Key(i, f) == IF f = "id" THEN i ELSE rows[i][f]

\* Keys that compareOrdered cannot compare are passed over in memory.
Differs(i, j, o) == /\ Key(i, o.field) # Key(j, o.field)
                    /\ repo = "memory" => o.field \notin Pointers

FirstDifference(i, j, ob) == Min({k \in DOMAIN ob : Differs(i, j, ob[k])} \cup {Len(ob) + 1})

Smaller(x, y) == x # NULL /\ (y = NULL \/ x < y)

\* Mutant: ties are left as the map's iteration found them.
orderWithoutTie(i, j, ob) ==
  LET k == FirstDifference(i, j, ob)
  IN k <= Len(ob) /\ Smaller(Key(i, ob[k].field), Key(j, ob[k].field))

orderModels(i, j, ob) ==
  LET k == FirstDifference(i, j, ob)
  IN IF k > Len(ob) THEN i < j
     ELSE IF ob[k].desc THEN Key(i, ob[k].field) > Key(j, ob[k].field)
                        ELSE Key(i, ob[k].field) < Key(j, ob[k].field)

buildOrderClause(i, j, ob) ==
  LET k == FirstDifference(i, j, ob)
  IN /\ k <= Len(ob)
     /\ IF ob[k].desc THEN Smaller(Key(j, ob[k].field), Key(i, ob[k].field))
                      ELSE Smaller(Key(i, ob[k].field), Key(j, ob[k].field))

Before(i, j, ob) == IF repo = "memory" THEN orderModels(i, j, ob) ELSE buildOrderClause(i, j, ob)

\* The slice of the ordered answer that limit and offset leave.
Page(s, limit, offset) ==
  LET t == IF offset >= Len(s) THEN <<>> ELSE SubSeq(s, offset + 1, Len(s))
  IN IF limit > 0 /\ limit < Len(t) THEN SubSeq(t, 1, limit) ELSE t

WithPagination(page, size) ==
  [limit |-> size, offset |-> IF (page - 1) * size < 0 THEN 0 ELSE (page - 1) * size]

Find(fs, ob, limit, offset) ==
  Page(SetToSortSeq(Selected(fs), LAMBDA i, j : Before(i, j, ob)), limit, offset)

FindOne(fs, ob) == Find(fs, ob, 1, 0)

Count(fs) == Cardinality(Selected(fs))

-----------------------------------------------------------------------------
ReadInit ==
  /\ repo \in {"memory", "postgres"}
  /\ release \in Deployments
  /\ repo = "memory" => \A c \in Clients : release[c] = 2
  /\ table = [exists |-> FALSE, cols |-> {}, filled |-> {}, index |-> {}]
  /\ rows = <<>>
  /\ pc = [c \in Clients |-> IF repo = "memory" THEN "ready" ELSE "new"]
  /\ missing = [c \in Clients |-> {}]
  /\ held = [c \in Clients |-> NoHold]
  /\ writes = 0 /\ faults = 0
  /\ applied = [i \in Ids |-> 0]
  /\ overlapped = {}

Goto(c, l) == pc' = [pc EXCEPT ![c] = l]
Kept == UNCHANGED <<repo, release, writes, applied, overlapped, held>>

\* CREATE TABLE IF NOT EXISTS with every column of the client's model.
CreateTable(c) ==
  /\ pc[c] = "new" /\ repo = "postgres"
  /\ table' = IF table.exists THEN table
              ELSE [table EXCEPT !.exists = TRUE, !.cols = Model(release[c])]
  /\ Goto(c, "columns")
  /\ UNCHANGED <<rows, missing, faults>> /\ Kept

\* migrateColumns, first half: which columns of the model the table lacks.
ReadColumns(c) ==
  /\ pc[c] = "columns"
  /\ missing' = [missing EXCEPT ![c] = Model(release[c]) \ table.cols]
  /\ Goto(c, "alter")
  /\ UNCHANGED <<table, rows, faults>> /\ Kept

\* One ALTER TABLE ... ADD COLUMN IF NOT EXISTS; a column that is not nullable
\* gets a default, which fills the rows that are there.
AddColumn(c) ==
  /\ pc[c] = "alter"
  /\ \E f \in missing[c] :
       /\ \A g \in missing[c] : ColumnNo(f) <= ColumnNo(g)
       /\ missing' = [missing EXCEPT ![c] = @ \ {f}]
       /\ IF f \in table.cols THEN UNCHANGED <<table, rows>>
          ELSE /\ table' = [table EXCEPT !.cols = @ \cup {f}, !.filled = @ \cup ({f} \ Nullable)]
               /\ rows' = [i \in DOMAIN rows |->
                             [rows[i] EXCEPT ![f] = IF f \in Nullable THEN NULL ELSE 0]]
  /\ UNCHANGED <<pc, faults>> /\ Kept

\* CREATE INDEX IF NOT EXISTS for the indexed columns; the constructor returns.
CreateIndexes(c) ==
  /\ pc[c] = "alter" /\ missing[c] = {}
  /\ table' = [table EXCEPT !.index = @ \cup Indexed(release[c])]
  /\ Goto(c, "ready")
  /\ UNCHANGED <<rows, missing, faults>> /\ Kept

\* A statement of the migration fails or the process dies: the constructor
\* returns the error, and a restarted instance begins again.
MigrateFails(c) ==
  /\ pc[c] \in {"columns", "alter"} /\ faults < MaxFaults
  /\ faults' = faults + 1
  /\ Goto(c, "new")
  /\ missing' = [missing EXCEPT ![c] = {}]
  /\ UNCHANGED <<table, rows>> /\ Kept

-----------------------------------------------------------------------------
Call(c) == /\ pc[c] = "ready" /\ held[c] = NoHold /\ writes < MaxWrites
           /\ writes' = writes + 1
           /\ UNCHANGED <<repo, release, table, pc, missing, faults>>

\* The columns an INSERT of client c does not name: a default or NULL.
Unnamed(c) == table.cols \ Model(release[c])
Rejected(c) == repo = "postgres" /\ Unnamed(c) \ (Nullable \cup table.filled) # {}
NewRow(c, m) == [f \in Fields |-> IF f \in Model(release[c]) THEN m[f]
                                  ELSE IF f \in table.filled THEN 0 ELSE NULL]
Hits(r) == IF r["hits"] = NULL THEN 0 ELSE r["hits"]

\* Another client holds row i and will write its counter.
HeldByOther(c, i) == \E d \in Clients \ {c} : held[d].id = i /\ release[d] = 2
Overlap(c, i) == overlapped' = IF HeldByOther(c, i) THEN overlapped \cup {i} ELSE overlapped \ {i}

Put(i, r) == rows' = [j \in DOMAIN rows \cup {i} |-> IF j = i THEN r ELSE rows[j]]
Drop(S) == rows' = [j \in DOMAIN rows \ S |-> rows[j]]

Insert(c, i, m) ==
  /\ Call(c) /\ m \in Models(release[c])
  /\ IF i \in DOMAIN rows \/ Rejected(c)
     THEN UNCHANGED <<rows, applied, overlapped>>
     ELSE /\ Put(i, NewRow(c, m))
          /\ applied' = [applied EXCEPT ![i] = Hits(NewRow(c, m))]
          /\ Overlap(c, i)
  /\ UNCHANGED held

\* Mutant: a conflicting row is replaced as a whole.
UpsertedWhole(c, i, m) == NewRow(c, m)

\* INSERT ... ON CONFLICT DO UPDATE of the client's own columns.
Upserted(c, i, m) ==
  IF i \in DOMAIN rows
  THEN [f \in Fields |-> IF f \in Model(release[c]) THEN m[f] ELSE rows[i][f]]
  ELSE NewRow(c, m)

Upsert(c, i, m) ==
  /\ Call(c) /\ m \in Models(release[c])
  /\ IF Rejected(c)
     THEN UNCHANGED <<rows, applied, overlapped>>
     ELSE /\ Put(i, Upserted(c, i, m))
          /\ applied' = [applied EXCEPT ![i] =
               IF release[c] = 2 \/ i \notin DOMAIN rows THEN Hits(Upserted(c, i, m)) ELSE @]
          /\ IF release[c] = 2 \/ i \notin DOMAIN rows THEN Overlap(c, i) ELSE UNCHANGED overlapped
  /\ UNCHANGED held

\* The update function of this model: release 2 counts, release 1 flips.
updateFn(c, m) == IF release[c] = 2 THEN [m EXCEPT !["hits"] = @ + 1]
                                    ELSE [m EXCEPT !["rank"] = 1 - @]

\* In memory the function runs on the stored model, under the lock.
UpdateInPlace(c, i) ==
  /\ repo = "memory" /\ Call(c) /\ i \in DOMAIN rows
  /\ Put(i, updateFn(c, rows[i]))
  /\ applied' = [applied EXCEPT ![i] = @ + 1]
  /\ UNCHANGED <<held, overlapped>>

\* updateWithExecutor, first statement: SELECT, scan, run the function.
UpdateRead(c, i) ==
  /\ repo = "postgres" /\ Call(c) /\ i \in DOMAIN rows
  /\ held' = IF mapScanError(release[c], rows[i]) THEN held
             ELSE [held EXCEPT ![c] = [id |-> i, model |-> updateFn(c, getScanTargets(rows[i]))]]
  /\ UNCHANGED <<rows, applied, overlapped>>

\* Second statement: UPDATE every column of the client's model where the id is
\* still there; no row affected is ErrNotFound.
UpdateWrite(c) ==
  LET i == held[c].id
      m == held[c].model
  IN /\ held[c] # NoHold
     /\ IF i \in DOMAIN rows
        THEN /\ Put(i, [f \in Fields |-> IF f \in Model(release[c]) THEN m[f] ELSE rows[i][f]])
             /\ IF release[c] = 2
                THEN /\ applied' = [applied EXCEPT ![i] = @ + 1]
                     /\ overlapped' = IF HeldByOther(c, i) THEN overlapped \cup {i} ELSE overlapped
                ELSE UNCHANGED <<applied, overlapped>>
        ELSE UNCHANGED <<rows, applied, overlapped>>
     /\ held' = [held EXCEPT ![c] = NoHold]
     /\ UNCHANGED <<repo, release, table, pc, missing, writes, faults>>

Delete(c, i) ==
  /\ Call(c)
  /\ Drop({i})
  /\ UNCHANGED <<held, applied, overlapped>>

\* No filters means everything; an unusable filter is an error and no row goes.
DeleteMany(c, fs) ==
  /\ Call(c)
  /\ IF fs # {} /\ ~Usable(release[c], fs) THEN UNCHANGED rows ELSE Drop(Selected(fs))
  /\ UNCHANGED <<held, applied, overlapped>>

Clear(c) ==
  /\ Call(c)
  /\ Drop(DOMAIN rows)
  /\ UNCHANGED <<held, applied, overlapped>>

DeleteFilters == {{}} \cup {{f} : f \in [field : Fields \cup {"typo"}, op : {"IN"}, arg : {{}, {1}}]
                                    \cup [field : {"note"}, op : {"!=", "IS NULL"}, arg : {1}]}

Migrating(c) == CreateTable(c) \/ ReadColumns(c) \/ AddColumn(c) \/ CreateIndexes(c)

ReadNext ==
  \E c \in Clients :
    \/ Migrating(c) \/ MigrateFails(c) \/ UpdateWrite(c) \/ Clear(c)
    \/ \E i \in Ids : \/ UpdateInPlace(c, i) \/ UpdateRead(c, i) \/ Delete(c, i)
                      \/ \E m \in Models(release[c]) : Insert(c, i, m) \/ Upsert(c, i, m)
    \/ \E fs \in DeleteFilters : DeleteMany(c, fs)

ReadSpec == ReadInit /\ [][ReadNext]_readVars

-----------------------------------------------------------------------------
(* Properties. *)

\* Every acknowledged Update is in the row: always in memory, where it runs
\* under the lock; in PostgreSQL for a row that no two updates held at once
\* (SELECT and UPDATE are separate statements), also when instances of the
\* previous release write the same row.
NoLostUpdate ==
  \A i \in DOMAIN rows \ overlapped : Hits(rows[i]) = applied[i]

ScalarFilters == {f \in Filters : f.field \in Fields \ Pointers /\ compileFilters({f})}

\* After any history of writes and migrations an instance whose constructor
\* has returned can read every row (getScanTargets, mapScanError), and every
\* usable filter on a field that is not a pointer selects the row in both
\* repositories or in neither (compileFilters and matchCompiled against
\* buildWhereClause). The exception is a NULL in a nullable scalar, which a
\* release without the column left there: the model has 0, the table NULL.
RepositoriesAgree ==
  \A i \in DOMAIN rows :
    LET m == getScanTargets(rows[i])
    IN /\ \A c \in Clients : pc[c] = "ready" => ~mapScanError(release[c], rows[i])
       /\ \A f \in ScalarFilters :
            (repo = "postgres" => f.field \in table.cols) =>
              \/ matchCompiled(m, f) <=> SqlTrue(rows[i], f)
              \/ f.field \in Nullable /\ rows[i][f.field] = NULL

\* The OrderBys that say which of two rows comes first, whichever they are: in
\* memory all of them, in PostgreSQL those whose last key is the id.
TotalOrders == {ob \in Orders : repo = "memory" \/ (ob # <<>> /\ Last(ob).field = "id")}

\* Such an order is a strict total order of the rows, NULLs, ties and pointer
\* fields notwithstanding (orderModels, buildOrderClause).
OrderIsTotal ==
  \A ob \in TotalOrders :
    /\ \A i, j \in DOMAIN rows : i # j => (Before(i, j, ob) <=> ~Before(j, i, ob))
    /\ \A i, j, k \in DOMAIN rows : Before(i, j, ob) /\ Before(j, k, ob) => Before(i, k, ob)

\* Read page by page an answer is the whole answer, and as long as Count says:
\* its order is total, so no two queries for two pages show a row twice or
\* miss one (orderModels, buildOrderClause, WithPagination).
PagesCover ==
  LET descending == <<[field |-> "rank", desc |-> TRUE], [field |-> "id", desc |-> FALSE]>>
  IN
  /\ OrderIsTotal
  /\ \A size \in 1 .. 2, ob \in TotalOrders \cap {<<>>, descending} :
      LET page(k) == LET w == WithPagination(k, size) IN Find({}, ob, w.limit, w.offset)
      IN /\ FlattenSeq([k \in 1 .. Cardinality(Ids) |-> page(k)]) = Find({}, ob, 0, 0)
         /\ Len(Find({}, ob, 0, 0)) = Count({})
         /\ FindOne({}, ob) = page(1) \/ size # 1
=============================================================================
