---------------------------- MODULE RecordStore ----------------------------
(***************************************************************************)
(* The rows of one table and the threads that reach them through one       *)
(* connection: a database stage (the writer) with the PreparedINSERT it    *)
(* keeps for the table, inside the database thread's transaction; and the  *)
(* application (the user), which inserts, finds, updates and removes       *)
(* records through DatabaseManager, SqlRecord and SqlQuery.  Another       *)
(* process may hold the file, so that SQLite answers BUSY.                 *)
(*                                                                         *)
(* safeTransaction() holds the connection's mutex from BEGIN to COMMIT, so *)
(* a call the user makes through it is one step; finding records and       *)
(* SqlQuery do not take the mutex and run whatever transaction is open.    *)
(***************************************************************************)
EXTENDS RecordQuery

CONSTANTS Value,        \* [Column -> the values given for it]
          ColumnLists,  \* the column lists statements are prepared for
          Queries,      \* the constraints of the user's queries
          MaxInserts,   \* bound: rows inserted, rolled back ones included
          MaxBusy,      \* bound: BUSY answers
          MaxRemovals   \* bound: calls that remove records

ASSUME RecordsAssumption ==
    /\ {MaxInserts, MaxBusy, MaxRemovals} \subseteq Nat
    /\ DOMAIN Value = Column
    /\ \A c \in Column : \A v \in Value[c] :
           v \in Int /\ (Kind[c] = "uint64" => Fits(v))
    /\ ColumnLists \subseteq Seq(Column)
    /\ \A q \in Queries : IsQuery(q)

VARIABLES
    disk, work, \* the committed file, and the open transaction's view
    tx,         \* whose safeTransaction() is open: "none", "writer", "user"
    changes,    \* sqlite3_changes() of the connection, while it will be read
    stmt,       \* the writer's PreparedINSERT
    wants,      \* the values the writer means for its next row
    made,       \* rows of the writer's functor so far
    pc,         \* the writer: "prepare", "run", "failed"
    handles,    \* ids callers hold, each with the row it was given for
    fresh,      \* those given in the open transaction
    removal,    \* the user's removing call under way
    inserts, busy, removals

file == <<disk, work, tx>>
writer == <<stmt, wants, made, pc>>
bounds == <<inserts, busy, removals>>
vars == <<file, changes, writer, handles, fresh, removal, bounds>>

NoValues == [c \in Column |-> Null]

NoStatement == [cols |-> <<>>, dtypes |-> <<>>, bound |-> NoValues,
                static |-> {}, pending |-> FALSE, stale |-> {}, oneShot |-> 0]

(* A removing call that has not returned: what it removed, and whether     *)
(* another statement's count has come since.                               *)
NoRemoval == [kind |-> "none", did |-> 0, mixed |-> FALSE]

Init ==
    /\ disk = [rows |-> <<>>, seq |-> 0] /\ work = disk
    /\ tx = "none" /\ changes = 0
    /\ stmt = NoStatement /\ wants = NoValues /\ made = 0 /\ pc = "prepare"
    /\ handles = {} /\ fresh = {} /\ removal = NoRemoval
    /\ inserts = 0 /\ busy = 0 /\ removals = 0

View == IF tx = "none" THEN disk ELSE work

Write(v) == /\ work' = v
            /\ disk' = IF tx = "none" THEN v ELSE disk
            /\ UNCHANGED tx

(* The user is not inside a call that removes; and it can have the mutex. *)
Returned == removal = NoRemoval

UserFree == Returned /\ tx # "writer"

(* A statement counts its changes, over the count of a call that has not   *)
(* read its own yet.                                                       *)
Counted(n) ==
    IF Returned THEN UNCHANGED <<changes, removal>>
    ELSE changes' = n /\ removal' = [removal EXCEPT !.mixed = TRUE]

-----------------------------------------------------------------------------
(* INSERT *)

(* Mutant: an id is free again once its row is gone. *)
LowestId(v) == CHOOSE i \in 1..(v.seq + 1) :
                   i \notin DOMAIN v.rows /\ \A j \in 1..(i - 1) : j \in DOMAIN v.rows

(* INTEGER PRIMARY KEY AUTOINCREMENT *)
NextId(v) == v.seq + 1

(* A row: what is stored, what its call was given, which insertion it is,  *)
(* and whether a statement left pending by BUSY had refused its values.    *)
NewRow(vals, given, late) ==
    [vals |-> vals, given |-> given, birth |-> inserts + 1, late |-> late]

Inserted(v, row) ==
    [v EXCEPT !.seq = NextId(v),
              !.rows = [i \in DOMAIN v.rows \cup {NextId(v)} |->
                            IF i = NextId(v) THEN row ELSE v.rows[i]]]

(* The id of the call's row goes to the caller: for good at once, or when  *)
(* the transaction it belongs to commits.                                  *)
Given(id) ==
    LET h == [id |-> id, birth |-> inserts + 1]
    IN  IF tx = "none" THEN handles' = handles \cup {h} /\ fresh' = fresh
        ELSE fresh' = fresh \cup {h} /\ handles' = handles

Insert(row) ==
    /\ inserts < MaxInserts
    /\ Write(Inserted(View, row))
    /\ Given(NextId(View))
    /\ Counted(1)
    /\ inserts' = inserts + 1
    /\ UNCHANGED <<busy, removals>>

StoredAll(given) == [c \in Column |-> Stored(c, given[c])]

(* What a user may give: columns that are not named stay NULL. *)
Givens(cols) == {g \in [Column -> UNION {Value[c] : c \in Column} \cup {Null}] :
                    \A c \in Column : IF c \in Range(cols) THEN g[c] \in Value[c] ELSE g[c] = Null}

(* DatabaseManager::INSERT: a statement of its own, prepared, bound and    *)
(* finalized in the call, so that a retry starts from nothing.             *)
INSERT(cols) ==
    /\ UserFree
    /\ \E g \in Givens(cols) : Insert(NewRow(StoredAll(g), g, FALSE))
    /\ UNCHANGED writer

-----------------------------------------------------------------------------
(* PreparedINSERT *)

(* prepareINSERT_: the columns in the caller's order, their types in the   *)
(* schema's.                                                               *)
prepareINSERT(cols) ==
    /\ pc = "prepare"
    /\ stmt' = [NoStatement EXCEPT
                    !.cols = cols,
                    !.dtypes = LET named == SelectSeq(Columns, LAMBDA c : c \in Range(cols))
                               IN  [i \in DOMAIN named |-> Kind[named[i]]]]
    /\ pc' = "run"
    /\ UNCHANGED <<file, changes, wants, made, handles, fresh, removal, bounds>>

RunStage ==
    /\ pc = "run" /\ tx = "none"
    /\ tx' = "writer" /\ work' = disk
    /\ UNCHANGED <<disk, changes, writer, handles, fresh, removal, bounds>>

RollBack == work' = disk /\ tx' = "none" /\ fresh' = {}

(* Any exception but the silent one ends the transaction and the stage. *)
StageThrows ==
    /\ RollBack
    /\ pc' = "failed"
    /\ UNCHANGED <<disk, changes, stmt, wants, made, handles, removal, bounds>>

Writing == pc = "run" /\ tx = "writer" /\ inserts < MaxInserts

(* Binding is refused (and the refusal ignored) while the statement has    *)
(* been stepped and not reset; what it holds is stale then.                *)
Bound(i, v, isStatic) ==
    IF stmt.pending THEN stmt
    ELSE [stmt EXCEPT !.bound[stmt.cols[i]] = Stored(stmt.cols[i], v),
                      !.stale = @ \ {stmt.cols[i]},
                      !.static = IF isStatic THEN @ \cup {stmt.cols[i]}
                                 ELSE @ \ {stmt.cols[i]}]

(* A value of the column's kind, held by the statement or, for texts given *)
(* as const char*, by the caller.  It takes the place of what the column   *)
(* was bound to, for this row or, kept by createRecord(false), for the one *)
(* before; columns come in any order.                                      *)
setColumnValue(i) ==
    /\ Writing
    /\ i \in DOMAIN stmt.cols
    /\ IF stmt.dtypes[i] # Kind[stmt.cols[i]]
       THEN StageThrows
       ELSE /\ \E v \in Value[stmt.cols[i]],
                  isStatic \in (IF stmt.dtypes[i] = "text" THEN BOOLEAN ELSE {FALSE}) :
                  /\ stmt' = Bound(i, v, isStatic)
                  /\ wants' = [wants EXCEPT ![stmt.cols[i]] = v]
            /\ UNCHANGED <<file, changes, made, pc, handles, fresh, removal, bounds>>

(* Mutant: the bindings stay for the next row. *)
ResetOnly(s, clearBindings) == [s EXCEPT !.pending = FALSE]

Reset(s, clearBindings) ==
    [s EXCEPT !.pending = FALSE,
              !.bound = IF clearBindings THEN NoValues ELSE @,
              !.stale = IF clearBindings THEN {} ELSE @,
              !.static = IF clearBindings THEN {} ELSE @]

(* A functor sets every column for its first row; later a column it does   *)
(* not set is NULL, or what it was for the row before.                     *)
Ready == made > 0 \/ \A c \in Range(stmt.cols) : wants[c] # Null

createRecord(clearBindings) ==
    /\ Writing /\ Ready
    /\ Insert(NewRow(stmt.bound, wants, stmt.stale # {}))
    /\ stmt' = Reset(stmt, clearBindings)
    /\ wants' = IF clearBindings THEN NoValues ELSE wants
    /\ made' = made + 1
    /\ UNCHANGED pc

(* The index starts at 0 unless an earlier call left it behind; then this  *)
(* one runs past the last column, or meets a column of another type.       *)
createRecordWithColValues ==
    /\ Writing
    /\ IF stmt.oneShot # 0 \/ \E i \in DOMAIN stmt.cols : stmt.dtypes[i] # Kind[stmt.cols[i]]
       THEN StageThrows
       ELSE /\ \E g \in Givens(stmt.cols) :
                  Insert(NewRow(IF stmt.pending THEN stmt.bound ELSE StoredAll(g),
                                g, stmt.pending))
            /\ stmt' = Reset(stmt, TRUE)
            /\ wants' = NoValues /\ made' = made + 1
            /\ UNCHANGED pc

(* The functor is left: what it had on its stack is gone. *)
Unwound(s) == [s EXCEPT !.bound = [c \in Column |-> IF c \in s.static THEN Freed ELSE @[c]]]

SilentException ==
    /\ busy < MaxBusy /\ busy' = busy + 1
    /\ RollBack
    /\ UNCHANGED <<disk, changes, pc, handles, removal, inserts, removals>>

(* BUSY at the transaction's first INSERT, which is where it needs the     *)
(* lock: the step throws before the statement is reset.                    *)
createRecordBusy ==
    /\ Writing /\ Ready /\ work = disk
    /\ stmt' = [Unwound(stmt) EXCEPT !.pending = TRUE, !.stale = Column]
    /\ wants' = NoValues /\ made' = 0
    /\ SilentException

oneShotBusy ==
    /\ Writing /\ work = disk
    /\ ~stmt.pending /\ stmt.oneShot = 0
    /\ \A i \in DOMAIN stmt.cols : stmt.dtypes[i] = Kind[stmt.cols[i]]
    /\ \E g \in Givens(stmt.cols),
          texts \in SUBSET {c \in Range(stmt.cols) : Kind[c] = "text"} :
          stmt' = [Unwound([stmt EXCEPT !.bound = StoredAll(g), !.static = texts])
                       EXCEPT !.pending = TRUE, !.stale = Column,
                              !.oneShot = Len(stmt.cols) - 1]
    /\ wants' = NoValues /\ made' = 0
    /\ SilentException

CommitStage ==
    /\ pc = "run" /\ tx = "writer"
    /\ disk' = work /\ tx' = "none"
    /\ handles' = handles \cup fresh /\ fresh' = {}
    /\ stmt' = Unwound(stmt) /\ wants' = NoValues /\ made' = 0
    /\ UNCHANGED <<work, changes, pc, removal, bounds>>

(* BUSY at COMMIT: by then every statement has been reset. *)
CommitBusy ==
    /\ pc = "run" /\ tx = "writer" /\ work # disk
    /\ stmt' = Unwound(stmt) /\ wants' = NoValues /\ made' = 0
    /\ SilentException

-----------------------------------------------------------------------------
(* The user: a transaction of its own, records, removals, queries *)

UserBegin ==
    /\ UserFree /\ tx = "none" /\ tx' = "user" /\ work' = disk
    /\ UNCHANGED <<disk, changes, writer, handles, fresh, removal, bounds>>

UserCommit ==
    /\ UserFree /\ tx = "user" /\ disk' = work /\ tx' = "none"
    /\ handles' = handles \cup fresh /\ fresh' = {}
    /\ UNCHANGED <<work, changes, writer, removal, bounds>>

(* BUSY, or an exception of the user's functor. *)
UserRollBack ==
    /\ UserFree /\ tx = "user" /\ RollBack
    /\ UNCHANGED <<disk, changes, writer, handles, removal, bounds>>

(* findRecord_, without the mutex.  A row of a transaction still open may  *)
(* be rolled back: the id is not held against the store then.              *)
findRecord(id) ==
    /\ Returned /\ id \in DOMAIN View.rows
    /\ handles' = IF tx = "none"
                  THEN handles \cup {[id |-> id, birth |-> View.rows[id].birth]}
                  ELSE handles
    /\ UNCHANGED <<file, changes, writer, fresh, removal, bounds>>

(* SqlRecord::setProperty*: UPDATE ... WHERE Id; of no row when it is gone. *)
setProperty(h, col) ==
    /\ UserFree
    /\ IF h.id \in DOMAIN View.rows
       THEN /\ \E v \in Value[col] :
                  Write([View EXCEPT !.rows[h.id].vals[col] = Stored(col, v),
                                     !.rows[h.id].given[col] = v])
            /\ Counted(1)
       ELSE Write(View) /\ Counted(0)
    /\ UNCHANGED <<writer, handles, fresh, bounds>>

Without(v, ids) == [v EXCEPT !.rows = [i \in DOMAIN v.rows \ ids |-> v.rows[i]]]

(* DELETE in a transaction of the call's own; the count is read after it. *)
Deletes(ids, kind) ==
    /\ UserFree
    /\ removals < MaxRemovals /\ removals' = removals + 1
    /\ LET gone == ids \cap DOMAIN View.rows
       IN  /\ Write(Without(View, gone))
           /\ changes' = Cardinality(gone)
           /\ removal' = [kind |-> kind, did |-> Cardinality(gone), mixed |-> FALSE]
    /\ UNCHANGED <<writer, handles, fresh, inserts, busy>>

removeRecordFromTable(id) == Deletes({id}, "one")

removeAllRecordsFromTable == Deletes(DOMAIN View.rows, "all")

(* Mutant: TRUE unless the call threw. *)
AnswerDone == IF removal.kind = "one" THEN 1 ELSE changes

(* TRUE is 1. *)
Answer == IF removal.kind = "one" /\ changes # 1 THEN 0 ELSE changes

RemovalReturns ==
    /\ ~Returned
    /\ removal' = NoRemoval /\ changes' = 0
    /\ UNCHANGED <<file, writer, handles, fresh, bounds>>

(* Every table in sqlite_master: the catalogue of the schema and the       *)
(* AUTOINCREMENT counters go too, so the ids handed out say nothing more.  *)
removeAllRecordsFromAllTables ==
    /\ UserFree
    /\ removals < MaxRemovals /\ removals' = removals + 1
    /\ Write([rows |-> <<>>, seq |-> 0])
    /\ handles' = {} /\ fresh' = {}
    /\ UNCHANGED <<changes, writer, removal, inserts, busy>>

(* SqlQuery::deleteResultSet takes no mutex and opens no transaction: it   *)
(* joins the one that is open, the writer's too.                           *)
deleteResultSet(clauses) ==
    /\ Returned /\ removals < MaxRemovals /\ removals' = removals + 1
    /\ LET gone == Selected(clauses, View.rows)
       IN  Write(Without(View, gone)) /\ Counted(Cardinality(gone))
    /\ UNCHANGED <<writer, handles, fresh, inserts, busy>>

-----------------------------------------------------------------------------
WriterNext ==
    \/ \E cols \in ColumnLists : prepareINSERT(cols)
    \/ RunStage
    \/ \E i \in DOMAIN stmt.cols : setColumnValue(i)
    \/ \E clearBindings \in BOOLEAN : createRecord(clearBindings)
    \/ createRecordWithColValues
    \/ createRecordBusy \/ oneShotBusy
    \/ CommitStage \/ CommitBusy

UserNext ==
    \/ \E cols \in ColumnLists \cup {<<>>} : INSERT(cols)
    \/ UserBegin \/ UserCommit \/ UserRollBack
    \/ \E id \in DOMAIN View.rows : findRecord(id)
    \/ \E h \in handles \cup fresh, col \in Column : setProperty(h, col)
    \/ \E id \in 1..MaxInserts : removeRecordFromTable(id)
    \/ removeAllRecordsFromTable \/ RemovalReturns
    \/ removeAllRecordsFromAllTables
    \/ \E q \in Queries : deleteResultSet(q)

Next == WriterNext \/ UserNext

Spec == Init /\ [][Next]_vars

-----------------------------------------------------------------------------
(* Every committed row reads back as what its call was given - through     *)
(* shared, cleared, reused and rolled-back bindings - unless the statement *)
(* that wrote it still held what it held when BUSY interrupted it          *)
(* (PreparedINSERT.hpp:37-147, Iterator.hpp:265-395).                      *)
ReadsAsGiven(row) == \A c \in Column : Read(c, row.vals[c]) = row.given[c]

RowsAsGiven ==
    \A id \in DOMAIN disk.rows : disk.rows[id].late \/ ReadsAsGiven(disk.rows[id])

(* What the documentation promises: after contention the whole transaction *)
(* is run again, no call fails of it, and every row is what its call was   *)
(* given all the same.                                                     *)
RetryInvisible ==
    /\ pc = "failed" => stmt.oneShot = 0
    /\ \A id \in DOMAIN disk.rows : ReadsAsGiven(disk.rows[id])

(* An id that createRecord() or INSERT() returned, and whose transaction   *)
(* was committed, or that was found outside a transaction, never comes to  *)
(* mean another row, though rows are removed, rolled back and inserted     *)
(* (Connection.hpp:213, PreparedINSERT.hpp:146) - short of                 *)
(* removeAllRecordsFromAllTables, which takes the counters away.           *)
HandleTrue ==
    \A h \in handles : h.id \in DOMAIN disk.rows => disk.rows[h.id].birth = h.birth

(* A removing call answers what it removed unless some other statement's   *)
(* count came between its transaction and sqlite3_changes()                *)
(* (DatabaseManager.hpp:273, 290; Table.hpp:428).                          *)
RemovalAnswers ==
    [][RemovalReturns => removal.mixed \/ Answer = removal.did]_vars

(* A query speaks of every row that satisfies all its constraints as the   *)
(* caller meant them - uint64_t values in the order of numbers, although   *)
(* SQLite compares texts - and of no other row unless an OR stands beside  *)
(* another constraint (Query.hpp:112-135, 370-403, 600-615).               *)
Means(condition, id, row) ==
    LET v == IF condition.col = "Id" THEN id ELSE row.given[condition.col]
    IN  /\ v # Null
        /\ CASE condition.op = "="      -> \A t \in condition.asked : v = t
             [] condition.op = "!="     -> \A t \in condition.asked : v # t
             [] condition.op = "<"      -> \A t \in condition.asked : v < t
             [] condition.op = "<="     -> \A t \in condition.asked : v <= t
             [] condition.op = ">"      -> \A t \in condition.asked : v > t
             [] condition.op = ">="     -> \A t \in condition.asked : v >= t
             [] condition.op = "IN"     -> v \in condition.asked
             [] condition.op = "NOT IN" -> v \notin condition.asked

Satisfies(clause, id, row) ==
    LET AllOf(conditions) == \A c \in conditions : Means(c, id, row)
    IN  IF clause.op = "OR" THEN AllOf(clause.left) \/ AllOf(clause.right)
        ELSE AllOf(clause.left) /\ AllOf(clause.right)

Meant(q, rows) ==
    {id \in DOMAIN rows : \A clause \in Range(q) : Satisfies(clause, id, rows[id])}

Alone(q) == Len(q) > 1 => \A i \in DOMAIN q : q[i].op # "OR"

QueriesSound ==
    LET rows == [id \in {i \in DOMAIN View.rows : ~View.rows[i].late} |-> View.rows[id]]
    IN  \A q \in Queries : /\ Meant(q, rows) \subseteq Selected(q, rows)
                           /\ Alone(q) => Selected(q, rows) = Meant(q, rows)
=============================================================================
