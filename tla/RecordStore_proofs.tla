--------------------------- MODULE RecordStore_proofs ---------------------------
(***************************************************************************)
(* Proofs about RecordStore and the RecordQuery below it, for every table, *)
(* every choice of values, column lists and queries, and every number of   *)
(* insertions, removals and BUSY answers.                                  *)
(***************************************************************************)
EXTENDS RecordStore, SequenceTheorems, FiniteSetTheorems, TLAPS

--------------------------------------------------------------------------------
(***************************************************************************)
(* The two views of the file, and the statement.                           *)
(***************************************************************************)
\* What is stored for every column is what was given for it.
AsGiven(vals, given) ==
    \A c \in Column : given[c] \in Value[c] \cup {Null} /\ vals[c] = Stored(c, given[c])

RowOK(r) ==
    /\ r = [vals |-> r.vals, given |-> r.given, birth |-> r.birth, late |-> r.late]
    /\ DOMAIN r.vals = Column /\ DOMAIN r.given = Column
    /\ r.late \/ AsGiven(r.vals, r.given)

\* The counter is not behind the ids of the rows.
StoreOK(v) ==
    /\ v = [rows |-> v.rows, seq |-> v.seq] /\ v.seq \in Nat
    /\ DOMAIN v.rows \subseteq 1 .. v.seq
    /\ \A i \in DOMAIN v.rows : RowOK(v.rows[i])

FileInv ==
    /\ StoreOK(disk) /\ StoreOK(work)
    /\ tx \in {"none", "writer", "user"} /\ (tx = "none" => work = disk)

\* A column the statement holds no stale value of is bound to what the writer means for it,
\* unless the functor has not set it yet for its first row.
StmtInv ==
    /\ pc \in {"prepare", "run", "failed"} /\ made \in Nat
    /\ stmt = [cols |-> stmt.cols, dtypes |-> stmt.dtypes, bound |-> stmt.bound,
               static |-> stmt.static, pending |-> stmt.pending, stale |-> stmt.stale,
               oneShot |-> stmt.oneShot]
    /\ stmt.cols \in Seq(Column) /\ DOMAIN stmt.bound = Column /\ stmt.static \subseteq Range(stmt.cols)
    /\ stmt.pending \in BOOLEAN /\ (stmt.pending => stmt.stale = Column)
    /\ DOMAIN wants = Column /\ (pc = "prepare" => wants = NoValues)
    /\ \A c \in Column : wants[c] \in Value[c] \cup {Null}
    /\ \A c \in Column \ Range(stmt.cols) : wants[c] = Null
    /\ \A c \in Column : \/ c \in stmt.stale \/ stmt.bound[c] = Stored(c, wants[c])
                         \/ made = 0 /\ wants[c] = Null /\ c \in Range(stmt.cols)

BaseInv == FileInv /\ StmtInv

LEMMA ViewIs == FileInv => View = work
  BY DEF FileInv, View

\* NULL is stored as NULL.
LEMMA StoredNull == \A c : Stored(c, Null) = Null
  BY DEF Stored

LEMMA WriteKeeps ==
    ASSUME FileInv, NEW v, StoreOK(v), Write(v)
    PROVE  FileInv'
<1>1. work' = v /\ disk' \in {disk, v} /\ tx' = tx /\ (tx = "none" => disk' = v)
  BY DEF Write
<1> QED
  BY <1>1 DEF FileInv

\* ---- What the statements do to the table.
LEMMA InsertedIs ==
    ASSUME NEW v, StoreOK(v), NEW row
    PROVE  /\ Inserted(v, row) = [rows |-> Inserted(v, row).rows, seq |-> v.seq + 1]
           /\ Inserted(v, row).seq = v.seq + 1
           /\ DOMAIN Inserted(v, row).rows = DOMAIN v.rows \cup {v.seq + 1}
           /\ Inserted(v, row).rows[v.seq + 1] = row
           /\ \A i \in DOMAIN v.rows : i # v.seq + 1 /\ Inserted(v, row).rows[i] = v.rows[i]
<1> DEFINE f == [i \in DOMAIN v.rows \cup {v.seq + 1} |->
                    IF i = v.seq + 1 THEN row ELSE v.rows[i]]
<1>1. v = [rows |-> v.rows, seq |-> v.seq] /\ v.seq \in Nat /\ DOMAIN v.rows \subseteq 1 .. v.seq
  BY DEF StoreOK
<1>2. Inserted(v, row) = [rows |-> f, seq |-> v.seq + 1]
  <2> HIDE DEF f
  <2>1. Inserted(v, row) = [v EXCEPT !.seq = v.seq + 1, !.rows = f]
    BY DEF Inserted, NextId, f
  <2> QED
    BY <1>1, <2>1
<1>3. \A i \in DOMAIN v.rows : i # v.seq + 1
  BY <1>1
<1>4. /\ Inserted(v, row).rows = f /\ Inserted(v, row).seq = v.seq + 1
  BY <1>2
<1> QED
  BY <1>2, <1>3, <1>4

LEMMA InsertedOK ==
    ASSUME NEW v, StoreOK(v), NEW row, RowOK(row)
    PROVE  StoreOK(Inserted(v, row))
<1> DEFINE w == Inserted(v, row)
<1>1. /\ w = [rows |-> w.rows, seq |-> v.seq + 1] /\ w.seq = v.seq + 1
      /\ DOMAIN w.rows = DOMAIN v.rows \cup {v.seq + 1} /\ w.rows[v.seq + 1] = row
      /\ \A i \in DOMAIN v.rows : w.rows[i] = v.rows[i]
  BY InsertedIs
<1> HIDE DEF w
<1>2. v.seq \in Nat /\ DOMAIN v.rows \subseteq 1 .. v.seq /\ \A i \in DOMAIN v.rows : RowOK(v.rows[i])
  BY DEF StoreOK
<1>3. DOMAIN w.rows \subseteq 1 .. w.seq
  BY <1>1, <1>2
<1>4. \A i \in DOMAIN w.rows : RowOK(w.rows[i])
  BY <1>1, <1>2
<1>5. StoreOK(w)
  BY <1>1, <1>2, <1>3, <1>4 DEF StoreOK
<1> QED
  BY <1>5 DEF w

LEMMA WithoutIs ==
    ASSUME NEW v, StoreOK(v), NEW ids
    PROVE  /\ StoreOK(Without(v, ids)) /\ Without(v, ids).seq = v.seq
           /\ DOMAIN Without(v, ids).rows = DOMAIN v.rows \ ids
           /\ \A i \in DOMAIN v.rows \ ids : Without(v, ids).rows[i] = v.rows[i]
<1> DEFINE f == [i \in DOMAIN v.rows \ ids |-> v.rows[i]]
<1>1. v = [rows |-> v.rows, seq |-> v.seq]
  BY DEF StoreOK
<1>2. Without(v, ids) = [rows |-> f, seq |-> v.seq]
  <2> HIDE DEF f
  <2>1. Without(v, ids) = [v EXCEPT !.rows = f]
    BY DEF Without, f
  <2> QED
    BY <1>1, <2>1
<1>3. Without(v, ids).rows = f /\ Without(v, ids).seq = v.seq
  BY <1>2
<1>4. StoreOK(Without(v, ids))
  BY <1>2, <1>3 DEF StoreOK
<1> QED
  BY <1>3, <1>4

\* A property of a row is set.
SetIn(v, id, col, x) ==
    [v EXCEPT !.rows[id].vals[col] = Stored(col, x), !.rows[id].given[col] = x]

LEMMA SetIs ==
    ASSUME NEW v, StoreOK(v), NEW id \in DOMAIN v.rows, NEW col \in Column, NEW x \in Value[col]
    PROVE  /\ StoreOK(SetIn(v, id, col, x)) /\ SetIn(v, id, col, x).seq = v.seq
           /\ DOMAIN SetIn(v, id, col, x).rows = DOMAIN v.rows
           /\ \A i \in DOMAIN v.rows : SetIn(v, id, col, x).rows[i].birth = v.rows[i].birth
<1> DEFINE r == v.rows[id]
           vals == [r.vals EXCEPT ![col] = Stored(col, x)]
           given == [r.given EXCEPT ![col] = x]
           s == [vals |-> vals, given |-> given, birth |-> r.birth, late |-> r.late]
           f == [v.rows EXCEPT ![id] = s]
<1>1. /\ v = [rows |-> v.rows, seq |-> v.seq] /\ v.seq \in Nat /\ DOMAIN v.rows \subseteq 1 .. v.seq
      /\ \A i \in DOMAIN v.rows : RowOK(v.rows[i])
  BY DEF StoreOK
<1>2. /\ r = [vals |-> r.vals, given |-> r.given, birth |-> r.birth, late |-> r.late]
      /\ DOMAIN r.vals = Column /\ DOMAIN r.given = Column
      /\ r.late \/ AsGiven(r.vals, r.given)
  BY <1>1 DEF RowOK
<1>3. /\ DOMAIN vals = Column /\ DOMAIN given = Column
      /\ AsGiven(r.vals, r.given) => AsGiven(vals, given)
  BY <1>2 DEF AsGiven
<1>4. SetIn(v, id, col, x) = [rows |-> f, seq |-> v.seq]
  <2>1. [v EXCEPT !.rows[id].vals[col] = Stored(col, x)] =
            [rows |-> [v.rows EXCEPT ![id] = [r EXCEPT !.vals = vals]], seq |-> v.seq]
    BY <1>1
  <2>2. [r EXCEPT !.vals = vals] = [vals |-> vals, given |-> r.given, birth |-> r.birth, late |-> r.late]
    <3> HIDE DEF vals, r
    <3> QED
      BY <1>2
  <2> DEFINE m == [vals |-> vals, given |-> r.given, birth |-> r.birth, late |-> r.late]
             g == [v.rows EXCEPT ![id] = m]
             w == [rows |-> g, seq |-> v.seq]
  <2>3. SetIn(v, id, col, x) = [w EXCEPT !.rows[id].given[col] = x]
    BY <2>1, <2>2 DEF SetIn
  <2>4. g[id] = m /\ m.given = r.given
    OBVIOUS
  <2>5. [w EXCEPT !.rows[id].given[col] = x] =
            [rows |-> [g EXCEPT ![id] = [m EXCEPT !.given = given]], seq |-> v.seq]
    BY <2>4
  <2>6. [m EXCEPT !.given = given] = s
    OBVIOUS
  <2>7. [g EXCEPT ![id] = s] = f
    OBVIOUS
  <2> QED
    BY <2>3, <2>5, <2>6, <2>7
<1> HIDE DEF vals, given
<1>5. SetIn(v, id, col, x).rows = f /\ SetIn(v, id, col, x).seq = v.seq
  BY <1>4
<1>6. RowOK(s)
  BY <1>2, <1>3 DEF RowOK
<1>7. s.birth = r.birth
  OBVIOUS
<1> HIDE DEF s, r
<1>8. StoreOK(SetIn(v, id, col, x))
  BY <1>1, <1>4, <1>5, <1>6 DEF StoreOK
<1> QED
  BY <1>5, <1>7, <1>8 DEF r
--------------------------------------------------------------------------------
(***************************************************************************)
(* The writer's statement.                                                 *)
(***************************************************************************)
LEMMA StmtInit == Init => StmtInv
<1> SUFFICES ASSUME Init PROVE StmtInv
  OBVIOUS
<1>1. /\ stmt = NoStatement /\ wants = NoValues /\ made = 0 /\ pc = "prepare"
  BY DEF Init
<1>2. /\ stmt.cols = <<>> /\ stmt.bound = NoValues /\ stmt.static = {} /\ stmt.pending = FALSE
      /\ stmt.stale = {} /\ Range(stmt.cols) = {} /\ stmt.cols \in Seq(Column)
      /\ stmt = [cols |-> stmt.cols, dtypes |-> stmt.dtypes, bound |-> stmt.bound,
                 static |-> stmt.static, pending |-> stmt.pending, stale |-> stmt.stale,
                 oneShot |-> stmt.oneShot]
  BY <1>1 DEF NoStatement, Range
<1>3. \A c \in Column : wants[c] = Null /\ stmt.bound[c] = Null
  BY <1>1, <1>2 DEF NoValues
<1> QED
  BY <1>1, <1>2, <1>3, StoredNull DEF StmtInv, NoValues

LEMMA StmtPrepare ==
    ASSUME StmtInv, NEW cols \in ColumnLists, prepareINSERT(cols)
    PROVE  StmtInv'
<1> DEFINE named == SelectSeq(Columns, LAMBDA c : c \in Range(cols))
           dtypes == [i \in DOMAIN named |-> Kind[named[i]]]
<1>1. /\ pc = "prepare" /\ pc' = "run" /\ wants' = wants /\ made' = made /\ wants = NoValues
      /\ made \in Nat
  BY DEF prepareINSERT, StmtInv
<1>2. stmt' = [NoStatement EXCEPT !.cols = cols, !.dtypes = dtypes]
  BY DEF prepareINSERT
<1> HIDE DEF dtypes, named
<1>3. stmt' = [cols |-> cols, dtypes |-> dtypes, bound |-> NoValues, static |-> {},
               pending |-> FALSE, stale |-> {}, oneShot |-> 0]
  BY <1>2 DEF NoStatement
<1>4. /\ stmt'.cols = cols /\ stmt'.dtypes = dtypes /\ stmt'.bound = NoValues /\ stmt'.static = {}
      /\ stmt'.pending = FALSE /\ stmt'.stale = {} /\ stmt'.oneShot = 0
  BY <1>3
<1>5. cols \in Seq(Column)
  BY RecordsAssumption
<1>6. \A c \in Column : wants[c] = Null
  BY <1>1 DEF NoValues
<1> QED
  BY <1>1, <1>3, <1>4, <1>5, <1>6, StoredNull DEF StmtInv, NoValues

\* The columns of the statement are columns of the table.
LEMMA ColsAre ==
    ASSUME StmtInv
    PROVE  /\ \A i \in DOMAIN stmt.cols : stmt.cols[i] \in Column /\ stmt.cols[i] \in Range(stmt.cols)
           /\ Range(stmt.cols) \subseteq Column
  BY DEF StmtInv, Range

LEMMA StmtSet ==
    ASSUME StmtInv, NEW i \in DOMAIN stmt.cols, setColumnValue(i)
    PROVE  StmtInv'
<1> DEFINE col == stmt.cols[i]
<1>1. CASE StageThrows
  BY <1>1 DEF StageThrows, StmtInv, NoValues
<1>2. ASSUME NEW v \in Value[col], NEW isStatic \in BOOLEAN,
             stmt' = Bound(i, v, isStatic), wants' = [wants EXCEPT ![col] = v],
             UNCHANGED <<made, pc>>, pc = "run"
      PROVE  StmtInv'
  <2>1. /\ col \in Column /\ col \in Range(stmt.cols) /\ DOMAIN wants = Column
        /\ DOMAIN stmt.bound = Column
    BY ColsAre DEF StmtInv
  <2>2. /\ DOMAIN wants' = Column /\ wants'[col] = v
        /\ \A c \in Column : c # col => wants'[c] = wants[c]
    BY <1>2, <2>1
  <2>3. CASE stmt.pending
    <3>1. stmt' = stmt /\ stmt.stale = Column
      BY <1>2, <2>3 DEF Bound, StmtInv
    <3> QED
      BY <1>2, <2>1, <2>2, <3>1 DEF StmtInv
  <2>4. CASE ~stmt.pending
    <3> DEFINE bound == [stmt.bound EXCEPT ![col] = Stored(col, v)]
               static == IF isStatic THEN stmt.static \cup {col} ELSE stmt.static \ {col}
    <3>1. stmt' = [stmt EXCEPT !.bound = bound, !.stale = stmt.stale \ {col}, !.static = static]
      BY <1>2, <2>4 DEF Bound
    <3>2. /\ DOMAIN bound = Column /\ bound[col] = Stored(col, v)
          /\ \A c \in Column : c # col => bound[c] = stmt.bound[c]
      BY <2>1
    <3>3. static \subseteq Range(stmt.cols)
      BY <2>1 DEF StmtInv
    <3> HIDE DEF bound, static
    <3>4. stmt' = [cols |-> stmt.cols, dtypes |-> stmt.dtypes, bound |-> bound, static |-> static,
                   pending |-> stmt.pending, stale |-> stmt.stale \ {col}, oneShot |-> stmt.oneShot]
      BY <3>1 DEF StmtInv
    <3>5. /\ stmt'.cols = stmt.cols /\ stmt'.bound = bound /\ stmt'.static = static
          /\ stmt'.pending = stmt.pending /\ stmt'.stale = stmt.stale \ {col}
          /\ stmt'.dtypes = stmt.dtypes /\ stmt'.oneShot = stmt.oneShot
      BY <3>4
    <3> HIDE DEF col
    <3>6. \A c \in Column : \/ c \in stmt'.stale \/ stmt'.bound[c] = Stored(c, wants'[c])
                            \/ made' = 0 /\ wants'[c] = Null /\ c \in Range(stmt'.cols)
      BY <1>2, <2>2, <3>2, <3>5 DEF StmtInv
    <3> QED
      BY <1>2, <2>1, <2>2, <2>4, <3>2, <3>3, <3>4, <3>5, <3>6 DEF StmtInv, col
  <2> QED
    BY <2>3, <2>4
<1>3. \/ StageThrows
      \/ \E v \in Value[col], isStatic \in BOOLEAN :
            /\ stmt' = Bound(i, v, isStatic) /\ wants' = [wants EXCEPT ![col] = v]
            /\ UNCHANGED <<made, pc>> /\ pc = "run"
  BY DEF setColumnValue, Writing
<1> QED
  BY <1>1, <1>2, <1>3

\* After a reset that clears the bindings.
LEMMA ResetIs ==
    ASSUME StmtInv, NEW clear \in BOOLEAN
    PROVE  /\ Reset(stmt, clear).cols = stmt.cols /\ Reset(stmt, clear).pending = FALSE
           /\ Reset(stmt, clear).bound = IF clear THEN NoValues ELSE stmt.bound
           /\ Reset(stmt, clear).stale = IF clear THEN {} ELSE stmt.stale
           /\ Reset(stmt, clear).static = IF clear THEN {} ELSE stmt.static
           /\ Reset(stmt, clear).dtypes = stmt.dtypes /\ Reset(stmt, clear).oneShot = stmt.oneShot
           /\ Reset(stmt, clear) =
                 [cols |-> stmt.cols, dtypes |-> stmt.dtypes,
                  bound |-> IF clear THEN NoValues ELSE stmt.bound,
                  static |-> IF clear THEN {} ELSE stmt.static, pending |-> FALSE,
                  stale |-> IF clear THEN {} ELSE stmt.stale, oneShot |-> stmt.oneShot]
<1> DEFINE bound == IF clear THEN NoValues ELSE stmt.bound
           stale == IF clear THEN {} ELSE stmt.stale
           static == IF clear THEN {} ELSE stmt.static
           r == [cols |-> stmt.cols, dtypes |-> stmt.dtypes, bound |-> bound,
                 static |-> static, pending |-> FALSE, stale |-> stale, oneShot |-> stmt.oneShot]
<1>1. Reset(stmt, clear) = [stmt EXCEPT !.pending = FALSE, !.bound = bound, !.stale = stale,
                                        !.static = static]
  BY DEF Reset
<1> HIDE DEF bound, stale, static
<1>2. Reset(stmt, clear) = r
  BY <1>1 DEF StmtInv
<1>3. /\ r.cols = stmt.cols /\ r.pending = FALSE /\ r.bound = bound /\ r.stale = stale
      /\ r.static = static /\ r.dtypes = stmt.dtypes /\ r.oneShot = stmt.oneShot
  OBVIOUS
<1> QED
  BY <1>2, <1>3 DEF bound, stale, static

LEMMA StmtCleared ==
    ASSUME StmtInv, stmt' = Reset(stmt, TRUE), wants' = NoValues, made' \in Nat, pc' = pc
    PROVE  StmtInv'
<1>1. /\ stmt'.cols = stmt.cols /\ stmt'.pending = FALSE /\ stmt'.bound = NoValues
      /\ stmt'.stale = {} /\ stmt'.static = {}
      /\ stmt'.dtypes = stmt.dtypes /\ stmt'.oneShot = stmt.oneShot
      /\ stmt' = [cols |-> stmt.cols, dtypes |-> stmt.dtypes, bound |-> NoValues, static |-> {},
                  pending |-> FALSE, stale |-> {}, oneShot |-> stmt.oneShot]
  BY ResetIs
<1>2. DOMAIN NoValues = Column /\ \A c \in Column : NoValues[c] = Null
  BY DEF NoValues
<1>3. \A c \in Column : wants'[c] = Null /\ stmt'.bound[c] = Stored(c, wants'[c])
  BY <1>1, <1>2, StoredNull
<1> QED
  BY <1>1, <1>2, <1>3 DEF StmtInv

LEMMA StmtCreate ==
    ASSUME StmtInv, NEW clear \in BOOLEAN, createRecord(clear)
    PROVE  StmtInv'
<1>1. /\ stmt' = Reset(stmt, clear) /\ pc' = pc /\ pc = "run" /\ made' = made + 1 /\ made \in Nat
      /\ wants' = (IF clear THEN NoValues ELSE wants) /\ Ready
  BY DEF createRecord, Writing, StmtInv
<1>2. CASE clear
  BY <1>1, <1>2, StmtCleared
<1>3. CASE ~clear
  <2>1. /\ stmt'.cols = stmt.cols /\ stmt'.pending = FALSE /\ stmt'.bound = stmt.bound
        /\ stmt'.stale = stmt.stale /\ stmt'.static = stmt.static
        /\ stmt'.dtypes = stmt.dtypes /\ stmt'.oneShot = stmt.oneShot
        /\ stmt' = [cols |-> stmt.cols, dtypes |-> stmt.dtypes, bound |-> stmt.bound,
                    static |-> stmt.static, pending |-> FALSE, stale |-> stmt.stale,
                    oneShot |-> stmt.oneShot]
    BY <1>1, <1>3, ResetIs
  <2>2. \A c \in Column : c \in stmt.stale \/ stmt.bound[c] = Stored(c, wants[c])
    BY <1>1 DEF Ready, StmtInv
  <2>3. wants' = wants /\ made' \in Nat
    BY <1>1, <1>3
  <2> QED
    BY <1>1, <2>1, <2>2, <2>3 DEF StmtInv
<1> QED
  BY <1>2, <1>3

\* The functor is left, at its end or by an exception.
LEMMA StmtUnwound ==
    ASSUME StmtInv,
           \/ stmt' = Unwound(stmt)
           \/ stmt' = [Unwound(stmt) EXCEPT !.pending = TRUE, !.stale = Column],
           wants' = NoValues, made' = 0, pc' = pc
    PROVE  StmtInv'
<1> DEFINE bound == [c \in Column |-> IF c \in stmt.static THEN Freed ELSE stmt.bound[c]]
<1>1. Unwound(stmt) = [stmt EXCEPT !.bound = bound]
  BY DEF Unwound
<1>2. DOMAIN bound = Column /\ \A c \in Column \ stmt.static : bound[c] = stmt.bound[c]
  OBVIOUS
<1> HIDE DEF bound
<1>3. Unwound(stmt) = [cols |-> stmt.cols, dtypes |-> stmt.dtypes, bound |-> bound,
                       static |-> stmt.static, pending |-> stmt.pending, stale |-> stmt.stale,
                       oneShot |-> stmt.oneShot]
  BY <1>1 DEF StmtInv
<1> DEFINE Kept == /\ stmt' = [cols |-> stmt'.cols, dtypes |-> stmt'.dtypes, bound |-> stmt'.bound,
                               static |-> stmt'.static, pending |-> stmt'.pending,
                               stale |-> stmt'.stale, oneShot |-> stmt'.oneShot]
                   /\ stmt'.cols = stmt.cols /\ stmt'.bound = bound /\ stmt'.static = stmt.static
                   /\ stmt'.pending \in BOOLEAN /\ (stmt'.pending => stmt'.stale = Column)
                   /\ \A c \in Column : c \in stmt.stale => c \in stmt'.stale
<1>4. ASSUME stmt' = Unwound(stmt) PROVE Kept
  <2>1. /\ stmt'.cols = stmt.cols /\ stmt'.dtypes = stmt.dtypes /\ stmt'.bound = bound
        /\ stmt'.static = stmt.static /\ stmt'.pending = stmt.pending /\ stmt'.stale = stmt.stale
        /\ stmt'.oneShot = stmt.oneShot
    BY <1>3, <1>4
  <2> QED
    BY <1>3, <1>4, <2>1 DEF StmtInv
<1>5. ASSUME stmt' = [Unwound(stmt) EXCEPT !.pending = TRUE, !.stale = Column] PROVE Kept
  <2>1. stmt' = [cols |-> stmt.cols, dtypes |-> stmt.dtypes, bound |-> bound,
                 static |-> stmt.static, pending |-> TRUE, stale |-> Column,
                 oneShot |-> stmt.oneShot]
    <3> DEFINE u == Unwound(stmt)
               col == Column
    <3>1. /\ u = [cols |-> u.cols, dtypes |-> u.dtypes, bound |-> u.bound, static |-> u.static,
                  pending |-> u.pending, stale |-> u.stale, oneShot |-> u.oneShot]
          /\ u.cols = stmt.cols /\ u.dtypes = stmt.dtypes /\ u.bound = bound
          /\ u.static = stmt.static /\ u.oneShot = stmt.oneShot
      BY <1>3
    <3> HIDE DEF u, col
    <3>2. stmt' = [u EXCEPT !.pending = TRUE, !.stale = col]
      BY <1>5 DEF u, col
    <3>3. stmt' = [cols |-> u.cols, dtypes |-> u.dtypes, bound |-> u.bound, static |-> u.static,
                   pending |-> TRUE, stale |-> col, oneShot |-> u.oneShot]
      BY <3>1, <3>2
    <3> QED
      BY <3>1, <3>3 DEF col
  <2>2. /\ stmt'.cols = stmt.cols /\ stmt'.dtypes = stmt.dtypes /\ stmt'.bound = bound
        /\ stmt'.static = stmt.static /\ stmt'.pending = TRUE /\ stmt'.stale = Column
        /\ stmt'.oneShot = stmt.oneShot
    BY <2>1
  <2> QED
    BY <2>1, <2>2
<1>6. \A c \in Column : wants'[c] = Null /\ Stored(c, Null) = Null
  BY StoredNull DEF NoValues
<1>7. Kept
  BY <1>4, <1>5
<1>8. \A c \in Column : \/ c \in stmt'.stale \/ stmt'.bound[c] = Stored(c, wants'[c])
                        \/ made' = 0 /\ wants'[c] = Null /\ c \in Range(stmt'.cols)
  <2>1. ASSUME NEW c \in Column, c \notin Range(stmt.cols), c \notin stmt'.stale
        PROVE  stmt'.bound[c] = Null
    <3>1. c \notin stmt.static /\ c \notin stmt.stale /\ wants[c] = Null
      BY <1>7, <2>1 DEF StmtInv
    <3> QED
      BY <1>2, <1>6, <1>7, <2>1, <3>1 DEF StmtInv
  <2> QED
    BY <1>6, <1>7, <2>1
<1>9. DOMAIN wants' = Column
  BY DEF NoValues
<1> QED
  BY <1>2, <1>6, <1>7, <1>8, <1>9 DEF StmtInv

\* What a caller gives.
LEMMA GivenStored ==
    ASSUME NEW cols, NEW g \in Givens(cols), Range(cols) \subseteq Column
    PROVE  /\ AsGiven(StoredAll(g), g) /\ DOMAIN StoredAll(g) = Column /\ DOMAIN g = Column
           /\ \A c \in Column \ Range(cols) : g[c] = Null
  BY DEF Givens, StoredAll, AsGiven

LEMMA StmtOneShotBusy ==
    ASSUME StmtInv, oneShotBusy
    PROVE  StmtInv'
<1>1. PICK g \in Givens(stmt.cols), texts \in SUBSET Range(stmt.cols) :
          stmt' = [Unwound([stmt EXCEPT !.bound = StoredAll(g), !.static = texts])
                       EXCEPT !.pending = TRUE, !.stale = Column,
                              !.oneShot = Len(stmt.cols) - 1]
  BY DEF oneShotBusy
<1>2. wants' = NoValues /\ made' = 0 /\ pc' = pc
  BY DEF oneShotBusy, SilentException
<1> DEFINE bound == StoredAll(g)
           left == [c \in Column |-> IF c \in texts THEN Freed ELSE bound[c]]
           shot == Len(stmt.cols) - 1
           given == [stmt EXCEPT !.bound = bound, !.static = texts]
<1>3. DOMAIN left = Column
  OBVIOUS
<1>4. stmt' = [cols |-> stmt.cols, dtypes |-> stmt.dtypes, bound |-> left,
               static |-> texts, pending |-> TRUE, stale |-> Column, oneShot |-> shot]
  <2>1. stmt' = [[given EXCEPT !.bound = left] EXCEPT !.pending = TRUE, !.stale = Column,
                                                      !.oneShot = shot]
    <3>1. given.static = texts /\ given.bound = bound
      <4> HIDE DEF bound
      <4> QED
        BY DEF StmtInv
    <3>2. Unwound(given) = [given EXCEPT !.bound = left]
      <4> HIDE DEF bound, given
      <4> QED
        BY <3>1 DEF Unwound
    <3> QED
      BY <1>1, <3>2
  <2> HIDE DEF bound, left, shot
  <2>2. given = [cols |-> stmt.cols, dtypes |-> stmt.dtypes, bound |-> bound,
                 static |-> texts, pending |-> stmt.pending, stale |-> stmt.stale,
                 oneShot |-> stmt.oneShot]
    <3>1. stmt = [cols |-> stmt.cols, dtypes |-> stmt.dtypes, bound |-> stmt.bound,
                  static |-> stmt.static, pending |-> stmt.pending, stale |-> stmt.stale,
                  oneShot |-> stmt.oneShot]
      BY DEF StmtInv
    <3>2. PICK r : r = given
      OBVIOUS
    <3>3. r = [stmt EXCEPT !.bound = bound, !.static = texts]
      BY <3>2
    <3> HIDE DEF given
    <3>4. r = [cols |-> stmt.cols, dtypes |-> stmt.dtypes, bound |-> bound,
               static |-> texts, pending |-> stmt.pending, stale |-> stmt.stale,
               oneShot |-> stmt.oneShot]
      BY <3>1, <3>3
    <3> QED
      BY <3>2, <3>4
  <2> HIDE DEF given
  <2>3. [given EXCEPT !.bound = left]
          = [cols |-> stmt.cols, dtypes |-> stmt.dtypes, bound |-> left, static |-> texts,
             pending |-> stmt.pending, stale |-> stmt.stale, oneShot |-> stmt.oneShot]
    BY <2>2
  <2> QED
    BY <2>1, <2>3
<1> HIDE DEF left, shot
<1>5. /\ stmt'.cols = stmt.cols /\ stmt'.bound = left /\ stmt'.static = texts
      /\ stmt'.pending = TRUE /\ stmt'.stale = Column /\ stmt'.dtypes = stmt.dtypes
      /\ stmt'.oneShot = shot
  BY <1>4
<1>6. \A c \in Column : wants'[c] = Null
  BY <1>2 DEF NoValues
<1>7. DOMAIN wants' = Column
  BY <1>2 DEF NoValues
<1> QED
  BY <1>2, <1>3, <1>4, <1>5, <1>6, <1>7 DEF StmtInv

LEMMA StmtStep ==
    ASSUME StmtInv, [Next]_vars
    PROVE  StmtInv'
<1>1. ASSUME UNCHANGED <<stmt, wants, made>>, pc' = pc \/ pc' = "failed" PROVE StmtInv'
  BY <1>1 DEF StmtInv
<1>2. CASE RunStage
  BY <1>1, <1>2 DEF RunStage, writer
<1>3. CASE createRecordWithColValues
  <2>1. CASE StageThrows
    BY <1>1, <2>1 DEF StageThrows
  <2>2. CASE stmt' = Reset(stmt, TRUE) /\ wants' = NoValues /\ made' = made + 1 /\ pc' = pc
    <3>1. made' \in Nat
      BY <2>2 DEF StmtInv
    <3> QED
      BY <2>2, <3>1, StmtCleared
  <2> QED
    BY <1>3, <2>1, <2>2 DEF createRecordWithColValues
<1>4. CASE createRecordBusy
  <2>1. /\ stmt' = [Unwound(stmt) EXCEPT !.pending = TRUE, !.stale = Column]
        /\ wants' = NoValues /\ made' = 0 /\ pc' = pc
    BY <1>4 DEF createRecordBusy, SilentException
  <2> QED
    BY <2>1, StmtUnwound
<1>5. CASE CommitStage \/ CommitBusy
  <2>1. stmt' = Unwound(stmt) /\ wants' = NoValues /\ made' = 0 /\ pc' = pc
    BY <1>5 DEF CommitStage, CommitBusy, SilentException
  <2> QED
    BY <2>1, StmtUnwound
<1>6. CASE UserNext
  <2>1. UNCHANGED writer
    BY <1>6 DEF UserNext, INSERT, UserBegin, UserCommit, UserRollBack, findRecord, setProperty,
       removeRecordFromTable, removeAllRecordsFromTable, Deletes, RemovalReturns,
       removeAllRecordsFromAllTables, deleteResultSet
  <2> QED
    BY <1>1, <2>1 DEF writer
<1>7. CASE UNCHANGED vars
  BY <1>1, <1>7 DEF vars, writer
<1> QED
  BY <1>2, <1>3, <1>4, <1>5, <1>6, <1>7, StmtPrepare, StmtSet, StmtCreate, StmtOneShotBusy
     DEF Next, WriterNext
--------------------------------------------------------------------------------
(***************************************************************************)
(* The rows.                                                               *)
(***************************************************************************)
LEMMA NewRowOK ==
    ASSUME NEW vals, NEW given, NEW late, DOMAIN vals = Column, DOMAIN given = Column,
           late \/ AsGiven(vals, given)
    PROVE  RowOK(NewRow(vals, given, late))
<1> DEFINE r == NewRow(vals, given, late)
<1>1. /\ r = [vals |-> vals, given |-> given, birth |-> inserts + 1, late |-> late]
      /\ r.vals = vals /\ r.given = given /\ r.birth = inserts + 1
  BY DEF NewRow
<1>2. r.late <=> late
  BY DEF NewRow
<1>3. r = [vals |-> r.vals, given |-> r.given, birth |-> r.birth, late |-> r.late]
  BY DEF NewRow
<1> HIDE DEF r
<1>4. RowOK(r)
  BY <1>1, <1>2, <1>3 DEF RowOK
<1> QED
  BY <1>4 DEF r

\* A row that is inserted.
LEMMA InsertKeeps ==
    ASSUME FileInv, NEW row, RowOK(row), Insert(row)
    PROVE  FileInv'
<1>1. StoreOK(Inserted(work, row)) /\ View = work
  BY InsertedOK, ViewIs DEF FileInv
<1> QED
  BY <1>1, WriteKeeps DEF Insert

LEMMA RollBackKeeps ==
    ASSUME FileInv, RollBack, disk' = disk
    PROVE  FileInv'
  BY DEF FileInv, RollBack

\* A row that is removed, or that gets a property.
LEMMA DeletesKeep ==
    ASSUME FileInv, NEW ids, Write(Without(View, ids))
    PROVE  FileInv'
<1>1. View = work /\ StoreOK(Without(work, ids))
  BY ViewIs, WithoutIs DEF FileInv
<1> QED
  BY <1>1, WriteKeeps

\* What setProperty() writes.
LEMMA PropertyWrites ==
    ASSUME FileInv, NEW h, NEW col \in Column, setProperty(h, col)
    PROVE  \/ /\ h.id \in DOMAIN work.rows
              /\ \E x \in Value[col] : Write(SetIn(work, h.id, col, x))
           \/ Write(work)
  BY ViewIs DEF setProperty, SetIn

LEMMA FileInit == Init => FileInv
<1> SUFFICES ASSUME Init PROVE FileInv
  OBVIOUS
<1>1. disk = [rows |-> <<>>, seq |-> 0] /\ work = disk /\ tx = "none"
  BY DEF Init
<1>2. disk.rows = <<>> /\ disk.seq = 0 /\ DOMAIN disk.rows = {}
  BY <1>1
<1> QED
  BY <1>1, <1>2 DEF FileInv, StoreOK

\* The file is emptied.
LEMMA EmptyOK == StoreOK([rows |-> <<>>, seq |-> 0])
<1> DEFINE v == [rows |-> <<>>, seq |-> 0]
<1>1. v.rows = <<>> /\ v.seq = 0 /\ DOMAIN v.rows = {}
  OBVIOUS
<1> QED
  BY <1>1 DEF StoreOK

LEMMA FileStep ==
    ASSUME BaseInv, [Next]_vars
    PROVE  FileInv'
<1> USE DEF BaseInv
<1>1. ASSUME UNCHANGED file PROVE FileInv'
  BY <1>1 DEF FileInv, file
<1>2. ASSUME NEW cols \in ColumnLists \cup {<<>>}, INSERT(cols) PROVE FileInv'
  <2>1. Range(cols) \subseteq Column
    BY RecordsAssumption DEF Range
  <2>2. PICK g \in Givens(cols) : Insert(NewRow(StoredAll(g), g, FALSE))
    BY <1>2 DEF INSERT
  <2>3. RowOK(NewRow(StoredAll(g), g, FALSE))
    BY <2>1, GivenStored, NewRowOK
  <2> QED
    BY <2>2, <2>3, InsertKeeps
<1>3. ASSUME NEW clear \in BOOLEAN, createRecord(clear) PROVE FileInv'
  <2>1. Insert(NewRow(stmt.bound, wants, stmt.stale # {})) /\ Ready
    BY <1>3 DEF createRecord
  <2>2. DOMAIN stmt.bound = Column /\ DOMAIN wants = Column
    BY DEF StmtInv
  <2>3. stmt.stale # {} \/ AsGiven(stmt.bound, wants)
    BY <2>1 DEF StmtInv, AsGiven, Ready
  <2>4. RowOK(NewRow(stmt.bound, wants, stmt.stale # {}))
    BY <2>2, <2>3, NewRowOK
  <2> QED
    BY <2>1, <2>4, InsertKeeps
<1>4. CASE createRecordWithColValues
  <2>1. CASE StageThrows
    BY <2>1, RollBackKeeps DEF StageThrows
  <2>2. ASSUME NEW g \in Givens(stmt.cols),
               Insert(NewRow(IF stmt.pending THEN stmt.bound ELSE StoredAll(g), g, stmt.pending))
        PROVE  FileInv'
    <3>1. /\ AsGiven(StoredAll(g), g) /\ DOMAIN StoredAll(g) = Column /\ DOMAIN g = Column
          /\ DOMAIN stmt.bound = Column
      BY ColsAre, GivenStored DEF StmtInv
    <3> DEFINE vals == IF stmt.pending THEN stmt.bound ELSE StoredAll(g)
    <3>2. DOMAIN vals = Column /\ (stmt.pending \/ AsGiven(vals, g))
      BY <3>1
    <3> HIDE DEF vals
    <3>3. RowOK(NewRow(vals, g, stmt.pending))
      BY <3>1, <3>2, NewRowOK
    <3> QED
      BY <2>2, <3>3, InsertKeeps DEF vals
  <2> QED
    BY <1>4, <2>1, <2>2 DEF createRecordWithColValues
<1>5. CASE createRecordBusy \/ oneShotBusy \/ CommitBusy
  BY <1>5, RollBackKeeps DEF createRecordBusy, oneShotBusy, CommitBusy, SilentException
<1>6. ASSUME NEW i \in DOMAIN stmt.cols, setColumnValue(i) PROVE FileInv'
  BY <1>1, <1>6, RollBackKeeps DEF setColumnValue, StageThrows
<1>7. CASE CommitStage \/ UserCommit \/ RunStage \/ UserBegin
  BY <1>7 DEF CommitStage, UserCommit, RunStage, UserBegin, FileInv
<1>8. ASSUME NEW h, NEW col \in Column, setProperty(h, col) PROVE FileInv'
  BY <1>8, PropertyWrites, SetIs, WriteKeeps DEF FileInv
<1>9. CASE removeAllRecordsFromAllTables
  BY <1>9, EmptyOK, WriteKeeps DEF removeAllRecordsFromAllTables
<1>10. ASSUME NEW ids, NEW kind, Deletes(ids, kind) PROVE FileInv'
  BY <1>10, DeletesKeep DEF Deletes
<1>11. ASSUME NEW q, deleteResultSet(q) PROVE FileInv'
  BY <1>11, DeletesKeep DEF deleteResultSet
<1>12. CASE UserRollBack
  BY <1>12, RollBackKeeps DEF UserRollBack
<1>13. CASE RemovalReturns \/ \E id \in DOMAIN View.rows : findRecord(id)
  BY <1>1, <1>13 DEF RemovalReturns, findRecord
<1>14. CASE \E cols \in ColumnLists : prepareINSERT(cols)
  BY <1>1, <1>14 DEF prepareINSERT
<1>15. CASE UNCHANGED vars
  BY <1>1, <1>15 DEF vars
<1>16. ASSUME NEW id, removeRecordFromTable(id) PROVE FileInv'
  BY <1>10, <1>16 DEF removeRecordFromTable
<1>17. ASSUME removeAllRecordsFromTable PROVE FileInv'
  BY <1>10, <1>17 DEF removeAllRecordsFromTable
<1>18. CASE WriterNext
  BY <1>3, <1>4, <1>5, <1>6, <1>7, <1>14, <1>18 DEF WriterNext
<1>19. CASE UserNext
  BY <1>2, <1>7, <1>8, <1>9, <1>11, <1>12, <1>13, <1>16, <1>17, <1>19 DEF UserNext
<1> QED
  BY <1>15, <1>18, <1>19 DEF Next

LEMMA BaseAlways == Spec => []BaseInv
<1>1. Init => BaseInv
  BY FileInit, StmtInit DEF BaseInv
<1>2. BaseInv /\ [Next]_vars => BaseInv'
  BY FileStep, StmtStep DEF BaseInv
<1> QED
  BY <1>1, <1>2, PTL DEF Spec
--------------------------------------------------------------------------------
(***************************************************************************)
(* Ids.                                                                    *)
(***************************************************************************)
\* The handles in H speak of the rows of v they were given for.
Holds(H, v) ==
    \A h \in H : /\ h.id \in 1 .. v.seq
                 /\ h.id \in DOMAIN v.rows => v.rows[h.id].birth = h.birth

\* w has no other row under an id of v.
Follows(v, w) ==
    /\ v.seq <= w.seq
    /\ \A i \in DOMAIN w.rows : i <= v.seq => i \in DOMAIN v.rows /\ w.rows[i].birth = v.rows[i].birth

HandleInv ==
    /\ tx = "none" => fresh = {}
    /\ Holds(handles, disk) /\ Holds(handles, work) /\ Holds(fresh, work)

LEMMA HoldsOn ==
    ASSUME NEW v, NEW w, StoreOK(v), StoreOK(w), NEW H, Holds(H, v), Follows(v, w)
    PROVE  Holds(H, w)
  BY DEF Holds, Follows, StoreOK

\* A write that follows keeps every handle.
LEMMA HandleWrite ==
    ASSUME FileInv, HandleInv, NEW v, StoreOK(v), Follows(work, v), Write(v)
    PROVE  /\ Holds(handles, disk') /\ Holds(handles, work') /\ Holds(fresh, work')
           /\ work' = v /\ (disk' = IF tx = "none" THEN v ELSE disk) /\ tx' = tx
<1>1. work' = v /\ (disk' = IF tx = "none" THEN v ELSE disk) /\ tx' = tx
  BY DEF Write
<1>2. StoreOK(work)
  BY DEF FileInv
<1>3. Holds(handles, v) /\ Holds(fresh, v)
  BY <1>2, HoldsOn DEF HandleInv
<1> QED
  BY <1>1, <1>3 DEF HandleInv

LEMMA HandleInsert ==
    ASSUME FileInv, HandleInv, NEW vals, NEW given, NEW late, RowOK(NewRow(vals, given, late)),
           Insert(NewRow(vals, given, late))
    PROVE  HandleInv'
<1> DEFINE row == NewRow(vals, given, late)
           v == Inserted(work, row)
           h == [id |-> work.seq + 1, birth |-> inserts + 1]
<1>1. View = work /\ StoreOK(work)
  BY ViewIs DEF FileInv
<1>2. row.birth = inserts + 1
  BY DEF NewRow
<1>3. StoreOK(v)
  BY <1>1, InsertedOK
<1>4. Write(v) /\ Given(NextId(work))
  BY <1>1 DEF Insert
<1> HIDE DEF row
<1>5. /\ v.seq = work.seq + 1 /\ v.rows[work.seq + 1] = row
      /\ DOMAIN v.rows = DOMAIN work.rows \cup {work.seq + 1}
      /\ \A i \in DOMAIN work.rows : v.rows[i] = work.rows[i]
  BY <1>1, InsertedIs
<1> HIDE DEF v
<1>6. Follows(work, v)
  BY <1>1, <1>5 DEF Follows, StoreOK
<1>7. /\ Holds(handles, disk') /\ Holds(handles, work') /\ Holds(fresh, work')
      /\ work' = v /\ (disk' = IF tx = "none" THEN v ELSE disk) /\ tx' = tx
  BY <1>3, <1>4, <1>6, HandleWrite
<1>8. Holds({h}, v)
  BY <1>1, <1>2, <1>5 DEF Holds, StoreOK
<1>9. IF tx = "none" THEN handles' = handles \cup {h} /\ fresh' = fresh
      ELSE fresh' = fresh \cup {h} /\ handles' = handles
  BY <1>4 DEF Given, NextId
<1> HIDE DEF h
<1>10. \A G, H, w : Holds(G, w) /\ Holds(H, w) => Holds(G \cup H, w)
  BY DEF Holds
<1>11. CASE tx = "none"
  <2>1. Holds(handles', disk') /\ Holds(handles', work') /\ Holds(fresh', work')
    BY <1>7, <1>8, <1>9, <1>10, <1>11
  <2> QED
    BY <1>7, <1>9, <1>11, <2>1 DEF HandleInv
<1>12. CASE tx # "none"
  <2>1. Holds(handles', disk') /\ Holds(handles', work') /\ Holds(fresh', work')
    BY <1>7, <1>8, <1>9, <1>10, <1>12
  <2> QED
    BY <1>7, <1>12, <2>1 DEF HandleInv
<1> QED
  BY <1>11, <1>12

\* A write that keeps the handles as they are.
LEMMA HandleKeeps ==
    ASSUME FileInv, HandleInv, NEW v, StoreOK(v), Follows(work, v), Write(v),
           UNCHANGED <<handles, fresh>>
    PROVE  HandleInv'
<1>1. /\ Holds(handles, disk') /\ Holds(handles, work') /\ Holds(fresh, work') /\ tx' = tx
  BY HandleWrite
<1> QED
  BY <1>1 DEF HandleInv

LEMMA HandleRollBack ==
    ASSUME HandleInv, RollBack, UNCHANGED <<disk, handles>>
    PROVE  HandleInv'
  BY DEF HandleInv, RollBack, Holds

LEMMA HandleStep ==
    ASSUME BaseInv, HandleInv, [Next]_vars
    PROVE  HandleInv'
<1>1. FileInv /\ StmtInv /\ View = work /\ StoreOK(work)
  BY ViewIs DEF BaseInv, FileInv
<1>2. ASSUME UNCHANGED <<file, handles, fresh>> PROVE HandleInv'
  BY <1>2 DEF HandleInv, file
<1>3. ASSUME NEW cols \in ColumnLists \cup {<<>>}, INSERT(cols) PROVE HandleInv'
  <2>1. Range(cols) \subseteq Column
    BY RecordsAssumption DEF Range
  <2>2. PICK g \in Givens(cols) : Insert(NewRow(StoredAll(g), g, FALSE))
    BY <1>3 DEF INSERT
  <2>3. RowOK(NewRow(StoredAll(g), g, FALSE))
    BY <2>1, GivenStored, NewRowOK
  <2> QED
    BY <1>1, <2>2, <2>3, HandleInsert
<1>4. ASSUME NEW clear \in BOOLEAN, createRecord(clear) PROVE HandleInv'
  <2>1. Insert(NewRow(stmt.bound, wants, stmt.stale # {})) /\ Ready
    BY <1>4 DEF createRecord
  <2>2. DOMAIN stmt.bound = Column /\ DOMAIN wants = Column
    BY <1>1 DEF StmtInv
  <2>3. stmt.stale # {} \/ AsGiven(stmt.bound, wants)
    BY <1>1, <2>1 DEF StmtInv, AsGiven, Ready
  <2>4. RowOK(NewRow(stmt.bound, wants, stmt.stale # {}))
    BY <2>2, <2>3, NewRowOK
  <2> QED
    BY <1>1, <2>1, <2>4, HandleInsert
<1>5. CASE createRecordWithColValues
  <2>1. CASE StageThrows
    BY <2>1, HandleRollBack DEF StageThrows
  <2>2. ASSUME NEW g \in Givens(stmt.cols),
               Insert(NewRow(IF stmt.pending THEN stmt.bound ELSE StoredAll(g), g, stmt.pending))
        PROVE  HandleInv'
    <3>1. /\ AsGiven(StoredAll(g), g) /\ DOMAIN StoredAll(g) = Column /\ DOMAIN g = Column
          /\ DOMAIN stmt.bound = Column
      BY <1>1, ColsAre, GivenStored DEF StmtInv
    <3> DEFINE vals == IF stmt.pending THEN stmt.bound ELSE StoredAll(g)
    <3>2. DOMAIN vals = Column /\ (stmt.pending \/ AsGiven(vals, g))
      BY <3>1
    <3> HIDE DEF vals
    <3>3. RowOK(NewRow(vals, g, stmt.pending))
      BY <3>1, <3>2, NewRowOK
    <3> QED
      BY <1>1, <2>2, <3>3, HandleInsert DEF vals
  <2> QED
    BY <1>5, <2>1, <2>2 DEF createRecordWithColValues
<1>6. CASE createRecordBusy \/ oneShotBusy \/ CommitBusy \/ UserRollBack
  BY <1>6, HandleRollBack DEF createRecordBusy, oneShotBusy, CommitBusy, SilentException, UserRollBack
<1>7. ASSUME NEW i \in DOMAIN stmt.cols, setColumnValue(i) PROVE HandleInv'
  <2>1. CASE StageThrows
    BY <2>1, HandleRollBack DEF StageThrows
  <2> QED
    BY <1>2, <1>7, <2>1 DEF setColumnValue
<1>8. CASE CommitStage \/ UserCommit
  <2>1. /\ disk' = work /\ work' = work /\ handles' = handles \cup fresh /\ fresh' = {}
    BY <1>8 DEF CommitStage, UserCommit
  <2>2. Holds(handles \cup fresh, work) /\ Holds({}, work)
    BY DEF HandleInv, Holds
  <2> QED
    BY <2>1, <2>2 DEF HandleInv
<1>9. CASE RunStage \/ UserBegin
  <2>1. /\ tx = "none" /\ disk' = disk /\ work' = disk /\ handles' = handles /\ fresh' = fresh
    BY <1>9 DEF RunStage, UserBegin
  <2> QED
    BY <2>1 DEF HandleInv, Holds
<1>10. ASSUME NEW h, NEW col \in Column, setProperty(h, col) PROVE HandleInv'
  <2>1. UNCHANGED <<handles, fresh>>
    BY <1>10 DEF setProperty
  <2>2. ASSUME h.id \in DOMAIN work.rows, NEW x \in Value[col], Write(SetIn(work, h.id, col, x))
        PROVE  HandleInv'
    <3> DEFINE v == SetIn(work, h.id, col, x)
    <3>1. /\ StoreOK(v) /\ v.seq = work.seq /\ DOMAIN v.rows = DOMAIN work.rows
          /\ \A i \in DOMAIN work.rows : v.rows[i].birth = work.rows[i].birth
      BY <1>1, <2>2, SetIs
    <3>2. Write(v)
      BY <2>2
    <3> HIDE DEF v
    <3>3. Follows(work, v)
      BY <1>1, <3>1 DEF Follows, StoreOK
    <3> QED
      BY <1>1, <2>1, <3>1, <3>2, <3>3, HandleKeeps
  <2>3. CASE Write(work)
    <3>1. Follows(work, work)
      BY <1>1 DEF Follows, StoreOK
    <3> QED
      BY <1>1, <2>1, <2>3, <3>1, HandleKeeps
  <2> QED
    BY <1>1, <1>10, <2>2, <2>3, PropertyWrites
<1>11. ASSUME NEW ids, Write(Without(View, ids)), UNCHANGED <<handles, fresh>> PROVE HandleInv'
  <2> DEFINE v == Without(work, ids)
  <2>1. /\ StoreOK(v) /\ v.seq = work.seq /\ DOMAIN v.rows = DOMAIN work.rows \ ids
        /\ \A i \in DOMAIN work.rows \ ids : v.rows[i] = work.rows[i]
    BY <1>1, WithoutIs
  <2>2. Write(v)
    BY <1>1, <1>11
  <2> HIDE DEF v
  <2>3. Follows(work, v)
    BY <1>1, <2>1 DEF Follows, StoreOK
  <2> QED
    BY <1>1, <1>11, <2>1, <2>2, <2>3, HandleKeeps
<1>12. ASSUME NEW ids, NEW kind, Deletes(ids, kind) PROVE HandleInv'
  BY <1>11, <1>12 DEF Deletes
<1>13. ASSUME NEW q, deleteResultSet(q) PROVE HandleInv'
  BY <1>11, <1>13 DEF deleteResultSet
<1>14. CASE removeAllRecordsFromAllTables
  BY <1>14 DEF removeAllRecordsFromAllTables, HandleInv, Holds
<1>15. ASSUME NEW id \in DOMAIN View.rows, findRecord(id) PROVE HandleInv'
  <2>1. CASE tx = "none"
    <3> DEFINE h == [id |-> id, birth |-> View.rows[id].birth]
    <3>1. handles' = handles \cup {h} /\ UNCHANGED <<file, fresh>>
      BY <1>15, <2>1 DEF findRecord
    <3>2. work = disk /\ id \in 1 .. work.seq /\ h.id = id /\ h.birth = work.rows[id].birth
      BY <1>1, <2>1 DEF FileInv, StoreOK
    <3> HIDE DEF h
    <3>3. Holds(handles \cup {h}, work)
      BY <3>2 DEF HandleInv, Holds
    <3> QED
      BY <2>1, <3>1, <3>2, <3>3 DEF HandleInv, file
  <2>2. CASE tx # "none"
    BY <1>2, <1>15, <2>2 DEF findRecord
  <2> QED
    BY <2>1, <2>2
<1>16. CASE RemovalReturns \/ UNCHANGED vars \/ \E cols \in ColumnLists : prepareINSERT(cols)
  BY <1>2, <1>16 DEF RemovalReturns, prepareINSERT, vars
<1>17. ASSUME NEW id, removeRecordFromTable(id) PROVE HandleInv'
  BY <1>12, <1>17 DEF removeRecordFromTable
<1>18. ASSUME removeAllRecordsFromTable PROVE HandleInv'
  BY <1>12, <1>18 DEF removeAllRecordsFromTable
<1>19. CASE WriterNext
  BY <1>4, <1>5, <1>6, <1>7, <1>8, <1>9, <1>16, <1>19 DEF WriterNext
<1>20. CASE UserNext
  BY <1>3, <1>6, <1>8, <1>9, <1>10, <1>13, <1>14, <1>15, <1>16, <1>17, <1>18, <1>20 DEF UserNext
<1> QED
  BY <1>16, <1>19, <1>20 DEF Next

\* An id that was handed out for good never comes to mean another row, through removals,
\* rolled-back insertions and new ones (HandleTrue): the counter is never behind an id that is
\* out (Connection.hpp:213, PreparedINSERT.hpp:146).
THEOREM IdsStayTrue == Spec => []HandleTrue
<1>1. Init => HandleInv
  BY DEF Init, HandleInv, Holds
<1>2. BaseInv /\ HandleInv /\ [Next]_vars => HandleInv'
  BY HandleStep
<1>3. HandleInv => HandleTrue
  BY DEF HandleInv, Holds, HandleTrue
<1> QED
  BY <1>1, <1>2, <1>3, BaseAlways, PTL DEF Spec
--------------------------------------------------------------------------------
(***************************************************************************)
(* Removals.                                                               *)
(***************************************************************************)
\* What sqlite3_changes() says is what the removing call removed, until another statement's
\* count comes.
RemovalInv ==
    /\ removal = [kind |-> removal.kind, did |-> removal.did, mixed |-> removal.mixed]
    /\ removal # NoRemoval => /\ removal.kind \in {"one", "all"}
                              /\ removal.mixed \/ changes = removal.did
                              /\ removal.kind = "one" => removal.did \in {0, 1}

LEMMA RemovalStep ==
    ASSUME RemovalInv, [Next]_vars
    PROVE  RemovalInv'
<1>1. ASSUME UNCHANGED <<changes, removal>> PROVE RemovalInv'
  BY <1>1 DEF RemovalInv
<1>2. ASSUME NEW n, Counted(n) PROVE RemovalInv'
  <2>1. CASE Returned
    BY <1>1, <1>2, <2>1 DEF Counted
  <2>2. CASE ~Returned
    <3>1. removal' = [removal EXCEPT !.mixed = TRUE]
      BY <1>2, <2>2 DEF Counted
    <3>2. removal' = [kind |-> removal.kind, did |-> removal.did, mixed |-> TRUE]
      BY <3>1 DEF RemovalInv
    <3>3. removal'.kind = removal.kind /\ removal'.did = removal.did /\ removal'.mixed = TRUE
      BY <3>2
    <3> QED
      BY <2>2, <3>2, <3>3 DEF RemovalInv, Returned
  <2> QED
    BY <2>1, <2>2
<1>3. ASSUME NEW row, Insert(row) PROVE RemovalInv'
  BY <1>2, <1>3 DEF Insert
<1>4. ASSUME NEW ids, NEW kind \in {"one", "all"}, Deletes(ids, kind),
             kind = "one" => \E id : ids = {id}
      PROVE  RemovalInv'
  <2> DEFINE gone == ids \cap DOMAIN View.rows
             n == Cardinality(gone)
  <2>1. changes' = n /\ removal' = [kind |-> kind, did |-> n, mixed |-> FALSE]
    BY <1>4 DEF Deletes
  <2>2. kind = "one" => n \in {0, 1}
    <3>1. ASSUME kind = "one" PROVE n \in {0, 1}
      <4>1. PICK id : ids = {id}
        BY <1>4, <3>1
      <4>2. gone = {} \/ gone = {id}
        BY <4>1
      <4>3. Cardinality({}) = 0 /\ Cardinality({id}) = 1
        BY FS_EmptySet, FS_Singleton
      <4> QED
        BY <4>2, <4>3
    <3> QED
      BY <3>1
  <2> HIDE DEF n
  <2>3. removal'.kind = kind /\ removal'.did = n /\ removal'.mixed = FALSE
    BY <2>1
  <2> QED
    BY <2>1, <2>2, <2>3, <1>4 DEF RemovalInv
<1>5. CASE RemovalReturns
  BY <1>5 DEF RemovalReturns, RemovalInv, NoRemoval
<1>6. CASE WriterNext
  BY <1>1, <1>3, <1>6 DEF WriterNext, prepareINSERT, RunStage, setColumnValue, StageThrows, createRecord,
     createRecordWithColValues, createRecordBusy, oneShotBusy, SilentException, CommitStage, CommitBusy
<1>7. ASSUME NEW h, NEW col, setProperty(h, col) PROVE RemovalInv'
  BY <1>2, <1>7 DEF setProperty
<1>8. ASSUME NEW q, deleteResultSet(q) PROVE RemovalInv'
  BY <1>2, <1>8 DEF deleteResultSet
<1>9. ASSUME NEW id, removeRecordFromTable(id) PROVE RemovalInv'
  BY <1>4, <1>9 DEF removeRecordFromTable
<1>10. CASE removeAllRecordsFromTable
  BY <1>4, <1>10 DEF removeAllRecordsFromTable
<1>11. ASSUME NEW cols, INSERT(cols) PROVE RemovalInv'
  BY <1>3, <1>11 DEF INSERT
<1>12. CASE UserBegin \/ UserCommit \/ UserRollBack \/ removeAllRecordsFromAllTables
            \/ \E id \in DOMAIN View.rows : findRecord(id)
  BY <1>1, <1>12 DEF UserBegin, UserCommit, UserRollBack, removeAllRecordsFromAllTables, findRecord
<1>13. CASE UserNext
  BY <1>5, <1>7, <1>8, <1>9, <1>10, <1>11, <1>12, <1>13 DEF UserNext
<1>14. CASE UNCHANGED vars
  BY <1>1, <1>14 DEF vars
<1> QED
  BY <1>6, <1>13, <1>14 DEF Next

\* A removing call answers what it removed, unless another statement's count came between its
\* transaction and its reading of sqlite3_changes() (RemovalAnswers; DatabaseManager.hpp:273, 290).
THEOREM RemovalsAnswered == Spec => RemovalAnswers
<1>1. Init => RemovalInv
  BY DEF Init, RemovalInv, NoRemoval
<1>2. RemovalInv /\ [Next]_vars => RemovalInv'
  BY RemovalStep
<1>3. RemovalInv /\ [Next]_vars => [RemovalReturns => removal.mixed \/ Answer = removal.did]_vars
  <2>1. ASSUME RemovalInv, RemovalReturns, ~removal.mixed PROVE Answer = removal.did
    BY <2>1 DEF RemovalInv, RemovalReturns, Returned, Answer
  <2> QED
    BY <2>1
<1> QED
  BY <1>1, <1>2, <1>3, PTL DEF Spec, RemovalAnswers
--------------------------------------------------------------------------------
(***************************************************************************)
(* The digits of a uint64_t.  What the source's loops compute is a function *)
(* defined by recursion on the place: that there is one is shown first.    *)
(***************************************************************************)
LEMMA Least ==
    ASSUME NEW S, S \subseteq Nat, S # {}
    PROVE  \E n \in S : \A m \in S : n <= m
<1>1. PICK n \in S : \A m \in S : ~(<<m, n>> \in OpToRel(<, Nat))
  BY NatLessThanWellFounded, WFMin
<1>2. ASSUME NEW m \in S PROVE n <= m
  <2>1. m \in Nat /\ n \in Nat
    OBVIOUS
  <2>2. ~(m < n)
    BY <1>1, <2>1 DEF OpToRel
  <2> QED
    BY <2>1, <2>2
<1> QED
  BY <1>2

\* A set that holds 0, and with every place the next, holds every place.
LEMMA Climb ==
    ASSUME NEW N \in Nat, NEW S, 0 \in S, \A k \in 0 .. N - 1 : k \in S => k + 1 \in S
    PROVE  \A k \in 0 .. N : k \in S
<1> DEFINE T == {k \in 0 .. N : k \notin S}
<1>1. SUFFICES ASSUME T # {} PROVE FALSE
  OBVIOUS
<1>2. PICK m \in T : \A k \in T : m <= k
  <2>1. T \subseteq Nat
    OBVIOUS
  <2> HIDE DEF T
  <2> QED
    BY <1>1, <2>1, Least
<1>3. m # 0 /\ m - 1 \in 0 .. N - 1 /\ m - 1 \in 0 .. N /\ m = (m - 1) + 1 /\ ~(m <= m - 1)
  OBVIOUS
<1>4. m - 1 \in S
  BY <1>2, <1>3
<1> QED
  BY <1>3, <1>4

LEMMA SizesAre == Base \in Nat /\ Base > 1 /\ Width \in Nat /\ Width > 0
  BY ColumnsAssumption

\* Taking the last digit off.
LEMMA DigitIs ==
    ASSUME NEW a \in Nat
    PROVE  /\ a \div Base \in Nat /\ a % Base \in 0 .. Base - 1
           /\ a = (a \div Base) * Base + (a % Base)
  BY SizesAre

\* What is left of v, place by place.
LEMMA LeftIs ==
    ASSUME NEW v \in Nat
    PROVE  /\ Left(v)[Width] = v
           /\ \A i \in 0 .. Width : Left(v)[i] \in Nat
           /\ \A i \in 0 .. Width - 1 : Left(v)[i] = Left(v)[i + 1] \div Base
<1> DEFINE Eq(f, m) == f = [i \in m .. Width |-> IF i = Width THEN v ELSE f[i + 1] \div Base]
           S == {k \in Nat : k <= Width => \E f : Eq(f, Width - k)}
<1>1. 0 \in S
  <2>1. Eq([i \in Width .. Width |-> v], Width)
    BY SizesAre
  <2>2. Width - 0 = Width
    BY SizesAre
  <2>3. \E f : Eq(f, Width - 0)
    BY <2>1, <2>2
  <2> QED
    BY <2>3
<1>2. ASSUME NEW k \in 0 .. Width - 1, k \in S PROVE k + 1 \in S
  <2>1. PICK f : Eq(f, Width - k)
    BY <1>2, SizesAre
  <2> DEFINE m == Width - (k + 1)
             g == [i \in m .. Width |-> IF i = m THEN f[i + 1] \div Base ELSE f[i]]
  <2>2. m \in Nat /\ m < Width /\ m + 1 = Width - k
    BY SizesAre
  <2> HIDE DEF m
  <2>3. \A i \in m .. Width : i # m => i \in (m + 1) .. Width
    BY <2>2, SizesAre
  <2>4. \A i \in (m + 1) .. Width : /\ i \in m .. Width /\ i # m
                                    /\ f[i] = IF i = Width THEN v ELSE f[i + 1] \div Base
                                    /\ i # Width => i + 1 \in (m + 1) .. Width
    BY <2>1, <2>2, SizesAre
  <2>5. \A i \in (m + 1) .. Width : g[i] = f[i]
    BY <2>4
  <2>6. m + 1 \in (m + 1) .. Width /\ m \in m .. Width
    BY <2>2, SizesAre
  <2>7. g[m] = g[m + 1] \div Base
    BY <2>5, <2>6
  <2>8. \A i \in m .. Width : g[i] = IF i = Width THEN v ELSE g[i + 1] \div Base
    BY <2>2, <2>3, <2>4, <2>5, <2>7
  <2>9. Eq(g, m)
    <3>1. g = [i \in m .. Width |-> g[i]]
      OBVIOUS
    <3> HIDE DEF g
    <3> QED
      BY <2>8, <3>1
  <2> HIDE DEF g
  <2> QED
    BY <2>9, SizesAre DEF m
<1>3. \E f : Eq(f, 0)
  <2>1. Width \in S
    <3> HIDE DEF S
    <3> QED
      BY <1>1, <1>2, Climb, SizesAre
  <2> QED
    BY <2>1, SizesAre
<1>4. Left(v) = CHOOSE f : Eq(f, 0)
  BY DEF Left
<1>5. Eq(Left(v), 0)
  BY <1>3, <1>4
<1> DEFINE l == Left(v)
<1>6. \A i \in 0 .. Width : l[i] = IF i = Width THEN v ELSE l[i + 1] \div Base
  BY <1>5
<1> HIDE DEF l
<1> DEFINE R == {k \in Nat : l[Width - k] \in Nat}
<1>7. l[Width] = v /\ \A i \in 0 .. Width - 1 : l[i] = l[i + 1] \div Base
  BY <1>6, SizesAre
<1>8. 0 \in R
  BY <1>7, SizesAre
<1>9. ASSUME NEW k \in 0 .. Width - 1, k \in R PROVE k + 1 \in R
  <2>1. /\ Width - (k + 1) \in 0 .. Width - 1 /\ (Width - (k + 1)) + 1 = Width - k
        /\ l[Width - k] \in Nat
    BY <1>9, SizesAre
  <2>2. l[Width - (k + 1)] = l[Width - k] \div Base
    BY <1>7, <2>1
  <2>3. l[Width - (k + 1)] \in Nat
    BY <2>1, <2>2, DigitIs
  <2> QED
    BY <2>3
<1>10. ASSUME NEW i \in 0 .. Width PROVE l[i] \in Nat
  <2>1. Width - i \in 0 .. Width /\ Width - (Width - i) = i
    BY SizesAre
  <2>2. Width - i \in R
    <3> HIDE DEF R
    <3> QED
      BY <1>8, <1>9, <2>1, Climb, SizesAre
  <2> QED
    BY <2>1, <2>2
<1> QED
  BY <1>7, <1>10 DEF l

\* The digits of v, and what is left after each of them.
LEMMA DigitsAre ==
    ASSUME NEW v, Fits(v)
    PROVE  /\ uint64_to_utf16(v) \in [1 .. Width -> 0 .. Base - 1]
           /\ v \in Nat /\ Left(v)[0] = 0 /\ Left(v)[Width] = v
           /\ \A i \in 0 .. Width : Left(v)[i] \in Nat
           /\ \A i \in 0 .. Width - 1 :
                  Left(v)[i + 1] = Left(v)[i] * Base + (uint64_to_utf16(v)[i + 1])
<1>1. v \in Nat /\ Left(v)[0] = 0
  BY DEF Fits
<1>2. /\ Left(v)[Width] = v /\ \A i \in 0 .. Width : Left(v)[i] \in Nat
      /\ \A i \in 0 .. Width - 1 : Left(v)[i] = Left(v)[i + 1] \div Base
  BY <1>1, LeftIs
<1>3. \A i \in 1 .. Width : i \in 0 .. Width
  OBVIOUS
<1>4. uint64_to_utf16(v) \in [1 .. Width -> 0 .. Base - 1]
  BY <1>2, <1>3, DigitIs DEF uint64_to_utf16
<1>5. ASSUME NEW i \in 0 .. Width - 1
      PROVE  Left(v)[i + 1] = Left(v)[i] * Base + (uint64_to_utf16(v)[i + 1])
  <2>1. i + 1 \in 1 .. Width /\ i + 1 \in 0 .. Width
    BY SizesAre
  <2>2. uint64_to_utf16(v)[i + 1] = Left(v)[i + 1] % Base
    BY <2>1 DEF uint64_to_utf16
  <2>3. Left(v)[i + 1] \in Nat /\ Left(v)[i] = Left(v)[i + 1] \div Base
    BY <1>2, <2>1
  <2> DEFINE a == Left(v)[i + 1]
  <2>4. a = (a \div Base) * Base + (a % Base)
    BY <2>3, DigitIs
  <2> QED
    BY <2>2, <2>3, <2>4
<1> QED
  BY <1>1, <1>2, <1>4, <1>5

\* Reading digits back: the value of the first i of them.
LEMMA ValueIs ==
    ASSUME NEW s
    PROVE  \E f : /\ utf16_to_uint64(s) = f[Width] /\ f[0] = 0
                  /\ \A i \in 0 .. Width - 1 : f[i + 1] = f[i] * Base + s[i + 1]
<1> DEFINE Eq(f, m) == f = [i \in 0 .. m |-> IF i = 0 THEN 0 ELSE f[i - 1] * Base + s[i]]
           S == {k \in Nat : \E f : Eq(f, k)}
<1>1. 0 \in S
  <2>1. Eq([i \in 0 .. 0 |-> 0], 0)
    OBVIOUS
  <2> QED
    BY <2>1
<1>2. ASSUME NEW k \in 0 .. Width - 1, k \in S PROVE k + 1 \in S
  <2>1. PICK f : Eq(f, k)
    BY <1>2
  <2> DEFINE m == k + 1
             g == [i \in 0 .. m |-> IF i = m THEN f[i - 1] * Base + s[i] ELSE f[i]]
  <2>2. m \in Nat /\ m - 1 = k /\ m # 0
    BY SizesAre
  <2> HIDE DEF m
  <2>3. \A i \in 0 .. m : i # m => i \in 0 .. k
    BY <2>2
  <2>4. \A i \in 0 .. k : /\ i \in 0 .. m /\ i # m
                          /\ f[i] = IF i = 0 THEN 0 ELSE f[i - 1] * Base + s[i]
                          /\ i # 0 => i - 1 \in 0 .. k
    BY <2>1, <2>2
  <2>5. \A i \in 0 .. k : g[i] = f[i]
    BY <2>4
  <2>6. k \in 0 .. k /\ m \in 0 .. m
    BY <2>2
  <2>7. g[m] = g[m - 1] * Base + s[m]
    BY <2>2, <2>5, <2>6
  <2>8. \A i \in 0 .. m : g[i] = IF i = 0 THEN 0 ELSE g[i - 1] * Base + s[i]
    BY <2>2, <2>3, <2>4, <2>5, <2>7
  <2>9. Eq(g, m)
    <3>1. g = [i \in 0 .. m |-> g[i]]
      OBVIOUS
    <3> HIDE DEF g
    <3> QED
      BY <2>8, <3>1
  <2> HIDE DEF g
  <2> QED
    BY <2>9, <2>2 DEF m
<1>3. \E f : Eq(f, Width)
  <2>1. Width \in S
    <3> HIDE DEF S
    <3> QED
      BY <1>1, <1>2, Climb, SizesAre
  <2> QED
    BY <2>1
<1> DEFINE value == CHOOSE f : Eq(f, Width)
<1>4. utf16_to_uint64(s) = value[Width]
  BY DEF utf16_to_uint64
<1>5. Eq(value, Width)
  BY <1>3
<1> HIDE DEF value
<1>6. \A i \in 0 .. Width : value[i] = IF i = 0 THEN 0 ELSE value[i - 1] * Base + s[i]
  BY <1>5
<1>7. ASSUME NEW i \in 0 .. Width - 1 PROVE value[i + 1] = value[i] * Base + s[i + 1]
  <2>1. i + 1 \in 0 .. Width /\ i + 1 # 0 /\ (i + 1) - 1 = i
    BY SizesAre
  <2> QED
    BY <1>6, <2>1
<1>8. value[0] = 0
  BY <1>6, SizesAre
<1> QED
  BY <1>4, <1>7, <1>8

\* A uint64_t that was stored is read back.
LEMMA RoundTrip ==
    ASSUME NEW v, Fits(v)
    PROVE  utf16_to_uint64(uint64_to_utf16(v)) = v
<1> DEFINE s == uint64_to_utf16(v)
           l == Left(v)
<1>1. PICK f : /\ utf16_to_uint64(s) = f[Width] /\ f[0] = 0
               /\ \A i \in 0 .. Width - 1 : f[i + 1] = f[i] * Base + s[i + 1]
  BY ValueIs
<1>2. /\ l[0] = 0 /\ l[Width] = v
      /\ \A i \in 0 .. Width - 1 : l[i + 1] = l[i] * Base + s[i + 1]
  BY DigitsAre
<1> HIDE DEF s, l
<1> DEFINE S == {k \in Nat : f[k] = l[k]}
<1>3. 0 \in S
  BY <1>1, <1>2
<1>4. ASSUME NEW k \in 0 .. Width - 1, k \in S PROVE k + 1 \in S
  BY <1>1, <1>2, <1>4
<1>5. Width \in S
  <2> HIDE DEF S
  <2> QED
    BY <1>3, <1>4, Climb, SizesAre
<1>6. f[Width] = l[Width]
  BY <1>5
<1> QED
  BY <1>1, <1>2, <1>6 DEF s
\* Two uint64_t that are stored alike are the same.
LEMMA StoredApart ==
    ASSUME NEW x, NEW y, Fits(x), Fits(y), uint64_to_utf16(x) = uint64_to_utf16(y)
    PROVE  x = y
<1>1. utf16_to_uint64(uint64_to_utf16(x)) = x /\ utf16_to_uint64(uint64_to_utf16(y)) = y
  BY RoundTrip
<1> QED
  BY <1>1

\* One more digit does not turn the order round.
LEMMA DigitKeepsOrder ==
    ASSUME NEW m \in Nat, NEW n \in Nat, m < n, NEW d \in 0 .. Base - 1, NEW e \in 0 .. Base - 1
    PROVE  m * Base + d < n * Base + e
<1>1. (m + 1) * Base <= n * Base
  BY SizesAre
<1>2. (m + 1) * Base = m * Base + Base
  BY SizesAre
<1>3. m * Base \in Nat /\ n * Base \in Nat
  BY SizesAre
<1> QED
  BY <1>1, <1>2, <1>3, SizesAre

\* Digits that differ first at place i.
DiffersAt(a, b, i) ==
    i \in 1 .. Width /\ a[i] < b[i] /\ \A j \in 1 .. i - 1 : a[j] = b[j]

LEMMA DiffersLess ==
    ASSUME NEW x, NEW y, Fits(x), Fits(y), NEW i,
           DiffersAt(uint64_to_utf16(x), uint64_to_utf16(y), i)
    PROVE  x < y
<1> DEFINE a == uint64_to_utf16(x)
           b == uint64_to_utf16(y)
           l == Left(x)
           r == Left(y)
<1>1. /\ a \in [1 .. Width -> 0 .. Base - 1] /\ l[0] = 0 /\ l[Width] = x
      /\ \A k \in 0 .. Width : l[k] \in Nat
      /\ \A k \in 0 .. Width - 1 : l[k + 1] = l[k] * Base + a[k + 1]
  BY DigitsAre
<1>2. /\ b \in [1 .. Width -> 0 .. Base - 1] /\ r[0] = 0 /\ r[Width] = y
      /\ \A k \in 0 .. Width : r[k] \in Nat
      /\ \A k \in 0 .. Width - 1 : r[k + 1] = r[k] * Base + b[k + 1]
  BY DigitsAre
<1>3. i \in 1 .. Width /\ a[i] < b[i] /\ \A j \in 1 .. i - 1 : a[j] = b[j]
  BY DEF DiffersAt
<1> HIDE DEF a, b, l, r
<1> DEFINE S == {k \in Nat : IF k < i THEN l[k] = r[k] ELSE l[k] < r[k]}
<1>4. 0 \in S
  BY <1>1, <1>2, <1>3
<1>5. ASSUME NEW k \in 0 .. Width - 1, k \in S PROVE k + 1 \in S
  <2> k \in 0 .. Width /\ k + 1 \in 1 .. Width
    BY SizesAre
  <2>1. /\ l[k] \in Nat /\ r[k] \in Nat
        /\ a[k + 1] \in 0 .. Base - 1 /\ b[k + 1] \in 0 .. Base - 1
        /\ l[k + 1] = l[k] * Base + a[k + 1]
        /\ r[k + 1] = r[k] * Base + b[k + 1]
    BY <1>1, <1>2
  <2>2. CASE k + 1 < i
    <3>1. k < i /\ k + 1 \in 1 .. i - 1
      BY <1>3, <2>2
    <3>2. l[k] = r[k] /\ a[k + 1] = b[k + 1]
      BY <1>3, <1>5, <3>1
    <3>3. l[k + 1] = r[k + 1]
      BY <2>1, <3>2
    <3> QED
      BY <2>2, <3>3
  <2>3. CASE k + 1 = i
    <3>1. l[k] = r[k] /\ a[k + 1] < b[k + 1]
      BY <1>3, <1>5, <2>3
    <3>2. l[k] * Base \in Nat
      BY <2>1, SizesAre
    <3> DEFINE p == l[k] * Base
    <3>3. l[k + 1] = p + a[k + 1] /\ r[k + 1] = p + b[k + 1] /\ p \in Nat
      BY <2>1, <3>1, <3>2
    <3> HIDE DEF p
    <3>4. l[k + 1] < r[k + 1]
      BY <2>1, <3>1, <3>3, SizesAre
    <3> QED
      BY <2>3, <3>4
  <2>4. CASE i < k + 1
    <3>1. l[k] < r[k]
      BY <1>3, <1>5, <2>4
    <3>2. l[k + 1] < r[k + 1]
      BY <2>1, <3>1, DigitKeepsOrder
    <3> QED
      BY <1>3, <2>4, <3>2
  <2> QED
    BY <1>3, <2>2, <2>3, <2>4
<1>6. Width \in S
  <2> HIDE DEF S
  <2> QED
    BY <1>4, <1>5, Climb, SizesAre
<1>7. l[Width] < r[Width]
  BY <1>3, <1>6
<1> QED
  BY <1>1, <1>2, <1>7

\* SQLite compares stored uint64_t as texts, and with their leading zeros that is the order of
\* numbers.
LEMMA TextOrder ==
    ASSUME NEW x, NEW y, Fits(x), Fits(y)
    PROVE  TextLess(uint64_to_utf16(x), uint64_to_utf16(y)) <=> x < y
<1> DEFINE a == uint64_to_utf16(x)
           b == uint64_to_utf16(y)
<1>1. /\ a \in [1 .. Width -> 0 .. Base - 1] /\ b \in [1 .. Width -> 0 .. Base - 1]
      /\ x \in Nat /\ y \in Nat
  BY DigitsAre
<1>2. a = b => x = y
  BY StoredApart
<1>3. \A i : DiffersAt(a, b, i) => x < y
  BY DiffersLess
<1>4. \A i : DiffersAt(b, a, i) => y < x
  BY DiffersLess
<1> HIDE DEF a, b
<1>5. TextLess(a, b) <=> \E i : DiffersAt(a, b, i)
  <2>1. Len(a) = Width /\ Len(b) = Width
    <3>1. a = [k \in 1 .. Width |-> a[k]] /\ b = [k \in 1 .. Width |-> b[k]]
      BY <1>1
    <3> QED
      BY <3>1, SizesAre
  <2>2. ~(Len(a) < Len(b))
    BY <2>1, SizesAre
  <2>3. DOMAIN a = 1 .. Width /\ DOMAIN b = 1 .. Width
    BY <1>1
  <2> QED
    BY <2>2, <2>3 DEF TextLess, DiffersAt
<1>6. ASSUME x < y PROVE \E i : DiffersAt(a, b, i)
  <2> DEFINE D == {k \in 1 .. Width : a[k] # b[k]}
  <2>1. D # {}
    <3>1. x # y
      BY <1>1, <1>6
    <3>2. a # b
      BY <1>2, <3>1
    <3>3. (\A k \in 1 .. Width : a[k] = b[k]) => a = b
      <4>1. a = [k \in 1 .. Width |-> a[k]] /\ b = [k \in 1 .. Width |-> b[k]]
        BY <1>1
      <4> QED
        BY <4>1
    <3> QED
      BY <3>2, <3>3
  <2>2. D \subseteq Nat
    OBVIOUS
  <2>3. PICK i \in D : \A k \in D : i <= k
    <3> HIDE DEF D
    <3> QED
      BY <2>1, <2>2, Least
  <2>4. \A j \in 1 .. i - 1 : a[j] = b[j]
    <3> SUFFICES ASSUME NEW j \in 1 .. i - 1, a[j] # b[j] PROVE FALSE
      OBVIOUS
    <3>1. i \in 1 .. Width
      OBVIOUS
    <3>2. j \in 1 .. Width /\ ~(i <= j)
      BY <3>1, SizesAre
    <3> QED
      BY <2>3, <3>2
  <2>5. a[i] < b[i] \/ b[i] < a[i]
    <3>1. a[i] \in 0 .. Base - 1 /\ b[i] \in 0 .. Base - 1 /\ a[i] # b[i]
      BY <1>1
    <3> QED
      BY <3>1, SizesAre
  <2>6. DiffersAt(a, b, i) \/ DiffersAt(b, a, i)
    BY <2>4, <2>5 DEF DiffersAt
  <2>7. ~(y < x)
    BY <1>1, <1>6
  <2> QED
    BY <1>4, <2>6, <2>7
<1>7. TextLess(a, b) <=> x < y
  BY <1>3, <1>5, <1>6
<1> QED
  BY <1>7 DEF a, b
--------------------------------------------------------------------------------
(***************************************************************************)
(* What rows read as, and what queries say of them.                        *)
(***************************************************************************)
LEMMA ValueIsOK ==
    ASSUME NEW c \in Column, NEW v \in Value[c]
    PROVE  v \in Int /\ v # Null /\ v # Freed /\ (Kind[c] = "uint64" => Fits(v))
  BY RecordsAssumption, ColumnsAssumption

\* A stored uint64_t is neither NULL nor bytes that were freed.
LEMMA DigitsNotNull ==
    ASSUME NEW v, Fits(v)
    PROVE  uint64_to_utf16(v) \notin {Null, Freed}
<1>1. uint64_to_utf16(v) \in [1 .. Width -> Nat]
  BY DigitsAre, SizesAre
<1> QED
  BY <1>1, ColumnsAssumption

\* Every committed row reads back as what its call was given (RowsAsGiven): no binding that is
\* shared, cleared, reused or rolled back reaches a row, unless the statement that wrote it was
\* left pending by BUSY (PreparedINSERT.hpp:37-147, Iterator.hpp:265-395).
THEOREM RowsReadBack == Spec => []RowsAsGiven
<1>1. ASSUME NEW c \in Column, NEW v \in Value[c] \cup {Null} PROVE Read(c, Stored(c, v)) = v
  <2>1. CASE v = Null
    BY <2>1 DEF Read, ReadUInt64, Stored
  <2>2. CASE v # Null /\ Kind[c] = "uint64"
    <3>1. Fits(v) /\ Stored(c, v) = uint64_to_utf16(v)
      BY <2>2, ValueIsOK DEF Stored
    <3>2. Stored(c, v) # Null /\ utf16_to_uint64(Stored(c, v)) = v
      BY <3>1, DigitsNotNull, RoundTrip
    <3> QED
      BY <2>2, <3>2 DEF Read, ReadUInt64
  <2>3. CASE Kind[c] # "uint64"
    BY <2>3 DEF Read, Stored
  <2> QED
    BY <2>1, <2>2, <2>3
<1>2. ASSUME NEW r, RowOK(r) PROVE r.late \/ ReadsAsGiven(r)
  BY <1>1, <1>2 DEF RowOK, AsGiven, ReadsAsGiven
<1>3. BaseInv => RowsAsGiven
  BY <1>2 DEF BaseInv, FileInv, StoreOK, RowsAsGiven
<1> QED
  BY <1>3, BaseAlways, PTL

\* A condition on one column, put to what is stored, says what it was meant to say of what was
\* given.
LEMMA MatchesMeans ==
    ASSUME NEW c, IsCondition(c), NEW row, RowOK(row), ~row.late, NEW id \in Nat
    PROVE  Matches(c, id, row) <=> Means(c, id, row)
<1> DEFINE col == c.col
           v == IF col = "Id" THEN id ELSE row.vals[col]
           g == IF col = "Id" THEN id ELSE row.given[col]
           L == c.literals
           A == c.asked
<1>1. c.op \in Comparison /\ A \subseteq Int
  BY DEF IsCondition
<1>2. /\ Matches(c, id, row) <=> Compares(col, c.op, v, L)
      /\ Means(c, id, row) <=>
            /\ g # Null
            /\ CASE c.op = "="      -> \A t \in A : g = t
                 [] c.op = "!="     -> \A t \in A : g # t
                 [] c.op = "<"      -> \A t \in A : g < t
                 [] c.op = "<="     -> \A t \in A : g <= t
                 [] c.op = ">"      -> \A t \in A : g > t
                 [] c.op = ">="     -> \A t \in A : g >= t
                 [] c.op = "IN"     -> g \in A
                 [] c.op = "NOT IN" -> g \notin A
  BY DEF Matches, Means
<1>3. AsGiven(row.vals, row.given)
  BY DEF RowOK
<1>4. CASE col \in Column /\ Kind[col] = "uint64"
  <2>1. /\ \A t \in A : Fits(t)
        /\ L = {uint64_to_utf16(t) : t \in A}
    BY <1>4 DEF IsCondition
  <2>2. g \in Value[col] \cup {Null} /\ v = Stored(col, g)
    BY <1>3, <1>4, ColumnsAssumption DEF AsGiven
  <2>3. CASE g = Null
    BY <1>2, <2>2, <2>3 DEF Stored, Compares
  <2>4. CASE g # Null
    <3>1. Fits(g) /\ v = uint64_to_utf16(g) /\ g \in Int
      BY <1>4, <2>2, <2>4, ValueIsOK DEF Stored
    <3>2. v \notin {Null, Freed}
      BY <3>1, DigitsNotNull
    <3>3. \A t \in A : v = uint64_to_utf16(t) <=> g = t
      BY <2>1, <3>1, StoredApart
    <3>4. \A t \in A : /\ Less(col, v, uint64_to_utf16(t)) <=> g < t
                       /\ Less(col, uint64_to_utf16(t), v) <=> t < g
      BY <1>4, <2>1, <3>1, TextOrder DEF Less
    <3>5. Compares(col, c.op, v, L) <=>
            CASE c.op = "="      -> \A t \in A : v = uint64_to_utf16(t)
              [] c.op = "!="     -> \A t \in A : v # uint64_to_utf16(t)
              [] c.op = "<"      -> \A t \in A : Less(col, v, uint64_to_utf16(t))
              [] c.op = "<="     -> \A t \in A : v = uint64_to_utf16(t) \/ Less(col, v, uint64_to_utf16(t))
              [] c.op = ">"      -> \A t \in A : Less(col, uint64_to_utf16(t), v)
              [] c.op = ">="     -> \A t \in A : v = uint64_to_utf16(t) \/ Less(col, uint64_to_utf16(t), v)
              [] c.op = "IN"     -> \E t \in A : v = uint64_to_utf16(t)
              [] c.op = "NOT IN" -> \A t \in A : v # uint64_to_utf16(t)
      <4> HIDE DEF v, col, A, L
      <4> QED
        BY <1>1, <2>1, <3>2 DEF Compares, Comparison
    <3> HIDE DEF v, g, col, A, L
    <3>6. Compares(col, c.op, v, L) <=>
            CASE c.op = "="      -> \A t \in A : g = t
              [] c.op = "!="     -> \A t \in A : g # t
              [] c.op = "<"      -> \A t \in A : g < t
              [] c.op = "<="     -> \A t \in A : g = t \/ g < t
              [] c.op = ">"      -> \A t \in A : t < g
              [] c.op = ">="     -> \A t \in A : g = t \/ t < g
              [] c.op = "IN"     -> \E t \in A : g = t
              [] c.op = "NOT IN" -> \A t \in A : g # t
      BY <1>1, <3>3, <3>4, <3>5 DEF Comparison
    <3>7. \A t \in A : /\ (g <= t) <=> (g = t \/ g < t)
                       /\ (g >= t) <=> (g = t \/ t < g)
                       /\ (g > t) <=> (t < g)
      BY <1>1, <3>1
    <3> QED
      BY <1>1, <1>2, <2>4, <3>6, <3>7 DEF Comparison
  <2> QED
    BY <2>3, <2>4
<1>5. CASE ~(col \in Column /\ Kind[col] = "uint64")
  <2>1. col \in Column \cup {"Id"} /\ L = A
    BY <1>5 DEF IsCondition
  <2>2. v = g /\ (g = Null \/ g \in Int)
    <3>1. CASE col = "Id"
      BY <3>1
    <3>2. CASE col \in Column /\ col # "Id"
      <4>1. g \in Value[col] \cup {Null} /\ v = Stored(col, g)
        BY <1>3, <3>2 DEF AsGiven
      <4> QED
        BY <1>5, <3>2, <4>1, ValueIsOK DEF Stored
    <3> QED
      BY <2>1, <3>1, <3>2
  <2>3. Null \notin Int /\ Freed \notin Int
    BY ColumnsAssumption
  <2> HIDE DEF v, g, col, A, L
  <2>4. \A t \in A : /\ Less(col, v, t) <=> v < t
                     /\ Less(col, t, v) <=> t < v
    BY <1>5 DEF Less
  <2>5. v \in Int => \A t \in A : /\ (v <= t) <=> (v = t \/ v < t)
                                  /\ (v >= t) <=> (v = t \/ t < v)
                                  /\ (v > t) <=> (t < v)
    BY <1>1
  <2>6. CASE v = Null
    BY <1>2, <2>2, <2>6 DEF Compares
  <2>7. CASE v \in Int
    <3>1. v \notin {Null, Freed}
      BY <2>3, <2>7
    <3>2. Compares(col, c.op, v, L) <=>
            CASE c.op = "="      -> \A t \in A : v = t
              [] c.op = "!="     -> \A t \in A : v # t
              [] c.op = "<"      -> \A t \in A : v < t
              [] c.op = "<="     -> \A t \in A : v = t \/ v < t
              [] c.op = ">"      -> \A t \in A : t < v
              [] c.op = ">="     -> \A t \in A : v = t \/ t < v
              [] c.op = "IN"     -> v \in A
              [] c.op = "NOT IN" -> v \notin A
      BY <1>1, <2>1, <2>4, <3>1 DEF Compares, Comparison
    <3> QED
      BY <1>1, <1>2, <2>2, <2>5, <2>7, <3>1, <3>2 DEF Comparison
  <2> QED
    BY <2>2, <2>6, <2>7
<1> QED
  BY <1>4, <1>5

\* ---- One row: M says which conditions it meets.
Ors(q) == {i \in DOMAIN q : q[i].op = "OR"}

Reached(q, b) == {i \in DOMAIN q : b < i /\ \A o \in Ors(q) : o <= b \/ i <= o}

Side(q, i) == IF i \in Ors(q) THEN q[i].left ELSE q[i].left \cup q[i].right

From(q, b) == (IF b \in Ors(q) THEN q[b].right ELSE {}) \cup UNION {Side(q, i) : i \in Reached(q, b)}

LEMMA AlternativesAre == \A q : Alternatives(q) = {From(q, b) : b \in {0} \cup Ors(q)}
  BY DEF Alternatives, From, Side, Reached, Ors

\* A clause is met if both its sides are, or for an OR one of them.
Met(clause, M) ==
    IF clause.op = "OR" THEN clause.left \subseteq M \/ clause.right \subseteq M
    ELSE clause.left \cup clause.right \subseteq M

\* The alternative that begins with the last OR whose right side is met, or with the clause's
\* beginning: of the ORs behind it the left side is met.
LEMMA MetSelected ==
    ASSUME NEW q, IsQuery(q), NEW M, \A i \in DOMAIN q : Met(q[i], M)
    PROVE  \E conditions \in Alternatives(q) : conditions \subseteq M
<1> DEFINE R == {i \in Ors(q) : q[i].right \subseteq M}
           n == Len(q)
<1>1. n \in Nat /\ DOMAIN q = 1 .. n
  BY DEF IsQuery
<1>2. \E b \in {0} \cup Ors(q) : /\ b \in Ors(q) => q[b].right \subseteq M
                                 /\ \A o \in Ors(q) : b < o => ~(q[o].right \subseteq M)
                                 /\ b \in Nat
  <2>1. CASE R = {}
    <3>1. 0 \notin Ors(q)
      BY <1>1 DEF Ors
    <3> QED
      BY <2>1, <3>1
  <2>2. CASE R # {}
    <3> DEFINE B == {n - i : i \in R}
    <3>1. \A i \in R : i \in 1 .. n
      BY <1>1 DEF Ors
    <3>2. B \subseteq Nat /\ B # {}
      BY <1>1, <2>2, <3>1
    <3>3. PICK k \in B : \A m \in B : k <= m
      <4> HIDE DEF B
      <4> QED
        BY <3>2, Least
    <3>4. PICK b \in R : k = n - b
      BY <3>3
    <3>5. ASSUME NEW o \in R PROVE o <= b
      <4>1. n - o \in B
        OBVIOUS
      <4>2. n - b <= n - o
        <5> HIDE DEF B
        <5> QED
          BY <3>3, <3>4, <4>1
      <4> QED
        BY <1>1, <3>1, <4>2
    <3>6. \A o \in Ors(q) : b < o => ~(q[o].right \subseteq M)
      <4> SUFFICES ASSUME NEW o \in Ors(q), b < o, q[o].right \subseteq M PROVE FALSE
        OBVIOUS
      <4>1. o \in R
        OBVIOUS
      <4>2. o <= b /\ b \in 1 .. n /\ o \in 1 .. n
        BY <3>1, <3>5, <4>1
      <4> QED
        BY <1>1, <4>2
    <3> QED
      BY <1>1, <3>1, <3>6
  <2> QED
    BY <2>1, <2>2
<1>3. PICK b \in {0} \cup Ors(q) : /\ b \in Ors(q) => q[b].right \subseteq M
                                   /\ \A o \in Ors(q) : b < o => ~(q[o].right \subseteq M)
  BY <1>2
<1>4. ASSUME NEW i \in Reached(q, b) PROVE Side(q, i) \subseteq M
  <2>1. i \in DOMAIN q /\ b < i /\ Met(q[i], M)
    BY DEF Reached
  <2>2. CASE i \in Ors(q)
    BY <1>3, <2>1, <2>2 DEF Side, Met, Ors
  <2>3. CASE i \notin Ors(q)
    BY <2>1, <2>3 DEF Side, Met, Ors
  <2> QED
    BY <2>2, <2>3
<1>5. From(q, b) \subseteq M
  BY <1>3, <1>4 DEF From
<1> QED
  BY <1>5, AlternativesAre

\* Without an OR beside another clause the alternatives are what the clauses say.
LEMMA SelectedMet ==
    ASSUME NEW q, IsQuery(q), Alone(q), NEW M, NEW conditions \in Alternatives(q),
           conditions \subseteq M
    PROVE  \A i \in DOMAIN q : Met(q[i], M)
<1>1. Len(q) \in Nat /\ DOMAIN q = 1 .. Len(q)
  BY DEF IsQuery
<1>2. PICK b \in {0} \cup Ors(q) : conditions = From(q, b)
  BY AlternativesAre
<1>3. CASE Ors(q) = {}
  <2>1. \A i \in DOMAIN q : i \in Reached(q, b)
    BY <1>1, <1>2, <1>3 DEF Reached
  <2>2. \A i \in DOMAIN q : Side(q, i) \subseteq M
    BY <1>2, <2>1 DEF From
  <2> QED
    BY <1>3, <2>2 DEF Side, Met, Ors
<1>4. CASE Ors(q) # {}
  <2>1. Len(q) = 1 /\ 1 \in Ors(q) /\ Ors(q) = {1}
    BY <1>1, <1>4 DEF Alone, Ors
  <2>2. CASE b = 0
    <3>1. 1 \in Reached(q, b)
      BY <1>1, <2>1, <2>2 DEF Reached
    <3>2. Side(q, 1) \subseteq M
      BY <1>2, <3>1 DEF From
    <3> QED
      BY <1>1, <2>1, <3>2 DEF Side, Met, Ors
  <2>3. CASE b = 1
    <3>1. q[1].right \subseteq M
      BY <1>2, <2>1, <2>3 DEF From
    <3> QED
      BY <1>1, <2>1, <3>1 DEF Met, Ors
  <2> QED
    BY <1>2, <2>1, <2>2, <2>3
<1> QED
  BY <1>3, <1>4

\* A query selects every row it is meant to, and no other unless an OR stands beside another
\* constraint (QueriesSound): stored uint64_t are in the order of numbers, and the WHERE clause
\* loses no row (Query.hpp:112-135, 370-403, 600-615).
THEOREM QueriesSelect == Spec => []QueriesSound
<1>1. ASSUME BaseInv, NEW q \in Queries
      PROVE  LET rows == [id \in {i \in DOMAIN View.rows : ~View.rows[i].late} |-> View.rows[id]]
             IN  /\ Meant(q, rows) \subseteq Selected(q, rows)
                 /\ Alone(q) => Selected(q, rows) = Meant(q, rows)
  <2> DEFINE rows == [id \in {i \in DOMAIN View.rows : ~View.rows[i].late} |-> View.rows[id]]
  <2>1. IsQuery(q)
    BY RecordsAssumption
  <2>2. ASSUME NEW id \in DOMAIN rows PROVE id \in Nat /\ RowOK(rows[id]) /\ ~rows[id].late
    BY <1>1, ViewIs DEF BaseInv, FileInv, StoreOK
  <2> HIDE DEF rows
  <2>3. ASSUME NEW id \in DOMAIN rows
        PROVE  LET M == {c \in UNION {q[i].left \cup q[i].right : i \in DOMAIN q} : Matches(c, id, rows[id])}
               IN  /\ id \in Meant(q, rows) <=> \A i \in DOMAIN q : Met(q[i], M)
                   /\ id \in Selected(q, rows) <=> \E conditions \in Alternatives(q) : conditions \subseteq M
    <3> DEFINE All == UNION {q[i].left \cup q[i].right : i \in DOMAIN q}
               M == {c \in All : Matches(c, id, rows[id])}
    <3>1. \A c \in All : IsCondition(c)
      BY <2>1 DEF IsQuery
    <3>2. \A c \in All : Matches(c, id, rows[id]) <=> Means(c, id, rows[id])
      BY <2>2, <3>1, MatchesMeans
    <3>3. \A i \in DOMAIN q : q[i].left \subseteq All /\ q[i].right \subseteq All
      OBVIOUS
    <3>4. \A conditions \in Alternatives(q) : conditions \subseteq All
      <4>1. ASSUME NEW b \in {0} \cup Ors(q) PROVE From(q, b) \subseteq All
        BY DEF From, Side, Reached, Ors
      <4> QED
        BY <4>1, AlternativesAre
    <3> HIDE DEF All
    <3>5. \A i \in DOMAIN q : Satisfies(q[i], id, rows[id]) <=> Met(q[i], M)
      BY <3>2, <3>3 DEF Satisfies, Met
    <3>6. id \in Meant(q, rows) <=> \A i \in DOMAIN q : Met(q[i], M)
      BY <3>5 DEF Meant, Range
    <3>7. id \in Selected(q, rows) <=> \E conditions \in Alternatives(q) : conditions \subseteq M
      BY <3>4 DEF Selected
    <3> QED
      BY <3>6, <3>7 DEF All
  <2>4. Meant(q, rows) \subseteq DOMAIN rows /\ Selected(q, rows) \subseteq DOMAIN rows
    BY DEF Meant, Selected
  <2>5. Meant(q, rows) \subseteq Selected(q, rows)
    BY <2>1, <2>3, <2>4, MetSelected
  <2>6. Alone(q) => Selected(q, rows) \subseteq Meant(q, rows)
    BY <2>1, <2>3, <2>4, SelectedMet
  <2> QED
    BY <2>5, <2>6 DEF rows
<1>2. BaseInv => QueriesSound
  BY <1>1 DEF QueriesSound
<1> QED
  BY <1>2, BaseAlways, PTL
================================================================================
