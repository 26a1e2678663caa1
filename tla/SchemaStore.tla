---------------------------- MODULE SchemaStore ----------------------------
(***************************************************************************)
(* One DatabaseManager: the schema it keeps in memory, the tables and      *)
(* indexes it creates in the SQLite file, the catalogue of the schema it   *)
(* writes into the same file, and the TinyStrings whose ids it stores.     *)
(*                                                                         *)
(* A step ends where the code may be interrupted: a transaction that finds *)
(* the file locked rolls the FILE back and runs its functor again, but     *)
(* nothing rolls back what the functor did in MEMORY; and a process that   *)
(* dies leaves what the last commit wrote.  The calls are driven by the    *)
(* module that uses the store (AppManagers).                               *)
(***************************************************************************)
EXTENDS Naturals, Sequences, FiniteSets

CONSTANTS TableName,    \* names of the tables apps declare
          Columns,      \* column lists (name, type and default of each)
          Owner,        \* the TinyStrings objects: one per app instance
          Row           \* rows the apps' hooks insert

(* A table: its name, its columns, and whether it has an index. *)
Table == [name : TableName, columns : Columns, indexed : BOOLEAN]

(* The two tables of the catalogue, and the one of TinyStrings. *)
Internal ==
    << [name |-> "internal$SchemaTables",  columns |-> "tables",  indexed |-> FALSE],
       [name |-> "internal$SchemaColumns", columns |-> "columns", indexed |-> TRUE] >>

StringTable ==
    << [name |-> "TinyStringIDs", columns |-> "strings", indexed |-> FALSE] >>

TablesOf(s) == {s[i] : i \in DOMAIN s}

(* Whatever a file may hold under these names: an index that is asked of a *)
(* table goes to the one that has the name.                                *)
AnyTable ==
    LET own == TablesOf(Internal) \cup TablesOf(StringTable) IN
    [name    : TableName \cup {t.name : t \in own},
     columns : Columns \cup {t.columns : t \in own},
     indexed : BOOLEAN]

VARIABLES
    disk,       \* what is committed to the file
    work,       \* what the connection sees inside its transaction
    tx,         \* in_transaction_flag_
    schema,     \* schema_, the tables in memory
    append,     \* the appendSchema() call under way
    strings,    \* each TinyStrings: ids given out, and unserialized_map_
    thrown,     \* a call ended in an exception
    torn        \* a crash fell between creating tables and recording them

store == <<disk, work, tx, schema, append, strings, thrown, torn>>

Empty == [tables |-> {}, catalogue |-> {}, strings |-> {}, rows |-> {}]

NotAppending == [schema |-> <<>>, at |-> "done"]

NoStrings == [ids |-> 0, unserialized |-> {}]

Named(tables, n) == {t \in tables : t.name = n}

StoreInit ==
    /\ disk = Empty /\ work = Empty /\ tx = FALSE
    /\ schema = {} /\ append = NotAppending
    /\ strings = [o \in Owner |-> NoStrings]
    /\ thrown = FALSE /\ torn = FALSE

-----------------------------------------------------------------------------
(* Transactions: safeTransaction() issues BEGIN and COMMIT in the          *)
(* outermost call only.  What a statement does goes to `work` inside one;  *)
(* outside, a call's own transaction commits it at once.                   *)

Begin == ~tx /\ tx' = TRUE /\ work' = disk /\ UNCHANGED <<disk, torn>>

Commit == tx /\ tx' = FALSE /\ disk' = work /\ UNCHANGED <<work, torn>>

View == IF tx THEN work ELSE disk

Write(v) == /\ work' = v
            /\ disk' = IF tx THEN disk ELSE v

(* A SafeTransactionSilentException: ROLLBACK, then the functor again.  An *)
(* appendSchema() it had started is abandoned; schema_ stays as it is.     *)
Retry == /\ tx
         /\ work' = disk
         /\ append' = NotAppending
         /\ UNCHANGED <<disk, tx, schema, strings, thrown, torn>>

(* Mutant: the flag stays set when an exception leaves safeTransaction(). *)
ThrowInTransaction ==
    /\ work' = disk /\ append' = NotAppending /\ thrown' = TRUE
    /\ UNCHANGED <<disk, tx, torn>>

(* Mutant: the transaction is committed on the way out. *)
ThrowCommits ==
    /\ disk' = View /\ work' = View /\ tx' = FALSE
    /\ append' = NotAppending /\ thrown' = TRUE
    /\ UNCHANGED torn

(* Any other exception: ROLLBACK, and on to the caller. *)
Throw == /\ work' = disk /\ tx' = FALSE
         /\ append' = NotAppending
         /\ thrown' = TRUE
         /\ UNCHANGED <<disk, torn>>

-----------------------------------------------------------------------------
(* appendSchema(): memory first, then the file, then the catalogue. *)

(* Mutant: tables that are already in schema_ are not taken to the file. *)
appendUnlessKnown(s) ==
    /\ append = NotAppending
    /\ append' = IF TablesOf(s) \subseteq schema THEN NotAppending
                 ELSE [schema |-> s, at |-> "memory"]

appendSchema(s) == append = NotAppending /\ append' = [schema |-> s, at |-> "memory"]

(* The tables schema_ already has under the same name, but not the same. *)
Clashes(mem, s) == {i \in DOMAIN s : \E t \in Named(mem, s[i].name) : t # s[i]}

(* Schema::appendSchema: tables go in one by one until one clashes. *)
Remembered(mem, s) ==
    mem \cup {s[i] : i \in {j \in DOMAIN s : \A c \in Clashes(mem, s) : j < c}}

Remember ==
    /\ append.at = "memory"
    /\ schema' = Remembered(schema, append.schema)
    /\ IF Clashes(schema, append.schema) = {}
       THEN /\ append' = [append EXCEPT !.at = "realize"]
            /\ UNCHANGED <<disk, work, tx, strings, thrown, torn>>
       ELSE Throw /\ UNCHANGED strings

(* CREATE INDEX has no IF NOT EXISTS: it fails on a table that has one. *)
IndexExists(v, s) ==
    \E i \in DOMAIN s : s[i].indexed /\ \E t \in Named(v.tables, s[i].name) : t.indexed

(* CREATE TABLE IF NOT EXISTS keeps a table of that name as it is. *)
Realized(v, s) ==
    LET created == {s[i] : i \in {j \in DOMAIN s : Named(v.tables, s[j].name) = {}}}
        indexed(t) == [t EXCEPT !.indexed =
                           @ \/ \E i \in DOMAIN s : s[i].name = t.name /\ s[i].indexed]
    IN  [v EXCEPT !.tables = {indexed(t) : t \in v.tables} \cup created]

realizeSchema ==
    /\ append.at = "realize"
    /\ IF IndexExists(View, append.schema)
       THEN Throw /\ UNCHANGED <<schema, strings>>
       ELSE /\ Write(Realized(View, append.schema))
            /\ append' = [append EXCEPT !.at = "serialize"]
            /\ UNCHANGED <<tx, schema, strings, thrown, torn>>

(* Mutant: the catalogue is rewritten with the new tables only. *)
serializeNew ==
    /\ append.at = "serialize"
    /\ Write([View EXCEPT !.catalogue = TablesOf(append.schema)])
    /\ append' = NotAppending
    /\ UNCHANGED <<tx, schema, strings, thrown, torn>>

(* Every row of the catalogue is deleted and schema_ written in full. *)
serializeSchema ==
    /\ append.at = "serialize"
    /\ Write([View EXCEPT !.catalogue = schema])
    /\ append' = NotAppending
    /\ UNCHANGED <<tx, schema, strings, thrown, torn>>

AppendStep == Remember \/ realizeSchema \/ serializeSchema

-----------------------------------------------------------------------------
(* The constructor: a new file, or one that is already there. *)

(* The new file's catalogue tables are appended like any other schema. *)
OpenNew ==
    /\ disk' = Empty /\ work' = Empty /\ tx' = FALSE
    /\ schema' = {}
    /\ append' = [schema |-> Internal, at |-> "memory"]
    /\ thrown' = FALSE /\ torn' = FALSE

(* reconstituteSchema_ reads the catalogue back; the catalogue's own      *)
(* tables are appended only when it does not list them.                    *)
OpenExisting ==
    /\ work' = disk /\ tx' = FALSE
    /\ schema' = disk.catalogue
    /\ IF Named(disk.tables, Internal[1].name) = {}
       THEN append' = NotAppending /\ thrown' = TRUE
       ELSE /\ append' = IF Named(disk.catalogue, Internal[1].name) = {}
                         THEN [schema |-> Internal, at |-> "memory"] ELSE NotAppending
            /\ thrown' = FALSE
    /\ UNCHANGED <<disk, torn>>

(* The process dies: what was not committed is gone, memory is gone. *)
StoreCrash ==
    /\ torn' = (torn \/ (~tx /\ append.at = "serialize"))
    /\ work' = disk /\ tx' = FALSE /\ schema' = {} /\ append' = NotAppending
    /\ strings' = [o \in Owner |-> NoStrings]
    /\ UNCHANGED <<disk, thrown>>

-----------------------------------------------------------------------------
(* TinyStrings *)

(* getStringID of a string not seen before. *)
getStringID(o) ==
    /\ strings' = [strings EXCEPT ![o] =
                       [ids |-> @.ids + 1, unserialized |-> @.unserialized \cup {@.ids + 1}]]
    /\ UNCHANGED <<disk, work, tx, schema, append, thrown, torn>>

(* serialize(), inside the caller's transaction: the table is appended    *)
(* unless schema_ has it, then every pending string becomes a row, and the *)
(* pending map is cleared without waiting for the commit.                  *)
NeedsStringTable == Named(schema, StringTable[1].name) = {}

AppendStringTable ==
    /\ NeedsStringTable
    /\ appendSchema(StringTable)
    /\ UNCHANGED <<disk, work, tx, schema, strings, thrown, torn>>

(* Mutant: the pending map is cleared before its rows are written. *)
InsertCleared(o) ==
    /\ append = NotAppending /\ ~NeedsStringTable
    /\ strings' = [strings EXCEPT ![o].unserialized = {}]
    /\ UNCHANGED <<disk, work, tx, schema, append, thrown, torn>>

InsertStrings(o) ==
    /\ append = NotAppending /\ ~NeedsStringTable
    /\ IF Named(View.tables, StringTable[1].name) = {}
       THEN Throw /\ UNCHANGED <<schema, strings>>
       ELSE /\ Write([View EXCEPT !.strings = @ \cup ({o} \X strings[o].unserialized)])
            /\ strings' = [strings EXCEPT ![o].unserialized = {}]
            /\ UNCHANGED <<tx, schema, append, thrown, torn>>

-----------------------------------------------------------------------------
(* Type invariant of the store: the transaction's view and the file are   *)
(* sets of tables, catalogue rows, strings and rows; outside a transaction *)
(* there is one view.                                                      *)
FileType == [tables : SUBSET AnyTable, catalogue : SUBSET AnyTable,
             strings : SUBSET (Owner \X Nat), rows : SUBSET Row]

StoreTypeOK ==
    /\ disk \in FileType /\ work \in FileType
    /\ tx \in BOOLEAN /\ thrown \in BOOLEAN /\ torn \in BOOLEAN
    /\ schema \in SUBSET AnyTable
    /\ append.at \in {"done", "memory", "realize", "serialize"}
    /\ append.schema \in Seq(AnyTable)
    /\ strings \in [Owner -> [ids : Nat, unserialized : SUBSET Nat]]

(* Between calls the three copies of the schema agree: the tables the      *)
(* DatabaseManager believes in (schema_), the rows of the catalogue that   *)
(* the next process will believe, and the tables the file has             *)
(* (DatabaseManager.hpp:124-129, Connection.hpp:114-136).  A crash between *)
(* the two commits of appendSchema() ends that agreement, but even then    *)
(* the catalogue lists no table the file lacks; an exception, which leaves *)
(* schema_ ahead of the file (:126), ends both.                            *)
CopiesAgree ==
    /\ (~tx /\ append = NotAppending /\ schema # {} /\ ~thrown /\ ~torn)
          => disk.catalogue = schema /\ disk.tables = schema
    /\ ~thrown => \A t \in disk.catalogue : Named(disk.tables, t.name) # {}
=============================================================================
