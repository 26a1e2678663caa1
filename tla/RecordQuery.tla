---------------------------- MODULE RecordQuery ----------------------------
(***************************************************************************)
(* What SimDB puts into a column, reads out of it, and asks SQLite about   *)
(* it: the conversions of the value containers, of the result writers and  *)
(* of uint64_t values (which SQLite has no integer wide enough for), and   *)
(* the WHERE clause SqlQuery assembles from its constraints.               *)
(*                                                                         *)
(* A table is a function from ids to rows; a row's `vals` gives for each   *)
(* column what SQLite stores.                                              *)
(***************************************************************************)
EXTENDS Integers, Sequences, FiniteSets, Functions

CONSTANTS Columns,      \* the table's columns, in schema order
          Kind,         \* [Column -> {"int", "uint64", "text"}]
          Base, Width,  \* digits of a stored uint64_t: 10 and 20 in the code
          Null,         \* SQL NULL
          Freed         \* bytes read through a pointer whose owner is gone

Column == Range(Columns)

ASSUME ColumnsAssumption ==
    /\ \A i, j \in DOMAIN Columns : Columns[i] = Columns[j] => i = j
    /\ Kind \in [Column -> {"int", "uint64", "text"}]
    /\ Base \in Nat \ {0, 1} /\ Width \in Nat \ {0}
    \* The primary key is every table's own, and no row lacks it.
    /\ "Id" \notin Column
    /\ \A n \in {Null, Freed} : n \notin Int /\ n \notin [1..Width -> Nat]

-----------------------------------------------------------------------------
(* Values in and out of a column *)

(* The loop takes the last digit off the value Width times: what is left   *)
(* of it after the digits behind place i.                                  *)
Left(v) == LET left[i \in 0..Width] == IF i = Width THEN v ELSE left[i + 1] \div Base
           IN  left

(* Width digits are enough for v. *)
Fits(v) == v \in Nat /\ Left(v)[0] = 0

(* Mutant: no leading zeros. *)
Unpadded(v) ==
    LET digits == [i \in 1..Width |-> Left(v)[i] % Base]
        first  == CHOOSE i \in 1..Width :
                      /\ i = Width \/ digits[i] # 0
                      /\ \A j \in 1..(i - 1) : digits[j] = 0
    IN  SubSeq(digits, first, Width)

(* Width digits, most significant first, with leading zeros. *)
uint64_to_utf16(v) == [i \in 1..Width |-> Left(v)[i] % Base]

utf16_to_uint64(s) ==
    LET value[i \in 0..Width] == IF i = 0 THEN 0 ELSE value[i - 1] * Base + s[i]
    IN  value[Width]

(* createValueContainer() and bind(): only a uint64_t changes its form. *)
Stored(col, v) == IF v # Null /\ Kind[col] = "uint64" THEN uint64_to_utf16(v) ELSE v

(* writeToUserVar() with std::optional variables, which a NULL leaves      *)
(* empty; the plain ones throw, or become "" when they are texts.  Only a  *)
(* uint64_t is converted.                                                  *)
ReadUInt64(s) == IF s = Null THEN Null ELSE utf16_to_uint64(s)

Read(col, s) == IF Kind[col] = "uint64" THEN ReadUInt64(s) ELSE s

(* SQLite's order: texts are compared digit by digit. *)
TextLess(a, b) ==
    \/ Len(a) < Len(b) /\ a = SubSeq(b, 1, Len(a))
    \/ \E i \in DOMAIN a \cap DOMAIN b :
          a[i] < b[i] /\ \A j \in 1..(i - 1) : a[j] = b[j]

Less(col, a, b) ==
    IF col \in Column /\ Kind[col] = "uint64" THEN TextLess(a, b) ELSE a < b

-----------------------------------------------------------------------------
(* Constraints.  A condition compares one column with literals; `asked`   *)
(* keeps the values the caller passed.  A clause of constraint_clauses_ is *)
(* one condition, or two groups of conditions joined by AND or OR.         *)

Comparison == {"=", "!=", "<", "<=", ">", ">=", "IN", "NOT IN"}

Condition(col, op, literals, asked) ==
    [col |-> col, op |-> op, literals |-> literals, asked |-> asked]

Clause(condition) == [left |-> {condition}, op |-> "AND", right |-> {}]

addConstraintForInt(clauses, col, op, target) ==
    Append(clauses, Clause(Condition(col, op, {target}, {target})))

addConstraintForUInt64(clauses, col, op, target) ==
    Append(clauses, Clause(Condition(col, op, {uint64_to_utf16(target)}, {target})))

addConstraintForString(clauses, col, op, target) ==
    Append(clauses, Clause(Condition(col, op, {target}, {target})))

addSetConstraintForInt(clauses, col, op, targets) ==
    Append(clauses, Clause(Condition(col, op, targets, targets)))

addSetConstraintForUInt64(clauses, col, op, targets) ==
    Append(clauses, Clause(Condition(col, op, {uint64_to_utf16(t) : t \in targets}, targets)))

addSetConstraintForString(clauses, col, op, targets) ==
    Append(clauses, Clause(Condition(col, op, targets, targets)))

(* The conditions of released clauses; a released compound is not taken up *)
(* again here.                                                             *)
Released(clauses) == UNION {c.left \cup c.right : c \in Range(clauses)}

addCompoundConstraint(clauses, clause1, op, clause2) ==
    Append(clauses, [left |-> Released(clause1), op |-> op, right |-> Released(clause2)])

-----------------------------------------------------------------------------
(* What SQLite selects *)

(* A comparison with NULL is not true; bytes that were freed match nothing. *)
Compares(col, op, v, literals) ==
    /\ v \notin {Null, Freed}
    /\ CASE op = "="      -> \A t \in literals : v = t
         [] op = "!="     -> \A t \in literals : v # t
         [] op = "<"      -> \A t \in literals : Less(col, v, t)
         [] op = "<="     -> \A t \in literals : v = t \/ Less(col, v, t)
         [] op = ">"      -> \A t \in literals : Less(col, t, v)
         [] op = ">="     -> \A t \in literals : v = t \/ Less(col, t, v)
         [] op = "IN"     -> v \in literals
         [] op = "NOT IN" -> v \notin literals

Matches(condition, id, row) ==
    Compares(condition.col, condition.op,
             IF condition.col = "Id" THEN id ELSE row.vals[condition.col],
             condition.literals)

(* The clauses are written one after the other with AND between them, and  *)
(* AND binds tighter than OR: a compound's OR has parentheses around its   *)
(* two sides but none around the whole, so it splits the WHERE clause into *)
(* alternatives, each from one OR up to the next.                          *)
Alternatives(clauses) ==
    LET Ors == {i \in DOMAIN clauses : clauses[i].op = "OR"}
        Reached(b) == {i \in DOMAIN clauses : b < i /\ \A o \in Ors : o <= b \/ i <= o}
        Of(i) == IF i \in Ors THEN clauses[i].left ELSE clauses[i].left \cup clauses[i].right
        From(b) == (IF b \in Ors THEN clauses[b].right ELSE {}) \cup UNION {Of(i) : i \in Reached(b)}
    IN  {From(b) : b \in {0} \cup Ors}

(* appendConstraintClauses_: the ids of the rows the query speaks of. *)
Selected(clauses, rows) ==
    {id \in DOMAIN rows :
        \E conditions \in Alternatives(clauses) :
            \A c \in conditions : Matches(c, id, rows[id])}

count(clauses, rows) == Cardinality(Selected(clauses, rows))

-----------------------------------------------------------------------------
(* What the calls that add constraints make of them: a known comparison,   *)
(* and the literals in the form of the column they are compared with.      *)
(* Texts are numbers that stand for them in SQLite's order.                *)
IsCondition(c) ==
    /\ c.op \in Comparison /\ c.asked \subseteq Int
    /\ IF c.col \in Column /\ Kind[c.col] = "uint64"
       THEN /\ \A t \in c.asked : Fits(t)
            /\ c.literals = {uint64_to_utf16(t) : t \in c.asked}
       ELSE c.col \in Column \cup {"Id"} /\ c.literals = c.asked

IsQuery(clauses) ==
    /\ clauses \in Seq(Range(clauses))
    /\ \A i \in DOMAIN clauses :
          /\ clauses[i].op \in {"AND", "OR"}
          /\ \A c \in clauses[i].left \cup clauses[i].right : IsCondition(c)
=============================================================================
