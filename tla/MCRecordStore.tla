--------------------------- MODULE MCRecordStore ---------------------------
(***************************************************************************)
(* Instance of RecordStore for TLC: a uint64_t and a text column; three    *)
(* binary digits stand for the twenty decimal ones, and 3 and 4 differ in  *)
(* their number of digits.                                                 *)
(***************************************************************************)
EXTENDS RecordStore

TicksAndName == <<"ticks", "name">>

TicksAndNameKind == [ticks |-> "uint64", name |-> "text"]

TicksAndNameValue == [ticks |-> {3, 4}, name |-> {1}]

(* All columns, in both orders, and one of them. *)
SomeColumns == {<<"ticks", "name">>, <<"name", "ticks">>, <<"name">>}

None == <<>>

TicksBelow(n) == addConstraintForUInt64(None, "ticks", "<", n)

IdIs(n) == addConstraintForInt(None, "Id", "=", n)

NameIs(n) == addConstraintForString(None, "name", "=", n)

(* One constraint of each kind, two together, and an OR alone and beside   *)
(* another constraint.                                                     *)
SomeQueries ==
    {TicksBelow(4), addConstraintForString(TicksBelow(4), "name", "!=", 1),
     addSetConstraintForUInt64(None, "ticks", "NOT IN", {3}),
     addSetConstraintForString(addSetConstraintForInt(None, "Id", "IN", {1, 2}),
                               "name", "IN", {1}),
     addConstraintForUInt64(None, "ticks", ">=", 4),
     addCompoundConstraint(None, TicksBelow(4) \o NameIs(1), "OR", IdIs(2)),
     addCompoundConstraint(None, TicksBelow(4), "AND", NameIs(1)),
     addCompoundConstraint(IdIs(1), TicksBelow(4), "OR", NameIs(1))}
=============================================================================
