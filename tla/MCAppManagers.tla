--------------------------- MODULE MCAppManagers ---------------------------
(* A collector with an indexed table and TinyStrings, and an app type with *)
(* a nested factory whose argument decides the columns of its table; the   *)
(* simulator may append a table of its own that looks like either.         *)
EXTENDS AppManagers

T(n, c, i) == [name |-> n, columns |-> c, indexed |-> i]

MCTableName == {"T1", "T2"}
MCColumns == {"c1", "c2"}
MCSchemaOf ==
    << [none |-> <<T("T1", "c1", TRUE)>>, x |-> <<T("T1", "c1", TRUE)>>,
        y |-> <<T("T1", "c1", TRUE)>>],
       [none |-> <<>>, x |-> <<T("T2", "c1", FALSE)>>, y |-> <<T("T2", "c2", FALSE)>>] >>
MCUserSchema == {<<T("T2", "c1", FALSE)>>}
MCOrderings == {<<2>>, <<2, 1, 2>>}
MCOwner == {1, 2} \X {0, 1}
MCRow == Hook \X MCOwner \X (1 .. MaxSessions)

(* Configuration calls commute: they are taken in one order.  A factory    *)
(* for instance 1 is configured when there are two instances, and two      *)
(* collectors are tried alone; the hook order, and registering the type    *)
(* whose registration does nothing, are tried in the first session.        *)
Tidy ==
    /\ sessions > 1 => config.ordering = <<>> /\ regs.kinds \in {<<>>, <<1>>, <<1, 1>>}
    /\ regs.kinds \in {<<>>, <<1>>, <<2>>, <<1, 1>>, <<2, 1>>}
    /\ (config.ordering # <<>> \/ config.nested # NoFactories) => config.enabled # NoFactories
    /\ \A k \in DOMAIN config.nested :
           Cardinality(DOMAIN config.nested[k]) <= config.enabled[k]
    /\ (1 \in DOMAIN config.enabled /\ 2 \in DOMAIN config.enabled) => config.enabled[1] = 1
=============================================================================
