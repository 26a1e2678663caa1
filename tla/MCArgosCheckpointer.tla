--------------------------- MODULE MCArgosCheckpointer ---------------------------
(***************************************************************************)
(* Instances of ArgosCheckpointer for TLC: two collectables, two values.   *)
(***************************************************************************)
EXTENDS ArgosCheckpointer

CONSTANTS scalar, queue, k1, k2, v1, v2

ScalarAndQueue == {scalar, queue}
Queues == {queue}
TwoClocks == {k1, k2}
TwoValues == {v1, v2}

\* A queue's change from v1 to v2 has a delta encoding, the one back has none.
OneWay == [c \in Cid |-> IF c \in Contig THEN {<<v1, v2>>} ELSE {}]

\* The scalar is there to be silent while the queue is not, and the other way round.
OneForTheScalar == [c \in Cid |-> IF c \in Contig THEN TwoValues ELSE {v1}]

OnOneClock == [c \in Cid |-> k1]
OnTheirOwn == [c \in Cid |-> IF c = queue THEN k2 ELSE k1]

Registered(clocks, clockOf, heartbeats) ==
    {[clocks |-> clocks, clockOf |-> clockOf, heartbeat |-> h] : h \in heartbeats}

\* One clock; two, of which these collectables use one; two, one for each.
AllSetups ==
    Registered({k1}, OnOneClock, {1, 2, 3})
      \cup Registered(TwoClocks, OnOneClock, {1, 2})
      \cup Registered(TwoClocks, OnTheirOwn, {1})

\* Restaging, which a heartbeat of 1 allows, within a shorter time.
Horizon == [h \in 1..3 |-> IF h = 1 THEN 1 ELSE 3]
PerWindow == [h \in 1..3 |-> IF h = 1 THEN 2 ELSE 1]
================================================================================
