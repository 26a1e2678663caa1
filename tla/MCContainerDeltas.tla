---------------------------- MODULE MCContainerDeltas ----------------------------
(***************************************************************************)
(* Instances of ContainerDeltas for TLC.                                   *)
(***************************************************************************)
EXTENDS ContainerDeltas

CONSTANTS v1, v2, vacant

TwoValues == {v1, v2}

\* Queues of up to five entries: every change between two of them.
ShortQueues == UNION {[1..n -> TwoValues] : n \in 0..5}

\* Four bins with bytes, or three of which some have none.
SmallSparses ==
    UNION {[S -> TwoValues] : S \in (SUBSET (1..4)) \ {{}}}
      \cup UNION {[S -> TwoValues \cup {vacant}] : S \in (SUBSET (1..3)) \ {{}}}
================================================================================
