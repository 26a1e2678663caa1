---------------------------- MODULE ContainerDeltas ----------------------------
(***************************************************************************)
(* What a delta record does to the bins of a container: how a checkpointer *)
(* tells one collection from the next (CheckpointDeltas.hpp), what it      *)
(* writes (Checkpoint.hpp), and what the viewer makes of it                *)
(* (blob_iterator.py, blob_handlers.py).  ArgosCheckpointer decides when a *)
(* delta may be sent and treats one as a pair of values; this module opens *)
(* the pair.                                                               *)
(*                                                                         *)
(* A contiguous container is the sequence of its occupied bins, front      *)
(* first; a sparse one maps the indices it has to what is in the bin.      *)
(* Sequences count from 1, the code from 0.  Counts in a delta are written *)
(* as one byte, whatever they are; the count of a full record as two, and  *)
(* asserted to fit.                                                        *)
(***************************************************************************)
EXTENDS Integers, Sequences, FiniteSets

CONSTANTS
    Value,      \* what an occupied bin holds
    Vacant,     \* a bin of a sparse container that was staged with no bytes
    Contigs,    \* the contiguous contents that are collected
    Sparses,    \* the sparse ones
    Capacity,   \* bins of the container, as the viewer knows it
    CountMod,   \* values of a count byte
    Unknown,    \* the viewer has no value for the container
    Nothing     \* its value is None; no data checkpoint yet

ASSUME DeltaAssumption ==
    /\ Vacant \notin Value /\ Nothing \notin Contigs \cup Sparses
    /\ \A S \in SUBSET (1..Capacity) : Nothing \notin [S -> Value]
    /\ Capacity \in Nat /\ CountMod \in Nat \ {0, 1}
    /\ \A c \in Contigs : c \in Seq(Value) /\ Len(c) <= Capacity
    /\ \A c \in Sparses :
          /\ DOMAIN c \subseteq 1..Capacity /\ DOMAIN c # {}
          /\ c \in [DOMAIN c -> Value \cup {Vacant}]

NoBins == [i \in {} |-> Vacant]

\* A record: bins written with their index, indices written alone, bins that leave at
\* the front and arrive at the back, and how many there are where the record has a count.
Record(action, bins, gone, departs, tail, count) ==
    [action |-> action, bins |-> bins, gone |-> gone, departs |-> departs,
     tail |-> tail, count |-> count]

Plain(action) == Record(action, NoBins, {}, 0, << >>, 0)

\* What is left of a count cast to uint8_t.
Byte(n) == n % CountMod

Occupied(bins) == {i \in DOMAIN bins : bins[i] # Vacant}
Only(bins, S) == [i \in S |-> bins[i]]

--------------------------------------------------------------------------------
(***************************************************************************)
(* Contiguous containers.                                                  *)
(***************************************************************************)
ContigFull(curr) == Record("FULL", NoBins, {}, 0, curr, 0)

\* Mutant: the comparison of the bins starts behind the front one.
ChangedBehindFront(prev, curr) == {i \in DOMAIN curr : i > 1 /\ curr[i] # prev[i]}

Changed(prev, curr) == {i \in DOMAIN curr : curr[i] # prev[i]}

\* After d departures prev is a prefix of curr.
Slides(prev, curr, d) == \A i \in 1..(Len(prev) - d) : i <= Len(curr) /\ curr[i] = prev[i + d]

\* Mutant: an arrival too many is counted.
ArrivalsAndOne(prev, curr, d) == Len(curr) - Len(prev) + d + 1

Arrivals(prev, curr, d) == Len(curr) - Len(prev) + d

MimoDeparts(prev, curr) ==
    {d \in 0..Len(prev) :
        /\ Arrivals(prev, curr, d) \in 0..(CountMod - 1)
        /\ d + Arrivals(prev, curr, d) > 1
        /\ Slides(prev, curr, d)}

\* The first number of departures the loop of classifyContigChange accepts.
Fewest(S) == CHOOSE d \in S : \A e \in S : d <= e

Mimo(prev, curr) ==
    LET d == Fewest(MimoDeparts(prev, curr))
    IN  Record("CONTIG_MIMO", NoBins, {}, d,
               SubSeq(curr, Len(prev) - d + 1, Len(curr)), Arrivals(prev, curr, d))

SameSizeDelta(prev, curr) ==
    LET changed == Changed(prev, curr)
        swaps   == Only(curr, changed)
        many    == Cardinality(changed) > 1
    IN  CASE changed = {} -> Plain("CARRY")
          [] changed # {} /\ ~many -> Record("CONTAINER_SWAP", swaps, {}, 0, << >>, 1)
          [] many /\ Slides(prev, curr, 1) ->
                Record("CONTIG_BOOKENDS", NoBins, {}, 1, << curr[Len(curr)] >>, 1)
          [] many /\ ~Slides(prev, curr, 1) ->
                Record("CONTAINER_MULTI_SWAP", swaps, {}, 0, << >>,
                       Cardinality(changed))

ResizedDelta(prev, curr) ==
    CASE Len(curr) = Len(prev) + 1 /\ Slides(prev, curr, 0) ->
            Record("CONTIG_ARRIVE", NoBins, {}, 0, << curr[Len(curr)] >>, 1)
      [] Len(prev) = Len(curr) + 1 /\ Slides(prev, curr, 1) ->
            Record("CONTIG_DEPART", NoBins, {}, 1, << >>, 0)
      [] OTHER -> IF MimoDeparts(prev, curr) = {} THEN ContigFull(curr) ELSE Mimo(prev, curr)

ContigDelta(prev, curr) ==
    IF Len(curr) = Len(prev) THEN SameSizeDelta(prev, curr) ELSE ResizedDelta(prev, curr)

--------------------------------------------------------------------------------
(***************************************************************************)
(* Sparse containers.                                                      *)
(***************************************************************************)
SparseFull(curr) == Record("FULL", Only(curr, Occupied(curr)), {}, 0, << >>, 0)

Removed(prev, curr) == DOMAIN prev \ DOMAIN curr
Altered(prev, curr) == {i \in DOMAIN prev \cap DOMAIN curr : prev[i] # curr[i]}

\* The number of occupied bins a record is about must be the number of bins: removing
\* or adding a vacant bin together with others is left to a full record.
Shrinks(prev, curr) ==
    Cardinality(Occupied(prev)) - Cardinality(Occupied(curr)) = Cardinality(Removed(prev, curr))
Grows(prev, curr) ==
    Cardinality(Occupied(curr)) - Cardinality(Occupied(prev)) = Cardinality(Removed(curr, prev))
SameCount(prev, curr) == Cardinality(Occupied(prev)) = Cardinality(Occupied(curr))

SparseDelta(prev, curr) ==
    LET removed == Removed(prev, curr)
        added   == Removed(curr, prev)
        altered == Altered(prev, curr)
        removes == removed # {} /\ added = {} /\ altered = {}
                     /\ (Shrinks(prev, curr) \/ SameCount(prev, curr))
        adds    == Cardinality(added) = 1 /\ removed = {} /\ altered = {}
                     /\ (Grows(prev, curr) \/ SameCount(prev, curr))
        alters  == altered # {} /\ removed = {} /\ added = {} /\ SameCount(prev, curr)
    IN  CASE prev = curr -> Plain("CARRY")
          [] removes /\ Cardinality(removed) = 1 ->
                Record("SPARSE_REMOVE", NoBins, removed, 0, << >>, 1)
          [] removes /\ Cardinality(removed) > 1 ->
                Record("SPARSE_MULTI_REMOVE", NoBins, removed, 0, << >>,
                       Cardinality(removed))
          [] adds -> Record("SPARSE_ADD", Only(curr, added), {}, 0, << >>, 1)
          [] alters /\ Cardinality(altered) = 1 ->
                Record("CONTAINER_SWAP", Only(curr, altered), {}, 0, << >>, 1)
          [] alters /\ Cardinality(altered) > 1 ->
                Record("CONTAINER_MULTI_SWAP", Only(curr, altered), {}, 0, << >>,
                       Cardinality(altered))
          [] OTHER -> SparseFull(curr)

--------------------------------------------------------------------------------
(***************************************************************************)
(* Writing and reading a record.                                           *)
(***************************************************************************)
Counted == {"CONTAINER_MULTI_SWAP", "CONTIG_MIMO", "SPARSE_MULTI_REMOVE"}

\* encodeDelta_ asserts that a bin written alone has bytes.
Encodable(r) ==
    r.action \in {"CONTAINER_SWAP", "SPARSE_ADD"} =>
        \A i \in DOMAIN r.bins : r.bins[i] # Vacant

\* The reader takes as many bins or indices as the count byte says, in ascending order,
\* and for each bin the bytes of one value.
Written(r) == DOMAIN r.bins \cup r.gone
ReadOf(r) ==
    IF r.action \in Counted
    THEN {i \in Written(r) : Cardinality({j \in Written(r) : j < i}) < Byte(r.count)}
    ELSE Written(r)

\* The reader stops where the record stops, the next one is read from its start, and as
\* many bins depart as were counted.
ReadAsWritten(r) ==
    /\ ReadOf(r) = Written(r)
    /\ \A i \in DOMAIN r.bins : r.bins[i] # Vacant
    /\ r.action = "CONTIG_MIMO" => Byte(r.count) = Len(r.tail) /\ Byte(r.departs) = r.departs

\* HandleContigContainer{Swap, Departure, Arrival}, in the order a record calls them.
ContigHolds(now, r) ==
    /\ ReadOf(r) \cap DOMAIN r.bins \subseteq DOMAIN now
    /\ Byte(r.departs) <= Len(now)
    /\ Len(now) - Byte(r.departs) + Len(r.tail) <= Capacity

ContigApplied(now, r) ==
    LET swapped == [i \in DOMAIN now |->
                        IF i \in ReadOf(r) \cap DOMAIN r.bins THEN r.bins[i] ELSE now[i]]
    IN  SubSeq(swapped, Byte(r.departs) + 1, Len(swapped)) \o r.tail

\* HandleSparseContainer{ExchangedBin, AddedBin, RemovedBin}.
SparseHolds(now, r) == now # Nothing /\ ReadOf(r) \subseteq 1..Capacity

SparseApplied(now, r) ==
    LET set  == ReadOf(r) \cap DOMAIN r.bins
        kept == DOMAIN now \ (ReadOf(r) \cap r.gone)
    IN  [i \in kept \cup set |-> IF i \in set THEN r.bins[i] ELSE now[i]]

Holds(isSparse, now, r) ==
    CASE r.action = "FULL" -> IF isSparse THEN DOMAIN r.bins \subseteq 1..Capacity
                                        ELSE Len(r.tail) <= Capacity
      [] r.action \in {"CLOSED", "CARRY"} \/ now = Unknown -> TRUE
      [] OTHER -> IF isSparse THEN SparseHolds(now, r) ELSE ContigHolds(now, r)

Closing(isSparse, now) ==
    IF ~isSparse THEN << >> ELSE IF now = Unknown THEN Unknown ELSE Nothing

Applied(isSparse, now, r) ==
    CASE r.action = "FULL" -> IF isSparse THEN r.bins ELSE r.tail
      [] r.action = "CLOSED" -> Closing(isSparse, now)
      [] r.action = "CARRY" -> now
      [] OTHER -> IF now = Unknown THEN Unknown
                  ELSE IF isSparse THEN SparseApplied(now, r) ELSE ContigApplied(now, r)

--------------------------------------------------------------------------------
(***************************************************************************)
(* One container: collected, closed, refreshed; a viewer plays its records *)
(* forward, from whichever of them it was opened at.                       *)
(***************************************************************************)
VARIABLES
    sparse,     \* which of the two container checkpointers it has
    base,       \* full_bytes_ of the newest data checkpoint, Nothing before the first
    closed,     \* a CLOSED checkpoint is newer than that; EntryPoint::closed_
    record,     \* the last record
    shown,      \* _values_by_cid[cid], Unknown if the viewer has none
    legible     \* no assertion failed and every record was read as it was written

vars == << sparse, base, closed, record, shown, legible >>

Contents == IF sparse THEN Sparses ELSE Contigs

Init ==
    /\ sparse \in BOOLEAN
    /\ base = Nothing
    /\ closed = TRUE
    /\ record = Plain("NONE")
    /\ shown = Unknown
    /\ legible = TRUE

Full(curr) == IF sparse THEN SparseFull(curr) ELSE ContigFull(curr)
Delta(prev, curr) == IF sparse THEN SparseDelta(prev, curr) ELSE ContigDelta(prev, curr)

\* The viewer reads the record that was written.  After one that could not be encoded or
\* was misread nothing can be said: an exception ends the stage's thread or the viewer, or
\* the bytes that follow are taken for other records.
Play(r) ==
    /\ record' = r
    /\ legible' = (Encodable(r) /\ ReadAsWritten(r) /\ Holds(sparse, shown, r))
    /\ shown' = IF Holds(sparse, shown, r) THEN Applied(sparse, shown, r) ELSE shown

\* encodeForPipeline of a data checkpoint; the checkpointer may force a full record.
Collect(curr, force) ==
    /\ legible
    /\ Play(IF force \/ base = Nothing \/ closed THEN Full(curr) ELSE Delta(base, curr))
    /\ base' = curr
    /\ closed' = FALSE
    /\ UNCHANGED sparse

\* EntryPoint::closeRecord, encodeLifecycleEvt_.
Close ==
    /\ legible /\ ~closed
    /\ Play(Plain("CLOSED"))
    /\ closed' = TRUE
    /\ UNCHANGED << sparse, base >>

\* encodeSnapshotForPipeline, for a container that was not collected in a window.
Refresh ==
    /\ legible /\ ~closed
    /\ Play(Full(base))
    /\ UNCHANGED << sparse, base, closed >>

\* A viewer is opened here; it knows nothing yet.
OpenViewer ==
    /\ legible
    /\ shown' = Unknown
    /\ UNCHANGED << sparse, base, closed, record, legible >>

Next ==
    \/ \E curr \in Contents, force \in BOOLEAN : Collect(curr, force)
    \/ Close
    \/ Refresh
    \/ OpenViewer

Spec == Init /\ [][Next]_vars

--------------------------------------------------------------------------------
(***************************************************************************)
(* Properties.                                                             *)
(***************************************************************************)
\* What a viewer that missed nothing shows.
Held == IF closed THEN (IF sparse THEN Nothing ELSE << >>)
                  ELSE (IF sparse THEN Only(base, Occupied(base)) ELSE base)

\* Whatever deltas were chosen on the way, a viewer that has shown a container at all
\* shows what it holds: the bins of a queue, slot by slot, after any mix of arrivals,
\* departures, swaps and closes (classify*Change against the handlers of the viewer), as
\* long as it could read the records.
ShownExact == legible => shown \in {Unknown, Held}

\* Every count of the record fits its byte, and every bin it writes has bytes.
Clean(r) ==
    /\ r.action \in Counted => r.count < CountMod /\ r.departs < CountMod
    /\ \A i \in DOMAIN r.bins : r.bins[i] # Vacant

\* A record of 256 or more changed, removed or departed bins, or of a bin without bytes,
\* cannot be encoded or is not read as it was written; it is the only kind.  Every other
\* record is read to its end, so that the records of other collectables behind it in the
\* row are read from where they start, and no handler's assertion about indices,
\* departures or capacity fails (encodeDelta_ against HandleContigContainerAction and
\* HandleSparseContainerAction).
Legible == legible <=> Clean(record)

================================================================================
