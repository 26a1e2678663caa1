---------------------------- MODULE ArgosCheckpointer ----------------------------
(***************************************************************************)
(* Argos collection, from an entry point to the viewer: collectables and   *)
(* their clocks, the ledger the collector fills at one simulation time,    *)
(* the stager with its checkpoint chains, the records it writes, and the   *)
(* look-back with which the viewer rebuilds a collectable's value.         *)
(*                                                                         *)
(*   EntryPoint             setScalarValueBytes and its siblings,          *)
(*                          closeRecord                                    *)
(*   ArgosCollector         stage, closeRecord, checkTimeAdvanced_,        *)
(*                          preTeardown                                    *)
(*   PipelineStager         run_                                           *)
(*   *Checkpointer, *Checkpoint                                            *)
(*                          createCheckpoint, closeRecord,                 *)
(*                          encodeForPipeline                              *)
(*   blob_iterator.py, blob_handlers.py                                    *)
(*                          Iterate with look-back, DataExtractionHandler  *)
(*                                                                         *)
(* Compressor and Writer pass the records on in order (PipelineThreads),   *)
(* so a record is a row as soon as the stager has built it.                *)
(*                                                                         *)
(* The heartbeat is a parameter of the checkpointers.  The collector       *)
(* passes 1 whatever it is given (ArgosCollector::setHeartbeat); larger    *)
(* ones are what the checkpointers and the viewer are written for.         *)
(***************************************************************************)
EXTENDS Integers, Sequences, FiniteSets

CONSTANTS
    Cid,            \* the collectables
    Contig,         \* those that are contiguous containers
    Clock,          \* the clocks
    Value,          \* what can be collected
    Takes,          \* per collectable: those it takes
    Covered,        \* per collectable: the changes a delta encoding exists for
    Closed, None,   \* a closed collectable; one that was never collected
    Setups,         \* registered clocks, the clock of each collectable, heartbeat
    MaxTime,        \* bound, by heartbeat: simulation time
    MaxPerWindow,   \* bound, by heartbeat: stagings of a collectable in one window
    MaxBacklog      \* bound: ledgers waiting for the stager

Setup == [clocks : SUBSET Clock, clockOf : [Cid -> Clock], heartbeat : Nat \ {0}]

\* With a heartbeat above 1 an application stages a collectable once per window: the
\* newest checkpoint is encoded against its predecessor, sent or not.
ASSUME ArgosAssumption ==
    /\ Contig \subseteq Cid
    /\ Takes \in [Cid -> SUBSET Value]
    /\ Covered \in [Cid -> SUBSET (Value \X Value)]
    /\ Closed \notin Value /\ None \notin Value /\ Closed # None
    /\ \A s \in Setups : s \in Setup /\ \A c \in Cid : s.clockOf[c] \in s.clocks
    /\ \A s \in Setups : MaxTime[s.heartbeat] \in Nat
    /\ \A s \in Setups : s.heartbeat = 1 \/ MaxPerWindow[s.heartbeat] = 1
    /\ MaxBacklog \in Nat

NoTime == -1

Wire == [action : {"FULL"}, value : Value]
          \cup [action : {"CARRY", "CLOSED"}]
          \cup [action : {"DELTA"}, from : Value, to : Value]

Node == [window : Nat, value : Value \cup {Closed}]

Checkpointer ==
    [chain : Seq(Node), distance : Nat, lastFull : Nat \cup {NoTime},
     lastClosed : Nat \cup {NoTime}]

Ledger == [time : Nat, window : Nat, staged : [Cid -> Seq(Value)], closing : SUBSET Cid]

Row == [time : Nat, clocks : SUBSET Clock, wires : [Cid -> Seq(Wire)]]

VARIABLES
    setup,       \* clock_ids_, collectable_clock_ids_, heartbeat_
    time,        \* what the collector's Timestamp reads
    closed,      \* per collectable: EntryPoint::closed_
    ledger,      \* ledger_: the open ledger, at most one
    windowId,    \* current_window_id_
    inbox,       \* sealed ledgers, pipeline_head_
    ckpt,        \* checkpointers_
    recent,      \* per set of clocks, the last heartbeat rows tagged with one of
                 \* them: what a look-back with that filter reads
    truth,       \* what was collected, up to the last ledger the stager took
    tornDown

simVars == <<time, closed, ledger, windowId, tornDown>>
stagerVars == <<ckpt, recent, truth>>
vars == <<setup, simVars, inbox, stagerVars>>

heartbeat == setup.heartbeat
multiClock == Cardinality(setup.clocks) > 1

TypeOK ==
    /\ setup \in Setups
    /\ time \in Nat
    /\ closed \in [Cid -> BOOLEAN]
    /\ ledger \in Seq(Ledger)
    /\ windowId \in Nat
    /\ inbox \in Seq(Ledger)
    /\ ckpt \in [Cid -> Checkpointer]
    /\ recent \in [SUBSET Clock -> Seq(Row)]
    /\ truth \in [Cid -> Value \cup {Closed, None}]
    /\ tornDown \in BOOLEAN

NewCheckpointer ==
    [chain |-> <<>>, distance |-> 0, lastFull |-> NoTime, lastClosed |-> NoTime]

Init ==
    /\ setup \in Setups
    /\ time = 0
    /\ closed = [c \in Cid |-> TRUE]
    /\ ledger = <<>>
    /\ windowId = 1
    /\ inbox = <<>>
    /\ ckpt = [c \in Cid |-> NewCheckpointer]
    /\ recent = [filter \in SUBSET Clock |-> <<>>]
    /\ truth = [c \in Cid |-> None]
    /\ tornDown = FALSE
--------------------------------------------------------------------------------
(***************************************************************************)
(* The simulation thread.                                                  *)
(***************************************************************************)
Advance ==
    /\ time < MaxTime[heartbeat]
    /\ ~tornDown
    /\ time' = time + 1
    /\ UNCHANGED <<setup, closed, ledger, windowId, tornDown, inbox, stagerVars>>

\* checkTimeAdvanced_: the ledger of an earlier time is sealed, and the call goes into
\* a new one.
TimeAdvanced == ledger = <<>> \/ ledger[1].time < time

CurrentLedger ==
    IF TimeAdvanced
    THEN [time |-> time, window |-> windowId, staged |-> [c \in Cid |-> <<>>],
          closing |-> {}]
    ELSE ledger[1]

Record(new) ==
    /\ ledger' = <<new>>
    /\ IF TimeAdvanced
       THEN /\ Len(inbox) + Len(ledger) <= MaxBacklog
            /\ inbox' = inbox \o ledger
            /\ windowId' = windowId + 1
       ELSE UNCHANGED <<inbox, windowId>>

Stage(staged, c, v) == [staged EXCEPT ![c] = Append(@, v)]

SetValueBytes(c, v) ==
    /\ ~tornDown
    /\ Len(CurrentLedger.staged[c]) < MaxPerWindow[heartbeat]
    /\ closed' = [closed EXCEPT ![c] = FALSE]
    /\ Record([CurrentLedger EXCEPT !.staged = Stage(@, c, v)])
    /\ UNCHANGED <<setup, time, tornDown, stagerVars>>

\* EntryPoint::closeRecord passes only the first of several calls on.
CloseRecord(c) ==
    /\ ~tornDown
    /\ ~closed[c]
    /\ closed' = [closed EXCEPT ![c] = TRUE]
    /\ Record([CurrentLedger EXCEPT !.closing = @ \cup {c}])
    /\ UNCHANGED <<setup, time, tornDown, stagerVars>>

\* preTeardown sends the last ledger.
PreTeardown ==
    /\ ~tornDown
    /\ Len(inbox) + Len(ledger) <= MaxBacklog
    /\ tornDown' = TRUE
    /\ inbox' = inbox \o ledger
    /\ ledger' = <<>>
    /\ UNCHANGED <<setup, time, closed, windowId, stagerVars>>
--------------------------------------------------------------------------------
(***************************************************************************)
(* Checkpoint chains along prev_, oldest node first.                       *)
(***************************************************************************)
FullWire(v) == [action |-> "FULL", value |-> v]
CarryWire == [action |-> "CARRY"]
ClosedWire == [action |-> "CLOSED"]
DeltaWire(v, w) == [action |-> "DELTA", from |-> v, to |-> w]

IsData(chain, i) == chain[i].value # Closed

\* The nearest data checkpoint before position i; 0 if there is none.
DataBefore(chain, i) ==
    IF \E j \in 1..(i - 1) : IsData(chain, j)
    THEN CHOOSE j \in 1..(i - 1) :
           IsData(chain, j) /\ \A k \in (j + 1)..(i - 1) : ~IsData(chain, k)
    ELSE 0

\* createCheckpoint for what was staged, then closeRecord unless something was.
Checkpoint(chain, window, staged, closes) ==
    IF staged # <<>>
    THEN chain \o [i \in DOMAIN staged |-> [window |-> window, value |-> staged[i]]]
    ELSE IF closes
    THEN Append(chain, [window |-> window, value |-> Closed])
    ELSE chain

\* The oldest time of the heartbeat window that ends at t.
WindowLow(t) == IF t >= heartbeat THEN t - heartbeat + 1 ELSE 0

\* shouldHeartbeatRefresh_
HeartbeatRefresh(ck, t) ==
    /\ ck.lastFull # NoTime
    /\ t > ck.lastFull
    /\ ck.lastFull < WindowLow(t)

\* Mutant: the chain may grow by one more delta than the look-back reaches.
ForceSnapshotLate(ck, t) == ck.distance >= heartbeat + 1

\* forceSnapshot_
ForceSnapshot(ck, t) == ck.distance + 1 >= heartbeat \/ HeartbeatRefresh(ck, t)

\* Mutant: an absent collectable is not refreshed once it is closed.
RefreshAbsentOpen(ck, t, tipClosed) == ~tipClosed /\ HeartbeatRefresh(ck, t)

\* shouldRefreshAbsentCid_
RefreshAbsent(ck, t, tipClosed) ==
    \/ HeartbeatRefresh(ck, t)
    \/ /\ tipClosed
       /\ ck.lastClosed # NoTime
       /\ t > ck.lastClosed
       /\ ck.lastClosed < WindowLow(t)

\* needsClosedPriming_
NeedsPriming(ck, t) == ck.lastFull = NoTime \/ ck.lastFull < WindowLow(t)

\* Mutant: the count of deltas runs the wrong way.
SentCountdown(ck, action, t) ==
    [chain |-> ck.chain,
     distance |-> IF action = "FULL" THEN 0 ELSE ck.distance - 1,
     lastFull |-> IF action = "FULL" THEN t ELSE ck.lastFull,
     lastClosed |-> IF action = "CLOSED" THEN t ELSE ck.lastClosed]

\* recordCidSent_
Sent(ck, action, t) ==
    [chain |-> ck.chain,
     distance |-> IF action = "FULL" THEN 0 ELSE ck.distance + 1,
     lastFull |-> IF action = "FULL" THEN t ELSE ck.lastFull,
     lastClosed |-> IF action = "CLOSED" THEN t ELSE ck.lastClosed]

\* Mutant: the delta is not invalidated by a close in between.
AnchorWireAcrossClose(c, chain, force) ==
    LET n == Len(chain)
        v == chain[n].value
        p == DataBefore(chain, n)
    IN  IF force \/ p = 0 THEN FullWire(v)
        ELSE IF chain[p].value = v THEN CarryWire
        ELSE IF <<chain[p].value, v>> \in Covered[c] THEN DeltaWire(chain[p].value, v)
        ELSE FullWire(v)

\* encodeForPipeline of the newest checkpoint, a data checkpoint: scalars know FULL and
\* CARRY, containers deltas as well for the changes their classifier covers.
AnchorWire(c, chain, force) ==
    LET n == Len(chain)
        v == chain[n].value
        p == DataBefore(chain, n)
    IN  IF force \/ p = 0 \/ (\E i \in (p + 1)..(n - 1) : ~IsData(chain, i))
        THEN FullWire(v)
        ELSE IF chain[p].value = v THEN CarryWire
        ELSE IF <<chain[p].value, v>> \in Covered[c] THEN DeltaWire(chain[p].value, v)
        ELSE FullWire(v)

\* A checkpointer and what it has just put on the wire.
Emit(ck, wires) == [ckpt |-> ck, wires |-> wires]

\* emitRecordClosed_: CLOSED, after a snapshot if the window holds none.
EmitClosed(ck, t) ==
    LET latest == DataBefore(ck.chain, Len(ck.chain) + 1)
    IN  IF NeedsPriming(ck, t) /\ latest # 0
        THEN Emit(Sent(Sent(ck, "FULL", t), "CLOSED", t),
                  <<FullWire(ck.chain[latest].value), ClosedWire>>)
        ELSE Emit(Sent(ck, "CLOSED", t), <<ClosedWire>>)

\* A FULL record detaches everything before its checkpoint.
EmitAnchor(c, ck, t) ==
    LET wire == AnchorWire(c, ck.chain, ForceSnapshot(ck, t))
        sent == Sent(ck, wire.action, t)
    IN  Emit(IF wire.action = "FULL"
             THEN [sent EXCEPT !.chain = <<@[Len(@)]>>]
             ELSE sent,
             <<wire>>)

EmitAbsent(ck, t) ==
    LET n == Len(ck.chain)
        tipClosed == n > 0 /\ ~IsData(ck.chain, n)
        latest == DataBefore(ck.chain, n + 1)
    IN  IF ~RefreshAbsent(ck, t, tipClosed) THEN Emit(ck, <<>>)
        ELSE IF tipClosed THEN EmitClosed(ck, t)
        ELSE IF latest = 0 THEN Emit(ck, <<>>)
        ELSE Emit(Sent(ck, "FULL", t), <<FullWire(ck.chain[latest].value)>>)

Participated(ck, window) ==
    ck.chain # <<>> /\ ck.chain[Len(ck.chain)].window = window

\* encodeForPipeline; with several clocks the stager does not even ask a collectable
\* that has nothing in this window.
Encode(c, ck, window, t) ==
    IF Participated(ck, window)
    THEN IF IsData(ck.chain, Len(ck.chain)) THEN EmitAnchor(c, ck, t) ELSE EmitClosed(ck, t)
    ELSE IF multiClock THEN Emit(ck, <<>>)
    ELSE EmitAbsent(ck, t)
--------------------------------------------------------------------------------
(***************************************************************************)
(* PipelineStager::run_ takes one ledger.                                  *)
(***************************************************************************)
KeepRecent(rows) ==
    IF Len(rows) > heartbeat THEN Tail(rows) ELSE rows

\* What the ledger says of a collectable: the last value staged, else a close.
Collected(c, old, entry) ==
    LET staged == entry.staged[c]
    IN  IF staged # <<>> THEN staged[Len(staged)]
        ELSE IF c \in entry.closing /\ old # None THEN Closed
        ELSE old

\* A checkpointer once the ledger's stagings and closes are in its chain, and what it sends.
Loaded(c, entry) ==
    [ckpt[c] EXCEPT !.chain =
        Checkpoint(@, entry.window, entry.staged[c], c \in entry.closing)]

Sending(c, entry) == Encode(c, Loaded(c, entry), entry.window, entry.time)

NewRow(entry) ==
    [time |-> entry.time,
     clocks |-> {setup.clockOf[c] : c \in {d \in Cid : Sending(d, entry).wires # <<>>}},
     wires |-> [c \in Cid |-> Sending(c, entry).wires]]

StagerRuns ==
    /\ inbox # <<>>
    /\ LET entry == inbox[1]
           row == NewRow(entry)
       IN  /\ ckpt' = [c \in Cid |-> Sending(c, entry).ckpt]
           /\ recent' = [filter \in SUBSET Clock |->
                           IF row.clocks \cap filter = {} THEN recent[filter]
                           ELSE KeepRecent(Append(recent[filter], row))]
           /\ truth' = [c \in Cid |-> Collected(c, truth[c], entry)]
    /\ inbox' = Tail(inbox)
    /\ UNCHANGED <<setup, simVars>>
--------------------------------------------------------------------------------
Next ==
    \/ Advance
    \/ \E c \in Cid : CloseRecord(c) \/ \E v \in Takes[c] : SetValueBytes(c, v)
    \/ PreTeardown
    \/ StagerRuns

Spec == Init /\ [][Next]_vars
--------------------------------------------------------------------------------
(***************************************************************************)
(* The viewer.                                                             *)
(***************************************************************************)
\* Neither a value nor a state the viewer knows.
Wrong == <<"wrong">>

\* DataExtractionHandler: one record applied to what the viewer has of collectable c.
Apply(c, wire, seen) ==
    CASE wire.action = "FULL" -> wire.value
      [] wire.action = "CARRY" -> seen
      [] wire.action = "CLOSED" -> IF seen = None /\ c \notin Contig THEN None ELSE Closed
      [] wire.action = "DELTA" ->
           IF seen = None THEN None ELSE IF seen = wire.from THEN wire.to ELSE Wrong

\* Iterate: the records of one row, in order, once for every clock of the filter the
\* row is tagged with (the look-back's join).
AfterRow(c, row, filter, seen) ==
    LET wires == row.wires[c]
        n == Len(wires) * Cardinality(row.clocks \cap filter)
        f[i \in 0..n] ==
          IF i = 0 THEN seen ELSE Apply(c, wires[((i - 1) % Len(wires)) + 1], f[i - 1])
    IN  f[n]

Rebuilt(c, filter) ==
    LET rows == recent[filter]
        f[i \in 0..Len(rows)] ==
          IF i = 0 THEN None ELSE AfterRow(c, rows[i], filter, f[i - 1])
    IN  f[Len(rows)]

\* DataRetriever::Unpack asks for the rows of the collectable's own clock.
OwnClock(c) == {setup.clockOf[c]}

OwnRows(c) == recent[OwnClock(c)]
--------------------------------------------------------------------------------
(***************************************************************************)
(* Correctness.                                                            *)
(***************************************************************************)
\* A row speaks for a collectable: with one clock every row does (the stager refreshes
\* the ones that were silent), with several the rows it took part in.
SpeaksFor(c) ==
    /\ OwnRows(c) # <<>>
    /\ ~multiClock \/ OwnRows(c)[Len(OwnRows(c))].wires[c] # <<>>

\* Opening the database at a tick (DataRetriever::Unpack): what the viewer rebuilds from
\* the last heartbeat rows of the collectable's clock is what was collected, if the
\* last of them speaks for the collectable.
ReplayExact == \A c \in Cid : SpeaksFor(c) => Rebuilt(c, OwnClock(c)) = truth[c]

\* The look-back always reaches a snapshot: deltas never run on for longer than the
\* viewer looks back, and a closed collectable is primed before it is closed again.
Anchored ==
    \A c \in Cid : SpeaksFor(c) /\ truth[c] # None =>
        \E i \in DOMAIN OwnRows(c) : \E j \in DOMAIN OwnRows(c)[i].wires[c] :
            OwnRows(c)[i].wires[c][j].action = "FULL"

\* Playing forward from a tick that was rebuilt correctly stays correct: each row turns
\* what was collected before it into what was collected with it, for silent
\* collectables too.
PlaysForward ==
    [][\A c \in Cid : OwnRows(c)' # OwnRows(c) /\ truth[c] # None =>
         AfterRow(c, OwnRows(c)'[Len(OwnRows(c)')], OwnClock(c), truth[c]) = truth'[c]]_vars

================================================================================
