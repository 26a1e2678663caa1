------------------------ MODULE ArgosCheckpointer_proofs ------------------------
(***************************************************************************)
(* Proofs about ArgosCheckpointer, for every set of collectables, clocks   *)
(* and values, every heartbeat and every classifier of changes.            *)
(***************************************************************************)
EXTENDS ArgosCheckpointer, SequenceTheorems, FiniteSetTheorems, WellFoundedInduction,
        TLAPS

--------------------------------------------------------------------------------
(***************************************************************************)
(* Chains.                                                                 *)
(***************************************************************************)
HasData(chain) == \E i \in 1..Len(chain) : IsData(chain, i)

\* DataBefore finds the nearest data checkpoint where there is one.
LEMMA DataBeforeFinds ==
    ASSUME NEW chain \in Seq(Node), NEW n \in Nat, n <= Len(chain) + 1
    PROVE  \/ DataBefore(chain, n) = 0 /\ \A i \in 1..(n - 1) : ~IsData(chain, i)
           \/ /\ DataBefore(chain, n) \in 1..(n - 1) /\ IsData(chain, DataBefore(chain, n))
              /\ \A k \in (DataBefore(chain, n) + 1)..(n - 1) : ~IsData(chain, k)
<1>1. CASE ~\E j \in 1..(n - 1) : IsData(chain, j)
  BY <1>1 DEF DataBefore
<1>2. CASE \E j \in 1..(n - 1) : IsData(chain, j)
  <2> DEFINE Nearest(j) ==
               IsData(chain, j) /\ \A k \in (j + 1)..(n - 1) : ~IsData(chain, k)
  <2> DEFINE S == {n - j : j \in {k \in 1..(n - 1) : IsData(chain, k)}}
  <2>1. S \subseteq Nat /\ S # {}
    BY <1>2
  <2>2. PICK r \in S : \A q \in S : ~(<<q, r>> \in OpToRel(<, Nat))
    BY <2>1, NatLessThanWellFounded, WFMin
  <2>3. PICK m \in 1..(n - 1) : IsData(chain, m) /\ r = n - m
    BY <2>2
  <2>4. ASSUME NEW k \in (m + 1)..(n - 1), IsData(chain, k) PROVE FALSE
    <3>1. n - k \in S /\ n - k \in Nat /\ r \in Nat
      BY <2>3, <2>4
    <3>2. ~(n - k < r)
      BY <2>2, <3>1 DEF OpToRel
    <3> QED
      BY <2>3, <3>1, <3>2
  <2>5. \E j \in 1..(n - 1) : Nearest(j)
    BY <2>3, <2>4
  <2>6. DataBefore(chain, n) = CHOOSE j \in 1..(n - 1) : Nearest(j)
    BY <1>2 DEF DataBefore
  <2> QED
    BY <2>5, <2>6
<1> QED
  BY <1>1, <1>2

\* The checkpoints a window's stagings add.
Nodes(window, staged) == [i \in DOMAIN staged |-> [window |-> window, value |-> staged[i]]]

LEMMA NodesType ==
    ASSUME NEW window \in Nat, NEW staged \in Seq(Value)
    PROVE  /\ Nodes(window, staged) \in Seq(Node)
           /\ Len(Nodes(window, staged)) = Len(staged)
           /\ \A i \in 1..Len(staged) : Nodes(window, staged)[i].value \in Value
           /\ \A i \in 1..Len(staged) : Nodes(window, staged)[i].window = window
<1>1. PICK n \in Nat : staged \in [1..n -> Value]
  BY SeqDef
<1>2. Len(staged) = n /\ DOMAIN staged = 1..n
  BY <1>1, LenProperties
<1>3. Nodes(window, staged) \in [1..n -> Node]
  BY <1>1, <1>2 DEF Nodes, Node
<1>4. Nodes(window, staged) \in Seq(Node)
  BY <1>3, SeqDef
<1>5. Len(Nodes(window, staged)) = n
  BY <1>3, <1>4, LenProperties
<1> QED
  BY <1>1, <1>2, <1>4, <1>5 DEF Nodes

LEMMA Join ==
    ASSUME NEW S, NEW old \in Seq(S), NEW new \in Seq(S), Len(new) > 0
    PROVE  /\ Len(old \o new) = Len(old) + Len(new)
           /\ (old \o new)[Len(old) + Len(new)] = new[Len(new)]
           /\ \A i \in 1..Len(old) : (old \o new)[i] = old[i]
<1>1. Len(old) \in Nat /\ Len(new) \in Nat
  BY LenProperties
<1>2. \A i \in 1..(Len(old) + Len(new)) :
        (old \o new)[i] = IF i <= Len(old) THEN old[i] ELSE new[i - Len(old)]
  BY ConcatProperties
<1>3. Len(old \o new) = Len(old) + Len(new)
  BY ConcatProperties
<1>4. (old \o new)[Len(old) + Len(new)] = new[Len(new)]
  BY <1>1, <1>2, Len(old) + Len(new) \in 1..(Len(old) + Len(new)),
     ~(Len(old) + Len(new) <= Len(old)), Len(old) + Len(new) - Len(old) = Len(new)
<1>5. \A i \in 1..Len(old) : (old \o new)[i] = old[i]
  BY <1>1, <1>2
<1> QED
  BY <1>3, <1>4, <1>5

\* What createCheckpoint and closeRecord do to a chain.
LEMMA CheckpointType ==
    ASSUME NEW chain \in Seq(Node), NEW window \in Nat, NEW staged \in Seq(Value),
           NEW closes \in BOOLEAN
    PROVE  Checkpoint(chain, window, staged, closes) \in Seq(Node)
<1>1. chain \o Nodes(window, staged) \in Seq(Node)
  BY NodesType, ConcatProperties
<1>2. [window |-> window, value |-> Closed] \in Node
  BY DEF Node
<1>3. Append(chain, [window |-> window, value |-> Closed]) \in Seq(Node)
  BY <1>2, AppendProperties
<1> QED
  BY <1>1, <1>3 DEF Checkpoint, Nodes

LEMMA CheckpointStaged ==
    ASSUME NEW chain \in Seq(Node), NEW window \in Nat, NEW staged \in Seq(Value),
           NEW closes \in BOOLEAN, staged # <<>>
    PROVE  LET new == Checkpoint(chain, window, staged, closes)
           IN  /\ Len(new) = Len(chain) + Len(staged) /\ Len(staged) > 0
               /\ IsData(new, Len(new)) /\ new[Len(new)].window = window
               /\ \A i \in 1..Len(chain) : new[i] = chain[i]
<1> DEFINE nodes == Nodes(window, staged)
<1>1. Checkpoint(chain, window, staged, closes) = chain \o nodes
  BY DEF Checkpoint, Nodes
<1>2. nodes \in Seq(Node) /\ Len(nodes) = Len(staged)
  BY NodesType
<1>3. Len(staged) \in Nat /\ Len(staged) > 0 /\ Len(chain) \in Nat
  BY LenProperties, EmptySeq
<1>4. nodes[Len(nodes)].value \in Value /\ nodes[Len(nodes)].window = window
  BY <1>2, <1>3, NodesType
<1>5. nodes[Len(nodes)].value # Closed
  BY <1>4, ArgosAssumption
<1> HIDE DEF nodes
<1>6. /\ Len(chain \o nodes) = Len(chain) + Len(staged)
      /\ (chain \o nodes)[Len(chain) + Len(nodes)] = nodes[Len(nodes)]
      /\ \A i \in 1..Len(chain) : (chain \o nodes)[i] = chain[i]
  BY <1>2, <1>3, Join
<1> QED
  BY <1>1, <1>2, <1>3, <1>4, <1>5, <1>6 DEF IsData

LEMMA CloseAppended ==
    ASSUME NEW chain \in Seq(Node), NEW window \in Nat, NEW new,
           new = Append(chain, [window |-> window, value |-> Closed])
    PROVE  Len(new) = Len(chain) + 1 /\ new[Len(new)].window = window
<1> DEFINE tip == [window |-> window, value |-> Closed]
<1>1. tip \in Node /\ tip.window = window /\ new = Append(chain, tip)
  BY DEF Node
<1> HIDE DEF tip
<1> QED
  BY <1>1, AppendProperties, LenProperties

LEMMA CloseAddsNoData ==
    ASSUME NEW chain \in Seq(Node), NEW window \in Nat, NEW new,
           new = Append(chain, [window |-> window, value |-> Closed])
    PROVE  (HasData(chain) => HasData(new)) /\ (HasData(new) => HasData(chain))
<1> DEFINE tip == [window |-> window, value |-> Closed]
<1>1. tip \in Node /\ tip.value = Closed /\ new = Append(chain, tip)
  BY DEF Node
<1> HIDE DEF tip
<1>2. /\ Len(new) = Len(chain) + 1 /\ Len(chain) \in Nat
      /\ new[Len(new)] = tip
      /\ \A i \in 1..Len(chain) : new[i] = chain[i]
  BY <1>1, AppendProperties, LenProperties
<1>3. \A i \in 1..Len(new) : IsData(new, i) <=> i \in 1..Len(chain) /\ IsData(chain, i)
  BY <1>1, <1>2 DEF IsData
<1> QED
  BY <1>2, <1>3 DEF HasData
--------------------------------------------------------------------------------
(***************************************************************************)
(* What a checkpointer puts on the wire.                                   *)
(***************************************************************************)
\* The last FULL was sent within the heartbeat window that ends at t.
Fresh(ck, t) == ck.lastFull # NoTime /\ ck.lastFull + heartbeat > t

\* Between two windows: a FULL was sent if there is data in the chain, which then still
\* holds some.
Coherent(ck) == ck.lastFull # NoTime <=> HasData(ck.chain)

\* When encodeForPipeline is called: data of which no FULL was sent is this window's,
\* and with a heartbeat above 1 it is a single checkpoint.
Ready(ck, window) ==
    /\ ck.lastFull # NoTime => HasData(ck.chain)
    /\ ck.lastFull = NoTime /\ HasData(ck.chain) =>
         /\ Participated(ck, window) /\ IsData(ck.chain, Len(ck.chain))
         /\ heartbeat = 1 \/ \A i \in 1..(Len(ck.chain) - 1) : ~IsData(ck.chain, i)

HasFull(wires) == \E j \in DOMAIN wires : wires[j].action = "FULL"

\* What every emission guarantees.
Emitted(ck, t, out) ==
    /\ out.ckpt \in Checkpointer
    /\ out.wires \in Seq(Wire)
    /\ Coherent(out.ckpt)
    /\ \/ out.ckpt.lastFull = ck.lastFull
       \/ out.ckpt.lastFull = t /\ HasFull(out.wires)

LEMMA SentType ==
    ASSUME NEW ck \in Checkpointer, NEW t \in Nat,
           NEW action \in {"FULL", "CARRY", "DELTA", "CLOSED"}
    PROVE  /\ Sent(ck, action, t) \in Checkpointer
           /\ Sent(ck, action, t).chain = ck.chain
           /\ action = "FULL" => Sent(ck, action, t).lastFull = t
           /\ action # "FULL" => Sent(ck, action, t).lastFull = ck.lastFull
  BY DEF Sent, Checkpointer

LEMMA DataIsValue ==
    ASSUME NEW chain \in Seq(Node), NEW i \in 1..Len(chain), IsData(chain, i)
    PROVE  chain[i] \in Node /\ chain[i].value \in Value
<1>1. chain[i] \in Node
  BY ElementOfSeq
<1> QED
  BY <1>1 DEF Node, IsData

LEMMA FullIsWire ==
    ASSUME NEW chain \in Seq(Node), NEW i \in 1..Len(chain), IsData(chain, i)
    PROVE  FullWire(chain[i].value) \in Wire /\ FullWire(chain[i].value).action = "FULL"
  BY DataIsValue DEF FullWire, Wire

LEMMA OneWire ==
    ASSUME NEW w \in Wire
    PROVE  /\ <<w>> \in Seq(Wire) /\ <<w>> # <<>>
           /\ w.action = "FULL" => HasFull(<<w>>)
  BY DEF HasFull

LEMMA TwoWires ==
    ASSUME NEW w \in Wire, NEW x \in Wire
    PROVE  /\ <<w, x>> \in Seq(Wire) /\ <<w, x>> # <<>>
           /\ w.action = "FULL" => HasFull(<<w, x>>)
  BY DEF HasFull

\* No refresh is due, no priming is needed: the last FULL is recent.
LEMMA NoRefresh ==
    ASSUME NEW ck \in Checkpointer, NEW t \in Nat, heartbeat \in Nat \ {0}
    PROVE  /\ ck.lastFull # NoTime /\ ~HeartbeatRefresh(ck, t) => Fresh(ck, t)
           /\ ~NeedsPriming(ck, t) => Fresh(ck, t)
<1>1. ck.lastFull \in Nat \cup {NoTime}
  BY DEF Checkpointer
<1> QED
  BY <1>1 DEF HeartbeatRefresh, NeedsPriming, WindowLow, Fresh, NoTime

LEMMA EmitClosedSends ==
    ASSUME NEW ck \in Checkpointer, NEW t \in Nat, heartbeat \in Nat \ {0}, Coherent(ck)
    PROVE  /\ Emitted(ck, t, EmitClosed(ck, t))
           /\ EmitClosed(ck, t).wires # <<>>
           /\ HasData(ck.chain) => Fresh(EmitClosed(ck, t).ckpt, t)
<1> DEFINE chain == ck.chain
           latest == DataBefore(chain, Len(chain) + 1)
           closing == Sent(ck, "CLOSED", t)
           full == Sent(ck, "FULL", t)
           primed == Sent(full, "CLOSED", t)
<1>1. chain \in Seq(Node) /\ Len(chain) \in Nat
  BY LenProperties DEF Checkpointer
<1>2. \/ latest = 0 /\ ~HasData(chain)
      \/ latest \in 1..Len(chain) /\ IsData(chain, latest)
  BY <1>1, DataBeforeFinds, Len(chain) + 1 - 1 = Len(chain) DEF HasData
<1>3. ClosedWire \in Wire /\ ClosedWire.action = "CLOSED"
  BY DEF ClosedWire, Wire
<1>4. CASE NeedsPriming(ck, t) /\ latest # 0
  <2>1. EmitClosed(ck, t) = Emit(primed, <<FullWire(chain[latest].value), ClosedWire>>)
    BY <1>4 DEF EmitClosed
  <2>2. /\ primed \in Checkpointer /\ primed.chain = chain /\ primed.lastFull = t
    <3>1. full \in Checkpointer /\ full.chain = chain /\ full.lastFull = t
      BY SentType
    <3> HIDE DEF full
    <3> QED
      BY <3>1, SentType
  <2>3. FullWire(chain[latest].value) \in Wire /\ FullWire(chain[latest].value).action = "FULL"
    BY <1>1, <1>2, <1>4, FullIsWire
  <2>4. HasData(chain)
    BY <1>2, <1>4 DEF HasData
  <2>5. Coherent(primed) /\ Fresh(primed, t)
    BY <2>2, <2>4 DEF Coherent, Fresh, NoTime
  <2> QED
    BY <2>1, <2>2, <2>3, <2>5, <1>3, TwoWires DEF Emit, Emitted
<1>5. CASE ~(NeedsPriming(ck, t) /\ latest # 0)
  <2>1. EmitClosed(ck, t) = Emit(closing, <<ClosedWire>>)
    BY <1>5 DEF EmitClosed
  <2>2. closing \in Checkpointer /\ closing.chain = chain /\ closing.lastFull = ck.lastFull
    BY SentType
  <2>3. Coherent(closing)
    BY <2>2 DEF Coherent
  <2>4. HasData(chain) => Fresh(closing, t)
    BY <1>2, <1>5, <2>2, NoRefresh DEF Fresh, HasData
  <2> QED
    BY <2>1, <2>2, <2>3, <2>4, <1>3, OneWire DEF Emit, Emitted
<1> QED
  BY <1>4, <1>5

\* A data checkpoint is a delta only against a snapshot that is still in reach.
LEMMA EmitAnchorSends ==
    ASSUME NEW c \in Cid, NEW ck \in Checkpointer, NEW t \in Nat, NEW window,
           heartbeat \in Nat \ {0}, Ready(ck, window),
           Len(ck.chain) > 0, IsData(ck.chain, Len(ck.chain))
    PROVE  /\ Emitted(ck, t, EmitAnchor(c, ck, t))
           /\ EmitAnchor(c, ck, t).wires # <<>>
           /\ Fresh(EmitAnchor(c, ck, t).ckpt, t)
<1> DEFINE chain == ck.chain
           n == Len(chain)
           force == ForceSnapshot(ck, t)
           wire == AnchorWire(c, chain, force)
           sent == Sent(ck, wire.action, t)
           out == EmitAnchor(c, ck, t)
<1>1. /\ chain \in Seq(Node) /\ n \in Nat /\ n \in 1..n
      /\ ck.lastFull \in Nat \cup {NoTime} /\ ck.distance \in Nat
  BY LenProperties DEF Checkpointer
<1>2. DataBefore(chain, n) = 0 \/ DataBefore(chain, n) \in 1..(n - 1)
  BY <1>1, DataBeforeFinds
<1>3. chain[n] \in Node /\ chain[n].value \in Value
  BY <1>1, DataIsValue
<1>4. DataBefore(chain, n) # 0 => chain[DataBefore(chain, n)].value \in Value
  <2>1. SUFFICES ASSUME DataBefore(chain, n) # 0
                 PROVE  chain[DataBefore(chain, n)].value \in Value
    OBVIOUS
  <2>2. IsData(chain, DataBefore(chain, n)) /\ DataBefore(chain, n) \in 1..n
    BY <2>1, <1>1, <1>2, DataBeforeFinds
  <2> QED
    BY <2>2, <1>1, DataIsValue
<1>5. wire \in Wire /\ wire.action \in {"FULL", "CARRY", "DELTA"}
  BY <1>3, <1>4 DEF AnchorWire, FullWire, CarryWire, DeltaWire, Wire
<1>6. wire.action # "FULL" => ~force /\ DataBefore(chain, n) # 0
  BY DEF AnchorWire, FullWire
<1>7. /\ wire.action = "FULL" =>
            out = Emit([sent EXCEPT !.chain = <<sent.chain[Len(sent.chain)]>>], <<wire>>)
      /\ wire.action # "FULL" => out = Emit(sent, <<wire>>)
  BY DEF EmitAnchor
<1> HIDE DEF wire
<1>8. /\ sent \in Checkpointer /\ sent.chain = chain
      /\ wire.action = "FULL" => sent.lastFull = t
      /\ wire.action # "FULL" => sent.lastFull = ck.lastFull
  <2>1. wire.action \in {"FULL", "CARRY", "DELTA", "CLOSED"}
    BY <1>5
  <2>2. \A action \in {"FULL", "CARRY", "DELTA", "CLOSED"} :
          /\ Sent(ck, action, t) \in Checkpointer /\ Sent(ck, action, t).chain = chain
          /\ action = "FULL" => Sent(ck, action, t).lastFull = t
          /\ action # "FULL" => Sent(ck, action, t).lastFull = ck.lastFull
    BY SentType
  <2> QED
    BY <2>1, <2>2
<1>9. HasData(chain)
  BY <1>1 DEF HasData
<1>10. CASE wire.action = "FULL"
  <2> DEFINE kept == [sent EXCEPT !.chain = <<sent.chain[Len(sent.chain)]>>]
  <2>1. out = Emit(kept, <<wire>>)
    BY <1>10, <1>7
  <2>2. kept \in Checkpointer /\ kept.lastFull = t /\ kept.chain = <<chain[n]>>
    <3>1. sent \in Checkpointer /\ sent.chain = chain /\ sent.lastFull = t
      BY <1>8, <1>10
    <3> DEFINE tip == <<chain[n]>>
    <3>2. tip \in Seq(Node)
      BY <1>3
    <3>3. kept = [sent EXCEPT !.chain = tip]
      BY <3>1
    <3> HIDE DEF kept, sent, tip
    <3>4. kept \in Checkpointer /\ kept.lastFull = t /\ kept.chain = tip
      BY <3>1, <3>2, <3>3 DEF Checkpointer
    <3> QED
      BY <3>4 DEF tip
  <2>3. IsData(kept.chain, 1) /\ Len(kept.chain) = 1
    BY <2>2 DEF IsData
  <2>4. Coherent(kept) /\ Fresh(kept, t)
    BY <2>2, <2>3 DEF Coherent, HasData, Fresh, NoTime
  <2> QED
    <3>1. /\ <<wire>> \in Seq(Wire) /\ <<wire>> # <<>>
          /\ HasFull(<<wire>>)
      BY <1>5, <1>10, OneWire
    <3>2. out.ckpt = kept /\ out.wires = <<wire>>
      BY <2>1 DEF Emit
    <3> HIDE DEF kept, out
    <3>3. Emitted(ck, t, out) /\ out.wires # <<>> /\ Fresh(out.ckpt, t)
      BY <3>1, <3>2, <2>2, <2>4 DEF Emitted
    <3> QED
      BY <3>3 DEF out
<1>11. CASE wire.action # "FULL"
  <2>1. out = Emit(sent, <<wire>>)
    BY <1>11, <1>7
  <2>2. ~force /\ DataBefore(chain, n) # 0
    BY <1>6, <1>11
  <2>3. ck.distance + 1 < heartbeat /\ ~HeartbeatRefresh(ck, t)
    BY <2>2, <1>1 DEF ForceSnapshot
  <2>4. heartbeat # 1
    BY <2>3, <1>1
  <2>5. \E i \in 1..(n - 1) : IsData(chain, i)
    BY <2>2, <1>1, <1>2, DataBeforeFinds
  <2>6. ck.lastFull # NoTime
    BY <2>4, <2>5, <1>9 DEF Ready
  <2>7. Fresh(ck, t)
    BY <2>3, <2>6, NoRefresh
  <2>8. Coherent(sent) /\ Fresh(sent, t) /\ sent.lastFull = ck.lastFull
    BY <2>6, <2>7, <1>8, <1>9, <1>11 DEF Coherent, Fresh
  <2>9. <<wire>> \in Seq(Wire) /\ <<wire>> # <<>>
    BY <1>5, OneWire
  <2>10. out.ckpt = sent /\ out.wires = <<wire>>
    BY <2>1 DEF Emit
  <2> HIDE DEF sent, out
  <2>11. Emitted(ck, t, out) /\ out.wires # <<>> /\ Fresh(out.ckpt, t)
    BY <2>8, <2>9, <2>10, <1>8 DEF Emitted
  <2> QED
    BY <2>11 DEF out
<1> QED
  BY <1>10, <1>11

\* A silent collectable is refreshed before its snapshot gets out of reach.
LEMMA EmitAbsentSends ==
    ASSUME NEW ck \in Checkpointer, NEW t \in Nat, heartbeat \in Nat \ {0}, Coherent(ck)
    PROVE  /\ Emitted(ck, t, EmitAbsent(ck, t))
           /\ EmitAbsent(ck, t).wires = <<>> => EmitAbsent(ck, t).ckpt = ck
           /\ HasData(ck.chain) => Fresh(EmitAbsent(ck, t).ckpt, t)
<1> DEFINE chain == ck.chain
           n == Len(chain)
           tipClosed == n > 0 /\ ~IsData(chain, n)
           latest == DataBefore(chain, n + 1)
           full == Sent(ck, "FULL", t)
           out == EmitAbsent(ck, t)
<1>1. chain \in Seq(Node) /\ n \in Nat
  BY LenProperties DEF Checkpointer
<1>2. \/ latest = 0 /\ ~HasData(chain)
      \/ latest \in 1..n /\ IsData(chain, latest)
  BY <1>1, DataBeforeFinds, n + 1 - 1 = n DEF HasData
<1>3. Emitted(ck, t, Emit(ck, <<>>)) /\ Emit(ck, <<>>).ckpt = ck
  BY DEF Emitted, Emit
<1>4. CASE ~RefreshAbsent(ck, t, tipClosed)
  <2>1. out = Emit(ck, <<>>)
    BY <1>4 DEF EmitAbsent
  <2>2. HasData(chain) => Fresh(ck, t)
    BY <1>4, NoRefresh DEF RefreshAbsent, Coherent
  <2> QED
    BY <2>1, <2>2, <1>3
<1>5. CASE RefreshAbsent(ck, t, tipClosed) /\ tipClosed
  <2>1. out = EmitClosed(ck, t)
    BY <1>5 DEF EmitAbsent
  <2> QED
    BY <2>1, EmitClosedSends
<1>6. CASE RefreshAbsent(ck, t, tipClosed) /\ ~tipClosed /\ latest = 0
  <2>1. out = Emit(ck, <<>>)
    BY <1>6 DEF EmitAbsent
  <2> QED
    BY <2>1, <1>2, <1>3, <1>6
<1>7. CASE RefreshAbsent(ck, t, tipClosed) /\ ~tipClosed /\ latest # 0
  <2>1. out = Emit(full, <<FullWire(chain[latest].value)>>)
    BY <1>7 DEF EmitAbsent
  <2>2. full \in Checkpointer /\ full.chain = chain /\ full.lastFull = t
    BY SentType
  <2>3. FullWire(chain[latest].value) \in Wire /\ FullWire(chain[latest].value).action = "FULL"
    BY <1>1, <1>2, <1>7, FullIsWire
  <2>4. HasData(chain)
    BY <1>2, <1>7 DEF HasData
  <2>5. Coherent(full) /\ Fresh(full, t)
    BY <2>2, <2>4 DEF Coherent, Fresh, NoTime
  <2> QED
    BY <2>1, <2>2, <2>3, <2>5, OneWire DEF Emit, Emitted
<1> QED
  BY <1>4, <1>5, <1>6, <1>7

\* All of encodeForPipeline.
LEMMA EncodeSends ==
    ASSUME NEW c \in Cid, NEW ck \in Checkpointer, NEW t \in Nat, NEW window \in Nat,
           heartbeat \in Nat \ {0}, Ready(ck, window)
    PROVE  LET out == Encode(c, ck, window, t)
           IN  /\ Emitted(ck, t, out)
               /\ out.wires = <<>> => out.ckpt = ck
               /\ Participated(ck, window) => out.wires # <<>>
               /\ HasData(ck.chain) /\ (~multiClock \/ out.wires # <<>>) =>
                    Fresh(out.ckpt, t)
<1> DEFINE out == Encode(c, ck, window, t)
           n == Len(ck.chain)
<1>1. CASE Participated(ck, window) /\ IsData(ck.chain, n)
  <2>1. out = EmitAnchor(c, ck, t)
    BY <1>1 DEF Encode
  <2>2. n > 0
    BY <1>1, LenProperties, EmptySeq DEF Participated, Checkpointer
  <2> QED
    BY <2>1, <2>2, <1>1, EmitAnchorSends
<1>2. ~(Participated(ck, window) /\ IsData(ck.chain, n)) => Coherent(ck)
  BY DEF Ready, Coherent
<1>3. CASE Participated(ck, window) /\ ~IsData(ck.chain, n)
  <2>1. out = EmitClosed(ck, t)
    BY <1>3 DEF Encode
  <2> QED
    BY <2>1, <1>2, <1>3, EmitClosedSends
<1>4. CASE ~Participated(ck, window) /\ multiClock
  <2>1. out = Emit(ck, <<>>)
    BY <1>4 DEF Encode
  <2> QED
    BY <2>1, <1>2, <1>4 DEF Emit, Emitted
<1>5. CASE ~Participated(ck, window) /\ ~multiClock
  <2>1. out = EmitAbsent(ck, t)
    BY <1>5 DEF Encode
  <2> QED
    BY <2>1, <1>2, <1>5, EmitAbsentSends
<1> QED
  BY <1>1, <1>3, <1>4, <1>5
--------------------------------------------------------------------------------
(***************************************************************************)
(* The rows a look-back reads.                                             *)
(***************************************************************************)
\* Rows are at different times, in order, and no more than a look-back reads.
Spread(rows) ==
    /\ Len(rows) <= heartbeat
    /\ \A i, j \in 1..Len(rows) : i < j => rows[i].time + (j - i) <= rows[j].time

\* new is a look-back's rows after row has been appended to rows.
Appended(rows, row, new) ==
    /\ new \in Seq(Row) /\ Len(new) > 0 /\ new[Len(new)] = row
    /\ Spread(new)
    /\ \A j \in 1..Len(new) : new[j].time <= row.time
    /\ \A i \in 1..Len(rows) : rows[i].time + heartbeat > row.time =>
         \E j \in 1..Len(new) : new[j] = rows[i]

LEMMA RowAppended ==
    ASSUME NEW rows \in Seq(Row), NEW row \in Row, heartbeat \in Nat \ {0}, Spread(rows),
           \A i \in 1..Len(rows) : rows[i].time < row.time
    PROVE  Appended(rows, row, KeepRecent(Append(rows, row)))
<1> DEFINE n == Len(rows)
           all == Append(rows, row)
           new == KeepRecent(all)
<1>1. /\ n \in Nat /\ n <= heartbeat
      /\ \A i \in 1..n : rows[i].time \in Nat
      /\ row.time \in Nat
  <2>1. n \in Nat /\ n <= heartbeat
    BY LenProperties DEF Spread
  <2>2. ASSUME NEW i \in 1..n PROVE rows[i].time \in Nat
    <3>1. rows[i] \in Row
      BY <2>2, ElementOfSeq
    <3> QED
      BY <3>1 DEF Row
  <2>3. row.time \in Nat
    BY DEF Row
  <2> QED
    BY <2>1, <2>2, <2>3
<1>2. /\ all \in Seq(Row) /\ Len(all) = n + 1 /\ all[n + 1] = row
      /\ \A i \in 1..n : all[i] = rows[i]
  BY AppendProperties
<1>3. \A i, j \in 1..(n + 1) : i < j => all[i].time + (j - i) <= all[j].time
  <2>1. ASSUME NEW i \in 1..n PROVE rows[i].time + (n + 1 - i) <= row.time
    <3>1. rows[i].time + (n - i) <= rows[n].time
      BY <1>1, i < n \/ i = n DEF Spread
    <3>2. rows[n].time < row.time
      BY <1>1
    <3> QED
      BY <3>1, <3>2, <1>1
  <2> QED
    BY <2>1, <1>1, <1>2 DEF Spread
<1>4. CASE n < heartbeat
  <2>1. new = all
    BY <1>1, <1>2, <1>4 DEF KeepRecent
  <2>2. \A j \in 1..(n + 1) : all[j].time <= row.time
    BY <1>1, <1>2
  <2>3. Spread(all)
    <3>1. Len(all) = n + 1 /\ Len(all) <= heartbeat
      BY <1>1, <1>2, <1>4
    <3>2. \A i, j \in 1..Len(all) : i < j => all[i].time + (j - i) <= all[j].time
      BY <3>1, <1>3
    <3> HIDE DEF all
    <3> QED
      BY <3>1, <3>2 DEF Spread
  <2>4. \A i \in 1..n : i \in 1..(n + 1) /\ all[i] = rows[i]
    BY <1>1, <1>2
  <2>5. Appended(rows, row, all)
    <3> HIDE DEF all
    <3> QED
      BY <2>2, <2>3, <2>4, <1>1, <1>2 DEF Appended
  <2> QED
    BY <2>1, <2>5
<1>5. CASE n = heartbeat
  <2>1. new = Tail(all) /\ all # <<>>
    BY <1>1, <1>2, <1>5, EmptySeq DEF KeepRecent
  <2>2. new \in Seq(Row) /\ Len(new) = n /\ \A j \in 1..n : new[j] = all[j + 1]
    BY <2>1, <1>1, <1>2, HeadTailProperties
  <2> HIDE DEF all, new
  <2>3. new[n] = row /\ n > 0
    BY <2>2, <1>1, <1>2, <1>5
  <2>4. Spread(new)
    <3>1. ASSUME NEW i \in 1..n, NEW j \in 1..n, i < j
          PROVE  new[i].time + (j - i) <= new[j].time
      <4>1. i + 1 \in 1..(n + 1) /\ j + 1 \in 1..(n + 1) /\ i + 1 < j + 1
        BY <3>1, <1>1
      <4>2. all[i + 1].time + ((j + 1) - (i + 1)) <= all[j + 1].time
        BY <4>1, <1>3
      <4>3. (j + 1) - (i + 1) = j - i
        BY <1>1
      <4> QED
        BY <4>2, <4>3, <2>2
    <3> QED
      BY <3>1, <2>2, <1>1, <1>5 DEF Spread
  <2>5. \A j \in 1..n : new[j].time <= row.time
    BY <2>2, <1>1, <1>2
  <2>6. ASSUME NEW i \in 1..n, rows[i].time + heartbeat > row.time
        PROVE  \E j \in 1..n : new[j] = rows[i]
    <3>1. i # 1
      BY <2>6, <1>1, <1>2, <1>3, <1>5
    <3>2. i - 1 \in 1..n /\ new[i - 1] = all[i]
      BY <3>1, <2>2, <1>1
    <3> QED
      BY <3>2, <1>2
  <2>7. Appended(rows, row, new)
    BY <2>2, <2>3, <2>4, <2>5, <2>6 DEF Appended
  <2> QED
    BY <2>7 DEF new, all
<1> QED
  BY <1>1, <1>4, <1>5
--------------------------------------------------------------------------------
(***************************************************************************)
(* The inductive invariant.                                                *)
(***************************************************************************)
\* With a heartbeat above 1 a ledger holds one staging of a collectable.
Single(entry) == heartbeat # 1 => \A c \in Cid : Len(entry.staged[c]) <= 1

LedgerInv ==
    /\ Len(ledger) <= 1
    /\ \A k \in 1..Len(ledger) : Single(ledger[k])
    /\ \A k \in 1..Len(inbox) : Single(inbox[k])

\* Every row of recent is older than t.
RowsBefore(t) ==
    \A filter \in SUBSET Clock :
        \A r \in 1..Len(recent[filter]) : recent[filter][r].time < t

\* Rows, sealed ledgers, the open ledger and the simulation are one after the other.
OrderInv ==
    /\ \A i, j \in 1..Len(inbox) : i < j => inbox[i].time < inbox[j].time
    /\ \A i \in 1..Len(inbox) : RowsBefore(inbox[i].time)
    /\ \A k \in 1..Len(ledger) :
         /\ ledger[k].time <= time
         /\ \A i \in 1..Len(inbox) : inbox[i].time < ledger[k].time
         /\ RowsBefore(ledger[k].time)
    /\ ledger = <<>> /\ ~tornDown =>
         inbox = <<>> /\ \A filter \in SUBSET Clock : recent[filter] = <<>>

SpreadInv == \A filter \in SUBSET Clock : Spread(recent[filter])

\* What was collected is in the chain.
ChainInv ==
    \A c \in Cid : Coherent(ckpt[c]) /\ (truth[c] # None => HasData(ckpt[c].chain))

LastTime(rows) == rows[Len(rows)].time

\* A FULL that was sent within the last heartbeat is in a row the look-back reads.
Reaches(c, ck, rows) ==
    ck.lastFull # NoTime =>
        /\ rows # <<>>
        /\ Fresh(ck, LastTime(rows)) => \E i \in 1..Len(rows) : HasFull(rows[i].wires[c])
                                         /\ rows[i].time = ck.lastFull

SnapshotInv == \A c \in Cid : Reaches(c, ckpt[c], OwnRows(c))

\* A row that speaks for a collectable finds its last FULL within a heartbeat.
FreshInv ==
    \A c \in Cid : SpeaksFor(c) /\ truth[c] # None => Fresh(ckpt[c], LastTime(OwnRows(c)))

Inv ==
    /\ TypeOK /\ LedgerInv /\ OrderInv /\ SpreadInv
    /\ ChainInv /\ SnapshotInv /\ FreshInv

LEMMA SeqFacts ==
    ASSUME NEW S, NEW seq \in Seq(S)
    PROVE  /\ Len(seq) \in Nat
           /\ seq # <<>> <=> Len(seq) > 0
           /\ \A i \in 1..Len(seq) : seq[i] \in S
  BY LenProperties, EmptySeq, ElementOfSeq

LEMMA SetupType ==
    ASSUME setup \in Setups
    PROVE  /\ heartbeat \in Nat \ {0}
           /\ heartbeat = 1 \/ MaxPerWindow[heartbeat] = 1
           /\ \A c \in Cid : setup.clockOf[c] \in Clock /\ OwnClock(c) \in SUBSET Clock
  BY ArgosAssumption DEF Setup, heartbeat, OwnClock

LEMMA InvInit == Init => Inv
<1> SUFFICES ASSUME Init PROVE Inv
  OBVIOUS
<1> USE DEF Init
<1>1. NewCheckpointer \in Checkpointer /\ NewCheckpointer.chain = <<>>
      /\ NewCheckpointer.lastFull = NoTime
  BY DEF NewCheckpointer, Checkpointer
<1>2. TypeOK
  BY <1>1, EmptySeq DEF TypeOK
<1>3. LedgerInv /\ OrderInv
  BY DEF LedgerInv, OrderInv, RowsBefore
<1>4. SpreadInv
  BY SetupType DEF SpreadInv, Spread
<1>5. ChainInv /\ SnapshotInv /\ FreshInv
  BY <1>1 DEF ChainInv, SnapshotInv, Reaches, FreshInv, Coherent, HasData
<1> QED
  BY <1>2, <1>3, <1>4, <1>5 DEF Inv

\* The ledgers that wait once the open one is sealed.
LEMMA Sealing ==
    ASSUME TypeOK, LedgerInv, OrderInv, NEW sealed, sealed = inbox \o ledger
    PROVE  /\ sealed \in Seq(Ledger)
           /\ \A i \in 1..Len(sealed) : Single(sealed[i]) /\ RowsBefore(sealed[i].time)
           /\ \A i, j \in 1..Len(sealed) : i < j => sealed[i].time < sealed[j].time
           /\ ~tornDown /\ TimeAdvanced => \A i \in 1..Len(sealed) : sealed[i].time < time
<1>1. /\ inbox \in Seq(Ledger) /\ Len(inbox) \in Nat
      /\ ledger \in Seq(Ledger) /\ Len(ledger) \in Nat
      /\ time \in Nat
  BY SeqFacts DEF TypeOK
<1>4. /\ \A i \in 1..Len(inbox) : inbox[i].time \in Nat
      /\ \A i \in 1..Len(ledger) : ledger[i].time \in Nat
  <2>1. \A e \in Ledger : e.time \in Nat
    BY DEF Ledger
  <2> QED
    BY <2>1, <1>1, SeqFacts
<1>2. CASE ledger = <<>>
  <2>1. sealed = inbox
    BY <1>1, <1>2, ConcatEmptySeq
  <2>2. ~tornDown => inbox = <<>> /\ Len(inbox) = 0
    BY <1>2, EmptySeq DEF OrderInv
  <2> QED
    BY <2>1, <2>2, <1>1 DEF LedgerInv, OrderInv
<1>3. CASE ledger # <<>>
  <2>1. Len(ledger) = 1
    <3>1. Len(ledger) > 0
      BY <1>1, <1>3, SeqFacts
    <3>2. Len(ledger) <= 1
      BY DEF LedgerInv
    <3>3. \A k \in Nat : k > 0 /\ k <= 1 => k = 1
      OBVIOUS
    <3> QED
      BY <3>1, <3>2, <3>3, <1>1
  <2>2. /\ sealed \in Seq(Ledger) /\ Len(sealed) = Len(inbox) + 1
        /\ sealed[Len(inbox) + 1] = ledger[1]
        /\ \A i \in 1..Len(inbox) : sealed[i] = inbox[i]
    <3>1. sealed \in Seq(Ledger)
      BY <1>1, ConcatProperties
    <3>2. /\ Len(inbox \o ledger) = Len(inbox) + Len(ledger)
          /\ (inbox \o ledger)[Len(inbox) + Len(ledger)] = ledger[Len(ledger)]
          /\ \A i \in 1..Len(inbox) : (inbox \o ledger)[i] = inbox[i]
      <4>1. Len(ledger) > 0
        BY <2>1
      <4> QED
        BY <4>1, <1>1, Join, Zenon
    <3> QED
      BY <3>1, <3>2, <2>1
  <2>3. \A i \in 1..Len(sealed) : i \in 1..Len(inbox) \/ i = Len(inbox) + 1
    BY <2>2, <1>1
  <2>4. ASSUME NEW i \in 1..Len(sealed)
        PROVE  Single(sealed[i]) /\ RowsBefore(sealed[i].time)
    BY <2>1, <2>2, <2>3 DEF LedgerInv, OrderInv
  <2>5. \A i \in 1..Len(inbox) : inbox[i].time < ledger[1].time
    BY <2>1 DEF OrderInv
  <2>6. ASSUME NEW i \in 1..Len(sealed), NEW j \in 1..Len(sealed), i < j
        PROVE  sealed[i].time < sealed[j].time
    <3>1. i \in 1..Len(inbox) /\ sealed[i] = inbox[i]
      BY <2>2, <2>6, <1>1
    <3>2. CASE j \in 1..Len(inbox)
      BY <3>1, <3>2, <2>2, <2>6 DEF OrderInv
    <3>3. CASE j = Len(inbox) + 1
      BY <3>1, <3>3, <2>2, <2>5
    <3> QED
      BY <2>3, <3>2, <3>3
  <2>7. ASSUME TimeAdvanced, NEW i \in 1..Len(sealed) PROVE sealed[i].time < time
    <3>1. ledger[1].time < time /\ ledger[1].time \in Nat
      BY <2>7, <2>1, <1>3, <1>4 DEF TimeAdvanced
    <3>2. i \in 1..Len(inbox) => inbox[i].time < time
      BY <3>1, <2>5, <1>1, <1>4
    <3> QED
      BY <3>1, <3>2, <2>2, <2>3
  <2> QED
    BY <2>2, <2>4, <2>6, <2>7
<1> QED
  BY <1>2, <1>3

--------------------------------------------------------------------------------
(***************************************************************************)
(* The simulation thread's steps.                                          *)
(***************************************************************************)
\* They leave alone what the stager's part of the invariant is about.
LEMMA StagerFrame ==
    ASSUME SpreadInv, ChainInv, SnapshotInv, FreshInv, UNCHANGED <<setup, stagerVars>>
    PROVE  SpreadInv' /\ ChainInv' /\ SnapshotInv' /\ FreshInv'
<1> USE DEF stagerVars, heartbeat
<1>1. SpreadInv'
  BY DEF SpreadInv, Spread
<1>2. ChainInv'
  BY DEF ChainInv, Coherent
<1>3. SnapshotInv'
  BY DEF SnapshotInv, Reaches, OwnRows, OwnClock, Fresh
<1>4. FreshInv'
  BY DEF FreshInv, SpeaksFor, multiClock, OwnRows, OwnClock, Fresh
<1> QED
  BY <1>1, <1>2, <1>3, <1>4

LEMMA LedgerTimes == \A e \in Ledger : e.time \in Nat
  BY DEF Ledger

LEMMA LedgerStages ==
    ASSUME NEW e \in Ledger, NEW f \in [Cid -> Seq(Value)], NEW new,
           new = [e EXCEPT !.staged = f]
    PROVE  new \in Ledger /\ new.time = e.time /\ new.staged = f
  BY DEF Ledger

LEMMA CurrentLedgerType ==
    ASSUME TypeOK, LedgerInv
    PROVE  CurrentLedger \in Ledger /\ Single(CurrentLedger)
<1>1. CASE TimeAdvanced
  <2>1. \A c \in Cid : Len(<<>>) <= 1 /\ <<>> \in Seq(Value)
    BY EmptySeq
  <2>2. CurrentLedger = [time |-> time, window |-> windowId,
                         staged |-> [c \in Cid |-> <<>>], closing |-> {}]
    BY <1>1 DEF CurrentLedger
  <2> QED
    BY <2>1, <2>2 DEF Ledger, Single, TypeOK
<1>2. CASE ~TimeAdvanced
  <2>1. ledger \in Seq(Ledger) /\ ledger # <<>> /\ CurrentLedger = ledger[1]
    BY <1>2 DEF TypeOK, TimeAdvanced, CurrentLedger
  <2>2. 1 \in 1..Len(ledger)
    BY <2>1, SeqFacts
  <2> QED
    BY <2>1, <2>2, SeqFacts DEF LedgerInv
<1> QED
  BY <1>1, <1>2

LEMMA RecordKeeps ==
    ASSUME TypeOK, LedgerInv, OrderInv, ~tornDown, NEW new \in Ledger, Single(new),
           new.time = CurrentLedger.time, Record(new),
           UNCHANGED <<setup, time, tornDown, recent>>
    PROVE  /\ ledger' \in Seq(Ledger) /\ inbox' \in Seq(Ledger) /\ windowId' \in Nat
           /\ LedgerInv' /\ OrderInv'
<1>1. /\ ledger' = <<new>> /\ ledger' \in Seq(Ledger) /\ ledger' # <<>>
      /\ Len(ledger') = 1 /\ ledger'[1] = new
  BY DEF Record
<1>2. \A t : RowsBefore(t)' <=> RowsBefore(t)
  BY DEF RowsBefore
<1>3. \A e : Single(e)' <=> Single(e)
  BY DEF Single, heartbeat
<1>4. CASE TimeAdvanced
  <2>1. inbox' = inbox \o ledger /\ windowId' \in Nat
    BY <1>4 DEF Record, TypeOK
  <2>2. /\ inbox' \in Seq(Ledger)
        /\ \A i \in 1..Len(inbox') : Single(inbox'[i]) /\ RowsBefore(inbox'[i].time)
        /\ \A i, j \in 1..Len(inbox') : i < j => inbox'[i].time < inbox'[j].time
        /\ \A i \in 1..Len(inbox') : inbox'[i].time < time
    BY <2>1, <1>4, Sealing
  <2>3. new.time = time /\ time \in Nat
    BY <1>4 DEF CurrentLedger, TypeOK
  <2>4. RowsBefore(time)
    <3>1. CASE ledger = <<>>
      BY <3>1, EmptySeq DEF OrderInv, RowsBefore
    <3>2. CASE ledger # <<>>
      <4>1. ledger \in Seq(Ledger) /\ 1 \in 1..Len(ledger)
        BY <3>2, SeqFacts DEF TypeOK
      <4>2. RowsBefore(ledger[1].time) /\ ledger[1].time < time
        BY <4>1, <1>4, <3>2 DEF OrderInv, TimeAdvanced
      <4>3. ledger[1].time \in Nat
        BY <4>1, SeqFacts, LedgerTimes
      <4>4. ASSUME NEW filter \in SUBSET Clock, NEW r \in 1..Len(recent[filter])
            PROVE  recent[filter][r].time < time
        <5>1. recent[filter][r] \in Row
          BY SeqFacts DEF TypeOK
        <5>2. recent[filter][r].time < ledger[1].time /\ recent[filter][r].time \in Nat
          BY <5>1, <4>2 DEF RowsBefore, Row
        <5> QED
          BY <5>2, <4>2, <4>3, <2>3
      <4> QED
        BY <4>4 DEF RowsBefore
    <3> QED
      BY <3>1, <3>2
  <2>5. LedgerInv'
    BY <2>2, <1>1, <1>3 DEF LedgerInv
  <2>6. OrderInv'
    BY <2>2, <2>3, <2>4, <1>1, <1>2 DEF OrderInv
  <2> QED
    BY <2>1, <2>2, <2>5, <2>6, <1>1
<1>5. CASE ~TimeAdvanced
  <2>1. inbox' = inbox /\ windowId' = windowId
    BY <1>5 DEF Record
  <2>2. ledger \in Seq(Ledger) /\ ledger # <<>> /\ new.time = ledger[1].time
    BY <1>5 DEF TypeOK, TimeAdvanced, CurrentLedger
  <2>3. 1 \in 1..Len(ledger)
    BY <2>2, SeqFacts
  <2>4. LedgerInv'
    BY <2>1, <1>1, <1>3 DEF LedgerInv
  <2>5. OrderInv'
    BY <2>1, <2>2, <2>3, <1>1, <1>2 DEF OrderInv
  <2> QED
    BY <2>1, <2>4, <2>5, <1>1 DEF TypeOK
<1> QED
  BY <1>4, <1>5

LEMMA InvAdvance == Inv /\ Advance => Inv'
<1> SUFFICES ASSUME Inv, Advance PROVE Inv'
  OBVIOUS
<1> USE DEF Advance, stagerVars
<1>1. TypeOK'
  BY DEF Inv, TypeOK
<1>2. LedgerInv'
  BY DEF Inv, LedgerInv, Single, heartbeat
<1>3. OrderInv'
  <2>1. \A t : RowsBefore(t)' <=> RowsBefore(t)
    BY DEF RowsBefore
  <2>2. \A k \in 1..Len(ledger) : ledger[k].time <= time'
    <3>1. \A k \in 1..Len(ledger) : ledger[k].time \in Nat
      BY SeqFacts, LedgerTimes DEF Inv, TypeOK
    <3> QED
      BY <3>1 DEF Inv, TypeOK, OrderInv
  <2> QED
    BY <2>1, <2>2 DEF Inv, OrderInv
<1> QED
  BY <1>1, <1>2, <1>3, StagerFrame DEF Inv

LEMMA InvSetValueBytes ==
    ASSUME Inv, NEW c \in Cid, NEW v \in Takes[c], SetValueBytes(c, v)
    PROVE  Inv'
<1> DEFINE old == CurrentLedger
           f == Stage(old.staged, c, v)
           new == [old EXCEPT !.staged = Stage(@, c, v)]
<1>1. /\ ~tornDown /\ Len(old.staged[c]) < MaxPerWindow[heartbeat] /\ Record(new)
      /\ closed' = [closed EXCEPT ![c] = FALSE]
      /\ UNCHANGED <<setup, time, tornDown, stagerVars>>
  BY DEF SetValueBytes
<1>2. old \in Ledger /\ Single(old)
  BY CurrentLedgerType DEF Inv
<1>3. v \in Value
  BY ArgosAssumption
<1>4. /\ old.staged \in [Cid -> Seq(Value)]
      /\ Append(old.staged[c], v) \in Seq(Value)
      /\ Len(Append(old.staged[c], v)) = Len(old.staged[c]) + 1
  <2>1. old.staged \in [Cid -> Seq(Value)]
    BY <1>2 DEF Ledger
  <2> QED
    BY <2>1, <1>3, AppendProperties
<1>5. /\ new = [old EXCEPT !.staged = f]
      /\ f \in [Cid -> Seq(Value)]
      /\ \A d \in Cid : f[d] = IF d = c THEN Append(old.staged[c], v) ELSE old.staged[d]
  <2>1. new = [old EXCEPT !.staged = f]
    OBVIOUS
  <2> HIDE DEF old, new
  <2>2. f \in [Cid -> Seq(Value)]
    BY <1>4 DEF Stage
  <2> QED
    BY <2>1, <2>2, <1>4 DEF Stage
<1> HIDE DEF old, f, new
<1>6. new \in Ledger /\ new.time = old.time /\ new.staged = f
  BY <1>2, <1>5, LedgerStages
<1>7. Single(new)
  <2>1. heartbeat # 1 => Len(old.staged[c]) < 1 /\ Len(old.staged[c]) \in Nat
    BY <1>1, <1>4, SetupType, SeqFacts DEF Inv, TypeOK
  <2>2. heartbeat # 1 => Len(Append(old.staged[c], v)) <= 1
    BY <2>1, <1>4
  <2> QED
    BY <2>2, <1>2, <1>5, <1>6 DEF Single
<1>8. /\ ledger' \in Seq(Ledger) /\ inbox' \in Seq(Ledger) /\ windowId' \in Nat
      /\ LedgerInv' /\ OrderInv'
  BY <1>1, <1>6, <1>7, RecordKeeps DEF Inv, stagerVars, old
<1>9. TypeOK'
  BY <1>1, <1>8 DEF Inv, TypeOK, stagerVars
<1> QED
  BY <1>1, <1>8, <1>9, StagerFrame DEF Inv

LEMMA InvCloseRecord ==
    ASSUME Inv, NEW c \in Cid, CloseRecord(c)
    PROVE  Inv'
<1> DEFINE old == CurrentLedger
           new == [old EXCEPT !.closing = @ \cup {c}]
<1>1. /\ ~tornDown /\ Record(new)
      /\ closed' = [closed EXCEPT ![c] = TRUE]
      /\ UNCHANGED <<setup, time, tornDown, stagerVars>>
  BY DEF CloseRecord
<1>2. old \in Ledger /\ Single(old)
  BY CurrentLedgerType DEF Inv
<1>3. new \in Ledger /\ new.time = old.time /\ new.staged = old.staged
  BY <1>2 DEF Ledger
<1>4. Single(new)
  BY <1>2, <1>3 DEF Single
<1> HIDE DEF new
<1>5. /\ ledger' \in Seq(Ledger) /\ inbox' \in Seq(Ledger) /\ windowId' \in Nat
      /\ LedgerInv' /\ OrderInv'
  BY <1>1, <1>3, <1>4, RecordKeeps DEF Inv, stagerVars
<1>6. TypeOK'
  BY <1>1, <1>5 DEF Inv, TypeOK, stagerVars
<1> QED
  BY <1>1, <1>5, <1>6, StagerFrame DEF Inv

LEMMA InvPreTeardown == Inv /\ PreTeardown => Inv'
<1> SUFFICES ASSUME Inv, PreTeardown PROVE Inv'
  OBVIOUS
<1>1. /\ tornDown' = TRUE /\ inbox' = inbox \o ledger /\ ledger' = <<>>
      /\ UNCHANGED <<setup, time, closed, windowId, stagerVars>>
  BY DEF PreTeardown
<1>2. /\ inbox' \in Seq(Ledger)
      /\ \A i \in 1..Len(inbox') : Single(inbox'[i]) /\ RowsBefore(inbox'[i].time)
      /\ \A i, j \in 1..Len(inbox') : i < j => inbox'[i].time < inbox'[j].time
  BY <1>1, Sealing DEF Inv
<1>3. /\ \A t : RowsBefore(t)' <=> RowsBefore(t)
      /\ \A e : Single(e)' <=> Single(e)
  BY <1>1 DEF RowsBefore, Single, heartbeat, stagerVars
<1>4. Len(ledger') = 0
  BY <1>1
<1>5. LedgerInv' /\ OrderInv'
  BY <1>1, <1>2, <1>3, <1>4 DEF LedgerInv, OrderInv
<1>6. TypeOK'
  BY <1>1, <1>2 DEF Inv, TypeOK, stagerVars
<1> QED
  BY <1>1, <1>5, <1>6, StagerFrame DEF Inv
--------------------------------------------------------------------------------
(***************************************************************************)
(* The stager takes a ledger.                                              *)
(***************************************************************************)
\* What createCheckpoint and closeRecord leave for encodeForPipeline.
LEMMA LoadedReady ==
    ASSUME Inv, NEW c \in Cid, NEW entry \in Ledger, Single(entry)
    PROVE  /\ Loaded(c, entry) \in Checkpointer
           /\ Loaded(c, entry).lastFull = ckpt[c].lastFull
           /\ Ready(Loaded(c, entry), entry.window)
           /\ Collected(c, truth[c], entry) \in Value \cup {Closed, None}
           /\ Collected(c, truth[c], entry) # None => HasData(Loaded(c, entry).chain)
           /\ ~Participated(Loaded(c, entry), entry.window) =>
                /\ Loaded(c, entry) = ckpt[c]
                /\ Collected(c, truth[c], entry) = truth[c]
<1> DEFINE ck == ckpt[c]
           chain == ck.chain
           staged == entry.staged[c]
           closes == c \in entry.closing
           new == Checkpoint(chain, entry.window, staged, closes)
           loaded == Loaded(c, entry)
           collected == Collected(c, truth[c], entry)
<1>1. /\ ck \in Checkpointer /\ Coherent(ck)
      /\ truth[c] \in Value \cup {Closed, None}
      /\ truth[c] # None => HasData(chain)
  BY DEF Inv, TypeOK, ChainInv
<1>2. chain \in Seq(Node) /\ Len(chain) \in Nat
  BY <1>1, SeqFacts DEF Checkpointer
<1>3. staged \in Seq(Value) /\ entry.window \in Nat /\ closes \in BOOLEAN
  BY DEF Ledger
<1>4. new \in Seq(Node)
  BY <1>2, <1>3, CheckpointType
<1>5. loaded = [ck EXCEPT !.chain = new]
  BY DEF Loaded
<1>6. collected = IF staged # <<>> THEN staged[Len(staged)]
                  ELSE IF closes /\ truth[c] # None THEN Closed ELSE truth[c]
  BY DEF Collected
<1>10. staged = <<>> =>
         /\ HasData(new) => HasData(chain)
         /\ HasData(chain) => HasData(new)
         /\ ~closes => new = chain
         /\ closes => Len(new) = Len(chain) + 1 /\ new[Len(new)].window = entry.window
  <2>1. SUFFICES ASSUME staged = <<>>
                 PROVE  \/ new = chain /\ ~closes
                        \/ /\ closes
                           /\ HasData(new) => HasData(chain)
                           /\ HasData(chain) => HasData(new)
                           /\ Len(new) = Len(chain) + 1
                           /\ new[Len(new)].window = entry.window
    OBVIOUS
  <2>2. CASE ~closes
    BY <2>1, <2>2 DEF Checkpoint
  <2>3. CASE closes
    <3>1. new = Append(chain, [window |-> entry.window, value |-> Closed])
      BY <2>1, <2>3 DEF Checkpoint
    <3> HIDE DEF new, chain
    <3>2. Len(new) = Len(chain) + 1 /\ new[Len(new)].window = entry.window
      BY <3>1, <1>2, <1>3, CloseAppended
    <3>3. (HasData(new) => HasData(chain)) /\ (HasData(chain) => HasData(new))
      <4>1. chain \in Seq(Node) /\ entry.window \in Nat
        BY <1>2, <1>3
      <4> QED
        BY <3>1, <4>1, CloseAddsNoData
    <3> QED
      BY <3>2, <3>3, <2>3
  <2> QED
    BY <2>2, <2>3
<1> HIDE DEF loaded, new, collected, staged, closes
<1>7. loaded \in Checkpointer /\ loaded.chain = new /\ loaded.lastFull = ck.lastFull
  BY <1>1, <1>4, <1>5 DEF Checkpointer
<1>8. CASE staged # <<>>
  <2>1. /\ Len(new) = Len(chain) + Len(staged) /\ Len(staged) > 0
        /\ IsData(new, Len(new)) /\ new[Len(new)].window = entry.window
        /\ \A i \in 1..Len(chain) : new[i] = chain[i]
    BY <1>2, <1>3, <1>8, CheckpointStaged DEF new
  <2>2. Len(staged) \in Nat /\ Len(new) \in 1..Len(new) /\ new # <<>>
    BY <2>1, <1>2, <1>3, <1>4, SeqFacts
  <2>3. HasData(new) /\ Participated(loaded, entry.window)
    BY <2>1, <2>2, <1>7 DEF HasData, Participated
  <2>4. heartbeat # 1 => Len(new) - 1 = Len(chain)
    <3>1. heartbeat # 1 => Len(staged) <= 1
      BY DEF Single, staged
    <3> QED
      BY <3>1, <2>1, <2>2, <1>2
  <2>5. ck.lastFull = NoTime => \A i \in 1..Len(chain) : ~IsData(chain, i)
    BY <1>1 DEF Coherent, HasData
  <2>6. Ready(loaded, entry.window)
    <3>1. ck.lastFull = NoTime /\ heartbeat # 1 =>
            \A i \in 1..(Len(new) - 1) : ~IsData(new, i)
      BY <2>1, <2>4, <2>5 DEF IsData
    <3> QED
      BY <3>1, <2>1, <2>3, <1>7 DEF Ready
  <2>7. collected \in Value
    <3>1. Len(staged) \in 1..Len(staged)
      BY <2>1, <2>2
    <3> QED
      BY <3>1, <1>3, <1>6, <1>8, SeqFacts
  <2> QED
    BY <2>3, <2>6, <2>7, <1>7 DEF loaded, collected
<1>9. CASE staged = <<>>
  <2>1. /\ HasData(new) => HasData(chain)
        /\ HasData(chain) => HasData(new)
        /\ ~closes => new = chain
        /\ closes => Len(new) = Len(chain) + 1 /\ new[Len(new)].window = entry.window
    BY <1>9, <1>10
  <2>2. Ready(loaded, entry.window)
    BY <2>1, <1>1, <1>7 DEF Ready, Coherent
  <2>3. closes => Participated(loaded, entry.window)
    <3>1. closes => new # <<>>
      BY <2>1, <1>2, <1>4, SeqFacts
    <3> QED
      BY <3>1, <2>1, <1>7 DEF Participated
  <2>4. ~closes => loaded = ck /\ collected = truth[c]
    <3>1. ASSUME ~closes PROVE loaded = ck
      <4>1. loaded = [ck EXCEPT !.chain = ck.chain]
        BY <3>1, <2>1, <1>5
      <4> QED
        BY <4>1, <1>1 DEF Checkpointer
    <3> QED
      BY <3>1, <1>6, <1>9
  <2>5. collected \in Value \cup {Closed, None} /\ (collected # None => truth[c] # None)
    BY <1>1, <1>6, <1>9
  <2> QED
    BY <2>1, <2>2, <2>3, <2>4, <2>5, <1>1, <1>7 DEF loaded, collected
<1> QED
  BY <1>8, <1>9

\* What the stager makes of one collectable.
LEMMA SendingKeeps ==
    ASSUME Inv, NEW c \in Cid, NEW entry \in Ledger, Single(entry)
    PROVE  LET out == Sending(c, entry)
               collected == Collected(c, truth[c], entry)
           IN  /\ out.ckpt \in Checkpointer /\ out.wires \in Seq(Wire)
               /\ Coherent(out.ckpt)
               /\ collected # None => HasData(out.ckpt.chain)
               /\ collected \in Value \cup {Closed, None}
               /\ \/ out.ckpt.lastFull = ckpt[c].lastFull
                  \/ out.ckpt.lastFull = entry.time /\ HasFull(out.wires)
               /\ out.wires = <<>> => out.ckpt = ckpt[c] /\ collected = truth[c]
               /\ collected # None /\ (~multiClock \/ out.wires # <<>>) =>
                    Fresh(out.ckpt, entry.time)
<1> DEFINE ck == Loaded(c, entry)
           out == Sending(c, entry)
           collected == Collected(c, truth[c], entry)
<1>1. entry.time \in Nat /\ entry.window \in Nat
  BY DEF Ledger
<1>2. heartbeat \in Nat \ {0}
  BY SetupType DEF Inv, TypeOK
<1>3. /\ ck \in Checkpointer /\ ck.lastFull = ckpt[c].lastFull
      /\ Ready(ck, entry.window)
      /\ collected \in Value \cup {Closed, None}
      /\ collected # None => HasData(ck.chain)
      /\ ~Participated(ck, entry.window) => ck = ckpt[c] /\ collected = truth[c]
  BY LoadedReady
<1> HIDE DEF ck
<1>4. out = Encode(c, ck, entry.window, entry.time)
  BY DEF Sending, ck
<1>5. /\ Emitted(ck, entry.time, out)
      /\ out.wires = <<>> => out.ckpt = ck
      /\ Participated(ck, entry.window) => out.wires # <<>>
      /\ HasData(ck.chain) /\ (~multiClock \/ out.wires # <<>>) =>
           Fresh(out.ckpt, entry.time)
  BY <1>1, <1>2, <1>3, <1>4, EncodeSends
<1> HIDE DEF out, collected
<1>6. collected # None => HasData(out.ckpt.chain)
  <2>1. CASE out.wires = <<>>
    BY <2>1, <1>3, <1>5
  <2>2. CASE out.wires # <<>>
    BY <2>2, <1>3, <1>5 DEF Fresh, Emitted, Coherent
  <2> QED
    BY <2>1, <2>2
<1> QED
  BY <1>3, <1>5, <1>6 DEF Emitted, out, collected

LEMMA RowType ==
    ASSUME Inv, NEW entry \in Ledger, Single(entry)
    PROVE  /\ NewRow(entry) \in Row /\ NewRow(entry).time = entry.time
           /\ \A c \in Cid : NewRow(entry).wires[c] = Sending(c, entry).wires
           /\ \A c \in Cid : NewRow(entry).clocks \cap OwnClock(c) = {} =>
                                Sending(c, entry).wires = <<>>
<1> DEFINE own == {setup.clockOf[c] : c \in {d \in Cid : Sending(d, entry).wires # <<>>}}
           wires == [c \in Cid |-> Sending(c, entry).wires]
<1>1. NewRow(entry) = [time |-> entry.time, clocks |-> own, wires |-> wires]
  BY DEF NewRow
<1>2. own \in SUBSET Clock
  BY SetupType DEF Inv, TypeOK
<1>3. wires \in [Cid -> Seq(Wire)]
  BY SendingKeeps
<1>4. entry.time \in Nat
  BY LedgerTimes
<1>5. ASSUME NEW c \in Cid, own \cap OwnClock(c) = {}
      PROVE  Sending(c, entry).wires = <<>>
  BY <1>5 DEF OwnClock
<1>6. \A c \in Cid : wires[c] = Sending(c, entry).wires
  OBVIOUS
<1> HIDE DEF own, wires
<1> QED
  BY <1>1, <1>2, <1>3, <1>4, <1>5, <1>6 DEF Row

\* The row of a look-back that holds the last FULL is still read after another row, or
\* the other row has a FULL of its own.
LEMMA ReachesAgain ==
    ASSUME NEW c \in Cid, NEW ck \in Checkpointer, NEW ck2 \in Checkpointer,
           NEW rows \in Seq(Row), NEW row \in Row, NEW new,
           heartbeat \in Nat \ {0}, Reaches(c, ck, rows), Appended(rows, row, new),
           \A i \in 1..Len(rows) : rows[i].time < row.time,
           \/ ck2.lastFull = ck.lastFull
           \/ ck2.lastFull = row.time /\ HasFull(row.wires[c])
    PROVE  Reaches(c, ck2, new)
<1>1. new \in Seq(Row) /\ Len(new) \in 1..Len(new) /\ new # <<>> /\ LastTime(new) = row.time
  BY SeqFacts DEF Appended, LastTime
<1>2. new[Len(new)] = row
  BY DEF Appended
<1>3. CASE ck2.lastFull = row.time /\ HasFull(row.wires[c])
  BY <1>1, <1>2, <1>3 DEF Reaches
<1>4. CASE ck2.lastFull = ck.lastFull
  <2> SUFFICES ASSUME ck.lastFull # NoTime, Fresh(ck2, row.time)
               PROVE  \E j \in 1..Len(new) : HasFull(new[j].wires[c])
                                               /\ new[j].time = ck2.lastFull
    BY <1>1, <1>4 DEF Reaches
  <2>1. ck.lastFull \in Nat /\ ck.lastFull + heartbeat > row.time
    BY <1>4 DEF Fresh, Checkpointer
  <2>2. rows # <<>> /\ Len(rows) \in 1..Len(rows)
    BY SeqFacts DEF Reaches
  <2>3. LastTime(rows) < row.time /\ LastTime(rows) \in Nat /\ row.time \in Nat
    <3>1. rows[Len(rows)] \in Row
      BY <2>2, SeqFacts
    <3> QED
      BY <3>1, <2>2 DEF LastTime, Row
  <2>4. Fresh(ck, LastTime(rows))
    BY <2>1, <2>3 DEF Fresh, NoTime
  <2>5. PICK i \in 1..Len(rows) : HasFull(rows[i].wires[c]) /\ rows[i].time = ck.lastFull
    BY <2>4 DEF Reaches
  <2>6. PICK j \in 1..Len(new) : new[j] = rows[i]
    BY <2>1, <2>5 DEF Appended
  <2> QED
    BY <2>5, <2>6, <1>4
<1> QED
  BY <1>3, <1>4

LEMMA InvStagerRuns == Inv /\ StagerRuns => Inv'
<1> SUFFICES ASSUME Inv, StagerRuns PROVE Inv'
  OBVIOUS
<1> DEFINE entry == inbox[1]
           row == NewRow(entry)
           Out(c) == Sending(c, entry)
           rows2(filter) == IF row.clocks \cap filter = {} THEN recent[filter]
                            ELSE KeepRecent(Append(recent[filter], row))
<1>1. /\ inbox # <<>>
      /\ ckpt' = [c \in Cid |-> Out(c).ckpt]
      /\ recent' = [filter \in SUBSET Clock |-> rows2(filter)]
      /\ truth' = [c \in Cid |-> Collected(c, truth[c], entry)]
      /\ inbox' = Tail(inbox)
      /\ UNCHANGED <<setup, time, closed, ledger, windowId, tornDown>>
  BY DEF StagerRuns, simVars
<1>2. /\ inbox \in Seq(Ledger) /\ Len(inbox) \in Nat /\ 1 \in 1..Len(inbox)
      /\ recent \in [SUBSET Clock -> Seq(Row)]
      /\ heartbeat \in Nat \ {0}
      /\ \A c \in Cid : OwnClock(c) \in SUBSET Clock
      /\ \A c \in Cid : ckpt[c] \in Checkpointer
  BY <1>1, SeqFacts, SetupType DEF Inv, TypeOK
<1>3. entry \in Ledger /\ Single(entry) /\ entry.time \in Nat /\ RowsBefore(entry.time)
  BY <1>2, SeqFacts, LedgerTimes DEF Inv, LedgerInv, OrderInv
<1>4. /\ inbox' \in Seq(Ledger) /\ Len(inbox') = Len(inbox) - 1
      /\ \A i \in 1..Len(inbox') : i + 1 \in 1..Len(inbox) /\ inbox'[i] = inbox[i + 1]
  BY <1>1, <1>2, HeadTailProperties
<1> HIDE DEF entry
<1>5. /\ row \in Row /\ row.time = entry.time
      /\ \A c \in Cid : row.wires[c] = Out(c).wires
      /\ \A c \in Cid : row.clocks \cap OwnClock(c) = {} => Out(c).wires = <<>>
  BY <1>3, RowType
<1> HIDE DEF row
<1>6. ASSUME NEW c \in Cid
      PROVE  /\ Out(c).ckpt \in Checkpointer
             /\ Coherent(Out(c).ckpt)
             /\ truth'[c] # None => HasData(Out(c).ckpt.chain)
             /\ truth'[c] \in Value \cup {Closed, None}
             /\ \/ Out(c).ckpt.lastFull = ckpt[c].lastFull
                \/ Out(c).ckpt.lastFull = entry.time /\ HasFull(Out(c).wires)
             /\ Out(c).wires = <<>> => Out(c).ckpt = ckpt[c] /\ truth'[c] = truth[c]
             /\ truth'[c] # None /\ (~multiClock \/ Out(c).wires # <<>>) =>
                  Fresh(Out(c).ckpt, entry.time)
             /\ ckpt'[c] = Out(c).ckpt
  <2>1. truth'[c] = Collected(c, truth[c], entry)
    BY <1>1
  <2>2. ckpt'[c] = Out(c).ckpt
    BY <1>1
  <2> QED
    BY <2>1, <2>2, <1>3, SendingKeeps
<1> HIDE DEF Out
<1>7. ASSUME NEW filter \in SUBSET Clock
      PROVE  /\ recent'[filter] \in Seq(Row)
             /\ Spread(recent'[filter])
             /\ row.clocks \cap filter = {} => recent'[filter] = recent[filter]
             /\ row.clocks \cap filter # {} =>
                  Appended(recent[filter], row, recent'[filter])
             /\ \A i \in 1..Len(recent'[filter]) : recent'[filter][i].time <= entry.time
  <2>1. recent'[filter] = rows2(filter)
    BY <1>1
  <2>2. recent[filter] \in Seq(Row) /\ Spread(recent[filter])
    BY <1>2 DEF Inv, SpreadInv
  <2>3. \A i \in 1..Len(recent[filter]) : recent[filter][i].time < entry.time
    BY <1>3 DEF RowsBefore
  <2>4. \A i \in 1..Len(recent[filter]) : recent[filter][i].time \in Nat
    <3>1. \A r \in Row : r.time \in Nat
      BY DEF Row
    <3> QED
      BY <3>1, <2>2, SeqFacts
  <2>5. CASE row.clocks \cap filter = {}
    BY <2>1, <2>2, <2>3, <2>4, <2>5, <1>3
  <2>6. CASE row.clocks \cap filter # {}
    <3>1. recent'[filter] = KeepRecent(Append(recent[filter], row))
      BY <2>1, <2>6
    <3>2. Appended(recent[filter], row, recent'[filter])
      BY <3>1, <2>2, <2>3, <1>2, <1>5, RowAppended
    <3> QED
      BY <3>2, <2>6, <1>5 DEF Appended
  <2> QED
    BY <2>5, <2>6
<1>8. TypeOK'
  <2>1. ckpt' \in [Cid -> Checkpointer]
    BY <1>1, <1>6
  <2>2. truth' \in [Cid -> Value \cup {Closed, None}]
    BY <1>1, <1>6
  <2>3. recent' \in [SUBSET Clock -> Seq(Row)]
    BY <1>1, <1>7
  <2> QED
    BY <2>1, <2>2, <2>3, <1>1, <1>4 DEF Inv, TypeOK
<1>9. LedgerInv'
  <2>1. \A e : Single(e)' <=> Single(e)
    BY <1>1 DEF Single, heartbeat
  <2> QED
    BY <2>1, <1>1, <1>4 DEF Inv, LedgerInv
<1>10. OrderInv'
  <2>1. ASSUME NEW t \in Nat, entry.time < t,
               NEW filter \in SUBSET Clock, NEW r \in 1..Len(recent'[filter])
        PROVE  recent'[filter][r].time < t
    <3>1. recent'[filter][r] \in Row
      BY <1>7, SeqFacts
    <3> QED
      BY <3>1, <1>3, <1>7, <2>1 DEF Row
  <2>2. ASSUME NEW i \in 1..Len(inbox')
        PROVE  entry.time < inbox'[i].time /\ inbox'[i].time \in Nat
    <3>1. i + 1 \in 1..Len(inbox) /\ 1 < i + 1
      BY <1>4
    <3>2. entry.time < inbox[i + 1].time /\ inbox[i + 1].time \in Nat
      BY <3>1, <1>2, SeqFacts, LedgerTimes DEF Inv, OrderInv, entry
    <3> QED
      BY <3>2, <1>4
  <2>3. ASSUME NEW k \in 1..Len(ledger)
        PROVE  /\ entry.time < ledger[k].time /\ ledger[k].time \in Nat
               /\ ledger[k].time <= time
               /\ \A i \in 1..Len(inbox) : inbox[i].time < ledger[k].time
    BY <1>2, SeqFacts, LedgerTimes DEF Inv, TypeOK, OrderInv, entry
  <2>4. ASSUME NEW i \in 1..Len(inbox'), NEW j \in 1..Len(inbox'), i < j
        PROVE  inbox'[i].time < inbox'[j].time
    <3>1. /\ i + 1 \in 1..Len(inbox) /\ j + 1 \in 1..Len(inbox) /\ i + 1 < j + 1
          /\ inbox'[i] = inbox[i + 1] /\ inbox'[j] = inbox[j + 1]
      BY <1>4, <2>4
    <3> QED
      BY <3>1 DEF Inv, OrderInv
  <2>5. \A k \in 1..Len(ledger) : \A i \in 1..Len(inbox') : inbox'[i].time < ledger[k].time
    BY <2>3, <1>4
  <2>6. ~(ledger = <<>> /\ ~tornDown)
    BY <1>1 DEF Inv, OrderInv
  <2> QED
    BY <2>1, <2>2, <2>3, <2>4, <2>5, <2>6, <1>1 DEF OrderInv, RowsBefore
<1>11. SpreadInv'
  BY <1>1, <1>7 DEF SpreadInv, Spread, heartbeat
<1>12. ChainInv'
  <2>1. \A ck : Coherent(ck)' <=> Coherent(ck)
    BY DEF Coherent
  <2> QED
    BY <2>1, <1>6 DEF ChainInv
<1>13. ASSUME NEW c \in Cid
       PROVE  /\ OwnClock(c)' = OwnClock(c)
              /\ OwnRows(c) = recent[OwnClock(c)] /\ OwnRows(c)' = recent'[OwnClock(c)]
  BY <1>1 DEF OwnRows, OwnClock
<1>14. SnapshotInv'
  <2>1. ASSUME NEW c \in Cid PROVE Reaches(c, Out(c).ckpt, OwnRows(c)')
    <3>1. Reaches(c, ckpt[c], OwnRows(c))
      BY DEF Inv, SnapshotInv
    <3>2. CASE row.clocks \cap OwnClock(c) = {}
      <4>1. OwnRows(c)' = OwnRows(c) /\ Out(c).ckpt = ckpt[c]
        BY <3>2, <1>2, <1>5, <1>6, <1>7, <1>13
      <4> QED
        BY <4>1, <3>1
    <3>3. CASE row.clocks \cap OwnClock(c) # {}
      <4>1. Appended(OwnRows(c), row, OwnRows(c)') /\ OwnRows(c) \in Seq(Row)
        BY <3>3, <1>2, <1>7, <1>13
      <4>2. \A i \in 1..Len(OwnRows(c)) : OwnRows(c)[i].time < row.time
        BY <1>2, <1>3, <1>5, <1>13 DEF RowsBefore
      <4>3. \/ Out(c).ckpt.lastFull = ckpt[c].lastFull
            \/ Out(c).ckpt.lastFull = row.time /\ HasFull(row.wires[c])
        BY <1>5, <1>6
      <4> QED
        BY <4>1, <4>2, <4>3, <3>1, <1>2, <1>5, <1>6, ReachesAgain
    <3> QED
      BY <3>2, <3>3
  <2>2. \A c, ck, rows : Reaches(c, ck, rows)' <=> Reaches(c, ck, rows)
    BY <1>1 DEF Reaches, Fresh, heartbeat
  <2> QED
    BY <2>1, <2>2, <1>6 DEF SnapshotInv
<1>15. FreshInv'
  <2>1. SUFFICES ASSUME NEW c \in Cid, SpeaksFor(c)', truth'[c] # None
                 PROVE  Fresh(Out(c).ckpt, LastTime(OwnRows(c)'))
    BY <1>1, <1>6 DEF FreshInv, Fresh, heartbeat
  <2>2. CASE row.clocks \cap OwnClock(c) = {}
    <3>1. OwnRows(c)' = OwnRows(c) /\ Out(c).ckpt = ckpt[c] /\ truth'[c] = truth[c]
      BY <2>2, <1>2, <1>5, <1>6, <1>7, <1>13
    <3>2. SpeaksFor(c)
      BY <3>1, <2>1, <1>1 DEF SpeaksFor, multiClock
    <3> QED
      BY <3>1, <3>2, <2>1 DEF Inv, FreshInv
  <2>3. CASE row.clocks \cap OwnClock(c) # {}
    <3>1. OwnRows(c)'[Len(OwnRows(c)')] = row
      BY <2>3, <1>2, <1>7, <1>13 DEF Appended
    <3>2. ~multiClock \/ Out(c).wires # <<>>
      BY <3>1, <2>1, <1>1, <1>5 DEF SpeaksFor, multiClock
    <3> QED
      BY <3>1, <3>2, <2>1, <1>5, <1>6 DEF LastTime
  <2> QED
    BY <2>2, <2>3
<1> QED
  BY <1>8, <1>9, <1>10, <1>11, <1>12, <1>14, <1>15 DEF Inv
--------------------------------------------------------------------------------
(***************************************************************************)
(* The theorems.                                                           *)
(***************************************************************************)
LEMMA InvNext == Inv /\ [Next]_vars => Inv'
<1> SUFFICES ASSUME Inv, [Next]_vars PROVE Inv'
  OBVIOUS
<1>1. ASSUME NEW c \in Cid, CloseRecord(c) PROVE Inv'
  BY <1>1, InvCloseRecord
<1>2. ASSUME NEW c \in Cid, NEW v \in Takes[c], SetValueBytes(c, v) PROVE Inv'
  BY <1>2, InvSetValueBytes
<1>3. CASE UNCHANGED vars
  <2>1. /\ UNCHANGED <<setup, stagerVars>>
        /\ UNCHANGED <<time, closed, ledger, windowId, tornDown, inbox, ckpt, recent, truth>>
    BY <1>3 DEF vars, simVars, stagerVars
  <2>2. TypeOK' /\ LedgerInv' /\ OrderInv'
    BY <2>1 DEF Inv, TypeOK, LedgerInv, Single, heartbeat, OrderInv, RowsBefore
  <2> QED
    BY <2>1, <2>2, StagerFrame DEF Inv
<1> QED
  BY <1>1, <1>2, <1>3, InvAdvance, InvPreTeardown, InvStagerRuns DEF Next

\* Every variable keeps its type: in particular the counters of the checkpointers do.
THEOREM TypeCorrect == Spec => []TypeOK
<1>1. Inv => TypeOK
  BY DEF Inv
<1> QED
  BY <1>1, InvInit, InvNext, PTL DEF Spec

\* The look-back always reaches a snapshot: what was collected is sent in full at least
\* once in every window of heartbeat times whose last row speaks for it, and the rows
\* of such a window are never more than the viewer reads.
THEOREM LookBackAnchored == Spec => []Anchored
<1>1. Inv => Anchored
  <2> SUFFICES ASSUME Inv, NEW c \in Cid, SpeaksFor(c), truth[c] # None
               PROVE  \E i \in DOMAIN OwnRows(c) : \E j \in DOMAIN OwnRows(c)[i].wires[c] :
                        OwnRows(c)[i].wires[c][j].action = "FULL"
    BY DEF Anchored
  <2>1. Fresh(ckpt[c], LastTime(OwnRows(c)))
    BY DEF Inv, FreshInv
  <2>2. PICK i \in 1..Len(OwnRows(c)) : HasFull(OwnRows(c)[i].wires[c])
    BY <2>1 DEF Inv, SnapshotInv, Reaches, Fresh
  <2>3. DOMAIN OwnRows(c) = 1..Len(OwnRows(c))
    <3>1. OwnRows(c) \in Seq(Row)
      BY SetupType DEF Inv, TypeOK, OwnRows
    <3> QED
      BY <3>1, LenProperties
  <2> QED
    BY <2>2, <2>3 DEF HasFull
<1> QED
  BY <1>1, InvInit, InvNext, PTL DEF Spec
--------------------------------------------------------------------------------
(***************************************************************************)
(* The viewer: what the records of one row make of what it has seen.       *)
(***************************************************************************)
\* How often a row's records are applied: once for each of its clocks in the filter.
Times(row, filter) == Cardinality(row.clocks \cap filter)

\* The i-th record applied.
Turn(c, row, i, seen) == Apply(c, row.wires[c][((i - 1) % Len(row.wires[c])) + 1], seen)

\* f holds what has been seen after each of the first n.
Unrolls(c, row, seen, n, f) ==
    f[0] = seen /\ \A i \in 1..n : f[i] = Turn(c, row, i, f[i - 1])

LEMMA AfterRowIs ==
    ASSUME NEW c \in Cid, NEW row, NEW filter, NEW seen, NEW n \in Nat,
           n = Len(row.wires[c]) * Times(row, filter),
           NEW f, Unrolls(c, row, seen, n, f)
    PROVE  \E g : AfterRow(c, row, filter, seen) = g[n] /\ Unrolls(c, row, seen, n, g)
<1> DEFINE Eq(g) ==
             g = [i \in 0..n |-> IF i = 0 THEN seen ELSE Turn(c, row, i, g[i - 1])]
           h == [i \in 0..n |-> f[i]]
<1>1. Eq(h)
  <2>1. \A i \in 0..n : i # 0 => i \in 1..n /\ i - 1 \in 0..n
    OBVIOUS
  <2>2. \A i \in 0..n : h[i] = f[i]
    OBVIOUS
  <2>3. h = [i \in 0..n |-> h[i]]
    OBVIOUS
  <2> HIDE DEF h
  <2>4. \A i \in 0..n : h[i] = IF i = 0 THEN seen ELSE Turn(c, row, i, h[i - 1])
    BY <2>1, <2>2 DEF Unrolls
  <2> QED
    BY <2>3, <2>4
<1>2. AfterRow(c, row, filter, seen) = (CHOOSE g : Eq(g))[n]
  BY DEF AfterRow, Times, Turn
<1>3. Eq(CHOOSE g : Eq(g))
  BY <1>1
<1> HIDE DEF Eq
<1>4. PICK g : AfterRow(c, row, filter, seen) = g[n] /\ Eq(g)
  BY <1>2, <1>3
<1>5. Unrolls(c, row, seen, n, g)
  BY <1>4 DEF Eq, Unrolls
<1> QED
  BY <1>4, <1>5

\* A row that has no record of c leaves what was seen.
LEMMA AfterNothing ==
    ASSUME NEW c \in Cid, NEW row, NEW clock, NEW seen, row.wires[c] = <<>>
    PROVE  AfterRow(c, row, {clock}, seen) = seen
<1> DEFINE f == [i \in 0..0 |-> seen]
<1>1. Len(row.wires[c]) = 0
  BY EmptySeq
<1>2. Times(row, {clock}) \in Nat
  <2>1. IsFiniteSet({clock}) /\ row.clocks \cap {clock} \subseteq {clock}
    BY FS_Singleton
  <2> QED
    BY <2>1, FS_Subset, FS_CardinalityType DEF Times
<1>3. 0 = Len(row.wires[c]) * Times(row, {clock})
  BY <1>1, <1>2
<1>4. Unrolls(c, row, seen, 0, f)
  BY DEF Unrolls
<1> HIDE DEF f
<1>5. PICK g : AfterRow(c, row, {clock}, seen) = g[0] /\ Unrolls(c, row, seen, 0, g)
  BY <1>3, <1>4, AfterRowIs
<1> QED
  BY <1>5 DEF Unrolls

LEMMA OnceTagged ==
    ASSUME NEW row, NEW clock, clock \in row.clocks
    PROVE  Times(row, {clock}) = 1
<1>1. row.clocks \cap {clock} = {clock}
  OBVIOUS
<1> QED
  BY <1>1, FS_Singleton DEF Times

\* A row with one record of c.
LEMMA AfterOne ==
    ASSUME NEW c \in Cid, NEW row, NEW clock, NEW seen, NEW w,
           row.wires[c] = <<w>>, clock \in row.clocks
    PROVE  AfterRow(c, row, {clock}, seen) = Apply(c, w, seen)
<1> DEFINE f == [i \in 0..1 |-> IF i = 0 THEN seen ELSE Apply(c, w, seen)]
<1>1. Len(row.wires[c]) = 1 /\ 1 = Len(row.wires[c]) * Times(row, {clock})
  BY OnceTagged
<1>2. \A s : Turn(c, row, 1, s) = Apply(c, w, s)
  <2>1. row.wires[c][1] = w /\ ((1 - 1) % 1) + 1 = 1
    OBVIOUS
  <2> QED
    BY <2>1, <1>1 DEF Turn
<1>3. f[0] = seen /\ f[1] = Turn(c, row, 1, f[0])
  BY <1>2
<1> HIDE DEF f
<1>4. Unrolls(c, row, seen, 1, f)
  BY <1>3, 1 - 1 = 0, \A i \in 1..1 : i = 1 DEF Unrolls
<1>5. PICK g : AfterRow(c, row, {clock}, seen) = g[1] /\ Unrolls(c, row, seen, 1, g)
  BY <1>1, <1>4, AfterRowIs
<1>6. g[0] = seen /\ g[1] = Turn(c, row, 1, g[0])
  BY <1>5, 1 - 1 = 0, 1 \in 1..1 DEF Unrolls
<1> QED
  BY <1>2, <1>5, <1>6

\* A row with two records of c.
LEMMA AfterTwo ==
    ASSUME NEW c \in Cid, NEW row, NEW clock, NEW seen, NEW w, NEW x,
           row.wires[c] = <<w, x>>, clock \in row.clocks
    PROVE  AfterRow(c, row, {clock}, seen) = Apply(c, x, Apply(c, w, seen))
<1> DEFINE f == [i \in 0..2 |-> IF i = 0 THEN seen
                               ELSE IF i = 1 THEN Apply(c, w, seen)
                               ELSE Apply(c, x, Apply(c, w, seen))]
<1>1. Len(row.wires[c]) = 2 /\ 2 = Len(row.wires[c]) * Times(row, {clock})
  BY OnceTagged
<1>2. /\ \A s : Turn(c, row, 1, s) = Apply(c, w, s)
      /\ \A s : Turn(c, row, 2, s) = Apply(c, x, s)
  <2>1. /\ row.wires[c][1] = w /\ ((1 - 1) % 2) + 1 = 1
        /\ row.wires[c][2] = x /\ ((2 - 1) % 2) + 1 = 2
    OBVIOUS
  <2> QED
    BY <2>1, <1>1 DEF Turn
<1>3. f[0] = seen /\ f[1] = Turn(c, row, 1, f[0]) /\ f[2] = Turn(c, row, 2, f[1])
  BY <1>2
<1> HIDE DEF f
<1>4. Unrolls(c, row, seen, 2, f)
  BY <1>3, 1 - 1 = 0, 2 - 1 = 1, \A i \in 1..2 : i = 1 \/ i = 2 DEF Unrolls
<1>5. PICK g : AfterRow(c, row, {clock}, seen) = g[2] /\ Unrolls(c, row, seen, 2, g)
  BY <1>1, <1>4, AfterRowIs
<1>6. g[0] = seen /\ g[1] = Turn(c, row, 1, g[0]) /\ g[2] = Turn(c, row, 2, g[1])
  BY <1>5, 1 - 1 = 0, 2 - 1 = 1, 1 \in 1..2, 2 \in 1..2 DEF Unrolls
<1> QED
  BY <1>2, <1>5, <1>6
--------------------------------------------------------------------------------
(***************************************************************************)
(* What was collected, and what the stager has yet to take.                *)
(***************************************************************************)
\* The ledgers the stager has yet to take, the open one last.
Waiting == inbox \o ledger

\* What a checkpointer has last heard.
Tip(chain) == IF chain = <<>> THEN None ELSE chain[Len(chain)].value

TruthInv == \A c \in Cid : truth[c] = Tip(ckpt[c].chain)

\* Every node of the chain is of an earlier window than w.
Older(chain, w) == \A k \in 1..Len(chain) : chain[k].window < w

\* A window is used once: what is in a chain is older than what waits, and that is in
\* order.
WindowInv ==
    /\ \A i, j \in 1..Len(Waiting) : i < j => Waiting[i].window < Waiting[j].window
    /\ \A i \in 1..Len(Waiting) : Waiting[i].window < windowId
    /\ \A c \in Cid : Older(ckpt[c].chain, windowId)
    /\ \A c \in Cid : \A i \in 1..Len(Waiting) : Older(ckpt[c].chain, Waiting[i].window)

\* c was collected in one of the first k waiting ledgers or before.
Heard(c, k) == truth[c] # None \/ \E i \in 1..k : Waiting[i].staged[c] # <<>>

\* Only what was collected is closed.
CloseInv ==
    \A c \in Cid :
      /\ ~closed[c] => Heard(c, Len(Waiting))
      /\ \A k \in 1..Len(Waiting) : c \in Waiting[k].closing => Heard(c, k)

LEMMA WaitingIs ==
    ASSUME NEW in \in Seq(Ledger), NEW open \in Seq(Ledger), Len(open) <= 1
    PROVE  /\ in \o open \in Seq(Ledger) /\ Len(in \o open) \in Nat
           /\ Len(in) \in Nat /\ Len(open) \in Nat
           /\ Len(in \o open) = Len(in) + Len(open)
           /\ \A i \in 1..Len(in) : i \in 1..Len(in \o open) /\ (in \o open)[i] = in[i]
           /\ open # <<>> => /\ Len(open) = 1
                             /\ (in \o open)[Len(in \o open)] = open[1]
           /\ open = <<>> => Len(open) = 0
<1>1. /\ Len(in) \in Nat /\ Len(open) \in Nat
      /\ open # <<>> <=> Len(open) > 0
  BY SeqFacts
<1>2. Len(open) = 0 \/ Len(open) = 1
  <2>1. \A k \in Nat : k <= 1 => k = 0 \/ k = 1
    OBVIOUS
  <2> QED
    BY <2>1, <1>1
<1> DEFINE all == in \o open
<1>3. /\ all \in Seq(Ledger)
      /\ Len(all) = Len(in) + Len(open)
      /\ \A i \in 1..(Len(in) + Len(open)) :
           all[i] = IF i <= Len(in) THEN in[i] ELSE open[i - Len(in)]
  BY <1>1, ConcatProperties
<1> HIDE DEF all
<1>4. \A i \in 1..Len(in) : i \in 1..Len(all) /\ all[i] = in[i]
  BY <1>1, <1>2, <1>3
<1>5. open # <<>> => Len(open) = 1 /\ all[Len(all)] = open[1]
  <2>1. SUFFICES ASSUME open # <<>>
                 PROVE  Len(open) = 1 /\ all[Len(all)] = open[1]
    OBVIOUS
  <2>2. Len(open) = 1
    BY <2>1, <1>1, <1>2
  <2>3. /\ Len(in) + 1 \in 1..(Len(in) + Len(open))
        /\ ~(Len(in) + 1 <= Len(in)) /\ Len(in) + 1 - Len(in) = 1
    BY <2>2, <1>1
  <2> QED
    BY <2>2, <2>3, <1>3
<1> QED
  BY <1>1, <1>2, <1>3, <1>4, <1>5 DEF all

\* What recording does to the ledgers that wait.
LEMMA RecordWaits ==
    ASSUME TypeOK, LedgerInv, TypeOK', LedgerInv', NEW new, Record(new)
    PROVE  LET n == Len(Waiting)'
           IN  /\ n \in Nat /\ n > 0 /\ Waiting'[n] = new
               /\ \A i \in 1..(n - 1) : i \in 1..Len(Waiting) /\ Waiting'[i] = Waiting[i]
               /\ TimeAdvanced => n = Len(Waiting) + 1 /\ windowId' = windowId + 1
               /\ ~TimeAdvanced => /\ n = Len(Waiting) /\ windowId' = windowId
                                   /\ Waiting[n] = CurrentLedger
<1>1. ledger' = <<new>> /\ ledger' # <<>> /\ ledger'[1] = new
  BY DEF Record
<1>2. /\ Len(Waiting) \in Nat /\ Len(inbox) \in Nat /\ Len(ledger) \in Nat
      /\ Len(Waiting) = Len(inbox) + Len(ledger)
      /\ \A i \in 1..Len(inbox) : i \in 1..Len(Waiting) /\ Waiting[i] = inbox[i]
      /\ ledger # <<>> => Len(ledger) = 1 /\ Waiting[Len(Waiting)] = ledger[1]
      /\ ledger = <<>> => Len(ledger) = 0
  <2>1. inbox \in Seq(Ledger) /\ ledger \in Seq(Ledger) /\ Len(ledger) <= 1
    BY DEF TypeOK, LedgerInv
  <2> QED
    BY <2>1, WaitingIs DEF Waiting
<1>3. /\ Len(Waiting)' \in Nat /\ Len(inbox)' \in Nat
      /\ Len(Waiting)' = Len(inbox)' + 1
      /\ \A i \in 1..Len(inbox)' : Waiting'[i] = inbox'[i]
      /\ Waiting'[Len(Waiting)'] = new
  <2>1. inbox' \in Seq(Ledger) /\ ledger' \in Seq(Ledger) /\ Len(ledger') <= 1
    BY DEF TypeOK, LedgerInv
  <2>2. Waiting' = inbox' \o ledger'
    BY DEF Waiting
  <2> QED
    BY <2>1, <2>2, <1>1, WaitingIs
<1>4. CASE TimeAdvanced
  <2>1. inbox' = Waiting /\ windowId' = windowId + 1
    BY <1>4 DEF Record, Waiting
  <2>2. Len(Waiting)' = Len(Waiting) + 1
    BY <2>1, <1>3
  <2> QED
    BY <2>1, <2>2, <1>2, <1>3, <1>4
<1>5. CASE ~TimeAdvanced
  <2>1. inbox' = inbox /\ windowId' = windowId
    BY <1>5 DEF Record
  <2>2. ledger # <<>> /\ CurrentLedger = ledger[1]
    BY <1>5 DEF TimeAdvanced, CurrentLedger
  <2>3. Len(Waiting)' = Len(Waiting)
    BY <2>1, <2>2, <1>2, <1>3
  <2>4. Len(Waiting)' - 1 = Len(inbox)
    <3>1. \A k, l \in Nat : l = k + 1 => l - 1 = k
      OBVIOUS
    <3>2. Len(Waiting)' = Len(inbox) + 1
      BY <2>2, <2>3, <1>2
    <3> QED
      BY <3>1, <3>2, <1>2, <1>3
  <2> QED
    BY <2>1, <2>2, <2>3, <2>4, <1>2, <1>3, <1>5
<1> QED
  BY <1>4, <1>5

LEMMA RecordKeepsWindows ==
    ASSUME Inv, Inv', WindowInv, NEW new, Record(new), new.window = CurrentLedger.window,
           UNCHANGED ckpt
    PROVE  WindowInv'
<1> DEFINE n == Len(Waiting)'
<1>1. /\ n \in Nat /\ n > 0 /\ Waiting'[n] = new
      /\ \A i \in 1..(n - 1) : i \in 1..Len(Waiting) /\ Waiting'[i] = Waiting[i]
      /\ TimeAdvanced => n = Len(Waiting) + 1 /\ windowId' = windowId + 1
      /\ ~TimeAdvanced => /\ n = Len(Waiting) /\ windowId' = windowId
                          /\ Waiting[n] = CurrentLedger
  BY RecordWaits DEF Inv
<1>2. /\ TimeAdvanced => new.window = windowId
      /\ ~TimeAdvanced => n \in 1..Len(Waiting) /\ new.window = Waiting[n].window
  BY <1>1 DEF CurrentLedger
<1>3. /\ windowId \in Nat /\ windowId <= windowId'
      /\ \A i \in 1..Len(Waiting) : Waiting[i].window \in Nat
      /\ \A c \in Cid : \A k \in 1..Len(ckpt[c].chain) : ckpt[c].chain[k].window \in Nat
  <2>1. windowId \in Nat /\ windowId <= windowId'
    BY <1>1 DEF Inv, TypeOK
  <2>2. Waiting \in Seq(Ledger)
    <3>1. inbox \in Seq(Ledger) /\ ledger \in Seq(Ledger) /\ Len(ledger) <= 1
      BY DEF Inv, TypeOK, LedgerInv
    <3> QED
      BY <3>1, WaitingIs DEF Waiting
  <2>3. \A e \in Ledger : e.window \in Nat
    BY DEF Ledger
  <2>4. \A i \in 1..Len(Waiting) : Waiting[i].window \in Nat
    BY <2>2, <2>3, SeqFacts
  <2>5. ASSUME NEW c \in Cid, NEW k \in 1..Len(ckpt[c].chain)
        PROVE  ckpt[c].chain[k].window \in Nat
    <3>1. ckpt[c].chain \in Seq(Node)
      BY DEF Inv, TypeOK, Checkpointer
    <3>2. ckpt[c].chain[k] \in Node
      BY <3>1, SeqFacts
    <3> QED
      BY <3>2 DEF Node
  <2> QED
    BY <2>1, <2>4, <2>5
<1> HIDE DEF n
<1>4. \A i \in 1..(n - 1) : Waiting'[i].window < new.window
  BY <1>1, <1>2, <1>3 DEF WindowInv
<1>5. new.window < windowId' /\ new.window \in Nat
  BY <1>1, <1>2, <1>3 DEF WindowInv
<1>6. \A c \in Cid : Older(ckpt[c].chain, new.window)
  BY <1>2 DEF WindowInv
<1>7. \A i \in 1..n : i = n \/ i \in 1..(n - 1)
  BY <1>1
<1>8. ASSUME NEW i \in 1..n, NEW j \in 1..n, i < j
      PROVE  Waiting'[i].window < Waiting'[j].window
  <2>1. i \in 1..(n - 1) /\ (j = n \/ j \in 1..(n - 1))
    BY <1>1, <1>8
  <2> QED
    BY <2>1, <1>1, <1>4, <1>8 DEF WindowInv
<1>9. \A i \in 1..n : Waiting'[i].window < windowId'
  <2>1. \A i \in 1..(n - 1) : Waiting'[i].window < windowId'
    BY <1>1, <1>3 DEF WindowInv
  <2> QED
    BY <2>1, <1>1, <1>5, <1>7
<1>10. \A c \in Cid : Older(ckpt[c].chain, windowId')
  <2>1. windowId' \in Nat
    BY DEF Inv, TypeOK
  <2> QED
    BY <2>1, <1>3 DEF WindowInv, Older
<1>11. \A c \in Cid : \A i \in 1..n : Older(ckpt[c].chain, Waiting'[i].window)
  BY <1>1, <1>6, <1>7 DEF WindowInv
<1> QED
  BY <1>8, <1>9, <1>10, <1>11 DEF WindowInv, Older, n

\* What was heard of stays heard of, and what is staged is heard of.
LEMMA RecordHears ==
    ASSUME Inv, Inv', NEW new, Record(new), UNCHANGED truth, NEW d \in Cid,
           CurrentLedger.staged[d] # <<>> => new.staged[d] # <<>>
    PROVE  /\ \A k \in 1..(Len(Waiting)' - 1) : Heard(d, k) => Heard(d, k)'
           /\ Heard(d, Len(Waiting)) => Heard(d, Len(Waiting))'
           /\ new.staged[d] # <<>> => Heard(d, Len(Waiting))'
<1> DEFINE n == Len(Waiting)'
<1>1. /\ n \in Nat /\ n > 0 /\ Waiting'[n] = new
      /\ \A i \in 1..(n - 1) : i \in 1..Len(Waiting) /\ Waiting'[i] = Waiting[i]
      /\ TimeAdvanced => n = Len(Waiting) + 1
      /\ ~TimeAdvanced => n = Len(Waiting) /\ Waiting[n] = CurrentLedger
  BY RecordWaits DEF Inv
<1>2. Len(Waiting) \in Nat
  <2>1. inbox \in Seq(Ledger) /\ ledger \in Seq(Ledger) /\ Len(ledger) <= 1
    BY DEF Inv, TypeOK, LedgerInv
  <2> QED
    BY <2>1, WaitingIs DEF Waiting
<1> HIDE DEF n
<1>3. n \in 1..n
  BY <1>1
<1>4. \A k \in 1..(n - 1) : Heard(d, k) => Heard(d, k)'
  <2>1. \A k \in 1..(n - 1) : \A i \in 1..k : i \in 1..(n - 1)
    BY <1>1
  <2> QED
    BY <2>1, <1>1 DEF Heard
<1>5. Heard(d, Len(Waiting)) => truth'[d] # None \/ \E i \in 1..n : Waiting'[i].staged[d] # <<>>
  <2>1. SUFFICES ASSUME NEW i \in 1..Len(Waiting), Waiting[i].staged[d] # <<>>
                 PROVE  \E j \in 1..n : Waiting'[j].staged[d] # <<>>
    BY DEF Heard
  <2>2. i \in 1..(n - 1) => i \in 1..n
    BY <1>1
  <2>3. CASE i \in 1..(n - 1)
    BY <2>1, <2>2, <2>3, <1>1
  <2>4. CASE i \notin 1..(n - 1)
    <3>1. ~TimeAdvanced /\ i = n
      BY <2>4, <1>1, <1>2
    <3> QED
      BY <3>1, <2>1, <1>1, <1>3
  <2> QED
    BY <2>3, <2>4
<1>6. new.staged[d] # <<>> => \E i \in 1..n : Waiting'[i].staged[d] # <<>>
  BY <1>1, <1>3
<1> QED
  BY <1>4, <1>5, <1>6 DEF Heard, n

LEMMA TypeOfCurrent ==
    ASSUME Inv
    PROVE  /\ CurrentLedger \in Ledger
           /\ CurrentLedger.staged \in [Cid -> Seq(Value)]
           /\ CurrentLedger.closing \subseteq Cid
           /\ TimeAdvanced => CurrentLedger.closing = {}
  BY CurrentLedgerType DEF Inv, Ledger, CurrentLedger

\* The closings the open ledger holds are of what was heard of.
LEMMA OpenHeard ==
    ASSUME Inv, Inv', CloseInv, NEW new, Record(new), UNCHANGED truth,
           \A d \in Cid : CurrentLedger.staged[d] # <<>> => new.staged[d] # <<>>
    PROVE  /\ \A d \in Cid : d \in CurrentLedger.closing => Heard(d, Len(Waiting))'
           /\ \A d \in Cid : \A k \in 1..(Len(Waiting)' - 1) :
                d \in Waiting'[k].closing => Heard(d, k)'
<1>1. LET n == Len(Waiting)'
      IN  /\ n \in Nat /\ n > 0
          /\ \A i \in 1..(n - 1) : i \in 1..Len(Waiting) /\ Waiting'[i] = Waiting[i]
          /\ ~TimeAdvanced => n = Len(Waiting) /\ Waiting[n] = CurrentLedger
  BY RecordWaits DEF Inv
<1>2. ASSUME NEW d \in Cid, d \in CurrentLedger.closing PROVE Heard(d, Len(Waiting))'
  <2>1. ~TimeAdvanced
    BY <1>2, TypeOfCurrent
  <2>2. Len(Waiting) \in 1..Len(Waiting) /\ d \in Waiting[Len(Waiting)].closing
    BY <2>1, <1>1, <1>2
  <2>3. Heard(d, Len(Waiting))
    BY <2>2 DEF CloseInv
  <2> QED
    BY <2>3, RecordHears
<1>3. ASSUME NEW d \in Cid, NEW k \in 1..(Len(Waiting)' - 1), d \in Waiting'[k].closing
      PROVE  Heard(d, k)'
  <2>1. k \in 1..Len(Waiting) /\ d \in Waiting[k].closing
    BY <1>1, <1>3
  <2>2. Heard(d, k)
    BY <2>1 DEF CloseInv
  <2> QED
    BY <2>2, RecordHears
<1> QED
  BY <1>2, <1>3

CollectedInv == TruthInv /\ WindowInv /\ CloseInv

LEMMA CollectedInit == Init => CollectedInv
<1> SUFFICES ASSUME Init PROVE CollectedInv
  OBVIOUS
<1>1. /\ \A c \in Cid : ckpt[c].chain = <<>> /\ truth[c] = None /\ closed[c] = TRUE
      /\ inbox = <<>> /\ ledger = <<>>
  BY DEF Init, NewCheckpointer
<1>2. Len(Waiting) = 0
  BY <1>1, ConcatEmptySeq DEF Waiting
<1>3. \A c \in Cid : Len(ckpt[c].chain) = 0
  BY <1>1
<1> QED
  BY <1>1, <1>2, <1>3 DEF CollectedInv, TruthInv, WindowInv, CloseInv, Tip, Older

LEMMA TruthFrame == TruthInv /\ UNCHANGED stagerVars => TruthInv'
  BY DEF TruthInv, stagerVars, Tip

LEMMA CollectedWaits ==
    ASSUME CollectedInv, Waiting' = Waiting, UNCHANGED <<stagerVars, windowId, closed>>
    PROVE  CollectedInv'
<1>1. TruthInv'
  BY TruthFrame DEF CollectedInv
<1>2. WindowInv'
  BY DEF CollectedInv, WindowInv, Older, stagerVars
<1>3. \A c, k : Heard(c, k)' <=> Heard(c, k)
  BY DEF Heard, stagerVars
<1>4. CloseInv'
  BY <1>3 DEF CollectedInv, CloseInv
<1> QED
  BY <1>1, <1>2, <1>4 DEF CollectedInv

LEMMA CollectedSetValueBytes ==
    ASSUME Inv, Inv', CollectedInv, NEW c \in Cid, NEW v \in Takes[c], SetValueBytes(c, v)
    PROVE  CollectedInv'
<1> DEFINE old == CurrentLedger
           new == [old EXCEPT !.staged = Stage(@, c, v)]
<1>1. /\ Record(new)
      /\ closed' = [closed EXCEPT ![c] = FALSE]
      /\ UNCHANGED <<ckpt, recent, truth>>
  BY DEF SetValueBytes, stagerVars
<1>2. /\ old \in Ledger /\ old.staged \in [Cid -> Seq(Value)]
  BY TypeOfCurrent
<1>3. v \in Value
  BY ArgosAssumption
<1>4. /\ new.window = old.window /\ new.closing = old.closing
      /\ new.staged = Stage(old.staged, c, v)
  <2> HIDE DEF old
  <2> QED
    BY <1>2 DEF Ledger
<1>5. Append(old.staged[c], v) # <<>>
  <2>1. Len(Append(old.staged[c], v)) = Len(old.staged[c]) + 1 /\ Len(old.staged[c]) \in Nat
    BY <1>2, <1>3, AppendProperties, LenProperties
  <2>2. Append(old.staged[c], v) \in Seq(Value)
    BY <1>2, <1>3, AppendProperties
  <2> QED
    BY <2>1, <2>2, SeqFacts
<1>6. \A d \in Cid : new.staged[d] = IF d = c THEN Append(old.staged[c], v) ELSE old.staged[d]
  BY <1>2, <1>4 DEF Stage
<1>7. new.staged[c] # <<>> /\ \A d \in Cid : old.staged[d] # <<>> => new.staged[d] # <<>>
  BY <1>5, <1>6
<1> HIDE DEF new, old
<1>8. TruthInv'
  BY <1>1, TruthFrame DEF CollectedInv, stagerVars
<1>9. WindowInv'
  BY <1>1, <1>4, RecordKeepsWindows DEF CollectedInv, old
<1>10. CloseInv'
  <2>1. /\ \A d \in Cid : d \in old.closing => Heard(d, Len(Waiting))'
        /\ \A d \in Cid : \A k \in 1..(Len(Waiting)' - 1) :
             d \in Waiting'[k].closing => Heard(d, k)'
    BY <1>1, <1>7, OpenHeard DEF CollectedInv, old
  <2>2. /\ Len(Waiting)' \in Nat /\ Waiting'[Len(Waiting)'] = new
    BY <1>1, RecordWaits DEF Inv
  <2>3. ASSUME NEW d \in Cid, NEW k \in 1..Len(Waiting)', d \in Waiting'[k].closing
        PROVE  Heard(d, k)'
    <3>1. CASE k = Len(Waiting)'
      BY <3>1, <2>1, <2>2, <2>3, <1>4
    <3>2. CASE k # Len(Waiting)'
      BY <3>2, <2>1, <2>2, <2>3
    <3> QED
      BY <3>1, <3>2
  <2>4. ASSUME NEW d \in Cid, ~closed'[d] PROVE Heard(d, Len(Waiting))'
    <3>1. CASE d = c
      BY <3>1, <1>1, <1>7, RecordHears DEF old
    <3>2. CASE d # c
      <4>1. ~closed[d]
        BY <3>2, <2>4, <1>1 DEF Inv, TypeOK
      <4>2. Heard(d, Len(Waiting))
        BY <4>1 DEF CollectedInv, CloseInv
      <4> QED
        BY <4>2, <1>1, <1>7, RecordHears DEF old
    <3> QED
      BY <3>1, <3>2
  <2> QED
    BY <2>3, <2>4 DEF CloseInv
<1> QED
  BY <1>8, <1>9, <1>10 DEF CollectedInv

LEMMA CollectedCloseRecord ==
    ASSUME Inv, Inv', CollectedInv, NEW c \in Cid, CloseRecord(c)
    PROVE  CollectedInv'
<1> DEFINE old == CurrentLedger
           new == [old EXCEPT !.closing = @ \cup {c}]
<1>1. /\ Record(new) /\ ~closed[c]
      /\ closed' = [closed EXCEPT ![c] = TRUE]
      /\ UNCHANGED <<ckpt, recent, truth>>
  BY DEF CloseRecord, stagerVars
<1>2. old \in Ledger
  BY TypeOfCurrent
<1>3. /\ new.window = old.window /\ new.closing = old.closing \cup {c}
      /\ new.staged = old.staged
  <2> HIDE DEF old
  <2> QED
    BY <1>2 DEF Ledger
<1> HIDE DEF new, old
<1>4. TruthInv'
  BY <1>1, TruthFrame DEF CollectedInv, stagerVars
<1>5. WindowInv'
  BY <1>1, <1>3, RecordKeepsWindows DEF CollectedInv, old
<1>6. CloseInv'
  <2>1. /\ \A d \in Cid : d \in old.closing => Heard(d, Len(Waiting))'
        /\ \A d \in Cid : \A k \in 1..(Len(Waiting)' - 1) :
             d \in Waiting'[k].closing => Heard(d, k)'
    BY <1>1, <1>3, OpenHeard DEF CollectedInv, old
  <2>2. /\ Len(Waiting)' \in Nat /\ Waiting'[Len(Waiting)'] = new
    BY <1>1, RecordWaits DEF Inv
  <2>3. \A d \in Cid : ~closed[d] => Heard(d, Len(Waiting))'
    <3>1. \A d \in Cid : ~closed[d] => Heard(d, Len(Waiting))
      BY DEF CollectedInv, CloseInv
    <3> QED
      BY <3>1, <1>1, <1>3, RecordHears DEF old
  <2>4. ASSUME NEW d \in Cid, NEW k \in 1..Len(Waiting)', d \in Waiting'[k].closing
        PROVE  Heard(d, k)'
    <3>1. CASE k = Len(Waiting)'
      BY <3>1, <2>1, <2>2, <2>3, <2>4, <1>1, <1>3
    <3>2. CASE k # Len(Waiting)'
      BY <3>2, <2>1, <2>2, <2>4
    <3> QED
      BY <3>1, <3>2
  <2>5. ASSUME NEW d \in Cid, ~closed'[d] PROVE Heard(d, Len(Waiting))'
    <3>1. ~closed[d]
      BY <2>5, <1>1 DEF Inv, TypeOK
    <3> QED
      BY <3>1, <2>3
  <2> QED
    BY <2>4, <2>5 DEF CloseInv
<1> QED
  BY <1>4, <1>5, <1>6 DEF CollectedInv

LEMMA CollectedPreTeardown == Inv /\ CollectedInv /\ PreTeardown => CollectedInv'
<1> SUFFICES ASSUME Inv, CollectedInv, PreTeardown PROVE CollectedInv'
  OBVIOUS
<1>1. /\ inbox' = inbox \o ledger /\ ledger' = <<>>
      /\ UNCHANGED <<stagerVars, windowId, closed>>
  BY DEF PreTeardown
<1>2. inbox \in Seq(Ledger) /\ ledger \in Seq(Ledger)
  BY DEF Inv, TypeOK
<1>3. inbox \o ledger \in Seq(Ledger)
  BY <1>2, ConcatProperties
<1>4. Waiting' = Waiting
  BY <1>1, <1>3, ConcatEmptySeq DEF Waiting
<1> QED
  BY <1>1, <1>4, CollectedWaits
--------------------------------------------------------------------------------
(***************************************************************************)
(* What the records of one row tell of a collectable.                      *)
(***************************************************************************)
\* The records turn v, what was collected before, into w, what is collected now.
Tells(wires, v, w) ==
    \/ wires = <<>> /\ w = v
    \/ wires = <<CarryWire>> /\ w = v /\ v # None
    \/ wires = <<DeltaWire(v, w)>> /\ v # None
    \/ wires = <<ClosedWire>> /\ w = Closed /\ v # None
    \/ \E x \in Value : wires = <<FullWire(x)>> /\ w = x
    \/ \E x \in Value : wires = <<FullWire(x), ClosedWire>> /\ w = Closed

\* What the viewer makes of a row, by the rows of one clock.
Shows(c, row, clock, seen) == AfterRow(c, row, {clock}, seen)

LEMMA TellsExactly ==
    ASSUME NEW c \in Cid, NEW row, NEW clock, clock \in row.clocks,
           NEW v, NEW w, NEW seen, Tells(row.wires[c], v, w),
           (seen = v /\ v # None) \/ HasFull(row.wires[c])
    PROVE  Shows(c, row, clock, seen) = w
<1> USE DEF Shows
<1>1. /\ \A x : FullWire(x).action = "FULL" /\ FullWire(x).value = x
      /\ CarryWire.action = "CARRY" /\ ClosedWire.action = "CLOSED"
      /\ \A x, y : /\ DeltaWire(x, y).action = "DELTA"
                   /\ DeltaWire(x, y).from = x /\ DeltaWire(x, y).to = y
  BY DEF FullWire, CarryWire, ClosedWire, DeltaWire
<1>2. \A x, s : Apply(c, FullWire(x), s) = x
  BY <1>1 DEF Apply
<1>3. \A s : Apply(c, CarryWire, s) = s
  BY <1>1 DEF Apply
<1>4. \A s : s # None => Apply(c, ClosedWire, s) = Closed
  BY <1>1 DEF Apply
<1>5. \A x, y : x # None => Apply(c, DeltaWire(x, y), x) = y
  BY <1>1 DEF Apply
<1>6. \A x : x.action # "FULL" => ~HasFull(<<x>>)
  BY DEF HasFull
<1>7. CASE row.wires[c] = <<>> /\ w = v
  <2>1. ~HasFull(row.wires[c])
    BY <1>7 DEF HasFull
  <2> QED
    BY <2>1, <1>7, AfterNothing
<1>8. CASE row.wires[c] = <<CarryWire>> /\ w = v
  <2>1. AfterRow(c, row, {clock}, seen) = Apply(c, CarryWire, seen)
    BY <1>8, AfterOne
  <2>2. ~HasFull(row.wires[c])
    BY <1>1, <1>6, <1>8
  <2> QED
    BY <2>1, <2>2, <1>3, <1>8
<1>9. CASE row.wires[c] = <<DeltaWire(v, w)>>
  <2> DEFINE delta == DeltaWire(v, w)
  <2>3. row.wires[c] = <<delta>>
    BY <1>9
  <2>2. ~HasFull(row.wires[c])
    BY <1>1, <1>6, <1>9
  <2> HIDE DEF delta
  <2>4. AfterRow(c, row, {clock}, seen) = Apply(c, delta, seen)
    BY <2>3, AfterOne
  <2>1. AfterRow(c, row, {clock}, seen) = Apply(c, DeltaWire(v, w), seen)
    BY <2>4 DEF delta
  <2> QED
    BY <2>1, <2>2, <1>5
<1>10. CASE row.wires[c] = <<ClosedWire>> /\ w = Closed
  <2>1. AfterRow(c, row, {clock}, seen) = Apply(c, ClosedWire, seen)
    BY <1>10, AfterOne
  <2>2. ~HasFull(row.wires[c])
    BY <1>1, <1>6, <1>10
  <2> QED
    BY <2>1, <2>2, <1>4, <1>10
<1>11. ASSUME NEW x \in Value, row.wires[c] = <<FullWire(x)>>, w = x
       PROVE  AfterRow(c, row, {clock}, seen) = w
  <2>1. AfterRow(c, row, {clock}, seen) = Apply(c, FullWire(x), seen)
    BY <1>11, AfterOne
  <2> QED
    BY <2>1, <1>2, <1>11
<1>12. ASSUME NEW x \in Value, row.wires[c] = <<FullWire(x), ClosedWire>>, w = Closed
       PROVE  AfterRow(c, row, {clock}, seen) = w
  <2>1. AfterRow(c, row, {clock}, seen) = Apply(c, ClosedWire, Apply(c, FullWire(x), seen))
    BY <1>12, AfterTwo
  <2>2. x # None
    BY ArgosAssumption
  <2> QED
    BY <2>1, <2>2, <1>2, <1>4, <1>12
<1> QED
  BY <1>7, <1>8, <1>9, <1>10, <1>11, <1>12 DEF Tells

\* What is told of a collectable that was collected is not nothing, and nothing is told
\* of one that was not.
LEMMA TellsSomething ==
    ASSUME NEW wires, NEW v, NEW w, Tells(wires, v, w), v # None => w # None
    PROVE  w = None => v = None /\ wires = <<>>
  BY ArgosAssumption DEF Tells

\* A closing checkpointer: its chain's tip is a close.
LEMMA ClosedTells ==
    ASSUME NEW ck \in Checkpointer, NEW t \in Nat, NEW v, v # None
    PROVE  /\ Tells(EmitClosed(ck, t).wires, v, Closed)
           /\ EmitClosed(ck, t).ckpt.chain = ck.chain
<1> DEFINE chain == ck.chain
           latest == DataBefore(chain, Len(chain) + 1)
<1>1. chain \in Seq(Node) /\ Len(chain) \in Nat
  BY LenProperties DEF Checkpointer
<1>2. \/ latest = 0
      \/ latest \in 1..Len(chain) /\ IsData(chain, latest)
  BY <1>1, DataBeforeFinds, Len(chain) + 1 - 1 = Len(chain)
<1>3. ASSUME NEW k \in Checkpointer, NEW action \in {"FULL", "CLOSED"}
      PROVE  Sent(k, action, t) \in Checkpointer /\ Sent(k, action, t).chain = k.chain
  <2>1. action \in {"FULL", "CARRY", "DELTA", "CLOSED"}
    OBVIOUS
  <2> QED
    BY <2>1, SentType
<1>4. CASE NeedsPriming(ck, t) /\ latest # 0
  <2>1. EmitClosed(ck, t) = Emit(Sent(Sent(ck, "FULL", t), "CLOSED", t),
                                 <<FullWire(chain[latest].value), ClosedWire>>)
    BY <1>4 DEF EmitClosed
  <2>2. chain[latest].value \in Value
    BY <1>1, <1>2, <1>4, DataIsValue
  <2>3. Sent(Sent(ck, "FULL", t), "CLOSED", t).chain = chain
    BY <1>3
  <2> HIDE DEF latest
  <2> QED
    BY <2>1, <2>2, <2>3 DEF Emit, Tells
<1>5. CASE ~(NeedsPriming(ck, t) /\ latest # 0)
  <2>1. EmitClosed(ck, t) = Emit(Sent(ck, "CLOSED", t), <<ClosedWire>>)
    BY <1>5 DEF EmitClosed
  <2>2. Sent(ck, "CLOSED", t).chain = chain
    BY <1>3
  <2> QED
    BY <2>1, <2>2 DEF Emit, Tells
<1> QED
  BY <1>4, <1>5

\* A collectable that was silent.
LEMMA AbsentTells ==
    ASSUME NEW ck \in Checkpointer, NEW t \in Nat
    PROVE  /\ Tells(EmitAbsent(ck, t).wires, Tip(ck.chain), Tip(ck.chain))
           /\ EmitAbsent(ck, t).ckpt.chain = ck.chain
<1> DEFINE chain == ck.chain
           n == Len(chain)
           tipClosed == n > 0 /\ ~IsData(chain, n)
           latest == DataBefore(chain, n + 1)
           out == EmitAbsent(ck, t)
<1>1. /\ chain \in Seq(Node) /\ n \in Nat /\ (chain # <<>> <=> n > 0)
  BY SeqFacts DEF Checkpointer
<1>2. \/ latest = 0
      \/ /\ latest \in 1..n /\ IsData(chain, latest)
         /\ \A k \in (latest + 1)..n : ~IsData(chain, k)
  BY <1>1, DataBeforeFinds, n + 1 - 1 = n
<1>3. CASE ~RefreshAbsent(ck, t, tipClosed)
  <2>1. out = Emit(ck, <<>>)
    BY <1>3 DEF EmitAbsent
  <2> QED
    BY <2>1 DEF Emit, Tells
<1>4. CASE RefreshAbsent(ck, t, tipClosed) /\ tipClosed
  <2>1. out = EmitClosed(ck, t)
    BY <1>4 DEF EmitAbsent
  <2>2. Tip(chain) = Closed
    BY <1>1, <1>4 DEF Tip, IsData
  <2>3. Closed # None
    BY ArgosAssumption
  <2> QED
    BY <2>1, <2>2, <2>3, ClosedTells
<1>5. CASE RefreshAbsent(ck, t, tipClosed) /\ ~tipClosed /\ latest = 0
  <2>1. out = Emit(ck, <<>>)
    BY <1>5 DEF EmitAbsent
  <2> QED
    BY <2>1 DEF Emit, Tells
<1>6. CASE RefreshAbsent(ck, t, tipClosed) /\ ~tipClosed /\ latest # 0
  <2>1. out = Emit(Sent(ck, "FULL", t), <<FullWire(chain[latest].value)>>)
    BY <1>6 DEF EmitAbsent
  <2>2. Sent(ck, "FULL", t).chain = chain
    BY SentType
  <2>3. latest \in 1..n /\ n > 0 /\ IsData(chain, n)
    BY <1>1, <1>2, <1>6
  <2>4. latest = n
    BY <2>3, <1>1, <1>2
  <2>5. chain[n].value \in Value /\ Tip(chain) = chain[n].value
    BY <2>3, <1>1, DataIsValue DEF Tip
  <2> HIDE DEF latest
  <2> QED
    BY <2>1, <2>2, <2>4, <2>5 DEF Emit, Tells
<1> QED
  BY <1>3, <1>4, <1>5, <1>6

\* A collectable that was staged: what it had before is old, what it has now is the
\* chain's newest data.
LEMMA AnchorTells ==
    ASSUME NEW c \in Cid, NEW ck \in Checkpointer, NEW t \in Nat, NEW old,
           heartbeat \in Nat \ {0},
           Len(ck.chain) > 0, IsData(ck.chain, Len(ck.chain)),
           heartbeat # 1 => /\ Len(ck.chain) > 1 => ck.chain[Len(ck.chain) - 1].value = old
                            /\ old = Closed \/ old \in Value \/ Len(ck.chain) = 1
    PROVE  /\ Tells(EmitAnchor(c, ck, t).wires, old, Tip(ck.chain))
           /\ Tip(EmitAnchor(c, ck, t).ckpt.chain) = Tip(ck.chain)
           /\ \/ EmitAnchor(c, ck, t).ckpt.chain = ck.chain
              \/ EmitAnchor(c, ck, t).ckpt.chain = <<ck.chain[Len(ck.chain)]>>
<1> DEFINE chain == ck.chain
           n == Len(chain)
           v == chain[n].value
           force == ForceSnapshot(ck, t)
           wire == AnchorWire(c, chain, force)
           sent == Sent(ck, wire.action, t)
           out == EmitAnchor(c, ck, t)
<1>1. /\ chain \in Seq(Node) /\ n \in Nat /\ n \in 1..n /\ chain # <<>>
      /\ ck.distance \in Nat
  BY SeqFacts DEF Checkpointer
<1>2. \/ DataBefore(chain, n) = 0
      \/ /\ DataBefore(chain, n) \in 1..(n - 1) /\ IsData(chain, DataBefore(chain, n))
         /\ \A k \in (DataBefore(chain, n) + 1)..(n - 1) : ~IsData(chain, k)
  BY <1>1, DataBeforeFinds
<1>3. v \in Value /\ Tip(chain) = v
  BY <1>1, DataIsValue DEF Tip
<1>4. \/ wire = FullWire(v)
      \/ wire = CarryWire /\ v = old /\ old # None
      \/ wire = DeltaWire(old, v) /\ old # None
  <2>1. CASE force \/ DataBefore(chain, n) = 0
             \/ \E i \in (DataBefore(chain, n) + 1)..(n - 1) : ~IsData(chain, i)
    BY <2>1 DEF AnchorWire
  <2>2. CASE /\ ~force /\ DataBefore(chain, n) # 0
             /\ \A i \in (DataBefore(chain, n) + 1)..(n - 1) : IsData(chain, i)
    <3>1. heartbeat # 1
      BY <2>2, <1>1 DEF ForceSnapshot
    <3>2. DataBefore(chain, n) = n - 1 /\ n > 1
      <4>1. DataBefore(chain, n) \in 1..(n - 1)
        BY <2>2, <1>2
      <4>2. n - 1 \notin (DataBefore(chain, n) + 1)..(n - 1)
        BY <2>2, <1>2
      <4> QED
        BY <4>1, <4>2, <1>1
    <3>3. chain[DataBefore(chain, n)].value = old /\ old # None
      <4>3. n # 1
        <5>1. \A k \in Nat : k > 1 => k # 1
          OBVIOUS
        <5> QED
          BY <5>1, <3>2, <1>1
      <4>1. chain[n - 1].value = old /\ n # 1
        BY <3>1, <3>2, <4>3
      <4>2. old = Closed \/ old \in Value
        BY <3>1, <4>1
      <4> QED
        BY <3>2, <4>1, <4>2, ArgosAssumption
    <3>4. wire = IF old = v THEN CarryWire
                 ELSE IF <<old, v>> \in Covered[c] THEN DeltaWire(old, v)
                 ELSE FullWire(v)
      BY <2>2, <3>3 DEF AnchorWire
    <3> HIDE DEF wire, v
    <3> QED
      BY <3>3, <3>4
  <2> QED
    BY <2>1, <2>2
<1>5. wire.action \in {"FULL", "CARRY", "DELTA", "CLOSED"}
  BY <1>4 DEF FullWire, CarryWire, DeltaWire
<1> DEFINE kept == [sent EXCEPT !.chain = <<sent.chain[Len(sent.chain)]>>]
<1>6. /\ wire.action = "FULL" => out = Emit(kept, <<wire>>)
      /\ wire.action # "FULL" => out = Emit(sent, <<wire>>)
  BY DEF EmitAnchor
<1>7. Tells(<<wire>>, old, v)
  <2> HIDE DEF wire, v
  <2> QED
    BY <1>3, <1>4 DEF Tells
<1> HIDE DEF wire
<1>8. sent \in Checkpointer /\ sent.chain = chain
  <2>1. \A action \in {"FULL", "CARRY", "DELTA", "CLOSED"} :
          Sent(ck, action, t) \in Checkpointer /\ Sent(ck, action, t).chain = chain
    BY SentType
  <2> QED
    BY <2>1, <1>5
<1> HIDE DEF sent, out
<1>9. CASE wire.action = "FULL"
  <2>1. kept.chain = <<chain[n]>>
    BY <1>8 DEF Checkpointer
  <2> HIDE DEF kept
  <2>2. out.ckpt.chain = <<chain[n]>> /\ out.wires = <<wire>>
    BY <2>1, <1>6, <1>9 DEF Emit
  <2>3. Tip(<<chain[n]>>) = v
    BY DEF Tip
  <2> QED
    BY <2>2, <2>3, <1>3, <1>7 DEF out
<1>10. CASE wire.action # "FULL"
  <2>1. out.ckpt.chain = chain /\ out.wires = <<wire>>
    BY <1>6, <1>8, <1>10 DEF Emit
  <2> QED
    BY <2>1, <1>3, <1>7 DEF out
<1> QED
  BY <1>9, <1>10

LEMMA CheckpointTip ==
    ASSUME NEW chain \in Seq(Node), NEW window \in Nat, NEW staged \in Seq(Value),
           NEW closes \in BOOLEAN, staged # <<>>
    PROVE  LET new == Checkpoint(chain, window, staged, closes)
           IN  /\ new[Len(new)].value = staged[Len(staged)]
               /\ \A i \in 1..Len(new) : \/ new[i].window = window
                                         \/ i \in 1..Len(chain) /\ new[i] = chain[i]
<1> DEFINE nodes == Nodes(window, staged)
           new == chain \o nodes
<1>1. Checkpoint(chain, window, staged, closes) = new
  BY DEF Checkpoint, Nodes
<1>2. /\ nodes \in Seq(Node) /\ Len(nodes) = Len(staged)
      /\ \A i \in 1..Len(staged) : nodes[i].window = window /\ nodes[i].value = staged[i]
  <2>1. \A i \in 1..Len(staged) : nodes[i].value = staged[i]
    BY LenProperties DEF Nodes
  <2> QED
    BY <2>1, NodesType
<1>3. Len(staged) \in Nat /\ Len(staged) > 0 /\ Len(chain) \in Nat
  BY SeqFacts
<1> HIDE DEF nodes
<1>7. nodes \in Seq(Node)
  BY <1>2
<1>4. /\ Len(new) = Len(chain) + Len(nodes)
      /\ \A i \in 1..(Len(chain) + Len(nodes)) :
           new[i] = IF i <= Len(chain) THEN chain[i] ELSE nodes[i - Len(chain)]
  BY <1>7, ConcatProperties
<1> HIDE DEF new
<1>5. new[Len(new)].value = staged[Len(staged)]
  <2>1. /\ Len(chain) + Len(nodes) \in 1..(Len(chain) + Len(nodes))
        /\ ~(Len(chain) + Len(nodes) <= Len(chain))
        /\ Len(chain) + Len(nodes) - Len(chain) = Len(nodes)
        /\ Len(staged) \in 1..Len(staged)
    BY <1>2, <1>3
  <2> QED
    BY <2>1, <1>2, <1>4
<1>6. ASSUME NEW i \in 1..Len(new)
      PROVE  new[i].window = window \/ (i \in 1..Len(chain) /\ new[i] = chain[i])
  <2>1. CASE i <= Len(chain)
    BY <2>1, <1>3, <1>4
  <2>2. CASE ~(i <= Len(chain))
    <3>1. i - Len(chain) \in 1..Len(staged) /\ new[i] = nodes[i - Len(chain)]
      BY <2>2, <1>2, <1>3, <1>4
    <3> QED
      BY <3>1, <1>2
  <2> QED
    BY <2>1, <2>2
<1> QED
  BY <1>1, <1>5, <1>6

LEMMA CloseTip ==
    ASSUME NEW chain \in Seq(Node), NEW window \in Nat, NEW new,
           new = Append(chain, [window |-> window, value |-> Closed])
    PROVE  /\ new \in Seq(Node) /\ Len(new) = Len(chain) + 1 /\ Len(chain) \in Nat
           /\ new[Len(new)].value = Closed
           /\ \A i \in 1..Len(new) : \/ new[i].window = window
                                     \/ i \in 1..Len(chain) /\ new[i] = chain[i]
<1> DEFINE tip == [window |-> window, value |-> Closed]
<1>1. tip \in Node /\ tip.window = window /\ tip.value = Closed /\ new = Append(chain, tip)
  BY DEF Node
<1> HIDE DEF tip
<1>2. /\ new \in Seq(Node) /\ Len(new) = Len(chain) + 1 /\ Len(chain) \in Nat
      /\ \A i \in 1..(Len(chain) + 1) : new[i] = IF i <= Len(chain) THEN chain[i] ELSE tip
  BY <1>1, AppendProperties, LenProperties
<1>3. /\ ~(Len(chain) + 1 <= Len(chain)) /\ Len(chain) + 1 \in 1..(Len(chain) + 1)
      /\ \A i \in 1..(Len(chain) + 1) : i <= Len(chain) => i \in 1..Len(chain)
  BY <1>2
<1> QED
  BY <1>1, <1>2, <1>3

\* The tip of a chain that is not empty is a value or a close.
LEMMA TipIs ==
    ASSUME NEW chain \in Seq(Node)
    PROVE  /\ chain # <<>> => /\ Tip(chain) = chain[Len(chain)].value
                              /\ Tip(chain) \in Value \cup {Closed} /\ Tip(chain) # None
           /\ chain = <<>> => Tip(chain) = None
<1>1. chain # <<>> => chain[Len(chain)] \in Node
  <2>1. chain # <<>> => Len(chain) \in 1..Len(chain)
    BY SeqFacts
  <2> QED
    BY <2>1, SeqFacts
<1> QED
  BY <1>1, ArgosAssumption DEF Tip, Node

\* A collectable's records tell what the ledger says of it.
LEMMA SendingTells ==
    ASSUME Inv, TruthInv, NEW c \in Cid, NEW entry \in Ledger, Single(entry),
           Older(ckpt[c].chain, entry.window),
           c \in entry.closing => truth[c] # None \/ entry.staged[c] # <<>>
    PROVE  /\ Tells(Sending(c, entry).wires, truth[c], Collected(c, truth[c], entry))
           /\ Tip(Sending(c, entry).ckpt.chain) = Collected(c, truth[c], entry)
           /\ Older(Sending(c, entry).ckpt.chain, entry.window + 1)
           /\ truth[c] # None \/ entry.staged[c] # <<>> =>
                Collected(c, truth[c], entry) # None
<1> DEFINE chain == ckpt[c].chain
           staged == entry.staged[c]
           closes == c \in entry.closing
           ck == Loaded(c, entry)
           new == Checkpoint(chain, entry.window, staged, closes)
           w == Collected(c, truth[c], entry)
           out == Sending(c, entry)
           t == entry.time
<1>1. /\ ckpt[c] \in Checkpointer /\ chain \in Seq(Node) /\ Len(chain) \in Nat
      /\ staged \in Seq(Value) /\ Len(staged) \in Nat
      /\ entry.window \in Nat /\ t \in Nat /\ closes \in BOOLEAN
      /\ truth[c] = Tip(chain) /\ heartbeat \in Nat \ {0}
  BY SeqFacts, SetupType DEF Inv, TypeOK, Checkpointer, Ledger, TruthInv
<1>2. ck \in Checkpointer /\ ck.chain = new
  <2>1. ck \in Checkpointer
    BY LoadedReady
  <2>2. ck = [ckpt[c] EXCEPT !.chain = new]
    BY DEF Loaded
  <2> HIDE DEF new, ck, chain
  <2> QED
    BY <2>1, <2>2, <1>1 DEF Checkpointer
<1>3. new \in Seq(Node) /\ Len(new) \in Nat /\ (new # <<>> <=> Len(new) > 0)
  BY <1>2, SeqFacts DEF Checkpointer
<1>4. out = Encode(c, ck, entry.window, t)
  BY DEF Sending
<1>5. w = IF staged # <<>> THEN staged[Len(staged)]
          ELSE IF closes /\ truth[c] # None THEN Closed ELSE truth[c]
  BY DEF Collected
<1>6. \A k \in 1..Len(chain) : chain[k].window < entry.window /\ chain[k].window \in Nat
  <2>1. \A k \in 1..Len(chain) : chain[k] \in Node
    BY <1>1, SeqFacts
  <2> QED
    BY <2>1 DEF Older, Node
<1> HIDE DEF ck, new, w, out, staged, closes
<1>7. CASE staged # <<>>
  <2>1. /\ Len(new) = Len(chain) + Len(staged) /\ Len(staged) > 0
        /\ IsData(new, Len(new)) /\ new[Len(new)].window = entry.window
        /\ \A i \in 1..Len(chain) : new[i] = chain[i]
        /\ new[Len(new)].value = staged[Len(staged)]
        /\ \A i \in 1..Len(new) : \/ new[i].window = entry.window
                                  \/ i \in 1..Len(chain) /\ new[i] = chain[i]
    <3> HIDE DEF chain
    <3>3. /\ chain \in Seq(Node) /\ entry.window \in Nat /\ staged \in Seq(Value)
          /\ closes \in BOOLEAN
      BY <1>1
    <3>1. /\ Len(new) = Len(chain) + Len(staged) /\ Len(staged) > 0
          /\ IsData(new, Len(new)) /\ new[Len(new)].window = entry.window
          /\ \A i \in 1..Len(chain) : new[i] = chain[i]
      BY <3>3, <1>7, CheckpointStaged DEF new
    <3>2. /\ new[Len(new)].value = staged[Len(staged)]
          /\ \A i \in 1..Len(new) : \/ new[i].window = entry.window
                                    \/ i \in 1..Len(chain) /\ new[i] = chain[i]
      BY <3>3, <1>7, CheckpointTip DEF new
    <3> QED
      BY <3>1, <3>2
  <2>2. Len(new) > 0
    BY <2>1, <1>1
  <2>3. Participated(ck, entry.window) /\ new # <<>>
    BY <2>1, <2>2, <1>2, <1>3 DEF Participated
  <2>4. out = EmitAnchor(c, ck, t)
    BY <2>1, <2>3, <1>2, <1>4 DEF Encode
  <2>5. Tip(new) = w
    BY <2>1, <2>3, <1>5, <1>7 DEF Tip
  <2>6. heartbeat # 1 => /\ Len(new) > 1 => new[Len(new) - 1].value = truth[c]
                         /\ \/ truth[c] = Closed \/ truth[c] \in Value
                            \/ Len(new) = 1
    <3>1. SUFFICES ASSUME heartbeat # 1
                   PROVE  /\ Len(new) > 1 => new[Len(new) - 1].value = truth[c]
                          /\ \/ truth[c] = Closed \/ truth[c] \in Value
                             \/ Len(new) = 1
      OBVIOUS
    <3>2. Len(staged) <= 1
      BY <3>1 DEF Single, staged
    <3>3. Len(new) = Len(chain) + 1
      <4>1. \A k \in Nat : k > 0 /\ k <= 1 => k = 1
        OBVIOUS
      <4> QED
        BY <4>1, <3>2, <2>1, <1>1
    <3>4. Len(new) - 1 = Len(chain)
      BY <3>3, <1>1
    <3>5. CASE chain = <<>>
      <4>1. Len(new) = 1 /\ ~(1 > 1)
        BY <3>3, <3>5, EmptySeq
      <4> QED
        BY <4>1
    <3>6. CASE chain # <<>>
      <4>1. Len(chain) \in 1..Len(chain)
        BY <3>6, <1>1, SeqFacts
      <4>2. truth[c] = chain[Len(chain)].value /\ truth[c] \in Value \cup {Closed}
        BY <3>6, <1>1, TipIs
      <4> QED
        BY <4>1, <4>2, <3>4, <2>1
    <3> QED
      BY <3>5, <3>6
  <2>7. /\ Tells(out.wires, truth[c], Tip(new))
        /\ Tip(out.ckpt.chain) = Tip(new)
        /\ out.ckpt.chain = new \/ out.ckpt.chain = <<new[Len(new)]>>
    <3>1. /\ Len(ck.chain) > 0 /\ IsData(ck.chain, Len(ck.chain))
          /\ heartbeat # 1 =>
               /\ Len(ck.chain) > 1 => ck.chain[Len(ck.chain) - 1].value = truth[c]
               /\ truth[c] = Closed \/ truth[c] \in Value \/ Len(ck.chain) = 1
      BY <2>1, <2>2, <2>6, <1>2
    <3>2. /\ Tells(EmitAnchor(c, ck, t).wires, truth[c], Tip(ck.chain))
          /\ Tip(EmitAnchor(c, ck, t).ckpt.chain) = Tip(ck.chain)
          /\ \/ EmitAnchor(c, ck, t).ckpt.chain = ck.chain
             \/ EmitAnchor(c, ck, t).ckpt.chain = <<ck.chain[Len(ck.chain)]>>
      <4> HIDE DEF t
      <4>1. ck \in Checkpointer /\ t \in Nat /\ heartbeat \in Nat \ {0}
        BY <1>1, <1>2
      <4> QED
        BY <3>1, <4>1, AnchorTells
    <3> QED
      BY <3>2, <2>4, <1>2
  <2>8. Older(new, entry.window + 1)
    <3> SUFFICES ASSUME NEW k \in 1..Len(new) PROVE new[k].window < entry.window + 1
      BY DEF Older
    <3>1. new[k].window = entry.window \/ (k \in 1..Len(chain) /\ new[k] = chain[k])
      BY <2>1
    <3>2. new[k].window = entry.window \/ (new[k].window < entry.window
                                            /\ new[k].window \in Nat)
      BY <3>1, <1>6
    <3>3. entry.window \in Nat
      BY <1>1
    <3> QED
      BY <3>2, <3>3
  <2>9. Older(out.ckpt.chain, entry.window + 1)
    <3>1. Older(<<new[Len(new)]>>, entry.window + 1)
      BY <2>1, <1>1 DEF Older
    <3> QED
      BY <3>1, <2>7, <2>8
  <2>10. w # None
    <3>1. staged[Len(staged)] \in Value
      <4>1. Len(staged) \in 1..Len(staged)
        BY <2>1, <1>1
      <4> QED
        BY <4>1, <1>1, SeqFacts
    <3> QED
      BY <3>1, <1>5, <1>7, ArgosAssumption
  <2> QED
    BY <2>5, <2>7, <2>9, <2>10 DEF out, w
<1>8. CASE staged = <<>> /\ closes
  <2>1. truth[c] # None
    BY <1>8 DEF staged, closes
  <2>2. new = Append(chain, [window |-> entry.window, value |-> Closed])
    BY <1>8 DEF new, Checkpoint
  <2>3. /\ Len(new) = Len(chain) + 1 /\ new[Len(new)].window = entry.window
        /\ new[Len(new)].value = Closed
        /\ \A i \in 1..Len(new) : \/ new[i].window = entry.window
                                  \/ i \in 1..Len(chain) /\ new[i] = chain[i]
    BY <2>2, <1>1, CloseTip, CloseAppended
  <2>4. Len(new) > 0 /\ new # <<>>
    BY <2>3, <1>1, <1>3
  <2>5. Participated(ck, entry.window) /\ ~IsData(new, Len(new))
    BY <2>3, <2>4, <1>2 DEF Participated, IsData
  <2>6. out = EmitClosed(ck, t)
    BY <2>5, <1>2, <1>4 DEF Encode
  <2>7. w = Closed /\ Tip(new) = Closed /\ Closed # None
    BY <2>1, <2>3, <2>4, <1>5, <1>8, ArgosAssumption DEF Tip
  <2>8. Tells(out.wires, truth[c], Closed) /\ out.ckpt.chain = new
    BY <2>1, <2>6, <1>1, <1>2, ClosedTells
  <2>9. Older(new, entry.window + 1)
    <3> SUFFICES ASSUME NEW k \in 1..Len(new) PROVE new[k].window < entry.window + 1
      BY DEF Older
    <3>1. new[k].window = entry.window \/ (k \in 1..Len(chain) /\ new[k] = chain[k])
      BY <2>3
    <3>2. new[k].window = entry.window \/ (new[k].window < entry.window
                                            /\ new[k].window \in Nat)
      BY <3>1, <1>6
    <3>3. entry.window \in Nat
      BY <1>1
    <3> QED
      BY <3>2, <3>3
  <2> QED
    BY <2>7, <2>8, <2>9, <1>8 DEF out, w, staged
<1>9. CASE staged = <<>> /\ ~closes
  <2>1. new = chain /\ w = truth[c]
    BY <1>5, <1>9 DEF new, Checkpoint
  <2>2. ~Participated(ck, entry.window)
    <3>1. chain # <<>> => Len(chain) \in 1..Len(chain)
      BY <1>1, SeqFacts
    <3>2. chain # <<>> => chain[Len(chain)].window # entry.window
      BY <3>1, <1>1, <1>6
    <3> QED
      BY <3>2, <2>1, <1>2 DEF Participated
  <2>3. Older(chain, entry.window + 1)
    BY <1>1, <1>6 DEF Older
  <2>4. CASE multiClock
    <3>1. out = Emit(ck, <<>>)
      BY <2>2, <2>4, <1>4 DEF Encode
    <3>2. out.wires = <<>> /\ out.ckpt.chain = chain
      BY <3>1, <2>1, <1>2 DEF Emit
    <3> QED
      BY <3>2, <2>1, <2>3, <1>1, <1>9 DEF Tells, out, w, staged
  <2>5. CASE ~multiClock
    <3>1. out = EmitAbsent(ck, t)
      BY <2>2, <2>5, <1>4 DEF Encode
    <3>2. Tells(out.wires, truth[c], truth[c]) /\ out.ckpt.chain = chain
      BY <3>1, <2>1, <1>1, <1>2, AbsentTells
    <3> QED
      BY <3>2, <2>1, <2>3, <1>1, <1>9 DEF out, w, staged
  <2> QED
    BY <2>4, <2>5
<1> QED
  BY <1>7, <1>8, <1>9
--------------------------------------------------------------------------------
(***************************************************************************)
(* The stager takes a ledger: what was collected stays accounted for.      *)
(***************************************************************************)
\* The ledger taken is the first that waits.
LEMMA HeadWaits ==
    ASSUME Inv, CollectedInv, inbox # <<>>
    PROVE  /\ inbox[1] \in Ledger /\ Single(inbox[1])
           /\ Len(Waiting) \in Nat /\ Len(Waiting) > 0 /\ Waiting[1] = inbox[1]
           /\ \A c \in Cid : Older(ckpt[c].chain, inbox[1].window)
           /\ \A c \in Cid : c \in inbox[1].closing =>
                               truth[c] # None \/ inbox[1].staged[c] # <<>>
<1>1. /\ inbox \in Seq(Ledger) /\ ledger \in Seq(Ledger) /\ Len(ledger) <= 1
      /\ 1 \in 1..Len(inbox)
  BY SeqFacts DEF Inv, TypeOK, LedgerInv
<1>2. inbox[1] \in Ledger /\ Single(inbox[1])
  BY <1>1, SeqFacts DEF Inv, LedgerInv
<1>3. Len(Waiting) \in Nat /\ 1 \in 1..Len(Waiting) /\ Waiting[1] = inbox[1]
  BY <1>1, WaitingIs DEF Waiting
<1>4. \A c \in Cid : Older(ckpt[c].chain, inbox[1].window)
  BY <1>3 DEF CollectedInv, WindowInv
<1>5. ASSUME NEW c \in Cid, c \in inbox[1].closing
      PROVE  truth[c] # None \/ inbox[1].staged[c] # <<>>
  <2>1. Heard(c, 1)
    BY <1>3, <1>5 DEF CollectedInv, CloseInv
  <2>2. \A i \in 1..1 : i = 1
    OBVIOUS
  <2> QED
    BY <2>1, <2>2, <1>3 DEF Heard
<1> QED
  BY <1>2, <1>3, <1>4, <1>5

LEMMA TakenWaits ==
    ASSUME Inv, StagerRuns
    PROVE  /\ Len(Waiting)' \in Nat /\ Len(Waiting) \in Nat
           /\ Len(Waiting) = Len(Waiting)' + 1
           /\ \A i \in 1..Len(Waiting)' : /\ i + 1 \in 1..Len(Waiting)
                                          /\ Waiting'[i] = Waiting[i + 1]
<1>1. /\ inbox # <<>> /\ inbox' = Tail(inbox) /\ ledger' = ledger
  BY DEF StagerRuns, simVars
<1>2. /\ inbox \in Seq(Ledger) /\ ledger \in Seq(Ledger) /\ Len(ledger) <= 1
      /\ Len(inbox) \in Nat /\ Len(inbox) > 0
  BY <1>1, SeqFacts DEF Inv, TypeOK, LedgerInv
<1>3. /\ inbox' \in Seq(Ledger) /\ Len(inbox') = Len(inbox) - 1
      /\ \A i \in 1..Len(inbox') : i + 1 \in 1..Len(inbox) /\ inbox'[i] = inbox[i + 1]
  BY <1>1, <1>2, HeadTailProperties
<1>4. /\ Len(Waiting) \in Nat /\ Len(ledger) \in Nat
      /\ Len(Waiting) = Len(inbox) + Len(ledger)
      /\ \A i \in 1..Len(inbox) : i \in 1..Len(Waiting) /\ Waiting[i] = inbox[i]
      /\ ledger # <<>> => Len(ledger) = 1 /\ Waiting[Len(Waiting)] = ledger[1]
      /\ ledger = <<>> => Len(ledger) = 0
  BY <1>2, WaitingIs DEF Waiting
<1>5. Waiting' = inbox' \o ledger
  BY <1>1 DEF Waiting
<1>6. /\ Len(Waiting') \in Nat
      /\ Len(Waiting') = Len(inbox') + Len(ledger)
      /\ \A i \in 1..Len(inbox') : i \in 1..Len(Waiting') /\ Waiting'[i] = inbox'[i]
      /\ ledger # <<>> => Waiting'[Len(Waiting')] = ledger[1]
  BY <1>2, <1>3, <1>5, WaitingIs
<1>7. Len(Waiting) = Len(Waiting') + 1
  BY <1>2, <1>3, <1>4, <1>6
<1>8. ASSUME NEW i \in 1..Len(Waiting')
      PROVE  i + 1 \in 1..Len(Waiting) /\ Waiting'[i] = Waiting[i + 1]
  <2>1. i + 1 \in 1..Len(Waiting)
    BY <1>4, <1>6, <1>7
  <2>2. CASE i \in 1..Len(inbox')
    BY <2>1, <2>2, <1>3, <1>4, <1>6
  <2>3. CASE i \notin 1..Len(inbox')
    <3>1. Len(inbox') \in Nat
      BY <1>2, <1>3
    <3>2. Len(ledger) # 0
      BY <2>3, <3>1, <1>6
    <3>3. ledger # <<>> /\ Len(ledger) = 1
      BY <3>2, <1>4
    <3>4. i = Len(Waiting')
      BY <2>3, <3>1, <3>3, <1>6
    <3> QED
      BY <3>3, <3>4, <1>4, <1>6, <1>7
  <2> QED
    BY <2>1, <2>2, <2>3
<1> QED
  BY <1>4, <1>6, <1>7, <1>8

\* What the step makes of one collectable.
LEMMA TakenTells ==
    ASSUME Inv, CollectedInv, StagerRuns, NEW c \in Cid
    PROVE  LET entry == inbox[1] IN
           /\ NewRow(entry).wires[c] = Sending(c, entry).wires
           /\ Tells(NewRow(entry).wires[c], truth[c], truth'[c])
           /\ ckpt'[c] = Sending(c, entry).ckpt
           /\ Tip(ckpt'[c].chain) = truth'[c]
           /\ Older(ckpt'[c].chain, entry.window + 1)
           /\ truth[c] # None \/ entry.staged[c] # <<>> => truth'[c] # None
<1> DEFINE entry == inbox[1]
<1>1. /\ inbox # <<>>
      /\ ckpt' = [d \in Cid |-> Sending(d, entry).ckpt]
      /\ truth' = [d \in Cid |-> Collected(d, truth[d], entry)]
  BY DEF StagerRuns
<1>2. /\ entry \in Ledger /\ Single(entry)
      /\ Older(ckpt[c].chain, entry.window)
      /\ c \in entry.closing => truth[c] # None \/ entry.staged[c] # <<>>
  BY <1>1, HeadWaits
<1> HIDE DEF entry
<1>3. NewRow(entry).wires[c] = Sending(c, entry).wires
  BY <1>2, RowType
<1>4. ckpt'[c] = Sending(c, entry).ckpt /\ truth'[c] = Collected(c, truth[c], entry)
  BY <1>1
<1>5. /\ Tells(Sending(c, entry).wires, truth[c], Collected(c, truth[c], entry))
      /\ Tip(Sending(c, entry).ckpt.chain) = Collected(c, truth[c], entry)
      /\ Older(Sending(c, entry).ckpt.chain, entry.window + 1)
      /\ truth[c] # None \/ entry.staged[c] # <<>> =>
           Collected(c, truth[c], entry) # None
  BY <1>2, SendingTells DEF CollectedInv
<1> QED
  BY <1>3, <1>4, <1>5 DEF entry

LEMMA CollectedStagerRuns == Inv /\ Inv' /\ CollectedInv /\ StagerRuns => CollectedInv'
<1> SUFFICES ASSUME Inv, Inv', CollectedInv, StagerRuns PROVE CollectedInv'
  OBVIOUS
<1> DEFINE n == Len(Waiting)'
           e == inbox[1]
<1>1. /\ inbox # <<>> /\ UNCHANGED <<closed, windowId>>
  BY DEF StagerRuns, simVars
<1>2. /\ n \in Nat /\ Len(Waiting) \in Nat /\ Len(Waiting) = n + 1
      /\ \A i \in 1..n : i + 1 \in 1..Len(Waiting) /\ Waiting'[i] = Waiting[i + 1]
  BY TakenWaits
<1>3. /\ e \in Ledger /\ Waiting[1] = e /\ e.window \in Nat
  BY <1>1, HeadWaits DEF Ledger
<1>4. ASSUME NEW c \in Cid
      PROVE  /\ Tip(ckpt'[c].chain) = truth'[c]
             /\ Older(ckpt'[c].chain, e.window + 1)
             /\ truth[c] # None \/ e.staged[c] # <<>> => truth'[c] # None
  BY TakenTells
<1> HIDE DEF n, e
<1>5. TruthInv'
  BY <1>4 DEF TruthInv, Tip
<1>6. WindowInv'
  <2>1. windowId \in Nat /\ e.window < windowId
    BY <1>2, <1>3, 1 \in 1..Len(Waiting) DEF Inv, TypeOK, CollectedInv, WindowInv
  <2>2. ASSUME NEW i \in 1..n
        PROVE  e.window < Waiting'[i].window /\ Waiting'[i].window < windowId'
               /\ Waiting'[i].window \in Nat
    <3>1. i + 1 \in 1..Len(Waiting) /\ 1 \in 1..Len(Waiting) /\ 1 < i + 1
      BY <1>2
    <3>2. e.window < Waiting[i + 1].window /\ Waiting[i + 1].window < windowId
      BY <3>1, <1>3 DEF CollectedInv, WindowInv
    <3>3. Waiting \in Seq(Ledger)
      <4>1. inbox \in Seq(Ledger) /\ ledger \in Seq(Ledger) /\ Len(ledger) <= 1
        BY DEF Inv, TypeOK, LedgerInv
      <4> QED
        BY <4>1, WaitingIs DEF Waiting
    <3>4. Waiting[i + 1] \in Ledger
      BY <3>1, <3>3, SeqFacts
    <3>5. Waiting[i + 1].window \in Nat
      BY <3>4 DEF Ledger
    <3> QED
      BY <3>2, <3>5, <1>1, <1>2
  <2>3. ASSUME NEW i \in 1..n, NEW j \in 1..n, i < j
        PROVE  Waiting'[i].window < Waiting'[j].window
    <3>1. i + 1 \in 1..Len(Waiting) /\ j + 1 \in 1..Len(Waiting) /\ i + 1 < j + 1
      BY <2>3, <1>2
    <3>2. Waiting[i + 1].window < Waiting[j + 1].window
      BY <3>1 DEF CollectedInv, WindowInv
    <3> QED
      BY <3>2, <1>2
  <2>4. ASSUME NEW c \in Cid, NEW w \in Nat, e.window < w
        PROVE  Older(ckpt'[c].chain, w)
    <3>1. ckpt'[c].chain \in Seq(Node)
      BY DEF Inv, TypeOK, Checkpointer
    <3> SUFFICES ASSUME NEW k \in 1..Len(ckpt'[c].chain)
                 PROVE  ckpt'[c].chain[k].window < w
      BY DEF Older
    <3>2. ckpt'[c].chain[k] \in Node
      BY <3>1, SeqFacts
    <3>3. ckpt'[c].chain[k].window \in Nat
      BY <3>2 DEF Node
    <3>4. ckpt'[c].chain[k].window < e.window + 1
      BY <1>4 DEF Older
    <3> QED
      BY <3>3, <3>4, <2>4, <1>3
  <2>5. \A c \in Cid : Older(ckpt'[c].chain, windowId')
    BY <2>1, <2>4, <1>1
  <2>6. \A c \in Cid : \A i \in 1..n : Older(ckpt'[c].chain, Waiting'[i].window)
    BY <2>2, <2>4
  <2> QED
    BY <2>2, <2>3, <2>5, <2>6 DEF WindowInv, Older, n
<1>7. CloseInv'
  <2>1. ASSUME NEW c \in Cid, NEW k \in 0..n, Heard(c, k + 1)
        PROVE  truth'[c] # None \/ \E i \in 1..k : Waiting'[i].staged[c] # <<>>
    <3>1. CASE truth[c] # None
      BY <3>1, <1>4
    <3>2. ASSUME NEW i \in 1..(k + 1), Waiting[i].staged[c] # <<>>
          PROVE  truth'[c] # None \/ \E j \in 1..k : Waiting'[j].staged[c] # <<>>
      <4>1. CASE i = 1
        BY <4>1, <3>2, <1>3, <1>4
      <4>2. CASE i # 1
        <5>1. i - 1 \in 1..k /\ i - 1 \in 1..n /\ (i - 1) + 1 = i
          BY <4>2, <1>2
        <5>2. Waiting'[i - 1] = Waiting[i]
          BY <5>1, <1>2
        <5> QED
          BY <5>1, <5>2, <3>2
      <4> QED
        BY <4>1, <4>2
    <3> QED
      BY <3>1, <3>2, <2>1 DEF Heard
  <2>2. ASSUME NEW c \in Cid, ~closed'[c] PROVE Heard(c, n + 1)
    BY <2>2, <1>1, <1>2 DEF CollectedInv, CloseInv
  <2>3. ASSUME NEW c \in Cid, NEW k \in 1..n, c \in Waiting'[k].closing
        PROVE  Heard(c, k + 1)
    BY <2>3, <1>2 DEF CollectedInv, CloseInv
  <2>4. n \in 0..n /\ \A k \in 1..n : k \in 0..n
    BY <1>2
  <2> QED
    BY <2>1, <2>2, <2>3, <2>4 DEF CloseInv, Heard, n
<1> QED
  BY <1>5, <1>6, <1>7 DEF CollectedInv

LEMMA CollectedNext == Inv /\ Inv' /\ CollectedInv /\ [Next]_vars => CollectedInv'
<1> SUFFICES ASSUME Inv, Inv', CollectedInv, [Next]_vars PROVE CollectedInv'
  OBVIOUS
<1>1. CASE Advance
  BY <1>1, CollectedWaits DEF Advance, Waiting
<1>2. ASSUME NEW c \in Cid, CloseRecord(c) PROVE CollectedInv'
  BY <1>2, CollectedCloseRecord
<1>3. ASSUME NEW c \in Cid, NEW v \in Takes[c], SetValueBytes(c, v) PROVE CollectedInv'
  BY <1>3, CollectedSetValueBytes
<1>4. CASE UNCHANGED vars
  BY <1>4, CollectedWaits DEF vars, simVars, Waiting
<1> QED
  BY <1>1, <1>2, <1>3, <1>4, CollectedPreTeardown, CollectedStagerRuns DEF Next
--------------------------------------------------------------------------------
(***************************************************************************)
(* The rows of a look-back, one after the other.                           *)
(***************************************************************************)
\* What the viewer has seen after each of the first m rows, from what it has at b.
Follows(c, rows, clock, b, m, g) ==
    \A j \in (b + 1)..m : g[j] = Shows(c, rows[j], clock, g[j - 1])

\* A viewer that has gone through a snapshot is right at the last row, whatever it had
\* before.
Tracks(c, rows, clock, v) ==
    \A b \in 0..Len(rows) : \A g :
       /\ Follows(c, rows, clock, b, Len(rows), g)
       /\ \E i \in (b + 1)..Len(rows) : HasFull(rows[i].wires[c])
       => g[Len(rows)] = v

Silent(c, rows) == \A i \in 1..Len(rows) : rows[i].wires[c] = <<>>

ReplayInv ==
    \A c \in Cid :
       /\ Tracks(c, OwnRows(c), setup.clockOf[c], truth[c])
       /\ truth[c] = None => Silent(c, OwnRows(c))

\* Another row.
LEMMA TracksOn ==
    ASSUME NEW c \in Cid, NEW rows \in Seq(Row), NEW row \in Row, NEW clock,
           NEW v, NEW w, Tracks(c, rows, clock, v), v = None => Silent(c, rows),
           clock \in row.clocks, Tells(row.wires[c], v, w)
    PROVE  Tracks(c, Append(rows, row), clock, w)
<1> DEFINE m == Len(rows)
           all == Append(rows, row)
<1>1. /\ m \in Nat /\ Len(all) = m + 1 /\ all[m + 1] = row
      /\ \A i \in 1..m : all[i] = rows[i]
  BY AppendProperties, LenProperties
<1> HIDE DEF all, m
<1> SUFFICES ASSUME NEW b \in 0..(m + 1), NEW g, Follows(c, all, clock, b, m + 1, g),
                    NEW i \in (b + 1)..(m + 1), HasFull(all[i].wires[c])
             PROVE  g[m + 1] = w
  BY <1>1 DEF Tracks, all
<1>2. b <= m /\ m + 1 \in (b + 1)..(m + 1) /\ (m + 1) - 1 = m /\ b \in 0..m
  <2>1. b \in Nat /\ i \in Int /\ b + 1 <= i /\ i <= m + 1
    BY <1>1
  <2> QED
    BY <2>1, <1>1
<1>7. \A seen : (seen = v /\ v # None) \/ HasFull(row.wires[c]) =>
                  Shows(c, row, clock, seen) = w
  BY TellsExactly
<1>3. g[m + 1] = Shows(c, row, clock, g[m])
  BY <1>1, <1>2 DEF Follows
<1>4. CASE HasFull(row.wires[c])
  BY <1>3, <1>4, <1>7
<1>5. CASE ~HasFull(row.wires[c])
  <2>1. i # m + 1
    BY <1>1, <1>5
  <2>2. i \in (b + 1)..m /\ i \in 1..m
    BY <2>1, <1>1, <1>2
  <2>3. HasFull(rows[i].wires[c])
    BY <2>2, <1>1
  <2>4. \A j \in (b + 1)..m : j \in (b + 1)..(m + 1) /\ j \in 1..m
    BY <1>1, <1>2
  <2>5. Follows(c, rows, clock, b, m, g)
    BY <2>4, <1>1 DEF Follows
  <2>6. g[m] = v
    BY <2>2, <2>3, <2>5, <1>2 DEF Tracks, m
  <2>7. v # None
    <3>1. ~(rows[i].wires[c] = <<>>)
      BY <2>3 DEF HasFull
    <3> QED
      BY <3>1, <2>2 DEF Silent, m
  <2> QED
    BY <2>6, <2>7, <1>3, <1>7
<1> QED
  BY <1>4, <1>5

\* The oldest row forgotten.
LEMMA TracksTail ==
    ASSUME NEW c \in Cid, NEW all \in Seq(Row), all # <<>>, NEW clock, NEW w,
           Tracks(c, all, clock, w)
    PROVE  Tracks(c, Tail(all), clock, w)
<1> DEFINE n == Len(all)
           new == Tail(all)
<1>1. n \in Nat /\ n > 0
  BY SeqFacts
<1>2. Len(new) = n - 1 /\ \A j \in 1..(n - 1) : new[j] = all[j + 1]
  BY HeadTailProperties
<1> HIDE DEF n, new
<1> SUFFICES ASSUME NEW b \in 0..(n - 1), NEW g, Follows(c, new, clock, b, n - 1, g),
                    NEW i \in (b + 1)..(n - 1), HasFull(new[i].wires[c])
             PROVE  g[n - 1] = w
  BY <1>2 DEF Tracks, new
<1> DEFINE h == [j \in 0..n |-> g[j - 1]]
<1>3. \A j \in 0..n : h[j] = g[j - 1]
  OBVIOUS
<1> HIDE DEF h
<1>4. ASSUME NEW j \in (b + 2)..n
      PROVE  h[j] = Shows(c, all[j], clock, h[j - 1])
  <2>1. /\ j - 1 \in (b + 1)..(n - 1) /\ j - 1 \in 1..(n - 1) /\ (j - 1) + 1 = j
        /\ j \in 0..n /\ j - 1 \in 0..n
    BY <1>1
  <2>2. g[j - 1] = Shows(c, new[j - 1], clock, g[(j - 1) - 1])
    BY <2>1 DEF Follows
  <2>3. new[j - 1] = all[j]
    BY <2>1, <1>2
  <2> QED
    BY <2>1, <2>2, <2>3, <1>3
<1>5. b + 1 \in 0..n /\ (b + 1) + 1 = b + 2 /\ i + 1 \in (b + 2)..n /\ n \in 0..n
  BY <1>1
<1>6. Follows(c, all, clock, b + 1, n, h)
  BY <1>4, <1>5 DEF Follows
<1>7. HasFull(all[i + 1].wires[c])
  BY <1>1, <1>2
<1>8. h[n] = w
  BY <1>5, <1>6, <1>7 DEF Tracks, n
<1> QED
  BY <1>3, <1>5, <1>8

LEMMA SilentOn ==
    ASSUME NEW c \in Cid, NEW rows \in Seq(Row), NEW row \in Row,
           Silent(c, rows), row.wires[c] = <<>>
    PROVE  Silent(c, Append(rows, row)) /\ Silent(c, Tail(Append(rows, row)))
<1> DEFINE n == Len(rows)
           all == Append(rows, row)
           new == Tail(all)
<1>1. /\ n \in Nat /\ all \in Seq(Row) /\ Len(all) = n + 1 /\ all[n + 1] = row
      /\ \A i \in 1..n : all[i] = rows[i]
  BY AppendProperties, LenProperties
<1>2. all # <<>>
  <2> HIDE DEF all
  <2> QED
    BY <1>1, SeqFacts
<1> HIDE DEF all
<1>3. Len(new) = n /\ \A j \in 1..n : new[j] = all[j + 1]
  BY <1>1, <1>2, HeadTailProperties
<1> HIDE DEF new
<1>4. \A i \in 1..(n + 1) : all[i].wires[c] = <<>>
  BY <1>1 DEF Silent
<1>5. \A j \in 1..n : j + 1 \in 1..(n + 1)
  BY <1>1
<1> QED
  BY <1>1, <1>3, <1>4, <1>5 DEF Silent, all, new

\* What the viewer reads of a collectable after the stager's step.
LEMMA OwnRowsTaken ==
    ASSUME Inv, StagerRuns, NEW c \in Cid
    PROVE  LET row == NewRow(inbox[1])
           IN  /\ row \in Row /\ OwnRows(c) \in Seq(Row)
               /\ OwnClock(c) = {setup.clockOf[c]} /\ UNCHANGED setup
               /\ row.clocks \cap OwnClock(c) = {} =>
                    OwnRows(c)' = OwnRows(c) /\ row.wires[c] = <<>>
               /\ row.clocks \cap OwnClock(c) # {} =>
                    /\ OwnRows(c)' = KeepRecent(Append(OwnRows(c), row))
                    /\ OwnRows(c)'[Len(OwnRows(c)')] = row
<1> DEFINE row == NewRow(inbox[1])
<1>1. /\ inbox # <<>> /\ UNCHANGED setup
      /\ recent' = [filter \in SUBSET Clock |->
                      IF row.clocks \cap filter = {} THEN recent[filter]
                      ELSE KeepRecent(Append(recent[filter], row))]
  BY DEF StagerRuns
<1>2. /\ 1 \in 1..Len(inbox) /\ inbox[1] \in Ledger /\ Single(inbox[1])
      /\ RowsBefore(inbox[1].time)
      /\ heartbeat \in Nat \ {0}
      /\ OwnClock(c) \in SUBSET Clock /\ OwnClock(c)' = OwnClock(c)
      /\ OwnRows(c) = recent[OwnClock(c)] /\ OwnRows(c)' = recent'[OwnClock(c)]
      /\ OwnRows(c) \in Seq(Row) /\ Spread(OwnRows(c))
  <2>1. inbox \in Seq(Ledger) /\ 1 \in 1..Len(inbox)
    BY <1>1, SeqFacts DEF Inv, TypeOK
  <2>2. OwnClock(c)' = OwnClock(c)
    BY <1>1 DEF OwnClock
  <2>3. heartbeat \in Nat \ {0} /\ OwnClock(c) \in SUBSET Clock
    BY SetupType DEF Inv, TypeOK
  <2> QED
    BY <2>1, <2>2, <2>3, SeqFacts DEF Inv, TypeOK, LedgerInv, OrderInv, SpreadInv, OwnRows
<1>3. /\ row \in Row /\ row.time = inbox[1].time
      /\ row.wires[c] = Sending(c, inbox[1]).wires
      /\ row.clocks \cap OwnClock(c) = {} => row.wires[c] = <<>>
  <2>1. /\ NewRow(inbox[1]) \in Row /\ NewRow(inbox[1]).time = inbox[1].time
        /\ \A d \in Cid : NewRow(inbox[1]).wires[d] = Sending(d, inbox[1]).wires
        /\ \A d \in Cid : NewRow(inbox[1]).clocks \cap OwnClock(d) = {} =>
                             Sending(d, inbox[1]).wires = <<>>
    BY <1>2, RowType
  <2> QED
    BY <2>1
<1> HIDE DEF row
<1>4. recent'[OwnClock(c)] = IF row.clocks \cap OwnClock(c) = {} THEN recent[OwnClock(c)]
                             ELSE KeepRecent(Append(recent[OwnClock(c)], row))
  BY <1>1, <1>2
<1>5. Appended(OwnRows(c), row, KeepRecent(Append(OwnRows(c), row)))
  <2>1. \A i \in 1..Len(OwnRows(c)) : OwnRows(c)[i].time < row.time
    BY <1>2, <1>3 DEF RowsBefore
  <2> QED
    BY <2>1, <1>2, <1>3, RowAppended
<1> QED
  BY <1>1, <1>2, <1>3, <1>4, <1>5 DEF Appended, OwnClock, row

LEMMA ReplayInit == Init => ReplayInv
<1> SUFFICES ASSUME Init, NEW c \in Cid
             PROVE  Tracks(c, OwnRows(c), setup.clockOf[c], truth[c]) /\ Silent(c, OwnRows(c))
  BY DEF ReplayInv
<1>1. OwnRows(c) = <<>>
  BY SetupType DEF Init, OwnRows
<1>2. Len(OwnRows(c)) = 0 /\ \A b \in 0..0 : (b + 1)..0 = {}
  BY <1>1
<1> QED
  BY <1>2 DEF Tracks, Silent

LEMMA ReplayStagerRuns ==
    Inv /\ CollectedInv /\ ReplayInv /\ StagerRuns => ReplayInv'
<1> SUFFICES ASSUME Inv, CollectedInv, ReplayInv, StagerRuns, NEW c \in Cid
             PROVE  /\ Tracks(c, OwnRows(c)', setup'.clockOf[c], truth'[c])
                    /\ truth'[c] = None => Silent(c, OwnRows(c)')
  BY DEF ReplayInv, Tracks, Follows, Silent
<1> DEFINE row == NewRow(inbox[1])
           rows == OwnRows(c)
           clock == setup.clockOf[c]
           v == truth[c]
           w == truth'[c]
<1>1. /\ row \in Row /\ rows \in Seq(Row)
      /\ UNCHANGED setup
      /\ row.clocks \cap {clock} = {} => OwnRows(c)' = rows /\ row.wires[c] = <<>>
      /\ row.clocks \cap {clock} # {} => OwnRows(c)' = KeepRecent(Append(rows, row))
  BY OwnRowsTaken
<1>2. /\ Tells(row.wires[c], v, w)
      /\ v # None => w # None
  BY TakenTells
<1>3. Tracks(c, rows, clock, v) /\ (v = None => Silent(c, rows))
  BY DEF ReplayInv
<1>4. w = None => v = None /\ row.wires[c] = <<>>
  BY <1>2, TellsSomething
<1> HIDE DEF row, rows, clock, v, w
<1>5. CASE row.clocks \cap {clock} = {}
  <2>1. w = v
    <3>1. /\ \A x : <<x>> # <<>>
          /\ \A x, y : <<x, y>> # <<>>
      OBVIOUS
    <3>2. row.wires[c] = <<>>
      BY <1>1, <1>5
    <3> QED
      BY <3>1, <3>2, <1>2 DEF Tells
  <2> QED
    BY <2>1, <1>1, <1>3, <1>5 DEF clock, w
<1>6. CASE row.clocks \cap {clock} # {}
  <2> DEFINE all == Append(rows, row)
  <2>1. Tracks(c, all, clock, w)
    <3>1. clock \in row.clocks
      BY <1>6
    <3> QED
      BY <3>1, <1>1, <1>2, <1>3, TracksOn
  <2>2. all \in Seq(Row) /\ all # <<>>
    <3>1. all \in Seq(Row) /\ Len(all) = Len(rows) + 1 /\ Len(rows) \in Nat
      BY <1>1, AppendProperties, LenProperties
    <3> HIDE DEF all
    <3> QED
      BY <3>1, SeqFacts
  <2>3. Tracks(c, Tail(all), clock, w)
    <3> HIDE DEF all
    <3> QED
      BY <2>1, <2>2, TracksTail
  <2>4. w = None => Silent(c, all) /\ Silent(c, Tail(all))
    BY <1>1, <1>3, <1>4, SilentOn
  <2>5. KeepRecent(all) = all \/ KeepRecent(all) = Tail(all)
    BY DEF KeepRecent
  <2>6. OwnRows(c)' = KeepRecent(all)
    BY <1>1, <1>6
  <2> HIDE DEF all
  <2> QED
    BY <2>1, <2>3, <2>4, <2>5, <2>6, <1>1 DEF clock, w
<1> QED
  BY <1>5, <1>6

LEMMA ReplayNext ==
    Inv /\ CollectedInv /\ ReplayInv /\ [Next]_vars => ReplayInv'
<1> SUFFICES ASSUME Inv, CollectedInv, ReplayInv, [Next]_vars PROVE ReplayInv'
  OBVIOUS
<1>1. CASE UNCHANGED <<setup, stagerVars>>
  <2>1. \A c \in Cid : OwnRows(c)' = OwnRows(c) /\ UNCHANGED <<setup, truth>>
    BY <1>1 DEF stagerVars, OwnRows, OwnClock
  <2>2. ASSUME NEW c \in Cid
        PROVE  /\ Tracks(c, OwnRows(c), setup.clockOf[c], truth[c])'
               /\ truth'[c] = None => Silent(c, OwnRows(c))'
    <3>1. /\ Tracks(c, OwnRows(c), setup.clockOf[c], truth[c])
          /\ truth[c] = None => Silent(c, OwnRows(c))
      BY DEF ReplayInv
    <3>2. /\ OwnRows(c)' = OwnRows(c) /\ truth' = truth /\ setup' = setup
      BY <2>1
    <3> QED
      BY <3>1, <3>2 DEF Tracks, Follows, Silent
  <2> QED
    BY <2>2 DEF ReplayInv
<1>2. CASE StagerRuns
  BY <1>2, ReplayStagerRuns
<1>3. CASE Advance \/ PreTeardown \/ UNCHANGED vars
  BY <1>1, <1>3 DEF Advance, PreTeardown, vars
<1>4. ASSUME NEW c \in Cid, CloseRecord(c) PROVE ReplayInv'
  BY <1>1, <1>4 DEF CloseRecord
<1>5. ASSUME NEW c \in Cid, NEW v \in Takes[c], SetValueBytes(c, v) PROVE ReplayInv'
  BY <1>1, <1>5 DEF SetValueBytes
<1> QED
  BY <1>2, <1>3, <1>4, <1>5 DEF Next
--------------------------------------------------------------------------------
(***************************************************************************)
(* What the viewer rebuilds.                                               *)
(***************************************************************************)
LEMMA Least ==
    ASSUME NEW S, S \subseteq Nat, S # {}
    PROVE  \E n \in S : \A m \in S : n <= m
<1>1. PICK n \in S : \A m \in S : ~(<<m, n>> \in OpToRel(<, Nat))
  BY NatLessThanWellFounded, WFMin
<1>2. ASSUME NEW m \in S PROVE n <= m
  <2>1. m \in Nat /\ n \in Nat
    OBVIOUS
  <2>2. ~(m < n)
    BY <1>1, <2>1 DEF OpToRel
  <2> QED
    BY <2>1, <2>2
<1> QED
  BY <1>2

\* A set that holds 0, and with every row the next, holds every row.
LEMMA Climb ==
    ASSUME NEW N \in Nat, NEW S, 0 \in S, \A k \in 0..(N - 1) : k \in S => k + 1 \in S
    PROVE  \A k \in 0..N : k \in S
<1> DEFINE T == {k \in 0..N : k \notin S}
<1>1. SUFFICES ASSUME T # {} PROVE FALSE
  OBVIOUS
<1>2. PICK m \in T : \A k \in T : m <= k
  <2>1. T \subseteq Nat
    OBVIOUS
  <2> HIDE DEF T
  <2> QED
    BY <1>1, <2>1, Least
<1>3. m # 0 /\ m - 1 \in 0..(N - 1) /\ m - 1 \in 0..N /\ m = (m - 1) + 1 /\ ~(m <= m - 1)
  OBVIOUS
<1>4. m - 1 \in S
  BY <1>2, <1>3
<1> QED
  BY <1>3, <1>4

\* The look-back's fold is defined: g holds what has been seen after each row.
LEMMA RebuiltIs ==
    ASSUME NEW c \in Cid, OwnRows(c) \in Seq(Row)
    PROVE  \E g : /\ Rebuilt(c, OwnClock(c)) = g[Len(OwnRows(c))] /\ g[0] = None
                  /\ Follows(c, OwnRows(c), setup.clockOf[c], 0, Len(OwnRows(c)), g)
<1>1. PICK rows \in Seq(Row) : rows = OwnRows(c)
  OBVIOUS
<1>2. PICK clock : clock = setup.clockOf[c]
  OBVIOUS
<1> DEFINE m == Len(rows)
           To(g, k) == g[0] = None /\ \A j \in 1..k : g[j] = Shows(c, rows[j], clock, g[j - 1])
           S == {k \in Nat : \E g : To(g, k)}
           Eq(f) == f = [i \in 0..m |-> IF i = 0 THEN None
                                       ELSE Shows(c, rows[i], clock, f[i - 1])]
<1>3. m \in Nat
  BY SeqFacts
<1> HIDE DEF m
<1>4. 0 \in S
  <2>1. To([i \in {0} |-> None], 0)
    OBVIOUS
  <2> QED
    BY <2>1
<1>5. ASSUME NEW k \in 0..(m - 1), k \in S PROVE k + 1 \in S
  <2>1. PICK g : To(g, k)
    BY <1>5
  <2> DEFINE h == [i \in 0..(k + 1) |-> IF i = k + 1 THEN Shows(c, rows[k + 1], clock, g[k])
                                       ELSE g[i]]
  <2>2. /\ h[k + 1] = Shows(c, rows[k + 1], clock, g[k])
        /\ \A i \in 0..k : h[i] = g[i]
    BY <1>3
  <2> HIDE DEF h
  <2>3. h[0] = None
    BY <2>1, <2>2, <1>3
  <2>4. ASSUME NEW j \in 1..(k + 1) PROVE h[j] = Shows(c, rows[j], clock, h[j - 1])
    <3>1. j - 1 \in 0..k /\ (j = k + 1 \/ j \in 1..k) /\ (k + 1) - 1 = k
      BY <1>3
    <3>2. CASE j = k + 1
      BY <3>1, <3>2, <2>2
    <3>3. CASE j \in 1..k
      BY <3>1, <3>3, <2>1, <2>2
    <3> QED
      BY <3>1, <3>2, <3>3
  <2>5. To(h, k + 1)
    BY <2>3, <2>4
  <2> HIDE DEF To
  <2> QED
    BY <2>5, <1>3
<1>6. PICK g : To(g, m)
  <2>1. m \in S
    <3> HIDE DEF S
    <3>1. \A k \in 0..m : k \in S
      BY <1>3, <1>4, <1>5, Climb
    <3> QED
      BY <3>1, <1>3
  <2> QED
    BY <2>1
<1> DEFINE h == [i \in 0..m |-> g[i]]
<1>7. Eq(h)
  <2>1. \A i \in 0..m : i # 0 => i \in 1..m /\ i - 1 \in 0..m
    BY <1>3
  <2>2. \A i \in 0..m : h[i] = g[i]
    OBVIOUS
  <2>3. h = [i \in 0..m |-> h[i]]
    OBVIOUS
  <2> HIDE DEF h
  <2>4. \A i \in 0..m : h[i] = IF i = 0 THEN None ELSE Shows(c, rows[i], clock, h[i - 1])
    BY <2>1, <2>2, <1>6
  <2> QED
    BY <2>3, <2>4
<1>8. Rebuilt(c, OwnClock(c)) = (CHOOSE f : Eq(f))[m]
  BY <1>1, <1>2 DEF Rebuilt, OwnRows, OwnClock, Shows, m
<1>9. Eq(CHOOSE f : Eq(f))
  BY <1>7
<1> HIDE DEF Eq
<1>10. PICK f : Rebuilt(c, OwnClock(c)) = f[m] /\ Eq(f)
  BY <1>8, <1>9
<1>11. f[0] = None /\ \A j \in (0 + 1)..m : f[j] = Shows(c, rows[j], clock, f[j - 1])
  <2>1. \A j \in (0 + 1)..m : j \in 0..m /\ j # 0
    BY <1>3
  <2> QED
    BY <2>1, <1>3, <1>10 DEF Eq
<1>12. Follows(c, rows, clock, 0, m, f)
  BY <1>11 DEF Follows
<1> QED
  BY <1>1, <1>2, <1>10, <1>11, <1>12 DEF m

\* A collectable of which no row has a record is rebuilt as never collected.
LEMMA SilentRebuilt ==
    ASSUME NEW c \in Cid, NEW rows \in Seq(Row), NEW clock, NEW g, g[0] = None,
           Follows(c, rows, clock, 0, Len(rows), g), Silent(c, rows)
    PROVE  g[Len(rows)] = None
<1> DEFINE m == Len(rows)
           S == {k \in Nat : g[k] = None}
<1>1. m \in Nat
  BY SeqFacts
<1>2. ASSUME NEW k \in 0..(m - 1), k \in S PROVE k + 1 \in S
  <2>1. k + 1 \in (0 + 1)..m /\ k + 1 \in 1..m /\ (k + 1) - 1 = k /\ k + 1 \in Nat
    BY <1>1
  <2>2. g[k + 1] = Shows(c, rows[k + 1], clock, g[k])
    BY <2>1 DEF Follows
  <2>3. rows[k + 1].wires[c] = <<>>
    BY <2>1 DEF Silent
  <2>4. Shows(c, rows[k + 1], clock, g[k]) = g[k]
    BY <2>3, AfterNothing DEF Shows
  <2> QED
    BY <2>1, <2>2, <2>4, <1>2
<1>3. 0 \in S
  OBVIOUS
<1>4. m \in S
  <2> HIDE DEF S, m
  <2>1. \A k \in 0..m : k \in S
    BY <1>1, <1>2, <1>3, Climb
  <2> QED
    BY <2>1, <1>1
<1> QED
  BY <1>4

\* The whole invariant.
FullInv == Inv /\ CollectedInv /\ ReplayInv

LEMMA FullInit == Init => FullInv
  BY InvInit, CollectedInit, ReplayInit DEF FullInv

LEMMA FullNext == FullInv /\ [Next]_vars => FullInv'
  BY InvNext, CollectedNext, ReplayNext DEF FullInv

\* Opening the database at a tick: what the viewer rebuilds from the last heartbeat rows
\* of a collectable's clock is what was collected, for every classifier of changes,
\* every heartbeat and any number of clocks.
THEOREM ReplayIsExact == Spec => []ReplayExact
<1>1. FullInv => ReplayExact
  <2> SUFFICES ASSUME FullInv, NEW c \in Cid, SpeaksFor(c)
               PROVE  Rebuilt(c, OwnClock(c)) = truth[c]
    BY DEF ReplayExact
  <2> USE DEF FullInv
  <2>1. OwnRows(c) \in Seq(Row)
    BY SetupType DEF Inv, TypeOK, OwnRows
  <2>2. PICK g : /\ Rebuilt(c, OwnClock(c)) = g[Len(OwnRows(c))] /\ g[0] = None
                 /\ Follows(c, OwnRows(c), setup.clockOf[c], 0, Len(OwnRows(c)), g)
    BY <2>1, RebuiltIs
  <2>3. CASE truth[c] = None
    <3>1. Silent(c, OwnRows(c))
      BY <2>3 DEF ReplayInv
    <3>2. g[Len(OwnRows(c))] = None
      BY <2>1, <2>2, <3>1, SilentRebuilt
    <3> QED
      BY <2>2, <2>3, <3>2
  <2>4. CASE truth[c] # None
    <3>1. Fresh(ckpt[c], LastTime(OwnRows(c)))
      BY <2>4 DEF Inv, FreshInv
    <3>2. PICK i \in 1..Len(OwnRows(c)) : HasFull(OwnRows(c)[i].wires[c])
      BY <3>1 DEF Inv, SnapshotInv, Reaches, Fresh
    <3>3. i \in (0 + 1)..Len(OwnRows(c)) /\ 0 \in 0..Len(OwnRows(c))
      BY <2>1, SeqFacts
    <3>4. Tracks(c, OwnRows(c), setup.clockOf[c], truth[c])
      BY DEF ReplayInv
    <3>5. g[Len(OwnRows(c))] = truth[c]
      BY <2>2, <3>2, <3>3, <3>4 DEF Tracks
    <3> QED
      BY <2>2, <3>5
  <2> QED
    BY <2>3, <2>4
<1> QED
  BY <1>1, FullInit, FullNext, PTL DEF Spec

\* Playing forward: each row turns what was collected before it into what was collected
\* with it, so a viewer that was right at one tick is right at every later one.
THEOREM PlayingStaysExact == Spec => PlaysForward
<1> DEFINE Plays(c) ==
             OwnRows(c)' # OwnRows(c) /\ truth[c] # None =>
               AfterRow(c, OwnRows(c)'[Len(OwnRows(c)')], OwnClock(c), truth[c]) = truth'[c]
<1>1. FullInv /\ [Next]_vars => \A c \in Cid : Plays(c)
  <2> SUFFICES ASSUME FullInv, [Next]_vars, NEW c \in Cid,
                      OwnRows(c)' # OwnRows(c), truth[c] # None
               PROVE  AfterRow(c, OwnRows(c)'[Len(OwnRows(c)')], OwnClock(c), truth[c])
                        = truth'[c]
    OBVIOUS
  <2>1. StagerRuns
    <3>1. ~UNCHANGED <<setup, recent>>
      BY DEF OwnRows, OwnClock
    <3> QED
      BY <3>1 DEF Next, Advance, CloseRecord, SetValueBytes, PreTeardown, vars, stagerVars
  <2> DEFINE row == NewRow(inbox[1])
             clock == setup.clockOf[c]
  <2>2. /\ OwnClock(c) = {clock}
        /\ row.clocks \cap {clock} = {} => OwnRows(c)' = OwnRows(c)
        /\ row.clocks \cap {clock} # {} => OwnRows(c)'[Len(OwnRows(c)')] = row
    BY <2>1, OwnRowsTaken DEF FullInv
  <2>3. Tells(row.wires[c], truth[c], truth'[c])
    BY <2>1, TakenTells DEF FullInv
  <2> HIDE DEF row, clock
  <2>4. clock \in row.clocks /\ OwnRows(c)'[Len(OwnRows(c)')] = row
    BY <2>2
  <2>5. Shows(c, row, clock, truth[c]) = truth'[c]
    <3>1. PICK r, k, v, w : r = row /\ k = clock /\ v = truth[c] /\ w = truth'[c]
      OBVIOUS
    <3>2. k \in r.clocks /\ Tells(r.wires[c], v, w) /\ v # None
      BY <3>1, <2>3, <2>4
    <3>4. PICK seen : seen = v
      OBVIOUS
    <3>5. (seen = v /\ v # None) \/ HasFull(r.wires[c])
      BY <3>2, <3>4
    <3>6. Shows(c, r, k, seen) = w
      <4> HIDE DEF row, clock
      <4> QED
        BY <3>2, <3>5, TellsExactly
    <3>3. Shows(c, r, k, v) = w
      BY <3>4, <3>6
    <3> QED
      BY <3>1, <3>3
  <2> QED
    BY <2>2, <2>4, <2>5 DEF Shows
<1> QED
  BY <1>1, FullInit, FullNext, PTL DEF Spec, PlaysForward
================================================================================
