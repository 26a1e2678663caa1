------------------------- MODULE ContainerDeltas_proofs -------------------------
(***************************************************************************)
(* Proofs about ContainerDeltas: a delta takes the viewer from one content *)
(* to the next, or is misread, and it is misread exactly when a count of   *)
(* it does not fit its byte or a bin it writes has no bytes.               *)
(***************************************************************************)
EXTENDS ContainerDeltas, FiniteSetTheorems, SequenceTheorems, WellFoundedInduction, TLAPS

--------------------------------------------------------------------------------
(***************************************************************************)
(* Helpers: the least element, counting, sequences.                        *)
(***************************************************************************)
\* The loop over departures ends at one it accepts.
LEMMA FewestIn ==
    ASSUME NEW S \in SUBSET Nat, S # {}
    PROVE  Fewest(S) \in S
<1>1. PICK d \in S : \A e \in S : ~(<<e, d>> \in OpToRel(<, Nat))
  BY NatLessThanWellFounded, WFMin
<1>2. ASSUME NEW e \in S PROVE d <= e
  <2>1. ~(e < d)
    BY <1>1 DEF OpToRel
  <2> QED
    BY <2>1
<1> QED
  BY <1>2 DEF Fewest

\* The first bins in ascending order, as many as the count byte says.
FirstOf(S, n) == {i \in S : Cardinality({j \in S : j < i}) < Byte(n)}

LEMMA ByteFits ==
    ASSUME NEW n \in Nat
    PROVE  /\ n < CountMod => Byte(n) = n
           /\ n >= CountMod => Byte(n) # n
           /\ Byte(n) \in 0..(CountMod - 1)
BY DeltaAssumption DEF Byte

LEMMA FiniteBins ==
    ASSUME NEW n \in Nat, NEW S \in SUBSET (1..n)
    PROVE  IsFiniteSet(S) /\ Cardinality(S) \in 0..n
<1>1. IsFiniteSet(1..n) /\ Cardinality(1..n) = n
  BY FS_Interval
<1>2. IsFiniteSet(S) /\ Cardinality(S) <= n
  BY <1>1, FS_Subset
<1> QED
  BY <1>2, FS_CardinalityType

\* A byte that can hold the count makes the reader take all of it.
LEMMA CountsAll ==
    ASSUME NEW n \in Nat, NEW S \in SUBSET (1..n), Cardinality(S) < CountMod
    PROVE  FirstOf(S, Cardinality(S)) = S
<1>1. IsFiniteSet(S) /\ Cardinality(S) \in Nat
  BY FiniteBins
<1>2. Byte(Cardinality(S)) = Cardinality(S)
  BY <1>1, ByteFits
<1>3. ASSUME NEW i \in S PROVE Cardinality({j \in S : j < i}) < Cardinality(S)
  <2> DEFINE T == {j \in S : j < i}
  <2>1. T \in SUBSET S /\ i \notin T
    OBVIOUS
  <2>2. IsFiniteSet(T) /\ Cardinality(T) <= Cardinality(S) /\ Cardinality(T) # Cardinality(S)
    BY <1>1, <2>1, FS_Subset
  <2>3. Cardinality(T) \in Nat
    BY <2>2, FS_CardinalityType
  <2> QED
    BY <1>1, <2>2, <2>3
<1> QED
  BY <1>2, <1>3 DEF FirstOf

\* One that cannot makes it leave out the last bin.
LEMMA CountsShort ==
    ASSUME NEW n \in Nat, NEW S \in SUBSET (1..n), Cardinality(S) >= CountMod
    PROVE  FirstOf(S, Cardinality(S)) # S
<1>1. IsFiniteSet(S) /\ Cardinality(S) \in Nat
  BY FiniteBins
<1>2. S # {}
  <2>1. Cardinality(S) # 0
    BY <1>1, DeltaAssumption
  <2> QED
    BY <2>1, FS_EmptySet
<1>3. PICK m \in S : \A i \in S : i <= m
  <2> DEFINE Above == {n - i : i \in S}
  <2>0. ASSUME NEW i \in S PROVE n - i \in Nat
    OBVIOUS
  <2>1. Above \in SUBSET Nat /\ Above # {}
    BY <1>2, <2>0
  <2>2. PICK d \in Above : \A e \in Above : ~(<<e, d>> \in OpToRel(<, Nat))
    BY <2>1, NatLessThanWellFounded, WFMin
  <2>3. PICK m \in S : d = n - m
    BY <2>2
  <2>4. ASSUME NEW i \in S PROVE i <= m
    <3>1. n - i \in Above /\ n - i \in Nat /\ d \in Nat
      BY <2>1
    <3>2. ~(n - i < d)
      BY <2>2, <3>1 DEF OpToRel
    <3> QED
      BY <2>3, <3>2
  <2> QED
    BY <2>4
<1>4. {j \in S : j < m} = S \ {m}
  <2>1. ASSUME NEW j \in S PROVE j < m <=> j # m
    <3>1. j \in Nat /\ m \in Nat /\ j <= m
      BY <1>3
    <3> QED
      BY <3>1
  <2> QED
    BY <2>1
<1>5. Cardinality(S \ {m}) = Cardinality(S) - 1
  BY <1>1, FS_RemoveElement
<1>6. ~(Cardinality(S) - 1 < Byte(Cardinality(S)))
  BY <1>1, ByteFits, DeltaAssumption
<1>7. m \notin FirstOf(S, Cardinality(S))
  BY <1>4, <1>5, <1>6 DEF FirstOf
<1> QED
  BY <1>7

LEMMA SameSeq ==
    ASSUME NEW s \in Seq(Value), NEW t \in Seq(Value), Len(s) = Len(t),
           \A i \in 1..Len(s) : s[i] = t[i]
    PROVE  s = t
BY SeqEqual

LEMMA Spliced ==
    ASSUME NEW c \in Seq(Value), NEW a \in Seq(Value), NEW t \in Seq(Value),
           Len(a) <= Len(c), Len(t) = Len(c) - Len(a),
           \A i \in 1..Len(a) : a[i] = c[i],
           \A i \in 1..Len(t) : t[i] = c[i + Len(a)]
    PROVE  a \o t = c
<1>1. /\ a \o t \in Seq(Value) /\ Len(a \o t) = Len(a) + Len(t)
      /\ \A i \in 1..(Len(a) + Len(t)) :
            (a \o t)[i] = IF i <= Len(a) THEN a[i] ELSE t[i - Len(a)]
  BY ConcatProperties
<1>2. Len(a) \in Nat /\ Len(t) \in Nat /\ Len(c) \in Nat /\ Len(a) + Len(t) = Len(c)
  OBVIOUS
<1>3. ASSUME NEW i \in 1..Len(c) PROVE (a \o t)[i] = c[i]
  <2> DEFINE x == (a \o t)[i]
  <2>1. x = IF i <= Len(a) THEN a[i] ELSE t[i - Len(a)]
    <3>1. i \in 1..(Len(a) + Len(t))
      BY <1>2
    <3> QED
      BY <1>1, <3>1, Zenon
  <2> HIDE DEF x
  <2>2. ASSUME i <= Len(a) PROVE x = c[i]
    BY <1>2, <2>1, <2>2
  <2>3. ASSUME ~(i <= Len(a)) PROVE x = c[i]
    <3>1. i - Len(a) \in 1..Len(t) /\ (i - Len(a)) + Len(a) = i
      BY <1>2, <2>3
    <3> QED
      BY <2>1, <2>3, <3>1
  <2>4. x = c[i]
    BY <2>2, <2>3
  <2> QED
    BY <2>4 DEF x
<1>4. Len(a \o t) = Len(c)
  BY <1>1, <1>2, Zenon
<1>5. \A i \in 1..Len(a \o t) : (a \o t)[i] = c[i]
  BY <1>3, <1>4, Zenon
<1> QED
  BY <1>1, <1>4, <1>5, SeqEqual, Zenon

\* Departures at the front and what arrives behind the bins that stay give the new content.
LEMMA SlideExact ==
    ASSUME NEW p \in Seq(Value), NEW c \in Seq(Value), NEW d \in 0..Len(p),
           Len(p) - d <= Len(c), Slides(p, c, d)
    PROVE  /\ SubSeq(c, Len(p) - d + 1, Len(c)) \in Seq(Value)
           /\ Len(SubSeq(c, Len(p) - d + 1, Len(c))) = Arrivals(p, c, d)
           /\ SubSeq(p, d + 1, Len(p)) \o SubSeq(c, Len(p) - d + 1, Len(c)) = c
<1> DEFINE k == Len(p) - d
           a == SubSeq(p, d + 1, Len(p))
           t == SubSeq(c, Len(p) - d + 1, Len(c))
<1>0. Len(p) \in Nat /\ Len(c) \in Nat /\ k \in Nat /\ d \in Nat
  OBVIOUS
<1>1. \A i \in (d + 1)..Len(p) : p[i] \in Value
  BY <1>0
<1>2. \A i \in (k + 1)..Len(c) : c[i] \in Value
  BY <1>0
<1>3. a \in Seq(Value) /\ Len(a) = k /\ \A i \in 1..k : a[i] = p[i + d]
  <2>1. a \in Seq(Value) /\ Len(a) = (IF d + 1 <= Len(p) THEN Len(p) - (d + 1) + 1 ELSE 0)
          /\ \A i \in 1..(Len(p) - (d + 1) + 1) : a[i] = p[(d + 1) + i - 1]
    BY <1>0, <1>1, SubSeqProperties
  <2> QED
    BY <1>0, <2>1
<1>4. t \in Seq(Value) /\ Len(t) = Len(c) - k /\ \A i \in 1..(Len(c) - k) : t[i] = c[i + k]
  <2>1. t \in Seq(Value) /\ Len(t) = (IF k + 1 <= Len(c) THEN Len(c) - (k + 1) + 1 ELSE 0)
          /\ \A i \in 1..(Len(c) - (k + 1) + 1) : t[i] = c[(k + 1) + i - 1]
    BY <1>0, <1>2, SubSeqProperties
  <2> QED
    BY <1>0, <2>1
<1>5. \A i \in 1..k : c[i] = p[i + d]
  BY <1>0 DEF Slides
<1> HIDE DEF a, t
<1>6. a \o t = c
  BY <1>0, <1>3, <1>4, <1>5, Spliced
<1>7. Len(t) = Arrivals(p, c, d)
  BY <1>0, <1>4 DEF Arrivals
<1> QED
  BY <1>4, <1>6, <1>7, Zenon DEF a, t

--------------------------------------------------------------------------------
(***************************************************************************)
(* A record takes a viewer from one content to the next.                   *)
(***************************************************************************)
Takes(isSparse, from, r, to) ==
    /\ Clean(r) /\ Encodable(r) /\ ReadAsWritten(r)
    /\ Holds(isSparse, from, r)
    /\ Applied(isSparse, from, r) \in {Unknown, to}
    /\ r.action # "CLOSED"

\* Or it is one that cannot be encoded or is not read as it was written.
Misread(r) == ~Clean(r) /\ ~(Encodable(r) /\ ReadAsWritten(r))

Told(isSparse, from, r, to) == Takes(isSparse, from, r, to) \/ Misread(r)

\* A record of departures and arrivals alone, and one of swapped bins alone.
SlideRecord(action, p, c, d, n) ==
    Record(action, NoBins, {}, d, SubSeq(c, Len(p) - d + 1, Len(c)), n)
SwapRecord(action, p, c, n) == Record(action, Only(c, Changed(p, c)), {}, 0, << >>, n)

LEMMA SlideTakes ==
    ASSUME NEW p \in Seq(Value), NEW c \in Seq(Value), Len(p) <= Capacity, Len(c) <= Capacity,
           NEW d \in 0..Len(p), Len(p) - d <= Len(c), Slides(p, c, d),
           NEW action \in {"CONTIG_ARRIVE", "CONTIG_DEPART", "CONTIG_BOOKENDS", "CONTIG_MIMO"},
           NEW n, action = "CONTIG_MIMO" => n = Arrivals(p, c, d) /\ n < CountMod,
           d < CountMod
    PROVE  Takes(FALSE, p, SlideRecord(action, p, c, d, n), c)
<1> DEFINE t == SubSeq(c, Len(p) - d + 1, Len(c))
           r == Record(action, NoBins, {}, d, t, n)
<1>1. t \in Seq(Value) /\ Len(t) = Arrivals(p, c, d) /\ SubSeq(p, d + 1, Len(p)) \o t = c
  BY SlideExact
<1>2. /\ r.action = action /\ r.bins = NoBins /\ r.gone = {} /\ r.departs = d
      /\ r.tail = t /\ r.count = n /\ DOMAIN r.bins = {}
  BY DEF Record, NoBins
<1> HIDE DEF t, r
<1>3. Written(r) = {} /\ ReadOf(r) = {}
  BY <1>2 DEF Written, ReadOf
<1>d. Byte(r.departs) = d
  BY <1>2, ByteFits
<1>n. action = "CONTIG_MIMO" => Byte(r.count) = Len(r.tail)
  <2> SUFFICES ASSUME action = "CONTIG_MIMO" PROVE Byte(n) = n /\ n = Len(t)
    BY <1>2
  <2>1. n \in Nat /\ n < CountMod /\ n = Len(t)
    BY <1>1
  <2> QED
    BY <2>1, ByteFits
<1>4. Clean(r) /\ Encodable(r) /\ ReadAsWritten(r)
  <2>1. Clean(r)
    <3>1. action \in Counted => action = "CONTIG_MIMO"
      BY DEF Counted
    <3> QED
      BY <1>2, <3>1 DEF Clean
  <2> QED
    BY <1>2, <1>3, <1>d, <1>n, <2>1 DEF Encodable, ReadAsWritten
<1>5. ContigHolds(p, r)
  <2>1. ReadOf(r) \cap DOMAIN r.bins = {} /\ d <= Len(p)
    BY <1>3
  <2>2. Len(p) - d + Len(t) = Len(c)
    BY <1>1 DEF Arrivals
  <2> QED
    BY <1>2, <1>d, <2>1, <2>2 DEF ContigHolds
<1>6. ContigApplied(p, r) = c
  <2> DEFINE q == [i \in DOMAIN p |-> IF i \in ReadOf(r) \cap DOMAIN r.bins THEN r.bins[i] ELSE p[i]]
  <2>1. q = p
    <3>1. q = [i \in DOMAIN p |-> p[i]]
      BY <1>3
    <3> QED
      BY <3>1
  <2> QED
    BY <1>1, <1>2, <1>d, <2>1 DEF ContigApplied
<1>7. Holds(FALSE, p, r)
  BY <1>2, <1>5 DEF Holds
<1>8. Applied(FALSE, p, r) \in {Unknown, c}
  BY <1>2, <1>6 DEF Applied
<1> QED
  BY <1>2, <1>4, <1>7, <1>8 DEF Takes, SlideRecord, t, r

LEMMA SlideByOne ==
    ASSUME NEW p \in Seq(Value), NEW c \in Seq(Value), Len(p) <= Capacity, Len(c) <= Capacity,
           Len(p) >= 1, Len(p) - 1 <= Len(c), Slides(p, c, 1),
           NEW action \in {"CONTIG_DEPART", "CONTIG_BOOKENDS"}, NEW n
    PROVE  Takes(FALSE, p, SlideRecord(action, p, c, 1, n), c)
<1> DEFINE d == 1
<1>1. d \in 0..Len(p) /\ Len(p) - d <= Len(c) /\ Slides(p, c, d) /\ d < CountMod
  BY DeltaAssumption
<1>2. /\ action \in {"CONTIG_ARRIVE", "CONTIG_DEPART", "CONTIG_BOOKENDS", "CONTIG_MIMO"}
      /\ action # "CONTIG_MIMO"
  OBVIOUS
<1> HIDE DEF d
<1>3. Takes(FALSE, p, SlideRecord(action, p, c, d, n), c)
  BY <1>1, <1>2, SlideTakes
<1> QED
  BY <1>3 DEF d

LEMMA SlideByNone ==
    ASSUME NEW p \in Seq(Value), NEW c \in Seq(Value), Len(p) <= Len(c), Len(c) <= Capacity,
           Slides(p, c, 0), NEW n
    PROVE  Takes(FALSE, p, SlideRecord("CONTIG_ARRIVE", p, c, 0, n), c)
<1> DEFINE d == 0
           action == "CONTIG_ARRIVE"
<1>1. d \in 0..Len(p) /\ Len(p) - d <= Len(c) /\ Slides(p, c, d) /\ Len(p) <= Capacity /\ d < CountMod
  BY DeltaAssumption
<1>2. /\ action \in {"CONTIG_ARRIVE", "CONTIG_DEPART", "CONTIG_BOOKENDS", "CONTIG_MIMO"}
      /\ action # "CONTIG_MIMO"
  OBVIOUS
<1> HIDE DEF d, action
<1>3. Takes(FALSE, p, SlideRecord(action, p, c, d, n), c)
  BY <1>1, <1>2, SlideTakes
<1> QED
  BY <1>3 DEF d, action

LEMMA SwapTakes ==
    ASSUME NEW p \in Seq(Value), NEW c \in Seq(Value), Len(c) = Len(p), Len(p) <= Capacity,
           NEW action \in {"CONTAINER_SWAP", "CONTAINER_MULTI_SWAP"}, NEW n,
           \A i \in DOMAIN c : c[i] # Vacant,
           action = "CONTAINER_MULTI_SWAP" =>
              n = Cardinality(Changed(p, c)) /\ n < CountMod
    PROVE  Takes(FALSE, p, SwapRecord(action, p, c, n), c)
<1> DEFINE S == Changed(p, c)
           r == Record(action, Only(c, S), {}, 0, << >>, n)
<1>1. /\ r.action = action /\ r.bins = Only(c, S) /\ r.gone = {} /\ r.departs = 0
      /\ r.tail = << >> /\ r.count = n
  BY DEF Record
<1>2. DOMAIN r.bins = S /\ \A i \in S : r.bins[i] = c[i]
  BY <1>1 DEF Only
<1>3. DOMAIN c = 1..Len(c) /\ DOMAIN p = 1..Len(p) /\ S \subseteq DOMAIN p
        /\ \A i \in DOMAIN p \ S : p[i] = c[i]
  BY DEF Changed
<1>4. action = "CONTAINER_MULTI_SWAP" => FirstOf(S, n) = S /\ n < CountMod
  <2> HIDE DEF S, r
  <2>1. action = "CONTAINER_MULTI_SWAP" => n = Cardinality(S) /\ n < CountMod
    BY DEF S
  <2>2. Len(p) \in Nat /\ S \in SUBSET (1..Len(p))
    BY <1>3
  <2> QED
    BY <2>1, <2>2, CountsAll
<1> HIDE DEF S, r
<1>5. Written(r) = S /\ ReadOf(r) = S
  BY <1>1, <1>2, <1>4 DEF Written, ReadOf, Counted, FirstOf
<1>b. Byte(r.departs) = 0
  BY <1>1, ByteFits, DeltaAssumption
<1>6. Clean(r) /\ Encodable(r) /\ ReadAsWritten(r)
  <2>1. Clean(r)
    BY <1>1, <1>2, <1>3, <1>4, DeltaAssumption DEF Clean, Counted
  <2> QED
    BY <1>1, <1>2, <1>3, <1>5, <2>1 DEF Encodable, ReadAsWritten
<1>7. ContigHolds(p, r)
  BY <1>1, <1>2, <1>3, <1>5, <1>b, DeltaAssumption DEF ContigHolds
<1>8. ContigApplied(p, r) = c
  <2> DEFINE q == [i \in DOMAIN p |-> IF i \in ReadOf(r) \cap DOMAIN r.bins THEN r.bins[i] ELSE p[i]]
  <2>1. q = [i \in 1..Len(c) |-> c[i]]
    BY <1>2, <1>3, <1>5
  <2>2. q = c
    BY <2>1, <1>3
  <2>3. SubSeq(c, 1, Len(c)) \o << >> = c
    BY SubSeqFull, ConcatEmptySeq
  <2> QED
    BY <1>1, <1>b, <2>2, <2>3 DEF ContigApplied
<1>9. Holds(FALSE, p, r)
  BY <1>1, <1>7 DEF Holds
<1>10. Applied(FALSE, p, r) \in {Unknown, c}
  BY <1>1, <1>8 DEF Applied
<1> QED
  BY <1>1, <1>6, <1>9, <1>10 DEF Takes, SwapRecord, S, r

\* Nothing has changed.
LEMMA CarryTakes ==
    ASSUME NEW isSparse, NEW c
    PROVE  Takes(isSparse, c, Plain("CARRY"), c)
<1> DEFINE r == Plain("CARRY")
<1>1. r.action = "CARRY" /\ r.bins = NoBins /\ r.gone = {} /\ DOMAIN r.bins = {}
  BY DEF Plain, Record, NoBins
<1> HIDE DEF r
<1>2. Written(r) = {} /\ ReadOf(r) = {}
  BY <1>1 DEF Written, ReadOf
<1>3. Clean(r) /\ Encodable(r) /\ ReadAsWritten(r)
  BY <1>1, <1>2 DEF Clean, Counted, Encodable, ReadAsWritten
<1>4. Holds(isSparse, c, r) /\ Applied(isSparse, c, r) = c
  BY <1>1 DEF Holds, Applied
<1> QED
  BY <1>1, <1>3, <1>4 DEF Takes, r

\* More changes than the byte can count.
LEMMA SwapMisread ==
    ASSUME NEW p \in Seq(Value), NEW c \in Seq(Value), Len(c) = Len(p),
           Cardinality(Changed(p, c)) >= CountMod
    PROVE  Misread(SwapRecord("CONTAINER_MULTI_SWAP", p, c, Cardinality(Changed(p, c))))
<1> DEFINE S == Changed(p, c)
           r == Record("CONTAINER_MULTI_SWAP", Only(c, S), {}, 0, << >>, Cardinality(S))
<1>1. /\ r.action = "CONTAINER_MULTI_SWAP" /\ DOMAIN r.bins = S /\ r.gone = {}
      /\ r.count = Cardinality(S)
  BY DEF Record, Only
<1>2. Len(p) \in Nat /\ S \in SUBSET (1..Len(p))
  BY DEF Changed
<1>3. Cardinality(S) >= CountMod
  OBVIOUS
<1> HIDE DEF S, r
<1>4. FirstOf(S, Cardinality(S)) # S
  BY <1>2, <1>3, CountsShort
<1>5. Written(r) = S /\ ReadOf(r) = FirstOf(S, Cardinality(S))
  BY <1>1 DEF Written, ReadOf, Counted, FirstOf
<1>6. ~ReadAsWritten(r)
  BY <1>4, <1>5 DEF ReadAsWritten
<1>7. ~Clean(r)
  <2>1. Cardinality(S) \in Nat /\ CountMod \in Nat
    BY <1>2, FiniteBins, DeltaAssumption
  <2> QED
    BY <1>1, <1>3, <2>1 DEF Clean, Counted
<1> QED
  BY <1>6, <1>7 DEF Misread, SwapRecord, S, r

\* Same size: nothing, one bin, a shift by one, or several bins.
LEMMA SameSizeTold ==
    ASSUME NEW p \in Seq(Value), NEW c \in Seq(Value), Len(c) = Len(p),
           Len(p) <= Capacity
    PROVE  Told(FALSE, p, SameSizeDelta(p, c), c)
<1> DEFINE S == Changed(p, c)
           many == Cardinality(S) > 1
<1>0. Len(p) \in Nat /\ DOMAIN c = 1..Len(p) /\ DOMAIN p = 1..Len(p)
  OBVIOUS
<1>1. S \in SUBSET (1..Len(p))
  BY <1>0 DEF Changed
<1>2. IsFiniteSet(S) /\ Cardinality(S) \in 0..Len(p)
  BY <1>0, <1>1, FiniteBins
<1>3. \A i \in DOMAIN c : c[i] # Vacant
  BY DeltaAssumption
<1>4. CASE S = {}
  <2>1. SameSizeDelta(p, c) = Plain("CARRY")
    <3>1. Cardinality(S) = 0
      BY <1>4, FS_EmptySet, Zenon
    <3> QED
      BY <1>4, <3>1 DEF SameSizeDelta
  <2>2. \A i \in 1..Len(c) : c[i] = p[i]
    BY <1>0, <1>4 DEF Changed
  <2>3. c = p
    BY <2>2, SameSeq
  <2> QED
    BY <2>1, <2>3, CarryTakes DEF Told
<1>5. CASE S # {} /\ ~many
  <2>1. SameSizeDelta(p, c) = Record("CONTAINER_SWAP", Only(c, S), {}, 0, << >>, 1)
    BY <1>5 DEF SameSizeDelta
  <2> DEFINE action == "CONTAINER_SWAP"
             n == 1
  <2>2. action \in {"CONTAINER_SWAP", "CONTAINER_MULTI_SWAP"} /\ action # "CONTAINER_MULTI_SWAP"
    OBVIOUS
  <2> HIDE DEF action, n
  <2>3. Takes(FALSE, p, SwapRecord(action, p, c, n), c)
    BY <1>3, <2>2, SwapTakes
  <2> QED
    BY <2>1, <2>3 DEF Told, SwapRecord, action, n
<1>6. CASE many /\ Slides(p, c, 1)
  <2>0. S # {}
    <3>1. Cardinality(S) # 0
      BY <1>2, <1>6
    <3> QED
      BY <1>2, <3>1, FS_EmptySet, Zenon
  <2>1. SameSizeDelta(p, c) = Record("CONTIG_BOOKENDS", NoBins, {}, 1, << c[Len(c)] >>, 1)
    BY <1>6, <2>0 DEF SameSizeDelta
  <2>2. Len(p) >= 1
    BY <1>0, <1>2, <1>6
  <2>3. << c[Len(c)] >> = SubSeq(c, Len(p) - 1 + 1, Len(c))
    BY <1>0, <2>2
  <2>4. Takes(FALSE, p, SlideRecord("CONTIG_BOOKENDS", p, c, 1, 1), c)
    <3>1. Len(p) - 1 <= Len(c) /\ Slides(p, c, 1) /\ Len(c) <= Capacity
      BY <1>0, <1>6
    <3>2. "CONTIG_BOOKENDS" \in {"CONTIG_DEPART", "CONTIG_BOOKENDS"}
      OBVIOUS
    <3> QED
      BY <2>2, <3>1, <3>2, SlideByOne, Zenon
  <2> QED
    BY <2>1, <2>3, <2>4 DEF Told, SlideRecord
<1>7. CASE many /\ ~Slides(p, c, 1)
  <2>0. S # {}
    <3>1. Cardinality(S) # 0
      BY <1>2, <1>7
    <3> QED
      BY <1>2, <3>1, FS_EmptySet, Zenon
  <2> DEFINE n == Cardinality(S)
  <2>1. SameSizeDelta(p, c) = SwapRecord("CONTAINER_MULTI_SWAP", p, c, n)
    BY <1>7, <2>0 DEF SameSizeDelta, SwapRecord
  <2>2. CASE n < CountMod
    <3> DEFINE action == "CONTAINER_MULTI_SWAP"
    <3>1. action \in {"CONTAINER_SWAP", "CONTAINER_MULTI_SWAP"}
      OBVIOUS
    <3>2. action = "CONTAINER_MULTI_SWAP" => n = Cardinality(Changed(p, c)) /\ n < CountMod
      BY <2>2
    <3> HIDE DEF action, n
    <3>3. Takes(FALSE, p, SwapRecord(action, p, c, n), c)
      BY <1>3, <3>1, <3>2, SwapTakes
    <3> QED
      BY <2>1, <3>3 DEF Told, action
  <2>3. CASE n >= CountMod
    BY <2>1, <2>3, SwapMisread DEF Told
  <2>4. n \in Nat /\ CountMod \in Nat
    BY <1>2, DeltaAssumption
  <2> HIDE DEF n
  <2>5. n < CountMod \/ n >= CountMod
    BY <2>4
  <2> QED
    BY <2>2, <2>3, <2>5, Zenon
<1> QED
  BY <1>4, <1>5, <1>6, <1>7

LEMMA FullTakes ==
    ASSUME NEW p, NEW c \in Seq(Value), Len(c) <= Capacity
    PROVE  Takes(FALSE, p, ContigFull(c), c)
<1>1. Written(ContigFull(c)) = {}
  BY DEF Written, ContigFull, Record, NoBins
<1> QED
  BY <1>1 DEF Takes, Clean, Counted, Encodable, ReadAsWritten, Holds, Applied, ContigFull, Record, NoBins, ReadOf

\* The other size: one arrival, one departure, or several of both.
LEMMA ResizedTold ==
    ASSUME NEW p \in Seq(Value), NEW c \in Seq(Value), Len(c) # Len(p),
           Len(p) <= Capacity, Len(c) <= Capacity
    PROVE  Told(FALSE, p, ResizedDelta(p, c), c)
<1> DEFINE arrive == Len(c) = Len(p) + 1 /\ Slides(p, c, 0)
           depart == Len(p) = Len(c) + 1 /\ Slides(p, c, 1)
<1>0. Len(p) \in Nat /\ Len(c) \in Nat
  OBVIOUS
<1>1. CASE arrive
  <2>1. ResizedDelta(p, c) = Record("CONTIG_ARRIVE", NoBins, {}, 0, << c[Len(c)] >>, 1)
    BY <1>0, <1>1 DEF ResizedDelta
  <2>2. << c[Len(c)] >> = SubSeq(c, Len(p) - 0 + 1, Len(c))
    BY <1>0, <1>1
  <2>3. Takes(FALSE, p, SlideRecord("CONTIG_ARRIVE", p, c, 0, 1), c)
    <3>1. Len(p) <= Len(c) /\ Slides(p, c, 0)
      BY <1>0, <1>1
    <3> QED
      BY <3>1, SlideByNone, Zenon
  <2> QED
    BY <2>1, <2>2, <2>3 DEF Told, SlideRecord
<1>2. CASE depart
  <2>1. ResizedDelta(p, c) = Record("CONTIG_DEPART", NoBins, {}, 1, << >>, 0)
    BY <1>0, <1>2 DEF ResizedDelta
  <2>2. << >> = SubSeq(c, Len(p) - 1 + 1, Len(c))
    BY <1>0, <1>2, SubSeqEmpty
  <2>3. Takes(FALSE, p, SlideRecord("CONTIG_DEPART", p, c, 1, 0), c)
    <3>1. Len(p) >= 1 /\ Len(p) - 1 <= Len(c) /\ Slides(p, c, 1)
      BY <1>0, <1>2
    <3>2. "CONTIG_DEPART" \in {"CONTIG_DEPART", "CONTIG_BOOKENDS"}
      OBVIOUS
    <3> QED
      BY <3>1, <3>2, SlideByOne, Zenon
  <2> QED
    BY <2>1, <2>2, <2>3 DEF Told, SlideRecord
<1>3. CASE ~arrive /\ ~depart
  <2>1. ResizedDelta(p, c) =
          IF MimoDeparts(p, c) = {} THEN ContigFull(c) ELSE Mimo(p, c)
    BY <1>3 DEF ResizedDelta
  <2>2. CASE MimoDeparts(p, c) = {}
    BY <2>1, <2>2, FullTakes DEF Told
  <2>3. CASE MimoDeparts(p, c) # {}
    <3> DEFINE d == Fewest(MimoDeparts(p, c))
    <3>1. MimoDeparts(p, c) \in SUBSET Nat
      BY <1>0 DEF MimoDeparts
    <3>2. d \in MimoDeparts(p, c)
      BY <2>3, <3>1, FewestIn
    <3>3. /\ d \in 0..Len(p) /\ Slides(p, c, d)
          /\ Arrivals(p, c, d) \in Nat /\ Arrivals(p, c, d) < CountMod
      BY <3>2, DeltaAssumption DEF MimoDeparts
    <3>4. Mimo(p, c) = SlideRecord("CONTIG_MIMO", p, c, d, Arrivals(p, c, d))
      BY DEF Mimo, SlideRecord
    <3> HIDE DEF d
    <3>5. Len(p) - d <= Len(c)
      BY <1>0, <3>3 DEF Arrivals
    <3>6. CASE d < CountMod
      <4>1. Takes(FALSE, p, SlideRecord("CONTIG_MIMO", p, c, d, Arrivals(p, c, d)), c)
        BY <3>3, <3>5, <3>6, SlideTakes
      <4> QED
        BY <2>1, <2>3, <3>4, <4>1 DEF Told
    <3>7. CASE d >= CountMod
      <4> DEFINE r == SlideRecord("CONTIG_MIMO", p, c, d, Arrivals(p, c, d))
      <4>1. r.action = "CONTIG_MIMO" /\ r.departs = d
        BY DEF SlideRecord, Record
      <4> HIDE DEF r
      <4>2. ~Clean(r)
        BY <3>3, <3>7, <4>1, DeltaAssumption DEF Clean, Counted
      <4>3. ~ReadAsWritten(r)
        BY <3>3, <3>7, <4>1, ByteFits DEF ReadAsWritten
      <4> QED
        BY <2>1, <2>3, <3>4, <4>2, <4>3 DEF Told, Misread, r
    <3>8. d \in Nat /\ CountMod \in Nat
      BY <1>0, <3>3, DeltaAssumption
    <3>9. d < CountMod \/ d >= CountMod
      BY <3>8
    <3> QED
      BY <3>6, <3>7, <3>9, Zenon
  <2> QED
    BY <2>2, <2>3
<1> QED
  BY <1>1, <1>2, <1>3

\* A delta of two contiguous contents takes a viewer from the one to the other, unless a
\* count in it does not fit its byte: then it is not read as it was written.
THEOREM ContigDeltaExact ==
    ASSUME NEW p \in Seq(Value), NEW c \in Seq(Value),
           Len(p) <= Capacity, Len(c) <= Capacity
    PROVE  Told(FALSE, p, ContigDelta(p, c), c)
BY SameSizeTold, ResizedTold DEF ContigDelta

--------------------------------------------------------------------------------
(***************************************************************************)
(* Sparse containers; a bin without bytes is not shown.                    *)
(***************************************************************************)
SparseRecord(action, c, set, gone, n) == Record(action, Only(c, set), gone, 0, << >>, n)

Kept(p, c, set, gone) ==
    /\ DOMAIN c = (DOMAIN p \ gone) \cup set
    /\ \A i \in DOMAIN c \ set : p[i] = c[i]

LEMMA ShownBins ==
    ASSUME NEW D \in SUBSET (1..Capacity), NEW p \in [D -> Value \cup {Vacant}]
    PROVE  /\ Occupied(p) \in SUBSET D
           /\ \A i \in D : i \in Occupied(p) <=> p[i] # Vacant
           /\ DOMAIN Only(p, Occupied(p)) = Occupied(p)
           /\ \A i \in Occupied(p) : Only(p, Occupied(p))[i] = p[i]
           /\ Only(p, Occupied(p)) # Nothing
<1>1. Occupied(p) \in SUBSET D /\ \A i \in D : i \in Occupied(p) <=> p[i] # Vacant
  BY DEF Occupied
<1>2. \A i \in Occupied(p) : p[i] \in Value
  BY <1>1
<1>3. Only(p, Occupied(p)) \in [Occupied(p) -> Value]
  BY <1>2 DEF Only
<1>4. Only(p, Occupied(p)) # Nothing
  BY <1>1, <1>3, DeltaAssumption
<1> QED
  BY <1>1, <1>4 DEF Only

LEMMA SparseTakes ==
    ASSUME NEW D \in SUBSET (1..Capacity), NEW E \in SUBSET (1..Capacity),
           NEW p \in [D -> Value \cup {Vacant}], NEW c \in [E -> Value \cup {Vacant}],
           NEW set \in SUBSET E, NEW gone \in SUBSET D, Kept(p, c, set, gone),
           \A i \in set : c[i] # Vacant,
           NEW action \in {"SPARSE_REMOVE", "SPARSE_MULTI_REMOVE", "SPARSE_ADD",
                           "CONTAINER_SWAP", "CONTAINER_MULTI_SWAP"}, NEW n,
           action \in Counted => n = Cardinality(set \cup gone) /\ n < CountMod
    PROVE  Takes(TRUE, Only(p, Occupied(p)), SparseRecord(action, c, set, gone, n),
                 Only(c, Occupied(c)))
<1> DEFINE W == set \cup gone
           r == Record(action, Only(c, set), gone, 0, << >>, n)
           now == Only(p, Occupied(p))
           to == Only(c, Occupied(c))
<1>1. /\ r.action = action /\ r.bins = Only(c, set) /\ r.gone = gone /\ r.departs = 0
      /\ r.tail = << >> /\ r.count = n
  BY DEF Record
<1>2. DOMAIN r.bins = set /\ \A i \in set : r.bins[i] = c[i]
  BY <1>1 DEF Only
<1>3. \A i \in set : r.bins[i] # Vacant
  BY <1>2
<1>5. DOMAIN p = D /\ DOMAIN c = E /\ W \in SUBSET (1..Capacity) /\ Capacity \in Nat
  BY DeltaAssumption
<1>4. action \in Counted => FirstOf(W, n) = W /\ n < CountMod
  <2> SUFFICES ASSUME action \in Counted PROVE FirstOf(W, n) = W /\ n < CountMod
    OBVIOUS
  <2>1. n = Cardinality(W) /\ n < CountMod
    OBVIOUS
  <2> HIDE DEF W
  <2>2. Cardinality(W) < CountMod
    BY <2>1
  <2>3. FirstOf(W, Cardinality(W)) = W
    BY <1>5, <2>2, CountsAll
  <2> QED
    BY <2>1, <2>3
<1>o. /\ Occupied(p) \in SUBSET D /\ DOMAIN now = Occupied(p) /\ now # Nothing
      /\ \A i \in D : i \in Occupied(p) <=> p[i] # Vacant
      /\ \A i \in Occupied(p) : now[i] = p[i]
  BY ShownBins
<1>q. /\ Occupied(c) \in SUBSET E
      /\ \A i \in E : i \in Occupied(c) <=> c[i] # Vacant
  BY ShownBins
<1> HIDE DEF W, r, now
<1>6. Written(r) = W
  BY <1>1, <1>2 DEF Written, W
<1>7. ReadOf(r) = W
  BY <1>1, <1>4, <1>6 DEF ReadOf, FirstOf
<1>8. action # "CONTIG_MIMO" /\ action \notin {"FULL", "CLOSED", "CARRY"}
  OBVIOUS
<1>9. Clean(r) /\ Encodable(r) /\ ReadAsWritten(r)
  <2>1. Clean(r)
    BY <1>1, <1>2, <1>3, <1>4, DeltaAssumption DEF Clean
  <2> QED
    BY <1>1, <1>2, <1>3, <1>6, <1>7, <1>8, <2>1 DEF Encodable, ReadAsWritten
<1>10. SparseHolds(now, r)
  BY <1>5, <1>7, <1>o DEF SparseHolds
<1>11. SparseApplied(now, r) = to
  <2>1. ReadOf(r) \cap DOMAIN r.bins = set /\ ReadOf(r) \cap r.gone = gone
    BY <1>1, <1>2, <1>7 DEF W
  <2>2. SparseApplied(now, r) =
          [i \in (DOMAIN now \ gone) \cup set |-> IF i \in set THEN r.bins[i] ELSE now[i]]
    BY <2>1 DEF SparseApplied
  <2>3. E = (D \ gone) \cup set /\ \A i \in E \ set : p[i] = c[i]
    BY <1>5 DEF Kept
  <2>4. (Occupied(p) \ gone) \cup set = Occupied(c)
    BY <1>o, <1>q, <2>3
  <2>5. SparseApplied(now, r) =
          [i \in Occupied(c) |-> IF i \in set THEN r.bins[i] ELSE now[i]]
    BY <1>o, <2>2, <2>4
  <2>6. ASSUME NEW i \in Occupied(c) PROVE (IF i \in set THEN r.bins[i] ELSE now[i]) = c[i]
    BY <1>2, <1>o, <1>q, <2>3, <2>4
  <2> QED
    BY <2>5, <2>6 DEF Only
<1>12. Holds(TRUE, now, r)
  BY <1>1, <1>8, <1>10 DEF Holds
<1>13. Applied(TRUE, now, r) \in {Unknown, to}
  BY <1>1, <1>8, <1>11 DEF Applied
<1> HIDE DEF to
<1> QED
  BY <1>1, <1>8, <1>9, <1>12, <1>13 DEF Takes, SparseRecord, r, now, to

\* Too many bins for the count, or a bin without bytes.
LEMMA SparseMisread ==
    ASSUME NEW W \in SUBSET (1..Capacity), NEW c, NEW set, NEW gone, W = set \cup gone,
           NEW action, NEW n,
           action \in Counted \ {"CONTIG_MIMO"} => n = Cardinality(W),
           \/ action \in Counted \ {"CONTIG_MIMO"} /\ Cardinality(W) >= CountMod
           \/ \E i \in set : c[i] = Vacant
    PROVE  Misread(SparseRecord(action, c, set, gone, n))
<1> DEFINE r == Record(action, Only(c, set), gone, 0, << >>, n)
<1>1. /\ r.action = action /\ r.bins = Only(c, set) /\ r.gone = gone /\ r.count = n
  BY DEF Record
<1>2. DOMAIN r.bins = set /\ \A i \in set : r.bins[i] = c[i]
  BY <1>1 DEF Only
<1> HIDE DEF r
<1>3. CASE \E i \in set : c[i] = Vacant
  <2>1. ~(\A i \in DOMAIN r.bins : r.bins[i] # Vacant)
    BY <1>2, <1>3
  <2> QED
    BY <2>1 DEF Misread, Clean, ReadAsWritten, SparseRecord, r
<1>4. CASE action \in Counted \ {"CONTIG_MIMO"} /\ Cardinality(W) >= CountMod
  <2>1. Capacity \in Nat /\ Cardinality(W) \in Nat /\ CountMod \in Nat
    BY FiniteBins, DeltaAssumption
  <2>2. FirstOf(W, Cardinality(W)) # W
    BY <1>4, <2>1, CountsShort
  <2>3. Written(r) = W /\ ReadOf(r) = FirstOf(W, Cardinality(W))
    <3>1. Written(r) = W
      BY <1>1, <1>2 DEF Written
    <3> QED
      BY <1>1, <1>4, <3>1 DEF ReadOf, FirstOf
  <2>4. ~ReadAsWritten(r)
    BY <2>2, <2>3 DEF ReadAsWritten
  <2>5. ~Clean(r)
    BY <1>1, <1>4, <2>1 DEF Clean
  <2> QED
    BY <2>4, <2>5 DEF Misread, SparseRecord, r
<1> QED
  BY <1>3, <1>4

LEMMA SparseTold ==
    ASSUME NEW D \in SUBSET (1..Capacity), NEW E \in SUBSET (1..Capacity),
           NEW p \in [D -> Value \cup {Vacant}], NEW c \in [E -> Value \cup {Vacant}],
           NEW set \in SUBSET E, NEW gone \in SUBSET D, Kept(p, c, set, gone),
           NEW action \in {"SPARSE_REMOVE", "SPARSE_MULTI_REMOVE", "SPARSE_ADD",
                           "CONTAINER_SWAP", "CONTAINER_MULTI_SWAP"}, NEW n,
           action \in Counted => n = Cardinality(set \cup gone)
    PROVE  Told(TRUE, Only(p, Occupied(p)), SparseRecord(action, c, set, gone, n),
                Only(c, Occupied(c)))
<1> DEFINE W == set \cup gone
<1>1. W \in SUBSET (1..Capacity) /\ W = set \cup gone
  OBVIOUS
<1>2. Cardinality(W) \in Nat /\ CountMod \in Nat
  BY <1>1, FiniteBins, DeltaAssumption
<1>3. action \in Counted => n = Cardinality(W) /\ action \in Counted \ {"CONTIG_MIMO"}
  OBVIOUS
<1>4. CASE (\A i \in set : c[i] # Vacant) /\ (action \in Counted => n < CountMod)
  BY <1>4, SparseTakes DEF Told
<1> HIDE DEF W
<1>5. CASE \E i \in set : c[i] = Vacant
  BY <1>1, <1>3, <1>5, SparseMisread DEF Told
<1>6. CASE action \in Counted /\ ~(n < CountMod)
  <2>1. Cardinality(W) >= CountMod
    BY <1>2, <1>3, <1>6
  <2> QED
    BY <1>1, <1>3, <1>6, <2>1, SparseMisread DEF Told
<1> QED
  BY <1>4, <1>5, <1>6

LEMMA SparseFullTakes ==
    ASSUME NEW from, NEW E \in SUBSET (1..Capacity), NEW c \in [E -> Value \cup {Vacant}]
    PROVE  Takes(TRUE, from, SparseFull(c), Only(c, Occupied(c)))
<1> DEFINE bins == Only(c, Occupied(c))
           r == Record("FULL", bins, {}, 0, << >>, 0)
<1>1. r.action = "FULL" /\ r.bins = bins /\ r.gone = {}
  BY DEF Record
<1>2. /\ DOMAIN bins \in SUBSET (1..Capacity)
      /\ \A i \in DOMAIN bins : bins[i] # Vacant
  <2>1. /\ Occupied(c) \in SUBSET E /\ \A i \in E : i \in Occupied(c) <=> c[i] # Vacant
        /\ DOMAIN bins = Occupied(c) /\ \A i \in Occupied(c) : bins[i] = c[i]
    BY ShownBins
  <2> HIDE DEF bins
  <2> QED
    BY <2>1
<1>3. SparseFull(c) = r
  BY DEF SparseFull
<1> HIDE DEF r, bins
<1>4. Written(r) = DOMAIN bins /\ ReadOf(r) = DOMAIN bins
  BY <1>1 DEF Written, ReadOf, Counted
<1>5. Clean(r) /\ Encodable(r) /\ ReadAsWritten(r)
  BY <1>1, <1>2, <1>4 DEF Clean, Counted, Encodable, ReadAsWritten
<1>6. Holds(TRUE, from, r) /\ Applied(TRUE, from, r) = bins
  BY <1>1, <1>2 DEF Holds, Applied
<1> QED
  BY <1>1, <1>3, <1>5, <1>6 DEF Takes, bins

\* A delta of two sparse contents takes a viewer from the bins it shows of the one to
\* those of the other, unless a count in it does not fit its byte or a bin in it has no
\* bytes: then it cannot be encoded or is not read as it was written.
THEOREM SparseDeltaExact ==
    ASSUME NEW D \in SUBSET (1..Capacity), NEW E \in SUBSET (1..Capacity),
           NEW p \in [D -> Value \cup {Vacant}], NEW c \in [E -> Value \cup {Vacant}]
    PROVE  Told(TRUE, Only(p, Occupied(p)), SparseDelta(p, c), Only(c, Occupied(c)))
<1> DEFINE removed == Removed(p, c)
           added   == Removed(c, p)
           altered == Altered(p, c)
           removes == removed # {} /\ added = {} /\ altered = {}
                        /\ (Shrinks(p, c) \/ SameCount(p, c))
           adds    == Cardinality(added) = 1 /\ removed = {} /\ altered = {}
                        /\ (Grows(p, c) \/ SameCount(p, c))
           alters  == altered # {} /\ removed = {} /\ added = {} /\ SameCount(p, c)
<1>1. /\ removed \in SUBSET D /\ added \in SUBSET E /\ altered \in SUBSET E
      /\ removed \in SUBSET (1..Capacity) /\ altered \in SUBSET (1..Capacity)
  BY DEF Removed, Altered
<1>3. removes => Kept(p, c, {}, removed)
  BY DEF Kept, Removed, Altered
<1>4. adds => Kept(p, c, added, {})
  BY DEF Kept, Removed, Altered
<1>5. alters => Kept(p, c, altered, {})
  BY DEF Kept, Removed, Altered
<1>6. Only(c, {}) = NoBins
  BY DEF Only, NoBins
<1>9. removes \/ alters => Cardinality(IF removes THEN removed ELSE altered) \in Nat \ {0}
  <2>1. IsFiniteSet(removed) /\ IsFiniteSet(altered)
    BY <1>1, FiniteBins, DeltaAssumption
  <2>2. removed # {} => Cardinality(removed) \in Nat /\ Cardinality(removed) # 0
    BY <2>1, FS_EmptySet, FS_CardinalityType
  <2>3. altered # {} => Cardinality(altered) \in Nat /\ Cardinality(altered) # 0
    BY <2>1, FS_EmptySet, FS_CardinalityType
  <2> QED
    BY <2>2, <2>3
<1>10. CASE removes /\ Cardinality(removed) = 1
  <2> DEFINE action == "SPARSE_REMOVE"
             n == 1
             set == {}
             gone == removed
  <2>1. SparseDelta(p, c) = SparseRecord(action, c, set, gone, n)
    BY <1>6, <1>9, <1>10 DEF SparseDelta, SparseRecord
  <2>2. Kept(p, c, set, gone) /\ set \in SUBSET E /\ gone \in SUBSET D
    BY <1>1, <1>3, <1>10
  <2>3. action \in {"SPARSE_REMOVE", "SPARSE_MULTI_REMOVE", "SPARSE_ADD",
                    "CONTAINER_SWAP", "CONTAINER_MULTI_SWAP"}
    OBVIOUS
  <2>4. action \in Counted => n = Cardinality(set \cup gone)
    BY DEF Counted
  <2> HIDE DEF action, n, set, gone
  <2>5. Told(TRUE, Only(p, Occupied(p)), SparseRecord(action, c, set, gone, n),
             Only(c, Occupied(c)))
    BY <2>2, <2>3, <2>4, SparseTold
  <2> QED
    BY <2>1, <2>5
<1>11. CASE removes /\ Cardinality(removed) > 1
  <2> DEFINE action == "SPARSE_MULTI_REMOVE"
             n == Cardinality(removed)
             set == {}
             gone == removed
  <2>1. SparseDelta(p, c) = SparseRecord(action, c, set, gone, n)
    BY <1>6, <1>9, <1>11 DEF SparseDelta, SparseRecord
  <2>2. Kept(p, c, set, gone) /\ set \in SUBSET E /\ gone \in SUBSET D
    BY <1>1, <1>3, <1>11
  <2>3. action \in {"SPARSE_REMOVE", "SPARSE_MULTI_REMOVE", "SPARSE_ADD",
                    "CONTAINER_SWAP", "CONTAINER_MULTI_SWAP"}
    OBVIOUS
  <2>4. action \in Counted => n = Cardinality(set \cup gone)
    <3>1. set \cup gone = removed
      OBVIOUS
    <3> QED
      BY <3>1
  <2> HIDE DEF action, n, set, gone
  <2>5. Told(TRUE, Only(p, Occupied(p)), SparseRecord(action, c, set, gone, n),
             Only(c, Occupied(c)))
    BY <2>2, <2>3, <2>4, SparseTold
  <2> QED
    BY <2>1, <2>5
<1>12. CASE adds
  <2> DEFINE action == "SPARSE_ADD"
             n == 1
             set == added
             gone == {}
  <2>1. SparseDelta(p, c) = SparseRecord(action, c, set, gone, n)
    BY <1>6, <1>9, <1>12 DEF SparseDelta, SparseRecord
  <2>2. Kept(p, c, set, gone) /\ set \in SUBSET E /\ gone \in SUBSET D
    BY <1>1, <1>4, <1>12
  <2>3. action \in {"SPARSE_REMOVE", "SPARSE_MULTI_REMOVE", "SPARSE_ADD",
                    "CONTAINER_SWAP", "CONTAINER_MULTI_SWAP"}
    OBVIOUS
  <2>4. action \in Counted => n = Cardinality(set \cup gone)
    BY DEF Counted
  <2> HIDE DEF action, n, set, gone
  <2>5. Told(TRUE, Only(p, Occupied(p)), SparseRecord(action, c, set, gone, n),
             Only(c, Occupied(c)))
    BY <2>2, <2>3, <2>4, SparseTold
  <2> QED
    BY <2>1, <2>5
<1>13. CASE alters /\ Cardinality(altered) = 1
  <2> DEFINE action == "CONTAINER_SWAP"
             n == 1
             set == altered
             gone == {}
  <2>1. SparseDelta(p, c) = SparseRecord(action, c, set, gone, n)
    BY <1>6, <1>9, <1>13 DEF SparseDelta, SparseRecord
  <2>2. Kept(p, c, set, gone) /\ set \in SUBSET E /\ gone \in SUBSET D
    BY <1>1, <1>5, <1>13
  <2>3. action \in {"SPARSE_REMOVE", "SPARSE_MULTI_REMOVE", "SPARSE_ADD",
                    "CONTAINER_SWAP", "CONTAINER_MULTI_SWAP"}
    OBVIOUS
  <2>4. action \in Counted => n = Cardinality(set \cup gone)
    BY DEF Counted
  <2> HIDE DEF action, n, set, gone
  <2>5. Told(TRUE, Only(p, Occupied(p)), SparseRecord(action, c, set, gone, n),
             Only(c, Occupied(c)))
    BY <2>2, <2>3, <2>4, SparseTold
  <2> QED
    BY <2>1, <2>5
<1>14. CASE alters /\ Cardinality(altered) > 1
  <2> DEFINE action == "CONTAINER_MULTI_SWAP"
             n == Cardinality(altered)
             set == altered
             gone == {}
  <2>1. SparseDelta(p, c) = SparseRecord(action, c, set, gone, n)
    BY <1>6, <1>9, <1>14 DEF SparseDelta, SparseRecord
  <2>2. Kept(p, c, set, gone) /\ set \in SUBSET E /\ gone \in SUBSET D
    BY <1>1, <1>5, <1>14
  <2>3. action \in {"SPARSE_REMOVE", "SPARSE_MULTI_REMOVE", "SPARSE_ADD",
                    "CONTAINER_SWAP", "CONTAINER_MULTI_SWAP"}
    OBVIOUS
  <2>4. action \in Counted => n = Cardinality(set \cup gone)
    <3>1. set \cup gone = altered
      OBVIOUS
    <3> QED
      BY <3>1
  <2> HIDE DEF action, n, set, gone
  <2>5. Told(TRUE, Only(p, Occupied(p)), SparseRecord(action, c, set, gone, n),
             Only(c, Occupied(c)))
    BY <2>2, <2>3, <2>4, SparseTold
  <2> QED
    BY <2>1, <2>5
<1>15. CASE p = c
  <2>1. SparseDelta(p, c) = Plain("CARRY")
    <3>1. removed = {} /\ added = {} /\ altered = {}
      BY <1>15 DEF Removed, Altered
    <3>2. Cardinality(added) # 1
      BY <3>1, FS_EmptySet
    <3> QED
      BY <1>15, <3>1, <3>2 DEF SparseDelta
  <2> QED
    BY <1>15, <2>1, CarryTakes DEF Told
<1>16. CASE p # c /\ ~removes /\ ~adds /\ ~alters
  <2>1. SparseDelta(p, c) = SparseFull(c)
    BY <1>16 DEF SparseDelta
  <2> QED
    BY <2>1, SparseFullTakes DEF Told
<1>17. /\ removes => Cardinality(removed) = 1 \/ Cardinality(removed) > 1
       /\ alters => Cardinality(altered) = 1 \/ Cardinality(altered) > 1
  <2> HIDE DEF removed, altered
  <2> QED
    BY <1>9
<1> HIDE DEF removes, adds, alters, removed, added, altered
<1> QED
  BY <1>10, <1>11, <1>12, <1>13, <1>14, <1>15, <1>16, <1>17

--------------------------------------------------------------------------------
(***************************************************************************)
(* The viewer, for every sequence of collections, closes and refreshes.    *)
(***************************************************************************)
\* What a viewer shows of a content.
Shows(isSparse, c) == IF isSparse THEN Only(c, Occupied(c)) ELSE c

\* A viewer that does not know the container either learns all of it or nothing.
LEMMA UnknownTakes ==
    ASSUME NEW isSparse \in BOOLEAN, NEW p, NEW c, NEW r, Takes(isSparse, p, r, c)
    PROVE  Takes(isSparse, Unknown, r, c)
BY DEF Takes, Holds, Applied

LEMMA SparseIsFunction ==
    ASSUME NEW c \in Sparses
    PROVE  DOMAIN c \in SUBSET (1..Capacity) /\ c \in [DOMAIN c -> Value \cup {Vacant}]
BY DeltaAssumption

LEMMA FullOfContents ==
    ASSUME sparse \in BOOLEAN, NEW c \in Contents, NEW from
    PROVE  Takes(sparse, from, Full(c), Shows(sparse, c))
<1>1. CASE sparse
  <2>1. c \in Sparses /\ Full(c) = SparseFull(c)
    BY <1>1 DEF Contents, Full
  <2>2. Takes(TRUE, from, SparseFull(c), Only(c, Occupied(c)))
    BY <2>1, SparseIsFunction, SparseFullTakes
  <2> QED
    BY <1>1, <2>1, <2>2 DEF Shows
<1>2. CASE ~sparse
  <2>1. c \in Contigs /\ Full(c) = ContigFull(c)
    BY <1>2 DEF Contents, Full
  <2>2. Takes(FALSE, from, ContigFull(c), c)
    BY <2>1, DeltaAssumption, FullTakes
  <2> QED
    BY <1>2, <2>1, <2>2 DEF Shows
<1> QED
  BY <1>1, <1>2

LEMMA DeltaOfContents ==
    ASSUME sparse \in BOOLEAN, NEW p \in Contents, NEW c \in Contents
    PROVE  Told(sparse, Shows(sparse, p), Delta(p, c), Shows(sparse, c))
<1>1. CASE sparse
  <2>1. p \in Sparses /\ c \in Sparses /\ Delta(p, c) = SparseDelta(p, c)
    BY <1>1 DEF Contents, Delta
  <2>2. Told(TRUE, Only(p, Occupied(p)), SparseDelta(p, c), Only(c, Occupied(c)))
    BY <2>1, SparseIsFunction, SparseDeltaExact
  <2> QED
    BY <1>1, <2>1, <2>2 DEF Shows
<1>2. CASE ~sparse
  <2>1. p \in Contigs /\ c \in Contigs /\ Delta(p, c) = ContigDelta(p, c)
    BY <1>2 DEF Contents, Delta
  <2>2. Told(FALSE, p, ContigDelta(p, c), c)
    BY <2>1, DeltaAssumption, ContigDeltaExact
  <2> QED
    BY <1>2, <2>1, <2>2 DEF Shows
<1> QED
  BY <1>1, <1>2

\* What every reachable state has: the viewer is where the checkpointer's newest data
\* checkpoint is, or knows nothing, or the last record was misread.
ViewerInv ==
    /\ sparse \in BOOLEAN /\ closed \in BOOLEAN /\ legible \in BOOLEAN
    /\ base \in Contents \cup {Nothing}
    /\ base = Nothing => closed
    /\ ShownExact
    /\ Legible

LEMMA HeldIsBase ==
    ASSUME ViewerInv, ~closed
    PROVE  base \in Contents /\ Held = Shows(sparse, base)
BY DEF ViewerInv, Held, Shows

\* A record that the viewer takes, and one that is misread.
LEMMA PlayTakes ==
    ASSUME NEW r, NEW to, Takes(sparse, shown, r, to), Play(r)
    PROVE  legible' = TRUE /\ shown' \in {Unknown, to} /\ Legible'
<1>1. legible' = TRUE /\ shown' \in {Unknown, to} /\ record' = r /\ Clean(r)
  BY DEF Play, Takes
<1>2. Clean(record)' <=> Clean(r)
  BY <1>1 DEF Clean
<1> QED
  BY <1>1, <1>2 DEF Legible

LEMMA PlayMisread ==
    ASSUME NEW r, Misread(r), Play(r)
    PROVE  legible' = FALSE /\ Legible'
<1>1. legible' = FALSE /\ record' = r /\ ~Clean(r)
  BY DEF Play, Misread
<1>2. Clean(record)' <=> Clean(r)
  BY <1>1 DEF Clean
<1> QED
  BY <1>1, <1>2 DEF Legible

LEMMA ViewerInit == ASSUME Init PROVE ViewerInv
<1>1. Clean(record)
  BY DEF Init, Clean, Plain, Record, NoBins, Counted
<1> QED
  BY <1>1 DEF Init, ViewerInv, ShownExact, Legible

LEMMA ViewerStep ==
    ASSUME ViewerInv, [Next]_vars
    PROVE  ViewerInv'
<1> USE DEF ViewerInv
<1>1. ASSUME NEW curr \in Contents, NEW force \in BOOLEAN, Collect(curr, force)
      PROVE  ViewerInv'
  <2> DEFINE full == force \/ base = Nothing \/ closed
             r == IF full THEN Full(curr) ELSE Delta(base, curr)
             to == Shows(sparse, curr)
  <2>1. Told(sparse, shown, r, to)
    <3>1. CASE full
      BY <3>1, FullOfContents DEF Told
    <3>2. CASE ~full
      <4>1. base \in Contents /\ shown \in {Unknown, Shows(sparse, base)}
        BY <1>1, <3>2, HeldIsBase DEF ShownExact, Collect
      <4>2. Told(sparse, Shows(sparse, base), Delta(base, curr), to)
        BY <4>1, DeltaOfContents
      <4>3. Told(sparse, Unknown, Delta(base, curr), to)
        BY <4>2, UnknownTakes DEF Told
      <4> QED
        BY <3>2, <4>1, <4>2, <4>3
    <3> QED
      BY <3>1, <3>2
  <2>2. Play(r) /\ base' = curr /\ closed' = FALSE /\ sparse' = sparse
    BY <1>1 DEF Collect
  <2>3. Held' = to
    BY <2>2 DEF Held, Shows
  <2> HIDE DEF r, to
  <2>4. legible' \in BOOLEAN /\ Legible' /\ (legible' => shown' \in {Unknown, to})
    <3>1. CASE Takes(sparse, shown, r, to)
      BY <2>2, <3>1, PlayTakes
    <3>2. CASE Misread(r)
      BY <2>2, <3>2, PlayMisread
    <3> QED
      BY <2>1, <3>1, <3>2 DEF Told
  <2>5. curr # Nothing
    BY DeltaAssumption DEF Contents
  <2>6. Contents' = Contents
    BY <2>2 DEF Contents
  <2>7. ShownExact'
    BY <2>3, <2>4 DEF ShownExact
  <2> QED
    BY <2>2, <2>4, <2>5, <2>6, <2>7
<1>2. ASSUME Close PROVE ViewerInv'
  <2> DEFINE r == Plain("CLOSED")
  <2>1. r.action = "CLOSED" /\ Clean(r) /\ Encodable(r) /\ ReadAsWritten(r)
    BY DEF Plain, Record, NoBins, Clean, Encodable, ReadAsWritten, Written, ReadOf, Counted
  <2>2. Play(r) /\ closed' = TRUE /\ sparse' = sparse /\ base' = base /\ legible = TRUE
    BY <1>2 DEF Close
  <2> HIDE DEF r
  <2>3. Holds(sparse, shown, r) /\ Applied(sparse, shown, r) = Closing(sparse, shown)
    BY <2>1 DEF Holds, Applied
  <2>4. legible' = TRUE /\ shown' = Closing(sparse, shown) /\ record' = r
    BY <2>1, <2>2, <2>3 DEF Play
  <2>5. Contents' = Contents
    BY <2>2 DEF Contents
  <2>6. ShownExact'
    BY <2>2, <2>4 DEF ShownExact, Closing, Held
  <2>7. Legible'
    BY <2>1, <2>4 DEF Legible, Clean
  <2> QED
    BY <2>2, <2>4, <2>5, <2>6, <2>7
<1>3. ASSUME Refresh PROVE ViewerInv'
  <2> DEFINE r == Full(base)
             to == Shows(sparse, base)
  <2>1. base \in Contents /\ Held = to
    BY <1>3, HeldIsBase DEF Refresh
  <2>2. Takes(sparse, shown, r, to)
    BY <2>1, FullOfContents
  <2>3. Play(r)
    BY <1>3 DEF Refresh
  <2>4. Held' = Held /\ Contents' = Contents
    BY <1>3 DEF Refresh, Held, Contents
  <2> HIDE DEF r, to
  <2>5. legible' = TRUE /\ shown' \in {Unknown, to} /\ Legible'
    BY <2>2, <2>3, PlayTakes
  <2> QED
    BY <1>3, <2>1, <2>4, <2>5 DEF Refresh, ShownExact
<1>4. ASSUME OpenViewer PROVE ViewerInv'
  BY <1>4 DEF OpenViewer, ShownExact, Contents, Legible, Clean
<1>5. ASSUME UNCHANGED vars PROVE ViewerInv'
  BY <1>5 DEF vars, ShownExact, Held, Contents, Legible, Clean
<1> QED
  BY <1>1, <1>2, <1>3, <1>4, <1>5 DEF Next

\* A viewer that has shown a container shows what it holds, for containers of any size
\* and any contents, bins without bytes among them, as long as it could read the records.
THEOREM ShownAlwaysExact == Spec => []ShownExact
<1>1. ViewerInv => ShownExact
  BY DEF ViewerInv
<1> QED
  BY <1>1, ViewerInit, ViewerStep, PTL DEF Spec

\* A record is misread exactly when a count of it does not fit its byte or a bin it
\* writes has no bytes; no other record fails an assertion of the encoder or the viewer.
THEOREM AlwaysLegible == Spec => []Legible
<1>1. ViewerInv => Legible
  BY DEF ViewerInv
<1> QED
  BY <1>1, ViewerInit, ViewerStep, PTL DEF Spec

================================================================================
