------------------------ MODULE PipelineConfig_proofs ------------------------
(***************************************************************************)
(* Proofs about the set-up of pipelines (PipelineConfig.tla), for any      *)
(* apps, stages, ports, bindings and merging.                              *)
(***************************************************************************)
EXTENDS PipelineConfig, TLAPS, FiniteSetTheorems, NaturalsInduction

--------------------------------------------------------------------------------
(***************************************************************************)
(* Numbers and finite sets.                                                *)
(***************************************************************************)
\* A set of natural numbers that is not empty has a least one.
LEMMA Smallest ==
    ASSUME NEW S, S \subseteq Nat, S # {}
    PROVE  \E n \in S : \A m \in S : n <= m
<1>1. PICK n \in S : \A m \in S : ~(<<m, n>> \in OpToRel(<, Nat))
  BY NatLessThanWellFounded, WFMin
<1>2. ASSUME NEW m \in S PROVE n <= m
  <2>1. m \in Nat /\ n \in Nat
    OBVIOUS
  <2>2. ~(m < n)
    BY <1>1, <2>1 DEF OpToRel
  <2> QED
    BY <2>1, <2>2
<1> QED
  BY <1>2

\* One that is bounded has a greatest one.
LEMMA Greatest ==
    ASSUME NEW b \in Nat, NEW S, S \subseteq 0..b, S # {}
    PROVE  \E n \in S : \A m \in S : m <= n
<1> DEFINE T == {b - n : n \in S}
<1>1. T \subseteq Nat /\ T # {}
  <2>1. \A n \in S : b - n \in Nat
    <3>1. \A n \in 0..b : b - n \in Nat
      OBVIOUS
    <3> QED
      BY <3>1
  <2>2. T \subseteq Nat
    BY <2>1
  <2>3. PICK n \in S : TRUE
    OBVIOUS
  <2>4. b - n \in T
    OBVIOUS
  <2> QED
    BY <2>2, <2>4
<1>2. PICK k \in T : \A m \in T : k <= m
  <2> HIDE DEF T
  <2> QED
    BY <1>1, Smallest
<1>3. PICK n \in S : k = b - n
  OBVIOUS
<1>4. ASSUME NEW m \in S PROVE m <= n
  <2>1. b - m \in T
    OBVIOUS
  <2>2. k <= b - m
    BY <1>2, <2>1
  <2>3. m \in Int /\ n \in Int
    OBVIOUS
  <2> QED
    BY <1>3, <2>2, <2>3
<1> QED
  BY <1>4

\* A strict subset of a finite set has fewer elements.
LEMMA Fewer ==
    ASSUME NEW T, IsFiniteSet(T), NEW S, S \subseteq T, NEW x \in T, x \notin S
    PROVE  /\ IsFiniteSet(S) /\ Cardinality(S) \in Nat /\ Cardinality(T) \in Nat
           /\ Cardinality(S) < Cardinality(T)
<1>1. S \in SUBSET T
  OBVIOUS
<1>2. IsFiniteSet(S) /\ Cardinality(S) <= Cardinality(T) /\ (Cardinality(T) = Cardinality(S) => T = S)
  BY <1>1, FS_Subset
<1>3. Cardinality(S) \in Nat /\ Cardinality(T) \in Nat
  BY <1>2, FS_CardinalityType
<1> QED
  BY <1>2, <1>3

\* Counting the elements before each one numbers a finite, totally ordered set from 0 on.
Before(s, S, R) == Cardinality({t \in S : << t, s >> \in R})
TotalOrder(S, R) ==
    /\ \A s \in S : << s, s >> \notin R
    /\ \A s, t, u \in S : << s, t >> \in R /\ << t, u >> \in R => << s, u >> \in R
    /\ \A s, t \in S : s # t => << s, t >> \in R \/ << t, s >> \in R
LEMMA Numbering ==
    ASSUME NEW S, IsFiniteSet(S), NEW R, TotalOrder(S, R)
    PROVE  /\ \A s \in S : Before(s, S, R) \in 0..(Cardinality(S) - 1)
           /\ \A s, t \in S : Before(s, S, R) = Before(t, S, R) => s = t
           /\ \A k \in 0..(Cardinality(S) - 1) : \E s \in S : Before(s, S, R) = k
<1> DEFINE N == Cardinality(S)
<1> DEFINE low(s) == {t \in S : << t, s >> \in R}
<1>1. N \in Nat
  BY FS_CardinalityType
<1>2. ASSUME NEW s \in S PROVE Before(s, S, R) \in 0..(N - 1)
  <2>1. low(s) \subseteq S /\ s \notin low(s)
    BY DEF TotalOrder
  <2>2. Cardinality(low(s)) \in Nat /\ Cardinality(low(s)) < N
    <3> HIDE DEF low
    <3> QED
      BY <2>1, Fewer
  <2>3. Before(s, S, R) = Cardinality(low(s))
    BY DEF Before
  <2> QED
    BY <1>1, <2>2, <2>3
<1>3. ASSUME NEW s \in S, NEW t \in S, << s, t >> \in R
      PROVE  Before(s, S, R) # Before(t, S, R)
  <2>1. low(s) \subseteq low(t) /\ s \in low(t) /\ s \notin low(s)
    BY <1>3 DEF TotalOrder
  <2>2. low(t) \in SUBSET S
    OBVIOUS
  <2>3. IsFiniteSet(low(t))
    <3> HIDE DEF low
    <3> QED
      BY <2>2, FS_Subset
  <2>4. /\ Cardinality(low(s)) \in Nat /\ Cardinality(low(t)) \in Nat
        /\ Cardinality(low(s)) < Cardinality(low(t))
    <3> HIDE DEF low
    <3> QED
      BY <2>1, <2>3, Fewer
  <2>5. Before(s, S, R) = Cardinality(low(s)) /\ Before(t, S, R) = Cardinality(low(t))
    BY DEF Before
  <2> QED
    BY <2>4, <2>5
<1>4. ASSUME NEW s \in S, NEW t \in S, Before(s, S, R) = Before(t, S, R) PROVE s = t
  BY <1>3, <1>4 DEF TotalOrder
<1>5. ASSUME NEW k \in 0..(N - 1) PROVE \E s \in S : Before(s, S, R) = k
  <2> DEFINE f == [s \in S |-> Before(s, S, R)]
             T == 0..(N - 1)
  <2> HIDE DEF N
  <2>1. f \in Injection(S, T)
    <3>1. f \in [S -> T]
      BY <1>2
    <3>2. \A s, t \in S : f[s] = f[t] => s = t
      BY <1>4
    <3> HIDE DEF f, T
    <3> QED
      BY <3>1, <3>2 DEF Injection, IsInjective
  <2>2. IsFiniteSet(T) /\ Cardinality(T) = N
    <3>1. 0 \in Int /\ N - 1 \in Int /\ (0 > N - 1 => N = 0) /\ (N - 1) - 0 + 1 = N
      BY <1>1
    <3> QED
      BY <3>1, FS_Interval
  <2>3. f \in Surjection(S, T)
    <3> HIDE DEF f, T
    <3> QED
      BY <2>1, <2>2, FS_Injection DEF N
  <2>4. PICK s \in S : f[s] = k
    <3>1. k \in T
      BY <1>5
    <3> HIDE DEF f, T
    <3> QED
      BY <2>3, <3>1 DEF Surjection
  <2> QED
    BY <2>4
<1> QED
  BY <1>2, <1>4, <1>5

\* A set all of whose elements are one thing counts one, and none counts none.
LEMMA CountOne ==
    ASSUME NEW S, NEW x \in S, \A y \in S : y = x
    PROVE  Cardinality(S) = 1
<1>1. S = {x}
  OBVIOUS
<1> QED
  BY <1>1, FS_Singleton

(***************************************************************************)
(* Dealing out in turn: of the numbers below N, those that leave r when    *)
(* divided by w.                                                           *)
(***************************************************************************)
\* Quotient and remainder.
LEMMA Division ==
    ASSUME NEW k \in Nat, NEW w \in Nat \ {0}
    PROVE  /\ k \div w \in Nat /\ k % w \in 0..(w - 1)
           /\ k = w * (k \div w) + (k % w)
OBVIOUS

\* They are the only ones.
LEMMA OneRemainder ==
    ASSUME NEW w \in Nat \ {0}, NEW q \in Int, NEW r \in 0..(w - 1),
           NEW p \in Int, NEW s \in 0..(w - 1), w * q + r = w * p + s
    PROVE  r = s
<1>1. ASSUME NEW a \in Int, NEW b \in Int, NEW c \in 0..(w - 1), NEW d \in 0..(w - 1),
             w * a + c = w * b + d, a < b
      PROVE  FALSE
  <2>1. w * a + w <= w * b
    <3>1. PICK e \in Nat : b = a + 1 + e
      <4>1. b - a - 1 \in Nat /\ b = a + 1 + (b - a - 1)
        BY <1>1
      <4> QED
        BY <4>1
    <3>2. w * b = w * a + w + w * e
      BY <3>1
    <3>3. w * e \in Nat
      OBVIOUS
    <3>4. w * a \in Int /\ w * b \in Int
      BY <1>1
    <3> QED
      BY <3>2, <3>3, <3>4
  <2>2. w * a \in Int /\ w * b \in Int
    OBVIOUS
  <2> QED
    BY <1>1, <2>1, <2>2
<1>2. ~(q < p) /\ ~(p < q)
  BY <1>1
<1>3. q = p
  BY <1>2
<1>4. w * q \in Int
  OBVIOUS
<1> QED
  BY <1>3, <1>4

\* The distance between two remainders, with a step of w where need be, leads from a number
\* that leaves the one to a number that leaves the other.
Leaves(m, w, r) == m \in Nat /\ m % w = r
LEMMA Shift ==
    ASSUME NEW w \in Nat \ {0}, NEW k \in Nat, NEW r \in 0..(w - 1), NEW s, k % w = s
    PROVE  /\ r <= s => Leaves(k - (s - r), w, r)
           /\ k >= w /\ s < r => Leaves(k - w + (r - s), w, r)
<1> DEFINE q == k \div w
<1>1. q \in Nat /\ s \in 0..(w - 1) /\ k = w * q + s
  BY Division
<1> HIDE DEF q
<1>2. ASSUME NEW p \in Nat, NEW m \in Nat, m = w * p + r PROVE m % w = r
  <2>1. m % w \in 0..(w - 1) /\ m \div w \in Nat /\ m = w * (m \div w) + (m % w)
    BY Division
  <2> DEFINE a == m % w
             b == m \div w
  <2>2. a \in 0..(w - 1) /\ b \in Nat /\ w * b + a = w * p + r
    BY <1>2, <2>1
  <2> HIDE DEF a, b
  <2>3. a = r
    BY <2>2, OneRemainder
  <2> QED
    BY <2>3 DEF a
<1>3. w * q \in Nat
  BY <1>1
<1>4. ASSUME r <= s PROVE k - (s - r) \in Nat /\ (k - (s - r)) % w = r
  <2>1. k - (s - r) = w * q + r /\ k - (s - r) \in Nat
    BY <1>1, <1>3
  <2> QED
    BY <1>1, <1>2, <2>1
<1>5. ASSUME k >= w, s < r PROVE k - w + (r - s) \in Nat /\ (k - w + (r - s)) % w = r
  <2>1. q # 0
    <3>1. q = 0 => k = s
      BY <1>1
    <3> QED
      BY <1>1, <1>5, <3>1
  <2>2. q - 1 \in Nat
    BY <1>1, <2>1
  <2>3. w * q = w * (q - 1) + w
    BY <1>1
  <2>4. w * (q - 1) \in Nat
    BY <2>2
  <2>5. k - w + (r - s) = w * (q - 1) + r /\ k - w + (r - s) \in Nat
    BY <1>1, <1>3, <2>3, <2>4
  <2> QED
    BY <1>2, <2>2, <2>5
<1> QED
  BY <1>4, <1>5 DEF Leaves

\* Numbers dealt out in turn: no two get more than one apart.
Dealt(N, w, r) == {k \in 0..(N - 1) : k % w = r}
LEMMA Even ==
    ASSUME NEW N \in Nat, NEW w \in Nat \ {0}, NEW r \in 0..(w - 1), NEW s \in 0..(w - 1)
    PROVE  /\ IsFiniteSet(Dealt(N, w, r)) /\ Cardinality(Dealt(N, w, r)) \in Nat
           /\ IsFiniteSet(Dealt(N, w, s)) /\ Cardinality(Dealt(N, w, s)) \in Nat
           /\ Cardinality(Dealt(N, w, r)) <= Cardinality(Dealt(N, w, s)) + 1
<1>1. ASSUME NEW x \in 0..(w - 1)
      PROVE  IsFiniteSet(Dealt(N, w, x)) /\ Cardinality(Dealt(N, w, x)) \in Nat
  <2>1. IsFiniteSet(0..(N - 1))
    BY FS_Interval
  <2>2. Dealt(N, w, x) \in SUBSET (0..(N - 1))
    BY DEF Dealt
  <2>3. IsFiniteSet(Dealt(N, w, x))
    BY <2>1, <2>2, FS_Subset
  <2> QED
    BY <2>3, FS_CardinalityType
<1>2. CASE s <= r
  <2> DEFINE D == Dealt(N, w, r)
             E == Dealt(N, w, s)
             f == [k \in D |-> k - (r - s)]
  <2>1. \A k \in D : k \in Nat /\ k <= N - 1 /\ k % w = r
    BY DEF Dealt
  <2>2. \A k \in D : k - (r - s) \in E
    <3> TAKE k \in D
    <3>1. Leaves(k - (r - s), w, s)
      <4>1. k \in Nat /\ k % w = r
        BY <2>1
      <4> HIDE DEF D, E, f
      <4> QED
        BY <1>2, <4>1, Shift
    <3>2. k - (r - s) <= N - 1
      BY <1>2, <2>1
    <3> QED
      BY <3>1, <3>2 DEF Dealt, Leaves
  <2>3. f \in Injection(D, E)
    <3>1. f \in [D -> E]
      BY <2>2
    <3>2. \A j, k \in D : f[j] = f[k] => j = k
      BY <2>1
    <3> HIDE DEF f, D, E
    <3> QED
      BY <3>1, <3>2 DEF Injection, IsInjective
  <2>4. Cardinality(D) <= Cardinality(E)
    <3> HIDE DEF f
    <3> QED
      BY <1>1, <2>3, FS_Injection
  <2> QED
    BY <1>1, <2>4
<1>3. CASE r < s
  <2> DEFINE D == Dealt(N, w, r)
             E == Dealt(N, w, s)
             C == D \ {r}
             f == [k \in C |-> k - w + (s - r)]
  <2>1. \A k \in D : k \in Nat /\ k <= N - 1 /\ k % w = r
    BY DEF Dealt
  <2>2. \A k \in C : k >= w
    <3> SUFFICES ASSUME NEW k \in C, k < w PROVE k = r
      BY <2>1
    <3>1. k \in Nat /\ k % w = r
      BY <2>1
    <3>2. k = w * (k \div w) + r /\ k \div w \in Nat
      BY <3>1, Division
    <3>3. k \div w = 0 \/ w * (k \div w) >= w
      <4> DEFINE q == k \div w
      <4>1. q \in Nat
        BY <3>2
      <4> HIDE DEF q
      <4>2. q # 0 => \E e \in Nat : q = e + 1
        <5>1. q # 0 => q - 1 \in Nat /\ q = (q - 1) + 1
          BY <4>1
        <5> QED
          BY <5>1
      <4>3. \A e \in Nat : w * (e + 1) = w * e + w /\ w * e \in Nat
        OBVIOUS
      <4>4. q # 0 => w * q >= w
        <5>1. \A x \in Nat : x + w >= w
          OBVIOUS
        <5> QED
          BY <4>2, <4>3, <5>1
      <4> QED
        BY <4>4 DEF q
    <3> QED
      BY <3>1, <3>2, <3>3
  <2>3. \A k \in C : k - w + (s - r) \in E
    <3> TAKE k \in C
    <3>1. Leaves(k - w + (s - r), w, s)
      <4>1. k \in Nat /\ k % w = r /\ k >= w /\ r < s
        BY <1>3, <2>1, <2>2
      <4> HIDE DEF C, D, E, f
      <4> QED
        BY <4>1, Shift
    <3>2. k - w + (s - r) <= N - 1
      BY <2>1
    <3> QED
      BY <3>1, <3>2 DEF Dealt, Leaves
  <2>4. f \in Injection(C, E)
    <3>1. f \in [C -> E]
      BY <2>3
    <3>2. \A j, k \in C : f[j] = f[k] => j = k
      BY <2>1
    <3> HIDE DEF f, C, E
    <3> QED
      BY <3>1, <3>2 DEF Injection, IsInjective
  <2>5. Cardinality(C) <= Cardinality(E)
    <3> HIDE DEF f, C
    <3> QED
      BY <1>1, <2>4, FS_Injection
  <2>6. Cardinality(C) = IF r \in D THEN Cardinality(D) - 1 ELSE Cardinality(D)
    <3> HIDE DEF D
    <3> QED
      BY <1>1, FS_RemoveElement DEF D
  <2> QED
    BY <1>1, <2>5, <2>6
<1> QED
  BY <1>1, <1>2, <1>3

--------------------------------------------------------------------------------
(***************************************************************************)
(* Pipelines while they are built.                                         *)
(***************************************************************************)
Partial(S, T) == UNION {[D -> T] : D \in SUBSET S}
Pipe == [app : App,
         state : {"ACCEPTING_STAGES", "ACCEPTING_BINDINGS", "BINDINGS_COMPLETE", "FINALIZED"},
         stages : Seq(StageName),
         bound : Partial(AnyOut, AnyIn),
         feed : Partial(AnyIn, AnyOut \cup {Own}),
         loose : SUBSET (({"in"} \X AnyIn) \cup ({"out"} \X AnyOut))]

\* From noMoreBindings() on, every binding is between ports that exist, and every input
\* has its queue.
Wired(p) == p.state \in {"BINDINGS_COMPLETE", "FINALIZED"} => Resolves(p) /\ p.feed \in Feeds(p)
PipesInv ==
    /\ pipes \in Seq(Pipe)
    /\ \A p \in DOMAIN pipes : Len(pipes[p].stages) <= MaxStages /\ Wired(pipes[p])

\* Threads come with openPipelines(), which leaves nothing to build; what is switched off
\* belongs to a disabler.
LifeInv ==
    /\ live \in {"building", "open", "failed", "closed"}
    /\ live \in {"building", "failed"} => threads = << >>
    /\ ~disabler.alive => disabler.off = {}

\* The records of pipelines change one field at a time.
LEMMA PipeIs ==
    ASSUME NEW p \in Pipe
    PROVE  /\ p.app \in App /\ p.stages \in Seq(StageName)
           /\ p.bound \in Partial(AnyOut, AnyIn) /\ p.feed \in Partial(AnyIn, AnyOut \cup {Own})
           /\ p.loose \in SUBSET (({"in"} \X AnyIn) \cup ({"out"} \X AnyOut))
           /\ p = [app |-> p.app, state |-> p.state, stages |-> p.stages, bound |-> p.bound,
                   feed |-> p.feed, loose |-> p.loose]
  BY DEF Pipe

\* Ports are ports of stages there can be.
LEMMA PortsAre ==
    ASSUME NEW p \in Pipe
    PROVE  InPorts(p) \subseteq AnyIn /\ OutPorts(p) \subseteq AnyOut
<1>1. Named(p) \subseteq StageName
  <2>1. p.stages \in Seq(StageName)
    BY PipeIs
  <2> QED
    BY <2>1 DEF Named
<1> QED
  BY <1>1 DEF InPorts, OutPorts, AnyIn, AnyOut

\* A change of one pipeline that keeps its kind and its wiring keeps those of all.
LEMMA BuildingKeeps ==
    ASSUME NEW p \in DOMAIN pipes, NEW state, NEW pipe, PipesInv, LifeInv,
           Building(p, state, pipe),
           pipe \in Pipe, Len(pipe.stages) <= MaxStages, Wired(pipe)
    PROVE  PipesInv' /\ LifeInv'
<1>1. LifeInv'
  BY DEF LifeInv, Building
<1>2. pipes' \in Seq(Pipe) /\ DOMAIN pipes' = DOMAIN pipes
  BY DEF PipesInv, Building
<1>3. \A q \in DOMAIN pipes : pipes'[q] = IF q = p THEN pipe ELSE pipes[q]
  BY DEF PipesInv, Building
<1>4. \A q \in DOMAIN pipes : Len(pipes'[q].stages) <= MaxStages /\ Wired(pipes'[q])
  BY <1>3 DEF PipesInv
<1> QED
  BY <1>1, <1>2, <1>4 DEF PipesInv

\* A new pipeline has no stages and nothing to wire.
LEMMA CreateKeeps ==
    ASSUME NEW app \in App, PipesInv, LifeInv, CreatePipeline(app)
    PROVE  PipesInv' /\ LifeInv'
<1> DEFINE new == [app |-> app, state |-> "ACCEPTING_STAGES", stages |-> << >>,
                   bound |-> << >>, feed |-> << >>, loose |-> {}]
<1>1. new \in Pipe
  <2>1. \A S, T : << >> \in Partial(S, T)
    <3> TAKE S, T
    <3>1. << >> \in [{} -> T]
      OBVIOUS
    <3>2. {} \in SUBSET S
      OBVIOUS
    <3> QED
      BY <3>1, <3>2 DEF Partial
  <2>2. << >> \in Seq(StageName)
    OBVIOUS
  <2> QED
    BY <2>1, <2>2 DEF Pipe
<1>2. Len(new.stages) <= MaxStages /\ Wired(new)
  <2>1. Len(new.stages) = 0 /\ 0 <= MaxStages
    BY ConfigAssumption
  <2> QED
    BY <2>1 DEF Wired
<1>3. pipes' = Append(pipes, new)
  BY DEF CreatePipeline
<1> HIDE DEF new
<1>4. pipes' \in Seq(Pipe) /\ Len(pipes') = Len(pipes) + 1
  BY <1>1, <1>3 DEF PipesInv
<1>5. \A q \in DOMAIN pipes' : IF q \in DOMAIN pipes THEN pipes'[q] = pipes[q] ELSE pipes'[q] = new
  BY <1>1, <1>3, <1>4 DEF PipesInv
<1>6. \A q \in DOMAIN pipes' : Len(pipes'[q].stages) <= MaxStages /\ Wired(pipes'[q])
  BY <1>2, <1>5 DEF PipesInv
<1>7. LifeInv'
  BY DEF LifeInv, CreatePipeline
<1> QED
  BY <1>4, <1>6, <1>7 DEF PipesInv

\* What is done to a pipeline while it is built.
LEMMA BuildKeeps ==
    ASSUME PipesInv, LifeInv, NEW p \in DOMAIN pipes
    PROVE  /\ \A name \in StageName : AddStage(p, name) => PipesInv' /\ LifeInv'
           /\ NoMoreStages(p) => PipesInv' /\ LifeInv'
           /\ \A out \in AnyOut, in \in AnyIn : Bind(p, out, in) => PipesInv' /\ LifeInv'
           /\ NoMoreBindings(p) => PipesInv' /\ LifeInv'
           /\ \A q \in pipes[p].loose : TakeQueue(p, q[1], q[2]) => PipesInv' /\ LifeInv'
<1>1. pipes[p] \in Pipe /\ Len(pipes[p].stages) <= MaxStages /\ Wired(pipes[p])
  BY DEF PipesInv
<1>2. ASSUME NEW name \in StageName, AddStage(p, name) PROVE PipesInv' /\ LifeInv'
  <2> DEFINE pipe == [pipes[p] EXCEPT !.stages = Append(pipes[p].stages, name)]
  <2>1. Building(p, "ACCEPTING_STAGES", pipe) /\ Len(pipes[p].stages) < MaxStages
    BY <1>2 DEF AddStage
  <2>2. pipes[p].stages \in Seq(StageName)
    BY <1>1, PipeIs
  <2>3. /\ Append(pipes[p].stages, name) \in Seq(StageName)
        /\ Len(Append(pipes[p].stages, name)) = Len(pipes[p].stages) + 1
    BY <2>2
  <2>4. pipe \in Pipe /\ pipe.state = pipes[p].state /\ pipe.stages = Append(pipes[p].stages, name)
    BY <1>1, <2>3 DEF Pipe
  <2>5. pipe.state = "ACCEPTING_STAGES"
    BY <2>1, <2>4 DEF Building
  <2>6. Len(pipe.stages) <= MaxStages
    BY <2>1, <2>2, <2>3, <2>4, ConfigAssumption
  <2>7. Wired(pipe)
    BY <2>5 DEF Wired
  <2> HIDE DEF pipe
  <2> QED
    BY <2>1, <2>4, <2>6, <2>7, BuildingKeeps
<1>3. ASSUME NoMoreStages(p) PROVE PipesInv' /\ LifeInv'
  <2> DEFINE pipe == [pipes[p] EXCEPT !.state = "ACCEPTING_BINDINGS"]
  <2>1. Building(p, "ACCEPTING_STAGES", pipe)
    BY <1>3 DEF NoMoreStages
  <2>2. pipe \in Pipe /\ pipe.state = "ACCEPTING_BINDINGS" /\ pipe.stages = pipes[p].stages
    BY <1>1 DEF Pipe
  <2>3. Wired(pipe)
    BY <2>2 DEF Wired
  <2> HIDE DEF pipe
  <2> QED
    BY <1>1, <2>1, <2>2, <2>3, BuildingKeeps
<1>4. ASSUME NEW out \in AnyOut, NEW in \in AnyIn, Bind(p, out, in) PROVE PipesInv' /\ LifeInv'
  <2> DEFINE bound == [o \in DOMAIN pipes[p].bound \cup {out} |->
                           IF o = out THEN in ELSE pipes[p].bound[o]]
             pipe == [pipes[p] EXCEPT !.bound = bound]
  <2>1. Building(p, "ACCEPTING_BINDINGS", pipe)
    BY <1>4 DEF Bind
  <2>2. bound \in Partial(AnyOut, AnyIn)
    <3>1. PICK D \in SUBSET AnyOut : pipes[p].bound \in [D -> AnyIn]
      BY <1>1, PipeIs DEF Partial
    <3>2. DOMAIN pipes[p].bound = D
      BY <3>1
    <3>3. bound \in [D \cup {out} -> AnyIn]
      BY <3>1, <3>2
    <3>4. D \cup {out} \in SUBSET AnyOut
      OBVIOUS
    <3> HIDE DEF bound
    <3> QED
      BY <3>3, <3>4 DEF Partial
  <2>3. pipe \in Pipe /\ pipe.state = pipes[p].state /\ pipe.stages = pipes[p].stages
    <3> HIDE DEF bound
    <3> QED
      BY <1>1, <2>2 DEF Pipe
  <2>4. Wired(pipe)
    <3>1. pipe.state = "ACCEPTING_BINDINGS"
      BY <2>1, <2>3 DEF Building
    <3> QED
      BY <3>1 DEF Wired
  <2> HIDE DEF pipe
  <2> QED
    BY <1>1, <2>1, <2>3, <2>4, BuildingKeeps
<1>5. ASSUME NoMoreBindings(p) PROVE PipesInv' /\ LifeInv'
  <2>1. PICK feed \in Feeds(pipes[p]) :
            Building(p, "ACCEPTING_BINDINGS",
                     [pipes[p] EXCEPT !.state = "BINDINGS_COMPLETE", !.feed = feed,
                                      !.loose = Unbound(pipes[p])])
    BY <1>5 DEF NoMoreBindings
  <2>2. InPorts(pipes[p]) \subseteq AnyIn /\ OutPorts(pipes[p]) \subseteq AnyOut
    BY <1>1, PortsAre
  <2>3. feed \in Partial(AnyIn, AnyOut \cup {Own})
    <3>1. feed \in [InPorts(pipes[p]) -> AnyOut \cup {Own}]
      BY <2>2 DEF Feeds
    <3> QED
      BY <2>2, <3>1 DEF Partial
  <2>4. Unbound(pipes[p]) \in SUBSET (({"in"} \X AnyIn) \cup ({"out"} \X AnyOut))
    BY <2>2 DEF Unbound
  <2> DEFINE loose == Unbound(pipes[p])
             pipe == [pipes[p] EXCEPT !.state = "BINDINGS_COMPLETE", !.feed = feed, !.loose = loose]
  <2>5. /\ pipe \in Pipe /\ pipe.stages = pipes[p].stages /\ pipe.bound = pipes[p].bound
        /\ pipe.feed = feed
    <3> HIDE DEF loose
    <3>1. loose \in SUBSET (({"in"} \X AnyIn) \cup ({"out"} \X AnyOut))
      BY <2>4 DEF loose
    <3> QED
      BY <1>1, <2>3, <3>1 DEF Pipe
  <2>6. Building(p, "ACCEPTING_BINDINGS", pipe)
    BY <2>1
  <2> HIDE DEF pipe
  <2>7. InPorts(pipe) = InPorts(pipes[p]) /\ OutPorts(pipe) = OutPorts(pipes[p])
    BY <2>5 DEF InPorts, OutPorts, Named
  <2>8. Resolves(pipe)
    BY <1>5, <2>5, <2>7 DEF Resolves, NoMoreBindings
  <2>9. pipe.feed \in Feeds(pipe)
    BY <2>5, <2>7 DEF Feeds, BoundTo
  <2> QED
    BY <1>1, <2>5, <2>6, <2>8, <2>9, BuildingKeeps DEF Wired
<1>6. ASSUME NEW q \in pipes[p].loose, TakeQueue(p, q[1], q[2]) PROVE PipesInv' /\ LifeInv'
  <2> DEFINE loose == pipes[p].loose \ {<< q[1], q[2] >>}
             pipe == [pipes[p] EXCEPT !.loose = loose]
  <2>1. Building(p, "BINDINGS_COMPLETE", pipe)
    BY <1>6 DEF TakeQueue
  <2>2. loose \in SUBSET (({"in"} \X AnyIn) \cup ({"out"} \X AnyOut))
    BY <1>1, PipeIs
  <2>3. /\ pipe \in Pipe /\ pipe.stages = pipes[p].stages /\ pipe.bound = pipes[p].bound
        /\ pipe.feed = pipes[p].feed /\ pipe.state = pipes[p].state
    <3> HIDE DEF loose
    <3> QED
      BY <1>1, <2>2 DEF Pipe
  <2> HIDE DEF pipe
  <2>4. Wired(pipe)
    BY <1>1, <2>3 DEF Wired, Resolves, Feeds, InPorts, OutPorts, Named, BoundTo
  <2> QED
    BY <1>1, <2>1, <2>3, <2>4, BuildingKeeps
<1> QED
  BY <1>2, <1>3, <1>4, <1>5, <1>6

--------------------------------------------------------------------------------
(***************************************************************************)
(* Stages, and the threads they are dealt to.                              *)
(***************************************************************************)
\* A stage is a pipeline and a position in it; they are finitely many.
LEMMA StagesAre ==
    ASSUME PipesInv
    PROVE  /\ \A s \in Stages : /\ s = << s[1], s[2] >> /\ s[1] \in Nat /\ s[2] \in Nat
                                /\ s[1] \in DOMAIN pipes /\ s[2] \in DOMAIN pipes[s[1]].stages
                                /\ NameOf(s) \in StageName /\ OwnerOf(s) \in App
           /\ IsFiniteSet(Stages) /\ IsFiniteSet(Polled) /\ Cardinality(Polled) \in Nat
           /\ Polled \subseteq Stages /\ OnDatabase \subseteq Stages
<1>1. ASSUME NEW s \in Stages
      PROVE  /\ s = << s[1], s[2] >> /\ s[1] \in 1..Len(pipes) /\ s[2] \in 1..MaxStages
             /\ s[1] \in DOMAIN pipes /\ s[2] \in DOMAIN pipes[s[1]].stages
             /\ NameOf(s) \in StageName /\ OwnerOf(s) \in App
  <2>1. PICK p \in DOMAIN pipes : s \in {p} \X (DOMAIN pipes[p].stages)
    BY DEF Stages
  <2>2. s = << s[1], s[2] >> /\ s[1] = p /\ s[2] \in DOMAIN pipes[p].stages
    BY <2>1
  <2>3. pipes[p] \in Pipe /\ Len(pipes[p].stages) <= MaxStages
    BY DEF PipesInv
  <2>4. pipes[p].stages \in Seq(StageName) /\ pipes[p].app \in App
    BY <2>3, PipeIs
  <2>5. s[2] \in 1..MaxStages
    BY <2>2, <2>3, <2>4, ConfigAssumption
  <2>6. p \in 1..Len(pipes)
    BY DEF PipesInv
  <2> QED
    BY <2>2, <2>4, <2>5, <2>6 DEF NameOf, OwnerOf
<1>2. IsFiniteSet(Stages)
  <2> DEFINE S == 1..Len(pipes)
             T == 1..MaxStages
  <2>1. Len(pipes) \in Nat /\ MaxStages \in Nat
    BY ConfigAssumption DEF PipesInv
  <2>2. IsFiniteSet(S) /\ IsFiniteSet(T)
    BY <2>1, FS_Interval
  <2>3. Stages \in SUBSET (S \X T)
    BY <1>1
  <2> HIDE DEF S, T
  <2>4. IsFiniteSet(S \X T)
    BY <2>2, FS_Product
  <2> QED
    BY <2>3, <2>4, FS_Subset
<1>3. Polled \in SUBSET Stages /\ OnDatabase \subseteq Stages
  BY DEF Polled, OnDatabase
<1>4. IsFiniteSet(Polled)
  BY <1>2, <1>3, FS_Subset
<1>5. Cardinality(Polled) \in Nat
  BY <1>4, FS_CardinalityType
<1>6. \A s \in Stages : s[1] \in Nat /\ s[2] \in Nat
  <2>1. \A k \in 1..Len(pipes) : k \in Nat
    OBVIOUS
  <2>2. \A k \in 1..MaxStages : k \in Nat
    OBVIOUS
  <2> QED
    BY <1>1, <2>1, <2>2
<1> QED
  BY <1>1, <1>2, <1>3, <1>4, <1>5, <1>6

\* A pipeline is its app's last one when none of the later ones is its app's.
Latest(p) == \A q \in (p + 1)..Len(pipes) : pipes[q].app # pipes[p].app
LEMMA LastIs ==
    ASSUME PipesInv, NEW p \in DOMAIN pipes
    PROVE  p = LastOf(pipes[p].app) <=> Latest(p)
<1> DEFINE app == pipes[p].app
           S == {q \in DOMAIN pipes : pipes[q].app = app}
           L == LastOf(app)
<1>1. DOMAIN pipes = 1..Len(pipes) /\ Len(pipes) \in Nat
  BY DEF PipesInv
<1>2. PICK n \in S : \A m \in S : m <= n
  <2>1. S \subseteq 0..Len(pipes) /\ p \in S
    BY <1>1
  <2> HIDE DEF S
  <2> QED
    BY <1>1, <2>1, Greatest
<1>3. pipes[n].app = app /\ n \in DOMAIN pipes /\ \A q \in (n + 1)..Len(pipes) : pipes[q].app # app
  BY <1>1, <1>2
<1>4. L \in DOMAIN pipes /\ pipes[L].app = app /\ \A q \in (L + 1)..Len(pipes) : pipes[q].app # app
  BY <1>3 DEF LastOf
<1> HIDE DEF L
<1>5. Latest(p) => p = L
  BY <1>1, <1>4 DEF Latest
<1>6. p = L => Latest(p)
  BY <1>4 DEF Latest
<1> QED
  BY <1>5, <1>6 DEF L

\* The stages of the polling threads ts[1] .. ts[w]: each has one, but for those that
\* merging leaves out, and merged threads are as even as can be.
Skipped(s) == Merging = "all" /\ ~Latest(s[1])
Spread(ts, w) ==
    /\ w \in Nat /\ 1..w \subseteq DOMAIN ts
    /\ \A n \in 1..w : ~ts[n].db /\ ts[n].runs \subseteq Polled
    /\ \A s \in Polled : IF Skipped(s) THEN \A n \in 1..w : s \notin ts[n].runs
                                     ELSE \E n \in 1..w : \A m \in 1..w : s \in ts[m].runs <=> m = n
Evenly(ts, w) ==
    Merging = "all" =>
        /\ w <= Cardinality(Polled)
        /\ \A a \in App : Cardinality(Share(a)) <= w
        /\ \A m, n \in 1..w : Cardinality(ts[m].runs) <= Cardinality(ts[n].runs) + 1

\* The parts of a thread.
LEMMA ThreadIs ==
    ASSUME NEW t, NEW i, NEW r
    PROVE  /\ t = Thread(FALSE, i, r) => ~t.db /\ t.runs = r
           /\ t = Thread(TRUE, i, r) => t.db /\ t.runs = r
<1>1. t = Thread(FALSE, i, r) => ~t.db /\ t.runs = r
  BY DEF Thread
<1>2. t = Thread(TRUE, i, r) => t.db /\ t.runs = r
  BY DEF Thread
<1> QED
  BY <1>1, <1>2

\* Without merging, the positions of the polled stages are the numbers of their threads.
LEMMA UnmergedSpreads ==
    ASSUME PipesInv, Merging = "none"
    PROVE  Spread(Unmerged, Cardinality(Polled)) /\ Evenly(Unmerged, Cardinality(Polled))
<1> DEFINE w == Cardinality(Polled)
           R == {e \in Polled \X Polled : Earlier(e[1], e[2])}
           at(n) == CHOOSE s \in Polled : Position(s, Polled) = n - 1
<1>1. w \in Nat /\ IsFiniteSet(Polled) /\ \A s \in Polled : s = << s[1], s[2] >> /\ s[1] \in Nat /\ s[2] \in Nat
  BY StagesAre
<1>2. \A s, t \in Polled : << s, t >> \in R <=> Earlier(s, t)
  OBVIOUS
<1>3. TotalOrder(Polled, R)
  <2> HIDE DEF R
  <2> QED
    BY <1>1, <1>2 DEF TotalOrder, Earlier
<1>4. \A s \in Polled : Position(s, Polled) = Before(s, Polled, R)
  <2> TAKE s \in Polled
  <2>1. {t \in Polled : Earlier(t, s)} = {t \in Polled : << t, s >> \in R}
    <3> HIDE DEF R
    <3> QED
      BY <1>2
  <2> HIDE DEF R
  <2> QED
    BY <2>1 DEF Position, Before
<1> HIDE DEF R
<1>5. /\ \A s \in Polled : Before(s, Polled, R) \in 0..(w - 1)
      /\ \A s, t \in Polled : Before(s, Polled, R) = Before(t, Polled, R) => s = t
      /\ \A k \in 0..(w - 1) : \E s \in Polled : Before(s, Polled, R) = k
  BY <1>1, <1>3, Numbering
<1> HIDE DEF w
<1>6. \A n \in 1..w : at(n) \in Polled /\ Position(at(n), Polled) = n - 1
  <2> TAKE n \in 1..w
  <2>1. n - 1 \in 0..(w - 1)
    BY <1>1
  <2>2. \E s \in Polled : Position(s, Polled) = n - 1
    BY <1>4, <1>5, <2>1
  <2> QED
    BY <2>2
<1> HIDE DEF at
<1>7. /\ DOMAIN Unmerged = 1..w
      /\ \A n \in 1..w : Unmerged[n] = Thread(FALSE, Interval[NameOf(at(n))], {at(n)})
  BY DEF Unmerged, w, at
<1>8. \A n \in 1..w : ~Unmerged[n].db /\ Unmerged[n].runs = {at(n)}
  <2> TAKE n \in 1..w
  <2> DEFINE i == Interval[NameOf(at(n))]
             r == {at(n)}
  <2>1. Unmerged[n] = Thread(FALSE, i, r)
    BY <1>7
  <2> HIDE DEF i, r
  <2>2. ~Unmerged[n].db /\ Unmerged[n].runs = r
    BY <2>1, ThreadIs
  <2> QED
    BY <2>2 DEF r
<1>9. ASSUME NEW s \in Polled
      PROVE  \E n \in 1..w : \A m \in 1..w : s \in Unmerged[m].runs <=> m = n
  <2> DEFINE n == Position(s, Polled) + 1
  <2>1. n \in 1..w /\ n - 1 = Position(s, Polled)
    <3>1. Position(s, Polled) \in 0..(w - 1)
      BY <1>4, <1>5
    <3> QED
      BY <1>1, <3>1
  <2> HIDE DEF n
  <2>2. at(n) = s
    BY <1>4, <1>5, <1>6, <2>1
  <2>3. \A m \in 1..w : at(m) = s => m = n
    <3> TAKE m \in 1..w
    <3>1. at(m) = s => m - 1 = n - 1
      BY <1>6, <2>1
    <3> QED
      BY <2>1, <3>1
  <2> QED
    BY <1>8, <2>1, <2>2, <2>3
<1>10. Spread(Unmerged, w)
  <2>1. \A s \in Polled : ~Skipped(s)
    BY DEF Skipped
  <2> QED
    BY <1>1, <1>6, <1>7, <1>8, <1>9, <2>1 DEF Spread
<1> QED
  BY <1>10 DEF w, Evenly

\* The width of a merge: the largest share of polled stages an app has.
LEMMA WidestIs ==
    ASSUME PipesInv, Polled # {}
    PROVE  /\ Widest \in Nat \ {0} /\ Widest <= Cardinality(Polled)
           /\ \A a \in App : Cardinality(Share(a)) <= Widest
<1> DEFINE N == Cardinality(Polled)
           S == {Cardinality(Share(OwnerOf(s))) : s \in Polled}
<1>1. N \in Nat /\ IsFiniteSet(Polled)
  BY StagesAre
<1>2. \A a : Share(a) \in SUBSET Polled
  BY DEF Share
<1>3. \A a : IsFiniteSet(Share(a)) /\ Cardinality(Share(a)) \in Nat /\ Cardinality(Share(a)) <= N
  BY <1>1, <1>2, FS_Subset, FS_CardinalityType
<1>4. \A s \in Polled : Cardinality(Share(OwnerOf(s))) \in 1..N
  <2> TAKE s \in Polled
  <2>1. s \in Share(OwnerOf(s))
    BY DEF Share
  <2>2. Cardinality(Share(OwnerOf(s))) # 0
    BY <1>3, <2>1, FS_EmptySet
  <2> QED
    BY <1>1, <1>3, <2>2
<1>5. PICK n \in S : \A m \in S : m <= n
  <2>1. S \subseteq 0..N /\ S # {}
    BY <1>1, <1>4
  <2> HIDE DEF S, N
  <2> QED
    BY <1>1, <2>1, Greatest DEF N
<1>6. /\ n \in 1..N
      /\ \E s \in Polled : Cardinality(Share(OwnerOf(s))) = n
      /\ \A s \in Polled : Cardinality(Share(OwnerOf(s))) <= n
  BY <1>4, <1>5
<1>7. Widest \in 1..N /\ \A s \in Polled : Cardinality(Share(OwnerOf(s))) <= Widest
  BY <1>6 DEF Widest
<1>8. ASSUME NEW a \in App PROVE Cardinality(Share(a)) <= Widest
  <2>1. CASE \E s \in Polled : OwnerOf(s) = a
    BY <1>7, <2>1
  <2>2. CASE ~\E s \in Polled : OwnerOf(s) = a
    <3>1. Share(a) = {}
      BY <2>2 DEF Share
    <3>2. Cardinality(Share(a)) = 0
      BY <3>1, FS_EmptySet
    <3> QED
      BY <1>1, <1>7, <3>2
  <2> QED
    BY <2>1, <2>2
<1> HIDE DEF N
<1>9. Widest \in Nat \ {0} /\ Widest <= N
  BY <1>1, <1>7
<1> QED
  BY <1>8, <1>9 DEF N

\* The order in which stages are dealt out: by app, then by position.
Dealing(rank) ==
    {e \in Gathered \X Gathered :
        \/ rank[OwnerOf(e[1])] < rank[OwnerOf(e[2])]
        \/ OwnerOf(e[1]) = OwnerOf(e[2]) /\ e[1][2] < e[2][2]}

\* The turns number the stages a merge deals out.
LEMMA TurnIs ==
    ASSUME PipesInv, NEW rank \in Ranks
    PROVE  /\ IsFiniteSet(Gathered) /\ Cardinality(Gathered) \in Nat
           /\ \A s \in Gathered : Turn(s, rank) \in 0..(Cardinality(Gathered) - 1)
           /\ \A s, t \in Gathered : Turn(s, rank) = Turn(t, rank) => s = t
           /\ \A k \in 0..(Cardinality(Gathered) - 1) : \E s \in Gathered : Turn(s, rank) = k
<1> DEFINE R == Dealing(rank)
<1>1. Gathered \in SUBSET Polled
  BY DEF Gathered
<1>2. IsFiniteSet(Gathered)
  BY <1>1, StagesAre, FS_Subset
<1>3. \A s \in Gathered : /\ s = << s[1], s[2] >> /\ s[2] \in Nat /\ OwnerOf(s) \in App
                          /\ s[1] = LastOf(OwnerOf(s))
  BY <1>1, StagesAre DEF Gathered
<1>4. \A a, b \in App : /\ rank[a] \in Int /\ rank[b] \in Int /\ (a # b => rank[a] # rank[b])
  BY DEF Ranks
<1>5. \A s, t \in Gathered :
          << s, t >> \in R <=> \/ rank[OwnerOf(s)] < rank[OwnerOf(t)]
                               \/ OwnerOf(s) = OwnerOf(t) /\ s[2] < t[2]
  BY DEF Dealing
<1> HIDE DEF R
<1>6. TotalOrder(Gathered, R)
  <2>1. \A s \in Gathered : << s, s >> \notin R
    BY <1>3, <1>4, <1>5
  <2>2. \A s, t, u \in Gathered : << s, t >> \in R /\ << t, u >> \in R => << s, u >> \in R
    BY <1>3, <1>4, <1>5
  <2>3. \A s, t \in Gathered : s # t => << s, t >> \in R \/ << t, s >> \in R
    <3> TAKE s, t \in Gathered
    <3>1. CASE OwnerOf(s) = OwnerOf(t)
      <4>1. s # t => s[2] # t[2]
        BY <1>3, <3>1
      <4> QED
        BY <1>3, <1>5, <3>1, <4>1
    <3>2. CASE OwnerOf(s) # OwnerOf(t)
      BY <1>3, <1>4, <1>5, <3>2
    <3> QED
      BY <3>1, <3>2
  <2> QED
    BY <2>1, <2>2, <2>3 DEF TotalOrder
<1>7. \A s \in Gathered : Turn(s, rank) = Before(s, Gathered, R)
  <2> TAKE s \in Gathered
  <2>1. {t \in Gathered : \/ rank[OwnerOf(t)] < rank[OwnerOf(s)]
                          \/ OwnerOf(t) = OwnerOf(s) /\ t[2] < s[2]}
          = {t \in Gathered : << t, s >> \in R}
    BY <1>5
  <2> QED
    BY <2>1 DEF Turn, Before
<1>8. /\ \A s \in Gathered : Before(s, Gathered, R) \in 0..(Cardinality(Gathered) - 1)
      /\ \A s, t \in Gathered : Before(s, Gathered, R) = Before(t, Gathered, R) => s = t
      /\ \A k \in 0..(Cardinality(Gathered) - 1) : \E s \in Gathered : Before(s, Gathered, R) = k
  BY <1>2, <1>6, Numbering
<1>9. Cardinality(Gathered) \in Nat
  BY <1>2, FS_CardinalityType
<1> QED
  BY <1>2, <1>7, <1>8, <1>9

\* A merge deals every gathered stage to the thread of its turn, evenly.
LEMMA MergedSpreads ==
    ASSUME PipesInv, Merging = "all", Polled # {}, NEW rank \in Ranks
    PROVE  Spread(Merged(rank), Widest) /\ Evenly(Merged(rank), Widest)
<1> DEFINE w == Widest
           N == Cardinality(Gathered)
           hand(n) == {s \in Gathered : Turn(s, rank) % Widest = n - 1}
           ts == Merged(rank)
<1>1. /\ w \in Nat \ {0} /\ w <= Cardinality(Polled)
      /\ \A a \in App : Cardinality(Share(a)) <= w
  BY WidestIs
<1>2. /\ N \in Nat
      /\ \A s \in Gathered : Turn(s, rank) \in 0..(N - 1)
      /\ \A s, t \in Gathered : Turn(s, rank) = Turn(t, rank) => s = t
      /\ \A k \in 0..(N - 1) : \E s \in Gathered : Turn(s, rank) = k
  BY TurnIs
<1>3. /\ DOMAIN ts = 1..w
      /\ \A n \in 1..w : ts[n] = Thread(FALSE, DefaultInterval, hand(n))
  BY DEF Merged
<1>4. \A n \in 1..w : hand(n) \subseteq Polled
  BY DEF Gathered
<1>5. \A s \in Polled : s \in Gathered <=> ~Skipped(s)
  <2> TAKE s \in Polled
  <2>1. s[1] \in DOMAIN pipes
    BY StagesAre
  <2>2. s[1] = LastOf(pipes[s[1]].app) <=> Latest(s[1])
    BY <2>1, LastIs
  <2> QED
    BY <2>2 DEF Gathered, OwnerOf, Skipped
<1> HIDE DEF w, N, ts
<1>6. \A s \in Gathered : \E n \in 1..w : \A m \in 1..w : s \in hand(m) <=> m = n
  <2> TAKE s \in Gathered
  <2> DEFINE k == Turn(s, rank)
             n == (k % w) + 1
  <2>1. k \in Nat
    <3>1. \A j \in 0..(N - 1) : j \in Nat
      BY <1>2
    <3> QED
      BY <1>2, <3>1
  <2>2. k % w \in 0..(w - 1)
    <3> HIDE DEF k
    <3> QED
      BY <1>1, <2>1, Division
  <2>3. \A m \in 1..w : s \in hand(m) <=> k % w = m - 1
    BY DEF w
  <2> HIDE DEF k
  <2>4. n \in 1..w /\ \A m \in 1..w : k % w = m - 1 <=> m = n
    <3> DEFINE r == k % w
    <3>1. r \in 0..(w - 1)
      BY <2>2
    <3> HIDE DEF r
    <3>2. r + 1 \in 1..w /\ \A m \in 1..w : r = m - 1 <=> m = r + 1
      BY <1>1, <3>1
    <3> QED
      BY <3>2 DEF r
  <2> HIDE DEF n
  <2> QED
    BY <2>3, <2>4
<1>7. \A n \in 1..w : ~ts[n].db /\ ts[n].runs = hand(n)
  <2> TAKE n \in 1..w
  <2> DEFINE r == hand(n)
  <2>1. ts[n] = Thread(FALSE, DefaultInterval, r)
    BY <1>3
  <2> HIDE DEF r
  <2>2. ~ts[n].db /\ ts[n].runs = r
    BY <2>1, ThreadIs
  <2> QED
    BY <2>2 DEF r
<1>8. Spread(ts, w)
  <2>1. \A s \in Polled : Skipped(s) => \A n \in 1..w : s \notin ts[n].runs
    BY <1>5, <1>7
  <2>2. \A s \in Polled : ~Skipped(s) => \E n \in 1..w : \A m \in 1..w : s \in ts[m].runs <=> m = n
    <3> HIDE DEF hand
    <3> QED
      BY <1>5, <1>6, <1>7
  <2> HIDE DEF hand
  <2> QED
    BY <1>1, <1>3, <1>4, <1>7, <2>1, <2>2 DEF Spread
<1>9. \A n \in 1..w : Cardinality(hand(n)) = Cardinality(Dealt(N, w, n - 1))
  <2> TAKE n \in 1..w
  <2> DEFINE H == hand(n)
             D == Dealt(N, w, n - 1)
             f == [s \in H |-> Turn(s, rank)]
  <2>1. H \in SUBSET Gathered
    OBVIOUS
  <2>2. \A s \in H : Turn(s, rank) \in D
    BY <1>2 DEF Dealt, w
  <2>3. \A k \in D : \E s \in H : Turn(s, rank) = k
    BY <1>2 DEF Dealt, w
  <2>4. IsFiniteSet(H)
    <3> HIDE DEF H
    <3> QED
      BY <2>1, TurnIs, FS_Subset
  <2> HIDE DEF H, D
  <2>5. f \in [H -> D] /\ (\A s, t \in H : f[s] = f[t] => s = t) /\ \A k \in D : \E s \in H : f[s] = k
    BY <1>2, <2>1, <2>2, <2>3
  <2> HIDE DEF f
  <2>6. f \in Injection(H, D) /\ f \in Surjection(H, D)
    BY <2>5 DEF Injection, IsInjective, Surjection
  <2>7. Cardinality(D) = Cardinality(H)
    BY <2>4, <2>6, FS_Surjection
  <2> QED
    BY <2>7 DEF H, D
<1>10. \A m, n \in 1..w : Cardinality(ts[m].runs) <= Cardinality(ts[n].runs) + 1
  <2> TAKE m, n \in 1..w
  <2>1. m - 1 \in 0..(w - 1) /\ n - 1 \in 0..(w - 1)
    BY <1>1
  <2>2. Cardinality(Dealt(N, w, m - 1)) <= Cardinality(Dealt(N, w, n - 1)) + 1
    BY <1>1, <1>2, <2>1, Even
  <2> HIDE DEF hand
  <2> QED
    BY <1>7, <1>9, <2>2
<1>11. Evenly(ts, w)
  BY <1>1, <1>10 DEF Evenly
<1> QED
  BY <1>8, <1>11 DEF ts, w

--------------------------------------------------------------------------------
(***************************************************************************)
(* What openPipelines() leaves: the polling threads, and behind them the   *)
(* database thread if a stage is on the database.                          *)
(***************************************************************************)
Last(ts, w) ==
    IF OnDatabase = {} THEN DOMAIN ts = 1..w
                       ELSE /\ DOMAIN ts = 1..(w + 1)
                            /\ ts[w + 1].db /\ ts[w + 1].runs = OnDatabase
Divided(ts, w) == Spread(ts, w) /\ Evenly(ts, w) /\ Last(ts, w)
ThreadsInv ==
    Opened => /\ live \in {"open", "closed"}
              /\ \A p \in DOMAIN pipes : pipes[p].state = "FINALIZED" /\ pipes[p].loose = {}
              /\ \E w \in 0..Len(threads) : Divided(threads, w)
              /\ accessors = IF OnDatabase = {} THEN {} ELSE Running(threads) \cap Polled
IInv == PipesInv /\ LifeInv /\ ThreadsInv

\* Threads that are dealt out, with the database thread behind them.
LEMMA Concatenated ==
    ASSUME PipesInv, NEW ts, NEW w \in Nat, ts = [n \in 1..w |-> ts[n]], Spread(ts, w), Evenly(ts, w)
    PROVE  /\ Divided(ts \o DatabaseThreads, w) /\ w \in 0..Len(ts \o DatabaseThreads)
<1> DEFINE d == Thread(TRUE, DefaultInterval, OnDatabase)
           T == {ts[n] : n \in 1..w} \cup {d}
           all == ts \o DatabaseThreads
<1>1. ts \in Seq(T) /\ Len(ts) = w
  <2>1. ts \in [1..w -> T]
    OBVIOUS
  <2> HIDE DEF T
  <2> QED
    BY <2>1
<1>2. CASE OnDatabase = {}
  <2>1. DatabaseThreads = << >>
    BY <1>2 DEF DatabaseThreads
  <2>2. all = ts
    <3> HIDE DEF T
    <3> QED
      BY <1>1, <2>1
  <2>3. DOMAIN ts = 1..w
    OBVIOUS
  <2>4. Divided(all, w)
    <3> HIDE DEF all
    <3> QED
      BY <1>2, <2>2, <2>3 DEF Divided, Last
  <2>5. w \in 0..Len(all)
    BY <1>1, <2>2
  <2> QED
    BY <2>4, <2>5
<1>3. CASE OnDatabase # {}
  <2>1. DatabaseThreads = << d >>
    BY <1>3 DEF DatabaseThreads
  <2>2. d = Thread(TRUE, DefaultInterval, OnDatabase)
    OBVIOUS
  <2> HIDE DEF d
  <2>3. d \in T
    OBVIOUS
  <2>4. << d >> \in Seq(T) /\ Len(<< d >>) = 1 /\ << d >>[1] = d
    <3> HIDE DEF T
    <3> QED
      BY <2>3
  <2>5. /\ Len(all) = w + 1 /\ DOMAIN all = 1..(w + 1) /\ all[w + 1] = d
        /\ \A n \in 1..w : all[n] = ts[n]
    <3> HIDE DEF T
    <3> QED
      BY <1>1, <2>1, <2>4
  <2>6. d.db /\ d.runs = OnDatabase
    <3>1. d.db
      BY <2>2, ThreadIs
    <3>2. d.runs = OnDatabase
      BY DEF d, Thread
    <3> QED
      BY <3>1, <3>2
  <2> HIDE DEF all
  <2>7. Spread(all, w)
    <3>1. 1..w \subseteq DOMAIN all
      BY <2>5
    <3>2. \A n \in 1..w : ~all[n].db /\ all[n].runs \subseteq Polled
      BY <2>5 DEF Spread
    <3>3. \A s \in Polled : IF Skipped(s) THEN \A n \in 1..w : s \notin all[n].runs
                                          ELSE \E n \in 1..w : \A m \in 1..w : s \in all[m].runs <=> m = n
      BY <2>5 DEF Spread
    <3> QED
      BY <3>1, <3>2, <3>3 DEF Spread
  <2>8. Evenly(all, w)
    BY <2>5 DEF Evenly
  <2>9. Last(all, w)
    <3>1. all[w + 1].db
      BY <2>5, <2>6
    <3>2. all[w + 1].runs = OnDatabase
      BY <2>5, <2>6
    <3> QED
      BY <1>3, <2>5, <3>1, <3>2 DEF Last
  <2>10. w \in 0..Len(all)
    BY <2>5
  <2> QED
    BY <2>7, <2>8, <2>9, <2>10 DEF Divided, all
<1> QED
  BY <1>2, <1>3

\* Whatever the merging, opening divides the stages.
LEMMA OpeningDivides ==
    ASSUME PipesInv, OpenPipelines
    PROVE  \E w \in 0..Len(threads') : Divided(threads', w)
<1>1. Merging \in {"none", "all"}
  BY DEF OpenPipelines, MayOpen, Merging
<1>2. CASE Merging = "none"
  <2> DEFINE w == Cardinality(Polled)
  <2>1. threads' = Unmerged \o DatabaseThreads
    BY <1>2 DEF OpenPipelines
  <2>2. Spread(Unmerged, w) /\ Evenly(Unmerged, w) /\ w \in Nat
    BY <1>2, UnmergedSpreads, StagesAre
  <2>3. Unmerged = [n \in 1..w |-> Unmerged[n]]
    BY DEF Unmerged
  <2> HIDE DEF w
  <2> QED
    BY <2>1, <2>2, <2>3, Concatenated
<1>3. CASE Merging = "all"
  <2>1. PICK rank \in Ranks : threads' = Merged(rank) \o DatabaseThreads
    BY <1>3 DEF OpenPipelines
  <2>2. Polled # {}
    <3>1. SUFFICES ASSUME Polled = {} PROVE FALSE
      OBVIOUS
    <3>2. Intervals = {}
      BY <3>1 DEF Intervals
    <3>3. Cardinality(Intervals) = 1
      BY <1>3 DEF OpenPipelines, MayOpen
    <3> QED
      BY <3>2, <3>3, FS_EmptySet
  <2>3. Spread(Merged(rank), Widest) /\ Evenly(Merged(rank), Widest) /\ Widest \in Nat
    BY <1>3, <2>2, MergedSpreads, WidestIs
  <2> DEFINE ts == Merged(rank)
  <2>4. ts = [n \in 1..Widest |-> ts[n]]
    BY DEF Merged
  <2> HIDE DEF ts
  <2> QED
    BY <2>1, <2>3, <2>4, Concatenated DEF ts
<1> QED
  BY <1>1, <1>2, <1>3

\* Opening changes nothing that the division depends on.
LEMMA OpeningKeeps ==
    ASSUME PipesInv, LifeInv, OpenPipelines
    PROVE  /\ PipesInv' /\ LifeInv'
           /\ \A p \in DOMAIN pipes' : pipes'[p].state = "FINALIZED" /\ pipes'[p].loose = {}
           /\ Stages' = Stages /\ OnDatabase' = OnDatabase /\ Polled' = Polled
           /\ Merging' = Merging
           /\ \A s \in Polled : Skipped(s)' <=> Skipped(s)
           /\ \A a \in App : Share(a)' = Share(a)
<1>1. /\ pipes' = [p \in DOMAIN pipes |-> [pipes[p] EXCEPT !.state = "FINALIZED"]]
      /\ merger' = [merger EXCEPT !.made = TRUE]
      /\ \A p \in DOMAIN pipes : pipes[p].state = "BINDINGS_COMPLETE" /\ pipes[p].loose = {}
  BY DEF OpenPipelines, MayOpen, Ready
<1>2. DOMAIN pipes' = DOMAIN pipes /\ Len(pipes') = Len(pipes) /\ DOMAIN pipes = 1..Len(pipes) /\ Len(pipes) \in Nat
  BY <1>1 DEF PipesInv
<1>3. \A p \in DOMAIN pipes :
          /\ pipes'[p] \in Pipe /\ pipes'[p].state = "FINALIZED"
          /\ pipes'[p].app = pipes[p].app /\ pipes'[p].stages = pipes[p].stages
          /\ pipes'[p].bound = pipes[p].bound /\ pipes'[p].feed = pipes[p].feed
          /\ pipes'[p].loose = pipes[p].loose
  <2> TAKE p \in DOMAIN pipes
  <2>1. pipes[p] \in Pipe
    BY DEF PipesInv
  <2>2. pipes'[p] = [pipes[p] EXCEPT !.state = "FINALIZED"]
    BY <1>1
  <2> QED
    BY <2>1, <2>2 DEF Pipe
<1>4. PipesInv'
  <2>1. pipes' \in Seq(Pipe)
    <3>1. pipes' \in [1..Len(pipes) -> Pipe]
      BY <1>1, <1>2, <1>3
    <3> QED
      BY <1>2, <3>1
  <2>2. \A p \in DOMAIN pipes : Wired(pipes[p])' 
    <3> TAKE p \in DOMAIN pipes
    <3>1. Resolves(pipes[p]) /\ pipes[p].feed \in Feeds(pipes[p])
      BY <1>1 DEF PipesInv, Wired
    <3>2. InPorts(pipes'[p]) = InPorts(pipes[p]) /\ OutPorts(pipes'[p]) = OutPorts(pipes[p])
      BY <1>3 DEF InPorts, OutPorts, Named
    <3>3. Resolves(pipes'[p])
      BY <1>3, <3>1, <3>2 DEF Resolves
    <3>4. pipes'[p].feed \in Feeds(pipes'[p])
      BY <1>3, <3>1, <3>2 DEF Feeds, BoundTo
    <3> QED
      BY <3>3, <3>4 DEF Wired
  <2>3. \A p \in DOMAIN pipes : Len(pipes'[p].stages) <= MaxStages
    BY <1>3 DEF PipesInv
  <2> QED
    BY <1>2, <2>1, <2>2, <2>3 DEF PipesInv
<1>5. LifeInv'
  BY DEF OpenPipelines, LifeInv
<1>6. Stages' = Stages
  BY <1>2, <1>3 DEF Stages
<1>7. \A s \in Stages : NameOf(s)' = NameOf(s) /\ OwnerOf(s)' = OwnerOf(s) /\ s[1] \in DOMAIN pipes
  BY <1>3, StagesAre DEF NameOf, OwnerOf
<1>8. OnDatabase' = OnDatabase /\ Polled' = Polled
  <2>1. OnDatabase' = OnDatabase
    BY <1>6, <1>7 DEF OnDatabase
  <2> QED
    BY <1>6, <2>1 DEF Polled
<1>9. Merging' = Merging
  <2>1. merger'.apps = merger.apps /\ (merger'.all <=> merger.all)
    BY <1>1
  <2> QED
    BY <1>2, <2>1 DEF Merging
<1>10. \A p \in DOMAIN pipes : Latest(p)' <=> Latest(p)
  BY <1>2, <1>3 DEF Latest
<1>11. \A s \in Polled : Skipped(s)' <=> Skipped(s)
  BY <1>7, <1>9, <1>10 DEF Skipped, Polled
<1>12. \A a \in App : Share(a)' = Share(a)
  BY <1>7, <1>8 DEF Share, Polled
<1> QED
  BY <1>1, <1>2, <1>3, <1>4, <1>5, <1>6, <1>8, <1>9, <1>11, <1>12

\* Opening brings about the division of the stages.
LEMMA OpenKeeps ==
    ASSUME IInv, OpenPipelines
    PROVE  IInv'
<1>1. /\ PipesInv' /\ LifeInv'
      /\ \A p \in DOMAIN pipes' : pipes'[p].state = "FINALIZED" /\ pipes'[p].loose = {}
      /\ Stages' = Stages /\ OnDatabase' = OnDatabase /\ Polled' = Polled
      /\ Merging' = Merging
      /\ \A s \in Polled : Skipped(s)' <=> Skipped(s)
      /\ \A a \in App : Share(a)' = Share(a)
  BY OpeningKeeps DEF IInv
<1>2. PICK w \in 0..Len(threads') : Divided(threads', w)
  BY OpeningDivides DEF IInv
<1>3. Spread(threads, w)'
  BY <1>1, <1>2 DEF Divided, Spread
<1>4. Evenly(threads, w)'
  BY <1>1, <1>2 DEF Divided, Evenly
<1>5. Last(threads, w)'
  BY <1>1, <1>2 DEF Divided, Last
<1>6. \E v \in 0..Len(threads') : Divided(threads, v)'
  BY <1>2, <1>3, <1>4, <1>5 DEF Divided
<1>7. accessors' = IF OnDatabase' = {} THEN {} ELSE Running(threads') \cap Polled'
  <2>1. Running(threads') \subseteq Stages
    <3>1. \A n \in DOMAIN threads' : threads'[n].runs \subseteq Stages
      <4>1. w \in Nat /\ \A n \in 1..w : threads'[n].runs \subseteq Polled
        BY <1>2 DEF Divided, Spread
      <4>2. Polled \subseteq Stages /\ OnDatabase \subseteq Stages
        BY DEF Polled, OnDatabase
      <4>3. \A n \in 1..(w + 1) : n \in 1..w \/ n = w + 1
        BY <4>1
      <4> QED
        BY <1>2, <4>1, <4>2, <4>3 DEF Divided, Last
    <3> QED
      BY <3>1 DEF Running
  <2>2. accessors' = IF OnDatabase = {} THEN {} ELSE Running(threads') \ OnDatabase
    BY DEF OpenPipelines
  <2>3. Running(threads') \ OnDatabase = Running(threads') \cap Polled
    BY <2>1 DEF Polled
  <2> QED
    BY <1>1, <2>2, <2>3
<1>8. live' \in {"open", "closed"}
  BY DEF OpenPipelines
<1> QED
  BY <1>1, <1>6, <1>7, <1>8 DEF IInv, ThreadsInv, Running

\* Every step keeps the invariant: nothing is built, merged or opened once threads are there.
LEMMA Initial == Init => IInv
<1> SUFFICES ASSUME Init PROVE IInv
  OBVIOUS
<1>1. PipesInv
  BY DEF Init, PipesInv
<1>2. LifeInv
  BY DEF Init, LifeInv
<1>3. ThreadsInv
  BY DEF Init, ThreadsInv, Opened
<1> QED
  BY <1>1, <1>2, <1>3 DEF IInv

\* Where pipelines and threads stay as they are, so does the division.
LEMMA ThreadsStay ==
    ASSUME ThreadsInv, LifeInv', UNCHANGED << pipes, threads, accessors >>,
           Opened => UNCHANGED merger
    PROVE  ThreadsInv'
<1>1. Opened' => Opened /\ live' \in {"open", "closed"} /\ UNCHANGED merger
  BY DEF Opened, LifeInv
<1>2. CASE Opened
  <2>1. /\ Stages' = Stages /\ OnDatabase' = OnDatabase /\ Polled' = Polled /\ Merging' = Merging
        /\ \A s : Skipped(s)' <=> Skipped(s)
        /\ \A a : Share(a)' = Share(a)
    BY <1>1, <1>2 DEF Stages, OnDatabase, Polled, Merging, Skipped, Latest, Share, OwnerOf, NameOf, Opened
  <2>2. \A w : Divided(threads, w) => Divided(threads, w)'
    BY <2>1 DEF Divided, Spread, Evenly, Last
  <2>3. PICK w \in 0..Len(threads) : Divided(threads, w)
    BY <1>2 DEF ThreadsInv
  <2>4. \E v \in 0..Len(threads') : Divided(threads, v)'
    BY <2>2, <2>3
  <2>5. accessors' = IF OnDatabase' = {} THEN {} ELSE Running(threads') \cap Polled'
    BY <1>2, <2>1 DEF ThreadsInv
  <2>6. \A p \in DOMAIN pipes' : pipes'[p].state = "FINALIZED" /\ pipes'[p].loose = {}
    BY <1>2 DEF ThreadsInv
  <2> QED
    BY <1>1, <2>4, <2>5, <2>6 DEF ThreadsInv, Running
<1>3. CASE ~Opened
  BY <1>1, <1>3 DEF ThreadsInv
<1> QED
  BY <1>2, <1>3

\* The invariant is inductive.
LEMMA Step == IInv /\ [Next]_vars => IInv'
<1> SUFFICES ASSUME IInv, [Next]_vars PROVE IInv'
  OBVIOUS
<1>1. CASE BuildSome
  <2>1. PipesInv' /\ LifeInv'
    BY <1>1, CreateKeeps, BuildKeeps DEF IInv, BuildSome
  <2>2. live = "building" /\ UNCHANGED << threads, live >>
    BY <1>1 DEF BuildSome, CreatePipeline, AddStage, NoMoreStages, Bind, NoMoreBindings, TakeQueue, Building
  <2>3. ~Opened'
    BY <2>2 DEF IInv, LifeInv, Opened
  <2> QED
    BY <2>1, <2>3 DEF IInv, ThreadsInv
<1>2. CASE MergeAll \/ \E apps \in SUBSET App : MergeApps(apps)
  <2>1. live = "building" /\ UNCHANGED << pipes, threads, live, accessors, disabler >>
    BY <1>2 DEF MergeAll, MergeApps
  <2>2. ~Opened
    BY <2>1 DEF IInv, LifeInv, Opened
  <2>3. PipesInv' /\ LifeInv'
    BY <2>1 DEF IInv, PipesInv, LifeInv
  <2> QED
    BY <2>1, <2>2, <2>3, ThreadsStay DEF IInv
<1>3. CASE OpenPipelines
  BY <1>3, OpenKeeps
<1>4. CASE Fail \/ ScopedDisableAll \/ ReleaseDisabler \/ PostSimLoopTeardown \/ UNCHANGED vars
  <2>1. UNCHANGED << pipes, threads, accessors, merger >>
    BY <1>4 DEF Fail, ScopedDisableAll, ReleaseDisabler, PostSimLoopTeardown, vars
  <2>2. LifeInv'
    <3>1. live' \in {"building", "open", "failed", "closed"}
      BY <1>4 DEF IInv, LifeInv, Fail, ScopedDisableAll, ReleaseDisabler, PostSimLoopTeardown, vars
    <3>2. live' \in {"building", "failed"} => live \in {"building", "failed"}
      BY <1>4 DEF Fail, ScopedDisableAll, ReleaseDisabler, PostSimLoopTeardown, vars
    <3>3. ~disabler'.alive => disabler'.off = {}
      BY <1>4 DEF IInv, LifeInv, Fail, ScopedDisableAll, ReleaseDisabler, PostSimLoopTeardown, vars
    <3> QED
      BY <2>1, <3>1, <3>2, <3>3 DEF IInv, LifeInv
  <2>3. PipesInv'
    BY <2>1 DEF IInv, PipesInv
  <2> QED
    BY <2>1, <2>2, <2>3, ThreadsStay DEF IInv
<1> QED
  BY <1>1, <1>2, <1>3, <1>4 DEF Next

LEMMA Invariant == Spec => []IInv
  BY Initial, Step, PTL DEF Spec

--------------------------------------------------------------------------------
(***************************************************************************)
(* Theorems.                                                               *)
(***************************************************************************)
\* In pipelines that run, every queue has somebody at both ends: an input that is bound
\* reads one of the outputs bound to it, an output is read by its input unless another one
\* that shares it is, and the app took what is bound to nothing (finalizeBindings,
\* getInPortQueue, getOutPortQueue).
THEOREM QueuesAttached == Spec => []Attached
<1>1. IInv => Attached
  <2> SUFFICES ASSUME IInv, Opened, NEW p \in DOMAIN pipes
               PROVE  LET pipe == pipes[p]
                      IN  /\ \A i \in InPorts(pipe) :
                                BoundTo(pipe, i) # {} => Cardinality({o \in BoundTo(pipe, i) : pipe.feed[i] = o}) = 1
                          /\ \A o \in DOMAIN pipe.bound :
                                \/ {i \in InPorts(pipe) : pipe.feed[i] = o} = {pipe.bound[o]}
                                \/ \E other \in BoundTo(pipe, pipe.bound[o]) \ {o} : pipe.feed[pipe.bound[o]] = other
                          /\ pipe.loose = {}
    BY DEF Attached
  <2> DEFINE pipe == pipes[p]
  <2>1. pipe \in Pipe /\ pipe.loose = {} /\ Resolves(pipe) /\ pipe.feed \in Feeds(pipe)
    BY DEF IInv, PipesInv, ThreadsInv, Wired
  <2> HIDE DEF pipe
  <2>2. \A i \in InPorts(pipe) : IF BoundTo(pipe, i) = {} THEN pipe.feed[i] = Own
                                                          ELSE pipe.feed[i] \in BoundTo(pipe, i)
    BY <2>1 DEF Feeds
  <2>3. ASSUME NEW i \in InPorts(pipe), BoundTo(pipe, i) # {}
        PROVE  Cardinality({o \in BoundTo(pipe, i) : pipe.feed[i] = o}) = 1
    <3> DEFINE S == {o \in BoundTo(pipe, i) : pipe.feed[i] = o}
    <3>1. pipe.feed[i] \in S /\ \A o \in S : o = pipe.feed[i]
      BY <2>2, <2>3
    <3> HIDE DEF S
    <3>2. Cardinality(S) = 1
      BY <3>1, CountOne
    <3> QED
      BY <3>2 DEF S
  <2>4. ASSUME NEW o \in DOMAIN pipe.bound
        PROVE  \/ {i \in InPorts(pipe) : pipe.feed[i] = o} = {pipe.bound[o]}
               \/ \E other \in BoundTo(pipe, pipe.bound[o]) \ {o} : pipe.feed[pipe.bound[o]] = other
    <3>1. o \in OutPorts(pipe) /\ pipe.bound[o] \in InPorts(pipe) /\ o \in BoundTo(pipe, pipe.bound[o])
      BY <2>1 DEF Resolves, BoundTo
    <3>2. o # Own
      <4>1. o \in AnyOut
        BY <2>1, <3>1, PortsAre
      <4> QED
        BY <4>1, ConfigAssumption DEF AnyOut
    <3>3. pipe.feed[pipe.bound[o]] \in BoundTo(pipe, pipe.bound[o])
      BY <2>2, <3>1
    <3>4. CASE pipe.feed[pipe.bound[o]] = o
      <4>1. \A i \in InPorts(pipe) : pipe.feed[i] = o => i = pipe.bound[o]
        BY <2>2, <3>2 DEF BoundTo
      <4> QED
        BY <3>1, <3>4, <4>1
    <3>5. CASE pipe.feed[pipe.bound[o]] # o
      BY <3>3, <3>5
    <3> QED
      BY <3>4, <3>5
  <2> QED
    BY <2>1, <2>3, <2>4 DEF pipe
<1> QED
  BY <1>1, Invariant, PTL

\* What the threads hold, thread by thread.
LEMMA ThreadsHold ==
    ASSUME PipesInv, NEW w, Divided(threads, w)
    PROVE  /\ w \in Nat
           /\ \A n \in 1..w : n \in DOMAIN threads /\ ~threads[n].db /\ threads[n].runs \subseteq Polled
           /\ \A n \in DOMAIN threads : n \in 1..w \/ n = w + 1
           /\ OnDatabase = {} => w + 1 \notin DOMAIN threads
           /\ OnDatabase # {} => w + 1 \in DOMAIN threads /\ threads[w + 1].db /\ threads[w + 1].runs = OnDatabase
           /\ w + 1 \notin 1..w
<1>1. w \in Nat /\ \A n \in 1..w : n \in DOMAIN threads /\ ~threads[n].db /\ threads[n].runs \subseteq Polled
  BY DEF Divided, Spread
<1>2. CASE OnDatabase = {}
  BY <1>1, <1>2 DEF Divided, Last
<1>3. CASE OnDatabase # {}
  BY <1>1, <1>3 DEF Divided, Last
<1> QED
  BY <1>1, <1>2, <1>3

\* Database stages run on the one database thread, which runs nothing else; the other
\* stages that run have the accessor exactly if there is such a thread (assignThread_,
\* PipelineManager::openPipelines, performMerge).
THEOREM DatabaseApart == Spec => []KindsApart
<1>1. IInv => KindsApart
  <2> SUFFICES ASSUME IInv, Opened PROVE KindsApart
    BY DEF KindsApart
  <2>1. PICK w \in 0..Len(threads) : Divided(threads, w)
    BY DEF IInv, ThreadsInv
  <2>2. /\ w \in Nat
        /\ \A n \in 1..w : n \in DOMAIN threads /\ ~threads[n].db /\ threads[n].runs \subseteq Polled
        /\ \A n \in DOMAIN threads : n \in 1..w \/ n = w + 1
        /\ OnDatabase = {} => w + 1 \notin DOMAIN threads
        /\ OnDatabase # {} => w + 1 \in DOMAIN threads /\ threads[w + 1].db /\ threads[w + 1].runs = OnDatabase
        /\ w + 1 \notin 1..w
    BY <2>1, ThreadsHold DEF IInv
  <2>3. Cardinality({n \in DOMAIN threads : threads[n].db}) <= 1
    <3> DEFINE S == {n \in DOMAIN threads : threads[n].db}
    <3>1. \A n \in S : n = w + 1
      BY <2>2
    <3> HIDE DEF S
    <3>2. S = {} => Cardinality(S) = 0
      BY FS_EmptySet
    <3>3. w + 1 \in S => Cardinality(S) = 1
      BY <3>1, CountOne
    <3>4. Cardinality(S) <= 1
      BY <3>1, <3>2, <3>3
    <3> QED
      BY <3>4 DEF S
  <2>4. \A n \in DOMAIN threads : \A s \in threads[n].runs : threads[n].db <=> s \in OnDatabase
    <3> TAKE n \in DOMAIN threads
    <3>1. CASE n \in 1..w
      BY <2>2, <3>1 DEF Polled
    <3>2. CASE n = w + 1
      BY <2>2, <3>2
    <3> QED
      BY <2>2, <3>1, <3>2
  <2>5. accessors = IF OnDatabase = {} THEN {} ELSE Running(threads) \cap Polled
    BY DEF IInv, ThreadsInv
  <2> QED
    BY <2>3, <2>4, <2>5 DEF KindsApart
<1> QED
  BY <1>1, Invariant, PTL

\* Every stage runs on exactly one thread, but for the polled stages of a pipeline that is
\* not its app's last one when threads are merged: those run on none (pipelines_by_app).
THEOREM EveryStageRuns == Spec => []StagesRun
<1>1. IInv => StagesRun
  <2> SUFFICES ASSUME IInv, Opened, NEW s \in Stages
               PROVE  Cardinality({n \in DOMAIN threads : s \in threads[n].runs})
                          = IF Left(s) /\ s \in Polled THEN 0 ELSE 1
    BY DEF StagesRun
  <2> DEFINE S == {n \in DOMAIN threads : s \in threads[n].runs}
  <2>1. PICK w \in 0..Len(threads) : Divided(threads, w)
    BY DEF IInv, ThreadsInv
  <2>2. /\ w \in Nat
        /\ \A n \in 1..w : n \in DOMAIN threads /\ ~threads[n].db /\ threads[n].runs \subseteq Polled
        /\ \A n \in DOMAIN threads : n \in 1..w \/ n = w + 1
        /\ OnDatabase = {} => w + 1 \notin DOMAIN threads
        /\ OnDatabase # {} => w + 1 \in DOMAIN threads /\ threads[w + 1].db /\ threads[w + 1].runs = OnDatabase
        /\ w + 1 \notin 1..w
    BY <2>1, ThreadsHold DEF IInv
  <2>3. Left(s) <=> Skipped(s)
    <3>1. s[1] \in DOMAIN pipes
      BY StagesAre DEF IInv
    <3>2. s[1] = LastOf(pipes[s[1]].app) <=> Latest(s[1])
      BY <3>1, LastIs DEF IInv
    <3> QED
      BY <3>2 DEF Left, Skipped, OwnerOf
  <2>4. CASE s \in OnDatabase
    <3>1. s \notin Polled
      BY <2>4 DEF Polled
    <3>2. w + 1 \in S /\ \A n \in S : n = w + 1
      BY <2>2, <2>4, <3>1
    <3> HIDE DEF S
    <3>3. Cardinality(S) = 1
      BY <3>2, CountOne
    <3> QED
      BY <3>1, <3>3 DEF S
  <2>5. CASE s \in Polled
    <3>1. s \notin OnDatabase
      BY <2>5 DEF Polled
    <3>2. S \subseteq 1..w
      BY <2>2, <3>1
    <3>3. CASE Skipped(s)
      <4>1. \A n \in 1..w : s \notin threads[n].runs
        BY <2>1, <2>5, <3>3 DEF Divided, Spread
      <4>2. S = {}
        BY <3>2, <4>1
      <4> HIDE DEF S
      <4>3. Cardinality(S) = 0
        BY <4>2, FS_EmptySet
      <4> QED
        BY <2>3, <2>5, <3>3, <4>3 DEF S
    <3>4. CASE ~Skipped(s)
      <4>1. PICK n \in 1..w : \A m \in 1..w : s \in threads[m].runs <=> m = n
        BY <2>1, <2>5, <3>4 DEF Divided, Spread
      <4>2. n \in S /\ \A m \in S : m = n
        BY <2>2, <3>2, <4>1
      <4> HIDE DEF S
      <4>3. Cardinality(S) = 1
        BY <4>2, CountOne
      <4> QED
        BY <2>3, <3>4, <4>3 DEF S
    <3> QED
      BY <3>3, <3>4
  <2> QED
    BY <2>4, <2>5 DEF Polled
<1> QED
  BY <1>1, Invariant, PTL

\* Merged threads are no more than the polled stages and no fewer than any app needs, and
\* none has more than one stage more than another (ThreadMerger::performMerge).
THEOREM MergeIsBalanced == Spec => []Balanced
<1>1. IInv => Balanced
  <2> SUFFICES ASSUME IInv, Opened, Merging = "all"
               PROVE  LET polling == {n \in DOMAIN threads : ~threads[n].db}
                      IN  /\ Cardinality(polling) <= Cardinality(Polled)
                          /\ \A a \in App : Cardinality(Share(a)) <= Cardinality(polling)
                          /\ \A m, n \in polling :
                                Cardinality(threads[m].runs) <= Cardinality(threads[n].runs) + 1
    BY DEF Balanced
  <2> DEFINE polling == {n \in DOMAIN threads : ~threads[n].db}
  <2>1. PICK w \in 0..Len(threads) : Divided(threads, w)
    BY DEF IInv, ThreadsInv
  <2>2. /\ w \in Nat
        /\ \A n \in 1..w : n \in DOMAIN threads /\ ~threads[n].db /\ threads[n].runs \subseteq Polled
        /\ \A n \in DOMAIN threads : n \in 1..w \/ n = w + 1
        /\ OnDatabase = {} => w + 1 \notin DOMAIN threads
        /\ OnDatabase # {} => w + 1 \in DOMAIN threads /\ threads[w + 1].db /\ threads[w + 1].runs = OnDatabase
        /\ w + 1 \notin 1..w
    BY <2>1, ThreadsHold DEF IInv
  <2>3. polling = 1..w
    BY <2>2
  <2>4. Cardinality(1..w) = w
    <3>1. 1 \in Int /\ w \in Int /\ (1 > w => w = 0) /\ w - 1 + 1 = w
      BY <2>2
    <3> QED
      BY <3>1, FS_Interval
  <2>5. /\ w <= Cardinality(Polled)
        /\ \A a \in App : Cardinality(Share(a)) <= w
        /\ \A m, n \in 1..w : Cardinality(threads[m].runs) <= Cardinality(threads[n].runs) + 1
    BY <2>1 DEF Divided, Evenly
  <2> HIDE DEF polling
  <2>6. /\ Cardinality(polling) <= Cardinality(Polled)
        /\ \A a \in App : Cardinality(Share(a)) <= Cardinality(polling)
        /\ \A m, n \in polling : Cardinality(threads[m].runs) <= Cardinality(threads[n].runs) + 1
    BY <2>3, <2>4, <2>5
  <2> QED
    BY <2>6 DEF polling
<1> QED
  BY <1>1, Invariant, PTL

\* The list of stages kept for disablers is empty or holds what runs, and is empty until
\* threads are made.
CacheInv == cached # {} => live # "building" /\ cached = Running(threads)

LEMMA CacheStep ==
    ASSUME IInv, CacheInv, [Next]_vars
    PROVE  CacheInv'
<1> USE DEF CacheInv
<1>1. live = "building" => Running(threads) = {}
  BY DEF IInv, LifeInv, Running
<1>2. ASSUME UNCHANGED << threads, live, cached >> PROVE CacheInv'
  BY <1>2 DEF Running
<1>3. ASSUME OpenPipelines PROVE CacheInv'
  BY <1>3 DEF OpenPipelines
<1>4. ASSUME Fail PROVE CacheInv'
  BY <1>4 DEF Fail, Running
<1>5. ASSUME ScopedDisableAll PROVE CacheInv'
  BY <1>1, <1>5 DEF ScopedDisableAll, Running
<1>6. ASSUME PostSimLoopTeardown PROVE CacheInv'
  BY <1>6 DEF PostSimLoopTeardown, Running
<1> QED
  BY <1>2, <1>3, <1>4, <1>5, <1>6
     DEF Next, vars, BuildSome, CreatePipeline, AddStage, NoMoreStages, Bind, NoMoreBindings,
         TakeQueue, Building, MergeAll, MergeApps, ReleaseDisabler

\* A disabler is handed out with every stage that runs, however often and how early others
\* were taken before it (PipelineManager::getDisablerRunnables_).
THEOREM DisablerIsWhole == Spec => DisablerTakesAll
<1>1. CacheInv /\ [Next]_vars =>
          [~disabler.alive /\ disabler'.alive => disabler'.off = Running(threads)]_vars
  <2> SUFFICES ASSUME CacheInv, [Next]_vars, ~disabler.alive, disabler'.alive
               PROVE  disabler'.off = Running(threads)
    OBVIOUS
  <2>1. ScopedDisableAll
    BY DEF Next, vars, BuildSome, CreatePipeline, AddStage, NoMoreStages, Bind, NoMoreBindings,
           TakeQueue, Building, MergeAll, MergeApps, OpenPipelines, Fail, ReleaseDisabler,
           PostSimLoopTeardown
  <2> QED
    BY <2>1 DEF ScopedDisableAll, CacheInv
<1>2. Init => CacheInv
  BY DEF Init, CacheInv
<1>3. Spec => []CacheInv
  BY <1>2, CacheStep, Invariant, PTL DEF Spec
<1> QED
  BY <1>1, <1>3, PTL DEF Spec, DisablerTakesAll

================================================================================
