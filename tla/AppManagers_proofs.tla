--------------------------- MODULE AppManagers_proofs ---------------------------
(***************************************************************************)
(* Proofs about AppManagers and the SchemaStore below it, for every number *)
(* of app types, instances, sessions, retries and strings, and for every   *)
(* choice of schemas and hook orderings.                                   *)
(***************************************************************************)
EXTENDS AppManagers, SequenceTheorems, FiniteSetTheorems, TLAPS

--------------------------------------------------------------------------------
(***************************************************************************)
(* Walks: sequences of apps.                                               *)
(***************************************************************************)
AppsIn(s) == {s[i] : i \in DOMAIN s}

\* a is met in s, and no b before it.
Ahead(s, a, b) == \E i \in DOMAIN s : s[i] = a /\ \A j \in 1 .. i : s[j] # b

\* One walk after another.
LEMMA WalkConcat ==
    ASSUME NEW s \in Seq(AppId), NEW t \in Seq(AppId)
    PROVE  /\ s \o t \in Seq(AppId)
           /\ AppsIn(s \o t) = AppsIn(s) \cup AppsIn(t)
           /\ \A a, b : Ahead(s, a, b) => Ahead(s \o t, a, b)
           /\ \A a \in AppsIn(s) : \A b : b \notin AppsIn(s) => Ahead(s \o t, a, b)
           /\ \A a, b : b \notin AppsIn(s) /\ Ahead(t, a, b) => Ahead(s \o t, a, b)
<1> DEFINE c == s \o t
           m == Len(s)
           n == Len(t)
<1>1. /\ m \in Nat /\ n \in Nat /\ c \in Seq(AppId)
      /\ DOMAIN s = 1 .. m /\ DOMAIN t = 1 .. n /\ DOMAIN c = 1 .. (m + n)
  BY ConcatProperties
<1>2. \A k \in 1 .. (m + n) : c[k] = IF k <= m THEN s[k] ELSE t[k - m]
  BY ConcatProperties
<1> HIDE DEF c, m, n
<1>3. \A i \in 1 .. m : i \in 1 .. (m + n) /\ c[i] = s[i]
  BY <1>1, <1>2
<1>4. ASSUME NEW j \in 1 .. n PROVE m + j \in 1 .. (m + n) /\ c[m + j] = t[j]
  <2>1. m + j \in 1 .. (m + n) /\ ~(m + j <= m) /\ (m + j) - m = j
    BY <1>1
  <2> QED
    BY <1>2, <2>1
<1>5. ASSUME NEW k \in 1 .. (m + n), k \notin 1 .. m PROVE \E j \in 1 .. n : k = m + j
  <2>1. k - m \in 1 .. n /\ k = m + (k - m)
    BY <1>1, <1>5
  <2> QED
    BY <2>1
<1>6. AppsIn(c) = AppsIn(s) \cup AppsIn(t)
  <2>1. ASSUME NEW x \in AppsIn(c) PROVE x \in AppsIn(s) \cup AppsIn(t)
    <3>1. PICK k \in 1 .. (m + n) : x = c[k]
      BY <1>1, <2>1 DEF AppsIn
    <3>2. CASE k \in 1 .. m
      BY <1>1, <1>3, <3>1, <3>2 DEF AppsIn
    <3>3. CASE k \notin 1 .. m
      <4>1. PICK j \in 1 .. n : k = m + j
        BY <1>5, <3>3
      <4> QED
        BY <1>1, <1>4, <3>1, <4>1 DEF AppsIn
    <3> QED
      BY <3>2, <3>3
  <2>2. ASSUME NEW x \in AppsIn(s) PROVE x \in AppsIn(c)
    BY <1>1, <1>3, <2>2 DEF AppsIn
  <2>3. ASSUME NEW x \in AppsIn(t) PROVE x \in AppsIn(c)
    BY <1>1, <1>4, <2>3 DEF AppsIn
  <2> QED
    BY <2>1, <2>2, <2>3
<1>7. ASSUME NEW a, NEW b, NEW i \in 1 .. m, s[i] = a, \A j \in 1 .. i : s[j] # b
      PROVE  Ahead(c, a, b)
  <2>1. \A j \in 1 .. i : c[j] # b
    <3>1. \A j \in 1 .. i : j \in 1 .. m
      BY <1>1
    <3> QED
      BY <1>3, <1>7, <3>1
  <2>2. i \in DOMAIN c /\ c[i] = a
    BY <1>1, <1>3, <1>7
  <2> QED
    BY <2>1, <2>2 DEF Ahead
<1>8. ASSUME NEW a, NEW b, Ahead(s, a, b) PROVE Ahead(c, a, b)
  <2>1. PICK i \in 1 .. m : s[i] = a /\ \A j \in 1 .. i : s[j] # b
    BY <1>1, <1>8 DEF Ahead
  <2> QED
    BY <1>7, <2>1
<1>9. ASSUME NEW a \in AppsIn(s), NEW b, b \notin AppsIn(s) PROVE Ahead(c, a, b)
  <2>1. PICK i \in 1 .. m : s[i] = a
    BY <1>1 DEF AppsIn
  <2>2. \A j \in 1 .. i : s[j] # b
    <3>1. \A j \in 1 .. i : j \in DOMAIN s
      BY <1>1
    <3> QED
      BY <1>9, <3>1 DEF AppsIn
  <2> QED
    BY <1>7, <2>1, <2>2
<1>10. ASSUME NEW a, NEW b, b \notin AppsIn(s), Ahead(t, a, b) PROVE Ahead(c, a, b)
  <2>1. PICK i \in 1 .. n : t[i] = a /\ \A j \in 1 .. i : t[j] # b
    BY <1>1, <1>10 DEF Ahead
  <2>2. ASSUME NEW j \in 1 .. (m + i) PROVE c[j] # b
    <3>1. CASE j \in 1 .. m
      BY <1>1, <1>3, <1>10, <3>1 DEF AppsIn
    <3>2. CASE j \notin 1 .. m
      <4>1. j \in 1 .. (m + n)
        BY <1>1
      <4>2. PICK k \in 1 .. n : j = m + k
        BY <1>5, <3>2, <4>1
      <4>3. k \in 1 .. i
        BY <1>1, <4>2
      <4> QED
        BY <1>4, <2>1, <4>2, <4>3
    <3> QED
      BY <3>1, <3>2
  <2>3. m + i \in DOMAIN c /\ c[m + i] = a
    BY <1>1, <1>4, <2>1
  <2> QED
    BY <2>2, <2>3 DEF Ahead
<1>11. /\ c \in Seq(AppId)
       /\ AppsIn(c) = AppsIn(s) \cup AppsIn(t)
       /\ \A a, b : Ahead(s, a, b) => Ahead(c, a, b)
       /\ \A a \in AppsIn(s) : \A b : b \notin AppsIn(s) => Ahead(c, a, b)
       /\ \A a, b : b \notin AppsIn(s) /\ Ahead(t, a, b) => Ahead(c, a, b)
  BY <1>1, <1>6, <1>8, <1>9, <1>10
<1> QED
  BY <1>11 DEF c

\* A walk of one app, and of none.
LEMMA WalkShort ==
    /\ <<>> \in Seq(AppId) /\ AppsIn(<<>>) = {}
    /\ \A a \in AppId : <<a>> \in Seq(AppId) /\ AppsIn(<<a>>) = {a}
  BY DEF AppsIn

\* The first app of a walk and the others.
LEMMA WalkPop ==
    ASSUME NEW s \in Seq(AppId), s # <<>>
    PROVE  /\ Head(s) \in AppId /\ Tail(s) \in Seq(AppId)
           /\ s = <<Head(s)>> \o Tail(s)
           /\ AppsIn(s) = {Head(s)} \cup AppsIn(Tail(s))
<1> DEFINE h == <<Head(s)>>
           t == Tail(s)
<1>1. Head(s) \in AppId /\ t \in Seq(AppId) /\ s = h \o t
  OBVIOUS
<1>2. h \in Seq(AppId) /\ AppsIn(h) = {Head(s)}
  BY <1>1, WalkShort
<1> HIDE DEF h, t
<1>3. AppsIn(s) = AppsIn(h) \cup AppsIn(t)
  BY <1>1, <1>2, WalkConcat
<1> QED
  BY <1>1, <1>2, <1>3 DEF h, t

\* A set of numbers has a least one.
LEMMA Least ==
    ASSUME NEW S, S \subseteq Nat, S # {}
    PROVE  \E n \in S : \A m \in S : n <= m
<1>1. PICK n \in S : \A m \in S : ~(<<m, n>> \in OpToRel(<, Nat))
  BY NatLessThanWellFounded, WFMin
<1>2. ASSUME NEW m \in S PROVE n <= m
  <2>1. m \in Nat /\ n \in Nat
    OBVIOUS
  <2>2. ~(m < n)
    BY <1>1, <2>1 DEF OpToRel
  <2> QED
    BY <2>1, <2>2
<1> QED
  BY <1>2

\* In a walk that meets a before b, the first call of a comes before that of b.
LEMMA AheadCalledFirst ==
    ASSUME NEW s \in Seq(AppId), NEW a \in AppsIn(s), NEW b \in AppsIn(s), Ahead(s, a, b)
    PROVE  (CHOOSE i \in DOMAIN s : s[i] = a /\ \A j \in 1 .. i - 1 : s[j] # a)
             < (CHOOSE i \in DOMAIN s : s[i] = b /\ \A j \in 1 .. i - 1 : s[j] # b)
<1> DEFINE n == Len(s)
           At(x) == {i \in 1 .. n : s[i] = x}
           Call(x, i) == s[i] = x /\ \A j \in 1 .. i - 1 : s[j] # x
<1>1. n \in Nat /\ DOMAIN s = 1 .. n
  OBVIOUS
<1> HIDE DEF n
<1>2. ASSUME NEW x \in AppsIn(s) PROVE \E i \in 1 .. n : Call(x, i)
  <2>1. At(x) # {} /\ At(x) \subseteq Nat
    BY <1>1 DEF AppsIn
  <2>2. PICK i \in At(x) : \A j \in At(x) : i <= j
    BY <2>1, Least
  <2>3. \A j \in 1 .. i - 1 : j \in 1 .. n /\ ~(i <= j)
    BY <1>1, <2>2
  <2> QED
    BY <2>2, <2>3
<1>3. PICK k \in 1 .. n : s[k] = a /\ \A j \in 1 .. k : s[j] # b
  BY <1>1 DEF Ahead
<1> DEFINE p == CHOOSE i \in 1 .. n : Call(a, i)
           q == CHOOSE i \in 1 .. n : Call(b, i)
<1>4. p \in 1 .. n /\ Call(a, p)
  BY <1>2
<1>5. q \in 1 .. n /\ Call(b, q)
  BY <1>2
<1>6. p < q
  <2> HIDE DEF p, q
  <2>1. p <= k
    <3>1. ~(k \in 1 .. p - 1)
      BY <1>3, <1>4
    <3> QED
      BY <1>1, <1>4, <3>1
  <2>2. k < q
    <3>1. ~(q \in 1 .. k)
      BY <1>3, <1>5
    <3> QED
      BY <1>1, <1>5, <3>1
  <2> QED
    BY <1>1, <1>4, <1>5, <2>1, <2>2
<1> QED
  BY <1>1, <1>6
--------------------------------------------------------------------------------
(***************************************************************************)
(* The order of the map of apps.                                           *)
(***************************************************************************)
\* The components of an app id are numbers, and tell it apart.
LEMMA AppIdParts ==
    /\ \A a \in AppId : a[1] \in Kind /\ a[2] \in Inst /\ a[1] \in Nat /\ a[2] \in Nat
    /\ \A a, b \in AppId : a[1] = b[1] /\ a[2] = b[2] => a = b
    /\ Kinds \in Nat /\ MaxInst \in Nat
  BY AppsAssumption DEF AppId, Kind, Inst

\* Before is a strict order on app ids, and total.
LEMMA BeforeOrders ==
    ASSUME NEW a \in AppId, NEW b \in AppId
    PROVE  /\ ~(Before(a, b) /\ Before(b, a)) /\ ~Before(a, a)
           /\ a # b => Before(a, b) \/ Before(b, a)
  BY AppIdParts DEF Before

LEMMA AppsFinite ==
    ASSUME NEW S, S \subseteq AppId
    PROVE  IsFiniteSet(S)
<1>1. IsFiniteSet(Kind) /\ IsFiniteSet(Inst)
  BY AppIdParts, FS_Interval DEF Kind, Inst
<1>2. IsFiniteSet(AppId)
  BY <1>1, FS_Product DEF AppId
<1> QED
  BY <1>2, FS_Subset

\* A set of apps has a first one.
LEMMA FirstApp ==
    ASSUME NEW S, S \subseteq AppId, S # {}
    PROVE  \E a \in S : \A b \in S : b # a => Before(a, b)
<1> DEFINE K == {a[1] : a \in S}
<1>1. K # {} /\ K \subseteq Nat
  BY AppIdParts
<1>2. PICK k \in K : \A j \in K : k <= j
  BY <1>1, Least
<1> DEFINE I == {a[2] : a \in {b \in S : b[1] = k}}
<1>3. I # {} /\ I \subseteq Nat
  BY <1>2, AppIdParts
<1>4. PICK i \in I : \A j \in I : i <= j
  BY <1>3, Least
<1>5. PICK a \in S : a[1] = k /\ a[2] = i
  BY <1>4
<1>6. ASSUME NEW b \in S, b # a PROVE Before(a, b)
  <2>1. a \in AppId /\ b \in AppId
    OBVIOUS
  <2>2. k <= b[1]
    BY <1>2
  <2>3. b[1] = k => i <= b[2]
    BY <1>4
  <2>4. k \in Nat /\ b[1] \in Nat /\ i \in Nat /\ b[2] \in Nat
    BY <1>5, <2>1, AppIdParts
  <2>5. ~(a[1] = b[1] /\ a[2] = b[2])
    BY <1>6, <2>1, AppIdParts
  <2> QED
    BY <1>5, <2>2, <2>3, <2>4, <2>5 DEF Before
<1> QED
  BY <1>6

InOrder(s, S) ==
    s \in [1 .. Cardinality(S) -> S] /\ \A i, j \in 1 .. Cardinality(S) : i < j => Before(s[i], s[j])

\* Every set of apps can be listed in order: were there one that cannot, a smallest one
\* would be its first app and a set that can.
LEMMA OrderExists ==
    ASSUME NEW S, S \subseteq AppId
    PROVE  \E s : InOrder(s, S)
<1> DEFINE Bad(n) == \E T \in SUBSET AppId : Cardinality(T) = n /\ ~ \E s : InOrder(s, T)
           N == {n \in Nat : Bad(n)}
<1>1. SUFFICES ASSUME ~ \E s : InOrder(s, S) PROVE FALSE
  OBVIOUS
<1>2. \A T \in SUBSET AppId : IsFiniteSet(T) /\ Cardinality(T) \in Nat
  BY AppsFinite, FS_CardinalityType
<1>3. Cardinality(S) \in N
  BY <1>1, <1>2
<1>4. PICK n \in N : \A m \in N : n <= m
  BY <1>3, Least
<1>5. PICK T \in SUBSET AppId : Cardinality(T) = n /\ ~ \E s : InOrder(s, T)
  BY <1>4
<1>6. T # {}
  <2>1. SUFFICES ASSUME T = {} PROVE FALSE
    OBVIOUS
  <2>2. Cardinality(T) = 0
    BY <2>1, FS_EmptySet
  <2>3. InOrder([i \in 1 .. 0 |-> 0], T)
    BY <2>2 DEF InOrder
  <2> QED
    BY <1>5, <2>3
<1>7. PICK a \in T : \A b \in T : b # a => Before(a, b)
  BY <1>6, FirstApp
<1> DEFINE R == T \ {a}
<1>8. n \in Nat /\ n # 0 /\ Cardinality(R) = n - 1 /\ R \subseteq AppId
  <2>1. Cardinality(R) = Cardinality(T) - 1
    BY <1>2, <1>7, FS_RemoveElement
  <2>2. Cardinality(T) # 0
    BY <1>2, <1>6, FS_EmptySet
  <2> QED
    BY <1>4, <1>5, <2>1, <2>2
<1>9. PICK r : InOrder(r, R)
  <2>1. ~(n - 1 \in N)
    BY <1>4, <1>8
  <2> QED
    BY <1>8, <2>1
<1> DEFINE s == [i \in 1 .. n |-> IF i = 1 THEN a ELSE r[i - 1]]
<1>10. \A i \in 1 .. (n - 1) : r[i] \in T /\ r[i] # a
  BY <1>8, <1>9 DEF InOrder
<1>11. \A i \in 1 .. n : i # 1 => i - 1 \in 1 .. (n - 1) /\ s[i] = r[i - 1]
  BY <1>8
<1>12. 1 \in 1 .. n /\ s[1] = a
  BY <1>8
<1>13. s \in [1 .. n -> T]
  BY <1>7, <1>10, <1>11
<1>14. ASSUME NEW i \in 1 .. n, NEW j \in 1 .. n, i < j PROVE Before(s[i], s[j])
  <2>1. j # 1 /\ s[j] = r[j - 1] /\ j - 1 \in 1 .. (n - 1)
    BY <1>11, <1>14
  <2>2. CASE i = 1
    BY <1>7, <1>10, <1>12, <2>1, <2>2
  <2>3. CASE i # 1
    <3>1. i - 1 \in 1 .. (n - 1) /\ s[i] = r[i - 1] /\ i - 1 < j - 1
      BY <1>8, <1>11, <1>14, <2>3
    <3> QED
      BY <1>8, <1>9, <2>1, <3>1 DEF InOrder
  <2> QED
    BY <2>2, <2>3
<1> HIDE DEF s
<1>15. InOrder(s, T)
  BY <1>5, <1>13, <1>14 DEF InOrder
<1> QED
  BY <1>5, <1>15

\* The map's order: every app once, in the order of types and instances.
LEMMA MapOrder ==
    ASSUME NEW S, S \subseteq AppId
    PROVE  /\ InMapOrder(S) \in Seq(AppId)
           /\ AppsIn(InMapOrder(S)) = S
           /\ \A a, b \in S : Before(a, b) => Ahead(InMapOrder(S), a, b)
<1> DEFINE n == Cardinality(S)
           s == InMapOrder(S)
<1>1. IsFiniteSet(S) /\ n \in Nat
  BY AppsFinite, FS_CardinalityType
<1>2. InOrder(s, S)
  <2>1. s = CHOOSE t \in [1 .. n -> S] : \A i, j \in 1 .. n : i < j => Before(t[i], t[j])
    BY DEF InMapOrder
  <2>2. \E t \in [1 .. n -> S] : \A i, j \in 1 .. n : i < j => Before(t[i], t[j])
    BY OrderExists DEF InOrder
  <2> QED
    BY <2>1, <2>2 DEF InOrder
<1>3. s \in [1 .. n -> S] /\ \A i, j \in 1 .. n : i < j => Before(s[i], s[j])
  BY <1>2 DEF InOrder
<1> HIDE DEF s, n
<1>4. s \in Seq(AppId)
  <2>1. s = [i \in 1 .. n |-> s[i]] /\ \A i \in 1 .. n : s[i] \in AppId
    BY <1>3
  <2> QED
    BY <1>1, <2>1
<1>5. ASSUME NEW i \in 1 .. n, NEW j \in 1 .. n, s[i] = s[j] PROVE i = j
  <2>1. ~(i < j) /\ ~(j < i)
    <3>1. s[i] \in AppId /\ s[j] \in AppId
      BY <1>3
    <3> QED
      BY <1>3, <1>5, <3>1, BeforeOrders
  <2> QED
    BY <1>1, <2>1
<1>6. \A a \in S : \E i \in 1 .. n : s[i] = a
  <2>1. s \in Injection(1 .. n, S)
    BY <1>3, <1>5 DEF Injection, IsInjective
  <2>2. IsFiniteSet(1 .. n) /\ Cardinality(1 .. n) = n
    <3>1. IsFiniteSet(1 .. n) /\ Cardinality(1 .. n) = IF 1 > n THEN 0 ELSE n - 1 + 1
      BY <1>1, FS_Interval
    <3> QED
      BY <1>1, <3>1
  <2>3. s \in Surjection(1 .. n, S)
    BY <1>1, <2>1, <2>2, FS_Injection DEF n
  <2> QED
    BY <2>3 DEF Surjection
<1>7. AppsIn(s) = S
  BY <1>3, <1>6 DEF AppsIn
<1>8. ASSUME NEW a \in S, NEW b \in S, Before(a, b) PROVE Ahead(s, a, b)
  <2>1. PICK i \in 1 .. n : s[i] = a
    BY <1>6
  <2>2. ASSUME NEW j \in 1 .. i, s[j] = b PROVE FALSE
    <3>1. j \in 1 .. n
      BY <1>1
    <3>2. j < i => Before(b, a)
      BY <1>3, <2>1, <2>2, <3>1
    <3>3. j = i => a = b
      BY <2>1, <2>2
    <3>4. j < i \/ j = i
      BY <1>1
    <3> QED
      BY <1>8, <3>2, <3>3, <3>4, BeforeOrders
  <2> QED
    BY <1>3, <2>1, <2>2 DEF Ahead
<1> QED
  BY <1>4, <1>7, <1>8 DEF s
--------------------------------------------------------------------------------
(***************************************************************************)
(* The order of the hooks.                                                 *)
(***************************************************************************)
\* The place of an app is where the ordering first names its type, or behind it.
LEMMA PlaceIs ==
    ASSUME config.ordering \in Seq(Kind), NEW a \in AppId
    PROVE  /\ Place(a) \in Nat
           /\ \/ /\ Place(a) \in DOMAIN config.ordering
                 /\ config.ordering[Place(a)] = a[1]
                 /\ \A m \in DOMAIN config.ordering :
                        config.ordering[m] = a[1] => Place(a) <= m
              \/ /\ Place(a) = Len(config.ordering) + 1
                 /\ \A m \in DOMAIN config.ordering : config.ordering[m] # a[1]
<1> DEFINE o == config.ordering
           at == {n \in DOMAIN o : o[n] = a[1]}
<1>1. Len(o) \in Nat /\ DOMAIN o = 1 .. Len(o)
  OBVIOUS
<1>2. CASE at = {}
  BY <1>1, <1>2 DEF Place
<1>3. CASE at # {}
  <2>1. at \subseteq Nat
    BY <1>1
  <2>2. \E n \in at : \A m \in at : n <= m
    BY <1>3, <2>1, Least
  <2>3. Place(a) = CHOOSE n \in at : \A m \in at : n <= m
    BY <1>3 DEF Place
  <2>4. Place(a) \in at /\ \A m \in at : Place(a) <= m
    BY <2>2, <2>3
  <2> QED
    BY <2>1, <2>4
<1> QED
  BY <1>2, <1>3

\* Apps that HookOrder lets a come before b.
Precedes(a, b) == Place(a) < Place(b) \/ (Place(a) = Place(b) /\ Before(a, b))

\* getAppsInHookOrder_ lists every app, those of the listed types in the order of the
\* list and before the others.
LEMMA HookOrderIs ==
    ASSUME DOMAIN apps \subseteq AppId, config.ordering \in Seq(Kind)
    PROVE  /\ HookOrder \in Seq(AppId)
           /\ AppsIn(HookOrder) = DOMAIN apps
           /\ \A a, b \in DOMAIN apps : Precedes(a, b) => Ahead(HookOrder, a, b)
<1> DEFINE o == config.ordering
           Of(k) == InMapOrder({a \in DOMAIN apps : a[1] = k})
           Rest == {a \in DOMAIN apps : \A n \in 1 .. Len(o) : o[n] # a[1]}
           Eq(f, m) == f = [n \in 0 .. m |-> IF n = 0 THEN <<>> ELSE f[n - 1] \o Of(o[n])]
           listed == CHOOSE f : Eq(f, Len(o))
<1>1. HookOrder = listed[Len(o)] \o InMapOrder(Rest)
  BY DEF HookOrder
<1>2. Len(o) \in Nat /\ DOMAIN o = 1 .. Len(o) /\ \A n \in 1 .. Len(o) : o[n] \in Kind
  OBVIOUS
<1>3. ASSUME NEW k
      PROVE  /\ Of(k) \in Seq(AppId)
             /\ AppsIn(Of(k)) = {a \in DOMAIN apps : a[1] = k}
             /\ \A a, b \in AppsIn(Of(k)) : Before(a, b) => Ahead(Of(k), a, b)
  <2> DEFINE S == {a \in DOMAIN apps : a[1] = k}
  <2>1. S \subseteq AppId
    OBVIOUS
  <2> QED
    BY <2>1, MapOrder
<1>4. /\ InMapOrder(Rest) \in Seq(AppId)
      /\ AppsIn(InMapOrder(Rest)) = Rest
      /\ \A a, b \in Rest : Before(a, b) => Ahead(InMapOrder(Rest), a, b)
  <2>1. Rest \subseteq AppId
    OBVIOUS
  <2> QED
    BY <2>1, MapOrder
<1> HIDE DEF Of
\* The recursion has a solution up to every length.
<1>5. \A m \in 0 .. Len(o) : \E f : Eq(f, m)
  <2> DEFINE Bad == {m \in 0 .. Len(o) : ~ \E f : Eq(f, m)}
  <2> HIDE DEF Eq
  <2>1. SUFFICES ASSUME Bad # {} PROVE FALSE
    OBVIOUS
  <2>2. Bad \subseteq Nat
    BY <1>2
  <2>3. PICK m \in Bad : \A k \in Bad : m <= k
    BY <2>1, <2>2, Least
  <2>4. m \in Nat /\ m <= Len(o)
    BY <1>2
  <2>5. m # 0
    <3>1. Eq([n \in 0 .. 0 |-> <<>>], 0)
      BY DEF Eq
    <3> QED
      BY <2>3, <3>1
  <2>6. m - 1 \in 0 .. Len(o) /\ m - 1 \notin Bad
    BY <1>2, <2>3, <2>4, <2>5
  <2>7. PICK f : Eq(f, m - 1)
    BY <2>6
  <2> DEFINE g == [n \in 0 .. m |-> IF n = m THEN f[m - 1] \o Of(o[m]) ELSE f[n]]
  <2>8. ASSUME NEW n \in 0 .. m
        PROVE  g[n] = IF n = 0 THEN <<>> ELSE g[n - 1] \o Of(o[n])
    <3>1. CASE n = m
      <4>1. m - 1 \in 0 .. m /\ m - 1 # m
        BY <2>4, <2>5
      <4> QED
        BY <2>5, <3>1, <4>1
    <3>2. CASE n # m
      <4>1. n \in 0 .. (m - 1) /\ (n # 0 => n - 1 \in 0 .. m /\ n - 1 # m)
        BY <2>4, <3>2
      <4>2. f[n] = IF n = 0 THEN <<>> ELSE f[n - 1] \o Of(o[n])
        BY <2>7, <4>1 DEF Eq
      <4> QED
        BY <3>2, <4>1, <4>2
    <3> QED
      BY <3>1, <3>2
  <2>9. Eq(g, m)
    BY <2>8 DEF Eq
  <2> QED
    BY <2>3, <2>9
<1>6. Eq(listed, Len(o))
  <2> HIDE DEF Eq
  <2>1. Len(o) \in 0 .. Len(o)
    BY <1>2
  <2>2. \E f : Eq(f, Len(o))
    BY <1>5, <2>1
  <2> QED
    BY <2>2
<1> HIDE DEF listed
<1>7. \A n \in 0 .. Len(o) : listed[n] = IF n = 0 THEN <<>> ELSE listed[n - 1] \o Of(o[n])
  BY <1>6
<1> DEFINE Fine(n) == /\ listed[n] \in Seq(AppId)
                      /\ AppsIn(listed[n]) = {a \in DOMAIN apps : Place(a) <= n}
                      /\ \A a, b \in AppsIn(listed[n]) :
                             Precedes(a, b) => Ahead(listed[n], a, b)
<1>8. ASSUME NEW a \in DOMAIN apps
      PROVE  /\ Place(a) \in 1 .. (Len(o) + 1)
             /\ Place(a) \in 1 .. Len(o) => o[Place(a)] = a[1]
             /\ \A m \in 1 .. Len(o) : o[m] = a[1] => Place(a) <= m
  BY <1>2, PlaceIs
<1>9. ASSUME NEW n \in 1 .. Len(o), Fine(n - 1) PROVE Fine(n)
  <2> DEFINE s == listed[n - 1]
             t == Of(o[n])
             c == listed[n]
  <2>1. c = s \o t
    <3>1. n \in 0 .. Len(o) /\ n # 0
      BY <1>2
    <3> QED
      BY <1>7, <3>1
  <2>2. /\ s \in Seq(AppId) /\ AppsIn(s) = {a \in DOMAIN apps : Place(a) <= n - 1}
        /\ \A a, b \in AppsIn(s) : Precedes(a, b) => Ahead(s, a, b)
    BY <1>9
  <2>3. /\ t \in Seq(AppId) /\ AppsIn(t) = {a \in DOMAIN apps : a[1] = o[n]}
        /\ \A a, b \in AppsIn(t) : Before(a, b) => Ahead(t, a, b)
    BY <1>3
  <2> HIDE DEF s, t, c
  <2>4. /\ c \in Seq(AppId)
        /\ AppsIn(c) = AppsIn(s) \cup AppsIn(t)
        /\ \A a, b : Ahead(s, a, b) => Ahead(c, a, b)
        /\ \A a \in AppsIn(s) : \A b : b \notin AppsIn(s) => Ahead(c, a, b)
        /\ \A a, b : b \notin AppsIn(s) /\ Ahead(t, a, b) => Ahead(c, a, b)
    BY <2>1, <2>2, <2>3, WalkConcat
  <2>5. ASSUME NEW a \in DOMAIN apps
        PROVE  a \in AppsIn(c) <=> Place(a) <= n
    <3>1. Place(a) \in Nat /\ n \in Nat
      BY <1>2, <1>8
    <3>2. Place(a) = n => a[1] = o[n]
      BY <1>8
    <3>3. a[1] = o[n] => Place(a) <= n
      BY <1>8
    <3> QED
      BY <2>2, <2>3, <2>4, <3>1, <3>2, <3>3
  <2>6. AppsIn(c) \subseteq DOMAIN apps
    BY <2>2, <2>3, <2>4
  <2>7. ASSUME NEW a \in AppsIn(c), NEW b \in AppsIn(c), Precedes(a, b) PROVE Ahead(c, a, b)
    <3>1. a \in DOMAIN apps /\ b \in DOMAIN apps
      BY <2>6
    <3>2. /\ Place(a) \in Nat /\ Place(b) \in Nat /\ n \in Nat
          /\ Place(a) <= Place(b) /\ Place(b) <= n
      BY <1>2, <1>8, <2>5, <2>7, <3>1 DEF Precedes
    <3>3. CASE b \in AppsIn(s)
      <4>1. a \in AppsIn(s)
        BY <2>2, <3>1, <3>2, <3>3
      <4> QED
        BY <2>2, <2>4, <2>7, <3>3, <4>1
    <3>4. CASE b \notin AppsIn(s) /\ a \in AppsIn(s)
      BY <2>4, <3>4
    <3>5. CASE b \notin AppsIn(s) /\ a \notin AppsIn(s)
      <4>1. Place(a) = n /\ Place(b) = n
        BY <2>2, <3>1, <3>2, <3>5
      <4>2. a \in AppsIn(t) /\ b \in AppsIn(t) /\ Before(a, b)
        BY <2>4, <2>7, <3>2, <3>5, <4>1 DEF Precedes
      <4> QED
        BY <2>3, <2>4, <3>5, <4>2
    <3> QED
      BY <3>3, <3>4, <3>5
  <2>8. AppsIn(c) = {a \in DOMAIN apps : Place(a) <= n}
    BY <2>5, <2>6
  <2> QED
    BY <2>4, <2>7, <2>8 DEF c
<1>10. Fine(0)
  <2>1. listed[0] = <<>>
    BY <1>2, <1>7
  <2>2. {a \in DOMAIN apps : Place(a) <= 0} = {}
    BY <1>8
  <2> QED
    BY <2>1, <2>2, WalkShort
<1>11. Fine(Len(o))
  <2> DEFINE Bad == {n \in 0 .. Len(o) : ~Fine(n)}
  <2> HIDE DEF Fine
  <2>1. SUFFICES ASSUME Bad # {} PROVE FALSE
    BY <1>2
  <2>2. Bad \subseteq Nat
    BY <1>2
  <2>3. PICK n \in Bad : \A k \in Bad : n <= k
    BY <2>1, <2>2, Least
  <2>4. n \in 1 .. Len(o)
    BY <1>2, <1>10, <2>3
  <2>5. n - 1 \in 0 .. Len(o) /\ n - 1 \notin Bad
    BY <1>2, <2>3, <2>4
  <2> QED
    BY <1>9, <2>3, <2>4, <2>5
<1> DEFINE s == listed[Len(o)]
           t == InMapOrder(Rest)
           c == HookOrder
<1>12. /\ s \in Seq(AppId) /\ AppsIn(s) = {a \in DOMAIN apps : Place(a) <= Len(o)}
       /\ \A a, b \in AppsIn(s) : Precedes(a, b) => Ahead(s, a, b)
  BY <1>11
<1>13. c = s \o t /\ t \in Seq(AppId) /\ AppsIn(t) = Rest
  BY <1>1, <1>4
<1>14. \A a, b \in Rest : Before(a, b) => Ahead(t, a, b)
  BY <1>4
<1>15. ASSUME NEW a \in DOMAIN apps
       PROVE  /\ a \in Rest <=> Place(a) = Len(o) + 1
              /\ a \in AppsIn(s) <=> Place(a) # Len(o) + 1
              /\ Place(a) \in Nat /\ Place(a) <= Len(o) + 1
  <2>1. a \in Rest <=> \A m \in 1 .. Len(o) : o[m] # a[1]
    OBVIOUS
  <2>2. a \in AppsIn(s) <=> Place(a) <= Len(o)
    BY <1>12
  <2>3. a \in AppId
    OBVIOUS
  <2> HIDE DEF Rest, s
  <2> QED
    BY <1>2, <1>8, <2>1, <2>2, <2>3
<1>16. Rest \subseteq DOMAIN apps /\ AppsIn(s) \subseteq DOMAIN apps
  BY <1>12
<1> HIDE DEF s, t, c, Rest, Fine
<1>17. /\ c \in Seq(AppId)
       /\ AppsIn(c) = AppsIn(s) \cup AppsIn(t)
       /\ \A a, b : Ahead(s, a, b) => Ahead(c, a, b)
       /\ \A a \in AppsIn(s) : \A b : b \notin AppsIn(s) => Ahead(c, a, b)
       /\ \A a, b : b \notin AppsIn(s) /\ Ahead(t, a, b) => Ahead(c, a, b)
  BY <1>12, <1>13, WalkConcat
<1>18. AppsIn(c) = DOMAIN apps
  BY <1>13, <1>15, <1>16, <1>17
<1>19. ASSUME NEW a \in DOMAIN apps, NEW b \in DOMAIN apps, Precedes(a, b)
       PROVE  Ahead(c, a, b)
  <2>1. CASE b \in AppsIn(s)
    <3>1. a \in AppsIn(s)
      BY <1>2, <1>15, <1>19, <2>1 DEF Precedes
    <3> QED
      BY <1>12, <1>17, <1>19, <2>1, <3>1
  <2>2. CASE b \notin AppsIn(s) /\ a \in AppsIn(s)
    BY <1>17, <2>2
  <2>3. CASE b \notin AppsIn(s) /\ a \notin AppsIn(s)
    <3>1. a \in Rest /\ b \in Rest /\ Before(a, b)
      BY <1>2, <1>15, <1>19, <2>3 DEF Precedes
    <3> QED
      BY <1>14, <1>17, <2>3, <3>1
  <2> QED
    BY <2>1, <2>2, <2>3
<1> QED
  BY <1>17, <1>18, <1>19 DEF c
--------------------------------------------------------------------------------
(***************************************************************************)
(* Types, and what the call under way implies.                             *)
(***************************************************************************)
StoreInv ==
    /\ disk \in FileType /\ work \in FileType /\ (~tx => work = disk)
    /\ tx \in BOOLEAN /\ thrown \in BOOLEAN /\ torn \in BOOLEAN
    /\ schema \in SUBSET AnyTable
    /\ append \in [schema : Seq(AnyTable), at : {"done", "memory", "realize", "serialize"}]
    /\ append.at = "done" => append = NotAppending
    /\ thrown => append = NotAppending
    /\ strings \in [Owner -> [ids : Nat, unserialized : SUBSET Nat]]

ConfigInv ==
    /\ config = [default |-> config.default, nested |-> config.nested,
                 enabled |-> config.enabled, ordering |-> config.ordering]
    /\ config.default \subseteq Kind \ Nested /\ config.ordering \in Seq(Kind)
    /\ DOMAIN config.enabled \subseteq Kind /\ DOMAIN config.nested \subseteq Nested
    /\ \A k \in DOMAIN config.nested :
           /\ DOMAIN config.nested[k] \subseteq Inst
           /\ \A i \in DOMAIN config.nested[k] : config.nested[k][i] \in Arg

AppsInv == DOMAIN apps \subseteq AppId /\ \A a \in DOMAIN apps : apps[a] \in Arg

PassInv ==
    /\ regs \in [kinds : Seq(Kind), locked : BOOLEAN]
    /\ pipelines \in {"none", "made", "open"}
    /\ phase \in {"none", "managed", "apps", "schemas", "inited", "piped", "open", "gone"}
    /\ pass \in [call : Hook \cup {"none", "open", "schemas", "strings"},
                 todo : Seq(AppId), busy : 0 .. MaxBusy]
    /\ ran \in [Hook -> Seq(AppId)] /\ sessions \in 0 .. MaxSessions
    /\ tx <=> pass.call \in {"schemas", "postInit", "postTeardown", "strings"}

Teardown == {"preTeardown", "postTeardown", "strings"}

\* Which call may be under way in which phase, which of them append schemas, and that
\* a walk walks over the apps there are.
CallInv ==
    /\ thrown => pass.call \in {"none", "open"}
    /\ pass.call \in {"none", "open"} => pass.todo = <<>>
    /\ pass.call = "strings" => pass.todo # <<>> /\ Head(pass.todo)[1] \in StringUser
    /\ append # NotAppending => pass.call \in {"none", "open", "schemas", "strings"}
    /\ append # NotAppending /\ pass.call = "none" => phase = "managed"
    /\ append # NotAppending /\ pass.call = "strings" => append.schema = StringTable
    /\ pass.call = "open" => phase \in {"none", "gone"}
    /\ pass.call = "schemas" => phase = "apps"
    /\ pass.call = "postInit" => phase = "schemas"
    /\ pass.call \in Teardown =>
           phase \in {"managed", "apps", "schemas", "inited", "piped", "open"}
    /\ phase \in {"none", "managed", "gone"} => DOMAIN apps = {}
    /\ AppsIn(pass.todo) \subseteq DOMAIN apps
    /\ ~thrown /\ phase = "none" /\ pass.call = "none" => schema = {}
    /\ sessions = 0 => phase = "none" /\ pass.call = "none"

BaseInv == StoreInv /\ ConfigInv /\ AppsInv /\ PassInv /\ CallInv

LEMMA BaseTypes == BaseInv => TypeOK
  BY DEF BaseInv, StoreInv, ConfigInv, AppsInv, PassInv, TypeOK, StoreTypeOK

\* ---- The operations of the store.
LEMMA TablesTyped ==
    /\ Table \subseteq AnyTable
    /\ Internal \in Seq(AnyTable) /\ StringTable \in Seq(AnyTable)
    /\ \A s : s \in Seq(Table) => s \in Seq(AnyTable)
    /\ <<>> \in Seq(AnyTable)
<1>1. Table \subseteq AnyTable
  BY DEF Table, AnyTable
<1>2. ASSUME NEW x, NEW y
      PROVE  x \in TablesOf(<<x, y>>) /\ y \in TablesOf(<<x, y>>) /\ x \in TablesOf(<<x>>)
  <2>1. /\ 1 \in DOMAIN <<x, y>> /\ 2 \in DOMAIN <<x, y>> /\ 1 \in DOMAIN <<x>>
        /\ <<x, y>>[1] = x /\ <<x, y>>[2] = y /\ <<x>>[1] = x
    OBVIOUS
  <2> QED
    BY <2>1 DEF TablesOf
<1>3. /\ Internal[1] \in TablesOf(Internal) /\ Internal[2] \in TablesOf(Internal)
      /\ StringTable[1] \in TablesOf(StringTable)
  <2>1. Internal = <<Internal[1], Internal[2]>> /\ StringTable = <<StringTable[1]>>
    BY DEF Internal, StringTable
  <2> QED
    BY <1>2, <2>1
<1> DEFINE own == TablesOf(Internal) \cup TablesOf(StringTable)
<1> HIDE DEF own
<1>4. ASSUME NEW t \in own, NEW n, NEW c, NEW b \in BOOLEAN,
             t = [name |-> n, columns |-> c, indexed |-> b]
      PROVE  t \in AnyTable
  <2>1. t.name \in {u.name : u \in own} /\ t.columns \in {u.columns : u \in own}
    OBVIOUS
  <2>2. t.name = n /\ t.columns = c
    BY <1>4
  <2> QED
    BY <1>4, <2>1, <2>2 DEF AnyTable, own
<1>5. Internal[1] \in own /\ Internal[2] \in own /\ StringTable[1] \in own
  BY <1>3 DEF own
<1>6. Internal[1] \in AnyTable
  BY <1>4, <1>5 DEF Internal
<1>7. Internal[2] \in AnyTable
  BY <1>4, <1>5 DEF Internal
<1>8. StringTable[1] \in AnyTable
  BY <1>4, <1>5 DEF StringTable
<1>9. Internal \in Seq(AnyTable) /\ StringTable \in Seq(AnyTable)
  BY <1>6, <1>7, <1>8 DEF Internal, StringTable
<1> QED
  BY <1>1, <1>9

LEMMA RealizedTyped ==
    ASSUME NEW v \in FileType, NEW s \in Seq(AnyTable)
    PROVE  Realized(v, s) \in FileType
<1> DEFINE indexed(t) == [t EXCEPT !.indexed =
                             @ \/ \E i \in DOMAIN s : s[i].name = t.name /\ s[i].indexed]
           created == {s[i] : i \in {j \in DOMAIN s : Named(v.tables, s[j].name) = {}}}
           tables == {indexed(t) : t \in v.tables} \cup created
<1>1. ASSUME NEW t \in v.tables PROVE indexed(t) \in AnyTable
  <2>1. t \in AnyTable
    BY DEF FileType
  <2>2. \A b \in BOOLEAN : [t EXCEPT !.indexed = b] \in AnyTable
    BY <2>1 DEF AnyTable
  <2>3. (t.indexed \/ \E i \in DOMAIN s : s[i].name = t.name /\ s[i].indexed) \in BOOLEAN
    OBVIOUS
  <2> QED
    BY <2>2, <2>3
<1>2. created \subseteq AnyTable
  OBVIOUS
<1> HIDE DEF indexed, created
<1>3. tables \subseteq AnyTable
  BY <1>1, <1>2
<1> HIDE DEF tables
<1>4. [v EXCEPT !.tables = tables] \in FileType
  BY <1>3 DEF FileType
<1> QED
  BY <1>4 DEF Realized, tables, indexed, created

LEMMA WriteKeeps ==
    ASSUME StoreInv, NEW v \in FileType, Write(v), tx' = tx
    PROVE  disk' \in FileType /\ work' \in FileType /\ (~tx' => work' = disk')
  BY DEF StoreInv, Write

LEMMA ViewTyped ==
    ASSUME StoreInv
    PROVE  View \in FileType /\ View = work
  BY DEF StoreInv, View

LEMMA ThrowKeeps ==
    ASSUME StoreInv, Throw, UNCHANGED <<schema, strings>>
    PROVE  StoreInv'
  BY TablesTyped DEF StoreInv, Throw, NotAppending

LEMMA AppendStarts ==
    ASSUME StoreInv, ~thrown, NEW s \in Seq(AnyTable), appendSchema(s),
           UNCHANGED <<disk, work, tx, schema, strings, thrown, torn>>
    PROVE  StoreInv' /\ append' # NotAppending
<1>1. append' \in [schema : Seq(AnyTable), at : {"done", "memory", "realize", "serialize"}]
  BY DEF appendSchema
<1>2. append'.at = "memory" /\ append' # NotAppending
  BY DEF appendSchema, NotAppending
<1> QED
  BY <1>1, <1>2 DEF StoreInv

\* A step of appendSchema goes on with the schema it was given, or throws, or ends.
LEMMA AppendStepKeeps ==
    ASSUME StoreInv, AppendStep
    PROVE  /\ StoreInv' /\ append # NotAppending /\ ~thrown
           /\ \/ thrown' /\ append' = NotAppending /\ ~tx'
              \/ /\ ~thrown' /\ tx' = tx
                 /\ append' = NotAppending \/ append'.schema = append.schema
           /\ strings' = strings
<1>1. append # NotAppending /\ ~thrown
  BY DEF AppendStep, Remember, realizeSchema, serializeSchema, StoreInv, NotAppending
<1>2. CASE Remember
  <2>1. CASE Clashes(schema, append.schema) = {}
    <3>1. Remembered(schema, append.schema) \in SUBSET AnyTable
      BY DEF StoreInv, Remembered
    <3>2. append' = [append EXCEPT !.at = "realize"]
      BY <1>2, <2>1 DEF Remember
    <3>3. append' \in [schema : Seq(AnyTable), at : {"done", "memory", "realize", "serialize"}]
      BY <3>2 DEF StoreInv
    <3>4. append'.schema = append.schema /\ append'.at = "realize"
      BY <3>2 DEF StoreInv
    <3> QED
      BY <1>1, <1>2, <2>1, <3>1, <3>3, <3>4 DEF Remember, StoreInv
  <2>2. CASE Clashes(schema, append.schema) # {}
    <3>1. Remembered(schema, append.schema) \in SUBSET AnyTable
      BY DEF StoreInv, Remembered
    <3>2. /\ schema' = Remembered(schema, append.schema)
          /\ work' = disk /\ tx' = FALSE /\ append' = NotAppending /\ thrown' = TRUE
          /\ UNCHANGED <<disk, torn, strings>>
      BY <1>2, <2>2 DEF Remember, Throw
    <3>3. NotAppending \in [schema : Seq(AnyTable),
                            at : {"done", "memory", "realize", "serialize"}]
      BY TablesTyped DEF NotAppending
    <3>4. StoreInv'
      BY <3>1, <3>2, <3>3 DEF StoreInv
    <3> QED
      BY <1>1, <3>2, <3>4
  <2> QED
    BY <2>1, <2>2
<1>3. CASE realizeSchema
  <2>1. CASE IndexExists(View, append.schema)
    BY <1>1, <1>3, <2>1, ThrowKeeps DEF realizeSchema, Throw
  <2>2. CASE ~IndexExists(View, append.schema)
    <3>1. /\ Write(Realized(View, append.schema))
          /\ append' = [append EXCEPT !.at = "serialize"]
          /\ UNCHANGED <<tx, schema, strings, thrown, torn>>
      BY <1>3, <2>2 DEF realizeSchema
    <3>2. Realized(View, append.schema) \in FileType
      BY ViewTyped, RealizedTyped DEF StoreInv
    <3>3. /\ append' \in [schema : Seq(AnyTable), at : {"done", "memory", "realize", "serialize"}]
          /\ append'.schema = append.schema /\ append'.at = "serialize"
      BY <3>1 DEF StoreInv
    <3>4. disk' \in FileType /\ work' \in FileType /\ (~tx' => work' = disk')
      BY <3>1, <3>2, WriteKeeps
    <3> QED
      BY <1>1, <3>1, <3>3, <3>4 DEF StoreInv
  <2> QED
    BY <2>1, <2>2
<1>4. CASE serializeSchema
  <2>1. [View EXCEPT !.catalogue = schema] \in FileType
    BY ViewTyped DEF StoreInv, FileType
  <2>2. disk' \in FileType /\ work' \in FileType /\ (~tx' => work' = disk')
    BY <1>4, <2>1, WriteKeeps DEF serializeSchema
  <2>3. NotAppending \in [schema : Seq(AnyTable), at : {"done", "memory", "realize", "serialize"}]
    BY TablesTyped DEF NotAppending
  <2> QED
    BY <1>1, <1>4, <2>2, <2>3 DEF serializeSchema, StoreInv
<1> QED
  BY <1>2, <1>3, <1>4 DEF AppendStep

LEMMA InsertKeeps ==
    ASSUME StoreInv, NEW o \in Owner, InsertStrings(o), ~thrown
    PROVE  /\ StoreInv' /\ append' = NotAppending /\ schema' = schema
           /\ \/ thrown' /\ ~tx'
              \/ ~thrown' /\ tx' = tx
<1>1. CASE Named(View.tables, StringTable[1].name) = {}
  BY <1>1, ThrowKeeps DEF InsertStrings, Throw
<1>2. CASE Named(View.tables, StringTable[1].name) # {}
  <2>1. strings[o].unserialized \subseteq Nat
    BY DEF StoreInv
  <2>2. [View EXCEPT !.strings = @ \cup ({o} \X strings[o].unserialized)] \in FileType
    BY <2>1, ViewTyped DEF FileType
  <2>3. disk' \in FileType /\ work' \in FileType /\ (~tx' => work' = disk')
    BY <1>2, <2>2, WriteKeeps DEF InsertStrings
  <2>4. strings' \in [Owner -> [ids : Nat, unserialized : SUBSET Nat]]
    <3>1. strings \in [Owner -> [ids : Nat, unserialized : SUBSET Nat]]
      BY DEF StoreInv
    <3>2. [strings[o] EXCEPT !.unserialized = {}] \in [ids : Nat, unserialized : SUBSET Nat]
      BY <3>1
    <3>3. strings' = [strings EXCEPT ![o] = [strings[o] EXCEPT !.unserialized = {}]]
      BY <1>2, <3>1 DEF InsertStrings
    <3> QED
      BY <3>1, <3>2, <3>3
  <2> QED
    BY <1>2, <2>3, <2>4 DEF InsertStrings, StoreInv
<1> QED
  BY <1>1, <1>2

\* ---- What the steps are built from.
LEMMA StoreStays ==
    ASSUME StoreInv, UNCHANGED store
    PROVE  StoreInv'
  BY DEF StoreInv, store

LEMMA Idle ==
    /\ NoPass = [call |-> "none", todo |-> <<>>, busy |-> 0]
    /\ NoPass \in [call : Hook \cup {"none", "open", "schemas", "strings"},
                   todo : Seq(AppId), busy : 0 .. MaxBusy]
    /\ NoPass.call = "none" /\ NoPass.todo = <<>> /\ NoPass.busy = 0
    /\ AppsIn(<<>>) = {}
    /\ DOMAIN NoApps = {}
    /\ NotRun \in [Hook -> Seq(AppId)]
    /\ MaxBusy \in Nat /\ MaxSessions \in Nat
  BY AppsAssumption, WalkShort DEF NoPass, NoApps, NotRun

\* A call walks over the apps there are.
LEMMA WalkIs ==
    ASSUME BaseInv, NEW c
    PROVE  WalkOf(c) \in Seq(AppId) /\ AppsIn(WalkOf(c)) = DOMAIN apps
<1>1. DOMAIN apps \subseteq AppId /\ config.ordering \in Seq(Kind)
  BY DEF BaseInv, AppsInv, ConfigInv
<1>2. InMapOrder(DOMAIN apps) \in Seq(AppId) /\ AppsIn(InMapOrder(DOMAIN apps)) = DOMAIN apps
  BY <1>1, MapOrder
<1>3. HookOrder \in Seq(AppId) /\ AppsIn(HookOrder) = DOMAIN apps
  BY <1>1, HookOrderIs
<1> QED
  BY <1>2, <1>3 DEF WalkOf

LEMMA StartTyped ==
    ASSUME BaseInv, NEW c \in Hook \cup {"schemas"}, Start(c)
    PROVE  /\ pass' \in [call : Hook \cup {"none", "open", "schemas", "strings"},
                         todo : Seq(AppId), busy : 0 .. MaxBusy]
           /\ pass'.call = c /\ AppsIn(pass'.todo) = DOMAIN apps
  BY WalkIs, Idle DEF Start

\* What a factory was parameterized with.
LEMMA FactoriesTyped ==
    ASSUME ConfigInv, NEW k \in Kind, NEW i \in DOMAIN Factories(k)
    PROVE  i \in Inst /\ Factories(k)[i] \in Arg
  BY AppsAssumption DEF ConfigInv, Factories, NoFactories, Inst

LEMMA FoundIs ==
    ASSUME NEW k, NEW i
    PROVE  Found(k, i) \subseteq DOMAIN Factories(k)
  BY DEF Found

\* ---- BaseInv holds initially, and step by step.
LEMMA BaseInit == Init => BaseInv
<1> SUFFICES ASSUME Init PROVE BaseInv
  OBVIOUS
<1>1. StoreInv
  <2>1. NotAppending \in [schema : Seq(AnyTable), at : {"done", "memory", "realize", "serialize"}]
    BY TablesTyped DEF NotAppending
  <2>2. [o \in Owner |-> NoStrings] \in [Owner -> [ids : Nat, unserialized : SUBSET Nat]]
    BY DEF NoStrings
  <2>3. Empty \in FileType
    BY DEF Empty, FileType
  <2> QED
    BY <2>1, <2>2, <2>3 DEF Init, StoreInit, StoreInv
<1>2. ConfigInv
  BY DEF Init, ConfigInv, Fresh, NoFactories
<1>3. AppsInv
  BY DEF Init, AppsInv, NoApps
<1>4. PassInv
  <2>1. /\ regs = [kinds |-> <<>>, locked |-> FALSE] /\ <<>> \in Seq(Kind)
        /\ pipelines = "none" /\ phase = "none" /\ pass = NoPass /\ ran = NotRun
        /\ sessions = 0 /\ tx = FALSE
    BY DEF Init, StoreInit
  <2>2. regs \in [kinds : Seq(Kind), locked : BOOLEAN]
    BY <2>1
  <2>3. sessions \in 0 .. MaxSessions
    BY <2>1, Idle
  <2> QED
    BY <2>1, <2>2, <2>3, Idle DEF PassInv
<1>5. CallInv
  BY Idle DEF Init, CallInv, StoreInit, Teardown
<1> QED
  BY <1>1, <1>2, <1>3, <1>4, <1>5 DEF BaseInv

\* A step that configures, or only moves on to the next phase.
LEMMA ConfiguringKeeps ==
    ASSUME BaseInv, Quiet, UNCHANGED <<store, apps, pipelines, pass, ran, sessions>>,
           regs' \in [kinds : Seq(Kind), locked : BOOLEAN], ConfigInv', UNCHANGED phase
    PROVE  BaseInv'
<1>1. StoreInv' /\ AppsInv' /\ PassInv' /\ CallInv'
  BY StoreStays DEF BaseInv, AppsInv, PassInv, CallInv, store
<1> QED
  BY <1>1 DEF BaseInv

LEMMA BaseRegisterApp ==
    ASSUME BaseInv, NEW k \in Kind, registerApp(k)
    PROVE  BaseInv'
<1>1. regs' \in [kinds : Seq(Kind), locked : BOOLEAN]
  <2>1. regs \in [kinds : Seq(Kind), locked : BOOLEAN]
    BY DEF BaseInv, PassInv
  <2>2. Append(regs.kinds, k) \in Seq(Kind)
    BY <2>1
  <2>3. regs' = [regs EXCEPT !.kinds = Append(regs.kinds, k)]
    BY DEF registerApp
  <2> QED
    BY <2>1, <2>2, <2>3
<1>2. ConfigInv'
  BY DEF registerApp, BaseInv, ConfigInv
<1> QED
  BY <1>1, <1>2, ConfiguringKeeps DEF registerApp

LEMMA BaseEnableApp ==
    ASSUME BaseInv, NEW k \in Kind, NEW n \in 1 .. MaxInst, enableApp(k, n)
    PROVE  BaseInv'
<1>1. regs' \in [kinds : Seq(Kind), locked : BOOLEAN]
  BY DEF enableApp, Configured, BaseInv, PassInv
<1>2. ConfigInv'
  <2>1. DOMAIN Put(config.enabled, k, n) = DOMAIN config.enabled \cup {k}
    BY DEF Put
  <2>2. config' = [config EXCEPT !.enabled = Put(config.enabled, k, n)]
    BY DEF enableApp, Configured
  <2> QED
    BY <2>1, <2>2 DEF BaseInv, ConfigInv
<1> QED
  BY <1>1, <1>2, ConfiguringKeeps DEF enableApp, Configured, Configuring

LEMMA BaseOrdering ==
    ASSUME BaseInv, NEW o \in Orderings, setAppOrderingForHooks(o)
    PROVE  BaseInv'
<1>1. regs' \in [kinds : Seq(Kind), locked : BOOLEAN]
  BY DEF setAppOrderingForHooks, Configured, BaseInv, PassInv
<1>2. ConfigInv'
  <2>1. o \in Seq(Kind)
    BY AppsAssumption
  <2> QED
    BY <2>1 DEF setAppOrderingForHooks, Configured, BaseInv, ConfigInv
<1> QED
  BY <1>1, <1>2, ConfiguringKeeps DEF setAppOrderingForHooks, Configured, Configuring

LEMMA BaseParameterize ==
    ASSUME BaseInv, NEW k \in Kind, NEW i \in Inst, NEW a \in Arg,
           parameterizeAppFactoryInstance(k, i, a)
    PROVE  BaseInv'
<1> DEFINE old == IF k \in DOMAIN config.nested THEN config.nested[k] ELSE NoFactories
           new == Put(config.nested, k, Put(old, i, a))
<1>1. regs' \in [kinds : Seq(Kind), locked : BOOLEAN]
  BY DEF parameterizeAppFactoryInstance, Configured, BaseInv, PassInv
<1>2. ConfigInv'
  <2>1. DOMAIN old \subseteq Inst /\ \A j \in DOMAIN old : old[j] \in Arg
    BY DEF NoFactories, BaseInv, ConfigInv
  <2> HIDE DEF old
  <2>2. /\ DOMAIN Put(old, i, a) \subseteq Inst
        /\ \A j \in DOMAIN Put(old, i, a) : Put(old, i, a)[j] \in Arg
    BY <2>1 DEF Put
  <2>3. /\ DOMAIN new = DOMAIN config.nested \cup {k} /\ new[k] = Put(old, i, a)
        /\ \A j \in DOMAIN config.nested : j # k => new[j] = config.nested[j]
    BY DEF Put
  <2> HIDE DEF new
  <2>4. /\ DOMAIN new \subseteq Nested
        /\ \A j \in DOMAIN new : /\ DOMAIN new[j] \subseteq Inst
                                 /\ \A m \in DOMAIN new[j] : new[j][m] \in Arg
    BY <2>2, <2>3 DEF parameterizeAppFactoryInstance, BaseInv, ConfigInv
  <2>5. config' = [config EXCEPT !.nested = new]
    BY DEF parameterizeAppFactoryInstance, Configured, new, old
  <2> QED
    BY <2>4, <2>5 DEF BaseInv, ConfigInv
<1> QED
  BY <1>1, <1>2, ConfiguringKeeps DEF parameterizeAppFactoryInstance, Configured, Configuring

LEMMA BaseUserSchema ==
    ASSUME BaseInv, NEW s \in UserSchema, AppendUserSchema(s)
    PROVE  BaseInv'
<1>1. s \in Seq(AnyTable)
  BY AppsAssumption, TablesTyped
<1>2. StoreInv'
  BY <1>1, AppendStarts DEF AppendUserSchema, BaseInv, Configuring, Quiet
<1>3. ConfigInv' /\ AppsInv' /\ PassInv'
  BY DEF AppendUserSchema, BaseInv, ConfigInv, AppsInv, PassInv, rest
<1>4. CallInv'
  BY DEF AppendUserSchema, BaseInv, CallInv, Configuring, Quiet, rest
<1> QED
  BY <1>2, <1>3, <1>4 DEF BaseInv

LEMMA BaseCreateManager ==
    ASSUME BaseInv, NEW newDb \in BOOLEAN, createAppManager(newDb)
    PROVE  BaseInv'
<1>1. /\ phase \in {"none", "gone"} /\ sessions < MaxSessions /\ sessions' = sessions + 1
      /\ pass' = [call |-> "open", todo |-> <<>>, busy |-> 0]
      /\ UNCHANGED <<strings, regs, config, apps, pipelines, phase, ran>>
  BY DEF createAppManager, NoPass
<1>2. StoreInv' /\ ~tx'
  <2>1. CASE newDb
    <3>1. OpenNew
      BY <2>1 DEF createAppManager
    <3>2. Empty \in FileType
      BY DEF Empty, FileType
    <3>3. append' \in [schema : Seq(AnyTable), at : {"done", "memory", "realize", "serialize"}]
          /\ append'.at = "memory"
      BY <3>1, TablesTyped DEF OpenNew
    <3> QED
      BY <1>1, <3>1, <3>2, <3>3 DEF OpenNew, BaseInv, StoreInv
  <2>2. CASE ~newDb
    <3>1. OpenExisting
      BY <2>2 DEF createAppManager
    <3>2. append' = NotAppending \/ append' = [schema |-> Internal, at |-> "memory"]
      BY <3>1 DEF OpenExisting
    <3>3. append' \in [schema : Seq(AnyTable), at : {"done", "memory", "realize", "serialize"}]
      <4>1. NotAppending \in [schema : Seq(AnyTable),
                              at : {"done", "memory", "realize", "serialize"}]
        BY TablesTyped DEF NotAppending
      <4>2. [schema |-> Internal, at |-> "memory"]
               \in [schema : Seq(AnyTable), at : {"done", "memory", "realize", "serialize"}]
        BY TablesTyped
      <4> QED
        BY <3>2, <4>1, <4>2
    <3>4. append'.at = "done" => append' = NotAppending
      BY <3>2
    <3>5. disk.catalogue \in SUBSET AnyTable
      BY DEF BaseInv, StoreInv, FileType
    <3>6. thrown' \in BOOLEAN /\ (thrown' => append' = NotAppending)
      BY <3>1 DEF OpenExisting
    <3> QED
      BY <1>1, <3>1, <3>3, <3>4, <3>5, <3>6 DEF OpenExisting, BaseInv, StoreInv
  <2> QED
    BY <2>1, <2>2
<1>3. ConfigInv' /\ AppsInv'
  BY <1>1 DEF BaseInv, ConfigInv, AppsInv
<1>4. PassInv'
  <2>1. sessions' \in 0 .. MaxSessions
    BY <1>1, Idle DEF BaseInv, PassInv
  <2>2. pass' \in [call : Hook \cup {"none", "open", "schemas", "strings"},
                   todo : Seq(AppId), busy : 0 .. MaxBusy]
    BY <1>1, Idle
  <2> QED
    BY <1>1, <1>2, <2>1, <2>2 DEF BaseInv, PassInv
<1>5. CallInv'
  <2>1. sessions' # 0
    BY <1>1 DEF BaseInv, PassInv
  <2> QED
    BY <1>1, <2>1, Idle DEF BaseInv, CallInv, Teardown
<1> QED
  BY <1>2, <1>3, <1>4, <1>5 DEF BaseInv

LEMMA BaseRegisterAll ==
    ASSUME BaseInv, RegisterAll
    PROVE  BaseInv'
<1>1. StoreInv'
  <2>1. [o \in Owner |-> NoStrings] \in [Owner -> [ids : Nat, unserialized : SUBSET Nat]]
    BY DEF NoStrings
  <2> QED
    BY <2>1 DEF RegisterAll, BaseInv, StoreInv
<1>2. ConfigInv'
  <2>1. /\ config'.default \subseteq Kind \ Nested /\ config'.nested = NoFactories
        /\ config'.enabled = NoFactories /\ config'.ordering = <<>>
        /\ config' = [default |-> config'.default, nested |-> NoFactories,
                      enabled |-> NoFactories, ordering |-> <<>>]
    BY DEF RegisterAll, Fresh
  <2> QED
    BY <2>1 DEF ConfigInv, NoFactories
<1>3. AppsInv'
  BY DEF RegisterAll, AppsInv, NoApps
<1>4. regs' \in [kinds : Seq(Kind), locked : BOOLEAN]
  BY DEF RegisterAll, BaseInv, PassInv
<1>5. PassInv'
  <2>1. ~tx
    BY DEF RegisterAll, BaseInv, PassInv, Hook
  <2> QED
    BY <1>4, <2>1, Idle DEF RegisterAll, BaseInv, PassInv
<1>6. CallInv'
  BY Idle DEF RegisterAll, BaseInv, CallInv, Teardown
<1> QED
  BY <1>1, <1>2, <1>3, <1>5, <1>6 DEF BaseInv

LEMMA BaseCreateApps ==
    ASSUME BaseInv, createEnabledApps
    PROVE  BaseInv'
<1> DEFINE wanted == {a \in AppId : /\ a[1] \in DOMAIN config.enabled
                                    /\ a[2] < config.enabled[a[1]]
                                    /\ Found(a[1], a[2]) # {}}
<1>1. StoreInv' /\ ConfigInv' /\ PassInv'
  BY StoreStays DEF createEnabledApps, BaseInv, ConfigInv, PassInv, store
<1>2. AppsInv'
  <2>1. ASSUME NEW a \in wanted
        PROVE  Factories(a[1])[CHOOSE i \in Found(a[1], a[2]) : TRUE] \in Arg
    <3>1. (CHOOSE i \in Found(a[1], a[2]) : TRUE) \in Found(a[1], a[2])
      OBVIOUS
    <3> QED
      BY <3>1, FoundIs, FactoriesTyped, AppIdParts DEF BaseInv
  <2>2. apps' = [a \in wanted |-> Factories(a[1])[CHOOSE i \in Found(a[1], a[2]) : TRUE]]
    BY DEF createEnabledApps
  <2>3. wanted \subseteq AppId
    OBVIOUS
  <2> HIDE DEF wanted
  <2> QED
    BY <2>1, <2>2, <2>3 DEF AppsInv
<1>3. CallInv'
  BY Idle DEF createEnabledApps, BaseInv, CallInv, Quiet, store, Teardown
<1> QED
  BY <1>1, <1>2, <1>3 DEF BaseInv

LEMMA BaseCreateSchemas ==
    ASSUME BaseInv, createSchemas
    PROVE  BaseInv'
<1>1. /\ pass' \in [call : Hook \cup {"none", "open", "schemas", "strings"},
                    todo : Seq(AppId), busy : 0 .. MaxBusy]
      /\ pass'.call = "schemas" /\ AppsIn(pass'.todo) = DOMAIN apps
  BY StartTyped DEF createSchemas
<1>2. StoreInv' /\ tx'
  BY DEF createSchemas, Begin, BaseInv, StoreInv
<1>3. ConfigInv' /\ AppsInv'
  BY DEF createSchemas, BaseInv, ConfigInv, AppsInv
<1>4. PassInv'
  BY <1>1, <1>2 DEF createSchemas, BaseInv, PassInv
<1>5. CallInv'
  BY <1>1 DEF createSchemas, BaseInv, CallInv, Quiet, Teardown
<1> QED
  BY <1>2, <1>3, <1>4, <1>5 DEF BaseInv

LEMMA BaseStartHooks ==
    ASSUME BaseInv, postInit \/ postSimLoopTeardown \/ EndPreTeardown
    PROVE  BaseInv' /\ append = NotAppending /\ ~thrown /\ pass.call \in {"none", "preTeardown"}
<1>1. /\ append = NotAppending /\ ~thrown /\ pass.call \in {"none", "preTeardown"}
      /\ phase \in {"managed", "apps", "schemas", "inited", "piped", "open"}
  BY DEF postInit, postSimLoopTeardown, EndPreTeardown, Quiet, BaseInv, CallInv, Teardown
<1>2. PICK h \in Hook : /\ Start(h) /\ ran' = [ran EXCEPT ![h] = <<>>]
                        /\ pipelines' \in {"none", "made", "open"}
                        /\ h = "postInit" => phase = "schemas"
                        /\ h = "preTeardown" => UNCHANGED <<disk, work, tx, torn>>
                        /\ h # "preTeardown" => Begin
                        /\ UNCHANGED <<schema, append, strings, thrown, regs, config, apps,
                                       phase, sessions>>
  <2>1. CASE postInit
    BY <2>1 DEF postInit, StartHooks, Hook, BaseInv, PassInv
  <2>2. CASE postSimLoopTeardown
    BY <2>2 DEF postSimLoopTeardown, StartHooks, Hook, BaseInv, PassInv
  <2>3. CASE EndPreTeardown
    BY <2>3 DEF EndPreTeardown, Hook, BaseInv, PassInv
  <2> QED
    BY <2>1, <2>2, <2>3
<1>3. /\ pass' \in [call : Hook \cup {"none", "open", "schemas", "strings"},
                    todo : Seq(AppId), busy : 0 .. MaxBusy]
      /\ pass'.call = h /\ AppsIn(pass'.todo) = DOMAIN apps
  BY <1>2, StartTyped
<1>4. ~tx
  BY <1>1 DEF BaseInv, PassInv
<1>5. StoreInv' /\ (tx' <=> h # "preTeardown")
  <2>1. CASE h = "preTeardown"
    <3>1. UNCHANGED store
      BY <1>2, <2>1 DEF store
    <3> QED
      BY <1>4, <2>1, <3>1, StoreStays DEF BaseInv, store
  <2>2. CASE h # "preTeardown"
    <3>1. tx' = TRUE /\ work' = disk /\ UNCHANGED <<disk, schema, append, strings, thrown, torn>>
      BY <1>2, <2>2 DEF Begin
    <3> QED
      BY <2>2, <3>1 DEF BaseInv, StoreInv
  <2> QED
    BY <2>1, <2>2
<1>6. ConfigInv' /\ AppsInv'
  BY <1>2 DEF BaseInv, ConfigInv, AppsInv
<1>7. ran' \in [Hook -> Seq(AppId)]
  BY <1>2, WalkShort DEF BaseInv, PassInv
<1>8. PassInv'
  BY <1>2, <1>3, <1>5, <1>7 DEF BaseInv, PassInv, Hook
<1>9. sessions # 0
  BY <1>1 DEF BaseInv, CallInv
<1>10. CallInv'
  BY <1>1, <1>2, <1>3, <1>9 DEF BaseInv, CallInv, Teardown, Hook
<1> QED
  BY <1>1, <1>5, <1>6, <1>8, <1>10 DEF BaseInv

\* The schema an app is asked for.
LEMMA AskedTyped ==
    ASSUME BaseInv, NEW k \in Kind, NEW i \in DOMAIN Factories(k)
    PROVE  SchemaOf[k][Factories(k)[i]] \in Seq(AnyTable)
<1>2. Factories(k)[i] \in Arg
  BY FactoriesTyped DEF BaseInv
<1>3. SchemaOf[k][Factories(k)[i]] \in Seq(Table)
  BY <1>2, AppsAssumption
<1> QED
  BY <1>3, TablesTyped

\* An exception on the way out of a call.
LEMMA ThrownKeeps ==
    ASSUME BaseInv, StoreInv', thrown', append' = NotAppending, ~tx', pass' = NoPass,
           pass.call # "none",
           UNCHANGED <<regs, config, apps, pipelines, phase, ran, sessions>>
    PROVE  BaseInv'
<1>1. ConfigInv' /\ AppsInv'
  BY DEF BaseInv, ConfigInv, AppsInv
<1>2. PassInv'
  BY Idle DEF BaseInv, PassInv
<1>3. sessions # 0
  BY DEF BaseInv, CallInv
<1>4. CallInv'
  BY <1>3, Idle DEF BaseInv, CallInv, Teardown
<1> QED
  BY <1>1, <1>2, <1>4 DEF BaseInv

LEMMA BaseAppSchema ==
    ASSUME BaseInv, AppendAppSchema
    PROVE  BaseInv'
<1> DEFINE k == Head(pass.todo)[1]
           found == Found(k, ParsedInst(Head(pass.todo)[2]))
           s == SchemaOf[k][Factories(k)[CHOOSE i \in found : TRUE]]
<1>1. /\ pass.call = "schemas" /\ pass.todo # <<>> /\ append = NotAppending
      /\ pass.todo \in Seq(AppId) /\ ~thrown /\ tx /\ sessions # 0 /\ phase = "apps"
  BY DEF AppendAppSchema, BaseInv, PassInv, CallInv
<1>2. /\ Head(pass.todo) \in AppId /\ Tail(pass.todo) \in Seq(AppId)
      /\ AppsIn(Tail(pass.todo)) \subseteq AppsIn(pass.todo)
  BY <1>1, WalkPop
<1>3. k \in Kind
  BY <1>2, AppIdParts
<1>4. CASE found = {}
  <2>1. Throw /\ pass' = NoPass /\ UNCHANGED <<schema, strings>>
    BY <1>4 DEF AppendAppSchema
  <2>2. StoreInv'
    BY <2>1, ThrowKeeps DEF BaseInv
  <2> QED
    BY <1>1, <2>1, <2>2, ThrownKeeps DEF Throw, AppendAppSchema
<1>5. CASE found # {}
  <2>1. s \in Seq(AnyTable)
    <3>1. (CHOOSE i \in found : TRUE) \in DOMAIN Factories(k)
      BY <1>5, FoundIs
    <3> QED
      BY <1>3, <3>1, AskedTyped
  <2>2. appendSchema(s) /\ pass' = Next1 /\ UNCHANGED <<disk, work, tx, schema, strings, thrown, torn>>
    BY <1>5 DEF AppendAppSchema
  <2> HIDE DEF s
  <2>3. StoreInv'
    BY <1>1, <2>1, <2>2, AppendStarts DEF BaseInv
  <2>4. ConfigInv' /\ AppsInv'
    BY DEF AppendAppSchema, BaseInv, ConfigInv, AppsInv
  <2>5. /\ pass' \in [call : Hook \cup {"none", "open", "schemas", "strings"},
                      todo : Seq(AppId), busy : 0 .. MaxBusy]
        /\ pass'.call = "schemas" /\ pass'.todo = Tail(pass.todo)
    BY <1>1, <1>2, <2>2 DEF Next1, BaseInv, PassInv
  <2>6. PassInv'
    BY <1>1, <2>2, <2>5 DEF AppendAppSchema, BaseInv, PassInv
  <2>7. CallInv'
    BY <1>1, <1>2, <2>2, <2>5 DEF AppendAppSchema, BaseInv, CallInv, Teardown
  <2> QED
    BY <2>3, <2>4, <2>6, <2>7 DEF BaseInv
<1> QED
  BY <1>4, <1>5

LEMMA BaseCallHook ==
    ASSUME BaseInv, CallHook
    PROVE  BaseInv'
<1> DEFINE a == Head(pass.todo)
           h == pass.call
<1>1. /\ h \in Hook /\ pass.todo # <<>> /\ pass.todo \in Seq(AppId)
      /\ append = NotAppending /\ ~thrown /\ sessions # 0
      /\ h # "postInit" => h \in Teardown
      /\ UNCHANGED <<tx, schema, append, strings, thrown, torn, regs, config, apps,
                     pipelines, phase, sessions>>
  BY DEF CallHook, BaseInv, PassInv, CallInv, Hook, Teardown
<1>2. /\ a \in AppId /\ Tail(pass.todo) \in Seq(AppId)
      /\ AppsIn(Tail(pass.todo)) \subseteq AppsIn(pass.todo)
  BY <1>1, WalkPop
<1>3. StoreInv'
  <2>1. CASE h = "preTeardown"
    <3>1. UNCHANGED store
      BY <1>1, <2>1 DEF CallHook, store
    <3> QED
      BY <3>1, StoreStays DEF BaseInv
  <2>2. CASE h # "preTeardown"
    <3>1. <<h, a, sessions>> \in Row
      BY <1>1, <1>2, AppsAssumption DEF BaseInv, PassInv
    <3>2. View \in FileType
      BY ViewTyped DEF BaseInv
    <3>3. [View EXCEPT !.rows = @ \cup {<<h, a, sessions>>}] \in FileType
      BY <3>1, <3>2 DEF FileType
    <3>4. Write([View EXCEPT !.rows = @ \cup {<<h, a, sessions>>}])
      BY <2>2 DEF CallHook
    <3>5. disk' \in FileType /\ work' \in FileType /\ (~tx' => work' = disk')
      BY <1>1, <3>3, <3>4, WriteKeeps DEF BaseInv
    <3> QED
      BY <1>1, <3>5 DEF BaseInv, StoreInv
  <2> QED
    BY <2>1, <2>2
<1>4. ConfigInv' /\ AppsInv'
  BY <1>1 DEF BaseInv, ConfigInv, AppsInv
<1>5. ran' \in [Hook -> Seq(AppId)]
  <2>1. Append(ran[h], a) \in Seq(AppId)
    BY <1>1, <1>2 DEF BaseInv, PassInv
  <2>2. ran' = [ran EXCEPT ![h] = Append(ran[h], a)]
    BY DEF CallHook
  <2> QED
    BY <2>1, <2>2 DEF BaseInv, PassInv
<1>6. CASE h = "postTeardown" /\ a[1] \in StringUser
  <2>1. pass' = [pass EXCEPT !.call = "strings"]
    BY <1>6 DEF CallHook
  <2>2. /\ pass' \in [call : Hook \cup {"none", "open", "schemas", "strings"},
                      todo : Seq(AppId), busy : 0 .. MaxBusy]
        /\ pass'.call = "strings" /\ pass'.todo = pass.todo
    BY <2>1 DEF BaseInv, PassInv
  <2>3. PassInv'
    BY <1>1, <1>5, <1>6, <2>2 DEF BaseInv, PassInv
  <2>4. CallInv'
    BY <1>1, <1>6, <2>2 DEF BaseInv, CallInv, Teardown
  <2> QED
    BY <1>3, <1>4, <2>3, <2>4 DEF BaseInv
<1>7. CASE ~(h = "postTeardown" /\ a[1] \in StringUser)
  <2>1. pass' = Next1
    BY <1>7 DEF CallHook
  <2>2. /\ pass' \in [call : Hook \cup {"none", "open", "schemas", "strings"},
                      todo : Seq(AppId), busy : 0 .. MaxBusy]
        /\ pass'.call = h /\ pass'.todo = Tail(pass.todo)
    BY <1>2, <2>1 DEF Next1, BaseInv, PassInv
  <2>3. PassInv'
    BY <1>1, <1>5, <2>2 DEF BaseInv, PassInv
  <2>4. CallInv'
    BY <1>1, <1>2, <2>2 DEF BaseInv, CallInv, Teardown, Hook
  <2> QED
    BY <1>3, <1>4, <2>3, <2>4 DEF BaseInv
<1> QED
  BY <1>6, <1>7

LEMMA BaseSaveStrings ==
    ASSUME BaseInv, SaveStrings
    PROVE  BaseInv'
<1>1. /\ pass.call = "strings" /\ pass.todo # <<>> /\ pass.todo \in Seq(AppId)
      /\ ~thrown /\ sessions # 0 /\ tx
      /\ phase \in {"managed", "apps", "schemas", "inited", "piped", "open"}
      /\ UNCHANGED <<regs, config, apps, pipelines, phase, ran, sessions>>
  BY DEF SaveStrings, BaseInv, PassInv, CallInv, Teardown
<1>2. /\ Head(pass.todo) \in Owner /\ Tail(pass.todo) \in Seq(AppId)
      /\ AppsIn(Tail(pass.todo)) \subseteq AppsIn(pass.todo)
  BY <1>1, WalkPop, AppsAssumption
<1>3. ConfigInv' /\ AppsInv'
  BY <1>1 DEF BaseInv, ConfigInv, AppsInv
<1>4. CASE AppendStringTable /\ UNCHANGED pass
  <2>1. appendSchema(StringTable) /\ UNCHANGED <<disk, work, tx, schema, strings, thrown, torn>>
    BY <1>4 DEF AppendStringTable
  <2>2. StoreInv'
    BY <1>1, <2>1, TablesTyped, AppendStarts DEF BaseInv
  <2>3. PassInv'
    BY <1>1, <1>4, <2>1 DEF BaseInv, PassInv
  <2>4. append'.schema = StringTable
    BY <2>1 DEF appendSchema
  <2>5. CallInv'
    BY <1>1, <1>4, <2>1, <2>4 DEF BaseInv, CallInv, Teardown
  <2> QED
    BY <1>3, <2>2, <2>3, <2>5 DEF BaseInv
<1>5. CASE /\ InsertStrings(Head(pass.todo))
           /\ pass' = IF thrown' THEN NoPass ELSE [Next1 EXCEPT !.call = "postTeardown"]
  <2>1. /\ StoreInv' /\ append' = NotAppending /\ schema' = schema
        /\ \/ thrown' /\ ~tx'
           \/ ~thrown' /\ tx' = tx
    <3>1. PICK o \in Owner : o = Head(pass.todo)
      BY <1>2
    <3> QED
      BY <1>1, <1>5, <3>1, InsertKeeps DEF BaseInv
  <2>2. CASE thrown'
    BY <1>1, <1>5, <2>1, <2>2, ThrownKeeps
  <2>3. CASE ~thrown'
    <3>1. /\ pass' \in [call : Hook \cup {"none", "open", "schemas", "strings"},
                        todo : Seq(AppId), busy : 0 .. MaxBusy]
          /\ pass'.call = "postTeardown" /\ pass'.todo = Tail(pass.todo)
      BY <1>2, <1>5, <2>3 DEF Next1, BaseInv, PassInv, Hook
    <3>2. PassInv'
      BY <1>1, <2>1, <2>3, <3>1 DEF BaseInv, PassInv
    <3>3. CallInv'
      BY <1>1, <1>2, <2>1, <2>3, <3>1 DEF BaseInv, CallInv, Teardown
    <3> QED
      BY <1>3, <2>1, <3>2, <3>3 DEF BaseInv
  <2> QED
    BY <2>2, <2>3
<1> QED
  BY <1>4, <1>5 DEF SaveStrings

LEMMA BaseHookThrows ==
    ASSUME BaseInv, HookThrows
    PROVE  BaseInv'
<1>1. StoreInv'
  BY ThrowKeeps DEF HookThrows, BaseInv
<1>2. pass.call # "none"
  BY DEF HookThrows, Hook
<1> QED
  BY <1>1, <1>2, ThrownKeeps DEF HookThrows, Throw

LEMMA BasePipelines ==
    ASSUME BaseInv, initializePipelines \/ openPipelines
    PROVE  BaseInv'
<1>1. StoreInv' /\ ConfigInv' /\ AppsInv' /\ PassInv'
  BY StoreStays DEF initializePipelines, openPipelines, BaseInv, ConfigInv, AppsInv, PassInv, store
<1>2. sessions # 0
  BY DEF initializePipelines, openPipelines, BaseInv, CallInv
<1>3. CallInv'
  BY <1>2 DEF initializePipelines, openPipelines, BaseInv, CallInv, Quiet, Teardown, store
<1> QED
  BY <1>1, <1>3 DEF BaseInv

LEMMA BaseCollect ==
    ASSUME BaseInv, NEW a \in AppId, CollectString(a)
    PROVE  BaseInv'
<1>1. UNCHANGED <<disk, work, tx, schema, append, thrown, torn>> /\ UNCHANGED rest
  BY DEF CollectString, getStringID
<1>2. strings' \in [Owner -> [ids : Nat, unserialized : SUBSET Nat]]
  <2> DEFINE s == [ids |-> strings[a].ids + 1,
                   unserialized |-> strings[a].unserialized \cup {strings[a].ids + 1}]
  <2>1. strings \in [Owner -> [ids : Nat, unserialized : SUBSET Nat]]
    BY DEF BaseInv, StoreInv
  <2>2. a \in Owner
    BY AppsAssumption
  <2>3. s \in [ids : Nat, unserialized : SUBSET Nat]
    BY <2>1, <2>2
  <2>4. strings' = [strings EXCEPT ![a] = s]
    BY DEF CollectString, getStringID
  <2> HIDE DEF s
  <2> QED
    BY <2>1, <2>3, <2>4
<1>3. StoreInv' /\ ConfigInv' /\ AppsInv' /\ PassInv' /\ CallInv'
  BY <1>1, <1>2 DEF BaseInv, StoreInv, ConfigInv, AppsInv, PassInv, CallInv, rest
<1> QED
  BY <1>3 DEF BaseInv

LEMMA BaseEndTransaction ==
    ASSUME BaseInv, EndTransaction
    PROVE  BaseInv'
<1>1. /\ pass.todo = <<>> /\ append = NotAppending /\ ~thrown /\ sessions # 0
      /\ tx /\ tx' = FALSE /\ disk' = work
      /\ UNCHANGED <<work, torn, schema, append, strings, thrown, regs, config, ran, sessions>>
  BY DEF EndTransaction, Commit, BaseInv, PassInv, CallInv
<1>2. \/ pass' = NoPass /\ phase' \in {"schemas", "inited"} /\ UNCHANGED <<apps, pipelines>>
      \/ /\ pass' = [NoPass EXCEPT !.busy = pass.busy] /\ phase' = "gone"
         /\ apps' = NoApps /\ pipelines' = "none"
  BY DEF EndTransaction, Finish
<1>3. /\ pass' \in [call : Hook \cup {"none", "open", "schemas", "strings"},
                    todo : Seq(AppId), busy : 0 .. MaxBusy]
      /\ pass'.call = "none" /\ pass'.todo = <<>>
  BY <1>2, Idle DEF BaseInv, PassInv
<1>4. StoreInv'
  BY <1>1 DEF BaseInv, StoreInv
<1>5. ConfigInv' /\ AppsInv'
  BY <1>1, <1>2 DEF BaseInv, ConfigInv, AppsInv, NoApps
<1>6. PassInv'
  BY <1>1, <1>2, <1>3 DEF BaseInv, PassInv
<1>7. CallInv'
  BY <1>1, <1>2, <1>3, Idle DEF BaseInv, CallInv, Teardown
<1> QED
  BY <1>4, <1>5, <1>6, <1>7 DEF BaseInv

\* What a new process, and a destroyed manager, start with.
LEMMA FreshTyped ==
    /\ Fresh = [default |-> {}, nested |-> NoFactories, enabled |-> NoFactories,
                ordering |-> <<>>]
    /\ DOMAIN NoFactories = {} /\ <<>> \in Seq(Kind)
    /\ [o \in Owner |-> NoStrings] \in [Owner -> [ids : Nat, unserialized : SUBSET Nat]]
    /\ NotAppending \in [schema : Seq(AnyTable), at : {"done", "memory", "realize", "serialize"}]
  BY TablesTyped DEF Fresh, NoFactories, NoStrings, NotAppending

LEMMA BaseDestroy ==
    ASSUME BaseInv, destroyAll
    PROVE  BaseInv' /\ ~tx /\ append = NotAppending
<1>1. append = NotAppending /\ ~tx /\ sessions \in 0 .. MaxSessions
  BY DEF destroyAll, Quiet, BaseInv, StoreInv, PassInv, CallInv, Hook
<1>2. /\ phase' = "none" /\ pass' = NoPass /\ config' = Fresh
      /\ apps' = NoApps /\ pipelines' = "none" /\ ran' = NotRun
      /\ thrown' = FALSE /\ schema' = {} /\ strings' = [o \in Owner |-> NoStrings]
      /\ UNCHANGED <<disk, work, tx, append, torn, regs, sessions>>
  BY DEF destroyAll
<1>3. StoreInv'
  BY <1>1, <1>2, FreshTyped DEF BaseInv, StoreInv
<1>4. ConfigInv'
  BY <1>2, FreshTyped DEF ConfigInv
<1>5. AppsInv'
  BY <1>2, Idle DEF AppsInv
<1>6. PassInv'
  BY <1>1, <1>2, Idle DEF BaseInv, PassInv
<1>7. CallInv'
  BY <1>1, <1>2, Idle DEF CallInv, Teardown
<1> QED
  BY <1>1, <1>3, <1>4, <1>5, <1>6, <1>7 DEF BaseInv

LEMMA BaseCrash ==
    ASSUME BaseInv, Crash
    PROVE  BaseInv'
<1>1. /\ phase' = "none" /\ pass' = NoPass /\ config' = Fresh
      /\ apps' = NoApps /\ pipelines' = "none" /\ ran' = NotRun
      /\ regs' = [kinds |-> <<>>, locked |-> FALSE]
      /\ schema' = {} /\ strings' = [o \in Owner |-> NoStrings]
      /\ work' = disk /\ tx' = FALSE /\ append' = NotAppending /\ torn' \in BOOLEAN
      /\ UNCHANGED <<disk, thrown, sessions>>
  BY DEF Crash, StoreCrash, BaseInv, StoreInv
<1>2. StoreInv'
  BY <1>1, FreshTyped DEF BaseInv, StoreInv
<1>3. ConfigInv'
  BY <1>1, FreshTyped DEF ConfigInv
<1>4. AppsInv'
  BY <1>1, Idle DEF AppsInv
<1>5. PassInv'
  <2>1. [kinds |-> <<>>, locked |-> FALSE] \in [kinds : Seq(Kind), locked : BOOLEAN]
    BY FreshTyped
  <2> QED
    BY <1>1, <2>1, Idle DEF BaseInv, PassInv
<1>6. CallInv'
  BY <1>1, Idle DEF CallInv, Teardown
<1> QED
  BY <1>2, <1>3, <1>4, <1>5, <1>6 DEF BaseInv

LEMMA BaseLocked ==
    ASSUME BaseInv, FileLocked
    PROVE  BaseInv'
<1> DEFINE c == IF pass.call = "strings" THEN "postTeardown" ELSE pass.call
<1>1. /\ tx /\ work' = disk /\ append' = NotAppending /\ ~thrown /\ sessions # 0
      /\ c \in {"schemas", "postInit", "postTeardown"}
      /\ UNCHANGED <<disk, tx, schema, strings, thrown, torn>>
      /\ UNCHANGED <<regs, config, apps, pipelines, phase, sessions>>
  BY DEF FileLocked, Retry, BaseInv, PassInv, CallInv
<1>2. /\ c = "schemas" => phase = "apps"
      /\ c = "postInit" => phase = "schemas"
      /\ c = "postTeardown" =>
            phase \in {"managed", "apps", "schemas", "inited", "piped", "open"}
  BY DEF BaseInv, CallInv, Teardown
<1> HIDE DEF c
<1>3. WalkOf(c) \in Seq(AppId) /\ AppsIn(WalkOf(c)) = DOMAIN apps
  BY WalkIs
<1>4. pass.busy + 1 \in 0 .. MaxBusy
  BY Idle DEF FileLocked, BaseInv, PassInv
<1>5. /\ pass' \in [call : Hook \cup {"none", "open", "schemas", "strings"},
                    todo : Seq(AppId), busy : 0 .. MaxBusy]
      /\ pass'.call = c /\ AppsIn(pass'.todo) = DOMAIN apps
  BY <1>1, <1>3, <1>4 DEF FileLocked, c, Hook
<1>6. ran' \in [Hook -> Seq(AppId)]
  BY WalkShort DEF FileLocked, BaseInv, PassInv
<1>7. StoreInv'
  BY <1>1, FreshTyped DEF BaseInv, StoreInv
<1>8. ConfigInv' /\ AppsInv'
  BY <1>1 DEF BaseInv, ConfigInv, AppsInv
<1>9. PassInv'
  BY <1>1, <1>5, <1>6 DEF BaseInv, PassInv
<1>10. CallInv'
  BY <1>1, <1>2, <1>5 DEF BaseInv, CallInv, Teardown
<1> QED
  BY <1>7, <1>8, <1>9, <1>10 DEF BaseInv

LEMMA BaseStepAppend ==
    ASSUME BaseInv, StepAppend
    PROVE  BaseInv'
<1>1. /\ StoreInv' /\ append # NotAppending /\ ~thrown
      /\ \/ thrown' /\ append' = NotAppending /\ ~tx'
         \/ /\ ~thrown' /\ tx' = tx
            /\ append' = NotAppending \/ append'.schema = append.schema
      /\ strings' = strings
  BY AppendStepKeeps DEF StepAppend, BaseInv
<1>2. /\ pass' = IF thrown' THEN NoPass ELSE pass
      /\ UNCHANGED <<regs, config, apps, pipelines, phase, ran, sessions>>
  BY DEF StepAppend
<1>3. ConfigInv' /\ AppsInv'
  BY <1>2 DEF BaseInv, ConfigInv, AppsInv
<1>4. PassInv'
  BY <1>1, <1>2, Idle DEF BaseInv, PassInv
<1>5. sessions # 0
  BY <1>1 DEF BaseInv, CallInv
<1>6. CASE thrown'
  <2>1. CallInv'
    BY <1>1, <1>2, <1>5, <1>6, Idle DEF BaseInv, CallInv, Teardown
  <2> QED
    BY <1>1, <1>3, <1>4, <2>1 DEF BaseInv
<1>7. CASE ~thrown'
  <2>1. pass.call = "none" => phase = "managed"
    BY <1>1 DEF BaseInv, CallInv
  <2>2. CallInv'
    BY <1>1, <1>2, <1>5, <1>7, <2>1 DEF BaseInv, CallInv, Teardown
  <2> QED
    BY <1>1, <1>3, <1>4, <2>2 DEF BaseInv
<1> QED
  BY <1>6, <1>7

LEMMA BaseStays ==
    ASSUME BaseInv, UNCHANGED vars
    PROVE  BaseInv'
<1>1. UNCHANGED <<store, rest>>
  BY DEF vars
<1>2. StoreInv' /\ ConfigInv' /\ AppsInv' /\ PassInv' /\ CallInv'
  BY <1>1, StoreStays DEF BaseInv, ConfigInv, AppsInv, PassInv, CallInv, store, rest
<1> QED
  BY <1>2 DEF BaseInv

LEMMA BaseStep ==
    ASSUME BaseInv, [Next]_vars
    PROVE  BaseInv'
<1>1. CASE Configure
  <2>1. ASSUME NEW k \in Kind, NEW a \in Arg \ {Default}, parameterizeAppFactory(k, a)
        PROVE  BaseInv'
    <3>1. 0 \in Inst
      BY AppsAssumption DEF Inst
    <3> QED
      BY <2>1, <3>1, BaseParameterize DEF parameterizeAppFactory
  <2> QED
    BY <1>1, <2>1, BaseRegisterApp, BaseCreateManager, BaseRegisterAll, BaseEnableApp,
       BaseParameterize, BaseOrdering, BaseUserSchema DEF Configure
<1>2. CASE Lifecycle
  BY <1>2, BaseCreateApps, BaseCreateSchemas, BaseAppSchema, BaseStartHooks, BaseCallHook,
     BaseHookThrows, BaseSaveStrings, BasePipelines, BaseCollect, BaseEndTransaction,
     BaseDestroy DEF Lifecycle
<1>3. CASE StepAppend \/ FileLocked \/ Crash
  BY <1>3, BaseStepAppend, BaseLocked, BaseCrash
<1> QED
  BY <1>1, <1>2, <1>3, BaseStays DEF Next

LEMMA BaseAlways == Spec => []BaseInv
<1>1. BaseInv /\ [Next]_vars => BaseInv'
  BY BaseStep
<1> QED
  BY BaseInit, <1>1, PTL DEF Spec

(* Every state of the managers and of the store has the types the code gives it, a       *)
(* call that runs hooks or appends schemas in a transaction holds one, and no other does *)
(* (AppManager.hpp:478-618, DatabaseManager.hpp:105-161).                                *)
THEOREM TypeCorrect == Spec => []TypeOK
<1>1. BaseInv => TypeOK
  BY BaseTypes
<1> QED
  BY BaseAlways, <1>1, PTL
--------------------------------------------------------------------------------
(***************************************************************************)
(* Hooks: what a walk has been called on and what is left of it is always  *)
(* the whole order.                                                        *)
(***************************************************************************)
RanInv ==
    /\ pass.call \in Hook => ran[pass.call] \o pass.todo = HookOrder
    /\ pass.call = "strings" => ran["postTeardown"] \o Tail(pass.todo) = HookOrder
    /\ pass.call \in {"postTeardown", "strings"} => ran["preTeardown"] = HookOrder
    /\ phase \in {"inited", "piped", "open"} => ran["postInit"] = HookOrder

\* The next app goes from what is left to what was called.
LEMMA WalkOn ==
    ASSUME NEW s \in Seq(AppId), NEW t \in Seq(AppId), t # <<>>
    PROVE  /\ Append(s, Head(t)) \o Tail(t) = s \o t
           /\ Append(s, Head(t)) \in Seq(AppId)
           /\ AppsIn(Append(s, Head(t))) = AppsIn(s) \cup {Head(t)}
<1> DEFINE h == <<Head(t)>>
<1>1. /\ Head(t) \in AppId /\ Tail(t) \in Seq(AppId) /\ t = h \o Tail(t)
      /\ h \in Seq(AppId) /\ AppsIn(h) = {Head(t)}
  BY WalkPop, WalkShort
<1>2. Append(s, Head(t)) = s \o h /\ s \o h \in Seq(AppId)
  BY <1>1
<1>3. (s \o h) \o Tail(t) = s \o (h \o Tail(t))
  BY <1>1
<1>4. AppsIn(s \o h) = AppsIn(s) \cup AppsIn(h)
  BY <1>1, WalkConcat
<1> QED
  BY <1>1, <1>2, <1>3, <1>4

LEMMA NoneLeft ==
    ASSUME NEW s \in Seq(AppId)
    PROVE  s \o <<>> = s /\ <<>> \o s = s
  OBVIOUS

\* The order depends on the apps and on the configuration.
LEMMA OrderStays ==
    ASSUME UNCHANGED <<apps, config>>
    PROVE  HookOrder' = HookOrder
  BY DEF HookOrder

LEMMA OrderTyped ==
    ASSUME BaseInv
    PROVE  HookOrder \in Seq(AppId) /\ AppsIn(HookOrder) = DOMAIN apps
  BY HookOrderIs DEF BaseInv, AppsInv, ConfigInv

LEMMA RanInit == Init => RanInv
  BY Idle DEF Init, RanInv, Hook

\* A step that starts a hook call.
LEMMA RanStart ==
    ASSUME BaseInv, RanInv, NEW h \in Hook,
           pass'.call = h, pass'.todo = HookOrder, ran' = [ran EXCEPT ![h] = <<>>],
           h = "postInit" => phase = "schemas",
           h = "postTeardown" => ran["preTeardown"] = HookOrder,
           h = "preTeardown" => pass.call = "none",
           UNCHANGED <<apps, config, phase>>
    PROVE  RanInv'
<1>1. HookOrder' = HookOrder
  BY OrderStays
<1>2. ran'[h] \o pass'.todo = HookOrder
  BY OrderTyped, NoneLeft DEF BaseInv, PassInv
<1>3. h = "preTeardown" => ran'["postInit"] = ran["postInit"]
  BY DEF BaseInv, PassInv, Hook
<1>4. h = "postTeardown" => /\ ran'["preTeardown"] = ran["preTeardown"]
                            /\ ran'["postInit"] = ran["postInit"]
  BY DEF BaseInv, PassInv, Hook
<1> QED
  BY <1>1, <1>2, <1>3, <1>4 DEF RanInv, Hook

LEMMA RanStep ==
    ASSUME BaseInv, RanInv, [Next]_vars
    PROVE  RanInv'
<1>1. ASSUME pass'.call \in {"none", "open", "schemas"},
             phase' \notin {"inited", "piped", "open"}
      PROVE  RanInv'
  BY <1>1 DEF RanInv, Hook
<1>2. ASSUME pass'.call \in {"none", "open", "schemas"}, UNCHANGED <<ran, apps, config>>,
             phase' \in {"inited", "piped", "open"} => phase \in {"inited", "piped", "open"}
      PROVE  RanInv'
  BY <1>2, OrderStays DEF RanInv, Hook
<1>3. ASSUME UNCHANGED <<pass, ran, apps, config, phase>>
      PROVE  RanInv'
  BY <1>3, OrderStays DEF RanInv, Hook
<1>4. pass.todo \in Seq(AppId) /\ ran \in [Hook -> Seq(AppId)] /\ NoPass.call = "none"
  BY Idle DEF BaseInv, PassInv
<1>5. CASE Configure
  BY <1>1, <1>3, <1>5 DEF Configure, registerApp, createAppManager, RegisterAll, enableApp,
     parameterizeAppFactory, parameterizeAppFactoryInstance, setAppOrderingForHooks,
     AppendUserSchema, Configured, Configuring, Quiet, NoPass, rest
<1>6. CASE createEnabledApps \/ createSchemas
  BY <1>1, <1>6 DEF createEnabledApps, createSchemas, Start, Quiet
<1>7. CASE AppendAppSchema
  <2>1. pass'.call \in {"none", "schemas"} /\ UNCHANGED <<ran, apps, config, phase>>
    BY <1>4, <1>7 DEF AppendAppSchema, Next1, BaseInv, PassInv
  <2> QED
    BY <1>2, <2>1
<1>8. CASE postInit \/ postSimLoopTeardown
  BY <1>8, RanStart DEF postInit, postSimLoopTeardown, StartHooks, Start, WalkOf, Hook, Quiet
<1>9. CASE EndPreTeardown
  <2>1. ran["preTeardown"] = HookOrder
    BY <1>4, <1>9, NoneLeft DEF EndPreTeardown, RanInv, Hook
  <2> QED
    BY <1>9, <2>1, RanStart DEF EndPreTeardown, Start, WalkOf, Hook
<1>10. CASE FileLocked
  <2> DEFINE c == IF pass.call = "strings" THEN "postTeardown" ELSE pass.call
  <2>1. /\ c \in {"schemas", "postInit", "postTeardown"}
        /\ c = "postTeardown" => pass.call \in {"postTeardown", "strings"}
        /\ c = "postInit" => phase = "schemas"
    BY <1>10 DEF FileLocked, Retry, BaseInv, PassInv, CallInv
  <2>2. c = "postTeardown" => ran["preTeardown"] = HookOrder
    BY <2>1 DEF RanInv
  <2>3. /\ pass' = [call |-> c, todo |-> WalkOf(c), busy |-> pass.busy + 1]
        /\ ran' = IF c \in Hook THEN [ran EXCEPT ![c] = <<>>] ELSE ran
        /\ UNCHANGED <<apps, config, phase>>
    BY <1>10 DEF FileLocked
  <2> HIDE DEF c
  <2>4. CASE c = "schemas"
    BY <1>2, <2>3, <2>4 DEF Hook
  <2>5. CASE c # "schemas"
    <3>1. c \in Hook /\ WalkOf(c) = HookOrder /\ c # "preTeardown"
      BY <2>1, <2>5 DEF WalkOf, Hook
    <3> QED
      BY <2>1, <2>2, <2>3, <3>1, RanStart
  <2> QED
    BY <2>4, <2>5
<1>11. CASE CallHook
  <2> DEFINE h == pass.call
             a == Head(pass.todo)
  <2>1. /\ h \in Hook /\ pass.todo # <<>> /\ UNCHANGED <<apps, config, phase>>
        /\ ran' = [ran EXCEPT ![h] = Append(ran[h], a)]
        /\ \/ h = "postTeardown" /\ pass' = [pass EXCEPT !.call = "strings"]
           \/ pass' = Next1
    BY <1>11 DEF CallHook
  <2>2. ran[h] \in Seq(AppId) /\ ran[h] \o pass.todo = HookOrder
    BY <1>4, <2>1 DEF RanInv
  <2>3. Append(ran[h], a) \o Tail(pass.todo) = HookOrder
    BY <1>4, <2>1, <2>2, WalkOn
  <2>4. HookOrder' = HookOrder
    BY <2>1, OrderStays
  <2>5. ran'[h] \o Tail(pass.todo) = HookOrder'
    BY <1>4, <2>1, <2>3, <2>4
  <2>6. /\ h # "preTeardown" => ran'["preTeardown"] = ran["preTeardown"]
        /\ h # "postInit" => ran'["postInit"] = ran["postInit"]
    BY <1>4, <2>1 DEF Hook
  <2>7. /\ h = "postTeardown" => ran["preTeardown"] = HookOrder
        /\ phase \in {"inited", "piped", "open"} => ran["postInit"] = HookOrder
        /\ h = "postInit" => phase = "schemas"
    BY DEF RanInv, BaseInv, CallInv
  <2>8. \/ h = "postTeardown" /\ pass'.call = "strings" /\ pass'.todo = pass.todo
        \/ pass'.call = h /\ pass'.todo = Tail(pass.todo)
    BY <2>1 DEF Next1, BaseInv, PassInv
  <2> HIDE DEF h, a
  <2> QED
    BY <2>1, <2>4, <2>5, <2>6, <2>7, <2>8 DEF RanInv, Hook
<1>12. CASE HookThrows
  BY <1>2, <1>4, <1>12 DEF HookThrows
<1>13. CASE SaveStrings
  <2>1. pass.call = "strings" /\ UNCHANGED <<ran, apps, config, phase>>
    BY <1>13 DEF SaveStrings
  <2>2. CASE UNCHANGED pass
    BY <1>3, <2>1, <2>2
  <2>3. CASE pass' = NoPass
    BY <1>2, <1>4, <2>1, <2>3
  <2>4. CASE pass' = [Next1 EXCEPT !.call = "postTeardown"]
    <3>1. pass'.call = "postTeardown" /\ pass'.todo = Tail(pass.todo)
      BY <2>4 DEF Next1, BaseInv, PassInv
    <3>2. HookOrder' = HookOrder
      BY <2>1, OrderStays
    <3> QED
      BY <2>1, <3>1, <3>2 DEF RanInv, Hook
  <2> QED
    BY <1>13, <2>2, <2>3, <2>4 DEF SaveStrings
<1>14. CASE initializePipelines \/ openPipelines
  BY <1>3, <1>2, <1>14 DEF initializePipelines, openPipelines, Quiet
<1>15. CASE \E a \in AppId : CollectString(a)
  BY <1>3, <1>15 DEF CollectString, rest
<1>16. CASE EndTransaction
  <2>1. CASE pass.call = "postInit"
    <3>1. /\ pass' = NoPass /\ phase' = "inited" /\ pass.todo = <<>>
          /\ UNCHANGED <<ran, apps, config>>
      BY <1>16, <2>1 DEF EndTransaction, Finish
    <3>2. ran["postInit"] = HookOrder
      BY <1>4, <2>1, <3>1, NoneLeft DEF RanInv, Hook
    <3>3. HookOrder' = HookOrder
      BY <3>1, OrderStays
    <3> QED
      BY <1>4, <3>1, <3>2, <3>3 DEF RanInv, Hook
  <2>2. CASE pass.call # "postInit"
    BY <1>1, <1>4, <1>16, <2>2 DEF EndTransaction, Finish, NoPass
  <2> QED
    BY <2>1, <2>2
<1>17. CASE destroyAll \/ Crash
  BY <1>1, <1>4, <1>17 DEF destroyAll, Crash
<1>18. CASE StepAppend
  BY <1>2, <1>3, <1>4, <1>18 DEF StepAppend
<1>19. CASE UNCHANGED vars
  BY <1>3, <1>19 DEF vars, rest
<1> QED
  BY <1>5, <1>6, <1>7, <1>8, <1>9, <1>10, <1>11, <1>12, <1>13, <1>14, <1>15, <1>16, <1>17,
     <1>18, <1>19 DEF Next, Lifecycle

LEMMA RanAlways == Spec => []RanInv
<1>1. BaseInv /\ RanInv /\ [Next]_vars => RanInv'
  BY RanStep
<1> QED
  BY RanInit, <1>1, BaseAlways, PTL DEF Spec

LEMMA RanOrders ==
    ASSUME BaseInv, RanInv
    PROVE  HooksInOrder
<1>1. SUFFICES ASSUME NEW h \in Hook, Done(h)
               PROVE  /\ {ran[h][i] : i \in DOMAIN ran[h]} = DOMAIN apps
                      /\ \A a, b \in DOMAIN apps :
                             Precedes(a, b) => FirstCall(h, a) < FirstCall(h, b)
  BY DEF HooksInOrder, Precedes
<1>2. ran[h] = HookOrder
  <2>1. pass.todo \in Seq(AppId) /\ ran \in [Hook -> Seq(AppId)]
    BY DEF BaseInv, PassInv
  <2> QED
    BY <1>1, <2>1, NoneLeft DEF Done, Hook, RanInv
<1> DEFINE s == HookOrder
<1>3. /\ s \in Seq(AppId) /\ AppsIn(s) = DOMAIN apps
      /\ \A a, b \in DOMAIN apps : Precedes(a, b) => Ahead(s, a, b)
  BY HookOrderIs DEF BaseInv, AppsInv, ConfigInv
<1> HIDE DEF s
<1>4. PICK r : r = s
  OBVIOUS
<1>5. ASSUME NEW a \in DOMAIN apps, NEW b \in DOMAIN apps, Precedes(a, b)
      PROVE  FirstCall(h, a) < FirstCall(h, b)
  <2>1. r \in Seq(AppId) /\ a \in AppsIn(r) /\ b \in AppsIn(r) /\ Ahead(r, a, b)
    BY <1>3, <1>4, <1>5
  <2>2. (CHOOSE i \in DOMAIN r : r[i] = a /\ \A j \in 1 .. i - 1 : r[j] # a)
          < (CHOOSE i \in DOMAIN r : r[i] = b /\ \A j \in 1 .. i - 1 : r[j] # b)
    BY <2>1, AheadCalledFirst
  <2> QED
    BY <1>2, <1>4, <2>2 DEF FirstCall, s
<1> QED
  BY <1>2, <1>3, <1>5 DEF AppsIn, s

(* Once a hook has been called on all apps, it was called on every app there is, and the *)
(* first calls came in the order that setAppOrderingForHooks() asked for: apps of listed *)
(* types in the order of the list, the others behind them in the order of the map        *)
(* (AppManager.hpp:324-353), whatever the list says and however often it was retried.    *)
THEOREM HooksFollowOrdering == Spec => []HooksInOrder
<1>1. BaseInv /\ RanInv => HooksInOrder
  BY RanOrders
<1> QED
  BY BaseAlways, RanAlways, <1>1, PTL
--------------------------------------------------------------------------------
(***************************************************************************)
(* Rows: those of a session are all there or not at all.                   *)
(***************************************************************************)
HookOf(c) == IF c = "strings" THEN "postTeardown" ELSE c

RowsOf(h, S, n) == {<<h, a, n>> : a \in S}

RowInv ==
    /\ \A r \in disk.rows : r[3] <= sessions
    /\ \A r \in disk.rows : r[3] = sessions =>
           /\ pass.call # "open"
           /\ \/ r[1] = "postInit" /\ phase \in {"inited", "piped", "open", "gone", "none"}
              \/ r[1] = "postTeardown" /\ phase \in {"gone", "none"}
    /\ pass.call = "schemas" => work.rows = disk.rows
    /\ pass.call \in {"postInit", "postTeardown", "strings"} =>
           work.rows = disk.rows \cup
                           RowsOf(HookOf(pass.call), AppsIn(ran[HookOf(pass.call)]), sessions)

\* What the steps of appendSchema() do to the file leaves its rows alone.
LEMMA AppendRows ==
    ASSUME StoreInv, AppendStep
    PROVE  /\ disk'.rows = disk.rows
           /\ ~thrown' => work'.rows = work.rows
<1>1. View \in FileType /\ View = work
  BY ViewTyped
<1>2. ~thrown
  BY AppendStepKeeps
<1>3. \A v, x : v \in FileType => /\ [v EXCEPT !.tables = x].rows = v.rows
                                  /\ [v EXCEPT !.catalogue = x].rows = v.rows
  BY DEF FileType
<1>4. \A s : Realized(work, s).rows = work.rows
  BY <1>1, <1>3 DEF Realized
<1>5. ASSUME NEW v, Write(v), v.rows = work.rows
      PROVE  disk'.rows = disk.rows /\ work'.rows = work.rows
  BY <1>5 DEF Write, StoreInv
<1>6. CASE Remember
  BY <1>6 DEF Remember, Throw
<1>7. CASE realizeSchema
  BY <1>1, <1>4, <1>5, <1>7 DEF realizeSchema, Throw
<1>8. CASE serializeSchema
  <2>1. Write([work EXCEPT !.catalogue = schema])
    BY <1>1, <1>8 DEF serializeSchema
  <2> QED
    BY <1>1, <1>3, <1>5, <2>1
<1> QED
  BY <1>6, <1>7, <1>8 DEF AppendStep

LEMMA RowInit == Init => RowInv
  BY Idle DEF Init, StoreInit, RowInv, Empty

\* A step that leaves the rows of the file alone, and no transaction of rows behind.
LEMMA RowsStay ==
    ASSUME RowInv, disk'.rows = disk.rows, sessions' = sessions,
           pass'.call = "open" => pass.call = "open",
           phase = "inited" => phase' \in {"inited", "piped", "gone", "none"},
           phase = "piped" => phase' \in {"piped", "open", "gone", "none"},
           phase = "open" => phase' \in {"open", "gone", "none"},
           phase \in {"none", "gone"} =>
               phase' \in {"none", "gone"} \/ pass.call = "open",
           pass'.call = "schemas" => work'.rows = disk'.rows,
           pass'.call \in {"postInit", "postTeardown", "strings"} =>
               work'.rows = disk'.rows \cup
                                RowsOf(HookOf(pass'.call), AppsIn(ran'[HookOf(pass'.call)]), sessions')
    PROVE  RowInv'
  BY DEF RowInv

LEMMA RowStep ==
    ASSUME BaseInv, RanInv, RowInv, [Next]_vars
    PROVE  RowInv'
<1>1. /\ pass.todo \in Seq(AppId) /\ ran \in [Hook -> Seq(AppId)] /\ NoPass.call = "none"
      /\ disk \in FileType /\ work \in FileType /\ (~tx => work = disk)
      /\ sessions \in Nat
      /\ tx <=> pass.call \in {"schemas", "postInit", "postTeardown", "strings"}
  BY Idle DEF BaseInv, PassInv, StoreInv
<1> DEFINE Moves ==
        /\ phase = "inited" => phase' \in {"inited", "piped", "gone", "none"}
        /\ phase = "piped" => phase' \in {"piped", "open", "gone", "none"}
        /\ phase = "open" => phase' \in {"open", "gone", "none"}
        /\ phase \in {"none", "gone"} => phase' \in {"none", "gone"} \/ pass.call = "open"
<1>2. ASSUME disk'.rows = disk.rows, sessions' = sessions, Moves,
             pass'.call = "open" => pass.call = "open",
             pass'.call \in {"none", "open", "preTeardown"}
      PROVE  RowInv'
  BY <1>2, RowsStay
<1>3. ASSUME disk'.rows = disk.rows, work'.rows = work.rows, UNCHANGED <<sessions, phase, pass, ran>>
      PROVE  RowInv'
  BY <1>3, RowsStay DEF RowInv
<1>4. CASE \E newDb \in BOOLEAN : createAppManager(newDb)
  <2>1. disk'.rows \subseteq disk.rows
    BY <1>1, <1>4 DEF createAppManager, OpenNew, OpenExisting, Empty
  <2>2. sessions' = sessions + 1 /\ pass'.call = "open"
    BY <1>4 DEF createAppManager, NoPass
  <2>3. \A r \in disk.rows : r[3] \in Nat
    BY AppsAssumption DEF BaseInv, StoreInv, FileType
  <2>4. \A r \in disk'.rows : r[3] <= sessions' /\ r[3] # sessions'
    BY <1>1, <2>1, <2>2, <2>3 DEF RowInv
  <2> QED
    BY <2>2, <2>4 DEF RowInv
<1>5. CASE Configure /\ ~ \E newDb \in BOOLEAN : createAppManager(newDb)
  <2>1. /\ UNCHANGED <<disk, sessions>>
        /\ \/ UNCHANGED <<phase, pass>> /\ pass.call = "none"
           \/ pass' = NoPass /\ phase' = "managed" /\ pass.call = "open" /\ phase \in {"none", "gone"}
    BY <1>5 DEF Configure, registerApp, RegisterAll, enableApp,
       parameterizeAppFactory, parameterizeAppFactoryInstance, setAppOrderingForHooks,
       AppendUserSchema, Configured, Configuring, Quiet, store, rest, BaseInv, CallInv
  <2> QED
    BY <1>1, <1>2, <2>1
<1>6. CASE createEnabledApps
  BY <1>2, <1>6 DEF createEnabledApps, Quiet, store
<1>7. CASE createSchemas
  <2>1. pass'.call = "schemas" /\ work' = disk /\ UNCHANGED <<disk, phase, sessions>>
    BY <1>7 DEF createSchemas, Start, Begin
  <2> QED
    BY <2>1, RowsStay
<1>8. CASE AppendAppSchema
  <2>1. CASE pass' = NoPass /\ UNCHANGED disk
    BY <1>1, <1>2, <1>8, <2>1 DEF AppendAppSchema
  <2>2. CASE UNCHANGED <<disk, work>> /\ pass' = Next1
    <3>1. pass'.call = "schemas" /\ pass.call = "schemas"
      BY <1>8, <2>2 DEF AppendAppSchema, Next1, BaseInv, PassInv
    <3>2. UNCHANGED <<phase, sessions>>
      BY <1>8 DEF AppendAppSchema
    <3>3. work'.rows = disk'.rows
      BY <2>2, <3>1 DEF RowInv
    <3> QED
      BY <2>2, <3>1, <3>2, <3>3, RowsStay
  <2> QED
    BY <1>8, <2>1, <2>2 DEF AppendAppSchema, Throw
<1>9. CASE postInit \/ EndPreTeardown
  <2>1. PICK h \in {"postInit", "postTeardown"} :
            /\ pass'.call = h /\ work' = disk /\ ran' = [ran EXCEPT ![h] = <<>>]
            /\ UNCHANGED <<disk, phase, sessions>>
    BY <1>9 DEF postInit, EndPreTeardown, StartHooks, Start, Begin
  <2>2. AppsIn(ran'[HookOf(h)]) = {} /\ HookOf(h) = h
    BY <1>1, <2>1, Idle DEF HookOf, Hook
  <2>3. RowsOf(HookOf(h), AppsIn(ran'[HookOf(h)]), sessions') = {}
    BY <2>2 DEF RowsOf
  <2>4. work'.rows = disk'.rows \cup RowsOf(HookOf(h), AppsIn(ran'[HookOf(h)]), sessions')
    BY <2>1, <2>3
  <2> QED
    BY <2>1, <2>4, RowsStay
<1>10. CASE postSimLoopTeardown
  BY <1>2, <1>10 DEF postSimLoopTeardown, StartHooks, Start, Quiet
<1>11. CASE FileLocked
  <2> DEFINE c == IF pass.call = "strings" THEN "postTeardown" ELSE pass.call
  <2>1. /\ c \in {"schemas", "postInit", "postTeardown"}
        /\ pass'.call = c /\ work' = disk
        /\ UNCHANGED <<disk, phase, sessions>>
        /\ c # "schemas" => ran' = [ran EXCEPT ![c] = <<>>]
    BY <1>1, <1>11 DEF FileLocked, Retry, Hook
  <2> HIDE DEF c
  <2>2. CASE c = "schemas"
    BY <2>1, <2>2, RowsStay
  <2>3. CASE c # "schemas"
    <3>1. AppsIn(ran'[HookOf(c)]) = {}
      BY <1>1, <2>1, <2>3, Idle DEF HookOf, Hook
    <3>2. RowsOf(HookOf(c), AppsIn(ran'[HookOf(c)]), sessions') = {}
      BY <3>1 DEF RowsOf
    <3>3. work'.rows = disk'.rows \cup RowsOf(HookOf(c), AppsIn(ran'[HookOf(c)]), sessions')
      BY <2>1, <3>2
    <3> QED
      BY <2>1, <2>3, <3>3, RowsStay
  <2> QED
    BY <2>2, <2>3
<1>12. CASE CallHook
  <2> DEFINE h == pass.call
             a == Head(pass.todo)
  <2>1. /\ h \in Hook /\ pass.todo # <<>> /\ UNCHANGED <<phase, sessions, tx>>
        /\ ran' = [ran EXCEPT ![h] = Append(ran[h], a)]
        /\ \/ h = "postTeardown" /\ pass' = [pass EXCEPT !.call = "strings"]
           \/ pass' = Next1
    BY <1>12 DEF CallHook
  <2>2. HookOf(pass'.call) = h /\ HookOf(h) = h /\ pass'.call \in Hook \cup {"strings"}
        /\ (h = "preTeardown" => pass'.call = "preTeardown")
        /\ (h # "preTeardown" => pass'.call # "preTeardown")
    BY <2>1 DEF Next1, BaseInv, PassInv, HookOf, Hook
  <2>3. AppsIn(ran'[h]) = AppsIn(ran[h]) \cup {a}
    BY <1>1, <2>1, WalkOn
  <2>4. CASE h = "preTeardown"
    <3>1. UNCHANGED disk
      BY <1>12, <2>4 DEF CallHook
    <3> QED
      BY <1>2, <2>1, <2>2, <2>4, <3>1
  <2>5. CASE h # "preTeardown"
    <3>1. tx /\ View = work
      BY <1>1, <2>1, <2>5 DEF Hook, View
    <3>2. work' = [work EXCEPT !.rows = @ \cup {<<h, a, sessions>>}] /\ disk' = disk
      BY <1>12, <2>5, <3>1 DEF CallHook, Write
    <3>3. work'.rows = work.rows \cup {<<h, a, sessions>>}
      BY <1>1, <3>2 DEF FileType
    <3>4. work.rows = disk.rows \cup RowsOf(h, AppsIn(ran[h]), sessions)
      BY <2>1, <2>2, <2>5 DEF RowInv, Hook
    <3>5. RowsOf(h, AppsIn(ran'[h]), sessions') =
              RowsOf(h, AppsIn(ran[h]), sessions) \cup {<<h, a, sessions>>}
      BY <2>1, <2>3 DEF RowsOf
    <3>6. work'.rows = disk'.rows \cup RowsOf(HookOf(pass'.call), AppsIn(ran'[HookOf(pass'.call)]), sessions')
      BY <2>2, <3>2, <3>3, <3>4, <3>5
    <3> HIDE DEF h, a
    <3> QED
      BY <2>1, <2>2, <2>5, <3>2, <3>6, RowsStay DEF Hook
  <2> QED
    BY <2>4, <2>5
<1>13. CASE HookThrows
  BY <1>1, <1>2, <1>13 DEF HookThrows, Throw
<1>14. CASE SaveStrings
  <2>1. pass.call = "strings" /\ UNCHANGED <<ran, phase, sessions>> /\ tx /\ View = work
    BY <1>1, <1>14 DEF SaveStrings, View
  <2>2. CASE AppendStringTable /\ UNCHANGED pass
    BY <1>3, <2>1, <2>2 DEF AppendStringTable
  <2>3. CASE InsertStrings(Head(pass.todo)) /\ thrown' /\ pass' = NoPass
    <3>1. UNCHANGED disk
      BY <2>1, <2>3 DEF InsertStrings, Throw, Write
    <3> QED
      BY <1>1, <1>2, <2>1, <2>3, <3>1
  <2>4. CASE InsertStrings(Head(pass.todo)) /\ ~thrown' /\ pass' = [Next1 EXCEPT !.call = "postTeardown"]
    <3>1. disk' = disk /\ work'.rows = work.rows
      BY <1>1, <2>1, <2>4 DEF InsertStrings, Throw, Write, FileType
    <3>2. pass'.call = "postTeardown"
      BY <2>4 DEF Next1, BaseInv, PassInv
    <3>3. HookOf("postTeardown") = "postTeardown" /\ HookOf("strings") = "postTeardown"
      BY DEF HookOf
    <3>4. work'.rows = disk'.rows \cup RowsOf("postTeardown", AppsIn(ran'["postTeardown"]), sessions')
      BY <2>1, <3>1, <3>3 DEF RowInv
    <3> QED
      BY <2>1, <3>1, <3>2, <3>3, <3>4, RowsStay
  <2> QED
    BY <1>14, <2>2, <2>3, <2>4 DEF SaveStrings
<1>15. CASE initializePipelines \/ openPipelines
  BY <1>2, <1>15 DEF initializePipelines, openPipelines, Quiet, store
<1>16. CASE \E a \in AppId : CollectString(a)
  BY <1>3, <1>16 DEF CollectString, getStringID, rest
<1>17. CASE EndTransaction
  <2>1. /\ pass.todo = <<>> /\ disk' = work /\ UNCHANGED <<ran, sessions>> /\ pass'.call = "none"
    BY <1>1, <1>17 DEF EndTransaction, Commit, Finish, NoPass
  <2>2. CASE pass.call = "schemas"
    <3>1. disk'.rows = disk.rows /\ phase = "apps" /\ phase' = "schemas"
      BY <1>17, <2>1, <2>2 DEF EndTransaction, Finish, RowInv, BaseInv, CallInv
    <3> QED
      BY <1>2, <2>1, <3>1
  <2>3. CASE pass.call \in {"postInit", "postTeardown"}
    <3> DEFINE h == pass.call
    <3>1. /\ HookOf(h) = h
          /\ h = "postInit" => phase = "schemas" /\ phase' = "inited"
          /\ h = "postTeardown" => /\ phase' = "gone"
                                   /\ phase \in {"managed", "apps", "schemas", "inited", "piped", "open"}
      BY <1>17, <2>3 DEF EndTransaction, Finish, BaseInv, CallInv, HookOf, Teardown
    <3>2. disk'.rows = disk.rows \cup RowsOf(h, AppsIn(ran[h]), sessions)
      BY <2>1, <2>3, <3>1 DEF RowInv
    <3>3. \A r \in RowsOf(h, AppsIn(ran[h]), sessions) : r[1] = h /\ r[3] = sessions
      BY DEF RowsOf
    <3>4. \A r \in disk'.rows : r[3] <= sessions
      BY <1>1, <3>2, <3>3 DEF RowInv
    <3>5. ASSUME NEW r \in disk'.rows, r[3] = sessions
          PROVE  \/ r[1] = "postInit" /\ phase' \in {"inited", "gone"}
                 \/ r[1] = "postTeardown" /\ phase' = "gone"
      <4>1. CASE r \in disk.rows
        BY <3>1, <3>5, <4>1, <2>3 DEF RowInv
      <4>2. CASE r \in RowsOf(h, AppsIn(ran[h]), sessions)
        BY <2>3, <3>1, <3>3, <4>2
      <4> QED
        BY <3>2, <3>5, <4>1, <4>2
    <3> HIDE DEF h
    <3> QED
      BY <2>1, <3>4, <3>5 DEF RowInv
  <2> QED
    BY <1>17, <2>2, <2>3 DEF EndTransaction
<1>18. CASE destroyAll \/ Crash
  BY <1>1, <1>2, <1>18 DEF destroyAll, Crash, StoreCrash
<1>19. CASE StepAppend
  <2>1. /\ disk'.rows = disk.rows /\ (~thrown' => work'.rows = work.rows)
        /\ UNCHANGED <<sessions, phase, ran>> /\ pass' = IF thrown' THEN NoPass ELSE pass
    BY <1>19, AppendRows DEF StepAppend, BaseInv
  <2>2. CASE thrown'
    BY <1>1, <1>2, <2>1, <2>2
  <2>3. CASE ~thrown'
    BY <1>3, <2>1, <2>3
  <2> QED
    BY <2>2, <2>3
<1>20. CASE UNCHANGED vars
  BY <1>3, <1>20 DEF vars, rest, store
<1> QED
  BY <1>4, <1>5, <1>6, <1>7, <1>8, <1>9, <1>10, <1>11, <1>12, <1>13, <1>14, <1>15, <1>16,
     <1>17, <1>18, <1>19, <1>20 DEF Next, Lifecycle

LEMMA RowAlways == Spec => []RowInv
<1>1. BaseInv /\ RanInv /\ RowInv /\ [Next]_vars => RowInv'
  BY RowStep
<1> QED
  BY RowInit, <1>1, BaseAlways, RanAlways, PTL DEF Spec

\* Only a commit of a hook transaction adds rows: those of every app.
LEMMA RowsTogether ==
    ASSUME BaseInv, RanInv, RowInv, [Next]_vars
    PROVE  LET new == disk'.rows \ disk.rows IN
           new = {} \/ \E h \in Hook : new = {<<h, a, sessions>> : a \in DOMAIN apps}
<1>1. SUFFICES \/ disk'.rows \subseteq disk.rows
               \/ \E h \in Hook : disk'.rows \ disk.rows = {<<h, a, sessions>> : a \in DOMAIN apps}
  OBVIOUS
<1>2. /\ disk \in FileType /\ work \in FileType
      /\ tx <=> pass.call \in {"schemas", "postInit", "postTeardown", "strings"}
      /\ pass.todo \in Seq(AppId) /\ ran \in [Hook -> Seq(AppId)]
  BY DEF BaseInv, StoreInv, PassInv
<1>3. CASE EndTransaction
  <2>1. pass.todo = <<>> /\ disk' = work
    BY <1>3 DEF EndTransaction, Commit
  <2>2. CASE pass.call = "schemas"
    BY <2>1, <2>2 DEF RowInv
  <2>3. CASE pass.call \in {"postInit", "postTeardown"}
    <3> DEFINE h == pass.call
    <3>1. /\ h \in Hook /\ HookOf(h) = h
          /\ h = "postInit" => phase = "schemas"
          /\ h = "postTeardown" =>
                phase \in {"managed", "apps", "schemas", "inited", "piped", "open"}
      BY <2>3 DEF BaseInv, CallInv, HookOf, Hook, Teardown
    <3>2. ran[h] = HookOrder
      BY <1>2, <2>1, <3>1, NoneLeft DEF RanInv
    <3>3. AppsIn(ran[h]) = DOMAIN apps
      BY <3>2, OrderTyped
    <3>4. work.rows = disk.rows \cup RowsOf(h, DOMAIN apps, sessions)
      BY <2>3, <3>1, <3>3 DEF RowInv
    <3>5. ASSUME NEW r \in RowsOf(h, DOMAIN apps, sessions) PROVE r \notin disk.rows
      <4>1. r[1] = h /\ r[3] = sessions
        BY DEF RowsOf
      <4> QED
        BY <2>3, <3>1, <4>1 DEF RowInv
    <3>6. disk'.rows \ disk.rows = RowsOf(h, DOMAIN apps, sessions)
      BY <2>1, <3>4, <3>5
    <3> QED
      BY <3>1, <3>6 DEF RowsOf
  <2> QED
    BY <1>3, <2>2, <2>3 DEF EndTransaction
<1>4. CASE StepAppend
  BY <1>4, AppendRows DEF StepAppend, BaseInv
<1>5. CASE Configure
  <2>1. CASE \E newDb \in BOOLEAN : createAppManager(newDb)
    BY <1>2, <2>1 DEF createAppManager, OpenNew, OpenExisting, Empty
  <2>2. CASE ~ \E newDb \in BOOLEAN : createAppManager(newDb)
    BY <1>5, <2>2 DEF Configure, registerApp, RegisterAll, enableApp,
       parameterizeAppFactory, parameterizeAppFactoryInstance, setAppOrderingForHooks,
       AppendUserSchema, Configured, store
  <2> QED
    BY <2>1, <2>2
<1>6. CASE CallHook
  <2>1. CASE pass.call = "preTeardown"
    BY <1>6, <2>1 DEF CallHook
  <2>2. CASE pass.call # "preTeardown"
    BY <1>2, <1>6, <2>2 DEF CallHook, Write, Hook
  <2> QED
    BY <2>1, <2>2
<1>7. CASE SaveStrings
  BY <1>2, <1>7 DEF SaveStrings, AppendStringTable, InsertStrings, Write, Throw
<1>8. CASE Lifecycle /\ ~EndTransaction /\ ~CallHook /\ ~SaveStrings
  BY <1>8 DEF Lifecycle, createEnabledApps, createSchemas, Begin, AppendAppSchema, Throw,
     postInit, HookThrows, initializePipelines, openPipelines, CollectString, getStringID,
     postSimLoopTeardown, EndPreTeardown, destroyAll, store
<1>9. CASE FileLocked \/ Crash \/ UNCHANGED vars
  BY <1>9 DEF FileLocked, Retry, Crash, StoreCrash, vars, store
<1> QED
  BY <1>3, <1>4, <1>5, <1>6, <1>7, <1>8, <1>9 DEF Next

(* However locks, exceptions and crashes fall between the hooks of a call, what reaches   *)
(* the file at once is the rows of every app's hook or nothing (AppManager.hpp:513-518,   *)
(* 574-587).                                                                              *)
THEOREM HooksCommitTogether == Spec => CommittedTogether
<1>1. BaseInv /\ RanInv /\ RowInv /\ [Next]_vars =>
          [LET new == disk'.rows \ disk.rows IN
           new = {} \/ \E h \in Hook : new = {<<h, a, sessions>> : a \in DOMAIN apps}]_vars
  BY RowsTogether
<1> QED
  BY BaseAlways, RanAlways, RowAlways, <1>1, PTL DEF Spec, CommittedTogether
--------------------------------------------------------------------------------
(***************************************************************************)
(* The catalogue lists itself: an AppManager that got as far as to exist   *)
(* has a file whose catalogue names the catalogue's own tables, so that a  *)
(* second one of the same process opens the file without appending again.  *)
(***************************************************************************)
Listed(S) == Named(S, Internal[1].name) # {}

Marked == Listed(disk.catalogue) /\ Listed(work.catalogue) /\ Listed(schema)

MarkInv ==
    /\ phase # "none" /\ pass.call # "open" => Marked
    /\ pass.call = "open" /\ ~thrown =>
           /\ append = NotAppending => Marked
           /\ append # NotAppending => append.schema = Internal
           /\ append.at \in {"realize", "serialize"} => Listed(schema)
           /\ phase = "gone" /\ append.at \in {"memory", "realize"} => disk.tables = {}
           /\ phase = "gone" /\ append.at = "memory" => schema = {}

\* What the steps of appendSchema() do to the catalogue, to schema_ and to the strings.
LEMMA AppendDoes ==
    ASSUME StoreInv, AppendStep
    PROVE  /\ schema \subseteq schema'
           /\ disk'.catalogue \in {disk.catalogue, schema}
           /\ work'.catalogue \in {work.catalogue, disk.catalogue, schema}
           /\ disk'.strings = disk.strings
           /\ ~thrown' => work'.strings = work.strings
<1>1. View \in FileType /\ View = work
  BY ViewTyped
<1>2. ~thrown
  BY AppendStepKeeps
<1>3. \A v, x : v \in FileType => /\ [v EXCEPT !.tables = x].catalogue = v.catalogue
                                  /\ [v EXCEPT !.tables = x].strings = v.strings
                                  /\ [v EXCEPT !.catalogue = x].strings = v.strings
                                  /\ [v EXCEPT !.catalogue = x].catalogue = x
  BY DEF FileType
<1>4. \A s : Realized(work, s).catalogue = work.catalogue /\ Realized(work, s).strings = work.strings
  BY <1>1, <1>3 DEF Realized
<1>5. ASSUME NEW v, Write(v) PROVE disk' \in {disk, v} /\ work' = v
  BY <1>5 DEF Write
<1>6. ASSUME NEW v, Write(v), v.strings = work.strings
      PROVE disk'.strings = disk.strings /\ work'.strings = work.strings
  BY <1>6 DEF Write, StoreInv
<1>7. CASE Remember
  <2>1. schema' = Remembered(schema, append.schema) /\ (UNCHANGED <<disk, work>> \/ (work' = disk /\ disk' = disk /\ thrown'))
    BY <1>7 DEF Remember, Throw
  <2> QED
    BY <2>1 DEF Remembered
<1>8. CASE realizeSchema
  <2>1. CASE Throw /\ UNCHANGED schema
    BY <2>1 DEF Throw
  <2>2. CASE Write(Realized(View, append.schema)) /\ UNCHANGED schema
    <3>1. disk'.catalogue \in {disk.catalogue, work.catalogue} /\ work'.catalogue = work.catalogue
      BY <1>1, <1>4, <1>5, <2>2
    <3>2. tx \/ disk.catalogue = work.catalogue
      BY DEF StoreInv
    <3>3. tx => disk' = disk
      BY <2>2 DEF Write
    <3> QED
      BY <1>1, <1>4, <1>6, <2>2, <3>1, <3>2, <3>3
  <2> QED
    BY <1>8, <2>1, <2>2 DEF realizeSchema
<1>9. CASE serializeSchema
  <2> DEFINE v == [work EXCEPT !.catalogue = schema]
  <2>1. Write(v) /\ UNCHANGED schema
    BY <1>1, <1>9 DEF serializeSchema
  <2>2. v.catalogue = schema /\ v.strings = work.strings
    BY <1>1, <1>3
  <2> HIDE DEF v
  <2>3. disk' \in {disk, v} /\ work' = v
    BY <1>5, <2>1
  <2>4. disk'.strings = disk.strings /\ work'.strings = work.strings
    BY <1>6, <2>1, <2>2
  <2> QED
    BY <2>1, <2>2, <2>3, <2>4
<1> QED
  BY <1>7, <1>8, <1>9 DEF AppendStep

\* The catalogue stays marked.
LEMMA MarkStays ==
    ASSUME Marked, schema \subseteq schema',
           disk'.catalogue \in {disk.catalogue, work.catalogue, schema},
           work'.catalogue \in {disk.catalogue, work.catalogue, schema}
    PROVE  Marked'
  BY DEF Marked, Listed, Named

LEMMA MarkInit == Init => MarkInv
  BY Idle DEF Init, MarkInv

\* Making the second AppManager of a process does not fail in appendSchema().
LEMMA OpenCannotThrow ==
    ASSUME BaseInv, MarkInv, StepAppend, pass.call = "open", phase = "gone"
    PROVE  ~thrown'
<1>1. AppendStep /\ append # NotAppending /\ ~thrown /\ ~tx
  BY AppendStepKeeps DEF StepAppend, BaseInv, PassInv, Hook
<1>2. append.schema = Internal /\ View = disk
  BY <1>1 DEF MarkInv, View
<1>3. CASE Remember
  BY <1>1, <1>3 DEF Remember, Clashes, Named, MarkInv
<1>4. CASE realizeSchema
  BY <1>1, <1>2, <1>4 DEF realizeSchema, IndexExists, Named, MarkInv
<1>5. CASE serializeSchema
  BY <1>1, <1>5 DEF serializeSchema
<1> QED
  BY <1>1, <1>3, <1>4, <1>5 DEF AppendStep

LEMMA MarkStep ==
    ASSUME BaseInv, MarkInv, [Next]_vars
    PROVE  MarkInv'
<1>1. /\ NoPass.call = "none" /\ StoreInv /\ disk \in FileType /\ work \in FileType
      /\ pass.call \in {"none", "open"} => ~tx
      /\ ~tx => work = disk
  BY Idle DEF BaseInv, PassInv, StoreInv
<1> DEFINE Stays == /\ schema \subseteq schema'
                    /\ disk'.catalogue \in {disk.catalogue, work.catalogue, schema}
                    /\ work'.catalogue \in {disk.catalogue, work.catalogue, schema}
<1>2. ASSUME phase' # "none" => phase # "none" /\ pass.call # "open",
             pass'.call # "open", Stays
      PROVE  MarkInv'
  BY <1>2, MarkStays DEF MarkInv
<1>3. CASE \E newDb \in BOOLEAN : createAppManager(newDb)
  <2>1. pass'.call = "open" /\ phase \in {"none", "gone"} /\ phase' = phase /\ pass.call = "none"
    BY <1>3 DEF createAppManager, NoPass, Quiet
  <2>2. CASE OpenNew
    <3>1. /\ append' = [schema |-> Internal, at |-> "memory"]
          /\ disk' = Empty /\ schema' = {}
      BY <2>2 DEF OpenNew
    <3>2. append' # NotAppending /\ append'.schema = Internal /\ append'.at = "memory"
      BY <3>1 DEF NotAppending
    <3>3. disk'.tables = {}
      BY <3>1 DEF Empty
    <3> QED
      BY <2>1, <3>1, <3>2, <3>3 DEF MarkInv
  <2>3. CASE OpenExisting
    <3>1. work' = disk /\ disk' = disk /\ schema' = disk.catalogue
      BY <2>3 DEF OpenExisting
    <3>2. CASE thrown'
      BY <2>1, <3>2 DEF MarkInv
    <3>3. CASE ~thrown' /\ Listed(disk.catalogue)
      <4>1. append' = NotAppending /\ append'.at = "done"
        BY <2>3, <3>3 DEF OpenExisting, Listed, NotAppending
      <4>2. Marked'
        BY <3>1, <3>3 DEF Marked, Listed
      <4> QED
        BY <2>1, <4>1, <4>2 DEF MarkInv
    <3>4. CASE ~thrown' /\ ~Listed(disk.catalogue)
      <4>1. append' = [schema |-> Internal, at |-> "memory"]
        BY <2>3, <3>4 DEF OpenExisting, Listed
      <4>2. append' # NotAppending /\ append'.schema = Internal /\ append'.at = "memory"
        BY <4>1 DEF NotAppending
      <4>3. phase # "gone"
        BY <2>1, <3>4 DEF MarkInv, Marked
      <4> QED
        BY <2>1, <4>2, <4>3 DEF MarkInv
    <3> QED
      BY <3>2, <3>3, <3>4
  <2> QED
    BY <1>3, <2>2, <2>3 DEF createAppManager
<1>4. CASE RegisterAll
  <2>1. Marked /\ UNCHANGED <<disk, work, schema>> /\ pass' = NoPass
    BY <1>4 DEF RegisterAll, MarkInv
  <2>2. Marked'
    BY <2>1, MarkStays
  <2> QED
    BY <1>1, <2>1, <2>2 DEF MarkInv
<1>5. CASE \/ Configure /\ ~RegisterAll /\ ~ \E newDb \in BOOLEAN : createAppManager(newDb)
           \/ \E a \in AppId : CollectString(a)
  <2>1. UNCHANGED <<disk, work, schema, phase, pass>> /\ pass.call = "none"
    BY <1>5 DEF Configure, registerApp, enableApp, CollectString, getStringID,
       parameterizeAppFactory, parameterizeAppFactoryInstance, setAppOrderingForHooks,
       AppendUserSchema, Configured, Configuring, Quiet, store, rest
  <2> QED
    BY <1>2, <2>1
<1>6. CASE \/ createEnabledApps \/ createSchemas \/ postInit \/ postSimLoopTeardown
           \/ initializePipelines \/ openPipelines
  <2>1. /\ disk' = disk /\ work' \in {work, disk} /\ schema' = schema
        /\ pass.call = "none" /\ phase # "none" /\ pass'.call # "open"
    BY <1>6 DEF createEnabledApps, createSchemas, postInit, postSimLoopTeardown, Hook,
       initializePipelines, openPipelines, StartHooks, Start, Begin, Quiet, store
  <2> QED
    BY <1>2, <2>1
<1>7. CASE AppendAppSchema \/ HookThrows
  <2>1. /\ disk' = disk /\ work' \in {work, disk} /\ schema' = schema
        /\ pass.call # "open" /\ pass'.call # "open" /\ phase' = phase /\ phase # "none"
    BY <1>1, <1>7 DEF AppendAppSchema, HookThrows, Throw, Next1, Hook, BaseInv, CallInv, PassInv,
       Teardown
  <2> QED
    BY <1>2, <2>1
<1>8. CASE CallHook \/ EndPreTeardown
  <2>1. /\ schema' = schema /\ phase' = phase /\ phase # "none"
        /\ pass.call # "open" /\ pass'.call # "open"
    BY <1>8 DEF CallHook, EndPreTeardown, Start, Next1, Hook, BaseInv, CallInv, PassInv, Teardown
  <2>2. CASE EndPreTeardown
    BY <1>2, <2>1, <2>2 DEF EndPreTeardown, Begin
  <2>3. CASE CallHook
    <3>1. CASE UNCHANGED <<disk, work>>
      BY <1>2, <2>1, <3>1
    <3>2. ASSUME NEW x, Write([View EXCEPT !.rows = x])
          PROVE  disk'.catalogue \in {disk.catalogue, work.catalogue} /\ work'.catalogue = work.catalogue
      BY <1>1, <3>2, ViewTyped DEF Write, FileType
    <3> QED
      BY <1>2, <2>1, <2>3, <3>1, <3>2 DEF CallHook
  <2> QED
    BY <1>8, <2>2, <2>3
<1>9. CASE SaveStrings
  <2>1. /\ schema' = schema /\ phase' = phase /\ phase # "none"
        /\ pass.call # "open" /\ pass'.call # "open"
    BY <1>1, <1>9 DEF SaveStrings, AppendStringTable, InsertStrings, Next1, Hook, BaseInv, CallInv,
       PassInv, Teardown
  <2>2. ASSUME NEW x, Write([View EXCEPT !.strings = x])
        PROVE  disk'.catalogue \in {disk.catalogue, work.catalogue} /\ work'.catalogue = work.catalogue
    BY <1>1, <2>2, ViewTyped DEF Write, FileType
  <2>3. CASE AppendStringTable
    BY <1>2, <2>1, <2>3 DEF AppendStringTable
  <2>4. CASE InsertStrings(Head(pass.todo))
    BY <1>2, <2>1, <2>2, <2>4 DEF InsertStrings, Throw
  <2> QED
    BY <1>9, <2>3, <2>4 DEF SaveStrings
<1>10. CASE EndTransaction
  <2>1. /\ disk' = work /\ work' = work /\ schema' = schema /\ pass'.call # "open"
        /\ pass.call # "open" /\ phase # "none"
    BY <1>1, <1>10 DEF EndTransaction, Commit, Finish, NoPass, BaseInv, CallInv, Teardown
  <2> QED
    BY <1>2, <2>1
<1>11. CASE FileLocked
  <2>1. /\ disk' = disk /\ work' = disk /\ schema' = schema /\ phase' = phase
        /\ pass.call # "open" /\ pass'.call # "open" /\ phase # "none"
    BY <1>1, <1>11 DEF FileLocked, Retry, BaseInv, CallInv, PassInv, Teardown
  <2> QED
    BY <1>2, <2>1
<1>12. CASE destroyAll \/ Crash
  BY <1>1, <1>12 DEF destroyAll, Crash, MarkInv
<1>13. CASE UNCHANGED vars
  BY <1>13, MarkStays DEF vars, store, rest, MarkInv
<1>14. CASE StepAppend /\ pass.call # "open"
  <2>1. /\ Stays /\ phase' = phase /\ pass'.call # "open" /\ phase # "none"
    BY <1>1, <1>14, AppendDoes, AppendStepKeeps DEF StepAppend, BaseInv, CallInv, Teardown
  <2> QED
    BY <1>2, <1>14, <2>1
<1>15. CASE StepAppend /\ pass.call = "open"
  <2>1. /\ AppendStep /\ append # NotAppending /\ ~thrown /\ ~tx /\ work = disk
        /\ UNCHANGED phase /\ pass' = IF thrown' THEN NoPass ELSE pass
        /\ phase \in {"none", "gone"}
    BY <1>1, <1>15, AppendStepKeeps DEF StepAppend, BaseInv, CallInv
  <2>2. append.schema = Internal /\ View = disk
    BY <1>15, <2>1 DEF MarkInv, View
  <2>3. phase = "gone" => ~thrown'
    BY <1>15, OpenCannotThrow
  <2>4. CASE thrown'
    <3>1. pass'.call = "none" /\ phase' = "none"
      BY <1>1, <2>1, <2>3, <2>4
    <3> QED
      BY <3>1 DEF MarkInv
  <2>5. CASE ~thrown' /\ Remember
    <3>1. /\ Clashes(schema, Internal) = {} /\ schema' = Remembered(schema, Internal)
          /\ append' = [append EXCEPT !.at = "realize"] /\ disk' = disk
          /\ append.at = "memory"
      BY <2>2, <2>5 DEF Remember, Throw
    <3>2. append'.at = "realize" /\ append'.schema = Internal /\ append' # NotAppending
      BY <2>2, <3>1 DEF NotAppending, BaseInv, StoreInv
    <3>3. Internal[1] \in schema'
      <4>1. 1 \in DOMAIN Internal
        BY DEF Internal
      <4> QED
        BY <3>1, <4>1 DEF Remembered
    <3>4. Listed(schema')
      BY <3>3 DEF Listed, Named
    <3>5. phase = "gone" => disk'.tables = {}
      BY <1>15, <2>1, <3>1 DEF MarkInv
    <3> QED
      BY <2>1, <2>5, <3>2, <3>4, <3>5, <1>15 DEF MarkInv, Listed
  <2>6. CASE ~thrown' /\ realizeSchema
    <3>1. append' = [append EXCEPT !.at = "serialize"] /\ schema' = schema /\ append.at = "realize"
      BY <2>6 DEF realizeSchema, Throw
    <3>2. append'.at = "serialize" /\ append'.schema = Internal /\ append' # NotAppending
      BY <2>2, <3>1 DEF NotAppending, BaseInv, StoreInv
    <3>3. Listed(schema)
      BY <1>15, <2>1, <3>1 DEF MarkInv
    <3> QED
      BY <2>1, <2>6, <3>1, <3>2, <3>3, <1>15 DEF MarkInv, Listed
  <2>7. CASE ~thrown' /\ serializeSchema
    <3>1. /\ append' = NotAppending /\ schema' = schema /\ append.at = "serialize"
          /\ disk'.catalogue = schema /\ work'.catalogue = schema
      BY <1>1, <2>1, <2>2, <2>7 DEF serializeSchema, Write, FileType
    <3>2. Listed(schema)
      BY <1>15, <2>1, <3>1 DEF MarkInv
    <3>3. Marked'
      BY <3>1, <3>2 DEF Marked, Listed
    <3>4. append'.at = "done"
      BY <3>1 DEF NotAppending
    <3> QED
      BY <2>1, <2>7, <3>1, <3>3, <3>4, <1>15 DEF MarkInv
  <2> QED
    BY <2>1, <2>3, <2>4, <2>5, <2>6, <2>7 DEF AppendStep
<1> QED
  BY <1>3, <1>4, <1>5, <1>6, <1>7, <1>8, <1>9, <1>10, <1>11, <1>12, <1>13, <1>14, <1>15
     DEF Next, Lifecycle

LEMMA MarkAlways == Spec => []MarkInv
<1>1. BaseInv /\ MarkInv /\ [Next]_vars => MarkInv'
  BY MarkStep
<1> QED
  BY MarkInit, <1>1, BaseAlways, PTL DEF Spec
--------------------------------------------------------------------------------
(***************************************************************************)
(* Strings: from the first one on until the manager is gone, each has its  *)
(* row or is pending, and a teardown leaves none pending behind it.        *)
(***************************************************************************)
SaveInv ==
    /\ phase # "none" /\ pass.call # "open" =>
           \A o \in Owner : strings[o] # NoStrings =>
               phase = "gone" \/ (phase = "open" /\ o \in DOMAIN apps /\ o[1] \in StringUser)
    /\ phase = "open" /\ pass.busy = 0 /\ ~thrown =>
           \A o \in Owner : \A id \in 1 .. strings[o].ids :
               id \in strings[o].unserialized \/ <<o, id>> \in work.strings
    /\ pass.call \in {"postTeardown", "strings"} =>
           \A o \in DOMAIN apps : o[1] \in StringUser /\ o \notin AppsIn(pass.todo)
               => strings[o].unserialized = {}
    /\ pass.call \in {"none", "open", "preTeardown"} /\ phase # "gone" => pass.busy = 0
    /\ StringsSaved

LEMMA SaveInit == Init => SaveInv
  BY Idle DEF Init, SaveInv, StringsSaved

\* Until the pipelines are open there are no strings.
LEMMA SaveBefore ==
    ASSUME BaseInv, SaveInv, phase \notin {"none", "open", "gone"}, pass.call # "open",
           strings' = strings, DOMAIN apps' \subseteq Owner,
           pass'.call \in {"none", "open", "preTeardown"} /\ phase' # "gone" => pass'.busy = 0
    PROVE  SaveInv'
<1>1. \A o \in Owner : strings[o] = NoStrings
  BY DEF SaveInv
<1>2. \A o \in Owner : strings'[o].ids = 0 /\ strings'[o].unserialized = {}
                       /\ strings'[o] = NoStrings
  BY <1>1 DEF NoStrings
<1>3. StringsSaved'
  BY <1>2 DEF StringsSaved
<1> QED
  BY <1>2, <1>3 DEF SaveInv

\* While they are open, and the strings stay as they are.
LEMMA SaveOpen ==
    ASSUME BaseInv, SaveInv, phase = "open", pass.call # "open",
           UNCHANGED <<strings, apps>>, phase' = "open",
           pass'.call \in {"none", "open", "preTeardown"} => pass'.busy = 0,
           \/ thrown' \/ pass'.busy # 0
           \/ pass.busy = 0 /\ ~thrown /\ (work'.strings = work.strings),
           pass'.call \in {"postTeardown", "strings"} =>
               \/ AppsIn(pass'.todo) = DOMAIN apps
               \/ /\ pass.call \in {"postTeardown", "strings"}
                  /\ \A o \in AppsIn(pass.todo) : o[1] \in StringUser => o \in AppsIn(pass'.todo)
    PROVE  SaveInv'
<1>1. StringsSaved'
  BY DEF StringsSaved
<1>2. DOMAIN apps \subseteq Owner
  BY AppsAssumption DEF BaseInv, AppsInv
<1> QED
  BY <1>1, <1>2 DEF SaveInv

LEMMA SaveStep ==
    ASSUME BaseInv, MarkInv, SaveInv, [Next]_vars
    PROVE  SaveInv'
<1>1. /\ NoPass.call = "none" /\ NoPass.busy = 0 /\ NoPass.todo = <<>>
      /\ StoreInv /\ disk \in FileType /\ work \in FileType
      /\ pass.call \in {"none", "open"} => ~tx
      /\ ~tx => work = disk
      /\ pass.todo \in Seq(AppId) /\ pass.busy \in Nat
      /\ DOMAIN apps \subseteq Owner /\ Owner = AppId
  BY Idle, AppsAssumption DEF BaseInv, PassInv, StoreInv, AppsInv
<1>2. ASSUME disk'.strings = disk.strings, work'.strings = work.strings,
             thrown => thrown', UNCHANGED <<strings, apps, phase, pass>>
      PROVE  SaveInv'
  BY <1>2 DEF SaveInv, StringsSaved
<1>3. ASSUME phase' \in {"none", "gone"}, pass'.call = "open", pass'.busy = 0
      PROVE  SaveInv'
  BY <1>3 DEF SaveInv, StringsSaved
<1>4. ASSUME phase' = "none", pass' = NoPass
      PROVE  SaveInv'
  BY <1>1, <1>4 DEF SaveInv, StringsSaved
<1>5. ASSUME phase \notin {"none", "open", "gone"}, pass.call # "open",
             strings' = strings, DOMAIN apps' \subseteq Owner,
             pass'.call \in {"none", "open", "preTeardown"} /\ phase' # "gone" => pass'.busy = 0
      PROVE  SaveInv'
  BY <1>5, SaveBefore
<1>6. CASE \E newDb \in BOOLEAN : createAppManager(newDb)
  BY <1>3, <1>6 DEF createAppManager, NoPass
<1>7. CASE RegisterAll
  <2>1. /\ strings' = [o \in Owner |-> NoStrings] /\ phase' = "managed" /\ pass' = NoPass
    BY <1>7 DEF RegisterAll
  <2> QED
    BY <1>1, <2>1 DEF SaveInv, StringsSaved
<1>8. CASE Configure /\ ~RegisterAll /\ ~ \E newDb \in BOOLEAN : createAppManager(newDb)
  BY <1>2, <1>8 DEF Configure, registerApp, enableApp,
     parameterizeAppFactory, parameterizeAppFactoryInstance, setAppOrderingForHooks,
     AppendUserSchema, Configured, store, rest
<1>9. CASE createEnabledApps
  <2>1. AppsInv'
    BY <1>9, BaseCreateApps DEF BaseInv
  <2>2. /\ phase = "managed" /\ pass.call = "none" /\ strings' = strings /\ pass' = pass
        /\ DOMAIN apps' \subseteq Owner
    BY <1>1, <1>9, <2>1 DEF createEnabledApps, AppsInv, Quiet, store
  <2> QED
    BY <1>5, <2>2 DEF SaveInv
<1>10. CASE \/ createSchemas \/ AppendAppSchema \/ postInit
            \/ initializePipelines \/ openPipelines
  <2>1. /\ phase \notin {"none", "open", "gone"} /\ pass.call # "open" /\ UNCHANGED <<strings, apps>>
    BY <1>10 DEF createSchemas, AppendAppSchema, postInit, StartHooks, initializePipelines,
       openPipelines, Quiet, store, BaseInv, CallInv, Throw
  <2>2. pass' \in {pass, NoPass} \/ pass'.call \in {"schemas", "postInit"}
    BY <1>10 DEF createSchemas, AppendAppSchema, postInit, StartHooks, initializePipelines,
       openPipelines, Start, Next1, BaseInv, PassInv
  <2> QED
    BY <1>1, <1>5, <2>1, <2>2 DEF SaveInv
<1>11. CASE \E a \in AppId : CollectString(a)
  <2>1. PICK a \in AppId : CollectString(a)
    BY <1>11
  <2>2. /\ phase = "open" /\ pass.call = "none" /\ a \in DOMAIN apps /\ a[1] \in StringUser
        /\ UNCHANGED <<disk, work, thrown, apps, phase, pass>>
        /\ strings' = [strings EXCEPT ![a] =
                          [ids |-> strings[a].ids + 1,
                           unserialized |-> strings[a].unserialized \cup {strings[a].ids + 1}]]
    BY <2>1 DEF CollectString, getStringID, Quiet, rest
  <2>3. strings \in [Owner -> [ids : Nat, unserialized : SUBSET Nat]]
    BY <1>1 DEF StoreInv
  <2>4. /\ strings'[a].ids = strings[a].ids + 1
        /\ strings'[a].unserialized = strings[a].unserialized \cup {strings[a].ids + 1}
        /\ \A o \in Owner : o # a => strings'[o] = strings[o]
        /\ strings[a].ids \in Nat
    BY <1>1, <2>2, <2>3
  <2>5. \A id \in 1 .. strings'[a].ids : id \in 1 .. strings[a].ids \/ id = strings[a].ids + 1
    BY <2>4
  <2> QED
    BY <1>1, <2>2, <2>4, <2>5 DEF SaveInv, StringsSaved
<1>12. CASE \/ postSimLoopTeardown \/ HookThrows \/ CallHook \/ EndPreTeardown
            \/ FileLocked
  <2>1. pass.call # "open" /\ phase \notin {"none", "gone"} /\ UNCHANGED <<phase, strings, apps>>
    BY <1>12 DEF postSimLoopTeardown, StartHooks, HookThrows, CallHook, EndPreTeardown, FileLocked,
       Retry, Hook, BaseInv, CallInv, PassInv, Teardown
  <2>2. pass'.call \in {"none", "open", "preTeardown"} => pass'.busy = 0
    <3>1. CASE postSimLoopTeardown \/ EndPreTeardown \/ HookThrows
      BY <1>1, <3>1 DEF postSimLoopTeardown, StartHooks, HookThrows, EndPreTeardown, Start
    <3>2. CASE CallHook
      <4>1. pass'.busy = pass.busy /\ (pass'.call = "preTeardown" => pass.call = "preTeardown")
            /\ pass'.call \notin {"none", "open"}
        BY <3>2 DEF CallHook, Next1, Hook, BaseInv, PassInv
      <4> QED
        BY <2>1, <4>1 DEF SaveInv
    <3>3. CASE FileLocked
      BY <1>1, <3>3 DEF FileLocked, Retry, BaseInv, PassInv
    <3> QED
      BY <1>12, <3>1, <3>2, <3>3
  <2>3. CASE phase # "open"
    BY <1>1, <1>5, <2>1, <2>2, <2>3
  <2>4. CASE phase = "open" /\ postSimLoopTeardown
    <3>1. pass'.call = "preTeardown" /\ ~thrown /\ work' = work /\ pass.busy = 0
      BY <2>4 DEF postSimLoopTeardown, StartHooks, Start, Quiet, SaveInv
    <3> QED
      BY <2>1, <2>2, <2>4, <3>1, SaveOpen
  <2>5. CASE phase = "open" /\ HookThrows
    <3>1. thrown' /\ pass'.call = "none"
      BY <1>1, <2>5 DEF HookThrows, Throw
    <3> QED
      BY <2>1, <2>2, <2>5, <3>1, SaveOpen
  <2>6. CASE phase = "open" /\ EndPreTeardown
    <3>1. /\ pass.call = "preTeardown" /\ work' = work /\ pass.busy = 0 /\ ~thrown
          /\ pass'.call = "postTeardown" /\ AppsIn(pass'.todo) = DOMAIN apps
      BY <1>1, <2>6, StartTyped DEF EndPreTeardown, Begin, SaveInv, BaseInv, CallInv, PassInv, Hook
    <3> QED
      BY <2>1, <2>2, <2>6, <3>1, SaveOpen
  <2>7. CASE phase = "open" /\ FileLocked
    <3>1. pass'.busy = pass.busy + 1 /\ pass'.todo = WalkOf(pass'.call)
      BY <2>7 DEF FileLocked
    <3>2. AppsIn(pass'.todo) = DOMAIN apps
      <4>1. PICK c : c = pass'.call
        OBVIOUS
      <4>2. pass'.todo = WalkOf(c)
        BY <3>1, <4>1
      <4> QED
        BY <4>2, WalkIs
    <3>3. pass'.busy # 0
      BY <1>1, <3>1
    <3> QED
      BY <2>1, <2>2, <2>7, <3>2, <3>3, SaveOpen
  <2>8. CASE phase = "open" /\ CallHook
    <3> DEFINE a == Head(pass.todo)
    <3>1. /\ pass.call \in Hook /\ pass.todo # <<>> /\ thrown' = thrown /\ ~thrown
          /\ \/ /\ pass.call = "postTeardown" /\ a[1] \in StringUser
                /\ pass' = [pass EXCEPT !.call = "strings"]
             \/ /\ ~(pass.call = "postTeardown" /\ a[1] \in StringUser)
                /\ pass' = Next1
      BY <2>8 DEF CallHook, BaseInv, CallInv, Hook
    <3>2. work'.strings = work.strings
      <4>1. CASE UNCHANGED <<disk, work>>
        BY <4>1
      <4>2. ASSUME NEW x, Write([View EXCEPT !.rows = x]) PROVE work'.strings = work.strings
        BY <1>1, <4>2, ViewTyped DEF Write, FileType
      <4> QED
        BY <2>8, <4>1, <4>2 DEF CallHook
    <3>3. AppsIn(pass.todo) = {a} \cup AppsIn(Tail(pass.todo))
      BY <1>1, <3>1, WalkPop
    <3>4. /\ pass'.busy = pass.busy
          /\ \/ pass'.todo = pass.todo /\ pass.call = "postTeardown"
             \/ /\ pass'.call = pass.call /\ pass'.todo = Tail(pass.todo)
                /\ ~(pass.call = "postTeardown" /\ a[1] \in StringUser)
      BY <3>1 DEF Next1, BaseInv, PassInv
    <3>5. pass'.call \in {"postTeardown", "strings"} =>
              /\ pass.call \in {"postTeardown", "strings"}
              /\ \A o \in AppsIn(pass.todo) : o[1] \in StringUser => o \in AppsIn(pass'.todo)
      BY <3>1, <3>3, <3>4 DEF Hook
    <3> QED
      BY <2>1, <2>2, <2>8, <3>1, <3>2, <3>4, <3>5, SaveOpen
  <2> QED
    BY <1>12, <2>3, <2>4, <2>5, <2>6, <2>7, <2>8
<1>13. CASE SaveStrings
  <2> DEFINE a == Head(pass.todo)
  <2>1. /\ pass.call = "strings" /\ phase \notin {"none", "gone"} /\ UNCHANGED <<phase, apps>>
        /\ ~thrown /\ tx /\ View = work /\ pass.todo # <<>>
    BY <1>13 DEF SaveStrings, BaseInv, CallInv, PassInv, Teardown, View
  <2>2. CASE AppendStringTable /\ UNCHANGED pass
    BY <1>2, <2>1, <2>2 DEF AppendStringTable
  <2>3. CASE InsertStrings(a) /\ thrown' /\ pass' = NoPass
    <3>1. strings' = strings
      BY <2>1, <2>3 DEF InsertStrings
    <3>2. CASE phase = "open"
      BY <1>1, <2>1, <2>3, <3>1, <3>2, SaveOpen
    <3>3. CASE phase # "open"
      BY <1>1, <1>5, <2>1, <2>3, <3>1, <3>3
    <3> QED
      BY <3>2, <3>3
  <2>4. CASE InsertStrings(a) /\ ~thrown' /\ pass' = [Next1 EXCEPT !.call = "postTeardown"]
    <3>1. /\ pass'.call = "postTeardown" /\ pass'.todo = Tail(pass.todo) /\ pass'.busy = pass.busy
      BY <2>4 DEF Next1, BaseInv, PassInv
    <3>2. /\ Write([work EXCEPT !.strings = @ \cup ({a} \X strings[a].unserialized)])
          /\ strings' = [strings EXCEPT ![a].unserialized = {}]
      BY <2>1, <2>4 DEF InsertStrings, Throw
    <3>3. work'.strings = work.strings \cup ({a} \X strings[a].unserialized)
      BY <1>1, <3>2 DEF Write, FileType
    <3>4. a \in Owner /\ AppsIn(pass.todo) = {a} \cup AppsIn(Tail(pass.todo))
      BY <1>1, <2>1, WalkPop
    <3>5. /\ strings'[a].ids = strings[a].ids /\ strings'[a].unserialized = {}
          /\ strings[a].unserialized = {} => strings'[a] = strings[a]
          /\ \A o \in Owner : o # a => strings'[o] = strings[o]
      <4>1. strings \in [Owner -> [ids : Nat, unserialized : SUBSET Nat]]
        BY <1>1 DEF StoreInv
      <4>2. strings' = [strings EXCEPT ![a] = [strings[a] EXCEPT !.unserialized = {}]]
        BY <3>2, <3>4, <4>1
      <4>3. strings'[a] = [strings[a] EXCEPT !.unserialized = {}]
        BY <3>4, <4>1, <4>2
      <4>4. strings[a] \in [ids : Nat, unserialized : SUBSET Nat]
        BY <3>4, <4>1
      <4>5. strings[a].unserialized = {} => strings'[a] = strings[a]
        BY <4>3, <4>4
      <4> QED
        BY <3>4, <4>1, <4>2, <4>3, <4>4, <4>5
    <3>6. \A o \in Owner : strings'[o] # NoStrings => strings[o] # NoStrings
      BY <3>5 DEF NoStrings
    <3>7. ASSUME phase = "open", pass.busy = 0, NEW o \in Owner, NEW id \in 1 .. strings'[o].ids
          PROVE  id \in strings'[o].unserialized \/ <<o, id>> \in work'.strings
      <4>1. id \in strings[o].unserialized \/ <<o, id>> \in work.strings
        BY <2>1, <3>5, <3>7 DEF SaveInv
      <4> QED
        BY <3>3, <3>5, <4>1
    <3>8. ASSUME NEW o \in DOMAIN apps, o[1] \in StringUser, o \notin AppsIn(pass'.todo)
          PROVE  strings'[o].unserialized = {}
      <4>1. o = a \/ o \notin AppsIn(pass.todo)
        BY <3>1, <3>4, <3>8
      <4>2. o \in Owner /\ (o \notin AppsIn(pass.todo) => strings[o].unserialized = {})
        BY <1>1, <2>1, <3>8 DEF SaveInv
      <4> QED
        BY <3>5, <4>1, <4>2
    <3>9. StringsSaved'
      BY <2>1 DEF StringsSaved
    <3>10. \A o \in Owner : strings'[o] # NoStrings =>
               phase = "open" /\ o \in DOMAIN apps /\ o[1] \in StringUser
      BY <2>1, <3>6 DEF SaveInv
    <3> QED
      BY <2>1, <3>1, <3>7, <3>8, <3>9, <3>10 DEF SaveInv
  <2> QED
    BY <1>13, <2>2, <2>3, <2>4 DEF SaveStrings
<1>14. CASE EndTransaction
  <2>1. CASE phase # "open"
    <3>1. /\ phase \notin {"none", "gone"} /\ pass.call # "open" /\ strings' = strings
          /\ DOMAIN apps' \subseteq Owner /\ (phase' # "gone" => pass' = NoPass)
      BY <1>1, <1>14, Idle DEF EndTransaction, Finish, BaseInv, CallInv, Teardown
    <3> QED
      BY <1>1, <1>5, <2>1, <3>1
  <2>2. CASE phase = "open"
    <3>1. /\ pass.call = "postTeardown" /\ pass.todo = <<>> /\ phase' = "gone" /\ ~thrown
          /\ pass'.call = "none" /\ pass'.busy = pass.busy /\ disk' = work /\ strings' = strings
      BY <1>14, <2>2 DEF EndTransaction, Finish, Commit, BaseInv, CallInv, NoPass
    <3>2. ASSUME pass.busy = 0, NEW o \in Owner, NEW id \in 1 .. strings[o].ids
          PROVE  <<o, id>> \in work.strings
      <4>1. strings[o] # NoStrings
        BY <3>2 DEF NoStrings
      <4>2. strings[o].unserialized = {}
        BY <2>2, <3>1, <4>1, Idle DEF SaveInv
      <4> QED
        BY <2>2, <3>1, <3>2, <4>2 DEF SaveInv
    <3>3. StringsSaved'
      BY <3>1, <3>2 DEF StringsSaved
    <3> QED
      BY <3>1, <3>3 DEF SaveInv
  <2> QED
    BY <2>1, <2>2
<1>15. CASE destroyAll \/ Crash
  BY <1>4, <1>15 DEF destroyAll, Crash
<1>16. CASE StepAppend
  <2>1. /\ strings' = strings /\ disk'.strings = disk.strings
        /\ (~thrown' => work'.strings = work.strings)
        /\ pass' = IF thrown' THEN NoPass ELSE pass
        /\ ~thrown /\ append # NotAppending
        /\ UNCHANGED <<apps, phase>>
    BY <1>1, <1>16, AppendDoes, AppendStepKeeps DEF StepAppend
  <2>2. CASE ~thrown'
    BY <1>2, <2>1, <2>2
  <2>3. CASE thrown' /\ pass.call = "open"
    <3>1. phase = "none"
      BY <1>16, <2>3, OpenCannotThrow DEF BaseInv, CallInv
    <3> QED
      BY <1>4, <2>1, <2>3, <3>1
  <2>4. CASE thrown' /\ pass.call # "open"
    <3>1. phase \notin {"none", "gone"}
      BY <2>1, <2>4 DEF BaseInv, CallInv, Teardown
    <3>2. CASE phase = "open"
      BY <1>1, <2>1, <2>4, <3>2, SaveOpen
    <3>3. CASE phase # "open"
      BY <1>1, <1>5, <2>1, <2>4, <3>1, <3>3
    <3> QED
      BY <3>2, <3>3
  <2> QED
    BY <2>2, <2>3, <2>4
<1>17. CASE UNCHANGED vars
  BY <1>2, <1>17 DEF vars, store, rest
<1> QED
  BY <1>6, <1>7, <1>8, <1>9, <1>10, <1>11, <1>12, <1>13, <1>14, <1>15, <1>16, <1>17
     DEF Next, Lifecycle

(* After postSimLoopTeardown() every string that was given an id has its row, whichever   *)
(* apps share the file and whoever serialized first (TinyStrings.hpp:83-121), unless the  *)
(* transaction was retried.                                                               *)
THEOREM StringsReachFile == Spec => []StringsSaved
<1>1. BaseInv /\ MarkInv /\ SaveInv /\ [Next]_vars => SaveInv'
  BY SaveStep
<1>2. SaveInv => StringsSaved
  BY DEF SaveInv
<1> QED
  BY SaveInit, <1>1, <1>2, BaseAlways, MarkAlways, PTL DEF Spec
--------------------------------------------------------------------------------
(***************************************************************************)
(* Schemas: what schema_ knows beyond the file is what the call under way  *)
(* has yet to bring there.                                                 *)
(***************************************************************************)
Names(S) == {t.name : t \in S}

Unique(S) == \A t, u \in S : t.name = u.name => t = u

Distinct(s) == \A i, j \in DOMAIN s : s[i].name = s[j].name => i = j

\* The memory of an AppManager counts while it exists and no exception has left it behind.
Live == ~thrown /\ (phase # "none" \/ pass.call = "open")

\* The schema createSchemas() appends for an app.
Asked(a) ==
    LET found == Found(a[1], ParsedInst(a[2])) IN
    IF found = {} THEN {}
    ELSE TablesOf(SchemaOf[a[1]][Factories(a[1])[CHOOSE i \in found : TRUE]])

AskedOf(S) == UNION {Asked(a) : a \in S}

StringsTodo ==
    \/ pass.call = "strings"
    \/ pass.call = "postTeardown" /\ \E a \in AppsIn(pass.todo) : a[1] \in StringUser

InAppend == IF append.at \in {"memory", "realize"} THEN TablesOf(append.schema) ELSE {}

\* What the call under way will still bring to the file.
Pending ==
    InAppend
      \cup (IF pass.call = "schemas" THEN AskedOf(AppsIn(pass.todo)) ELSE {})
      \cup (IF StringsTodo THEN TablesOf(StringTable) ELSE {})

\* What it would bring there after a retry.
Retryable ==
    (IF pass.call = "schemas" THEN AskedOf(DOMAIN apps) ELSE {})
      \cup (IF pass.call \in {"postTeardown", "strings"} /\ \E a \in DOMAIN apps : a[1] \in StringUser
            THEN TablesOf(StringTable) ELSE {})

\* A memory and a catalogue that differ between two appends of a call.
Unlisted ==
    \/ pass.call = "schemas" /\ pass.todo # <<>>
    \/ StringsTodo /\ StringTable[1].name \notin Names(work.tables)

\* By name, even when a crash tore the file.
NameInv ==
    /\ Names(disk.catalogue) \subseteq Names(disk.tables)
    /\ Unique(disk.catalogue)
    /\ append # NotAppending => Distinct(append.schema)
    /\ append # NotAppending /\ tx => TablesOf(append.schema) \subseteq Retryable
    /\ Live => /\ Unique(schema)
               /\ work.catalogue \subseteq schema /\ disk.catalogue \subseteq schema
               /\ Names(schema) \subseteq Names(work.tables) \cup Names(Pending)
               /\ tx => Names(schema) \subseteq Names(disk.tables) \cup Names(Retryable)

\* Table by table, when none did.
SetInv ==
    ~torn =>
        /\ tx \/ append.at # "serialize" => disk.tables = disk.catalogue
        /\ Live => /\ work.tables \subseteq schema /\ disk.tables \subseteq schema
                   /\ schema \subseteq work.tables \cup Pending
                   /\ tx => schema \subseteq disk.tables \cup Retryable
                   /\ append.at = "realize" => TablesOf(append.schema) \subseteq schema
                   /\ append = NotAppending /\ schema # work.catalogue => Unlisted

SchemaInv == NameInv /\ SetInv

LEMMA NamesOf ==
    ASSUME NEW S, NEW T
    PROVE  /\ Names(S \cup T) = Names(S) \cup Names(T)
           /\ S \subseteq T => Names(S) \subseteq Names(T)
           /\ Names({}) = {} /\ Unique({})
           /\ S \subseteq T /\ Unique(T) => Unique(S)
  BY DEF Names, Unique

LEMMA NothingInAppend ==
    ASSUME append = NotAppending
    PROVE  InAppend = {} /\ append.at = "done"
  BY DEF InAppend, NotAppending

\* A step that leaves the schemas alone and only goes on with the call.
LEMMA SchemaStays ==
    ASSUME BaseInv, SchemaInv,
           disk'.tables = disk.tables, disk'.catalogue = disk.catalogue,
           work'.tables = work.tables, work'.catalogue = work.catalogue,
           UNCHANGED <<schema, append, torn>>, append = NotAppending,
           Live' => Live,
           Live /\ Live' =>
               /\ Names(schema) \subseteq Names(work.tables) \cup Names(Pending')
               /\ ~torn => schema \subseteq work.tables \cup Pending'
               /\ ~torn /\ Unlisted => Unlisted' \/ schema = work.catalogue,
           tx' => (tx /\ Retryable \subseteq Retryable') \/ (~tx /\ Pending = {})
    PROVE  SchemaInv'
<1>1. append' = NotAppending /\ append.at = "done"
  BY NothingInAppend
<1>2. ~tx => work = disk
  BY DEF BaseInv, StoreInv
<1>3. ASSUME Live', tx', tx PROVE Names(schema) \subseteq Names(disk.tables) \cup Names(Retryable')
  <2>1. Names(Retryable) \subseteq Names(Retryable')
    BY <1>3 DEF Names
  <2> QED
    BY <1>3, <2>1 DEF SchemaInv, NameInv
<1>4. ASSUME Live', tx', ~tx PROVE Names(schema) \subseteq Names(disk.tables)
  <2>1. Names(Pending) = {}
    BY <1>4 DEF Names
  <2> QED
    BY <1>2, <1>4, <2>1 DEF SchemaInv, NameInv
<1>5. ASSUME Live', tx', ~torn PROVE schema \subseteq disk.tables \cup Retryable'
  BY <1>2, <1>5 DEF SchemaInv, SetInv
<1>6. NameInv'
  <2>1. Names(disk.catalogue)' = Names(disk.catalogue) /\ Names(disk.tables)' = Names(disk.tables)
        /\ Names(work.tables)' = Names(work.tables) /\ Names(schema)' = Names(schema)
        /\ Unique(disk.catalogue)' = Unique(disk.catalogue) /\ Unique(schema)' = Unique(schema)
    BY DEF Names, Unique
  <2>2. Names(Pending)' = Names(Pending') /\ Names(Retryable)' = Names(Retryable')
    BY DEF Names
  <2>3. ASSUME Live'
        PROVE  /\ Unique(schema)' /\ (work.catalogue \subseteq schema)'
               /\ (disk.catalogue \subseteq schema)'
               /\ (Names(schema) \subseteq Names(work.tables) \cup Names(Pending))'
    BY <2>1, <2>2, <2>3 DEF SchemaInv, NameInv
  <2>4. ASSUME Live', tx'
        PROVE  (Names(schema) \subseteq Names(disk.tables) \cup Names(Retryable))'
    BY <1>3, <1>4, <2>1, <2>2, <2>4
  <2>5. (Names(disk.catalogue) \subseteq Names(disk.tables))' /\ Unique(disk.catalogue)'
    BY <2>1 DEF SchemaInv, NameInv
  <2> QED
    BY <1>1, <2>3, <2>4, <2>5 DEF NameInv
<1>7. SetInv'
  <2>1. ASSUME ~torn' PROVE disk'.tables = disk'.catalogue
    BY <1>1, <2>1 DEF SchemaInv, SetInv
  <2>2. ASSUME ~torn', Live'
        PROVE  /\ (work.tables \subseteq schema)' /\ (disk.tables \subseteq schema)'
               /\ (schema \subseteq work.tables \cup Pending)'
               /\ (append = NotAppending /\ schema # work.catalogue => Unlisted)'
    BY <2>2 DEF SchemaInv, SetInv
  <2> QED
    BY <1>1, <1>5, <2>1, <2>2 DEF SetInv
<1> QED
  BY <1>6, <1>7 DEF SchemaInv

\* A step after which the memory does not count.
LEMMA SchemaDead ==
    ASSUME SchemaInv, disk' = disk, torn' = torn, append' = NotAppending, ~Live',
           append.at # "serialize"
    PROVE  SchemaInv'
<1>1. Names(disk.catalogue)' = Names(disk.catalogue) /\ Names(disk.tables)' = Names(disk.tables)
      /\ Unique(disk.catalogue)' = Unique(disk.catalogue)
  BY DEF Names, Unique
<1>2. NameInv'
  BY <1>1 DEF SchemaInv, NameInv
<1>3. SetInv'
  BY DEF SchemaInv, SetInv
<1> QED
  BY <1>2, <1>3 DEF SchemaInv

\* A step that begins to append a schema.
LEMMA SchemaAppend ==
    ASSUME BaseInv, SchemaInv, NEW s, append = NotAppending, append' = [schema |-> s, at |-> "memory"],
           UNCHANGED <<disk, work, tx, schema, thrown, torn>>,
           Distinct(s), Live' => Live, tx => TablesOf(s) \subseteq Retryable',
           Retryable \subseteq Retryable',
           Pending \subseteq Pending'
    PROVE  SchemaInv'
<1>1. append'.schema = s /\ append'.at = "memory" /\ append' # NotAppending
  BY DEF NotAppending
<1>2. append.at = "done"
  BY NothingInAppend
<1>3. NameInv'
  <2>1. Names(disk.catalogue)' = Names(disk.catalogue) /\ Names(disk.tables)' = Names(disk.tables)
        /\ Names(work.tables)' = Names(work.tables) /\ Names(schema)' = Names(schema)
        /\ Unique(disk.catalogue)' = Unique(disk.catalogue) /\ Unique(schema)' = Unique(schema)
    BY DEF Names, Unique
  <2>2. Names(Pending) \subseteq Names(Pending)' /\ Names(Retryable) \subseteq Names(Retryable)'
    BY DEF Names
  <2>3. Distinct(append.schema)' /\ (TablesOf(append.schema))' = TablesOf(s)
    BY <1>1 DEF Distinct, TablesOf
  <2> QED
    BY <1>1, <2>1, <2>2, <2>3 DEF SchemaInv, NameInv
<1>4. SetInv'
  BY <1>1, <1>2 DEF SchemaInv, SetInv
<1> QED
  BY <1>3, <1>4 DEF SchemaInv

\* The strings' table in the file is the one that is in schema_.
LEMMA StringTableIs ==
    /\ TablesOf(StringTable) = {StringTable[1]}
    /\ Names(TablesOf(StringTable)) = {StringTable[1].name}
    /\ Distinct(StringTable) /\ Distinct(Internal)
<1>1. DOMAIN StringTable = {1} /\ DOMAIN Internal = {1, 2}
  BY DEF StringTable, Internal
<1>2. Internal[1].name # Internal[2].name
  BY DEF Internal
<1> QED
  BY <1>1, <1>2 DEF TablesOf, Names, Distinct

LEMMA SchemaInit == Init => SchemaInv
<1> SUFFICES ASSUME Init PROVE SchemaInv
  OBVIOUS
<1>1. disk = Empty /\ append = NotAppending /\ ~Live /\ tx = FALSE
  BY Idle DEF Init, StoreInit, Live
<1>2. disk.catalogue = {} /\ disk.tables = {}
  BY <1>1 DEF Empty
<1> QED
  BY <1>1, <1>2, NamesOf DEF SchemaInv, NameInv, SetInv

LEMMA SchemaOpen ==
    ASSUME BaseInv, SchemaInv, NEW newDb \in BOOLEAN, createAppManager(newDb)
    PROVE  SchemaInv'
<1>1. append = NotAppending /\ ~tx /\ work = disk /\ append.at = "done"
  BY NothingInAppend DEF createAppManager, Quiet, BaseInv, StoreInv, PassInv
<1>2. [schema |-> Internal, at |-> "memory"] # NotAppending
  BY DEF NotAppending
<1>3. CASE OpenNew
  <2>1. /\ disk' = Empty /\ work' = Empty /\ tx' = FALSE /\ schema' = {}
        /\ append' = [schema |-> Internal, at |-> "memory"]
    BY <1>3 DEF OpenNew
  <2>2. disk'.catalogue = {} /\ disk'.tables = {} /\ work'.catalogue = {} /\ work'.tables = {}
        /\ append'.at = "memory" /\ append'.schema = Internal /\ append' # NotAppending
    BY <1>2, <2>1 DEF Empty
  <2>3. NameInv'
    <3>1. Names(disk.catalogue)' = {} /\ Names(schema)' = {} /\ Unique(disk.catalogue)'
          /\ Unique(schema)' /\ Distinct(append.schema)'
      BY <2>1, <2>2, StringTableIs DEF Names, Unique, Distinct
    <3> QED
      BY <2>1, <2>2, <3>1 DEF NameInv
  <2>4. SetInv'
    BY <2>1, <2>2 DEF SetInv
  <2> QED
    BY <2>3, <2>4 DEF SchemaInv
<1>4. CASE OpenExisting
  <2>1. /\ disk' = disk /\ work' = disk /\ tx' = FALSE /\ schema' = disk.catalogue /\ torn' = torn
        /\ append' \in {NotAppending, [schema |-> Internal, at |-> "memory"]}
    BY <1>4 DEF OpenExisting
  <2>2. append'.at \in {"done", "memory"} /\ (append' # NotAppending => append'.schema = Internal)
    BY <2>1 DEF NotAppending
  <2>3. NameInv'
    <3>1. /\ Names(disk.catalogue)' = Names(disk.catalogue)
          /\ Names(disk.tables)' = Names(disk.tables)
          /\ Names(work.tables)' = Names(disk.tables)
          /\ Names(schema)' = Names(disk.catalogue)
          /\ Unique(disk.catalogue)' = Unique(disk.catalogue)
          /\ Unique(schema)' = Unique(disk.catalogue)
      BY <2>1 DEF Names, Unique
    <3>2. (append # NotAppending => Distinct(append.schema))'
      BY <2>2, StringTableIs DEF Distinct
    <3> QED
      BY <2>1, <3>1, <3>2 DEF SchemaInv, NameInv
  <2>4. SetInv'
    BY <1>1, <2>1, <2>2 DEF SchemaInv, SetInv
  <2> QED
    BY <2>3, <2>4 DEF SchemaInv
<1> QED
  BY <1>3, <1>4 DEF createAppManager

\* What is left to bring when nothing appends.
LEMMA PendingIs ==
    ASSUME BaseInv
    PROVE  /\ append = NotAppending /\ pass.call \notin {"schemas", "postTeardown", "strings"}
                => Pending = {}
           /\ ~tx => Pending = InAppend
           /\ append = NotAppending /\ pass.todo = <<>> => Pending = {} /\ ~StringsTodo
<1>1. ~tx => pass.call \notin {"schemas", "postTeardown", "strings"}
  BY DEF BaseInv, PassInv
<1>2. pass.todo = <<>> => AppsIn(pass.todo) = {} /\ pass.call # "strings"
  BY Idle DEF BaseInv, CallInv
<1>3. AskedOf({}) = {}
  BY DEF AskedOf
<1> QED
  BY <1>1, <1>2, <1>3, NothingInAppend DEF Pending, StringsTodo

\* A retry: the file is as it was, and the call starts again.
LEMMA SchemaLocked ==
    ASSUME BaseInv, SchemaInv, FileLocked
    PROVE  SchemaInv'
<1> DEFINE c == IF pass.call = "strings" THEN "postTeardown" ELSE pass.call
<1>1. /\ tx /\ work' = disk /\ append' = NotAppending /\ disk' = disk /\ tx' = tx
      /\ schema' = schema /\ torn' = torn /\ thrown' = thrown /\ ~thrown
      /\ c \in {"schemas", "postInit", "postTeardown"}
      /\ c = "schemas" <=> pass.call = "schemas"
      /\ c = "postTeardown" <=> pass.call \in {"postTeardown", "strings"}
      /\ pass'.call = c /\ pass'.todo = WalkOf(c) /\ UNCHANGED <<apps, config, phase>>
      /\ phase # "none"
  BY DEF FileLocked, Retry, BaseInv, PassInv, CallInv, Teardown
<1> HIDE DEF c
<1>2. AppsIn(pass'.todo) = DOMAIN apps
  BY <1>1, WalkIs
<1>3. \A S : AskedOf(S)' = AskedOf(S)
  BY <1>1 DEF AskedOf, Asked, Found, Factories
<1>4. Live /\ Live'
  BY <1>1 DEF Live
<1>5. InAppend' = {} /\ append'.at = "done"
  BY <1>1 DEF InAppend, NotAppending
<1>6. StringsTodo' <=> (c = "postTeardown" /\ \E a \in DOMAIN apps : a[1] \in StringUser)
  BY <1>1, <1>2 DEF StringsTodo
<1>7. Pending' = Retryable
  <2>1. CASE c = "schemas"
    <3>1. AskedOf(AppsIn(pass.todo))' = AskedOf(DOMAIN apps)
      BY <1>2, <1>3
    <3> QED
      BY <1>1, <1>5, <1>6, <2>1, <3>1 DEF Pending, Retryable
  <2>2. CASE c # "schemas"
    BY <1>1, <1>5, <1>6, <2>2 DEF Pending, Retryable
  <2> QED
    BY <2>1, <2>2
<1>8. Retryable' = Retryable
  BY <1>1, <1>3 DEF Retryable
<1>9. NameInv'
  <2>1. Names(disk.catalogue)' = Names(disk.catalogue) /\ Names(disk.tables)' = Names(disk.tables)
        /\ Names(work.tables)' = Names(disk.tables) /\ Names(schema)' = Names(schema)
        /\ Unique(disk.catalogue)' = Unique(disk.catalogue) /\ Unique(schema)' = Unique(schema)
        /\ Names(Pending)' = Names(Retryable) /\ Names(Retryable)' = Names(Retryable)
    BY <1>1, <1>7, <1>8 DEF Names, Unique
  <2> QED
    BY <1>1, <1>4, <2>1 DEF SchemaInv, NameInv
<1>10. ASSUME ~torn, schema # disk.catalogue PROVE Unlisted'
  <2>1. /\ disk.tables = disk.catalogue /\ disk.tables \subseteq schema
        /\ schema \subseteq disk.tables \cup Retryable /\ Unique(schema)
    BY <1>1, <1>4, <1>10 DEF SchemaInv, SetInv, NameInv
  <2>2. PICK u \in schema : u \notin disk.tables /\ u \in Retryable
    BY <1>10, <2>1
  <2>3. CASE c = "schemas"
    <3>1. DOMAIN apps # {}
      BY <1>1, <2>2, <2>3 DEF Retryable, AskedOf
    <3>2. pass'.todo # <<>>
      BY <1>2, <3>1, Idle
    <3> QED
      BY <1>1, <2>3, <3>2 DEF Unlisted
  <2>4. CASE c # "schemas"
    <3>1. /\ c = "postTeardown" /\ \E a \in DOMAIN apps : a[1] \in StringUser
          /\ u = StringTable[1]
      BY <1>1, <2>2, <2>4, StringTableIs DEF Retryable
    <3>2. StringTable[1].name \notin Names(disk.tables)
      BY <2>1, <2>2, <3>1 DEF Names, Unique
    <3>3. StringTable[1].name \notin Names(work.tables)'
      BY <1>1, <3>2
    <3> QED
      BY <1>6, <3>1, <3>3 DEF Unlisted
  <2> QED
    BY <2>3, <2>4
<1>11. SetInv'
  BY <1>1, <1>4, <1>5, <1>7, <1>8, <1>10 DEF SchemaInv, SetInv
<1> QED
  BY <1>9, <1>11 DEF SchemaInv

\* A commit.
LEMMA SchemaCommit ==
    ASSUME BaseInv, SchemaInv, EndTransaction
    PROVE  /\ SchemaInv'
           /\ ~torn => work.tables = schema /\ disk.tables \subseteq schema
<1>1. /\ pass.todo = <<>> /\ append = NotAppending /\ tx /\ ~tx' /\ disk' = work /\ ~thrown
      /\ pass.call \in {"schemas", "postInit", "postTeardown"}
      /\ UNCHANGED <<work, torn, schema, append, thrown>>
  BY DEF EndTransaction, Commit, BaseInv, CallInv
<1>2. Live
  BY <1>1 DEF Live, BaseInv, CallInv, Teardown
<1>3. Pending = {} /\ ~StringsTodo
  BY <1>1, PendingIs
<1>4. ~Unlisted
  BY <1>1, <1>3 DEF Unlisted
<1>5. Names(schema) \subseteq Names(work.tables) /\ work.catalogue \subseteq schema /\ Unique(schema)
  BY <1>2, <1>3, NamesOf DEF SchemaInv, NameInv
<1>6. ~torn => /\ work.tables = schema /\ work.catalogue = schema
               /\ disk.tables \subseteq schema
  BY <1>1, <1>2, <1>3, <1>4 DEF SchemaInv, SetInv
<1>7. append.at = "done"
  BY <1>1, NothingInAppend
<1>8. NameInv'
  <2>1. Names(disk.catalogue)' = Names(work.catalogue) /\ Names(disk.tables)' = Names(work.tables)
        /\ Names(work.tables)' = Names(work.tables) /\ Names(schema)' = Names(schema)
        /\ Unique(disk.catalogue)' = Unique(work.catalogue) /\ Unique(schema)' = Unique(schema)
    BY <1>1 DEF Names, Unique
  <2>2. Names(work.catalogue) \subseteq Names(schema) /\ Unique(work.catalogue)
    BY <1>5, NamesOf
  <2> QED
    BY <1>1, <1>5, <2>1, <2>2 DEF NameInv
<1>9. SetInv'
  BY <1>1, <1>6, <1>7 DEF SetInv
<1> QED
  BY <1>6, <1>8, <1>9 DEF SchemaInv

\* The memory takes the schema in.
LEMMA SchemaRemember ==
    ASSUME BaseInv, SchemaInv, Live, Remember, ~thrown', UNCHANGED <<pass, apps, config, phase>>
    PROVE  SchemaInv'
<1> DEFINE s == append.schema
           T == TablesOf(append.schema)
<1>1. /\ Clashes(schema, s) = {} /\ schema' = Remembered(schema, s)
      /\ append' = [append EXCEPT !.at = "realize"] /\ append.at = "memory"
      /\ UNCHANGED <<disk, work, tx, strings, thrown, torn>>
  BY DEF Remember, Throw
<1>2. append'.at = "realize" /\ append'.schema = s /\ append # NotAppending /\ append' # NotAppending
  BY <1>1 DEF BaseInv, StoreInv, NotAppending
<1>3. schema' = schema \cup T
  BY <1>1 DEF Remembered, TablesOf
<1>4. InAppend = T /\ InAppend' = T
  BY <1>1, <1>2 DEF InAppend, TablesOf
<1>5. \A S : AskedOf(S)' = AskedOf(S)
  BY DEF AskedOf, Asked, Found, Factories
<1>6. Pending' = Pending /\ Retryable' = Retryable /\ T \subseteq Pending
  <2>1. StringsTodo' = StringsTodo
    BY DEF StringsTodo
  <2>2. AskedOf(AppsIn(pass.todo))' = AskedOf(AppsIn(pass.todo)) /\ AskedOf(DOMAIN apps)' = AskedOf(DOMAIN apps)
    BY <1>5
  <2> QED
    BY <1>4, <2>1, <2>2 DEF Pending, Retryable
<1>7. Live' <=> Live
  BY <1>1 DEF Live
<1>8. Unique(schema')
  <2>1. ASSUME NEW t \in T, NEW u \in T, t.name = u.name PROVE t = u
    BY <1>2, <2>1 DEF SchemaInv, NameInv, Distinct, TablesOf
  <2>2. ASSUME NEW t \in schema, NEW u \in T, t.name = u.name PROVE t = u
    BY <1>1, <2>2 DEF Clashes, Named, TablesOf
  <2>3. Unique(schema)
    BY DEF SchemaInv, NameInv
  <2> HIDE DEF T
  <2> QED
    BY <1>3, <2>1, <2>2, <2>3 DEF Unique
<1> HIDE DEF T
<1>9. Names(schema') = Names(schema) \cup Names(T) /\ Names(T) \subseteq Names(Pending)
      /\ (tx => Names(T) \subseteq Names(Retryable))
  <2>1. tx => T \subseteq Retryable
    BY <1>2 DEF SchemaInv, NameInv, T
  <2>2. Names(schema \cup T) = Names(schema) \cup Names(T)
    BY DEF Names
  <2>3. Names(T) \subseteq Names(Pending) /\ (tx => Names(T) \subseteq Names(Retryable))
    BY <1>6, <2>1 DEF Names
  <2> QED
    BY <1>3, <2>2, <2>3
<1>10. NameInv'
  <2>1. Names(disk.catalogue)' = Names(disk.catalogue) /\ Names(disk.tables)' = Names(disk.tables)
        /\ Names(work.tables)' = Names(work.tables) /\ Names(schema)' = Names(schema')
        /\ Unique(disk.catalogue)' = Unique(disk.catalogue) /\ Unique(schema)' = Unique(schema')
        /\ Names(Pending)' = Names(Pending) /\ Names(Retryable)' = Names(Retryable)
    BY <1>1, <1>6 DEF Names, Unique
  <2>2. Distinct(append.schema)' = Distinct(s) /\ TablesOf(append.schema)' = T
    BY <1>2 DEF Distinct, TablesOf, T
  <2> QED
    BY <1>1, <1>2, <1>3, <1>6, <1>7, <1>8, <1>9, <2>1, <2>2 DEF SchemaInv, NameInv, T
<1>11. SetInv'
  <2>1. tx => T \subseteq Retryable
    BY <1>2 DEF SchemaInv, NameInv, T
  <2>2. TablesOf(append.schema)' = T
    BY <1>2 DEF TablesOf, T
  <2> QED
    BY <1>1, <1>2, <1>3, <1>6, <1>7, <2>1, <2>2 DEF SchemaInv, SetInv
<1> QED
  BY <1>10, <1>11 DEF SchemaInv

\* The file takes the schema in.
LEMMA SchemaRealize ==
    ASSUME BaseInv, SchemaInv, Live, realizeSchema, ~thrown', UNCHANGED <<pass, apps, config, phase>>
    PROVE  SchemaInv'
<1> DEFINE s == append.schema
           T == TablesOf(append.schema)
           Made == Realized(work, append.schema).tables
<1>1. /\ ~IndexExists(work, s) /\ append.at = "realize"
      /\ Write(Realized(work, s)) /\ append' = [append EXCEPT !.at = "serialize"]
      /\ UNCHANGED <<tx, schema, strings, thrown, torn>>
  <2>1. View = work
    BY ViewTyped DEF BaseInv
  <2> QED
    BY <2>1 DEF realizeSchema, Throw
<1>2. append'.at = "serialize" /\ append'.schema = s /\ append # NotAppending /\ append' # NotAppending
  BY <1>1 DEF BaseInv, StoreInv, NotAppending
<1>3. /\ work \in FileType /\ disk \in FileType /\ (~tx => work = disk)
      /\ Realized(work, s).catalogue = work.catalogue
  <2>1. work \in FileType /\ disk \in FileType /\ (~tx => work = disk)
    BY DEF BaseInv, StoreInv
  <2>2. \A x : [work EXCEPT !.tables = x].catalogue = work.catalogue
    BY <2>1 DEF FileType
  <2> QED
    BY <2>1, <2>2 DEF Realized
<1> DEFINE Ix(t) == \E i \in DOMAIN s : s[i].name = t.name /\ s[i].indexed
           On(t) == [t EXCEPT !.indexed = @ \/ Ix(t)]
           New == {s[i] : i \in {j \in DOMAIN s : Named(work.tables, s[j].name) = {}}}
<1>4. Made = {On(t) : t \in work.tables} \cup New
  <2>1. \A x : [work EXCEPT !.tables = x].tables = x
    BY <1>3 DEF FileType
  <2> QED
    BY <2>1 DEF Realized
<1>5. \A t \in work.tables : On(t).name = t.name /\ (~Ix(t) => On(t) = t)
  <2>1. \A t \in work.tables :
          t = [name |-> t.name, columns |-> t.columns, indexed |-> t.indexed] /\ t.indexed \in BOOLEAN
    BY <1>3 DEF FileType, AnyTable
  <2> HIDE DEF Ix
  <2> QED
    BY <2>1
<1> HIDE DEF Made, On
<1>6. Names(work.tables) \cup Names(T) \subseteq Names(Made)
  <2>1. ASSUME NEW t \in work.tables PROVE t.name \in Names(Made)
    <3>1. On(t) \in Made /\ On(t).name = t.name
      BY <1>4, <1>5
    <3> QED
      BY <3>1 DEF Names
  <2>2. ASSUME NEW i \in DOMAIN s PROVE s[i].name \in Names(Made)
    <3>1. CASE Named(work.tables, s[i].name) = {}
      <4>1. s[i] \in Made
        BY <1>4, <3>1
      <4> QED
        BY <4>1 DEF Names
    <3>2. CASE Named(work.tables, s[i].name) # {}
      <4>1. PICK t \in work.tables : t.name = s[i].name
        BY <3>2 DEF Named
      <4> QED
        BY <2>1, <4>1
    <3> QED
      BY <3>1, <3>2
  <2> QED
    BY <2>1, <2>2 DEF Names, TablesOf
<1>7. ASSUME ~torn PROVE Made = work.tables \cup T
  <2>1. work.tables \subseteq schema /\ T \subseteq schema /\ Unique(schema)
    BY <1>1, <1>7 DEF SchemaInv, NameInv, SetInv
  <2>2. ASSUME NEW t \in work.tables, NEW i \in DOMAIN s, t.name = s[i].name
        PROVE  t = s[i] /\ ~s[i].indexed
    <3>1. s[i] \in T
      BY DEF TablesOf
    <3>2. t = s[i]
      BY <2>1, <2>2, <3>1 DEF Unique
    <3> QED
      BY <1>1, <2>2, <3>2 DEF IndexExists, Named
  <2>3. \A t \in work.tables : On(t) = t
    BY <1>5, <2>2
  <2>4. T \subseteq New \cup work.tables
    <3>1. ASSUME NEW i \in DOMAIN s, Named(work.tables, s[i].name) # {} PROVE s[i] \in work.tables
      BY <2>2, <3>1 DEF Named
    <3> QED
      BY <3>1 DEF TablesOf
  <2>5. New \subseteq T
    BY DEF TablesOf
  <2> HIDE DEF New
  <2> QED
    BY <1>4, <2>3, <2>4, <2>5
<1> HIDE DEF New, Ix
<1>8. InAppend = T /\ InAppend' = {}
  BY <1>1, <1>2 DEF InAppend
<1>9. \A S : AskedOf(S)' = AskedOf(S)
  BY DEF AskedOf, Asked, Found, Factories
<1> HIDE DEF T
<1>10. Retryable' = Retryable
  <2>1. AskedOf(DOMAIN apps)' = AskedOf(DOMAIN apps)
    BY <1>9
  <2> QED
    BY <2>1 DEF Retryable
<1>11. /\ work'.tables = Made /\ work'.catalogue = work.catalogue
       /\ IF tx THEN disk' = disk ELSE disk'.tables = Made /\ disk'.catalogue = disk.catalogue
  BY <1>1, <1>3 DEF Write, Made
<1>12. Pending \subseteq Pending' \cup T
  <2>1. AskedOf(AppsIn(pass.todo))' = AskedOf(AppsIn(pass.todo))
    BY <1>9
  <2>2. \/ StringTable[1].name \notin Names(work.tables)'
        \/ StringTable[1].name \in Names(work.tables)'
    OBVIOUS
  <2>3. StringsTodo' = StringsTodo
    BY DEF StringsTodo
  <2> QED
    BY <1>8, <2>1, <2>3 DEF Pending
<1>13. Live' <=> Live
  BY <1>1 DEF Live
<1>14. NameInv'
  <2>1. /\ Names(disk.catalogue)' = Names(disk.catalogue)
        /\ Names(disk.tables) \subseteq Names(disk.tables)'
        /\ Names(work.tables)' = Names(Made) /\ Names(schema)' = Names(schema)
        /\ Unique(disk.catalogue)' = Unique(disk.catalogue) /\ Unique(schema)' = Unique(schema)
        /\ Names(Retryable)' = Names(Retryable)
    <3>1. Names(disk.tables) \subseteq Names(Made) \/ tx
      BY <1>3, <1>6
    <3>2. Names(disk.tables)' = IF tx THEN Names(disk.tables) ELSE Names(Made)
      BY <1>11 DEF Names
    <3>3. disk'.catalogue = disk.catalogue
      BY <1>11
    <3> QED
      BY <1>1, <1>10, <1>11, <3>1, <3>2, <3>3 DEF Names, Unique
  <2>2. Names(Pending) \subseteq Names(Pending)' \cup Names(T)
    BY <1>12 DEF Names
  <2>3. Distinct(append.schema)' = Distinct(s) /\ TablesOf(append.schema)' = T
    BY <1>2 DEF Distinct, TablesOf, T
  <2>4. tx => T \subseteq Retryable
    BY <1>2 DEF SchemaInv, NameInv, T
  <2>5. Names(schema)' \subseteq Names(work.tables)' \cup Names(Pending)'
    <3>1. Names(schema) \subseteq Names(work.tables) \cup Names(Pending)
      BY DEF SchemaInv, NameInv
    <3> QED
      BY <1>6, <2>1, <2>2, <3>1
  <2>6. tx => Names(schema) \subseteq Names(disk.tables) \cup Names(Retryable)
    BY DEF SchemaInv, NameInv
  <2>7. work'.catalogue \subseteq schema /\ disk'.catalogue \subseteq schema
    BY <1>11 DEF SchemaInv, NameInv
  <2> QED
    BY <1>1, <1>2, <1>10, <2>1, <2>3, <2>4, <2>5, <2>6, <2>7 DEF SchemaInv, NameInv
<1>15. SetInv'
  <2>1. ASSUME ~torn
        PROVE  /\ work'.tables \subseteq schema
               /\ schema \subseteq work'.tables \cup Pending'
               /\ disk'.tables \subseteq schema
               /\ tx => /\ disk' = disk /\ disk.tables = disk.catalogue
                        /\ schema \subseteq disk.tables \cup Retryable
    <3>1. /\ T \subseteq schema /\ work.tables \subseteq schema /\ disk.tables \subseteq schema
          /\ schema \subseteq work.tables \cup Pending
          /\ tx => /\ disk.tables = disk.catalogue
                   /\ schema \subseteq disk.tables \cup Retryable
      BY <1>1, <2>1 DEF SchemaInv, SetInv, T
    <3>2. Made = work.tables \cup T
      BY <1>7, <2>1
    <3> QED
      BY <1>11, <1>12, <3>1, <3>2
  <2> QED
    BY <1>1, <1>2, <1>10, <2>1 DEF SetInv
<1> QED
  BY <1>14, <1>15 DEF SchemaInv

\* The catalogue takes the schema in.
LEMMA SchemaSerialize ==
    ASSUME BaseInv, SchemaInv, Live, serializeSchema, UNCHANGED <<pass, apps, config, phase>>
    PROVE  SchemaInv'
<1>1. /\ append.at = "serialize" /\ Write([work EXCEPT !.catalogue = schema])
      /\ append' = NotAppending /\ UNCHANGED <<tx, schema, strings, thrown, torn>>
  <2>1. View = work
    BY ViewTyped DEF BaseInv
  <2> QED
    BY <2>1 DEF serializeSchema
<1>2. work \in FileType /\ disk \in FileType /\ (~tx => work = disk)
  BY DEF BaseInv, StoreInv
<1>3. /\ work'.tables = work.tables /\ work'.catalogue = schema
      /\ disk'.tables = disk.tables
      /\ IF tx THEN disk'.catalogue = disk.catalogue ELSE disk'.catalogue = schema
  <2>1. /\ [work EXCEPT !.catalogue = schema].tables = work.tables
        /\ [work EXCEPT !.catalogue = schema].catalogue = schema
    BY <1>2 DEF FileType
  <2> QED
    BY <1>1, <1>2, <2>1 DEF Write
<1>4. InAppend = {} /\ InAppend' = {} /\ append'.at = "done"
  BY <1>1 DEF InAppend, NotAppending
<1>5. \A S : AskedOf(S)' = AskedOf(S)
  BY DEF AskedOf, Asked, Found, Factories
<1>6. Pending' = Pending /\ Retryable' = Retryable
  <2>1. StringsTodo' = StringsTodo
    BY DEF StringsTodo
  <2>2. AskedOf(AppsIn(pass.todo))' = AskedOf(AppsIn(pass.todo)) /\ AskedOf(DOMAIN apps)' = AskedOf(DOMAIN apps)
    BY <1>5
  <2> QED
    BY <1>4, <2>1, <2>2 DEF Pending, Retryable
<1>7. ~tx => Pending = {}
  BY <1>4, PendingIs
<1>8. Live' <=> Live
  BY <1>1 DEF Live
<1>9. NameInv'
  <2>1. /\ Names(disk.catalogue)' = Names(IF tx THEN disk.catalogue ELSE schema)
        /\ Unique(disk.catalogue)' = Unique(IF tx THEN disk.catalogue ELSE schema)
        /\ Names(disk.tables)' = Names(disk.tables) /\ Names(work.tables)' = Names(work.tables)
        /\ Names(schema)' = Names(schema) /\ Unique(schema)' = Unique(schema)
        /\ Names(Pending)' = Names(Pending) /\ Names(Retryable)' = Names(Retryable)
    BY <1>1, <1>3, <1>6 DEF Names, Unique
  <2>2. ~tx => Names(schema) \subseteq Names(disk.tables)
    BY <1>2, <1>7, NamesOf DEF SchemaInv, NameInv
  <2>3. disk'.catalogue \subseteq schema
    BY <1>3 DEF SchemaInv, NameInv
  <2>4. (Names(disk.catalogue) \subseteq Names(disk.tables))' /\ Unique(disk.catalogue)'
    BY <2>1, <2>2 DEF SchemaInv, NameInv
  <2> QED
    BY <1>1, <1>3, <2>1, <2>3, <2>4 DEF SchemaInv, NameInv
<1>10. SetInv'
  <2>1. ASSUME ~torn, ~tx PROVE disk'.tables = schema
    BY <1>2, <1>3, <1>7, <2>1 DEF SchemaInv, SetInv
  <2> QED
    BY <1>1, <1>3, <1>4, <1>6, <1>8, <2>1 DEF SchemaInv, SetInv
<1> QED
  BY <1>9, <1>10 DEF SchemaInv

\* A step that leaves the schemas alone while no call has any to bring.
LEMMA SchemaIdle ==
    ASSUME BaseInv, SchemaInv,
           disk'.tables = disk.tables, disk'.catalogue = disk.catalogue,
           work'.tables = work.tables, work'.catalogue = work.catalogue,
           UNCHANGED <<schema, append, torn>>, append = NotAppending,
           Live' => Live, pass.call \notin {"schemas", "postTeardown", "strings"}
    PROVE  SchemaInv'
<1>1. Pending = {} /\ ~Unlisted /\ Retryable = {}
  BY PendingIs DEF Unlisted, StringsTodo, Retryable
<1>2. ASSUME Live
      PROVE  /\ Names(schema) \subseteq Names(work.tables)
             /\ ~torn => schema \subseteq work.tables
  BY <1>1, <1>2, NamesOf DEF SchemaInv, NameInv, SetInv
<1> QED
  BY <1>1, <1>2, SchemaStays

\* The strings' rows are written.
LEMMA SchemaInsert ==
    ASSUME BaseInv, SchemaInv, NEW o \in Owner, InsertStrings(o), ~thrown', pass.call = "strings",
           pass' = [Next1 EXCEPT !.call = "postTeardown"], UNCHANGED <<apps, config, phase>>
    PROVE  SchemaInv'
<1>1. /\ append = NotAppending /\ tx /\ View = work /\ work \in FileType
      /\ Named(work.tables, StringTable[1].name) # {}
  BY ViewTyped DEF InsertStrings, Throw, BaseInv, StoreInv, PassInv
<1>2. /\ Write([work EXCEPT !.strings = @ \cup ({o} \X strings[o].unserialized)])
      /\ UNCHANGED <<tx, schema, append, thrown, torn>>
  BY <1>1 DEF InsertStrings
<1>3. /\ disk' = disk /\ work'.tables = work.tables /\ work'.catalogue = work.catalogue
      /\ tx' /\ (Live' <=> Live)
  <2>1. \A x : /\ [work EXCEPT !.strings = x].tables = work.tables
               /\ [work EXCEPT !.strings = x].catalogue = work.catalogue
    BY <1>1 DEF FileType
  <2> QED
    BY <1>1, <1>2, <2>1 DEF Write, Live
<1>4. pass'.call = "postTeardown"
  BY DEF Next1, BaseInv, PassInv
<1>5. Pending = {StringTable[1]} /\ StringTable[1].name \in Names(work.tables)
  BY <1>1, NothingInAppend, StringTableIs DEF Pending, StringsTodo, Named, Names
<1>6. ~Unlisted
  BY <1>5 DEF Unlisted
<1>7. Retryable' = Retryable
  BY <1>4 DEF Retryable
<1>8. ASSUME Live
      PROVE  /\ Names(schema) \subseteq Names(work.tables)
             /\ ~torn => schema \subseteq work.tables
  <2>1. /\ Names(schema) \subseteq Names(work.tables) \cup Names(Pending) /\ Unique(schema)
        /\ ~torn => work.tables \subseteq schema /\ schema \subseteq work.tables \cup Pending
    BY <1>8 DEF SchemaInv, NameInv, SetInv
  <2>2. Names(Pending) = {StringTable[1].name}
    BY <1>5 DEF Names
  <2>3. PICK t \in work.tables : t.name = StringTable[1].name
    BY <1>5 DEF Names
  <2>4. ~torn /\ StringTable[1] \in schema => StringTable[1] \in work.tables
    BY <2>1, <2>3 DEF Unique
  <2> QED
    BY <1>5, <2>1, <2>2, <2>4
<1> QED
  BY <1>1, <1>2, <1>3, <1>6, <1>7, <1>8, SchemaStays

\* A hook is called.
LEMMA SchemaHook ==
    ASSUME BaseInv, SchemaInv, CallHook
    PROVE  SchemaInv'
<1>1. /\ append = NotAppending /\ ~thrown /\ pass.call \in Hook /\ pass.todo # <<>>
      /\ UNCHANGED <<tx, schema, append, thrown, torn, config, apps, phase>>
      /\ work \in FileType /\ disk \in FileType /\ View = work /\ pass.todo \in Seq(AppId)
      /\ pass.call # "preTeardown" <=> tx
  BY ViewTyped DEF CallHook, BaseInv, CallInv, StoreInv, PassInv, Hook
<1>2. /\ disk' = disk /\ work'.tables = work.tables /\ work'.catalogue = work.catalogue
  <2>1. \A x : /\ [work EXCEPT !.rows = x].tables = work.tables
               /\ [work EXCEPT !.rows = x].catalogue = work.catalogue
    BY <1>1 DEF FileType
  <2>2. CASE pass.call = "preTeardown"
    BY <2>2 DEF CallHook
  <2>3. CASE pass.call # "preTeardown"
    BY <1>1, <2>1, <2>3 DEF CallHook, Write
  <2> QED
    BY <2>2, <2>3
<1>3. Live' <=> Live
  <2>1. pass.call # "open" /\ pass'.call # "open"
    BY <1>1 DEF CallHook, Hook, Next1, BaseInv, PassInv
  <2> QED
    BY <1>1, <2>1 DEF Live
<1>4. CASE pass.call # "postTeardown"
  BY <1>1, <1>2, <1>3, <1>4, SchemaIdle DEF Hook
<1>5. CASE pass.call = "postTeardown"
  <2>1. AppsIn(pass.todo) = {Head(pass.todo)} \cup AppsIn(Tail(pass.todo))
    BY <1>1, WalkPop
  <2>2. /\ pass'.call \in {"postTeardown", "strings"}
        /\ Head(pass.todo)[1] \in StringUser => pass'.call = "strings"
        /\ Head(pass.todo)[1] \notin StringUser =>
               pass'.call = "postTeardown" /\ pass'.todo = Tail(pass.todo)
    BY <1>1, <1>5 DEF CallHook, Next1, BaseInv, PassInv
  <2>3. StringsTodo => StringsTodo'
    BY <1>5, <2>1, <2>2 DEF StringsTodo
  <2>4. Pending \subseteq Pending' /\ Retryable' = Retryable
    <3>1. InAppend = {}
      BY <1>1, NothingInAppend
    <3> QED
      BY <1>1, <1>5, <2>2, <2>3, <3>1 DEF Pending, Retryable
  <2>5. Unlisted => Unlisted'
    BY <1>2, <1>5, <2>2, <2>3 DEF Unlisted
  <2>6. Names(Pending) \subseteq Names(Pending')
    BY <2>4 DEF Names
  <2>7. ASSUME Live
        PROVE  /\ Names(schema) \subseteq Names(work.tables) \cup Names(Pending)
               /\ ~torn => schema \subseteq work.tables \cup Pending
    BY <2>7 DEF SchemaInv, NameInv, SetInv
  <2>8. tx
    BY <1>1, <1>5
  <2> QED
    BY <1>1, <1>2, <1>3, <2>4, <2>5, <2>6, <2>7, <2>8, SchemaStays
<1> QED
  BY <1>4, <1>5

\* An app's schema is asked for.
LEMMA SchemaAsked ==
    ASSUME BaseInv, SchemaInv, AppendAppSchema
    PROVE  SchemaInv'
<1> DEFINE a == Head(pass.todo)
           found == Found(a[1], ParsedInst(a[2]))
           s == SchemaOf[a[1]][Factories(a[1])[CHOOSE i \in found : TRUE]]
<1>1. /\ pass.call = "schemas" /\ pass.todo # <<>> /\ append = NotAppending /\ tx
      /\ pass.todo \in Seq(AppId) /\ AppsIn(pass.todo) \subseteq DOMAIN apps
      /\ UNCHANGED <<config, apps, phase>> /\ phase = "apps"
  BY DEF AppendAppSchema, BaseInv, PassInv, CallInv
<1>2. /\ a \in AppId /\ AppsIn(pass.todo) = {a} \cup AppsIn(Tail(pass.todo))
  BY <1>1, WalkPop
<1>3. a[1] \in Kind /\ a \in DOMAIN apps
  BY <1>1, <1>2, AppIdParts
<1>4. CASE found = {}
  <2>1. Throw /\ ~Live'
    BY <1>4 DEF AppendAppSchema, Throw, Live
  <2> QED
    BY <1>1, <2>1, NothingInAppend, SchemaDead DEF Throw
<1>5. CASE found # {}
  <2>1. appendSchema(s) /\ pass' = Next1 /\ UNCHANGED <<disk, work, tx, schema, strings, thrown, torn>>
    BY <1>5 DEF AppendAppSchema
  <2>2. Asked(a) = TablesOf(s)
    BY <1>5 DEF Asked
  <2>3. Distinct(s)
    <3>1. (CHOOSE i \in found : TRUE) \in DOMAIN Factories(a[1])
      BY <1>5, FoundIs
    <3>2. Factories(a[1])[CHOOSE i \in found : TRUE] \in Arg
      BY <1>3, <3>1, FactoriesTyped DEF BaseInv
    <3>3. ASSUME NEW k \in Kind, NEW b \in Arg PROVE Distinct(SchemaOf[k][b])
      <4> DEFINE z == SchemaOf[k][b]
                 Z == UserSchema \cup {SchemaOf[h][c] : h \in Kind, c \in Arg}
      <4>1. z \in Z
        OBVIOUS
      <4>2. \A y \in Z : Distinct(y)
        <5> HIDE DEF z
        <5> QED
          BY AppsAssumption DEF Distinct
      <4> HIDE DEF z, Z
      <4>3. Distinct(z)
        BY <4>1, <4>2
      <4> QED
        BY <4>3 DEF z
    <3> HIDE DEF found
    <3> QED
      BY <1>3, <3>2, <3>3
  <2> HIDE DEF s, found
  <2>4. append' = [schema |-> s, at |-> "memory"] /\ InAppend' = TablesOf(s)
    <3>1. append' = [schema |-> s, at |-> "memory"]
      BY <2>1 DEF appendSchema
    <3>2. append'.at = "memory" /\ append'.schema = s
      BY <3>1
    <3> QED
      BY <3>1, <3>2 DEF InAppend, TablesOf
  <2>5. pass'.call = "schemas" /\ pass'.todo = Tail(pass.todo)
    BY <1>1, <2>1 DEF Next1, BaseInv, PassInv
  <2>6. Asked(a) \subseteq AskedOf(DOMAIN apps)
    BY <1>3 DEF AskedOf
  <2> HIDE DEF a
  <2>7. \A S : AskedOf(S)' = AskedOf(S)
    BY <1>1 DEF AskedOf, Asked, Found, Factories
  <2>8. AskedOf(DOMAIN apps)' = AskedOf(DOMAIN apps)
        /\ AskedOf(AppsIn(pass.todo))' = AskedOf(AppsIn(Tail(pass.todo)))
    <3>1. AskedOf(AppsIn(pass.todo))' = AskedOf(AppsIn(pass'.todo))
      BY <2>7
    <3>2. AskedOf(DOMAIN apps)' = AskedOf(DOMAIN apps')
      BY <2>7
    <3> QED
      BY <1>1, <2>5, <3>1, <3>2
  <2>9. Retryable' = Retryable /\ TablesOf(s) \subseteq Retryable
    BY <1>1, <2>2, <2>5, <2>6, <2>8 DEF Retryable
  <2>10. Pending \subseteq Pending'
    <3>1. AskedOf(AppsIn(pass.todo)) \subseteq Asked(a) \cup AskedOf(AppsIn(Tail(pass.todo)))
      BY <1>2 DEF AskedOf
    <3>2. InAppend = {} /\ ~StringsTodo
      BY <1>1, NothingInAppend DEF StringsTodo
    <3> QED
      BY <1>1, <2>2, <2>4, <2>5, <2>8, <3>1, <3>2 DEF Pending
  <2>11. Live' => Live
    BY <1>1, <2>1 DEF Live
  <2> QED
    BY <1>1, <2>1, <2>3, <2>4, <2>9, <2>10, <2>11, SchemaAppend
<1> QED
  BY <1>4, <1>5

\* The three steps of appendSchema().
LEMMA SchemaStepAppend ==
    ASSUME BaseInv, SchemaInv, StepAppend
    PROVE  SchemaInv'
<1>1. /\ append # NotAppending /\ ~thrown
      /\ thrown' => append' = NotAppending
  BY AppendStepKeeps DEF StepAppend, BaseInv
<1>2. Live
  BY <1>1 DEF Live, BaseInv, CallInv, Teardown
<1>3. UNCHANGED <<apps, config, phase>> /\ pass' = IF thrown' THEN NoPass ELSE pass
  BY DEF StepAppend
<1>4. CASE thrown'
  <2>1. disk' = disk /\ torn' = torn /\ append.at # "serialize"
    BY <1>1, <1>4 DEF StepAppend, AppendStep, Remember, realizeSchema, serializeSchema, Throw
  <2> QED
    BY <1>1, <1>4, <2>1, SchemaDead DEF Live
<1>5. CASE ~thrown'
  BY <1>2, <1>3, <1>5, SchemaRemember, SchemaRealize, SchemaSerialize DEF StepAppend, AppendStep
<1> QED
  BY <1>4, <1>5

\* The strings of an app are saved.
LEMMA SchemaSave ==
    ASSUME BaseInv, SchemaInv, SaveStrings
    PROVE  SchemaInv'
<1>1. /\ pass.call = "strings" /\ pass.todo # <<>> /\ Head(pass.todo)[1] \in StringUser
      /\ pass.todo \in Seq(AppId) /\ AppsIn(pass.todo) \subseteq DOMAIN apps
      /\ tx /\ ~thrown /\ UNCHANGED <<apps, config, phase>>
      /\ phase # "none"
  BY DEF SaveStrings, BaseInv, PassInv, CallInv, Teardown
<1>2. Head(pass.todo) \in DOMAIN apps /\ Head(pass.todo) \in Owner
  <2>1. Head(pass.todo) \in AppsIn(pass.todo) /\ Head(pass.todo) \in AppId
    BY <1>1, WalkPop
  <2> QED
    BY <1>1, <2>1, AppsAssumption
<1>3. CASE AppendStringTable /\ UNCHANGED pass
  <2>1. /\ append = NotAppending /\ append' = [schema |-> StringTable, at |-> "memory"]
        /\ UNCHANGED <<disk, work, tx, schema, strings, thrown, torn>>
    BY <1>3 DEF AppendStringTable, appendSchema
  <2>2. Retryable' = Retryable /\ TablesOf(StringTable) \subseteq Retryable
    BY <1>1, <1>2, <1>3 DEF Retryable
  <2>3. Pending \subseteq Pending'
    <3>1. InAppend = {}
      BY <2>1, NothingInAppend
    <3> QED
      BY <1>1, <1>3, <3>1 DEF Pending, StringsTodo
  <2>4. Live' => Live
    BY <1>1, <1>3, <2>1 DEF Live
  <2> QED
    BY <2>1, <2>2, <2>3, <2>4, StringTableIs, SchemaAppend
<1>4. CASE /\ InsertStrings(Head(pass.todo))
           /\ pass' = IF thrown' THEN NoPass ELSE [Next1 EXCEPT !.call = "postTeardown"]
  <2>1. CASE thrown'
    <3>1. /\ disk' = disk /\ torn' = torn /\ append' = NotAppending /\ append = NotAppending
      BY <1>1, <1>4, <2>1 DEF InsertStrings, Throw
    <3> QED
      BY <2>1, <3>1, NothingInAppend, SchemaDead DEF Live
  <2>2. CASE ~thrown'
    <3>1. PICK o \in Owner : o = Head(pass.todo)
      BY <1>2
    <3> QED
      BY <1>1, <1>4, <2>2, <3>1, SchemaInsert
  <2> QED
    BY <2>1, <2>2
<1> QED
  BY <1>3, <1>4 DEF SaveStrings

\* The process dies.
LEMMA SchemaCrash ==
    ASSUME BaseInv, SchemaInv, Crash
    PROVE  SchemaInv'
<1>1. /\ disk' = disk /\ work' = disk /\ append' = NotAppending /\ thrown' = thrown /\ tx' = FALSE
      /\ torn' = (torn \/ (~tx /\ append.at = "serialize"))
      /\ ~Live'
  BY Idle DEF Crash, StoreCrash, Live
<1>2. NameInv'
  <2>1. Names(disk.catalogue)' = Names(disk.catalogue) /\ Names(disk.tables)' = Names(disk.tables)
        /\ Unique(disk.catalogue)' = Unique(disk.catalogue)
    BY <1>1 DEF Names, Unique
  <2> QED
    BY <1>1, <2>1 DEF SchemaInv, NameInv
<1>3. SetInv'
  BY <1>1 DEF SchemaInv, SetInv
<1> QED
  BY <1>2, <1>3 DEF SchemaInv

LEMMA SchemaStep ==
    ASSUME BaseInv, SchemaInv, [Next]_vars
    PROVE  SchemaInv'
<1>1. /\ NoPass.call = "none"
      /\ work \in FileType /\ disk \in FileType /\ (~tx => work = disk)
      /\ thrown => append = NotAppending
      /\ tx <=> pass.call \in {"schemas", "postInit", "postTeardown", "strings"}
  BY Idle DEF BaseInv, StoreInv, PassInv
<1>2. ASSUME UNCHANGED <<disk, work, schema, append, torn>>, append = NotAppending,
             Live' => Live, pass.call \notin {"schemas", "postTeardown", "strings"}
      PROVE  SchemaInv'
  BY <1>2, SchemaIdle
<1>3. CASE Configure
  <2>1. CASE RegisterAll
    <3>1. UNCHANGED <<disk, work, schema, append, torn>> /\ append = NotAppending /\ Live
          /\ pass.call = "open"
      BY <2>1 DEF RegisterAll, Live
    <3> QED
      BY <1>2, <3>1
  <2>2. ASSUME NEW s \in UserSchema, AppendUserSchema(s) PROVE SchemaInv'
    <3>1. /\ append = NotAppending /\ append' = [schema |-> s, at |-> "memory"] /\ ~tx
          /\ UNCHANGED <<disk, work, tx, schema, thrown, torn>> /\ UNCHANGED rest
          /\ pass.call = "none"
      BY <1>1, <2>2 DEF AppendUserSchema, appendSchema, Configuring, Quiet
    <3>2. Distinct(s)
      BY AppsAssumption DEF Distinct
    <3>3. Pending = {} /\ Retryable = {} /\ (Live' => Live)
      BY <3>1, PendingIs DEF Retryable, Live, rest
    <3> QED
      BY <3>1, <3>2, <3>3, SchemaAppend
  <2>3. CASE Configure /\ ~RegisterAll /\ ~(\E newDb \in BOOLEAN : createAppManager(newDb))
             /\ ~(\E s \in UserSchema : AppendUserSchema(s))
    <3>1. /\ UNCHANGED <<disk, work, schema, append, torn, thrown, phase, pass>>
          /\ append = NotAppending /\ pass.call = "none"
      BY <2>3 DEF Configure, registerApp, enableApp, parameterizeAppFactory, Quiet,
         parameterizeAppFactoryInstance, setAppOrderingForHooks, Configured, Configuring, store
    <3>2. Live' <=> Live
      BY <3>1 DEF Live
    <3> QED
      BY <1>2, <3>1, <3>2
  <2> QED
    BY <1>3, <2>1, <2>2, <2>3, SchemaOpen
<1>4. CASE \/ createEnabledApps \/ initializePipelines \/ openPipelines
           \/ \E a \in AppId : CollectString(a)
  <2>1. /\ UNCHANGED <<disk, work, schema, append, torn, thrown, pass>>
        /\ append = NotAppending /\ pass.call = "none" /\ phase # "none"
    BY <1>4 DEF createEnabledApps, initializePipelines, openPipelines, CollectString, getStringID,
       Quiet, store, rest
  <2>2. Live' => Live
    BY <2>1 DEF Live
  <2> QED
    BY <1>2, <2>1, <2>2
<1>5. CASE createSchemas \/ postInit \/ postSimLoopTeardown \/ EndPreTeardown
  <2>1. /\ disk' = disk /\ work' \in {disk, work} /\ UNCHANGED <<schema, append, torn, thrown, phase>>
        /\ append = NotAppending /\ pass.call \in {"none", "preTeardown"} /\ phase # "none" /\ ~thrown
    BY <1>1, <1>5 DEF createSchemas, postInit, postSimLoopTeardown, EndPreTeardown, Begin, StartHooks,
       Quiet, BaseInv, CallInv, Teardown
  <2>2. work' = work
    BY <1>1, <2>1
  <2>3. Live
    BY <2>1 DEF Live
  <2> QED
    BY <1>2, <2>1, <2>2, <2>3
<1>6. CASE HookThrows \/ destroyAll
  <2>1. append' = NotAppending /\ append = NotAppending /\ disk' = disk /\ torn' = torn /\ ~Live'
    BY <1>1, <1>6 DEF HookThrows, destroyAll, Throw, Quiet, Live, BaseInv, CallInv, Hook
  <2> QED
    BY <2>1, NothingInAppend, SchemaDead
<1>7. CASE UNCHANGED vars
  <2>1. SchemaInv' <=> SchemaInv
    <3>1. UNCHANGED <<disk, work, tx, schema, append, thrown, torn, config, apps, phase, pass>>
      BY <1>7 DEF vars, store, rest
    <3>2. \A S : AskedOf(S)' = AskedOf(S)
      BY <3>1 DEF AskedOf, Asked, Found, Factories
    <3>3. AskedOf(DOMAIN apps)' = AskedOf(DOMAIN apps)
          /\ AskedOf(AppsIn(pass.todo))' = AskedOf(AppsIn(pass.todo))
      BY <3>1, <3>2
    <3>4. StringsTodo' <=> StringsTodo
      BY <3>1 DEF StringsTodo
    <3>5. InAppend' = InAppend
      BY <3>1 DEF InAppend, TablesOf
    <3>6. Pending' = Pending /\ Retryable' = Retryable /\ (Live' <=> Live) /\ (Unlisted' <=> Unlisted)
      BY <3>1, <3>3, <3>4, <3>5 DEF Pending, Retryable, Live, Unlisted, Names
    <3>7. /\ Names(disk.catalogue)' = Names(disk.catalogue) /\ Names(disk.tables)' = Names(disk.tables)
          /\ Names(work.tables)' = Names(work.tables) /\ Names(schema)' = Names(schema)
          /\ Unique(disk.catalogue)' = Unique(disk.catalogue) /\ Unique(schema)' = Unique(schema)
          /\ Names(Pending)' = Names(Pending) /\ Names(Retryable)' = Names(Retryable)
          /\ Distinct(append.schema)' = Distinct(append.schema)
          /\ TablesOf(append.schema)' = TablesOf(append.schema)
      BY <3>1, <3>6 DEF Names, Unique, Distinct, TablesOf
    <3>8. NameInv' <=> NameInv
      BY <3>1, <3>6, <3>7 DEF NameInv
    <3>9. SetInv' <=> SetInv
      BY <3>1, <3>6, <3>7 DEF SetInv
    <3> QED
      BY <3>8, <3>9 DEF SchemaInv
  <2> QED
    BY <2>1
<1> QED
  BY <1>3, <1>4, <1>5, <1>6, <1>7, SchemaCommit, SchemaHook, SchemaAsked, SchemaSave,
     SchemaStepAppend, SchemaLocked, SchemaCrash DEF Next, Lifecycle

LEMMA SchemaAlways == Spec => [](BaseInv /\ SchemaInv)
<1>1. BaseInv /\ SchemaInv /\ [Next]_vars => SchemaInv'
  BY SchemaStep
<1> QED
  BY SchemaInit, BaseAlways, <1>1, PTL DEF Spec

(* Between calls schema_, the catalogue and the tables of the file agree, and a catalogue *)
(* never lists a table the file lacks (DatabaseManager.hpp:105-161, Connection.hpp:       *)
(* 114-136): whatever schemas the apps declare, and however often a transaction that      *)
(* appends one finds the file locked or ends in an exception.                             *)
THEOREM SchemasAgree == Spec => []CopiesAgree
<1>1. ASSUME BaseInv, SchemaInv PROVE CopiesAgree
  <2>1. ASSUME ~tx, append = NotAppending, schema # {}, ~thrown, ~torn
        PROVE  disk.catalogue = schema /\ disk.tables = schema
    <3>1. Live /\ append.at = "done" /\ work = disk
      BY <1>1, <2>1, NothingInAppend DEF Live, BaseInv, StoreInv, PassInv, CallInv, Teardown, Hook
    <3>2. Pending = {} /\ ~Unlisted
      BY <2>1, PendingIs, <1>1 DEF Unlisted, StringsTodo, BaseInv, PassInv
    <3> QED
      BY <1>1, <2>1, <3>1, <3>2 DEF SchemaInv, SetInv
  <2>2. ASSUME NEW t \in disk.catalogue PROVE Named(disk.tables, t.name) # {}
    BY <1>1 DEF SchemaInv, NameInv, Names, Named
  <2> QED
    BY <2>1, <2>2 DEF CopiesAgree
<1> QED
  BY SchemaAlways, <1>1, PTL
--------------------------------------------------------------------------------
(***************************************************************************)
(* Tables: what the apps were asked for is in schema_ when createSchemas() *)
(* has come to them, and in the file from its commit on.                   *)
(***************************************************************************)
Declared == phase \in {"schemas", "inited", "piped", "open"}

ReadyInv ==
    ~torn /\ Live =>
        /\ pass.call = "schemas" =>
               \A a \in DOMAIN apps :
                   a \in AppsIn(pass.todo) \/ Asked(a) \subseteq schema \cup InAppend
        /\ Declared => \A a \in DOMAIN apps : Asked(a) \subseteq disk.tables

LEMMA ReadyInit == Init => ReadyInv
  BY Idle DEF Init, ReadyInv, Live

\* A step after which no app has been asked.
LEMMA ReadyNot ==
    ASSUME pass'.call # "schemas", ~Declared'
    PROVE  ReadyInv'
  BY DEF ReadyInv

\* A step that keeps what is in the file.
LEMMA ReadyStays ==
    ASSUME ReadyInv, UNCHANGED <<apps, config, torn>>, Live' => Live, ~torn => disk.tables \subseteq disk'.tables,
           Declared' => Declared,
           Live /\ Live' /\ ~torn /\ pass'.call = "schemas" =>
               \A a \in DOMAIN apps :
                   a \in AppsIn(pass'.todo) \/ Asked(a) \subseteq schema' \cup InAppend'
    PROVE  ReadyInv'
<1>1. \A a : Asked(a)' = Asked(a)
  BY DEF Asked, Found, Factories
<1>2. ASSUME Live', ~torn, pass'.call = "schemas", NEW a \in DOMAIN apps
      PROVE  a \in AppsIn(pass'.todo) \/ Asked(a) \subseteq schema' \cup InAppend'
  BY <1>2
<1>3. ASSUME Live', ~torn, Declared', NEW a \in DOMAIN apps
      PROVE  Asked(a) \subseteq disk'.tables
  BY <1>3 DEF ReadyInv
<1>4. (AppsIn(pass.todo))' = AppsIn(pass'.todo)
  BY DEF AppsIn
<1> QED
  BY <1>1, <1>2, <1>3, <1>4 DEF ReadyInv

\* A commit.
LEMMA ReadyCommit ==
    ASSUME BaseInv, SchemaInv, ReadyInv, EndTransaction
    PROVE  ReadyInv'
<1>1. /\ pass.todo = <<>> /\ append = NotAppending /\ disk' = work /\ ~thrown
      /\ pass.call \in {"schemas", "postInit", "postTeardown"}
      /\ UNCHANGED <<torn, schema, append, thrown, config>>
      /\ pass'.call = "none"
      /\ phase # "none"
  BY DEF EndTransaction, Commit, Finish, NoPass, BaseInv, CallInv, Teardown
<1>2. Live
  BY <1>1 DEF Live
<1>3. ~torn => work.tables = schema /\ disk.tables \subseteq schema
  BY SchemaCommit
<1>4. \A a : Asked(a)' = Asked(a)
  BY <1>1 DEF Asked, Found, Factories
<1>5. InAppend = {} /\ AppsIn(pass.todo) = {}
  BY <1>1, NothingInAppend, Idle
<1>6. CASE pass.call = "postTeardown"
  <2>1. phase' = "gone"
    BY <1>6 DEF EndTransaction
  <2> QED
    BY <1>1, <2>1, ReadyNot DEF Declared
<1>7. CASE pass.call \in {"schemas", "postInit"}
  <2>1. apps' = apps
    BY <1>7 DEF EndTransaction
  <2>2. pass.call = "postInit" => Declared
    BY DEF Declared, BaseInv, CallInv
  <2>3. ASSUME ~torn, NEW a \in DOMAIN apps PROVE Asked(a) \subseteq disk'.tables
    <3>1. Asked(a) \subseteq schema
      BY <1>2, <1>3, <1>5, <1>7, <2>2, <2>3 DEF ReadyInv
    <3> QED
      BY <1>1, <1>3, <2>3, <3>1
  <2> QED
    BY <1>1, <1>4, <2>1, <2>3 DEF ReadyInv
<1> QED
  BY <1>1, <1>6, <1>7

\* A step of appendSchema().
LEMMA ReadyAppend ==
    ASSUME BaseInv, SchemaInv, ReadyInv, StepAppend
    PROVE  ReadyInv'
<1>1. /\ append # NotAppending /\ ~thrown /\ AppendStep
      /\ ~thrown' => tx' = tx
  BY AppendStepKeeps DEF StepAppend, BaseInv
<1>2. Live
  BY <1>1 DEF Live, BaseInv, CallInv, Teardown
<1>3. /\ UNCHANGED <<apps, config, phase>> /\ pass' = IF thrown' THEN NoPass ELSE pass
      /\ NoPass.call = "none"
  BY Idle DEF StepAppend
<1>4. CASE ~Declared /\ pass.call # "schemas"
  BY <1>3, <1>4, ReadyNot DEF Declared
<1>5. CASE Declared \/ pass.call = "schemas"
  <2>1. tx
    BY <1>1, <1>5 DEF Declared, BaseInv, PassInv, CallInv
  <2>2. disk' = disk /\ torn' = torn
    BY <1>1, <2>1 DEF AppendStep, Remember, realizeSchema, serializeSchema, Throw, Write
  <2>3. CASE thrown'
    BY <1>3, <2>3 DEF Live, ReadyInv
  <2>4. CASE ~thrown'
    <3>1. pass' = pass
      BY <1>3, <2>4
    <3>2. Declared' <=> Declared
      BY <1>3 DEF Declared
    <3>3. ~torn => schema \cup InAppend \subseteq schema' \cup InAppend'
      <4>1. CASE Remember
        <5>1. schema \subseteq schema' /\ append'.at = "realize" /\ append'.schema = append.schema
          BY <2>4, <4>1 DEF Remember, Remembered, Throw, BaseInv, StoreInv
        <5>2. InAppend' = InAppend
          BY <4>1, <5>1 DEF InAppend, TablesOf, Remember
        <5> QED
          BY <5>1, <5>2
      <4>2. CASE realizeSchema
        <5>1. schema' = schema /\ append.at = "realize"
          BY <4>2 DEF realizeSchema
        <5>2. ~torn => TablesOf(append.schema) \subseteq schema
          BY <1>2, <5>1 DEF SchemaInv, SetInv
        <5> QED
          BY <5>1, <5>2 DEF InAppend
      <4>3. CASE serializeSchema
        BY <4>3 DEF serializeSchema, InAppend
      <4> QED
        BY <1>1, <4>1, <4>2, <4>3 DEF AppendStep
    <3>4. ASSUME ~torn, pass'.call = "schemas", NEW a \in DOMAIN apps
          PROVE  a \in AppsIn(pass'.todo) \/ Asked(a) \subseteq schema' \cup InAppend'
      BY <1>2, <3>1, <3>3, <3>4 DEF ReadyInv
    <3> QED
      BY <1>2, <1>3, <2>2, <3>2, <3>4, ReadyStays
  <2> QED
    BY <2>3, <2>4
<1> QED
  BY <1>4, <1>5

\* An app is asked for its schema.
LEMMA ReadyAsked ==
    ASSUME BaseInv, ReadyInv, AppendAppSchema
    PROVE  ReadyInv'
<1> DEFINE h == Head(pass.todo)
           found == Found(h[1], ParsedInst(h[2]))
           s == SchemaOf[h[1]][Factories(h[1])[CHOOSE i \in found : TRUE]]
<1>1. /\ pass.call = "schemas" /\ pass.todo # <<>> /\ append = NotAppending
      /\ pass.todo \in Seq(AppId) /\ UNCHANGED <<config, apps, phase>> /\ phase = "apps"
      /\ pass \in [call : Hook \cup {"none", "open", "schemas", "strings"},
                   todo : Seq(AppId), busy : 0 .. MaxBusy]
      /\ NoPass.call = "none"
  BY Idle DEF AppendAppSchema, BaseInv, PassInv, CallInv
<1>2. AppsIn(pass.todo) = {h} \cup AppsIn(Tail(pass.todo))
  BY <1>1, WalkPop
<1>3. ~Declared'
  BY <1>1 DEF Declared
<1>4. CASE found = {}
  BY <1>1, <1>3, <1>4, ReadyNot DEF AppendAppSchema
<1>5. CASE found # {}
  <2>1. appendSchema(s) /\ pass' = Next1 /\ UNCHANGED <<disk, work, tx, schema, strings, thrown, torn>>
    BY <1>5 DEF AppendAppSchema
  <2>2. Asked(h) = TablesOf(s)
    BY <1>5 DEF Asked
  <2> HIDE DEF s, found
  <2>3. InAppend' = TablesOf(s)
    <3>1. append' = [schema |-> s, at |-> "memory"]
      BY <2>1 DEF appendSchema
    <3>2. append'.at = "memory" /\ append'.schema = s
      BY <3>1
    <3> QED
      BY <3>2 DEF InAppend, TablesOf
  <2>4. pass'.call = "schemas" /\ pass'.todo = Tail(pass.todo)
    BY <1>1, <2>1 DEF Next1
  <2>5. Live' => Live
    BY <1>1, <2>1 DEF Live
  <2>6. InAppend = {}
    BY <1>1, NothingInAppend
  <2> HIDE DEF h
  <2>7. ASSUME Live, ~torn, NEW a \in DOMAIN apps
        PROVE  a \in AppsIn(pass'.todo) \/ Asked(a) \subseteq schema' \cup InAppend'
    BY <1>1, <1>2, <2>1, <2>2, <2>3, <2>4, <2>6, <2>7 DEF ReadyInv
  <2> QED
    BY <1>1, <1>3, <2>1, <2>5, <2>7, ReadyStays
<1> QED
  BY <1>4, <1>5

LEMMA ReadyStep ==
    ASSUME BaseInv, SchemaInv, ReadyInv, [Next]_vars
    PROVE  ReadyInv'
<1>1. NoPass.call = "none" /\ BaseInv'
  BY Idle, BaseStep
<1>2. ASSUME pass'.call # "schemas", phase' \notin {"schemas", "inited", "piped", "open"}
      PROVE  ReadyInv'
  BY <1>2, ReadyNot DEF Declared
<1>3. ASSUME UNCHANGED <<apps, config, torn, schema>>, Live' => Live, disk'.tables = disk.tables,
             Declared' => Declared, pass'.call = "schemas" => AppsIn(pass'.todo) = DOMAIN apps
      PROVE  ReadyInv'
  BY <1>3, ReadyStays
<1>4. CASE Configure
  <2>1. pass'.call # "schemas"
    BY <1>1, <1>4 DEF Configure, registerApp, createAppManager, RegisterAll, enableApp,
       parameterizeAppFactory, parameterizeAppFactoryInstance, setAppOrderingForHooks,
       AppendUserSchema, Configured, Configuring, Quiet, rest, NoPass
  <2>2. CASE phase' \in {"schemas", "inited", "piped", "open"}
    <3>1. \E k \in Kind : registerApp(k)
      BY <1>4, <2>2 DEF Configure, createAppManager, RegisterAll, enableApp,
         parameterizeAppFactory, parameterizeAppFactoryInstance, setAppOrderingForHooks,
         AppendUserSchema, Configured, Configuring, Quiet, rest
    <3>2. UNCHANGED <<apps, config, torn, schema, disk, phase, pass, thrown>>
      BY <3>1 DEF registerApp, store
    <3> QED
      BY <1>3, <2>1, <3>2 DEF Live, Declared
  <2> QED
    BY <1>2, <2>1, <2>2
<1>5. CASE createEnabledApps
  BY <1>2, <1>5 DEF createEnabledApps, Quiet, store
<1>6. CASE createSchemas
  <2>1. AppsIn(pass'.todo) = DOMAIN apps
    BY <1>6, StartTyped DEF createSchemas
  <2>2. UNCHANGED <<apps, config, torn, schema, disk, phase, thrown>> /\ phase = "apps"
    BY <1>6 DEF createSchemas, Begin
  <2> QED
    BY <1>3, <2>1, <2>2 DEF Declared, Live
<1>7. CASE FileLocked
  <2>1. /\ UNCHANGED <<apps, config, torn, schema, disk, phase, thrown>>
        /\ pass.call # "open" /\ ~thrown /\ phase # "none"
    BY <1>7 DEF FileLocked, Retry, BaseInv, PassInv, CallInv, Teardown
  <2>2. AppsIn(pass'.todo) = DOMAIN apps
    BY <1>7, WalkIs DEF FileLocked
  <2> QED
    BY <1>3, <2>1, <2>2 DEF Declared, Live
<1>8. CASE postInit \/ postSimLoopTeardown \/ EndPreTeardown \/ initializePipelines \/ openPipelines
           \/ \E a \in AppId : CollectString(a)
  <2>1. /\ UNCHANGED <<apps, config, torn, schema, disk, thrown>> /\ pass'.call # "schemas"
        /\ phase # "none"
    BY <1>8 DEF postInit, postSimLoopTeardown, EndPreTeardown, initializePipelines, openPipelines,
       CollectString, getStringID, Begin, StartHooks, Start, Quiet, store, rest, BaseInv, CallInv, Teardown
  <2>2. Declared' => Declared
    BY <1>8 DEF postInit, postSimLoopTeardown, EndPreTeardown, initializePipelines, openPipelines,
       CollectString, StartHooks, Declared, rest
  <2>3. Live' => Live
    BY <2>1 DEF Live
  <2> QED
    BY <1>3, <2>1, <2>2, <2>3
<1>9. CASE CallHook
  <2>1. /\ UNCHANGED <<apps, config, torn, schema, phase, thrown>> /\ pass'.call # "schemas"
        /\ pass.call \in Hook
    BY <1>9 DEF CallHook, Next1, Hook, BaseInv, PassInv
  <2>2. disk' = disk
    BY <1>9, <2>1 DEF CallHook, Write, Hook, BaseInv, PassInv
  <2>3. (Live' => Live) /\ (Declared' => Declared)
    BY <2>1 DEF Live, Hook, Declared, BaseInv, CallInv, Teardown
  <2> QED
    BY <1>3, <2>1, <2>2, <2>3
<1>10. CASE SaveStrings
  <2>1. /\ UNCHANGED <<apps, config, torn, schema, phase>> /\ pass'.call # "schemas"
        /\ pass.call = "strings" /\ tx
    BY <1>1, <1>10 DEF SaveStrings, AppendStringTable, InsertStrings, Throw, Next1, BaseInv, PassInv
  <2>2. disk' = disk
    BY <1>10, <2>1 DEF SaveStrings, AppendStringTable, InsertStrings, Throw, Write
  <2>3. (Live' => Live) /\ (Declared' => Declared)
    BY <2>1 DEF Live, Declared, BaseInv, CallInv, Teardown
  <2> QED
    BY <1>3, <2>1, <2>2, <2>3
<1>11. CASE HookThrows
  <2>1. /\ UNCHANGED <<apps, config, torn, schema, disk, phase>> /\ pass'.call = "none" /\ ~Live'
    BY <1>1, <1>11 DEF HookThrows, Throw, Live
  <2> QED
    BY <2>1 DEF ReadyInv
<1>12. CASE destroyAll \/ Crash
  BY <1>1, <1>2, <1>12 DEF destroyAll, Crash
<1>13. CASE UNCHANGED vars
  <2>1. UNCHANGED <<apps, config, torn, schema, append, disk, phase, pass, thrown>>
    BY <1>13 DEF vars, store, rest
  <2>2. InAppend' = InAppend
    BY <2>1 DEF InAppend, TablesOf
  <2> QED
    BY <2>1, <2>2, ReadyStays DEF Live, Declared, ReadyInv
<1> QED
  BY <1>4, <1>5, <1>6, <1>7, <1>8, <1>9, <1>10, <1>11, <1>12, <1>13,
     ReadyCommit, ReadyAppend, ReadyAsked DEF Next, Lifecycle

(* From the commit of createSchemas() until the teardown, however often it was retried,   *)
(* every table an app declared is in the file as it was declared                          *)
(* (AppManager.hpp:487-505); an app with a factory of its own is excepted (:494).         *)
THEOREM TablesAreReady == Spec => []TablesReady
<1>1. BaseInv /\ SchemaInv /\ ReadyInv /\ [Next]_vars => ReadyInv'
  BY ReadyStep
<1>2. ASSUME BaseInv, ReadyInv PROVE TablesReady
  <2>1. SUFFICES ASSUME Declared, ~thrown, ~torn, NEW a \in DOMAIN apps,
                        0 \in DOMAIN Factories(a[1]), apps[a] = Factories(a[1])[0]
                 PROVE  TablesOf(SchemaOf[a[1]][apps[a]]) \subseteq disk.tables
    BY DEF TablesReady, Declared
  <2>2. Live
    BY <2>1 DEF Live, Declared
  <2>3. a \in AppId /\ a[1] \in Kind /\ a[2] \in Inst /\ MaxInst \in Nat
    BY <1>2, AppIdParts DEF BaseInv, AppsInv
  <2>4. MaxInst \notin DOMAIN Factories(a[1])
    BY <1>2, <2>3, FactoriesTyped DEF BaseInv, Inst
  <2>5. Found(a[1], ParsedInst(a[2])) = {0}
    BY <2>1, <2>4 DEF Found, ParsedInst
  <2>6. Asked(a) = TablesOf(SchemaOf[a[1]][apps[a]])
    <3>1. (CHOOSE i \in {0} : TRUE) = 0
      OBVIOUS
    <3> QED
      BY <2>1, <2>5, <3>1 DEF Asked
  <2> QED
    BY <1>2, <2>1, <2>2, <2>6 DEF ReadyInv
<1> QED
  BY ReadyInit, SchemaAlways, <1>1, <1>2, PTL DEF Spec
================================================================================
