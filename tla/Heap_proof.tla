------------------------------ MODULE Heap_proof ------------------------------
(***************************************************************************)
(* _malloc and _free for a heap of any size and any sequence of requests.  *)
(* A list is followed step by step, by the function Chain; what holds of   *)
(* its steps is shown by the first step that breaks it.                    *)
(***************************************************************************)
EXTENDS Heap, FiniteSetTheorems, NaturalsInduction, TLAPS
-----------------------------------------------------------------------------
\* A set of natural numbers has a first element.
LEMMA First ==
  ASSUME NEW T, T \subseteq Nat, T # {}
  PROVE  \E x \in T : \A y \in T : x <= y
<1>1. PICK x \in T : \A y \in T : ~(<<y, x>> \in OpToRel(<, Nat))
  BY NatLessThanWellFounded, WFMin
<1>2. \A y \in T : ~(y < x)
  BY <1>1 DEF OpToRel
<1> QED
  BY <1>2

\* Min, by which the loops of the model stop, is that element.
LEMMA MinIsFirst ==
  ASSUME NEW T, T \subseteq Nat, T # {}
  PROVE  Min(T) \in T /\ \A y \in T : Min(T) <= y
BY First DEF Min

\* A set of numbers up to n has a last one.
LEMMA LastOf ==
  ASSUME NEW T, NEW n \in Nat, T \subseteq 0 .. n, T # {}
  PROVE  \E x \in T : \A y \in T : y <= x
<1> DEFINE U == {n - y : y \in T}
<1>1. U \subseteq Nat /\ U # {}
  <2>1. PICK x \in T : TRUE
    OBVIOUS
  <2>2. n - x \in U
    BY <2>1
  <2> QED
    BY <2>2
<1>2. PICK u \in U : \A v \in U : u <= v
  BY <1>1, First
<1>3. PICK x \in T : u = n - x
  OBVIOUS
<1>4. \A y \in T : u <= n - y
  BY <1>2
<1> QED
  BY <1>3, <1>4

\* The division that counts the units of a request.
LEMMA Division ==
  ASSUME NEW x \in Nat, NEW u \in Nat \ {0}
  PROVE  x \div u \in Nat /\ u * (x \div u) <= x /\ x < u * (x \div u) + u
OBVIOUS

\* What Chain defines,
Follows(at, m, from) == at = [k \in Nat |-> IF k = 0 THEN from ELSE m[at[k - 1]].ptr]

\* exists: otherwise there is a first number of steps that no function follows.
LEMMA ChainExists ==
  ASSUME NEW m, NEW from
  PROVE  \E at : Follows(at, m, from)
<1> DEFINE P(g, n) == g = [k \in 0 .. n |-> IF k = 0 THEN from ELSE m[g[k - 1]].ptr]
           Missing == {n \in Nat : \A g : ~P(g, n)}
<1>0. ASSUME NEW n \in Nat, NEW g, P(g, n), NEW k \in 0 .. n
      PROVE  g[k] = IF k = 0 THEN from ELSE m[g[k - 1]].ptr
  <2> DEFINE e == [i \in 0 .. n |-> IF i = 0 THEN from ELSE m[g[i - 1]].ptr]
  <2>1. e[k] = IF k = 0 THEN from ELSE m[g[k - 1]].ptr
    OBVIOUS
  <2>2. g = e
    BY <1>0, Zenon
  <2> QED
    BY <2>1, <2>2, Zenon
<1>1. \A n \in Nat : \E g : P(g, n)
  <2> SUFFICES ASSUME Missing # {} PROVE FALSE
    OBVIOUS
  <2>0. Missing \subseteq Nat
    OBVIOUS
  <2>1. PICK n \in Missing : \A y \in Missing : n <= y
    BY <2>0, First
  <2>2. n \in Nat /\ \A g : ~P(g, n)
    BY <2>1, Zenon
  <2>3. n # 0
    <3> SUFFICES ASSUME n = 0 PROVE FALSE
      OBVIOUS
    <3> DEFINE g == [k \in 0 .. 0 |-> from]
    <3>1. P(g, 0)
      OBVIOUS
    <3> QED
      BY <3>1, <2>2, Zenon
  <2>4. n - 1 \in Nat /\ n - 1 \notin Missing
    <3> HIDE DEF Missing
    <3> QED
      BY <2>1, <2>2, <2>3
  <2>5. PICK g : P(g, n - 1)
    BY <2>4, Zenon
  <2> DEFINE h == [k \in 0 .. n |-> IF k = 0 THEN from ELSE m[g[k - 1]].ptr]
  <2>6. ASSUME NEW k \in 0 .. n - 1 PROVE h[k] = g[k]
    <3>1. g[k] = IF k = 0 THEN from ELSE m[g[k - 1]].ptr
      BY <1>0, <2>4, <2>5, Zenon
    <3>2. h[k] = IF k = 0 THEN from ELSE m[g[k - 1]].ptr
      BY <2>4
    <3> QED
      BY <3>1, <3>2, Zenon
  <2>7. ASSUME NEW k \in 0 .. n PROVE h[k] = IF k = 0 THEN from ELSE m[h[k - 1]].ptr
    <3>1. h[k] = IF k = 0 THEN from ELSE m[g[k - 1]].ptr
      OBVIOUS
    <3>2. k # 0 => k - 1 \in 0 .. n - 1
      BY <2>2
    <3> HIDE DEF h
    <3> QED
      BY <3>1, <3>2, <2>6
  <2>8. P(h, n)
    <3> DEFINE e == [k \in 0 .. n |-> IF k = 0 THEN from ELSE m[h[k - 1]].ptr]
    <3>1. \A k \in 0 .. n : h[k] = e[k]
      BY <2>7, Zenon
    <3>2. h = e
      BY <3>1
    <3> QED
      BY <3>2, Zenon
  <2> QED
    BY <2>8, <2>2, Zenon
<1>3. ASSUME NEW i \in Nat, NEW j \in Nat, NEW g, NEW h, P(g, i), P(h, j)
      PROVE  \A k \in Nat : k <= i /\ k <= j => g[k] = h[k]
  <2> DEFINE Differ == {k \in Nat : k <= i /\ k <= j /\ g[k] # h[k]}
  <2> SUFFICES ASSUME Differ # {} PROVE FALSE
    OBVIOUS
  <2>0. Differ \subseteq Nat
    OBVIOUS
  <2>1. PICK k \in Differ : \A y \in Differ : k <= y
    BY <2>0, First
  <2>a. k \in 0 .. i /\ k \in 0 .. j
    BY <2>1
  <2>2. g[k] = IF k = 0 THEN from ELSE m[g[k - 1]].ptr
    BY <1>0, <1>3, <2>a, Zenon
  <2>3. h[k] = IF k = 0 THEN from ELSE m[h[k - 1]].ptr
    BY <1>0, <1>3, <2>a, Zenon
  <2>4. k # 0
    BY <2>1, <2>2, <2>3
  <2>5. k - 1 \in Nat /\ k - 1 \notin Differ
    BY <2>1, <2>4
  <2>6. g[k - 1] = h[k - 1]
    BY <2>a, <2>5
  <2> QED
    BY <2>1, <2>2, <2>3, <2>6
<1> DEFINE G(n) == CHOOSE g : P(g, n)
           at == [k \in Nat |-> G(k)[k]]
<1>4. \A n \in Nat : P(G(n), n)
  BY <1>1, Zenon
<1> HIDE DEF G, P
<1>5. ASSUME NEW k \in Nat PROVE at[k] = IF k = 0 THEN from ELSE m[at[k - 1]].ptr
  <2>1. G(k)[k] = IF k = 0 THEN from ELSE m[G(k)[k - 1]].ptr
    <3>1. P(G(k), k) /\ k \in 0 .. k
      BY <1>4
    <3> QED
      BY <3>1, <1>0, Zenon
  <2>2. CASE k = 0
    BY <2>1, <2>2
  <2>3. CASE k # 0
    <3>1. k - 1 \in Nat /\ k - 1 <= k /\ k - 1 <= k - 1
      BY <2>3
    <3>2. P(G(k), k) /\ P(G(k - 1), k - 1)
      BY <1>4, <3>1, Zenon
    <3>3. G(k)[k - 1] = G(k - 1)[k - 1]
      BY <3>1, <3>2, <1>3
    <3>4. at[k] = G(k)[k] /\ at[k - 1] = G(k - 1)[k - 1]
      BY <3>1, Zenon
    <3> QED
      BY <2>1, <2>3, <3>3, <3>4, Zenon
  <2> QED
    BY <2>2, <2>3
<1> HIDE DEF at
<1>6. at = [k \in Nat |-> IF k = 0 THEN from ELSE m[at[k - 1]].ptr]
  <2> DEFINE e == [k \in Nat |-> IF k = 0 THEN from ELSE m[at[k - 1]].ptr]
  <2>1. \A k \in Nat : at[k] = e[k]
    BY <1>5, Zenon
  <2>2. DOMAIN at = Nat /\ at = [k \in Nat |-> at[k]]
    BY DEF at
  <2> HIDE DEF e
  <2>3. [k \in Nat |-> at[k]] = [k \in Nat |-> e[k]]
    BY <2>1
  <2> QED
    BY <2>2, <2>3 DEF e
<1> QED
  BY <1>6, Zenon DEF Follows

\* From a block one comes to the one that its header names.
LEMMA ChainSteps ==
  ASSUME NEW m, NEW from
  PROVE  /\ Chain(m, from)[0] = from
         /\ \A k \in Nat : Chain(m, from)[k + 1] = m[Chain(m, from)[k]].ptr
<1> DEFINE at == Chain(m, from)
<1>1. at = [k \in Nat |-> IF k = 0 THEN from ELSE m[at[k - 1]].ptr]
  <2>1. at = CHOOSE f : Follows(f, m, from)
    BY DEF Chain, Follows
  <2> HIDE DEF at
  <2>2. Follows(at, m, from)
    BY <2>1, ChainExists, Zenon
  <2> QED
    BY <2>2 DEF Follows
<1> HIDE DEF at
<1>2. at[0] = from
  BY <1>1
<1>3. ASSUME NEW k \in Nat PROVE at[k + 1] = m[at[k]].ptr
  <2>1. k + 1 \in Nat /\ k + 1 # 0 /\ (k + 1) - 1 = k
    OBVIOUS
  <2> QED
    BY <1>1, <2>1
<1> QED
  BY <1>2, <1>3 DEF at
-----------------------------------------------------------------------------
\* The headers, the sentinel, and the list in the order of the addresses of F.
Headers(m) == DOMAIN m \subseteq Addr /\ \A a \in DOMAIN m : m[a] \in Header

Sentinel(m, F) == Base \in F /\ m[Base].size = 0

Sorted(m, F) ==
  \A a \in F : /\ m[a].ptr \in F
               /\ \/ a < m[a].ptr /\ \A b \in F : b <= a \/ m[a].ptr <= b
                  \/ m[a].ptr = Base /\ \A b \in F : b <= a

\* The loops over the list have a bounded number of steps.
LEMMA HeapIsFinite ==
  ASSUME NEW m, Headers(m)
  PROVE  IsFiniteSet(DOMAIN m) /\ Cardinality(DOMAIN m) \in Nat
<1>1. IsFiniteSet(Addr)
  BY FS_Interval, HeapAssumption DEF Addr
<1>2. IsFiniteSet(DOMAIN m)
  BY <1>1, FS_Subset DEF Headers
<1> QED
  BY <1>2, FS_CardinalityType

\* Following the list one stays on it.
LEMMA StaysOnList ==
  ASSUME NEW m, NEW F, Base \in F, Sorted(m, F)
  PROVE  \A k \in Nat : Chain(m, Base)[k] \in F
<1> DEFINE at == Chain(m, Base)
           Off == {k \in Nat : at[k] \notin F}
<1>1. at[0] = Base /\ \A k \in Nat : at[k + 1] = m[at[k]].ptr
  BY ChainSteps
<1> HIDE DEF at
<1> SUFFICES ASSUME Off # {} PROVE FALSE
  BY DEF at
<1>2. Off \subseteq Nat
  OBVIOUS
<1>3. PICK k \in Off : \A j \in Off : k <= j
  BY <1>2, First
<1>4. k \in Nat /\ at[k] \notin F /\ k # 0
  BY <1>1, <1>3
<1>5. k - 1 \in Nat /\ at[k - 1] \in F
  BY <1>3, <1>4
<1>6. at[(k - 1) + 1] = m[at[k - 1]].ptr
  BY <1>1, <1>5
<1>7. (k - 1) + 1 = k
  BY <1>4
<1> QED
  BY <1>4, <1>5, <1>6, <1>7 DEF Sorted

\* Following the list one gets to each block of it, at growing addresses: the
\* last step that is not beyond a is at a, since otherwise there is a next one.
LEMMA ReachesAll ==
  ASSUME NEW m, Headers(m), NEW F, F \subseteq DOMAIN m, Base \in F, Sorted(m, F), NEW a \in F
  PROVE  \E k \in Steps(m) :
           /\ Chain(m, Base)[k] = a
           /\ \A i, j \in 0 .. k : i < j => Chain(m, Base)[i] < Chain(m, Base)[j]
<1> DEFINE at == Chain(m, Base)
           Rising(k) == \A i, j \in 0 .. k : i < j => at[i] < at[j]
           K == {k \in 0 .. a : k <= at[k] /\ at[k] <= a /\ Rising(k)}
<1>0. F \subseteq Nat
  BY HeapAssumption DEF Headers, Addr
<1>1. at[0] = Base /\ \A k \in Nat : at[k + 1] = m[at[k]].ptr
  BY ChainSteps
<1>2. \A k \in Nat : at[k] \in F /\ at[k] \in Nat
  BY StaysOnList, <1>0
<1> HIDE DEF at
<1>3. 0 \in K
  BY <1>0, <1>1 DEF Base
<1>4. PICK k \in K : \A j \in K : j <= k
  <2>1. K \subseteq 0 .. a /\ K # {} /\ a \in Nat
    BY <1>3, <1>0
  <2> QED
    BY <2>1, LastOf
<1>5. k \in Nat /\ k <= at[k] /\ at[k] <= a /\ Rising(k)
  BY <1>4
<1>6. at[k] = a
  <2> SUFFICES ASSUME at[k] < a PROVE FALSE
    BY <1>5, <1>2, <1>0
  <2>1. at[k] < at[k + 1] /\ at[k + 1] <= a
    <3>1. at[k] \in F /\ at[k + 1] = m[at[k]].ptr
      BY <1>1, <1>2, <1>5
    <3>2. ~(a <= at[k])
      BY <1>0, <1>2, <1>5
    <3> QED
      BY <3>1, <3>2 DEF Sorted
  <2>2. Rising(k + 1)
    <3> SUFFICES ASSUME NEW i \in 0 .. k + 1, NEW j \in 0 .. k + 1, i < j PROVE at[i] < at[j]
      OBVIOUS
    <3>1. CASE j <= k
      BY <3>1, <1>5
    <3>2. CASE j = k + 1
      <4>1. i = k \/ at[i] < at[k]
        BY <3>2, <1>5
      <4> QED
        BY <4>1, <3>2, <2>1, <1>2, <1>5
    <3> QED
      BY <3>1, <3>2, <1>5
  <2>3. k + 1 <= at[k + 1] /\ k + 1 \in 0 .. a
    BY <2>1, <1>0, <1>2, <1>5
  <2>4. k + 1 \in K
    BY <2>1, <2>2, <2>3
  <2> QED
    BY <2>4, <1>4, <1>5
<1>7. k \in Steps(m)
  <2> DEFINE f == [i \in 0 .. k |-> at[i]]
  <2>1. f \in [0 .. k -> DOMAIN m]
    BY <1>2, <1>5
  <2>2. \A i, j \in 0 .. k : f[i] = f[j] => i = j
    <3> SUFFICES ASSUME NEW i \in 0 .. k, NEW j \in 0 .. k, at[i] = at[j], i # j PROVE FALSE
      OBVIOUS
    <3>1. at[i] \in Nat /\ at[j] \in Nat
      BY <1>2, <1>5
    <3>2. i < j \/ j < i
      BY <1>5
    <3> QED
      BY <3>1, <3>2, <1>5
  <2> HIDE DEF f
  <2>3. f \in Injection(0 .. k, DOMAIN m)
    BY <2>1, <2>2 DEF Injection, IsInjective
  <2>4. IsFiniteSet(DOMAIN m) /\ Cardinality(DOMAIN m) \in Nat
    BY HeapIsFinite
  <2>5. Cardinality(0 .. k) <= Cardinality(DOMAIN m)
    BY <2>3, <2>4, FS_Injection
  <2>6. Cardinality(0 .. k) = k + 1
    BY <1>5, FS_Interval
  <2> QED
    BY <2>4, <2>5, <2>6, <1>5 DEF Steps
<1> QED
  BY <1>5, <1>6, <1>7 DEF at

\* The blocks one meets in as many steps as there are headers are the list.
LEMMA ListIsAll ==
  ASSUME NEW m, Headers(m), NEW F, F \subseteq DOMAIN m, Base \in F, Sorted(m, F)
  PROVE  {Chain(m, Base)[k] : k \in Steps(m)} = F
<1>1. Steps(m) \subseteq Nat
  BY HeapIsFinite DEF Steps
<1> QED
  BY <1>1, StaysOnList, ReachesAll

-----------------------------------------------------------------------------
\* The loop of _malloc stops behind a block of the list; what it finds is too
\* small only if all the list is.
LEMMA FirstFitFinds ==
  ASSUME NEW m, Headers(m), NEW F, F \subseteq DOMAIN m, Sentinel(m, F), Sorted(m, F),
         NEW n \in Nat \ {0}
  PROVE  LET f == FirstFit(m, n)
         IN  /\ f.prevp \in F /\ f.p \in F /\ f.p = m[f.prevp].ptr
             /\ m[f.p].size < n => \A b \in F : m[b].size < n
<1> DEFINE at == Chain(m, Base)
           Stop == {i \in Steps(m) : m[at[i + 1]].size >= n \/ at[i + 1] = Base}
<1>0. F \subseteq Nat /\ Steps(m) \subseteq Nat /\ Base \in F
  BY HeapIsFinite, HeapAssumption DEF Headers, Addr, Steps, Sentinel
<1>1. at[0] = Base /\ \A k \in Nat : at[k + 1] = m[at[k]].ptr
  BY ChainSteps
<1>2. \A k \in Nat : at[k] \in F
  BY StaysOnList, <1>0
<1>3. \A a \in F : \E k \in Steps(m) :
        at[k] = a /\ \A i, j \in 0 .. k : i < j => at[i] < at[j]
  BY ReachesAll, <1>0
<1>f. FirstFit(m, n) = [prevp |-> at[Min(Stop)], p |-> at[Min(Stop) + 1]]
  BY DEF FirstFit
<1> HIDE DEF at
<1>4. \E z \in F : \A b \in F : b <= z
  <2>1. F \subseteq 0 .. Units
    BY HeapAssumption DEF Headers, Addr
  <2> QED
    BY <2>1, <1>0, LastOf, HeapAssumption
<1>5. Stop # {}
  <2>1. PICK z \in F : \A b \in F : b <= z
    BY <1>4
  <2>2. m[z].ptr = Base
    BY <2>1, <1>0 DEF Sorted
  <2>3. PICK k \in Steps(m) : at[k] = z
    BY <1>3, <2>1
  <2>4. at[k + 1] = Base
    BY <1>0, <1>1, <2>2, <2>3
  <2>5. k \in Stop
    BY <2>3, <2>4
  <2> QED
    BY <2>5
<1> DEFINE k == Min(Stop)
<1>6. k \in Stop /\ \A i \in Stop : k <= i
  <2>1. Stop \subseteq Nat
    BY <1>0
  <2> QED
    BY <2>1, <1>5, MinIsFirst
<1> HIDE DEF k
<1>7. k \in Nat /\ at[k] \in F /\ at[k + 1] \in F /\ at[k + 1] = m[at[k]].ptr
  BY <1>0, <1>1, <1>2, <1>6
<1>8. ASSUME m[at[k + 1]].size < n, NEW b \in F PROVE m[b].size < n
  <2>0. \A a \in F : m[a].size \in Nat
    BY HeapAssumption DEF Headers, Header
  <2>1. at[k + 1] = Base
    BY <1>6, <1>7, <1>8, <2>0
  <2>2. CASE b = Base
    BY <2>2, <2>0, <1>0 DEF Sentinel
  <2>3. CASE b # Base
    <3>1. PICK j \in Steps(m) : at[j] = b /\ \A i, l \in 0 .. j : i < l => at[i] < at[l]
      BY <1>3
    <3>2. j \in Nat /\ j # 0
      BY <3>1, <2>3, <1>0, <1>1
    <3>3. j <= k
      <4> SUFFICES ASSUME k + 1 <= j PROVE FALSE
        BY <3>2, <1>7
      <4>1. at[0] < at[k + 1]
        BY <3>1, <3>2, <1>7
      <4> QED
        BY <4>1, <2>1, <1>1 DEF Base
    <3>4. j - 1 \in Steps(m) /\ j - 1 \notin Stop
      BY <3>1, <3>2, <3>3, <1>6, <1>7, HeapIsFinite DEF Steps
    <3>5. at[(j - 1) + 1] = b
      BY <3>1, <3>2
    <3> QED
      BY <3>4, <3>5, <2>0
  <2> QED
    BY <2>2, <2>3
<1> HIDE DEF Stop
<1> QED
  BY <1>f, <1>7, <1>8 DEF k

\* The loop of _free stops at the block of the list below p.
LEMMA BeforeFinds ==
  ASSUME NEW m, Headers(m), NEW F, F \subseteq DOMAIN m, Base \in F, Sorted(m, F),
         NEW p \in DOMAIN m \ F
  PROVE  LET q == Before(m, p)
         IN  q \in F /\ q < p /\ (p < m[q].ptr \/ m[q].ptr = Base) /\ \A b \in F : b <= q \/ p < b
<1> DEFINE at == Chain(m, Base)
           Between(a) == p > a /\ p < m[a].ptr
           AtEnd(a)   == a >= m[a].ptr /\ (p > a \/ p < m[a].ptr)
           Stop == {i \in Steps(m) : Between(at[i]) \/ AtEnd(at[i])}
<1>0. F \subseteq Nat /\ Steps(m) \subseteq Nat /\ p \in Nat /\ p # Base
  BY HeapIsFinite, HeapAssumption DEF Headers, Addr, Steps
<1>2. \A k \in Nat : at[k] \in F
  BY StaysOnList
<1>3. \A a \in F : \E k \in Steps(m) : at[k] = a
  BY ReachesAll
<1>f. Before(m, p) = at[Min(Stop)]
  BY DEF Before
<1> HIDE DEF at
<1>4. Stop # {}
  <2> DEFINE Below == {b \in F : b < p}
  <2>1. Below \subseteq 0 .. p /\ Below # {}
    <3>1. Base \in Below
      BY <1>0 DEF Base
    <3> QED
      BY <3>1, <1>0
  <2>2. PICK a \in Below : \A b \in Below : b <= a
    BY <2>1, <1>0, LastOf
  <2>3. a \in F /\ a < p /\ \A b \in F : b < p => b <= a
    BY <2>2
  <2>4. PICK k \in Steps(m) : at[k] = a
    BY <1>3, <2>3
  <2>5. Between(a) \/ AtEnd(a)
    <3>1. m[a].ptr \in F /\ m[a].ptr # p
      BY <2>3 DEF Sorted
    <3>2. CASE a < m[a].ptr
      BY <3>1, <3>2, <2>3, <1>0
    <3>3. CASE ~(a < m[a].ptr)
      BY <3>1, <3>3, <2>3, <1>0
    <3> QED
      BY <3>2, <3>3
  <2> QED
    BY <2>4, <2>5
<1> DEFINE k == Min(Stop)
<1>5. k \in Stop
  <2>1. Stop \subseteq Nat
    BY <1>0
  <2> QED
    BY <2>1, <1>4, MinIsFirst
<1> HIDE DEF k
<1>6. at[k] \in F /\ (Between(at[k]) \/ AtEnd(at[k]))
  BY <1>0, <1>2, <1>5
<1>7. m[at[k]].ptr \in F
  BY <1>6 DEF Sorted
<1>8. at[k] < p /\ (p < m[at[k]].ptr \/ m[at[k]].ptr = Base)
  <2>1. CASE Between(at[k])
    BY <2>1, <1>0, <1>6
  <2>2. CASE AtEnd(at[k])
    <3>1. m[at[k]].ptr = Base
      BY <2>2, <1>0, <1>6, <1>7 DEF Sorted
    <3> QED
      BY <3>1, <2>2, <1>0, <1>6 DEF Base
  <2> QED
    BY <2>1, <2>2, <1>6
<1>9. ASSUME NEW b \in F PROVE b <= at[k] \/ p < b
  BY <1>6, <1>7, <1>8, <1>0 DEF Sorted, Base
<1> HIDE DEF Stop
<1> QED
  BY <1>f, <1>6, <1>8, <1>9 DEF k

-----------------------------------------------------------------------------
\* What a change of a header leaves.
LEMMA SetPtrFields ==
  ASSUME NEW m, NEW a \in DOMAIN m, m[a] \in Header, NEW ptr \in Addr
  PROVE  /\ DOMAIN SetPtr(m, a, ptr) = DOMAIN m
         /\ SetPtr(m, a, ptr)[a] = [ptr |-> ptr, size |-> m[a].size]
         /\ \A x \in DOMAIN m \ {a} : SetPtr(m, a, ptr)[x] = m[x]
BY DEF SetPtr, Header

(***************************************************************************)
(* The heap m with the owned blocks D: blocks that do not overlap, the     *)
(* free ones in order on the list, and none right behind another.          *)
(***************************************************************************)
Sizes(m) == \A a \in DOMAIN m \ {Base} : 1 <= m[a].size /\ a + m[a].size <= Units

Apart(m) == \A a, b \in DOMAIN m : a < b => a + m[a].size <= b

Joined(m, F) == \A a \in F \ {Base} : a + m[a].size \notin F

Layout(m, D) ==
  /\ Headers(m) /\ D \subseteq DOMAIN m
  /\ Sentinel(m, DOMAIN m \ D) /\ Sorted(m, DOMAIN m \ D)
  /\ Sizes(m) /\ Apart(m) /\ Joined(m, DOMAIN m \ D)

Covered(m) == \A u \in 1 .. Units - 1 : \E a \in DOMAIN m : a <= u /\ u < a + m[a].size

\* The fields of the headers are numbers.
LEMMA FieldTypes ==
  ASSUME NEW m, NEW D, Layout(m, D)
  PROVE  /\ DOMAIN m \subseteq Nat
         /\ \A a \in DOMAIN m : m[a].size \in Nat /\ m[a].size <= Units
         /\ \A a \in DOMAIN m : m[a].ptr \in Nat /\ m[a].ptr < Units
         /\ \A a \in DOMAIN m : m[a] = [ptr |-> m[a].ptr, size |-> m[a].size]
         /\ Units \in Nat
BY HeapAssumption DEF Layout, Headers, Header, Addr

\* m2 is a heap m where n units from a on were given to an owner.
Gave(m, D, n, a, m2) ==
  /\ Layout(m2, D \union {a}) /\ (Covered(m) => Covered(m2))
  /\ m2[a].size = n
  /\ \A x \in D : m2[x].size = m[x].size

\* _malloc takes a block off the list.
LEMMA TakeExactKeeps ==
  ASSUME NEW m, NEW D, Layout(m, D), NEW q \in DOMAIN m \ D,
         NEW p \in DOMAIN m \ D, p = m[q].ptr, p # Base
  PROVE  Gave(m, D, m[p].size, p, TakeExact(m, q, p))
<1> DEFINE m1 == SetPtr(m, q, m[p].ptr)
           m2 == TakeExact(m, q, p)
           F == DOMAIN m \ D
           F2 == DOMAIN m \ (D \union {p})
<1>0. /\ DOMAIN m \subseteq Nat /\ Units \in Nat
      /\ \A a \in DOMAIN m : m[a].size \in Nat /\ m[a].size <= Units
      /\ \A a \in DOMAIN m : m[a].ptr \in Nat /\ m[a].ptr < Units
      /\ \A a \in DOMAIN m : m[a] \in Header
      /\ DOMAIN m \subseteq Addr /\ D \subseteq DOMAIN m
  BY FieldTypes DEF Layout, Headers
<1>a. Sorted(m, F) /\ Sentinel(m, F) /\ Sizes(m) /\ Apart(m) /\ Joined(m, F)
  BY DEF Layout
<1>1. q # p /\ m[p].ptr # p /\ q < p
  BY <1>0, <1>a DEF Sorted
<1>2. m[p].ptr \in Addr /\ Base \in Addr
  BY <1>0, <1>a DEF Sorted, Sentinel
<1>3. /\ DOMAIN m1 = DOMAIN m /\ m1[q] = [ptr |-> m[p].ptr, size |-> m[q].size]
      /\ \A x \in DOMAIN m \ {q} : m1[x] = m[x]
  BY <1>0, <1>2, SetPtrFields
<1> HIDE DEF m1
<1>4. /\ DOMAIN m2 = DOMAIN m /\ m2[p] = [ptr |-> Base, size |-> m[p].size]
      /\ \A x \in DOMAIN m \ {p} : m2[x] = m1[x]
  <2>1. m1[p] \in Header
    BY <1>0, <1>1, <1>3
  <2>2. m2 = SetPtr(m1, p, Base)
    BY DEF TakeExact, m1
  <2> QED
    BY <2>1, <2>2, <1>2, <1>3, <1>1, SetPtrFields
<1> HIDE DEF m2
<1>5. /\ m2[q] = [ptr |-> m[p].ptr, size |-> m[q].size]
      /\ \A x \in DOMAIN m \ {p, q} : m2[x] = m[x]
      /\ \A x \in DOMAIN m : m2[x].size = m[x].size
      /\ m2[q].ptr = m[p].ptr
  BY <1>1, <1>3, <1>4
<1>6. Headers(m2)
  BY <1>0, <1>2, <1>4, <1>5 DEF Headers, Header
<1>7. Sentinel(m2, F2)
  BY <1>a, <1>5 DEF Sentinel
<1>8. Sorted(m2, F2)
  <2> SUFFICES ASSUME NEW a \in F2
               PROVE  /\ m2[a].ptr \in F2
                      /\ \/ a < m2[a].ptr /\ \A b \in F2 : b <= a \/ m2[a].ptr <= b
                         \/ m2[a].ptr = Base /\ \A b \in F2 : b <= a
    BY DEF Sorted
  <2>0. a \in F /\ a # p /\ \A b \in F2 : b \in F /\ b # p /\ b \in Nat
    BY <1>0
  <2>1. CASE a = q
    <3>1. m[p].ptr \in F2
      BY <1>a, <1>1 DEF Sorted
    <3>2. \A b \in F2 : b <= q \/ p < b
      BY <1>a, <1>0, <1>1, <2>0 DEF Sorted, Base
    <3>3. CASE p < m[p].ptr /\ \A b \in F : b <= p \/ m[p].ptr <= b
      BY <3>1, <3>2, <3>3, <2>0, <2>1, <1>0, <1>1, <1>5
    <3>4. CASE m[p].ptr = Base /\ \A b \in F : b <= p
      BY <3>1, <3>2, <3>4, <2>0, <2>1, <1>0, <1>1, <1>5
    <3> QED
      BY <3>3, <3>4, <1>a DEF Sorted
  <2>2. CASE a # q
    <3>1. m2[a] = m[a]
      BY <2>0, <2>2, <1>5
    <3>2. m[a].ptr \in F /\ m[a].ptr # p
      BY <2>0, <2>2, <1>0, <1>a, <1>1 DEF Sorted, Base
    <3> QED
      BY <3>1, <3>2, <2>0, <1>a DEF Sorted
  <2> QED
    BY <2>1, <2>2
<1>9. Sizes(m2) /\ Apart(m2) /\ Joined(m2, F2)
  BY <1>a, <1>4, <1>5 DEF Sizes, Apart, Joined
<1>10. Covered(m) => Covered(m2)
  BY <1>4, <1>5 DEF Covered
<1> QED
  BY <1>0, <1>4, <1>5, <1>6, <1>7, <1>8, <1>9, <1>10 DEF Layout, Gave, m2

\* _malloc gives the tail of a block.
LEMMA SplitTailKeeps ==
  ASSUME NEW m, NEW D, Layout(m, D), NEW p \in DOMAIN m \ D, NEW n \in Nat \ {0}, m[p].size > n
  PROVE  Tail(m, p, n) \notin D /\ Gave(m, D, n, Tail(m, p, n), SplitTail(m, p, n))
<1> DEFINE t == p + m[p].size - n
           m1 == [m EXCEPT ![p].size = @ - n]
           m2 == SplitTail(m, p, n)
           F == DOMAIN m \ D
<1>0. /\ DOMAIN m \subseteq Nat /\ Units \in Nat
      /\ \A a \in DOMAIN m : m[a].size \in Nat /\ m[a].size <= Units
      /\ \A a \in DOMAIN m : m[a].ptr \in Nat /\ m[a].ptr < Units
      /\ \A a \in DOMAIN m : m[a] \in Header
      /\ DOMAIN m \subseteq Addr /\ D \subseteq DOMAIN m
  BY FieldTypes DEF Layout, Headers
<1>a. Sorted(m, F) /\ Sentinel(m, F) /\ Sizes(m) /\ Apart(m) /\ Joined(m, F)
  BY DEF Layout
<1>1. p # Base /\ p < t /\ t < p + m[p].size /\ p + m[p].size <= Units /\ t \in Nat
  BY <1>0, <1>a DEF Sentinel, Sizes
<1>2. t \notin DOMAIN m /\ t \in Addr /\ Base \in Addr
  BY <1>0, <1>a, <1>1, HeapAssumption DEF Apart, Addr, Base
<1>3. /\ DOMAIN m1 = DOMAIN m /\ m1[p] = [ptr |-> m[p].ptr, size |-> m[p].size - n]
      /\ \A x \in DOMAIN m \ {p} : m1[x] = m[x]
  BY <1>0 DEF Header
<1> HIDE DEF m1
<1>4. m2 = Set(m1, t, Base, n)
  BY DEF SplitTail, Tail, m1
<1> HIDE DEF m2, t
<1>5. /\ DOMAIN m2 = DOMAIN m \union {t} /\ m2[t] = [ptr |-> Base, size |-> n]
      /\ m2[p] = [ptr |-> m[p].ptr, size |-> m[p].size - n]
      /\ \A x \in DOMAIN m \ {p} : m2[x] = m[x]
  <2>1. /\ DOMAIN m2 = DOMAIN m1 \union {t} /\ m2[t] = [ptr |-> Base, size |-> n]
        /\ \A x \in DOMAIN m1 \ {t} : m2[x] = m1[x]
    BY <1>4 DEF Set
  <2> QED
    BY <2>1, <1>2, <1>3
<1>6. /\ m2[t].size = n /\ m2[p].size = m[p].size - n
      /\ \A x \in DOMAIN m : m2[x].ptr = m[x].ptr /\ x # t
  BY <1>2, <1>5
<1>7. t = p + m[p].size - n
  BY DEF t
<1>8. DOMAIN m2 \ (D \union {t}) = F
  BY <1>2, <1>5
<1>9. Headers(m2)
  <2>1. m[p].size - n \in 0 .. Units /\ n \in 0 .. Units
    BY <1>0
  <2>2. m[p].ptr \in Addr
    BY <1>0 DEF Header
  <2> QED
    BY <2>1, <2>2, <1>0, <1>2, <1>5 DEF Headers, Header
<1>10. Sentinel(m2, F)
  BY <1>a, <1>1, <1>5 DEF Sentinel
<1>11. Sorted(m2, F)
  BY <1>a, <1>6 DEF Sorted
<1>12. Sizes(m2)
  BY <1>a, <1>0, <1>1, <1>5, <1>6, <1>7 DEF Sizes
<1>13. Apart(m2)
  <2> SUFFICES ASSUME NEW a \in DOMAIN m2, NEW b \in DOMAIN m2, a < b
               PROVE  a + m2[a].size <= b
    BY DEF Apart
  <2>1. CASE a = t
    <3>1. b \in DOMAIN m /\ p < b
      BY <2>1, <1>0, <1>1, <1>5
    <3>2. p + m[p].size <= b
      BY <3>1, <1>a DEF Apart
    <3> QED
      BY <3>2, <2>1, <1>0, <1>6, <1>7
  <2>2. CASE a = p
    <3>1. b = t \/ p + m[p].size <= b
      BY <2>2, <1>a, <1>5 DEF Apart
    <3> QED
      BY <3>1, <2>2, <1>0, <1>1, <1>5, <1>6, <1>7
  <2>3. CASE a # t /\ a # p
    <3>1. a \in DOMAIN m /\ m2[a] = m[a]
      BY <2>3, <1>5
    <3>2. CASE b # t
      BY <3>1, <3>2, <1>a, <1>5 DEF Apart
    <3>3. CASE b = t
      <4>1. a < p
        <5> SUFFICES ASSUME p < a PROVE FALSE
          BY <3>1, <2>3, <1>0
        <5>1. p + m[p].size <= a
          BY <3>1, <1>a DEF Apart
        <5> QED
          BY <5>1, <3>1, <3>3, <1>0, <1>1
      <4>2. a + m[a].size <= p
        BY <4>1, <3>1, <1>a DEF Apart
      <4> QED
        BY <4>2, <3>1, <3>3, <1>0, <1>1
    <3> QED
      BY <3>2, <3>3
  <2> QED
    BY <2>1, <2>2, <2>3
<1>14. Joined(m2, F)
  <2> SUFFICES ASSUME NEW a \in F \ {Base} PROVE a + m2[a].size \notin F
    BY DEF Joined
  <2>1. CASE a = p
    <3>1. a + m2[a].size = t
      BY <2>1, <1>0, <1>6, <1>7
    <3> QED
      BY <3>1, <1>2
  <2>2. CASE a # p
    BY <2>2, <1>a, <1>5 DEF Joined
  <2> QED
    BY <2>1, <2>2
<1>15. Covered(m) => Covered(m2)
  <2> SUFFICES ASSUME Covered(m), NEW u \in 1 .. Units - 1
               PROVE  \E a \in DOMAIN m2 : a <= u /\ u < a + m2[a].size
    BY DEF Covered
  <2>1. PICK a \in DOMAIN m : a <= u /\ u < a + m[a].size
    BY DEF Covered
  <2>2. CASE a # p
    BY <2>1, <2>2, <1>5
  <2>3. CASE a = p /\ u < t
    <3>1. p <= u /\ u < p + m2[p].size
      BY <2>1, <2>3, <1>0, <1>6, <1>7
    <3> QED
      BY <3>1, <1>5
  <2>4. CASE a = p /\ t <= u
    <3>1. t <= u /\ u < t + m2[t].size
      BY <2>1, <2>4, <1>0, <1>6, <1>7
    <3> QED
      BY <3>1, <1>5
  <2> QED
    BY <2>2, <2>3, <2>4, <1>1
<1>16. \A a \in D : m2[a].size = m[a].size
  BY <1>0, <1>5
<1>17. D \union {t} \subseteq DOMAIN m2
  BY <1>0, <1>5
<1>18. Tail(m, p, n) = t
  BY <1>7 DEF Tail
<1> QED
  BY <1>0, <1>2, <1>6, <1>8, <1>9, <1>10, <1>11, <1>12, <1>13, <1>14, <1>15, <1>16, <1>17, <1>18
  DEF Layout, Gave, m2

-----------------------------------------------------------------------------
(***************************************************************************)
(* _free puts the block on the list and joins it with its neighbours.      *)
(* Between these steps a free block may lie right behind another.          *)
(***************************************************************************)
Loose(m, D) ==
  /\ Headers(m) /\ D \subseteq DOMAIN m
  /\ Sentinel(m, DOMAIN m \ D) /\ Sorted(m, DOMAIN m \ D)
  /\ Sizes(m) /\ Apart(m)

\* The block a of F touches the next block of F.
Touches(m, F, a) == a # Base /\ a + m[a].size \in F

\* The same for a heap before its blocks are joined.
LEMMA LooseTypes ==
  ASSUME NEW m, NEW D, Loose(m, D)
  PROVE  /\ DOMAIN m \subseteq Nat /\ Units \in Nat /\ DOMAIN m \subseteq Addr /\ D \subseteq DOMAIN m
         /\ \A a \in DOMAIN m : m[a].size \in Nat /\ m[a].size <= Units
         /\ \A a \in DOMAIN m : m[a].ptr \in Nat /\ m[a].ptr < Units
         /\ \A a \in DOMAIN m : m[a] \in Header /\ m[a].ptr \in Addr
BY HeapAssumption DEF Loose, Headers, Header, Addr

\* _free links p between q and the next block: of the blocks on the list only
\* p and q may touch the next one.
LEMMA LinkKeeps ==
  ASSUME NEW m, NEW D, Layout(m, D), NEW p \in D, NEW q \in DOMAIN m \ D,
         q < p, p < m[q].ptr \/ m[q].ptr = Base, \A b \in DOMAIN m \ D : b <= q \/ p < b,
         NEW m2, DOMAIN m2 = DOMAIN m,
         m2[p] = [ptr |-> m[q].ptr, size |-> m[p].size],
         m2[q] = [ptr |-> p, size |-> m[q].size],
         \A x \in DOMAIN m \ {p, q} : m2[x] = m[x]
  PROVE  /\ Loose(m2, D \ {p}) /\ (Covered(m) => Covered(m2))
         /\ \A x \in DOMAIN m : m2[x].size = m[x].size
         /\ \A x \in DOMAIN m \ (D \ {p}) : Touches(m2, DOMAIN m \ (D \ {p}), x) =>
              (x = p /\ p + m[p].size = m[q].ptr) \/ (x = q /\ q + m[q].size = p)
<1> DEFINE F == DOMAIN m \ D
           F2 == DOMAIN m \ (D \ {p})
           next == m[q].ptr
<1>0. /\ DOMAIN m \subseteq Nat /\ Units \in Nat /\ DOMAIN m \subseteq Addr /\ D \subseteq DOMAIN m
      /\ \A a \in DOMAIN m : m[a].size \in Nat /\ m[a].size <= Units
      /\ \A a \in DOMAIN m : m[a].ptr \in Nat /\ m[a].ptr < Units
      /\ \A a \in DOMAIN m : m[a] \in Header /\ m[a].ptr \in Addr
  BY LooseTypes DEF Layout, Loose
<1>a. Sorted(m, F) /\ Sentinel(m, F) /\ Sizes(m) /\ Apart(m) /\ Joined(m, F)
  BY DEF Layout
<1>1. /\ p # q /\ p # Base
      /\ next \in F /\ next # p /\ F2 = F \union {p} /\ p \notin F /\ p \in DOMAIN m
  BY <1>0, <1>a DEF Sorted, Sentinel
<1>2. /\ \A x \in DOMAIN m : m2[x].size = m[x].size
      /\ \A x \in DOMAIN m \ {p, q} : m2[x].ptr = m[x].ptr
      /\ m2[p].ptr = next /\ m2[q].ptr = p
  BY <1>0
<1>3. Headers(m2)
  BY <1>0 DEF Headers, Header
<1>4. Sentinel(m2, F2)
  BY <1>a, <1>0, <1>1, <1>2 DEF Sentinel
<1>5. Sizes(m2) /\ Apart(m2)
  BY <1>a, <1>2 DEF Sizes, Apart
<1>6. Sorted(m2, F2)
  <2> SUFFICES ASSUME NEW a \in F2
               PROVE  /\ m2[a].ptr \in F2
                      /\ \/ a < m2[a].ptr /\ \A b \in F2 : b <= a \/ m2[a].ptr <= b
                         \/ m2[a].ptr = Base /\ \A b \in F2 : b <= a
    BY DEF Sorted
  <2>0. F2 \subseteq Nat /\ a \in Nat /\ next \in Nat /\ q \in Nat /\ p \in Nat
    BY <1>0, <1>1
  <2>1. CASE a = q
    BY <2>1, <2>0, <1>1, <1>2
  <2>2. CASE a = p
    <3>1. (q < next /\ \A b \in F : b <= q \/ next <= b) \/ (next = Base /\ \A b \in F : b <= q)
      BY <1>a DEF Sorted
    <3>2. CASE q < next /\ \A b \in F : b <= q \/ next <= b
      <4>1. p < next
        BY <3>2, <2>0 DEF Base
      <4> QED
        BY <4>1, <3>2, <2>2, <2>0, <1>1, <1>2
    <3>3. CASE next = Base /\ \A b \in F : b <= q
      BY <3>3, <2>2, <2>0, <1>1, <1>2
    <3> QED
      BY <3>1, <3>2, <3>3
  <2>3. CASE a # p /\ a # q
    <3>1. a \in F /\ m2[a].ptr = m[a].ptr /\ m[a].ptr \in F
      BY <2>3, <1>1, <1>2, <1>a DEF Sorted
    <3>2. a < q \/ p < a
      BY <3>1, <2>3, <2>0
    <3>3. (a < m[a].ptr /\ \A b \in F : b <= a \/ m[a].ptr <= b)
            \/ (m[a].ptr = Base /\ \A b \in F : b <= a)
      BY <3>1, <1>a DEF Sorted
    <3>4. CASE a < m[a].ptr /\ \A b \in F : b <= a \/ m[a].ptr <= b
      <4>1. p <= a \/ m[a].ptr <= p
        BY <3>1, <3>2, <3>4, <2>0, <1>0
      <4> QED
        BY <4>1, <3>1, <3>4, <1>1
    <3>5. CASE m[a].ptr = Base /\ \A b \in F : b <= a
      <4>1. p <= a
        BY <3>2, <3>5, <2>0
      <4> QED
        BY <4>1, <3>1, <3>5, <1>1
    <3> QED
      BY <3>3, <3>4, <3>5
  <2> QED
    BY <2>1, <2>2, <2>3
<1>7. Covered(m) => Covered(m2)
  BY <1>2 DEF Covered
<1>8. ASSUME NEW x \in F2, x # Base, x + m2[x].size \in F2
      PROVE  (x = p /\ p + m[p].size = next) \/ (x = q /\ q + m[q].size = p)
  <2>0. F2 \subseteq Nat /\ x \in Nat /\ next \in Nat /\ q \in Nat /\ p \in Nat /\ x \in DOMAIN m
    BY <1>0, <1>1
  <2>1. x + m2[x].size = x + m[x].size /\ m[x].size \in Nat
    BY <2>0, <1>0, <1>2
  <2>2. CASE x = p
    <3>1. p + m[p].size \in F /\ p + m[p].size > p
      BY <2>0, <2>1, <2>2, <1>8, <1>1, <1>a DEF Sizes
    <3>2. p + m[p].size > q
      BY <3>1, <2>0, <1>0
    <3>3. q < next /\ next <= p + m[p].size
      BY <3>1, <3>2, <2>0, <1>a, <1>0 DEF Sorted
    <3>4. p < next
      BY <3>3, <2>0 DEF Base
    <3>5. p + m[p].size <= next
      BY <3>4, <1>a, <1>1 DEF Apart
    <3> QED
      BY <3>3, <3>5, <2>2, <2>0, <2>1
  <2>3. CASE x # p
    <3>1. x \in F /\ x + m[x].size \notin F
      BY <2>3, <1>8, <1>1, <1>a DEF Joined
    <3>2. x + m[x].size = p
      BY <3>1, <2>1, <1>8, <1>1
    <3>3. x <= q
      BY <3>1, <3>2, <2>0, <2>1
    <3>4. x = q
      <4> SUFFICES ASSUME x < q PROVE FALSE
        BY <3>3, <2>0
      <4>1. x + m[x].size <= q
        BY <2>0, <1>a DEF Apart
      <4> QED
        BY <4>1, <3>2, <2>0
    <3> QED
      BY <3>2, <3>4
  <2> QED
    BY <2>2, <2>3
<1>9. D \ {p} \subseteq DOMAIN m2
  BY <1>0
<1> QED
  BY <1>2, <1>3, <1>4, <1>5, <1>6, <1>7, <1>8, <1>9 DEF Loose, Touches

\* m2 is m where the free block a took in the free block b right behind it.
Merged(m, D, a, b, m2) ==
  /\ a \in DOMAIN m \ D /\ a # Base /\ b = m[a].ptr /\ a + m[a].size = b
  /\ DOMAIN m2 = DOMAIN m \ {b}
  /\ m2[a] = [ptr |-> m[b].ptr, size |-> m[a].size + m[b].size]
  /\ \A x \in DOMAIN m \ {a, b} : m2[x] = m[x]

\* What that keeps: a touches a block now if b did.
MergedWell(m, D, a, b, m2) ==
  /\ Loose(m2, D) /\ (Covered(m) => Covered(m2))
  /\ \A x \in D : m2[x].size = m[x].size
  /\ \A x \in DOMAIN m2 \ D : Touches(m2, DOMAIN m2 \ D, x) =>
       \/ x = a /\ Touches(m, DOMAIN m \ D, b)
       \/ x # a /\ Touches(m, DOMAIN m \ D, x)

\* To merge two blocks keeps the heap and makes no two blocks touch.
LEMMA MergeKeeps ==
  ASSUME NEW m, NEW D, Loose(m, D), NEW a, NEW b, NEW m2, Merged(m, D, a, b, m2)
  PROVE  MergedWell(m, D, a, b, m2)
<1> DEFINE F == DOMAIN m \ D
           F2 == DOMAIN m2 \ D
<1>0. /\ DOMAIN m \subseteq Nat /\ Units \in Nat /\ DOMAIN m \subseteq Addr /\ D \subseteq DOMAIN m
      /\ \A x \in DOMAIN m : m[x].size \in Nat /\ m[x].size <= Units
      /\ \A x \in DOMAIN m : m[x].ptr \in Nat /\ m[x].ptr < Units
      /\ \A x \in DOMAIN m : m[x] \in Header /\ m[x].ptr \in Addr
  BY LooseTypes
<1>a. Sorted(m, F) /\ Sentinel(m, F) /\ Sizes(m) /\ Apart(m)
  BY DEF Loose
<1>m. /\ a \in F /\ a # Base /\ b = m[a].ptr /\ a + m[a].size = b
      /\ DOMAIN m2 = DOMAIN m \ {b}
      /\ m2[a] = [ptr |-> m[b].ptr, size |-> m[a].size + m[b].size]
      /\ \A x \in DOMAIN m \ {a, b} : m2[x] = m[x]
  BY DEF Merged
<1> USE <1>m
<1>1. a < b /\ b \in F /\ b # Base /\ b + m[b].size <= Units /\ F2 = F \ {b}
  BY <1>0, <1>a DEF Sorted, Sizes, Base
<1>2. /\ \A x \in DOMAIN m2 : x \in DOMAIN m /\ x # b
      /\ \A x \in DOMAIN m2 : x # a => m2[x] = m[x]
      /\ m2[a].ptr = m[b].ptr /\ m2[a].size = m[a].size + m[b].size /\ a \in DOMAIN m2
  <2>1. a # b
    BY <1>0, <1>1
  <2> QED
    BY <2>1
<1>3. Headers(m2)
  <2>1. m[a].size + m[b].size \in 0 .. Units
    BY <1>0, <1>1
  <2> QED
    BY <2>1, <1>0, <1>1, <1>2 DEF Headers, Header
<1>4. Sentinel(m2, F2)
  BY <1>a, <1>1, <1>2 DEF Sentinel
<1>5. Sizes(m2)
  BY <1>a, <1>0, <1>1, <1>2 DEF Sizes
<1>6. Apart(m2)
  <2> SUFFICES ASSUME NEW x \in DOMAIN m2, NEW y \in DOMAIN m2, x < y
               PROVE  x + m2[x].size <= y
    BY DEF Apart
  <2>1. CASE x # a
    BY <2>1, <1>2, <1>a DEF Apart
  <2>2. CASE x = a
    <3>1. b <= y /\ y # b
      BY <2>2, <1>2, <1>a DEF Apart
    <3>2. b + m[b].size <= y
      BY <3>1, <1>0, <1>1, <1>2, <1>a DEF Apart
    <3> QED
      BY <3>2, <2>2, <1>0, <1>1, <1>2
  <2> QED
    BY <2>1, <2>2
<1>7. Sorted(m2, F2)
  <2> SUFFICES ASSUME NEW x \in F2
               PROVE  /\ m2[x].ptr \in F2
                      /\ \/ x < m2[x].ptr /\ \A y \in F2 : y <= x \/ m2[x].ptr <= y
                         \/ m2[x].ptr = Base /\ \A y \in F2 : y <= x
    BY DEF Sorted
  <2>0. F \subseteq Nat /\ x \in F /\ x # b
    BY <1>0, <1>1
  <2>b. \A y \in F : y <= a \/ b <= y
    BY <1>a, <1>1, <1>0 DEF Sorted, Base
  <2>1. CASE x = a
    <3>1. m[b].ptr \in F /\ m[b].ptr # b
      BY <1>a, <1>1, <2>0 DEF Sorted
    <3>2. (b < m[b].ptr /\ \A y \in F : y <= b \/ m[b].ptr <= y)
            \/ (m[b].ptr = Base /\ \A y \in F : y <= b)
      BY <1>a, <1>1 DEF Sorted
    <3>3. \A y \in F2 : y \in F /\ y # b
      BY <1>1
    <3>4. CASE b < m[b].ptr /\ \A y \in F : y <= b \/ m[b].ptr <= y
      <4>1. a < m[b].ptr
        BY <3>1, <3>4, <2>0, <1>1, <1>0
      <4>2. \A y \in F2 : y <= a \/ m[b].ptr <= y
        BY <3>3, <3>4, <2>b, <2>0, <1>1
      <4> QED
        BY <4>1, <4>2, <3>1, <2>1, <1>1, <1>2
    <3>5. CASE m[b].ptr = Base /\ \A y \in F : y <= b
      <4>1. \A y \in F2 : y <= a
        BY <3>3, <3>5, <2>b, <2>0, <1>1
      <4> QED
        BY <4>1, <3>1, <3>5, <2>1, <1>1, <1>2
    <3> QED
      BY <3>2, <3>4, <3>5
  <2>2. CASE x # a
    <3>1. m2[x].ptr = m[x].ptr
      BY <2>0, <2>2, <1>1, <1>2
    <3>2. m[x].ptr # b
      BY <2>0, <2>2, <1>a, <1>1, <1>0 DEF Sorted, Base
    <3> QED
      BY <3>1, <3>2, <2>0, <1>a, <1>1 DEF Sorted
  <2> QED
    BY <2>1, <2>2
<1>8. Covered(m) => Covered(m2)
  <2> SUFFICES ASSUME Covered(m), NEW u \in 1 .. Units - 1
               PROVE  \E x \in DOMAIN m2 : x <= u /\ u < x + m2[x].size
    BY DEF Covered
  <2>1. PICK x \in DOMAIN m : x <= u /\ u < x + m[x].size
    BY DEF Covered
  <2>2. CASE x # a /\ x # b
    BY <2>1, <2>2, <1>2
  <2>3. CASE x = a \/ x = b
    <3>1. a <= u /\ u < a + m2[a].size
      BY <2>1, <2>3, <1>0, <1>1, <1>2
    <3> QED
      BY <3>1, <1>2
  <2> QED
    BY <2>2, <2>3
<1>9. \A x \in D : m2[x].size = m[x].size
  BY <1>0, <1>1, <1>2
<1>10. ASSUME NEW x \in F2, Touches(m2, F2, x)
       PROVE  \/ x = a /\ Touches(m, F, b)
              \/ x # a /\ Touches(m, F, x)
  <2>1. CASE x = a
    <3>1. a + m2[a].size = b + m[b].size
      BY <1>0, <1>1, <1>2
    <3> QED
      BY <3>1, <2>1, <1>10, <1>1 DEF Touches
  <2>2. CASE x # a
    BY <2>2, <1>10, <1>1, <1>2 DEF Touches
  <2> QED
    BY <2>1, <2>2
<1>11. D \subseteq DOMAIN m2
  BY <1>0, <1>1
<1> QED
  BY <1>3, <1>4, <1>5, <1>6, <1>7, <1>8, <1>9, <1>10, <1>11 DEF Loose, MergedWell

\* Two heaps with the same headers are equally good.
LEMMA SamePoints ==
  ASSUME NEW m, NEW D, Loose(m, D), NEW m2, DOMAIN m2 = DOMAIN m, \A x \in DOMAIN m : m2[x] = m[x]
  PROVE  /\ Loose(m2, D) /\ (Covered(m) => Covered(m2))
         /\ \A x \in DOMAIN m \ D : Touches(m2, DOMAIN m \ D, x) => Touches(m, DOMAIN m \ D, x)
<1>1. D \subseteq DOMAIN m
  BY DEF Loose
<1>2. Headers(m2) /\ Sentinel(m2, DOMAIN m2 \ D) /\ Sizes(m2) /\ Apart(m2)
  BY DEF Loose, Headers, Sentinel, Sizes, Apart
<1>3. Sorted(m2, DOMAIN m2 \ D)
  BY DEF Loose, Sorted
<1> QED
  BY <1>1, <1>2, <1>3 DEF Loose, Covered, Touches

\* _free is a link and at most two merges: in the end no free block touches one.
LEMMA FreeKeeps ==
  ASSUME NEW m, NEW D, Layout(m, D), NEW p \in D
  PROVE  LET q  == Before(m, p)
             m2 == JoinLower(JoinUpper(m, p, m[q].ptr), q, p)
         IN  /\ Layout(m2, D \ {p}) /\ (Covered(m) => Covered(m2))
             /\ \A x \in D \ {p} : m2[x].size = m[x].size
<1> DEFINE q == Before(m, p)
           next == m[q].ptr
           m1 == JoinUpper(m, p, next)
           m2 == JoinLower(m1, q, p)
           F  == DOMAIN m \ D
           D2 == D \ {p}
           up == p + m[p].size = next
           lo == q + m[q].size = p
           mL == [x \in DOMAIN m |->
                    IF x = p THEN [ptr |-> next, size |-> m[p].size]
                    ELSE IF x = q THEN [ptr |-> p, size |-> m[q].size] ELSE m[x]]
           mU == IF up THEN [x \in DOMAIN m \ {next} |->
                               IF x = p THEN [ptr |-> mL[next].ptr, size |-> mL[p].size + mL[next].size]
                               ELSE mL[x]]
                       ELSE mL
<1>0. /\ DOMAIN m \subseteq Nat /\ Units \in Nat /\ DOMAIN m \subseteq Addr /\ D \subseteq DOMAIN m
      /\ \A x \in DOMAIN m : m[x].size \in Nat /\ m[x].size <= Units
      /\ \A x \in DOMAIN m : m[x].ptr \in Nat /\ m[x].ptr < Units
      /\ \A x \in DOMAIN m : m[x] \in Header /\ m[x].ptr \in Addr
  BY LooseTypes DEF Layout, Loose
<1>a. Sorted(m, F) /\ Sentinel(m, F) /\ Sizes(m) /\ Apart(m) /\ Joined(m, F) /\ Headers(m)
  BY DEF Layout
<1>1. q \in F /\ q < p /\ (p < next \/ next = Base) /\ \A b \in F : b <= q \/ p < b
  <2>1. Base \in F /\ F \subseteq DOMAIN m /\ p \in DOMAIN m \ F
    BY <1>0, <1>a DEF Sentinel
  <2> QED
    BY <2>1, <1>a, BeforeFinds
<1> HIDE DEF q
<1>2. /\ p \in DOMAIN m /\ p \notin F /\ p # q /\ p # Base /\ p \in Nat
      /\ q \in DOMAIN m /\ q \notin D /\ next \in F /\ next # p /\ next \in Nat
      /\ up => next # q /\ next # Base
      /\ lo => q # Base
  <2>1. next \in F
    BY <1>1, <1>a DEF Sorted
  <2>2. p \in Nat /\ q \in Nat /\ m[p].size \in Nat /\ next \in Nat
    BY <1>0, <1>1, <2>1
  <2>3. p # Base /\ p # q
    BY <2>2, <1>1 DEF Base
  <2>4. up => next # q /\ next # Base
    BY <2>2, <1>1 DEF Base
  <2>5. lo => q # Base
    BY <2>2, <2>3, <1>a DEF Sentinel, Base
  <2> QED
    BY <2>1, <2>2, <2>3, <2>4, <2>5, <1>0, <1>1
<1> HIDE DEF next
<1>l. /\ DOMAIN mL = DOMAIN m
      /\ mL[p] = [ptr |-> next, size |-> m[p].size] /\ mL[q] = [ptr |-> p, size |-> m[q].size]
      /\ \A x \in DOMAIN m \ {p, q} : mL[x] = m[x]
  BY <1>2
<1> HIDE DEF mL
<1>3. /\ Loose(mL, D2) /\ (Covered(m) => Covered(mL))
      /\ \A x \in DOMAIN m : mL[x].size = m[x].size
      /\ \A x \in DOMAIN m \ D2 : Touches(mL, DOMAIN m \ D2, x) => (x = p /\ up) \/ (x = q /\ lo)
  BY <1>1, <1>2, <1>l, LinkKeeps DEF next
<1>4. /\ DOMAIN mU = IF up THEN DOMAIN m \ {next} ELSE DOMAIN m
      /\ p \in DOMAIN mU /\ q \in DOMAIN mU /\ mU[q] = [ptr |-> p, size |-> m[q].size]
      /\ mU[p] = IF up THEN [ptr |-> m[next].ptr, size |-> m[p].size + m[next].size]
                       ELSE [ptr |-> next, size |-> m[p].size]
      /\ \A x \in DOMAIN mU \ {p, q} : mU[x] = m[x]
  <2>1. CASE up
    <3>1. mL[next] = m[next] /\ mL[p].size = m[p].size
      BY <2>1, <1>2, <1>l
    <3> QED
      BY <3>1, <2>1, <1>2, <1>l
  <2>2. CASE ~up
    BY <2>2, <1>2, <1>l
  <2> QED
    BY <2>1, <2>2
<1>5. /\ Loose(mU, D2) /\ (Covered(m) => Covered(mU))
      /\ \A x \in D2 : mU[x].size = m[x].size
      /\ \A x \in DOMAIN mU \ D2 : Touches(mU, DOMAIN mU \ D2, x) => x = q /\ lo
  <2>1. CASE up
    <3>1. /\ p \in DOMAIN mL \ D2 /\ next = mL[p].ptr /\ p + mL[p].size = next
          /\ DOMAIN mU = DOMAIN mL \ {next}
          /\ mU[p] = [ptr |-> mL[next].ptr, size |-> mL[p].size + mL[next].size]
          /\ \A x \in DOMAIN mL \ {p, next} : mU[x] = mL[x]
      BY <2>1, <1>2, <1>l
    <3> HIDE DEF mU, up, lo, D2
    <3>m. Merged(mL, D2, p, next, mU)
      BY <3>1, <1>2 DEF Merged
    <3>2. /\ Loose(mU, D2) /\ (Covered(mL) => Covered(mU))
          /\ \A x \in D2 : mU[x].size = mL[x].size
          /\ \A x \in DOMAIN mU \ D2 : Touches(mU, DOMAIN mU \ D2, x) =>
               \/ x = p /\ Touches(mL, DOMAIN mL \ D2, next)
               \/ x # p /\ Touches(mL, DOMAIN mL \ D2, x)
      BY <3>m, <1>3, MergeKeeps DEF MergedWell
    <3> QED
      BY <3>1, <3>2, <1>0, <1>2, <1>3, <1>l, <2>1 DEF D2
  <2>2. CASE ~up
    <3>1. mU = mL
      BY <2>2
    <3> HIDE DEF mU, up, lo
    <3> QED
      BY <3>1, <1>0, <1>3, <1>l, <2>2
  <2> QED
    BY <2>1, <2>2
<1>6. /\ DOMAIN m1 = DOMAIN mU /\ m1[p] = mU[p] /\ m1[q] = m[q]
      /\ \A x \in DOMAIN mU \ {p, q} : m1[x] = mU[x]
  <2>1. CASE up
    <3>1. /\ m1 = Keep(Set(m, p, m[next].ptr, m[p].size + m[next].size), DOMAIN m \ {next})
      BY <2>1 DEF JoinUpper
    <3> HIDE DEF m1, mU
    <3>2. DOMAIN m1 = DOMAIN m \ {next} /\ \A x \in DOMAIN m \ {next} :
            m1[x] = Set(m, p, m[next].ptr, m[p].size + m[next].size)[x]
      BY <3>1 DEF Keep
    <3>3. /\ m1[p] = [ptr |-> m[next].ptr, size |-> m[p].size + m[next].size]
          /\ \A x \in DOMAIN m \ {next, p} : m1[x] = m[x]
      BY <3>2, <1>2 DEF Set
    <3> QED
      BY <3>2, <3>3, <2>1, <1>2, <1>4
  <2>2. CASE ~up
    <3>1. m1 = SetPtr(m, p, next)
      BY <2>2 DEF JoinUpper
    <3> HIDE DEF m1, mU
    <3>2. /\ DOMAIN m1 = DOMAIN m /\ m1[p] = [ptr |-> next, size |-> m[p].size]
          /\ \A x \in DOMAIN m \ {p} : m1[x] = m[x]
      BY <3>1, <1>0, <1>2, SetPtrFields
    <3> QED
      BY <3>2, <2>2, <1>2, <1>4
  <2> QED
    BY <2>1, <2>2
<1> HIDE DEF m1, mU
<1>7. /\ Loose(m2, D2) /\ (Covered(mU) => Covered(m2))
      /\ \A x \in D2 : m2[x].size = mU[x].size
      /\ \A x \in DOMAIN m2 \ D2 : ~Touches(m2, DOMAIN m2 \ D2, x)
  <2>0. D2 \subseteq DOMAIN mU
    BY <1>5 DEF Loose
  <2>1. CASE lo
    <3>1. m2 = Keep(Set(m1, q, m1[p].ptr, m1[q].size + m1[p].size), DOMAIN m1 \ {p})
      BY <2>1, <1>6 DEF JoinLower
    <3> HIDE DEF m2
    <3>2. DOMAIN m2 = DOMAIN m1 \ {p} /\ \A x \in DOMAIN m1 \ {p} :
            m2[x] = Set(m1, q, m1[p].ptr, m1[q].size + m1[p].size)[x]
      BY <3>1 DEF Keep
    <3>3. /\ m2[q] = [ptr |-> m1[p].ptr, size |-> m1[q].size + m1[p].size]
          /\ \A x \in DOMAIN m1 \ {p, q} : m2[x] = m1[x]
      BY <3>2, <1>2, <1>4, <1>6 DEF Set
    <3>4. /\ DOMAIN m2 = DOMAIN mU \ {p}
          /\ m2[q] = [ptr |-> mU[p].ptr, size |-> mU[q].size + mU[p].size]
          /\ \A x \in DOMAIN mU \ {q, p} : m2[x] = mU[x]
      BY <3>2, <3>3, <1>4, <1>6
    <3>5. q \in DOMAIN mU \ D2 /\ mU[q].ptr = p /\ q + mU[q].size = p /\ q # Base
      BY <2>1, <1>2, <1>4
    <3> HIDE DEF lo, up, D2
    <3>m. Merged(mU, D2, q, p, m2)
      BY <3>4, <3>5 DEF Merged
    <3>6. /\ Loose(m2, D2) /\ (Covered(mU) => Covered(m2))
          /\ \A x \in D2 : m2[x].size = mU[x].size
          /\ \A x \in DOMAIN m2 \ D2 : Touches(m2, DOMAIN m2 \ D2, x) =>
               \/ x = q /\ Touches(mU, DOMAIN mU \ D2, p)
               \/ x # q /\ Touches(mU, DOMAIN mU \ D2, x)
      BY <3>m, <1>5, MergeKeeps DEF MergedWell
    <3> QED
      BY <3>4, <3>6, <1>2, <1>4, <1>5 DEF D2
  <2>2. CASE ~lo
    <3>1. m2 = SetPtr(m1, q, p)
      BY <2>2, <1>6 DEF JoinLower
    <3> HIDE DEF m2
    <3>2. /\ DOMAIN m2 = DOMAIN m1 /\ m2[q] = [ptr |-> p, size |-> m[q].size]
          /\ \A x \in DOMAIN m1 \ {q} : m2[x] = m1[x]
      BY <3>1, <1>0, <1>2, <1>4, <1>6, SetPtrFields
    <3>3. DOMAIN m2 = DOMAIN mU /\ \A x \in DOMAIN mU : m2[x] = mU[x]
      BY <3>2, <1>4, <1>6
    <3> HIDE DEF lo, up
    <3>4. /\ Loose(m2, D2) /\ (Covered(mU) => Covered(m2))
          /\ \A x \in DOMAIN mU \ D2 : Touches(m2, DOMAIN mU \ D2, x) => Touches(mU, DOMAIN mU \ D2, x)
      BY <3>3, <1>5, SamePoints
    <3> QED
      BY <3>3, <3>4, <2>0, <2>2, <1>5
  <2> QED
    BY <2>1, <2>2
<1> HIDE DEF m2
<1>8. Joined(m2, DOMAIN m2 \ D2)
  BY <1>7 DEF Joined, Touches
<1>9. Layout(m2, D2)
  BY <1>7, <1>8 DEF Loose, Layout
<1>10. (Covered(m) => Covered(m2)) /\ \A x \in D2 : m2[x].size = m[x].size
  BY <1>5, <1>7
<1> QED
  BY <1>9, <1>10 DEF m2, m1, next, q

-----------------------------------------------------------------------------
(***************************************************************************)
(* The bytes asked for fit between the header of the owner's block and the *)
(* next block.                                                             *)
(***************************************************************************)
RoomForAll ==
  \A a \in DOMAIN held : (mem[a].size - 1) * HeapUnitSize >= held[a]

(***************************************************************************)
(* The inductive invariant: the list _malloc works on and the owned blocks *)
(* make a good heap, which covers all units once somebody made one.        *)
(***************************************************************************)
IInv ==
  /\ TypeOK /\ RoomForAll
  /\ Layout(List, DOMAIN held)
  /\ freep = Base => Covered(List)
  /\ freep = Null => DOMAIN held = {}

\* Base is an address, NULL none.
LEMMA BaseIsNotNull == Base # Null /\ Base \in Addr
BY HeapAssumption DEF Base, Null, Addr

\* The units asked for have room for the bytes, and one less would not.
LEMMA UnitsForBytes ==
  ASSUME NEW nbytes \in Nat
  PROVE  /\ NUnits(nbytes) \in Nat \ {0}
         /\ (NUnits(nbytes) - 1) * HeapUnitSize >= nbytes
         /\ ~ ((NUnits(nbytes) - 2) * HeapUnitSize >= nbytes)
<1> DEFINE u == HeapUnitSize
           x == nbytes + u - 1
<1>1. u \in Nat \ {0} /\ x \in Nat
  BY HeapAssumption
<1>2. x \div u \in Nat /\ x < u * (x \div u) + u /\ u * (x \div u) <= x
  BY <1>1, Division
<1>3. NUnits(nbytes) = x \div u + 1
  BY DEF NUnits
<1>4. (NUnits(nbytes) - 1) * u = u * (x \div u) /\ (NUnits(nbytes) - 2) * u = u * (x \div u) - u
  BY <1>1, <1>2, <1>3
<1>5. u * (x \div u) \in Nat
  BY <1>1, <1>2
<1> QED
  BY <1>1, <1>2, <1>3, <1>4, <1>5

\* The heap that nobody made yet, and the one of a single free block.
LEMMA InitInv == Init => IInv
<1> SUFFICES ASSUME Init PROVE IInv
  OBVIOUS
<1>0. Units \in Nat /\ Units > 1 /\ DOMAIN held = {}
  BY HeapAssumption DEF Init, Nothing
<1>1. CASE freep = Null /\ mem = Nothing
  <2>1. /\ DOMAIN List = {Base} /\ List[Base] = [ptr |-> Base, size |-> 0]
    BY <1>1 DEF List
  <2>2. Layout(List, {})
    BY <2>1, <1>0, BaseIsNotNull
    DEF Layout, Headers, Header, Sentinel, Sorted, Sizes, Apart, Joined, Addr, Base
  <2>3. TypeOK /\ RoomForAll
    BY <1>0, <1>1 DEF TypeOK, Nothing, RoomForAll
  <2> QED
    BY <1>0, <1>1, <2>2, <2>3, BaseIsNotNull DEF IInv
<1>2. CASE freep = Base /\ mem = [a \in {0, 1} |-> IF a = Base
                                 THEN [ptr |-> 1, size |-> 0]
                                 ELSE [ptr |-> Base, size |-> Units - 1]]
  <2>1. List = mem
    BY <1>2, BaseIsNotNull DEF List
  <2>2. /\ DOMAIN mem = {0, 1} /\ mem[0] = [ptr |-> 1, size |-> 0]
        /\ mem[1] = [ptr |-> 0, size |-> Units - 1]
    BY <1>2 DEF Base
  <2>3. Headers(mem)
    BY <2>2, <1>0 DEF Headers, Header, Addr
  <2>4. Sentinel(mem, {0, 1}) /\ Sorted(mem, {0, 1})
    BY <2>2 DEF Sentinel, Sorted, Base
  <2>5. Sizes(mem) /\ Apart(mem) /\ Joined(mem, {0, 1})
    BY <2>2, <1>0 DEF Sizes, Apart, Joined, Base
  <2>6. Layout(mem, {})
    BY <2>2, <2>3, <2>4, <2>5 DEF Layout
  <2>7. Covered(mem)
    <3> SUFFICES ASSUME NEW u \in 1 .. Units - 1 PROVE 1 <= u /\ u < 1 + mem[1].size
      BY <2>2 DEF Covered
    <3> QED
      BY <2>2, <1>0
  <2>8. TypeOK /\ RoomForAll
    BY <1>0, <1>2, <2>3 DEF TypeOK, Headers, RoomForAll
  <2> QED
    BY <1>0, <1>2, <2>1, <2>6, <2>7, <2>8, BaseIsNotNull DEF IInv
<1> QED
  BY <1>1, <1>2 DEF Init

\* The parts of the invariant about mem, for a step that has none else.
LEMMA InvFromList ==
  ASSUME IInv, UNCHANGED freep, Headers(mem'), DOMAIN held' \subseteq DOMAIN mem',
         \A a \in DOMAIN held' : held'[a] \in Requests, RoomForAll',
         Layout(List', DOMAIN held'), freep = Base => Covered(List'),
         freep = Null => DOMAIN held' = {}
  PROVE  IInv'
BY DEF IInv, TypeOK, Headers

\* A block a0 of n units is given, one nobody has; nothing else changes hands.
Given(nbytes, n, a0) ==
  /\ freep = Base /\ List = mem /\ List' = mem'
  /\ a0 \notin DOMAIN held /\ Gave(mem, DOMAIN held, n, a0, mem')
  /\ held' = [a \in DOMAIN held \union {a0} |-> IF a = a0 THEN nbytes ELSE held[a]]

\* Every result of _malloc: NULL, a whole block, the tail of a block.
LEMMA MallocResult ==
  ASSUME IInv, NEW nbytes \in Requests, Malloc(nbytes)
  PROVE  /\ UNCHANGED freep
         /\ \/ mem' = List /\ List' = List /\ UNCHANGED held
            \/ \E a0 : Given(nbytes, NUnits(nbytes), a0)
<1> DEFINE n == NUnits(nbytes)
           f == FirstFit(List, n)
           q == f.prevp
           p == f.p
           t == Tail(List, p, n)
           m == List
           D == DOMAIN held
           F == DOMAIN List \ D
<1>0. n \in Nat \ {0}
  BY UnitsForBytes, HeapAssumption
<1>1. Layout(m, D) /\ Headers(m) /\ Sentinel(m, F) /\ Sorted(m, F)
  BY DEF IInv, Layout
<1>2. freep \in {Base, Null} /\ UNCHANGED freep
  BY DEF IInv, TypeOK, Malloc
<1>3. List' = IF freep = Null THEN List ELSE mem'
  BY <1>2 DEF List
<1>4. freep = Base => List = mem
  BY BaseIsNotNull DEF List
<1>5. q \in F /\ p \in F /\ p = m[q].ptr /\ m[p].size \in Nat
  <2>1. q \in F /\ p \in F /\ p = m[q].ptr
    BY <1>0, <1>1, FirstFitFinds
  <2> QED
    BY <2>1, <1>1, FieldTypes
<1>6. freep = Null => m[p].size < n
  <2> SUFFICES ASSUME freep = Null PROVE m[p].size < n
    OBVIOUS
  <2>1. DOMAIN m = {Base}
    BY DEF List
  <2>2. p = Base
    BY <2>1, <1>5
  <2> QED
    BY <2>2, <1>0, <1>1 DEF Sentinel
<1>7. p = Base => m[p].size < n
  BY <1>0, <1>1 DEF Sentinel
<1>m. \/ m[p].size < n /\ mem' = m /\ UNCHANGED held
      \/ m[p].size = n /\ mem' = TakeExact(m, q, p)
           /\ held' = [a \in D \union {p} |-> IF a = p THEN nbytes ELSE held[a]]
      \/ m[p].size > n /\ mem' = SplitTail(m, p, n)
           /\ held' = [a \in D \union {t} |-> IF a = t THEN nbytes ELSE held[a]]
  BY DEF Malloc
<1> HIDE DEF n, p, q, t, m
<1>8. m[p].size >= n => freep = Base /\ m = mem /\ List = mem /\ List' = mem' /\ p # Base
  <2> SUFFICES ASSUME m[p].size >= n
               PROVE  freep = Base /\ m = mem /\ List = mem /\ List' = mem' /\ p # Base
    OBVIOUS
  <2>1. ~(m[p].size < n)
    BY <1>0, <1>5
  <2>2. freep = Base /\ p # Base
    BY <2>1, <1>2, <1>6, <1>7
  <2> QED
    BY <2>2, <1>3, <1>4, BaseIsNotNull DEF m
<1>9. CASE m[p].size < n /\ mem' = m /\ UNCHANGED held
  BY <1>2, <1>3, <1>9 DEF m
<1>10. CASE m[p].size = n /\ mem' = TakeExact(m, q, p)
              /\ held' = [a \in D \union {p} |-> IF a = p THEN nbytes ELSE held[a]]
  <2>1. freep = Base /\ m = mem /\ List = mem /\ List' = mem' /\ p # Base
    BY <1>0, <1>8, <1>10
  <2>2. q \in DOMAIN m \ D /\ p \in DOMAIN m \ D /\ p = m[q].ptr
    BY <1>5 DEF m
  <2>3. Gave(m, D, m[p].size, p, TakeExact(m, q, p))
    BY <2>1, <2>2, <1>1, TakeExactKeeps
  <2>4. Given(nbytes, n, p)
    BY <2>1, <2>2, <2>3, <1>10 DEF Given
  <2> QED
    BY <2>4, <1>2 DEF n
<1>11. CASE m[p].size > n /\ mem' = SplitTail(m, p, n)
              /\ held' = [a \in D \union {t} |-> IF a = t THEN nbytes ELSE held[a]]
  <2>1. freep = Base /\ m = mem /\ List = mem /\ List' = mem' /\ p # Base
    BY <1>0, <1>5, <1>8, <1>11
  <2>2. p \in DOMAIN m \ D /\ t = Tail(m, p, n)
    BY <1>5 DEF t, m
  <2>3. t \notin D /\ Gave(m, D, n, t, SplitTail(m, p, n))
    BY <2>2, <1>0, <1>1, <1>11, SplitTailKeeps
  <2>4. Given(nbytes, n, t)
    BY <2>1, <2>3, <1>11 DEF Given
  <2> QED
    BY <2>4, <1>2 DEF n
<1> QED
  BY <1>m, <1>9, <1>10, <1>11

LEMMA MallocKeeps ==
  ASSUME IInv, NEW nbytes \in Requests, Malloc(nbytes)
  PROVE  IInv'
<1> DEFINE n == NUnits(nbytes)
           D == DOMAIN held
<1>1. n \in Nat \ {0} /\ (n - 1) * HeapUnitSize >= nbytes
  BY UnitsForBytes, HeapAssumption
<1>2. /\ Layout(List, D) /\ Headers(List) /\ D \subseteq DOMAIN List
      /\ freep = Base => Covered(List)
      /\ freep = Null => D = {}
      /\ freep \in {Base, Null}
  BY DEF IInv, Layout, TypeOK
<1>3. UNCHANGED freep
  BY MallocResult
<1>4. \A a \in D : held[a] \in Requests /\ (mem[a].size - 1) * HeapUnitSize >= held[a]
  BY DEF IInv, TypeOK, RoomForAll
<1> HIDE DEF n
<1>5. CASE mem' = List /\ List' = List /\ UNCHANGED held
  <2>1. RoomForAll'
    <3>1. \A a \in D : mem'[a] = mem[a]
      BY <1>2, <1>5, BaseIsNotNull DEF List
    <3> QED
      BY <3>1, <1>4, <1>5 DEF RoomForAll
  <2> QED
    BY <2>1, <1>2, <1>3, <1>4, <1>5, InvFromList
<1>6. ASSUME NEW a0, Given(nbytes, n, a0)
      PROVE  IInv'
  <2>1. /\ freep = Base /\ List = mem /\ List' = mem' /\ Gave(mem, D, n, a0, mem')
        /\ DOMAIN held' = D \union {a0} /\ held'[a0] = nbytes
        /\ \A a \in D \ {a0} : held'[a] = held[a]
    BY <1>6 DEF Given
  <2>2. RoomForAll'
    <3> SUFFICES ASSUME NEW a \in D \union {a0}
                 PROVE  (mem'[a].size - 1) * HeapUnitSize >= held'[a]
      BY <2>1 DEF RoomForAll
    <3>1. CASE a = a0
      BY <3>1, <1>1, <2>1 DEF Gave
    <3>2. CASE a # a0
      <4>1. a \in D /\ held'[a] = held[a] /\ mem'[a].size = mem[a].size
        BY <3>2, <2>1 DEF Gave
      <4> QED
        BY <4>1, <1>4
    <3> QED
      BY <3>1, <3>2
  <2>3. \A a \in DOMAIN held' : held'[a] \in Requests
    BY <2>1, <1>4
  <2>4. Headers(mem') /\ DOMAIN held' \subseteq DOMAIN mem'
    BY <2>1 DEF Gave, Layout
  <2> QED
    BY <2>1, <2>2, <2>3, <2>4, <1>2, <1>3, InvFromList, BaseIsNotNull DEF Gave
<1> QED
  BY <1>5, <1>6, MallocResult DEF n

\* _free of a block that has an owner, which implies that there is a heap.
LEMMA FreeStepKeeps ==
  ASSUME IInv, NEW p \in DOMAIN held, Free(p)
  PROVE  IInv'
<1> DEFINE D == DOMAIN held
<1>1. freep = Base /\ UNCHANGED freep
  BY DEF IInv, TypeOK, Free
<1>2. List = mem /\ List' = mem'
  BY <1>1, BaseIsNotNull DEF List
<1>3. Layout(mem, D) /\ Covered(mem)
  BY <1>1, <1>2 DEF IInv
<1>4. mem' = JoinLower(JoinUpper(mem, p, mem[Before(mem, p)].ptr), Before(mem, p), p)
  BY DEF Free
<1>5. /\ Layout(mem', D \ {p}) /\ Covered(mem')
      /\ \A x \in D \ {p} : mem'[x].size = mem[x].size
  BY <1>3, <1>4, FreeKeeps
<1>6. DOMAIN held' = D \ {p} /\ \A x \in D \ {p} : held'[x] = held[x]
  BY DEF Free, Keep
<1>7. \A a \in D : held[a] \in Requests /\ (mem[a].size - 1) * HeapUnitSize >= held[a]
  BY DEF IInv, TypeOK, RoomForAll
<1>8. RoomForAll'
  <2> SUFFICES ASSUME NEW a \in D \ {p} PROVE (mem'[a].size - 1) * HeapUnitSize >= held'[a]
    BY <1>6 DEF RoomForAll
  <2>1. mem'[a].size = mem[a].size /\ held'[a] = held[a]
    BY <1>5, <1>6
  <2> QED
    BY <2>1, <1>7
<1>9. Headers(mem') /\ DOMAIN held' \subseteq DOMAIN mem'
  BY <1>5, <1>6 DEF Layout
<1> QED
  BY <1>1, <1>2, <1>5, <1>6, <1>7, <1>8, <1>9, InvFromList, BaseIsNotNull

\* Every call keeps the invariant.
LEMMA NextInv == IInv /\ [Next]_vars => IInv'
<1> SUFFICES ASSUME IInv, [Next]_vars PROVE IInv'
  OBVIOUS
<1>1. ASSUME NEW nbytes \in Requests, Malloc(nbytes) PROVE IInv'
  BY <1>1, MallocKeeps
<1>2. ASSUME NEW p \in DOMAIN held, Free(p) PROVE IInv'
  BY <1>2, FreeStepKeeps
<1>3. CASE UNCHANGED vars
  BY <1>3 DEF vars, IInv, TypeOK, RoomForAll, List
<1> QED
  BY <1>1, <1>2, <1>3 DEF Next

\* The headers are good after every sequence of calls of _malloc and _free.
THEOREM Invariance == Spec => []IInv
BY InitInv, NextInv, PTL DEF Spec

-----------------------------------------------------------------------------
\* _malloc and _free write headers with addresses and sizes of the heap only.
THEOREM TypeCorrect == Spec => []TypeOK
BY Invariance, PTL DEF IInv

\* _malloc gives each owner the bytes asked for, and no later call takes any.
THEOREM RoomKept == Spec => []RoomForAll
BY Invariance, PTL DEF IInv

\* The blocks on the list are those without an owner.
LEMMA ListIsFree ==
  ASSUME IInv
  PROVE  OnList = DOMAIN List \ DOMAIN held
<1> DEFINE F == DOMAIN List \ DOMAIN held
<1>1. Headers(List) /\ F \subseteq DOMAIN List /\ Base \in F /\ Sorted(List, F)
  BY DEF IInv, Layout, Sentinel
<1>2. {Chain(List, Base)[k] : k \in Steps(List)} = F
  BY <1>1, ListIsAll
<1> QED
  BY <1>2 DEF OnList

\* The list that _free walks has the free blocks in the order of addresses.
THEOREM InOrder == Spec => []ListInOrder
<1>1. ASSUME IInv PROVE ListInOrder
  <2>1. Sorted(List, OnList) /\ OnList \subseteq Nat
    BY <1>1, ListIsFree, FieldTypes DEF IInv, Layout
  <2> SUFFICES ASSUME NEW a \in OnList
               PROVE  LET above == {b \in OnList : b > a}
                      IN  List[a].ptr = IF above = {} THEN Base ELSE Min(above)
    BY DEF ListInOrder
  <2> DEFINE above == {b \in OnList : b > a}
             next  == List[a].ptr
  <2>2. /\ next \in OnList /\ a \in Nat /\ next \in Nat
        /\ \/ a < next /\ \A b \in OnList : b <= a \/ next <= b
           \/ next = Base /\ \A b \in OnList : b <= a
    BY <2>1 DEF Sorted
  <2> HIDE DEF next
  <2>3. CASE next = Base /\ \A b \in OnList : b <= a
    <3>1. \A b \in OnList : b \in Nat /\ ~(b > a)
      BY <2>1, <2>2, <2>3
    <3>2. above = {}
      BY <3>1
    <3> QED
      BY <3>2, <2>3 DEF next
  <2>4. CASE a < next /\ \A b \in OnList : b <= a \/ next <= b
    <3>1. next \in above /\ \A b \in above : next <= b /\ b \in Nat
      BY <2>1, <2>2, <2>4
    <3>2. above \subseteq Nat /\ above # {}
      BY <3>1
    <3> HIDE DEF above
    <3>3. Min(above) \in above /\ \A b \in above : Min(above) <= b
      BY <3>2, MinIsFirst
    <3>4. Min(above) = next
      <4>1. Min(above) \in Nat /\ Min(above) <= next /\ next <= Min(above)
        BY <3>1, <3>3
      <4> QED
        BY <4>1, <2>2
    <3> QED
      BY <3>2, <3>4 DEF above, next
  <2> QED
    BY <2>2, <2>3, <2>4
<1> QED
  BY <1>1, Invariance, PTL

\* The facts of the invariant on mem, once there is a heap.
LEMMA HeapFacts ==
  ASSUME IInv, freep = Base
  PROVE  /\ List = mem /\ Layout(mem, DOMAIN held) /\ Covered(mem)
         /\ DOMAIN held \subseteq DOMAIN mem
         /\ Headers(mem) /\ Sizes(mem) /\ Apart(mem)
         /\ Sentinel(mem, DOMAIN mem \ DOMAIN held) /\ Sorted(mem, DOMAIN mem \ DOMAIN held)
         /\ Joined(mem, DOMAIN mem \ DOMAIN held)
         /\ DOMAIN mem \subseteq Nat /\ Units \in Nat
         /\ \A a \in DOMAIN mem : mem[a].size \in Nat
<1>1. List = mem
  BY BaseIsNotNull DEF List
<1>2. Layout(mem, DOMAIN held) /\ Covered(mem)
  BY <1>1 DEF IInv
<1> QED
  BY <1>1, <1>2, FieldTypes DEF Layout

\* _malloc and _free lose no unit and give none to two owners.
THEOREM Partitioned == Spec => []Partition
<1>1. ASSUME IInv, freep = Base
      PROVE  /\ DOMAIN mem = OnList \union DOMAIN held /\ OnList \intersect DOMAIN held = {}
             /\ UNION {Block(a) : a \in DOMAIN mem} = 1 .. Units - 1
             /\ \A a, b \in DOMAIN mem : a # b => Block(a) \intersect Block(b) = {}
  <2>0. /\ Sizes(mem) /\ Apart(mem) /\ Covered(mem) /\ Sentinel(mem, DOMAIN mem \ DOMAIN held)
        /\ DOMAIN mem \subseteq Nat /\ Units \in Nat
        /\ \A a \in DOMAIN mem : mem[a].size \in Nat
        /\ DOMAIN held \subseteq DOMAIN mem /\ List = mem
    BY <1>1, HeapFacts
  <2>1. OnList = DOMAIN mem \ DOMAIN held
    BY <1>1, <2>0, ListIsFree
  <2>2. ASSUME NEW u
        PROVE  u \in 1 .. Units - 1 <=> \E a \in DOMAIN mem : u \in Block(a)
    <3>1. ASSUME u \in 1 .. Units - 1 PROVE \E a \in DOMAIN mem : u \in Block(a)
      <4>1. PICK a \in DOMAIN mem : a <= u /\ u < a + mem[a].size
        BY <3>1, <2>0 DEF Covered
      <4> QED
        BY <4>1, <3>1, <2>0 DEF Block
    <3>2. ASSUME NEW a \in DOMAIN mem, u \in Block(a) PROVE u \in 1 .. Units - 1
      <4>1. a # Base
        BY <3>2, <2>0 DEF Block, Sentinel, Base
      <4> QED
        BY <4>1, <3>2, <2>0 DEF Block, Sizes, Base
    <3> QED
      BY <3>1, <3>2
  <2>3. UNION {Block(a) : a \in DOMAIN mem} = 1 .. Units - 1
    BY <2>2
  <2>4. ASSUME NEW a \in DOMAIN mem, NEW b \in DOMAIN mem, a # b, NEW u \in Block(a), u \in Block(b)
        PROVE  FALSE
    <3>1. a < b \/ b < a
      BY <2>0, <2>4
    <3> QED
      BY <3>1, <2>0, <2>4 DEF Block, Apart
  <2> QED
    BY <2>0, <2>1, <2>3, <2>4
<1>2. IInv => Partition
  BY <1>1 DEF Partition
<1> QED
  BY <1>2, Invariance, PTL

(***************************************************************************)
(* _malloc returns NULL only if no run of free units is long enough: such  *)
(* a run lies in one free block, as _free joins each with its neighbours,  *)
(* and the loop of _malloc passes every block of the list.                 *)
(***************************************************************************)
THEOREM NullOnlyIfNone == Spec => []NoneLeft
<1>1. ASSUME IInv, freep = Base, NEW nbytes \in Requests,
             mem[FirstFit(mem, NUnits(nbytes)).p].size < NUnits(nbytes),
             NEW a \in 1 .. Units - NUnits(nbytes),
             \A u \in a .. a + NUnits(nbytes) - 1 : \A h \in DOMAIN held : u \notin Block(h)
      PROVE  FALSE
  <2> DEFINE n == NUnits(nbytes)
             F == DOMAIN mem \ DOMAIN held
  <2>0. /\ Headers(mem) /\ Sizes(mem) /\ Apart(mem) /\ Covered(mem) /\ Sentinel(mem, F) /\ Sorted(mem, F)
        /\ Joined(mem, F) /\ DOMAIN mem \subseteq Nat /\ Units \in Nat
        /\ \A x \in DOMAIN mem : mem[x].size \in Nat
    BY <1>1, HeapFacts
  <2>1. n \in Nat \ {0}
    BY UnitsForBytes, HeapAssumption
  <2>2. \A b \in F : mem[b].size < n
    <3>1. F \subseteq DOMAIN mem
      OBVIOUS
    <3> QED
      BY <3>1, <2>0, <2>1, <1>1, FirstFitFinds
  <2>3. a \in Nat /\ 1 <= a /\ a + n - 1 <= Units - 1
    BY <2>0, <2>1, <1>1
  <2>f. \A u \in a .. a + n - 1 : \A h \in DOMAIN held : u \notin Block(h)
    BY <1>1
  <2> HIDE DEF n
  \* Every unit of the run is in a free block.
  <2>4. ASSUME NEW u \in a .. a + n - 1
        PROVE  \E b \in F : b # Base /\ b <= u /\ u < b + mem[b].size
    <3>1. u \in 1 .. Units - 1
      BY <2>1, <2>3, <2>0
    <3>2. PICK b \in DOMAIN mem : b <= u /\ u < b + mem[b].size
      BY <3>1, <2>0 DEF Covered
    <3>3. u \in Block(b)
      BY <3>1, <3>2, <2>0 DEF Block
    <3>4. b \in F
      BY <3>3, <2>f
    <3>5. b # Base
      BY <3>1, <3>2, <2>0 DEF Sentinel, Base
    <3> QED
      BY <3>2, <3>4, <3>5
  <2>5. PICK b \in F : b # Base /\ b <= a /\ a < b + mem[b].size
    <3>1. a \in a .. a + n - 1
      BY <2>1, <2>3
    <3> QED
      BY <3>1, <2>4
  <2> DEFINE e == b + mem[b].size
  <2>6. e \in a .. a + n - 1
    BY <2>0, <2>1, <2>2, <2>3, <2>5
  <2>7. PICK d \in F : d # Base /\ d <= e /\ e < d + mem[d].size
    BY <2>4, <2>6
  <2>8. d = e
    <3>0. b \in Nat /\ d \in Nat /\ mem[b].size \in Nat /\ mem[d].size \in Nat
      BY <2>0
    <3>1. d # b
      BY <3>0, <2>7
    <3>2. ~(d < b)
      <4> SUFFICES ASSUME d < b PROVE FALSE
        OBVIOUS
      <4>1. d + mem[d].size <= b
        BY <2>0 DEF Apart
      <4> QED
        BY <4>1, <3>0, <2>7
    <3>3. b + mem[b].size <= d
      BY <3>0, <3>1, <3>2, <2>0 DEF Apart
    <3> QED
      BY <3>0, <3>3, <2>7
  <2> QED
    BY <2>0, <2>5, <2>7, <2>8 DEF Joined
<1>2. IInv => NoneLeft
  <2> SUFFICES ASSUME IInv, freep = Base, NEW nbytes \in Requests,
                      mem[FirstFit(mem, NUnits(nbytes)).p].size < NUnits(nbytes),
                      NEW a \in 1 .. Units - NUnits(nbytes)
               PROVE  (a .. a + NUnits(nbytes) - 1) \intersect UNION {Block(h) : h \in DOMAIN held} # {}
    BY DEF NoneLeft
  <2>1. PICK u \in a .. a + NUnits(nbytes) - 1 : \E h \in DOMAIN held : u \in Block(h)
    BY <1>1
  <2> QED
    BY <2>1
<1> QED
  BY <1>2, Invariance, PTL
-----------------------------------------------------------------------------
(***************************************************************************)
(* The abstract allocator: what a call does to the blocks with an owner.   *)
(***************************************************************************)
LEMMA GiveRefines ==
  ASSUME IInv, NEW nbytes \in Requests, NEW a0, Given(nbytes, NUnits(nbytes), a0)
  PROVE  A!Give(nbytes)
<1> DEFINE n == NUnits(nbytes)
           D == DOMAIN held
<1>1. n \in Nat \ {0} /\ A!Enough(n, nbytes) /\ ~ A!Enough(n - 1, nbytes)
  <2>1. n \in Nat \ {0} /\ (n - 1) * HeapUnitSize >= nbytes /\ ~ ((n - 2) * HeapUnitSize >= nbytes)
    BY UnitsForBytes, HeapAssumption
  <2>2. (n - 1) - 1 = n - 2
    BY <2>1
  <2> HIDE DEF n
  <2> QED
    BY <2>1, <2>2 DEF A!Enough
<1> HIDE DEF n
<1>2. /\ a0 \notin D /\ Layout(mem', D \union {a0}) /\ mem'[a0].size = n
      /\ \A x \in D : mem'[x].size = mem[x].size
      /\ held' = [a \in D \union {a0} |-> IF a = a0 THEN nbytes ELSE held[a]]
  BY DEF Given, Gave, n
<1>3. /\ DOMAIN mem' \subseteq Nat /\ D \union {a0} \subseteq DOMAIN mem'
      /\ \A x \in DOMAIN mem' : mem'[x].size \in Nat
  BY <1>2, FieldTypes DEF Layout
<1>4. a0 \in 1 .. Units - n /\ n \in 1 .. Units - 1
  <2>1. a0 # Base /\ a0 \in Nat
    BY <1>2, <1>3 DEF Layout, Sentinel
  <2>2. a0 + n <= Units
    BY <1>2, <1>3, <2>1 DEF Layout, Sizes
  <2> QED
    BY <1>1, <2>1, <2>2, HeapAssumption DEF Base
<1>5. ASSUME NEW b \in D PROVE A!Span(b) \intersect (a0 .. a0 + n - 1) = {}
  <2>1. Owned[b].size = mem'[b].size
    BY <1>2 DEF Owned
  <2>2. b \in Nat /\ a0 \in Nat /\ b # a0 /\ mem'[b].size \in Nat
    BY <1>2, <1>3
  <2>3. b < a0 => b + mem'[b].size <= a0
    BY <1>2, <1>3 DEF Layout, Apart
  <2>4. a0 < b => a0 + n <= b
    BY <1>2, <1>3 DEF Layout, Apart
  <2>5. \A u \in b .. b + mem'[b].size - 1 : u \notin a0 .. a0 + n - 1
    BY <1>1, <2>2, <2>3, <2>4
  <2> QED
    BY <2>1, <2>5 DEF A!Span
<1>6. Owned' = [b \in DOMAIN Owned \union {a0} |->
                  IF b = a0 THEN [size |-> n, asked |-> nbytes] ELSE Owned[b]]
  BY <1>2 DEF Owned
<1> QED
  BY <1>1, <1>4, <1>5, <1>6 DEF A!Give, Owned

LEMMA FreeRefines ==
  ASSUME IInv, NEW p \in DOMAIN held, Free(p)
  PROVE  A!TakeBack(p)
<1>1. freep = Base
  BY DEF IInv, TypeOK
<1>2. Layout(mem, DOMAIN held)
  BY <1>1, BaseIsNotNull DEF IInv, List
<1>3. \A x \in DOMAIN held \ {p} : mem'[x].size = mem[x].size
  BY <1>2, FreeKeeps DEF Free
<1>4. held' = [a \in DOMAIN held \ {p} |-> held[a]]
  BY DEF Free, Keep
<1> QED
  BY <1>3, <1>4 DEF A!TakeBack, Owned

LEMMA StepRefines ==
  IInv /\ [Next]_vars => [A!Next]_Owned
<1> SUFFICES ASSUME IInv, [Next]_vars PROVE [A!Next]_Owned
  OBVIOUS
<1>1. ASSUME NEW nbytes \in Requests, Malloc(nbytes) PROVE [A!Next]_Owned
  <2>1. CASE mem' = List /\ List' = List /\ UNCHANGED held
    <3>1. \A a \in DOMAIN held : mem'[a] = mem[a]
      BY <2>1, BaseIsNotNull DEF IInv, TypeOK, List
    <3>2. Owned' = Owned
      BY <2>1, <3>1 DEF Owned
    <3> QED
      BY <3>2
  <2>2. CASE \E a0 : Given(nbytes, NUnits(nbytes), a0)
    BY <2>2, GiveRefines DEF A!Next
  <2> QED
    BY <1>1, <2>1, <2>2, MallocResult
<1>2. ASSUME NEW p \in DOMAIN held, Free(p) PROVE [A!Next]_Owned
  <2>1. A!TakeBack(p) /\ p \in DOMAIN Owned
    BY <1>2, FreeRefines DEF Owned
  <2> QED
    BY <2>1 DEF A!Next
<1>3. CASE UNCHANGED vars
  BY <1>3 DEF vars, Owned
<1> QED
  BY <1>1, <1>2, <1>3 DEF Next

(***************************************************************************)
(* _malloc and _free implement the allocator their callers rely on, for a  *)
(* heap of any size: a block that is given is nobody's and just large      *)
(* enough, and no other call moves it or changes its size.                 *)
(***************************************************************************)
THEOREM Refinement == Spec => ImplementsAllocator
<1>1. Init => A!Init
  BY DEF Init, Nothing, Owned, A!Init
<1>2. IInv /\ [Next]_vars => [A!Next]_Owned
  BY StepRefines
<1> QED
  BY <1>1, <1>2, Invariance, PTL DEF Spec, A!Spec, ImplementsAllocator

=============================================================================
