--------------------------- MODULE ParallelProofs ---------------------------
(* Proofs about Generate and ParallelTraverse, for every size and seed, any number of
   goroutines, and every schedule. *)
EXTENDS ParallelTraverse, NaturalFacts, FiniteSetTheorems

-----------------------------------------------------------------------------
\* The sum of the vertices of a set.
Total(S) == MapThenSumSet(LAMBDA v : v, S)

LEMMA TotalSums ==
  ASSUME NEW S, IsFiniteSet(S), S \subseteq Nat, NEW w, w = [v \in S |-> v]
  PROVE  \E f : Sums(f, w, S) /\ Total(S) = f[S]
<1> DEFINE R(g) == g = [s \in SUBSET S |-> IF s = {} THEN 0 ELSE (CHOOSE x \in s : TRUE)
                                                           + g[s \ {CHOOSE x \in s : TRUE}]]
<1>1. w \in [S -> Int]
  OBVIOUS
<1>2. ASSUME NEW g
      PROVE  R(g) <=> Sums(g, w, S)
  <2>1. \A s \in SUBSET S : s # {} => w[Pick(s)] = Pick(s)
    BY DEF Pick
  <2> QED BY <2>1 DEF Sums, Pick
<1>3. \E g : R(g)
  <2> HIDE DEF R
  <2> QED BY <1>1, <1>2, SumsExist
<1>4. Total(S) = (CHOOSE g : R(g))[S]
  BY DEF Total, MapThenSumSet, MapThenFoldSet
<1>5. PICK g : R(g) /\ Total(S) = g[S]
  <2> HIDE DEF R
  <2> QED BY <1>3, <1>4
<1> HIDE DEF R
<1> QED BY <1>2, <1>5

LEMMA TotalEmpty == Total({}) = 0
<1>1. PICK w : w = [v \in {} |-> v]
  OBVIOUS
<1>2. PICK f : Sums(f, w, {}) /\ Total({}) = f[{}]
  BY <1>1, FS_EmptySet, TotalSums
<1>3. w \in [{} -> Int]
  BY <1>1
<1> QED BY <1>2, <1>3, FS_EmptySet, SumsType

LEMMA TotalAdd ==
  ASSUME NEW S, IsFiniteSet(S), S \subseteq Nat, NEW x \in Nat, x \notin S
  PROVE  Total(S) \in Int /\ Total(S \cup {x}) = Total(S) + x
<1>1. PICK T : T = S \cup {x} /\ IsFiniteSet(T)
  BY FS_AddElement
<1>2. PICK w, z : w = [v \in T |-> v] /\ z = [v \in S |-> v]
  OBVIOUS
<1>3. PICK f : Sums(f, w, T) /\ Total(T) = f[T]
  BY <1>1, <1>2, TotalSums
<1>4. PICK g : Sums(g, z, S) /\ Total(S) = g[S]
  BY <1>2, TotalSums
<1>5. S \in SUBSET T /\ x \in T \ S /\ w \in [T -> Int] /\ w[x] = x /\ \A v \in S : w[v] = z[v]
  <2>1. S \subseteq T /\ x \in T /\ T \subseteq Nat
    BY <1>1
  <2> QED BY <1>2, <2>1
<1>6. f[S] = g[S]
  <2>1. IsFiniteSet(T)
    BY <1>1
  <2>2. Sums(f, w, T)
    BY <1>3
  <2>3. Sums(g, z, S)
    BY <1>4
  <2>4. Agree(w, z, S)
    BY <1>5 DEF Agree
  <2>5. S \subseteq T
    BY <1>5
  <2> QED BY ONLY <2>1, <2>2, <2>3, <2>4, <2>5, SumsSame
<1>7. f[S \cup {x}] = f[S] + w[x]
  <2>1. IsFiniteSet(T)
    BY <1>1
  <2>2. Sums(f, w, T)
    BY <1>3
  <2>3. AddsUp(f, w, T)
    BY <1>5, <2>1, <2>2, SumsAdd
  <2> QED BY <1>5, <2>3 DEF AddsUp
<1>8. f[S] \in Int
  <2>1. f \in [SUBSET T -> Int]
    BY <1>1, <1>3, <1>5, SumsType
  <2> QED BY <1>5, <2>1
<1> QED BY <1>1, <1>3, <1>4, <1>5, <1>6, <1>7, <1>8

-----------------------------------------------------------------------------
(* The sizes that rmat and grid return, and what they draw. *)

LEMMA BitFacts ==
  /\ Bit \in [Nat -> Nat] /\ Bit[0] = 1
  /\ \A k \in Nat : Bit[k + 1] = 2 * Bit[k]
<1> DEFINE step == [k \in Nat |-> [v \in Nat |-> 2 * v]]
           R(f) == f = [k \in Nat |-> IF k = 0 THEN 1 ELSE 2 * f[k - 1]]
<1>1. PICK f : Solves(f, Nat, 1, step)
  <2>1. Recursion(Nat, 1, step)
    BY DEF Recursion
  <2> HIDE DEF step
  <2> QED BY <2>1, RecursiveFunction
<1>2. f \in [Nat -> Nat] /\ f[0] = 1 /\ \A k \in Nat : f[k + 1] = 2 * f[k]
  BY <1>1 DEF Solves
<1>3. R(f)
  <2>1. \A k \in Nat : f[k] = IF k = 0 THEN 1 ELSE 2 * f[k - 1]
    <3> SUFFICES ASSUME NEW k \in Nat, k # 0
                 PROVE  f[k] = 2 * f[k - 1]
      BY <1>2
    <3>1. k - 1 \in Nat /\ (k - 1) + 1 = k
      OBVIOUS
    <3> QED BY <1>2, <3>1
  <2> QED BY <1>2, <2>1
<1>4. \E h : R(h)
  BY <1>3
<1>5. R(Bit)
  <2>1. Bit = CHOOSE h : R(h)
    BY DEF Bit
  <2> HIDE DEF R
  <2> QED BY <1>4, <2>1
<1>6. \A k \in Nat : Bit[k] = IF k = 0 THEN 1 ELSE 2 * Bit[k - 1]
  BY <1>5
<1>7. Bit[0] = 1
  BY <1>6
<1>8. ASSUME NEW k \in Nat
      PROVE  Bit[k + 1] = 2 * Bit[k]
  <2>1. k + 1 \in Nat /\ k + 1 # 0 /\ (k + 1) - 1 = k
    OBVIOUS
  <2> QED BY <1>6, <2>1
<1> DEFINE T == {k \in Nat : Bit[k] \in Nat}
<1>9. 0 \in T
  BY <1>7
<1>10. ASSUME NEW k \in Nat, k \in T
       PROVE  k + 1 \in T
  <2>1. Bit[k] \in Nat
    BY <1>10
  <2> QED BY <1>8, <2>1
<1>11. \A k \in Nat : k \in T
  <2> HIDE DEF T
  <2> QED BY <1>9, <1>10, SetInduction
<1>12. Bit \in [Nat -> Nat]
  <2>1. Bit = [k \in Nat |-> Bit[k]]
    BY <1>5
  <2> QED BY <1>11, <2>1
<1> QED BY <1>7, <1>8, <1>12

LEMMA BitGrows == \A k \in Nat : Bit[k] > k
<1> DEFINE T == {k \in Nat : Bit[k] > k}
<1>1. 0 \in T
  BY BitFacts
<1>2. ASSUME NEW k \in Nat, k \in T
      PROVE  k + 1 \in T
  <2>1. Bit[k] \in Nat /\ Bit[k] > k /\ Bit[k + 1] = 2 * Bit[k]
    BY <1>2, BitFacts
  <2>2. Bit[k + 1] > k + 1
    BY <2>1
  <2> QED BY <2>2
<1>3. \A k \in Nat : k \in T
  <2> HIDE DEF T
  <2> QED BY <1>1, <1>2, SetInduction
<1> QED BY <1>3

\* The loop of rmat that looks for the scale ends, on one whose bit is not below the size.
LEMMA ScaleFacts ==
  ASSUME NEW want \in Nat \ {0}
  PROVE  Scale(want) \in Nat \ {0} /\ Bit[Scale(want)] \in Nat /\ Bit[Scale(want)] >= want
<1> DEFINE T == {s \in 1 .. (want + 1) : Bit[s] >= want}
<1>1. want \in T
  BY BitGrows, BitFacts
<1>2. T \subseteq Nat
  OBVIOUS
<1>3. Scale(want) \in T
  <2>1. Scale(want) = CHOOSE x \in T : \A y \in T : x <= y
    BY DEF Scale, Min
  <2>2. \E x \in T : \A y \in T : x <= y
    <3> HIDE DEF T
    <3> QED BY <1>1, <1>2, LeastElement
  <2> HIDE DEF T
  <2> QED BY <2>1, <2>2
<1> QED BY <1>3, BitFacts

LEMMA StepsFinite ==
  ASSUME NEW scale \in Nat, NEW U \in SUBSET (1 .. scale)
  PROVE  IsFiniteSet(U)
<1>1. IsFiniteSet(1 .. scale)
  BY FS_Interval
<1> QED BY <1>1, FS_Subset

LEMMA PlacedSums ==
  ASSUME NEW scale, scale = Scale(spec.want), scale \in Nat,
         NEW U \in SUBSET (1 .. scale), NEW w, w = [step \in U |-> Bit[scale - step]]
  PROVE  \E f : Sums(f, w, U) /\ Placed(U) = f[U]
<1> DEFINE R(g) == g = [s \in SUBSET U |-> IF s = {} THEN 0
                                          ELSE Bit[scale - (CHOOSE x \in s : TRUE)]
                                               + g[s \ {CHOOSE x \in s : TRUE}]]
<1>1. w \in [U -> Int]
  <2>1. \A step \in U : scale - step \in Nat
    OBVIOUS
  <2>2. \A step \in U : Bit[scale - step] \in Int
    BY <2>1, BitFacts
  <2> QED BY <2>2
<1>2. ASSUME NEW g
      PROVE  R(g) <=> Sums(g, w, U)
  <2>1. \A s \in SUBSET U : s # {} => w[Pick(s)] = Bit[scale - Pick(s)]
    BY DEF Pick
  <2> QED BY <2>1 DEF Sums, Pick
<1>3. \E g : R(g)
  <2>1. IsFiniteSet(U)
    BY StepsFinite
  <2> HIDE DEF R
  <2> QED BY <1>1, <1>2, <2>1, SumsExist
<1>4. Placed(U) = (CHOOSE g : R(g))[U]
  BY DEF Placed, MapThenSumSet, MapThenFoldSet
<1>5. PICK g : R(g) /\ Placed(U) = g[U]
  <2> HIDE DEF R
  <2> QED BY <1>3, <1>4
<1> HIDE DEF R
<1> QED BY <1>2, <1>5

\* The bits that the steps of rmat set stay below the highest one.
LEMMA PlacedBelow ==
  ASSUME NEW scale, scale = Scale(spec.want), scale \in Nat, NEW U \in SUBSET (1 .. scale)
  PROVE  Placed(U) \in 0 .. (Bit[scale] - 1)
<1>1. PICK w : w = [step \in U |-> Bit[scale - step]]
  OBVIOUS
<1>2. PICK f : Sums(f, w, U) /\ Placed(U) = f[U]
  BY <1>1, PlacedSums
<1>3. IsFiniteSet(U)
  BY StepsFinite
<1>4. w \in [U -> Int]
  <2>1. \A step \in U : scale - step \in Nat
    OBVIOUS
  <2>2. \A step \in U : Bit[scale - step] \in Int
    BY <2>1, BitFacts
  <2> QED BY <1>1, <2>2
<1>5. f \in [SUBSET U -> Int] /\ f[{}] = 0
  <2>1. Sums(f, w, U)
    BY <1>2
  <2> QED BY ONLY <1>3, <1>4, <2>1, SumsType
<1>6. AddsUp(f, w, U)
  <2>1. Sums(f, w, U)
    BY <1>2
  <2> QED BY <1>3, <1>4, <2>1, SumsAdd
<1> DEFINE T == {j \in Nat : \A s \in SUBSET U :
                   (\A x \in s : scale - x < j) => f[s] >= 0 /\ f[s] < Bit[j]}
<1>7. 0 \in T
  <2>1. \A s \in SUBSET U : (\A x \in s : scale - x < 0) => s = {}
    OBVIOUS
  <2>2. Bit[0] = 1
    BY BitFacts
  <2>3. \A s \in SUBSET U : (\A x \in s : scale - x < 0) => f[s] >= 0 /\ f[s] < Bit[0]
    <3> SUFFICES ASSUME NEW s \in SUBSET U, s = {} PROVE f[s] = 0
      BY <2>1, <2>2
    <3> QED BY <1>5
  <2> QED BY <2>3
<1>8. ASSUME NEW j \in Nat, j \in T
      PROVE  j + 1 \in T
  <2> SUFFICES ASSUME NEW s \in SUBSET U, \A x \in s : scale - x < j + 1
               PROVE  f[s] >= 0 /\ f[s] < Bit[j + 1]
    OBVIOUS
  <2>1. Bit[j] \in Nat /\ Bit[j + 1] = 2 * Bit[j] /\ f[s] \in Int
    BY <1>5, BitFacts
  <2>2. \A x \in s : x \in Nat /\ x \in 1 .. scale
    OBVIOUS
  <2>3. CASE scale - j \in s
    <3>1. PICK r \in SUBSET U : r = s \ {scale - j}
      OBVIOUS
    <3>2. \A x \in r : scale - x < j
      BY <2>2, <3>1
    <3>3. f[r] >= 0 /\ f[r] < Bit[j] /\ f[r] \in Int
      BY <1>5, <1>8, <3>2
    <3>4. r \cup {scale - j} = s /\ scale - j \in U \ r
      BY <2>3, <3>1
    <3>5. f[s] = f[r] + w[scale - j]
      BY <1>6, <3>4 DEF AddsUp
    <3>6. w[scale - j] = Bit[scale - (scale - j)] /\ scale - (scale - j) = j
      BY <1>1, <3>4
    <3> QED BY <2>1, <3>3, <3>5, <3>6
  <2>4. CASE scale - j \notin s
    <3>1. \A x \in s : scale - x < j
      BY <2>2, <2>4
    <3>2. f[s] >= 0 /\ f[s] < Bit[j]
      BY <1>8, <3>1
    <3> QED BY <2>1, <3>2
  <2> QED BY <2>3, <2>4
<1>9. scale \in T
  <2>1. \A j \in Nat : j \in T
    <3> HIDE DEF T
    <3> QED BY <1>7, <1>8, SetInduction
  <2> QED BY <2>1
<1>10. \A x \in U : scale - x < scale
  OBVIOUS
<1>11. f[U] \in Int /\ f[U] >= 0 /\ f[U] < Bit[scale] /\ Bit[scale] \in Nat
  BY <1>5, <1>9, <1>10, BitFacts
<1> QED BY <1>2, <1>11

LEMMA QuadrantsInRange ==
  ASSUME spec.want \in Nat \ {0}, n = Bit[Scale(spec.want)]
  PROVE  \A p \in Quadrants : p[1] \in Vertex /\ p[2] \in Vertex
<1>1. Scale(spec.want) \in Nat
  BY ScaleFacts
<1>2. \A U \in SUBSET (1 .. Scale(spec.want)) : Placed(U) \in Vertex
  BY <1>1, PlacedBelow DEF Vertex
<1> QED BY <1>2 DEF Quadrants

\* The size that grid looks for exists.
LEMMA SideFacts ==
  ASSUME NEW want \in Nat \ {0}
  PROVE  Side(want) \in Nat /\ Side(want) >= 2
<1> DEFINE T == {k \in 0 .. (want + 1) : 4 * want < (2 * k + 1) * (2 * k + 1)}
           G(k) == (2 * k - 1) * (2 * k - 1) <= 4 * want
                   /\ 4 * want < (2 * k + 1) * (2 * k + 1)
<1>1. want + 1 \in T
  <2>1. PICK r \in Nat : r = want * want
    OBVIOUS
  <2>2. (2 * (want + 1) + 1) * (2 * (want + 1) + 1) = 4 * r + 12 * want + 9
    BY <2>1
  <2> QED BY <2>1, <2>2
<1>2. PICK k \in T : \A l \in T : k <= l
  <2>1. T \subseteq Nat /\ T # {}
    BY <1>1
  <2> HIDE DEF T
  <2> QED BY <2>1, LeastElement
<1>3. (2 * k - 1) * (2 * k - 1) <= 4 * want
  <2>1. CASE k = 0
    BY <2>1
  <2>2. CASE k # 0
    <3>1. k - 1 \in 0 .. (want + 1) /\ ~(k <= k - 1)
      BY <2>2
    <3>2. k - 1 \notin T
      BY <1>2, <3>1
    <3>3. ~(4 * want < (2 * (k - 1) + 1) * (2 * (k - 1) + 1))
      BY <3>1, <3>2
    <3>4. 2 * (k - 1) + 1 = 2 * k - 1 /\ 2 * k - 1 \in Nat
      BY <2>2
    <3>5. PICK d \in Nat : d = 2 * k - 1
      BY <3>4
    <3>6. PICK q \in Nat : q = d * d
      OBVIOUS
    <3>7. ~(4 * want < q)
      BY <3>3, <3>4, <3>5, <3>6
    <3> QED BY <3>5, <3>6, <3>7
  <2> QED BY <2>1, <2>2
<1>4. \E h \in 0 .. (want + 1) : G(h)
  BY <1>2, <1>3
<1>5. PICK h \in 0 .. (want + 1) : h = CHOOSE l \in 0 .. (want + 1) : G(l)
  <2> HIDE DEF G
  <2> QED BY <1>4
<1>6. Side(want) = IF h < 2 THEN 2 ELSE h
  BY <1>5 DEF Side
<1> QED BY <1>6

-----------------------------------------------------------------------------
(* The grid: a vertex is a row and a column. *)

LEMMA PlaceOf ==
  ASSUME NEW k \in Nat \ {0}, NEW a \in 0 .. (k * k - 1)
  PROVE  /\ a % k \in 0 .. (k - 1) /\ a \div k \in 0 .. (k - 1)
         /\ a = (a \div k) * k + (a % k)
<1>1. a \in Nat
  OBVIOUS
<1>2. a = k * (a \div k) + (a % k) /\ a % k \in 0 .. (k - 1) /\ a \div k \in Nat
  BY <1>1, DivisionFacts
<1>3. PICK y \in Nat, x \in 0 .. (k - 1) : y = a \div k /\ x = a % k /\ a = k * y + x
  BY <1>2
<1>4. PICK p \in Nat, q \in Nat : p = k * y /\ q = k * k
  OBVIOUS
<1>5. y < k
  <2> SUFFICES ASSUME k <= y PROVE FALSE
    OBVIOUS
  <2>1. q <= p
    BY <1>4, ProductMonotone
  <2> QED BY <1>3, <1>4, <2>1
<1>6. y * k = k * y
  OBVIOUS
<1> QED BY <1>3, <1>5, <1>6

LEMMA AtPlace ==
  ASSUME NEW k \in Nat \ {0}, NEW y \in 0 .. (k - 1), NEW x \in 0 .. (k - 1)
  PROVE  /\ y * k + x \in 0 .. (k * k - 1)
         /\ (y * k + x) % k = x /\ (y * k + x) \div k = y
<1>1. PICK p \in Nat, q \in Nat : p = y * k /\ q = k * k
  OBVIOUS
<1>2. p + k <= q
  BY <1>1, Multiples
<1>3. p + x \in 0 .. (k * k - 1)
  BY <1>1, <1>2
<1>4. PICK a \in 0 .. (k * k - 1) : a = y * k + x
  BY <1>1, <1>3
<1>5. a % k \in 0 .. (k - 1) /\ a \div k \in 0 .. (k - 1) /\ a = (a \div k) * k + (a % k)
  BY PlaceOf
<1>6. PICK c \in Nat, d \in 0 .. (k - 1) : c = a \div k /\ d = a % k /\ a = c * k + d
  BY <1>5
<1>7. c = y /\ d = x
  <2>1. y * k + x = c * k + d /\ y \in Nat /\ k \in Nat
    BY <1>4, <1>6
  <2> QED BY <2>1, PlaceUnique
<1> QED BY <1>4, <1>6, <1>7

Gap(a, b) == IF a < b THEN b - a ELSE a - b
Near(k, u, v) == Gap(u % k, v % k) + Gap(u \div k, v \div k) = 1

\* The neighbours of a vertex that come after it: the right one and the one below.
LEMMA NextNeighbours ==
  ASSUME NEW k \in Nat \ {0}, NEW u \in 0 .. (k * k - 1), NEW x, x = u % k, NEW y, y = u \div k,
         NEW v
  PROVE  v \in 0 .. (k * k - 1) /\ Near(k, u, v) /\ u < v
           <=> (v = y * k + x + 1 /\ x + 1 < k) \/ (v = (y + 1) * k + x /\ y + 1 < k)
<1>1. x \in 0 .. (k - 1) /\ y \in 0 .. (k - 1) /\ u = y * k + x
  BY PlaceOf
<1>2. PICK p \in Nat : p = y * k
  BY <1>1
<1>3. (y + 1) * k = p + k
  BY <1>1, <1>2
<1>4. CASE v = y * k + x + 1 /\ x + 1 < k
  <2>1. x + 1 \in 0 .. (k - 1)
    BY <1>1, <1>4
  <2>2. v = y * k + (x + 1)
    BY <1>1, <1>2, <1>4
  <2>3. v \in 0 .. (k * k - 1) /\ v % k = x + 1 /\ v \div k = y
    BY <1>1, <2>1, <2>2, AtPlace
  <2>4. Gap(x, x + 1) = 1 /\ Gap(y, y) = 0
    BY <1>1 DEF Gap
  <2>5. u < v
    BY <1>1, <1>2, <1>4
  <2> QED BY <1>4, <2>3, <2>4, <2>5 DEF Near
<1>5. CASE v = (y + 1) * k + x /\ y + 1 < k
  <2>1. y + 1 \in 0 .. (k - 1)
    BY <1>1, <1>5
  <2>2. v \in 0 .. (k * k - 1) /\ v % k = x /\ v \div k = y + 1
    BY <1>1, <1>5, <2>1, AtPlace
  <2>3. Gap(x, x) = 0 /\ Gap(y, y + 1) = 1
    BY <1>1 DEF Gap
  <2>4. u < v
    BY <1>1, <1>2, <1>3, <1>5
  <2> QED BY <1>5, <2>2, <2>3, <2>4 DEF Near
<1>6. ASSUME v \in 0 .. (k * k - 1), Near(k, u, v), u < v
      PROVE  (v = y * k + x + 1 /\ x + 1 < k) \/ (v = (y + 1) * k + x /\ y + 1 < k)
  <2>1. PICK c \in 0 .. (k - 1), d \in 0 .. (k - 1) : c = v % k /\ d = v \div k /\ v = d * k + c
    BY <1>6, PlaceOf
  <2>2. Gap(x, c) + Gap(y, d) = 1
    BY <1>6, <2>1 DEF Near
  <2>3. \/ d = y /\ (c = x + 1 \/ c = x - 1)
        \/ c = x /\ (d = y + 1 \/ d + 1 = y)
    BY <1>1, <2>2 DEF Gap
  <2>4. CASE d = y
    <3>1. v = p + c
      BY <1>2, <2>1, <2>4
    <3>2. c = x + 1
      BY <1>1, <1>2, <1>6, <2>3, <2>4, <3>1
    <3> QED BY <1>1, <1>2, <3>1, <3>2
  <2>5. CASE c = x /\ d = y + 1
    BY <1>1, <2>1, <2>5
  <2>6. CASE c = x /\ d + 1 = y
    <3>1. PICK q \in Nat : q = d * k
      BY <2>1
    <3>2. (d + 1) * k = q + k
      BY <2>1, <3>1
    <3>3. p = q + k
      BY <1>2, <2>6, <3>2
    <3>4. v = q + x /\ u = p + x
      BY <1>1, <1>2, <2>1, <2>6, <3>1
    <3> QED BY <1>1, <1>6, <3>3, <3>4
  <2> QED BY <2>3, <2>4, <2>5, <2>6
<1> QED BY <1>4, <1>5, <1>6

LEMMA NearFacts ==
  ASSUME NEW k \in Nat \ {0}, NEW u \in 0 .. (k * k - 1), NEW v \in 0 .. (k * k - 1)
  PROVE  (Near(k, u, v) <=> Near(k, v, u)) /\ ~Near(k, u, u)
<1>1. u % k \in Int /\ u \div k \in Int /\ v % k \in Int /\ v \div k \in Int
  BY PlaceOf
<1> QED BY <1>1 DEF Near, Gap

\* The links of the grid that its first j vertices have.
PlanarTo(j) ==
  \A u, v \in Vertex :
    Link(u, v) \in edges <=> Near(Side(spec.want), u, v) /\ (u < j \/ v < j)

LEMMA CellFacts ==
  ASSUME NEW k \in Nat \ {0}, k = Side(spec.want), n = k * k, i \in Vertex
  PROVE  /\ \A e \in Cell : \E u, v \in Vertex : e = Link(u, v) /\ u # v
         /\ \A u, v \in Vertex :
              Link(u, v) \in Cell <=> Near(k, u, v) /\ ((i = u /\ u < v) \/ (i = v /\ v < u))
<1>1. PICK x, y : x = i % k /\ y = i \div k
  OBVIOUS
<1>2. PICK After : After = {v \in {y * k + x + 1} : x + 1 < k} \cup {v \in {(y + 1) * k + x} : y + 1 < k}
  OBVIOUS
<1>3. Cell = {Link(i, v) : v \in After} \cup {Link(v, i) : v \in After}
  BY <1>1, <1>2 DEF Cell
<1>4. \A v : v \in After <=> v \in Vertex /\ Near(k, i, v) /\ i < v
  <2>1. \A v : v \in After <=> (v = y * k + x + 1 /\ x + 1 < k) \/ (v = (y + 1) * k + x /\ y + 1 < k)
    BY <1>2
  <2> QED BY <1>1, <2>1, NextNeighbours DEF Vertex
<1>5. \A u, v : i = u /\ u < v => u \in Int
  BY DEF Vertex
<1>6. ASSUME NEW e \in Cell
      PROVE  \E u, v \in Vertex : e = Link(u, v) /\ u # v
  <2>1. PICK v \in After : e = Link(i, v) \/ e = Link(v, i)
    BY <1>3
  <2>2. v \in Vertex /\ i < v /\ i \in Int /\ v \in Int
    BY <1>4 DEF Vertex
  <2>3. i # v
    BY <2>2
  <2> QED BY <2>1, <2>2, <2>3
<1>7. ASSUME NEW u \in Vertex, NEW v \in Vertex
      PROVE  Link(u, v) \in Cell <=> Near(k, u, v) /\ ((i = u /\ u < v) \/ (i = v /\ v < u))
  <2>1. Link(u, v) \in Cell <=> (u = i /\ v \in After) \/ (v = i /\ u \in After)
    BY <1>3 DEF Link
  <2>2. Near(k, u, v) <=> Near(k, v, u)
    BY NearFacts DEF Vertex
  <2>3. u = i /\ v \in After <=> Near(k, u, v) /\ i = u /\ u < v
    BY <1>4
  <2>4. v = i /\ u \in After <=> Near(k, v, u) /\ i = v /\ v < u
    BY <1>4
  <2> QED BY <2>1, <2>2, <2>3, <2>4
<1> QED BY <1>6, <1>7

\* DrawGrid adds the links between vertex i and those after it.
LEMMA PlanarNext ==
  ASSUME NEW k \in Nat \ {0}, k = Side(spec.want), n = k * k, i \in Vertex, PlanarTo(i),
         NEW drawn, drawn = edges \cup Cell
  PROVE  \A u, v \in Vertex : Link(u, v) \in drawn <=> Near(k, u, v) /\ (u < i + 1 \/ v < i + 1)
<1> SUFFICES ASSUME NEW u \in Vertex, NEW v \in Vertex
             PROVE  Link(u, v) \in drawn <=> Near(k, u, v) /\ (u < i + 1 \/ v < i + 1)
  OBVIOUS
<1>1. Link(u, v) \in Cell <=> Near(k, u, v) /\ ((i = u /\ u < v) \/ (i = v /\ v < u))
  BY CellFacts
<1>2. Link(u, v) \in edges <=> Near(k, u, v) /\ (u < i \/ v < i)
  BY DEF PlanarTo
<1>3. Near(k, u, v) => u # v
  BY NearFacts DEF Vertex
<1>4. u \in Int /\ v \in Int /\ i \in Int
  BY DEF Vertex
<1>5. Link(u, v) \in drawn <=> Link(u, v) \in edges \/ Link(u, v) \in Cell
  OBVIOUS
<1>6. CASE Near(k, u, v)
  <2>1. u # v
    BY <1>3, <1>6
  <2>2. ((i = u /\ u < v) \/ (i = v /\ v < u) \/ u < i \/ v < i) <=> (u < i + 1 \/ v < i + 1)
    BY <1>4, <2>1
  <2> QED BY <1>1, <1>2, <1>5, <1>6, <2>2
<1>7. CASE ~Near(k, u, v)
  BY <1>1, <1>2, <1>5, <1>7
<1> QED BY <1>6, <1>7

-----------------------------------------------------------------------------
(* The invariant of the generated graph and of its queries. *)

SizeOf ==
  CASE spec.kind = "er"   -> spec.want
    [] spec.kind = "rmat" -> Bit[Scale(spec.want)]
    [] spec.kind = "grid" -> Side(spec.want) * Side(spec.want)

Phases == {"call", "draw", "mirror", "generated", "sources", "probes", "failed", "run"}

Sized ==
  /\ spec \in Specs /\ i \in Nat /\ phase \in Phases
  /\ phase \in {"call", "failed"} => n = 0 /\ edges = {} /\ i = 0
  /\ phase \notin {"call", "failed"} => spec.kind \in {"er", "rmat", "grid"} /\ n = SizeOf
  /\ phase \in {"call", "failed", "draw", "mirror", "generated"} => queries = <<>>

EdgesInRange == \A e \in edges : \E u, v \in Vertex : e = Link(u, v) /\ u # v

\* The grid has the links of the vertices that were drawn, and all are drawn at the end.
Planar ==
  spec.kind = "grid" /\ phase \notin {"call", "failed"} =>
    /\ PlanarTo(i) /\ i <= n
    /\ phase # "draw" => i = n

QueriesInRange == queries \in Seq([a : Vertex, b : Vertex])

GraphIInv == Sized /\ EdgesInRange /\ Planar /\ Symmetric /\ QueriesInRange /\ QueriesFit

LEMMA WantFacts == spec \in Specs => spec.want \in Nat \ {0}
BY SpecsAssumption

LEMMA SizeOfFacts ==
  ASSUME spec \in Specs, spec.kind \in {"er", "rmat", "grid"}
  PROVE  /\ SizeOf \in Nat \ {0}
         /\ spec.kind = "grid" => \E k \in Nat \ {0} : k = Side(spec.want) /\ SizeOf = k * k
         /\ spec.kind = "rmat" => SizeOf = Bit[Scale(spec.want)]
<1>1. spec.want \in Nat \ {0}
  BY WantFacts
<1>2. CASE spec.kind = "er"
  BY <1>1, <1>2 DEF SizeOf
<1>3. CASE spec.kind = "rmat"
  <2>1. SizeOf = Bit[Scale(spec.want)]
    BY <1>3 DEF SizeOf
  <2>2. Bit[Scale(spec.want)] \in Nat /\ Bit[Scale(spec.want)] >= spec.want
    BY <1>1, ScaleFacts
  <2> QED BY <1>1, <1>3, <2>1, <2>2
<1>4. CASE spec.kind = "grid"
  <2>1. PICK k \in Nat \ {0} : k = Side(spec.want)
    BY <1>1, SideFacts
  <2>2. SizeOf = k * k
    BY <1>4, <2>1 DEF SizeOf
  <2>3. k * 1 <= k * k
    BY <2>1, ProductMonotone
  <2>4. SizeOf \in Nat \ {0}
    BY <2>2, <2>3
  <2> QED BY <1>4, <2>1, <2>2, <2>4
<1> QED BY <1>2, <1>3, <1>4

LEMMA SizeFacts ==
  ASSUME Sized, phase \notin {"call", "failed"}
  PROVE  /\ n \in Nat \ {0}
         /\ spec.kind = "grid" => \E k \in Nat \ {0} : k = Side(spec.want) /\ n = k * k
         /\ spec.kind = "rmat" => n = Bit[Scale(spec.want)]
BY SizeOfFacts DEF Sized

LEMMA NoQueries == ASSUME queries = <<>> PROVE QueriesInRange
BY DEF QueriesInRange

LEMMA GraphInit == Init => GraphIInv
<1> SUFFICES ASSUME Init PROVE GraphIInv
  OBVIOUS
<1>1. Sized /\ EdgesInRange /\ Planar /\ Symmetric /\ QueriesFit
  BY DEF Init, Sized, EdgesInRange, Planar, Symmetric, Generated, QueriesFit, Phases
<1>2. QueriesInRange
  BY NoQueries DEF Init
<1> QED BY <1>1, <1>2 DEF GraphIInv

\* Steps that leave the graph and the queries alone.
LEMMA GraphSame ==
  ASSUME GraphIInv, UNCHANGED <<spec, n, edges, i, queries>>,
         phase' = phase \/ (phase = "sources" /\ phase' = "run")
  PROVE  GraphIInv'
<1> USE DEF GraphIInv
<1>1. Vertex' = Vertex /\ SizeOf' = SizeOf
  BY DEF Vertex, SizeOf
<1>2. Sized'
  BY <1>1 DEF Sized, Phases
<1>3. EdgesInRange' /\ QueriesInRange'
  BY <1>1 DEF EdgesInRange, QueriesInRange
<1>4. PlanarTo(i) <=> PlanarTo(i)'
  BY <1>1 DEF PlanarTo
<1>5. Planar'
  BY <1>4 DEF Planar
<1>6. Symmetric'
  BY DEF Symmetric, Generated
<1>7. QueriesFit'
  BY DEF QueriesFit
<1> QED BY <1>2, <1>3, <1>5, <1>6, <1>7

LEMMA GraphUnknown == GraphIInv /\ Unknown => GraphIInv'
<1> SUFFICES ASSUME GraphIInv, Unknown PROVE GraphIInv'
  OBVIOUS
<1> USE DEF GraphIInv, Unknown
<1>1. Sized' /\ EdgesInRange' /\ Planar' /\ Symmetric' /\ QueriesFit'
  BY DEF Sized, EdgesInRange, Planar, Symmetric, Generated, QueriesFit, Phases
<1>2. QueriesInRange'
  BY DEF Sized, QueriesInRange
<1> QED BY <1>1, <1>2

LEMMA GraphSize == GraphIInv /\ Size => GraphIInv'
<1> SUFFICES ASSUME GraphIInv, Size PROVE GraphIInv'
  OBVIOUS
<1> USE DEF GraphIInv
<1>1. /\ edges = {} /\ i = 0 /\ phase' = "draw" /\ queries = <<>>
      /\ UNCHANGED <<spec, edges, i, queries>>
  BY DEF Size, Sized
<1>2. spec.kind \in {"er", "rmat", "grid"}
  BY SpecsAssumption DEF Size, Sized
<1>3. Sized'
  BY <1>1, <1>2 DEF Size, Sized, SizeOf, Phases
<1>4. n' \in Nat \ {0}
  <2>1. SizeOf \in Nat \ {0}
    BY <1>2, SizeOfFacts DEF Sized
  <2>2. n' = SizeOf
    BY <1>2 DEF Size, SizeOf
  <2> QED BY <2>1, <2>2
<1>5. EdgesInRange' /\ Symmetric' /\ QueriesFit'
  BY <1>1 DEF EdgesInRange, Symmetric, Generated, QueriesFit
<1>6. PlanarTo(i)'
  BY <1>1, <1>4 DEF PlanarTo, Vertex
<1>7. Planar'
  BY <1>1, <1>4, <1>6 DEF Planar
<1>8. QueriesInRange'
  BY <1>1 DEF QueriesInRange
<1> QED BY <1>3, <1>5, <1>7, <1>8

LEMMA GraphDraw == GraphIInv /\ Draw => GraphIInv'
<1> SUFFICES ASSUME GraphIInv, Draw PROVE GraphIInv'
  OBVIOUS
<1> USE DEF GraphIInv
<1>1. /\ phase = "draw" /\ spec.kind \in {"er", "rmat"} /\ i' = i + 1
      /\ UNCHANGED <<spec, n, phase, queries>>
  BY DEF Draw
<1>2. Vertex' = Vertex /\ SizeOf' = SizeOf
  BY <1>1 DEF Vertex, SizeOf
<1>3. PICK p \in (IF spec.kind = "er" THEN Uniform ELSE Quadrants) :
        edges' = edges \cup (IF p[1] = p[2] THEN {} ELSE {Link(p[1], p[2])})
  BY DEF Draw
<1>4. p[1] \in Vertex /\ p[2] \in Vertex
  <2>1. CASE spec.kind = "er"
    BY <1>3, <2>1 DEF Uniform
  <2>2. CASE spec.kind = "rmat"
    <3>1. spec.want \in Nat \ {0} /\ n = Bit[Scale(spec.want)]
      BY <1>1, <2>2, WantFacts, SizeFacts DEF Sized
    <3> QED BY <1>3, <2>2, <3>1, QuadrantsInRange
  <2> QED BY <1>1, <2>1, <2>2
<1>5. Sized'
  BY <1>1, <1>2 DEF Sized
<1>6. EdgesInRange'
  <2> SUFFICES ASSUME NEW e \in edges'
               PROVE  \E u, v \in Vertex : e = Link(u, v) /\ u # v
    BY <1>2 DEF EdgesInRange
  <2>1. CASE e \in edges
    BY <2>1 DEF EdgesInRange
  <2>2. CASE e = Link(p[1], p[2]) /\ p[1] # p[2]
    BY <1>4, <2>2
  <2> QED BY <1>3, <2>1, <2>2
<1>7. Planar' /\ Symmetric' /\ QueriesFit'
  BY <1>1 DEF Planar, Symmetric, Generated, QueriesFit
<1>8. QueriesInRange'
  BY <1>1, <1>2 DEF QueriesInRange
<1> QED BY <1>5, <1>6, <1>7, <1>8

LEMMA GraphDrawGrid == GraphIInv /\ DrawGrid => GraphIInv'
<1> SUFFICES ASSUME GraphIInv, DrawGrid PROVE GraphIInv'
  OBVIOUS
<1> USE DEF GraphIInv
<1>1. /\ phase = "draw" /\ spec.kind = "grid" /\ i < n /\ edges' = edges \cup Cell
      /\ i' = i + 1 /\ UNCHANGED <<spec, n, phase, queries>>
  BY DEF DrawGrid, Draws
<1>2. Vertex' = Vertex /\ SizeOf' = SizeOf
  BY <1>1 DEF Vertex, SizeOf
<1>3. PICK k \in Nat \ {0} : k = Side(spec.want) /\ n = k * k
  BY <1>1, SizeFacts
<1>4. n \in Nat /\ i \in Nat /\ i \in Vertex
  BY <1>1, SizeFacts DEF Sized, Vertex
<1>5. Sized'
  BY <1>1, <1>2 DEF Sized
<1>6. EdgesInRange'
  <2> SUFFICES ASSUME NEW e \in edges'
               PROVE  \E u, v \in Vertex : e = Link(u, v) /\ u # v
    BY <1>2 DEF EdgesInRange
  <2>1. CASE e \in edges
    BY <2>1 DEF EdgesInRange
  <2>2. CASE e \in Cell
    BY <1>3, <1>4, <2>2, CellFacts
  <2> QED BY <1>1, <2>1, <2>2
<1>7. PlanarTo(i)'
  <2>1. PlanarTo(i)
    BY <1>1 DEF Planar
  <2>2. PICK drawn : drawn = edges'
    OBVIOUS
  <2>3. \A u, v \in Vertex : Link(u, v) \in drawn <=> Near(k, u, v) /\ (u < i + 1 \/ v < i + 1)
    BY <1>1, <1>3, <1>4, <2>1, <2>2, PlanarNext
  <2>4. k = Side(spec.want)'
    BY <1>1, <1>3
  <2> QED BY <1>1, <1>2, <2>2, <2>3, <2>4 DEF PlanarTo, Link
<1>8. Planar'
  BY <1>1, <1>4, <1>7 DEF Planar
<1>9. Symmetric' /\ QueriesFit'
  BY <1>1 DEF Symmetric, Generated, QueriesFit
<1>10. QueriesInRange'
  BY <1>1, <1>2 DEF QueriesInRange
<1> QED BY <1>5, <1>6, <1>8, <1>9, <1>10

LEMMA GridSymmetric ==
  ASSUME GraphIInv, phase \notin {"call", "failed"}, spec.kind = "grid"
  PROVE  \A e \in edges : Link(e.to, e.from) \in edges
<1> SUFFICES ASSUME NEW e \in edges PROVE Link(e.to, e.from) \in edges
  OBVIOUS
<1>1. PICK k \in Nat \ {0} : k = Side(spec.want) /\ n = k * k
  BY SizeFacts DEF GraphIInv
<1>2. PICK u \in Vertex, v \in Vertex : e = Link(u, v)
  BY DEF GraphIInv, EdgesInRange
<1>3. e.to = v /\ e.from = u
  BY <1>2 DEF Link
<1>4. PlanarTo(i)
  BY DEF GraphIInv, Planar
<1>5. Near(k, u, v) <=> Near(k, v, u)
  BY <1>1, NearFacts DEF Vertex
<1> QED BY <1>1, <1>2, <1>3, <1>4, <1>5 DEF PlanarTo

LEMMA GraphDrawn == GraphIInv /\ Drawn => GraphIInv'
<1> SUFFICES ASSUME GraphIInv, Drawn PROVE GraphIInv'
  OBVIOUS
<1> USE DEF GraphIInv
<1>1. /\ phase = "draw" /\ i = Draws /\ UNCHANGED <<spec, n, edges, i, queries>>
      /\ phase' = IF spec.undirected THEN "mirror" ELSE "generated"
  BY DEF Drawn
<1>2. Vertex' = Vertex /\ SizeOf' = SizeOf
  BY <1>1 DEF Vertex, SizeOf
<1>3. phase' \in {"mirror", "generated"} /\ (phase' = "generated" => ~spec.undirected)
  BY <1>1
<1>4. Sized'
  BY <1>1, <1>2, <1>3 DEF Sized, Phases
<1>5. EdgesInRange' /\ QueriesInRange'
  BY <1>1, <1>2 DEF EdgesInRange, QueriesInRange
<1>6. PlanarTo(i) <=> PlanarTo(i)'
  BY <1>1, <1>2 DEF PlanarTo
<1>7. Planar'
  BY <1>1, <1>3, <1>6 DEF Planar, Draws
<1>8. Symmetric'
  BY <1>1, <1>3, GridSymmetric DEF Symmetric, Generated
<1>9. QueriesFit'
  BY <1>3 DEF QueriesFit
<1> QED BY <1>4, <1>5, <1>7, <1>8, <1>9

LEMMA GraphMirror == GraphIInv /\ Mirror => GraphIInv'
<1> SUFFICES ASSUME GraphIInv, Mirror PROVE GraphIInv'
  OBVIOUS
<1> USE DEF GraphIInv
<1>1. /\ phase = "mirror" /\ phase' = "generated" /\ UNCHANGED <<spec, n, i, queries>>
      /\ edges' = edges \cup {Link(e.to, e.from) : e \in edges}
  BY DEF Mirror
<1>2. Vertex' = Vertex /\ SizeOf' = SizeOf
  BY <1>1 DEF Vertex, SizeOf
<1>3. Sized'
  BY <1>1, <1>2 DEF Sized, Phases
<1>4. QueriesInRange'
  BY <1>1, <1>2 DEF QueriesInRange
<1>5. \A e \in edges : e = Link(e.from, e.to) /\ e.from \in Vertex /\ e.to \in Vertex /\ e.from # e.to
  BY DEF EdgesInRange, Link
<1>6. EdgesInRange'
  <2> SUFFICES ASSUME NEW e \in edges'
               PROVE  \E u, v \in Vertex : e = Link(u, v) /\ u # v
    BY <1>2 DEF EdgesInRange
  <2>1. CASE e \in edges
    BY <1>5, <2>1
  <2>2. CASE e \notin edges
    <3>1. PICK f \in edges : e = Link(f.to, f.from)
      BY <1>1, <2>2
    <3> QED BY <1>5, <3>1
  <2> QED BY <2>1, <2>2
<1>7. \A e \in edges' : Link(e.to, e.from) \in edges'
  <2> SUFFICES ASSUME NEW e \in edges' PROVE Link(e.to, e.from) \in edges'
    OBVIOUS
  <2>1. CASE e \in edges
    BY <1>1, <2>1
  <2>2. CASE e \notin edges
    <3>1. PICK f \in edges : e = Link(f.to, f.from)
      BY <1>1, <2>2
    <3>2. Link(e.to, e.from) = f
      BY <1>5, <3>1 DEF Link
    <3> QED BY <1>1, <3>2
  <2> QED BY <2>1, <2>2
<1>8. Symmetric'
  BY <1>7 DEF Symmetric, Link
<1>9. spec.kind = "grid" => edges' = edges
  BY <1>1, GridSymmetric
<1>10. Planar'
  BY <1>1, <1>2, <1>9 DEF Planar, PlanarTo
<1>11. QueriesFit'
  BY <1>1 DEF QueriesFit
<1> QED BY <1>3, <1>4, <1>6, <1>8, <1>10, <1>11

-----------------------------------------------------------------------------
(* The generators of queries. *)

LEMMA FunctionIsSeq ==
  ASSUME NEW S, NEW l \in Nat, NEW q \in [1 .. l -> S]
  PROVE  q \in Seq(S)
OBVIOUS

LEMMA SeqFacts ==
  ASSUME NEW S, NEW q \in Seq(S)
  PROVE  /\ Len(q) \in Nat /\ DOMAIN q = 1 .. Len(q)
         /\ \A j \in DOMAIN q : q[j] \in S
OBVIOUS

LEMMA SomeVertex ==
  ASSUME GraphIInv, phase \notin {"call", "failed"}
  PROVE  0 \in Vertex
BY SizeFacts DEF GraphIInv, Vertex

LEMMA GraphSources == GraphIInv /\ randomSources => GraphIInv'
<1> SUFFICES ASSUME GraphIInv, randomSources PROVE GraphIInv'
  OBVIOUS
<1> USE DEF GraphIInv
<1>1. phase = "generated" /\ phase' = "sources" /\ UNCHANGED <<spec, n, edges, i>>
  BY DEF randomSources
<1>2. Vertex' = Vertex /\ SizeOf' = SizeOf
  BY <1>1 DEF Vertex, SizeOf
<1>3. PICK count \in Nat : queries' \in [1 .. count -> [a : Candidates, b : {0}]]
  BY SpecsAssumption DEF randomSources
<1>4. Candidates \subseteq Vertex /\ 0 \in Vertex
  <2>1. 0 \in Vertex
    BY <1>1, SomeVertex
  <2> QED BY <2>1 DEF Candidates, EdgesInRange, Link
<1>5. queries' \in [1 .. count -> [a : Vertex, b : Vertex]]
  BY <1>3, <1>4
<1>6. QueriesInRange'
  BY <1>2, <1>5, FunctionIsSeq DEF QueriesInRange
<1>7. edges # {} => \A q \in Range(queries') : \E e \in edges : e.from = q.a
  <2> SUFFICES ASSUME edges # {}, NEW q \in Range(queries')
               PROVE  \E e \in edges : e.from = q.a
    OBVIOUS
  <2>1. q.a \in Candidates
    BY <1>3 DEF Range
  <2>2. Candidates = {e.from : e \in edges}
    BY DEF Candidates
  <2> QED BY <2>1, <2>2
<1>8. QueriesFit'
  BY <1>1, <1>7 DEF QueriesFit
<1>9. Sized'
  BY <1>1, <1>2 DEF Sized, Phases
<1>10. EdgesInRange' /\ Symmetric'
  BY <1>1, <1>2 DEF EdgesInRange, Symmetric, Generated
<1>11. Planar'
  BY <1>1, <1>2 DEF Planar, PlanarTo
<1> QED BY <1>6, <1>8, <1>9, <1>10, <1>11

\* Every second element of a range is at least half of it.
LEMMA HalfOfRange ==
  ASSUME NEW l \in Nat, NEW A \in SUBSET (1 .. l),
         \A j \in 1 .. l : (j - 1) % 2 = 0 => j \in A
  PROVE  2 * Cardinality(A) >= l
<1>1. PICK m \in Nat : l = 2 * m \/ l = 2 * m - 1
  <2>1. l = 2 * (l \div 2) + (l % 2) /\ l % 2 \in 0 .. 1 /\ l \div 2 \in Nat
    OBVIOUS
  <2>2. CASE l % 2 = 0
    BY <2>1, <2>2
  <2>3. CASE l % 2 = 1
    <3>1. (l \div 2) + 1 \in Nat /\ l = 2 * ((l \div 2) + 1) - 1
      BY <2>1, <2>3
    <3> QED BY <3>1
  <2> QED BY <2>1, <2>2, <2>3
<1>2. PICK h : h = [j \in 1 .. m |-> 2 * j - 1]
  OBVIOUS
<1>3. \A j \in 1 .. m : 2 * j - 1 \in A
  <2> SUFFICES ASSUME NEW j \in 1 .. m PROVE 2 * j - 1 \in A
    OBVIOUS
  <2>1. 2 * j - 1 \in 1 .. l
    BY <1>1
  <2>2. ((2 * j - 1) - 1) % 2 = 0
    OBVIOUS
  <2> QED BY <2>1, <2>2
<1>4. h \in Injection(1 .. m, A)
  BY <1>2, <1>3 DEF Injection, IsInjective
<1>5. IsFiniteSet(A) /\ Cardinality(1 .. m) = m
  <2>1. IsFiniteSet(1 .. l)
    BY FS_Interval
  <2>2. IsFiniteSet(A)
    BY <2>1, FS_Subset
  <2>3. Cardinality(1 .. m) = IF 1 > m THEN 0 ELSE m - 1 + 1
    BY FS_Interval
  <2> QED BY <2>2, <2>3
<1>6. m <= Cardinality(A) /\ Cardinality(A) \in Nat
  BY <1>4, <1>5, FS_Injection, FS_CardinalityType
<1> QED BY <1>1, <1>6

LEMMA GraphProbes == GraphIInv /\ edgeProbes => GraphIInv'
<1> SUFFICES ASSUME GraphIInv, edgeProbes PROVE GraphIInv'
  OBVIOUS
<1> USE DEF GraphIInv
<1>1. phase = "generated" /\ phase' = "probes" /\ UNCHANGED <<spec, n, edges, i>>
  BY DEF edgeProbes
<1>2. Vertex' = Vertex /\ SizeOf' = SizeOf
  BY <1>1 DEF Vertex, SizeOf
<1>3. PICK count \in Nat : /\ queries' \in [1 .. count -> [a : Vertex, b : Vertex]]
                           /\ \A j \in 1 .. count : queries'[j] \in Probes(j)
  BY SpecsAssumption DEF edgeProbes
<1>4. QueriesInRange'
  BY <1>2, <1>3, FunctionIsSeq DEF QueriesInRange
<1>5. DOMAIN queries' = 1 .. count /\ Len(queries') = count
  BY <1>3
<1>6. ASSUME edges # {}
      PROVE  2 * Cardinality({j \in 1 .. count : Link(queries'[j].a, queries'[j].b) \in edges}) >= count
  <2> DEFINE A == {j \in 1 .. count : Link(queries'[j].a, queries'[j].b) \in edges}
  <2>1. ASSUME NEW j \in 1 .. count, (j - 1) % 2 = 0
        PROVE  j \in A
    <3>1. PICK e \in edges : queries'[j] = [a |-> e.from, b |-> e.to]
      BY <1>3, <1>6, <2>1 DEF Probes
    <3>2. Link(queries'[j].a, queries'[j].b) = e
      BY <3>1 DEF EdgesInRange, Link
    <3> QED BY <3>2
  <2>2. A \in SUBSET (1 .. count)
    OBVIOUS
  <2> HIDE DEF A
  <2>3. 2 * Cardinality(A) >= count
    BY <2>1, <2>2, HalfOfRange
  <2> QED BY <2>3 DEF A
<1>7. QueriesFit'
  BY <1>1, <1>5, <1>6 DEF QueriesFit, Link
<1>8. Sized'
  BY <1>1, <1>2 DEF Sized, Phases
<1>9. EdgesInRange' /\ Symmetric'
  BY <1>1, <1>2 DEF EdgesInRange, Symmetric, Generated
<1>10. Planar'
  BY <1>1, <1>2 DEF Planar, PlanarTo
<1> QED BY <1>4, <1>7, <1>8, <1>9, <1>10

LEMMA GraphNext == GraphIInv /\ [NextRun]_vars => GraphIInv'
<1> SUFFICES ASSUME GraphIInv, [NextRun]_vars PROVE GraphIInv'
  OBVIOUS
<1>1. CASE Generate
  BY <1>1, GraphUnknown, GraphSize, GraphDraw, GraphDrawGrid, GraphDrawn, GraphMirror,
     GraphSources, GraphProbes DEF Generate
<1>2. CASE Start
  BY <1>2, GraphSame DEF Start
<1>3. CASE \E k \in Workers : Step(k)
  <2>1. UNCHANGED graphVars
    BY <1>3 DEF Step, Claim, Reset, Walk, Reply
  <2> QED BY <2>1, GraphSame DEF graphVars
<1>4. CASE UNCHANGED vars
  BY <1>4, GraphSame DEF vars, graphVars
<1> QED BY <1>1, <1>2, <1>3, <1>4 DEF NextRun, Stay

LEMMA GraphInvariant == Spec => []GraphIInv
<1>1. InitRun => GraphIInv
  BY GraphInit DEF InitRun
<1> QED BY <1>1, GraphNext, PTL DEF Spec

\* Every graph that Generate returns is well formed, for every topology, size and degree:
\* no edge and no query names a vertex beyond the size that rmat and grid adjusted.
THEOREM GraphsAreWellFormed == Spec => []GraphWellFormed
<1>1. GraphIInv => GraphWellFormed
  <2> SUFFICES ASSUME GraphIInv PROVE GraphWellFormed
    OBVIOUS
  <2>1. InRange
    <3>1. \A e \in edges : e.from \in Vertex /\ e.to \in Vertex /\ e.from # e.to
      BY DEF GraphIInv, EdgesInRange, Link
    <3>2. \A q \in Range(queries) : q.a \in Vertex /\ q.b \in Vertex
      <4>1. queries \in Seq([a : Vertex, b : Vertex])
        BY DEF GraphIInv, QueriesInRange
      <4>2. \A j \in DOMAIN queries : queries[j] \in [a : Vertex, b : Vertex]
        BY <4>1, SeqFacts
      <4> QED BY <4>2 DEF Range
    <3> QED BY <3>1, <3>2 DEF InRange
  <2>2. GridIsPlanar
    <3> SUFFICES ASSUME Generated, spec.kind = "grid", NEW u \in Vertex, NEW v \in Vertex
                 PROVE  Link(u, v) \in edges <=> Near(Side(spec.want), u, v)
      BY DEF GridIsPlanar, Near, Gap
    <3>1. PlanarTo(i) /\ i = n
      BY DEF GraphIInv, Planar, Generated
    <3>2. n \in Nat /\ u < n
      BY SizeFacts DEF GraphIInv, Generated, Vertex
    <3> QED BY <3>1, <3>2 DEF PlanarTo
  <2> QED BY <2>1, <2>2 DEF GraphIInv, GraphWellFormed
<1> QED BY <1>1, GraphInvariant, PTL

\* A traversal starts on a vertex without an edge out only when no vertex has one, and half
\* of the probes of hasedge at least are edges, for every size of a batch.
THEOREM QueriesAreFit == Spec => []QueriesFit
<1>1. GraphIInv => QueriesFit
  BY DEF GraphIInv
<1> QED BY <1>1, GraphInvariant, PTL

-----------------------------------------------------------------------------
(* The neighbours in order, and what can be reached. *)

Closed(C) == \A u \in C : Neighbors(u) \subseteq C

Post(S) == S \cup UNION {Neighbors(u) : u \in S}

\* The vertices at a distance of at most k from s.
Balls(B, s) ==
  B \in [Nat -> SUBSET Vertex] /\ B[0] = {s} /\ \A k \in Nat : B[k + 1] = Post(B[k])

LEMMA BallsExist ==
  ASSUME EdgesInRange, NEW s \in Vertex
  PROVE  \E B : Balls(B, s)
<1> DEFINE V == SUBSET Vertex
           step == [k \in Nat |-> [S \in V |-> Post(S)]]
<1>1. \A S \in V : Post(S) \in V
  BY DEF Post, Neighbors, EdgesInRange, Link
<1>2. Recursion(V, {s}, step)
  <2>1. {s} \in V
    OBVIOUS
  <2> HIDE DEF V
  <2> QED BY <1>1, <2>1 DEF Recursion
<1>3. PICK B : Solves(B, V, {s}, step)
  <2> HIDE DEF V, step
  <2> QED BY <1>2, RecursiveFunction
<1> QED BY <1>3 DEF Solves, Balls

\* Reach, which is a fold over as many steps as there are vertices, is the last ball.
LEMMA ReachIsBall ==
  ASSUME n \in Nat, NEW s \in Vertex, NEW B, Balls(B, s)
  PROVE  Reach(s) = B[n]
<1> DEFINE Steps == SUBSET (1 .. n)
           R(g) == g = [t \in SUBSET (1 .. n) |->
                          IF t = {} THEN {s}
                          ELSE g[t \ {CHOOSE x \in t : TRUE}]
                               \cup UNION {Neighbors(u) : u \in g[t \ {CHOOSE x \in t : TRUE}]}]
<1>0. B[0] = {s} /\ \A k \in Nat : B[k + 1] = Post(B[k])
  BY DEF Balls
<1>1. IsFiniteSet(1 .. n) /\ Cardinality(1 .. n) = n
  <2>1. Cardinality(1 .. n) = IF 1 > n THEN 0 ELSE n - 1 + 1
    BY FS_Interval
  <2> QED BY <2>1, FS_Interval
<1>2. \A t \in Steps : IsFiniteSet(t) /\ Cardinality(t) \in Nat
  BY <1>1, FS_Subset, FS_CardinalityType
<1>3. ASSUME NEW t \in Steps, t # {}
      PROVE  \E k \in Nat : Cardinality(t) = k + 1 /\ Cardinality(t \ {CHOOSE x \in t : TRUE}) = k
  <2>1. PICK p \in t : p = CHOOSE x \in t : TRUE
    BY <1>3
  <2>2. Cardinality(t) # 0
    BY <1>2, <1>3, FS_EmptySet
  <2>3. Cardinality(t \ {p}) = Cardinality(t) - 1
    BY <1>2, FS_RemoveElement
  <2>4. Cardinality(t) - 1 \in Nat /\ Cardinality(t) = Cardinality(t) - 1 + 1
    BY <1>2, <2>2
  <2> QED BY <2>1, <2>3, <2>4
<1>4. Cardinality({}) = 0
  BY FS_EmptySet
<1>5. \E g : R(g)
  <2>1. PICK g : g = [t \in SUBSET (1 .. n) |-> B[Cardinality(t)]]
    OBVIOUS
  <2>2. ASSUME NEW t \in Steps
        PROVE  g[t] = IF t = {} THEN {s} ELSE Post(g[t \ {CHOOSE x \in t : TRUE}])
    <3>1. CASE t = {}
      BY <1>0, <1>4, <2>1, <3>1
    <3>2. CASE t # {}
      <4>1. PICK k \in Nat : /\ Cardinality(t) = k + 1
                             /\ Cardinality(t \ {CHOOSE x \in t : TRUE}) = k
        BY <1>3, <3>2
      <4>2. t \ {CHOOSE x \in t : TRUE} \in Steps
        OBVIOUS
      <4>3. g[t] = B[k + 1] /\ g[t \ {CHOOSE x \in t : TRUE}] = B[k]
        BY <2>1, <4>1, <4>2
      <4> QED BY <1>0, <3>2, <4>3
    <3> QED BY <3>1, <3>2
  <2>3. g = [t \in SUBSET (1 .. n) |-> g[t]]
    BY <2>1
  <2>4. R(g)
    BY <2>2, <2>3 DEF Post
  <2> HIDE DEF R
  <2> QED BY <2>4
<1>6. Reach(s) = (CHOOSE g : R(g))[1 .. n]
  BY DEF Reach, FoldSet, MapThenFoldSet
<1>7. PICK g : R(g) /\ Reach(s) = g[1 .. n]
  <2> HIDE DEF R
  <2> QED BY <1>5, <1>6
<1>8. \A t \in Steps : g[t] = IF t = {} THEN {s} ELSE Post(g[t \ {CHOOSE x \in t : TRUE}])
  BY <1>7 DEF Post
<1> HIDE DEF R
<1> DEFINE W == {t \in Steps : g[t] = B[Cardinality(t)]}
<1>9. ASSUME NEW t \in Steps, \A x \in t : t \ {x} \in W
      PROVE  t \in W
  <2>1. CASE t = {}
    BY <1>0, <1>4, <1>8, <2>1
  <2>2. CASE t # {}
    <3>1. PICK p \in t : p = CHOOSE x \in t : TRUE
      BY <2>2
    <3>2. PICK k \in Nat : Cardinality(t) = k + 1 /\ Cardinality(t \ {p}) = k
      BY <1>3, <2>2, <3>1
    <3>3. g[t \ {p}] = B[k]
      BY <1>9, <3>2
    <3>4. g[t] = Post(g[t \ {p}])
      BY <1>8, <2>2, <3>1
    <3> QED BY <1>0, <3>2, <3>3, <3>4
  <2> QED BY <2>1, <2>2
<1>10. 1 .. n \in W
  <2>1. \A t \in Steps : t \in W
    <3> HIDE DEF W
    <3> QED BY <1>1, <1>9, SubsetInduction
  <2> QED BY <2>1
<1> QED BY <1>1, <1>7, <1>10

\* A ball is closed or has more vertices than its radius.
LEMMA BallsGrow ==
  ASSUME n \in Nat, NEW s \in Vertex, NEW B, Balls(B, s)
  PROVE  Closed(B[n]) /\ s \in B[n]
<1>1. /\ B \in [Nat -> SUBSET Vertex] /\ B[0] = {s} /\ \A k \in Nat : B[k + 1] = Post(B[k])
  BY DEF Balls
<1>2. IsFiniteSet(Vertex) /\ Cardinality(Vertex) = n
  <2>1. IsFiniteSet(0 .. (n - 1))
    BY FS_Interval
  <2>2. Cardinality(0 .. (n - 1)) = IF 0 > n - 1 THEN 0 ELSE (n - 1) - 0 + 1
    BY FS_Interval
  <2> QED BY <2>1, <2>2 DEF Vertex
<1>3. \A k \in Nat : IsFiniteSet(B[k]) /\ Cardinality(B[k]) \in Nat /\ Cardinality(B[k]) <= n
  <2> SUFFICES ASSUME NEW k \in Nat
               PROVE  IsFiniteSet(B[k]) /\ Cardinality(B[k]) \in Nat /\ Cardinality(B[k]) <= n
    OBVIOUS
  <2>1. B[k] \in SUBSET Vertex
    BY <1>1
  <2> QED BY <1>2, <2>1, FS_Subset, FS_CardinalityType
<1> DEFINE T == {k \in Nat : s \in B[k] /\ (Closed(B[k]) \/ Cardinality(B[k]) > k)}
<1>4. 0 \in T
  <2>1. Cardinality({s}) = 1
    BY FS_Singleton
  <2>2. Cardinality(B[0]) > 0
    BY <1>1, <2>1
  <2> QED BY <1>1, <2>2
<1>5. ASSUME NEW k \in Nat, k \in T
      PROVE  k + 1 \in T
  <2>1. PICK S, P : S = B[k] /\ P = B[k + 1] /\ P = Post(S)
    BY <1>1
  <2>2. S \subseteq P /\ s \in S /\ (Closed(S) \/ Cardinality(S) > k)
    BY <1>5, <2>1 DEF Post
  <2>3. CASE P = S
    <3>1. Closed(S)
      <4>1. \A u \in S : Neighbors(u) \subseteq Post(S)
        BY DEF Post
      <4>2. Post(S) = S
        BY <2>1, <2>3
      <4> QED BY <4>1, <4>2 DEF Closed
    <3>2. s \in B[k + 1] /\ Closed(B[k + 1]) /\ k + 1 \in Nat
      BY <2>1, <2>2, <2>3, <3>1
    <3> QED BY <3>2
  <2>4. CASE P # S
    <3>1. ~Closed(S)
      <4>1. Closed(S) => Post(S) = S
        BY DEF Post, Closed
      <4>2. Post(S) # S
        BY <2>1, <2>4
      <4> QED BY <4>1, <4>2
    <3>2. IsFiniteSet(P) /\ S \in SUBSET P /\ Cardinality(S) \in Nat /\ Cardinality(P) \in Nat
      <4>1. k + 1 \in Nat
        OBVIOUS
      <4> QED BY <1>3, <2>1, <2>2, <4>1
    <3>3. Cardinality(S) < Cardinality(P)
      BY <2>4, <3>2, FS_Subset
    <3>4. Cardinality(P) > k + 1
      BY <2>2, <3>1, <3>2, <3>3
    <3>5. s \in B[k + 1] /\ Cardinality(B[k + 1]) > k + 1 /\ k + 1 \in Nat
      BY <2>1, <2>2, <3>4
    <3> QED BY <3>5
  <2> QED BY <2>3, <2>4
<1>6. n \in T
  <2>1. \A k \in Nat : k \in T
    <3> HIDE DEF T
    <3> QED BY <1>4, <1>5, SetInduction
  <2> QED BY <2>1
<1> QED BY <1>3, <1>6

LEMMA BallsLeast ==
  ASSUME NEW s \in Vertex, NEW B, Balls(B, s), NEW C, s \in C, Closed(C)
  PROVE  \A k \in Nat : B[k] \subseteq C
<1>1. B[0] = {s} /\ \A k \in Nat : B[k + 1] = Post(B[k])
  BY DEF Balls
<1> DEFINE T == {k \in Nat : B[k] \subseteq C}
<1>2. 0 \in T
  BY <1>1
<1>3. ASSUME NEW k \in Nat, k \in T
      PROVE  k + 1 \in T
  <2>1. Post(B[k]) \subseteq C
    BY <1>3 DEF Post, Closed
  <2> QED BY <1>1, <2>1
<1>4. \A k \in Nat : k \in T
  <2> HIDE DEF T
  <2> QED BY <1>2, <1>3, SetInduction
<1> QED BY <1>4

\* What can be reached is the smallest closed set that holds the source.
LEMMA ReachFacts ==
  ASSUME EdgesInRange, n \in Nat, NEW s \in Vertex
  PROVE  /\ Reach(s) \subseteq Vertex /\ s \in Reach(s) /\ Closed(Reach(s))
         /\ \A C \in SUBSET Vertex : s \in C /\ Closed(C) => Reach(s) \subseteq C
<1>1. PICK B : Balls(B, s)
  BY BallsExist
<1>2. Reach(s) = B[n]
  BY <1>1, ReachIsBall
<1>3. s \in Reach(s) /\ Closed(Reach(s))
  BY <1>1, <1>2, BallsGrow
<1>4. Reach(s) \subseteq Vertex
  BY <1>1, <1>2 DEF Balls
<1>5. \A C \in SUBSET Vertex : s \in C /\ Closed(C) => Reach(s) \subseteq C
  BY <1>1, <1>2, BallsLeast
<1> QED BY <1>3, <1>4, <1>5

-----------------------------------------------------------------------------
(* The traversals: the inductive invariant of RepliesDetermined. *)

Source(k) == queries[query[k]].a

\* The vertices that the goroutine has taken off its queue.
Expanded(k) == {list[k][j] : j \in 1 .. head[k]}

\* A traversal under way has listed each vertex once, all the neighbours of the vertices
\* it has expanded, and nothing that the source does not reach.
Walking(k) ==
  /\ IsInjective(list[k]) /\ head[k] <= Len(list[k])
  /\ Source(k) \in visited[k]
  /\ \A u \in Expanded(k) : Neighbors(u) \subseteq visited[k]
  /\ \A C \in SUBSET Vertex : Source(k) \in C /\ Closed(C) => visited[k] \subseteq C
  /\ sum[k] = Total(Expanded(k))

\* The Scratch of a goroutine is the one of its traversal: the bits that are set are those
\* of the vertices in the queue, also between two queries.
WorkerIInv(k) ==
  /\ list[k] \in Seq(Vertex) /\ visited[k] = Range(list[k])
  /\ pc[k] \in {"reset", "walk"} => query[k] \in DOMAIN queries
  /\ pc[k] = "walk" => Walking(k)

RunType ==
  /\ next \in Nat
  /\ pc \in [Workers -> {"claim", "reset", "walk", "done"}]
  /\ query \in [Workers -> Nat] /\ head \in [Workers -> Nat] /\ sum \in [Workers -> Int]
  /\ DOMAIN list = Workers /\ DOMAIN visited = Workers

NotStarted ==
  phase # "run" =>
    replies = <<>> /\ \A k \in Workers : pc[k] = "claim" /\ list[k] = <<>> /\ visited[k] = {}

RunIInv ==
  /\ RunType /\ NotStarted
  /\ \A k \in Workers : WorkerIInv(k)
  /\ DOMAIN replies \subseteq DOMAIN queries
  /\ RepliesDetermined

LEMMA RunInit == InitRun => RunIInv
<1> SUFFICES ASSUME InitRun PROVE RunIInv
  OBVIOUS
<1>1. RunType /\ NotStarted
  BY DEF InitRun, Init, RunType, NotStarted
<1>2. \A k \in Workers : WorkerIInv(k)
  BY DEF InitRun, WorkerIInv, Range
<1>3. DOMAIN replies = {}
  BY DEF InitRun
<1> QED BY <1>1, <1>2, <1>3 DEF RunIInv, RepliesDetermined

\* Generate leaves the goroutines where they were, before the first query.
LEMMA RunGenerate ==
  ASSUME RunIInv, GraphIInv, Generate,
         UNCHANGED <<next, pc, query, visited, list, head, sum, replies>>
  PROVE  RunIInv'
<1> USE DEF RunIInv
<1>1. phase # "run" /\ phase' # "run"
  BY DEF Generate, Unknown, Size, Draw, DrawGrid, Drawn, Mirror, randomSources, edgeProbes
<1>2. /\ replies = <<>>
      /\ \A k \in Workers : pc[k] = "claim" /\ list[k] = <<>> /\ visited[k] = {}
  BY <1>1 DEF NotStarted
<1>3. RunType'
  BY DEF RunType
<1>4. NotStarted'
  BY <1>2 DEF NotStarted
<1>5. \A k \in Workers : WorkerIInv(k)'
  BY <1>2 DEF WorkerIInv, Range
<1>6. DOMAIN replies' = {}
  BY <1>2
<1> QED BY <1>3, <1>4, <1>5, <1>6 DEF RepliesDetermined

\* A step of the run does not touch the graph.
RunStep == UNCHANGED <<spec, n, edges, i, queries>>

LEMMA SameGraph ==
  ASSUME RunStep
  PROVE  /\ Vertex' = Vertex /\ \A u : Neighbors(u)' = Neighbors(u)
         /\ \A C : Closed(C)' <=> Closed(C)
<1>1. Vertex' = Vertex /\ \A u : Neighbors(u)' = Neighbors(u)
  BY DEF RunStep, Vertex, Neighbors
<1>2. \A C : Closed(C)' <=> Closed(C)
  BY <1>1 DEF Closed
<1> QED BY <1>1, <1>2

\* A goroutine that does not move, and whose Scratch no other one touches, keeps its part.
LEMMA WorkerSame ==
  ASSUME RunStep, NEW k, WorkerIInv(k), list'[k] = list[k], visited'[k] = visited[k],
         head'[k] = head[k], sum'[k] = sum[k],
         \/ pc'[k] = pc[k] /\ query'[k] = query[k]
         \/ pc'[k] \in {"claim", "done"}
         \/ pc'[k] = "reset" /\ query'[k] \in DOMAIN queries
  PROVE  WorkerIInv(k)'
<1>1. Vertex' = Vertex /\ queries' = queries /\ (\A u : Neighbors(u)' = Neighbors(u))
      /\ (\A C : Closed(C)' <=> Closed(C))
  BY SameGraph DEF RunStep
<1>2. list'[k] \in Seq(Vertex') /\ visited'[k] = Range(list'[k])
  BY <1>1 DEF WorkerIInv
<1>3. pc'[k] \in {"reset", "walk"} => query'[k] \in DOMAIN queries'
  BY <1>1 DEF WorkerIInv
<1>4. ASSUME pc'[k] = "walk"
      PROVE  Walking(k)'
  <2>1. Walking(k) /\ query'[k] = query[k]
    BY <1>4 DEF WorkerIInv
  <2>2. Source(k)' = Source(k) /\ Expanded(k)' = Expanded(k)
    BY <1>1, <2>1 DEF Source, Expanded
  <2> QED BY <1>1, <2>1, <2>2 DEF Walking
<1> QED BY <1>2, <1>3, <1>4 DEF WorkerIInv

\* Reach, and what BFS returns of the vertices it visits, as functions of the graph.
ReachIn(E, m, s) ==
  FoldSet(LAMBDA k, S : S \cup UNION {{e.to : e \in {f \in E : f.from = u}} : u \in S}, {s}, 1 .. m)
Answer(S) == [count |-> Cardinality(S), sum |-> Total(S)]

Determined ==
  \A q \in DOMAIN replies : replies[q] = Answer(ReachIn(edges, n, queries[q].a))

LEMMA DeterminedFacts == RepliesDetermined <=> Determined
<1>1. ASSUME NEW s
      PROVE  Reach(s) = ReachIn(edges, n, s)
  BY DEF Reach, ReachIn, Neighbors
<1>2. ASSUME NEW q \in DOMAIN replies
      PROVE  (LET reached == Reach(queries[q].a)
              IN replies[q] = [count |-> Cardinality(reached),
                               sum |-> MapThenSumSet(LAMBDA v : v, reached)])
             <=> replies[q] = Answer(ReachIn(edges, n, queries[q].a))
  <2>1. Total(Reach(queries[q].a)) = MapThenSumSet(LAMBDA v : v, Reach(queries[q].a))
    BY DEF Total
  <2> QED BY <1>1, <2>1 DEF Answer
<1> QED BY <1>2 DEF RepliesDetermined, Determined

LEMMA RepliesSame ==
  ASSUME RunStep, RepliesDetermined, replies' = replies
  PROVE  RepliesDetermined'
<1>1. Determined'
  BY DeterminedFacts DEF Determined, RunStep
<1> QED BY <1>1, DeterminedFacts, PTL

LEMMA RunStart ==
  ASSUME RunIInv, Start
  PROVE  RunIInv'
<1> USE DEF RunIInv
<1>1. /\ RunStep /\ UNCHANGED <<next, pc, query, visited, list, head, sum, replies>>
      /\ phase' = "run"
  BY DEF Start, RunStep
<1>2. RunType' /\ NotStarted' /\ DOMAIN replies' \subseteq DOMAIN queries'
  BY <1>1 DEF RunType, NotStarted, RunStep
<1>3. \A k \in Workers : WorkerIInv(k)'
  BY <1>1, WorkerSame
<1>4. RepliesDetermined'
  BY <1>1, RepliesSame
<1> QED BY <1>2, <1>3, <1>4

LEMMA RunStutter ==
  ASSUME RunIInv, UNCHANGED vars
  PROVE  RunIInv'
<1> USE DEF RunIInv
<1>1. /\ RunStep /\ UNCHANGED <<next, pc, query, visited, list, head, sum, replies, phase>>
  BY DEF vars, graphVars, RunStep
<1>2. RunType' /\ NotStarted' /\ DOMAIN replies' \subseteq DOMAIN queries'
  BY <1>1 DEF RunType, NotStarted, RunStep
<1>3. \A k \in Workers : WorkerIInv(k)'
  BY <1>1, WorkerSame
<1>4. RepliesDetermined'
  BY <1>1, RepliesSame
<1> QED BY <1>2, <1>3, <1>4

LEMMA RunClaim ==
  ASSUME RunIInv, GraphIInv, NEW k \in Workers, Claim(k)
  PROVE  RunIInv'
<1> USE DEF RunIInv
<1>1. /\ RunStep /\ UNCHANGED <<phase, visited, list, head, sum, replies>>
      /\ phase = "run" /\ next' = next + 1 /\ next \in Nat
      /\ query' = [query EXCEPT ![k] = next + 1]
      /\ pc' = [pc EXCEPT ![k] = IF next < Len(queries) THEN "reset" ELSE "done"]
  BY DEF Claim, graphVars, RunStep, RunType
<1>2. RunType'
  BY <1>1 DEF RunType
<1>3. NotStarted' /\ DOMAIN replies' \subseteq DOMAIN queries'
  BY <1>1 DEF NotStarted, RunStep
<1>4. next < Len(queries) => next + 1 \in DOMAIN queries
  <2>1. Len(queries) \in Nat /\ DOMAIN queries = 1 .. Len(queries)
    BY SeqFacts DEF GraphIInv, QueriesInRange
  <2> QED BY <1>1, <2>1
<1>5. ASSUME NEW l \in Workers
      PROVE  WorkerIInv(l)'
  <2>1. CASE l = k
    <3>1. /\ query'[k] = next + 1
          /\ pc'[k] = IF next < Len(queries) THEN "reset" ELSE "done"
      BY <1>1 DEF RunType
    <3> QED BY <1>1, <1>4, <2>1, <3>1, WorkerSame
  <2>2. CASE l # k
    <3>1. query'[l] = query[l] /\ pc'[l] = pc[l]
      BY <1>1, <2>2 DEF RunType
    <3> QED BY <1>1, <3>1, WorkerSame
  <2> QED BY <2>1, <2>2
<1>6. RepliesDetermined'
  BY <1>1, RepliesSame
<1> QED BY <1>2, <1>3, <1>5, <1>6

LEMMA RunReset ==
  ASSUME RunIInv, GraphIInv, NEW k \in Workers, phase = "run", Reset(k)
  PROVE  RunIInv'
<1> USE DEF RunIInv
<1>1. PICK a : a = Source(k)
  OBVIOUS
<1>2. /\ RunStep /\ UNCHANGED <<phase, next, query, replies>>
      /\ pc[k] = "reset" /\ pc' = [pc EXCEPT ![k] = "walk"]
      /\ visited' = [visited EXCEPT ![k] = (@ \ Range(list[k])) \cup {a}]
      /\ list' = [list EXCEPT ![k] = <<a>>]
      /\ head' = [head EXCEPT ![k] = 0] /\ sum' = [sum EXCEPT ![k] = 0]
  BY <1>1 DEF Reset, ScratchOf, graphVars, RunStep, Source
<1>3. RunType'
  BY <1>2 DEF RunType
<1>4. NotStarted' /\ DOMAIN replies' \subseteq DOMAIN queries'
  BY <1>2 DEF NotStarted, RunStep
<1>5. a \in Vertex /\ query[k] \in DOMAIN queries
  <2>1. queries \in Seq([a : Vertex, b : Vertex])
    BY DEF GraphIInv, QueriesInRange
  <2>2. query[k] \in DOMAIN queries
    BY <1>2 DEF WorkerIInv
  <2>3. queries[query[k]] \in [a : Vertex, b : Vertex]
    BY <2>1, <2>2, SeqFacts
  <2> QED BY <1>1, <2>2, <2>3 DEF Source
<1>6. /\ pc'[k] = "walk" /\ visited'[k] = {a} /\ list'[k] = <<a>>
      /\ head'[k] = 0 /\ sum'[k] = 0
  BY <1>2 DEF RunType, WorkerIInv
<1>7. Vertex' = Vertex /\ queries' = queries /\ query' = query /\ Source(k)' = a
  BY <1>1, <1>2, SameGraph DEF RunStep, Source
<1>8. Walking(k)'
  <2>1. Expanded(k)' = {} /\ Total(Expanded(k)') = 0
    <3>1. Expanded(k)' = {}
      BY <1>6 DEF Expanded
    <3> QED BY <3>1, TotalEmpty
  <2>2. IsInjective(list'[k]) /\ head'[k] <= Len(list'[k])
    BY <1>6 DEF IsInjective
  <2>3. \A C \in SUBSET Vertex : a \in C => visited'[k] \subseteq C
    BY <1>6
  <2>4. sum'[k] = Total(Expanded(k)')
    BY <1>6, <2>1
  <2> QED BY <1>6, <1>7, <2>1, <2>2, <2>3, <2>4 DEF Walking
<1>9. ASSUME NEW l \in Workers
      PROVE  WorkerIInv(l)'
  <2>1. CASE l = k
    <3>1. list'[k] \in Seq(Vertex') /\ visited'[k] = Range(list'[k])
      BY <1>5, <1>6, <1>7 DEF Range
    <3> QED BY <1>5, <1>7, <1>8, <2>1, <3>1 DEF WorkerIInv
  <2>2. CASE l # k
    <3>1. /\ query'[l] = query[l] /\ pc'[l] = pc[l] /\ list'[l] = list[l]
          /\ visited'[l] = visited[l] /\ head'[l] = head[l] /\ sum'[l] = sum[l]
      BY <1>2, <2>2 DEF RunType
    <3> QED BY <1>2, <3>1, WorkerSame
  <2> QED BY <2>1, <2>2
<1>10. RepliesDetermined'
  BY <1>2, RepliesSame
<1> QED BY <1>3, <1>4, <1>9, <1>10

LEMMA JoinFacts ==
  ASSUME NEW V, NEW p \in Seq(V), NEW q \in Seq(V)
  PROVE  /\ p \o q \in Seq(V) /\ Len(p \o q) = Len(p) + Len(q)
         /\ \A j \in 1 .. Len(p) : (p \o q)[j] = p[j]
         /\ Range(p \o q) = Range(p) \cup Range(q)
         /\ IsInjective(p) /\ IsInjective(q) /\ Range(p) \cap Range(q) = {} => IsInjective(p \o q)
<1>1. PICK r : r = p \o q
  OBVIOUS
<1>2. /\ r \in Seq(V) /\ Len(r) = Len(p) + Len(q) /\ Len(p) \in Nat /\ Len(q) \in Nat
      /\ DOMAIN p = 1 .. Len(p) /\ DOMAIN q = 1 .. Len(q) /\ DOMAIN r = 1 .. (Len(p) + Len(q))
  BY <1>1
<1>3. \A j \in 1 .. Len(p) : r[j] = p[j]
  BY <1>1
<1>4. \A j \in 1 .. Len(q) : r[Len(p) + j] = q[j] /\ Len(p) + j \in 1 .. (Len(p) + Len(q))
  BY <1>1
<1>5. \A j \in 1 .. (Len(p) + Len(q)) :
        j \in 1 .. Len(p) \/ \E l \in 1 .. Len(q) : j = Len(p) + l
  <2> SUFFICES ASSUME NEW j \in 1 .. (Len(p) + Len(q)), j \notin 1 .. Len(p)
               PROVE  \E l \in 1 .. Len(q) : j = Len(p) + l
    OBVIOUS
  <2>1. j - Len(p) \in 1 .. Len(q) /\ j = Len(p) + (j - Len(p))
    BY <1>2
  <2> QED BY <2>1
<1>6. \A j \in 1 .. Len(p) : j \in 1 .. (Len(p) + Len(q))
  BY <1>2
<1>7. Range(r) = Range(p) \cup Range(q)
  <2>1. ASSUME NEW j \in 1 .. Len(p)
        PROVE  p[j] \in Range(r)
    <3>1. r[j] = p[j] /\ j \in DOMAIN r
      BY <1>2, <1>3, <1>6
    <3> QED BY <3>1 DEF Range
  <2>2. ASSUME NEW j \in 1 .. Len(q)
        PROVE  q[j] \in Range(r)
    <3>1. r[Len(p) + j] = q[j] /\ Len(p) + j \in DOMAIN r
      BY <1>2, <1>4
    <3> QED BY <3>1 DEF Range
  <2>3. ASSUME NEW j \in 1 .. (Len(p) + Len(q))
        PROVE  r[j] \in Range(p) \cup Range(q)
    <3>1. CASE j \in 1 .. Len(p)
      BY <1>2, <1>3, <3>1 DEF Range
    <3>2. ASSUME NEW l \in 1 .. Len(q), j = Len(p) + l
          PROVE  r[j] \in Range(q)
      <4>1. r[j] = q[l]
        BY <1>4, <3>2
      <4> QED BY <1>2, <4>1 DEF Range
    <3> QED BY <1>5, <3>1, <3>2
  <2>4. Range(r) \subseteq Range(p) \cup Range(q)
    BY <1>2, <2>3 DEF Range
  <2>5. Range(p) \subseteq Range(r) /\ Range(q) \subseteq Range(r)
    BY <1>2, <2>1, <2>2 DEF Range
  <2> QED BY <2>4, <2>5
<1>8. ASSUME IsInjective(p), IsInjective(q), Range(p) \cap Range(q) = {}
      PROVE  IsInjective(r)
  <2> SUFFICES ASSUME NEW j \in 1 .. (Len(p) + Len(q)), NEW l \in 1 .. (Len(p) + Len(q)), r[j] = r[l]
               PROVE  j = l
    BY <1>2 DEF IsInjective
  <2>1. CASE j \in 1 .. Len(p) /\ l \in 1 .. Len(p)
    BY <1>2, <1>3, <1>8, <2>1 DEF IsInjective
  <2>2. ASSUME NEW c \in 1 .. Len(p), NEW d \in 1 .. Len(q), r[c] = r[Len(p) + d]
        PROVE  FALSE
    <3>1. p[c] = q[d] /\ p[c] \in Range(p) /\ q[d] \in Range(q)
      BY <1>2, <1>3, <1>4, <2>2 DEF Range
    <3> QED BY <1>8, <3>1
  <2>3. ASSUME NEW c \in 1 .. Len(q), NEW d \in 1 .. Len(q), r[Len(p) + c] = r[Len(p) + d]
        PROVE  c = d
    <3>1. q[c] = q[d]
      BY <1>4, <2>3
    <3> QED BY <1>2, <1>8, <3>1 DEF IsInjective
  <2> QED BY <1>5, <2>1, <2>2, <2>3
<1> QED BY <1>1, <1>2, <1>3, <1>7, <1>8

LEMMA RunWalk ==
  ASSUME RunIInv, GraphIInv, NEW k \in Workers, phase = "run", Walk(k)
  PROVE  RunIInv'
<1> USE DEF RunIInv
<1>1. PICK u, new : u = list[k][head[k] + 1] /\ new = Neighbors(u) \ visited[k]
  OBVIOUS
<1>2. /\ RunStep /\ UNCHANGED <<phase, next, pc, query, replies>>
      /\ pc[k] = "walk" /\ head[k] < Len(list[k])
      /\ sum' = [sum EXCEPT ![k] = @ + u]
      /\ visited' = [visited EXCEPT ![k] = @ \cup Neighbors(u)]
      /\ list' = [list EXCEPT ![k] = @ \o InOrder(new)]
      /\ head' = [head EXCEPT ![k] = @ + 1]
  BY <1>1 DEF Walk, ScratchOf, graphVars, RunStep
<1>3. /\ visited'[k] = visited[k] \cup Neighbors(u) /\ list'[k] = list[k] \o InOrder(new)
      /\ head'[k] = head[k] + 1 /\ sum'[k] = sum[k] + u /\ head[k] \in Nat /\ sum[k] \in Int
  BY <1>2 DEF RunType
<1>4. /\ Walking(k) /\ list[k] \in Seq(Vertex) /\ visited[k] = Range(list[k])
      /\ query[k] \in DOMAIN queries
  BY <1>2 DEF WorkerIInv
<1>5. n \in Nat /\ IsFiniteSet(Vertex) /\ Vertex \subseteq Nat
  <2>1. n \in Nat
    BY SizeFacts DEF GraphIInv
  <2>2. IsFiniteSet(0 .. (n - 1))
    BY <2>1, FS_Interval
  <2>3. Vertex = 0 .. (n - 1)
    BY DEF Vertex
  <2>4. Vertex \subseteq Nat
    BY <2>1, <2>3
  <2> QED BY <2>1, <2>2, <2>3, <2>4
<1>6. /\ Len(list[k]) \in Nat /\ DOMAIN list[k] = 1 .. Len(list[k])
      /\ \A j \in DOMAIN list[k] : list[k][j] \in Vertex
  BY <1>4, SeqFacts
<1>7. head[k] + 1 \in 1 .. Len(list[k]) /\ u \in Vertex /\ u \in visited[k]
  BY <1>1, <1>2, <1>3, <1>4, <1>6 DEF Range
<1>8. Neighbors(u) \subseteq Vertex
  BY DEF GraphIInv, EdgesInRange, Neighbors, Link
<1>9. Enumerates(InOrder(new), new)
  <2>1. new \in SUBSET Vertex
    BY <1>1, <1>8
  <2>2. IsFiniteSet(new)
    BY <1>5, <2>1, FS_Subset
  <2>3. new \subseteq Int
    BY <1>5, <2>1
  <2> QED BY <2>2, <2>3, InOrderFacts
<1>10. PICK p, q : p = list[k] /\ q = InOrder(new)
  OBVIOUS
<1>11. p \in Seq(Vertex) /\ q \in Seq(Vertex) /\ Range(q) = new /\ IsInjective(q)
  <2>1. new \subseteq Vertex
    BY <1>1, <1>8
  <2>2. IsFiniteSet(new)
    BY <1>5, <2>1, FS_Subset
  <2>3. new \subseteq Int
    BY <1>5, <2>1
  <2>4. q \in Seq(new) /\ Range(q) = new /\ IsInjective(q)
    BY <1>9, <1>10, <2>2, <2>3, EnumeratesFacts
  <2>5. q \in Seq(Vertex)
    BY <2>1, <2>4
  <2> QED BY <1>4, <1>10, <2>4, <2>5
<1>12. /\ list'[k] \in Seq(Vertex) /\ Len(list'[k]) = Len(list[k]) + Len(q) /\ Len(q) \in Nat
       /\ \A j \in 1 .. Len(list[k]) : list'[k][j] = list[k][j]
       /\ Range(list'[k]) = Range(list[k]) \cup new
       /\ IsInjective(list'[k])
  <2>1. IsInjective(p) /\ Range(p) \cap Range(q) = {}
    BY <1>1, <1>4, <1>10, <1>11, ZenonT(30) DEF Walking
  <2>2. Len(q) \in Nat
    BY <1>11
  <2> QED BY <1>3, <1>10, <1>11, <2>1, <2>2, JoinFacts
<1>13. visited'[k] = Range(list'[k])
  BY <1>1, <1>3, <1>4, <1>12
<1>14. Expanded(k)' = Expanded(k) \cup {u} /\ u \notin Expanded(k)
  <2>1. \A j \in 1 .. head[k] : j \in 1 .. Len(list[k]) /\ j # head[k] + 1
    BY <1>2, <1>3, <1>6
  <2>2. Expanded(k)' = {list'[k][j] : j \in 1 .. (head[k] + 1)}
    BY <1>3 DEF Expanded
  <2>3. \A j \in 1 .. (head[k] + 1) : list'[k][j] = list[k][j]
    BY <1>2, <1>3, <1>6, <1>12
  <2>4. \A j \in 1 .. (head[k] + 1) : j \in 1 .. head[k] \/ j = head[k] + 1
    BY <1>3
  <2>5. \A j \in 1 .. head[k] : j \in 1 .. (head[k] + 1)
    BY <1>3
  <2>6. Expanded(k)' = Expanded(k) \cup {u}
    <3>1. head[k] + 1 \in 1 .. (head[k] + 1)
      BY <1>3
    <3> QED BY <1>1, <2>2, <2>3, <2>4, <2>5, <3>1 DEF Expanded
  <2>7. u \notin Expanded(k)
    BY <1>1, <1>4, <1>6, <1>7, <2>1 DEF Expanded, Walking, IsInjective
  <2> QED BY <2>6, <2>7
<1>15. sum'[k] = Total(Expanded(k)')
  <2>1. Expanded(k) \subseteq Vertex
    <3>1. \A j \in 1 .. head[k] : j \in DOMAIN list[k]
      BY <1>2, <1>3, <1>6
    <3> QED BY <1>6, <3>1 DEF Expanded
  <2>2. IsFiniteSet(Expanded(k)) /\ Expanded(k) \subseteq Nat /\ u \in Nat
    BY <1>5, <1>7, <2>1, FS_Subset
  <2>3. Total(Expanded(k) \cup {u}) = Total(Expanded(k)) + u
    BY <1>14, <2>2, TotalAdd
  <2>4. sum[k] = Total(Expanded(k))
    BY <1>4 DEF Walking
  <2> QED BY <1>3, <1>14, <2>3, <2>4
<1>16. /\ Vertex' = Vertex /\ queries' = queries /\ query' = query /\ Source(k)' = Source(k)
       /\ (\A v : Neighbors(v)' = Neighbors(v)) /\ (\A C : Closed(C)' <=> Closed(C))
  BY <1>2, SameGraph DEF RunStep, Source
<1>17. Walking(k)'
  <2>1. head'[k] <= Len(list'[k])
    BY <1>2, <1>3, <1>6, <1>12
  <2>2. Source(k) \in visited'[k]
    BY <1>3, <1>4 DEF Walking
  <2>3. \A v \in Expanded(k)' : Neighbors(v) \subseteq visited'[k]
    BY <1>3, <1>4, <1>14 DEF Walking
  <2>4. ASSUME NEW C \in SUBSET Vertex, Source(k) \in C, Closed(C)
        PROVE  visited'[k] \subseteq C
    <3>1. visited[k] \subseteq C
      BY <1>4, <2>4 DEF Walking
    <3>2. Neighbors(u) \subseteq C
      BY <1>7, <2>4, <3>1 DEF Closed
    <3> QED BY <1>3, <3>1, <3>2
  <2> QED BY <1>12, <1>15, <1>16, <2>1, <2>2, <2>3, <2>4 DEF Walking
<1>18. ASSUME NEW l \in Workers
       PROVE  WorkerIInv(l)'
  <2>1. CASE l = k
    BY <1>4, <1>12, <1>13, <1>16, <1>17, <2>1 DEF WorkerIInv
  <2>2. CASE l # k
    <3>1. /\ query'[l] = query[l] /\ pc'[l] = pc[l] /\ list'[l] = list[l]
          /\ visited'[l] = visited[l] /\ head'[l] = head[l] /\ sum'[l] = sum[l]
      BY <1>2, <2>2 DEF RunType
    <3> QED BY <1>2, <3>1, WorkerSame
  <2> QED BY <2>1, <2>2
<1>19. RunType'
  <2>1. sum[k] + u \in Int /\ head[k] + 1 \in Nat
    <3>1. u \in Nat
      BY <1>5, <1>7
    <3> QED BY <1>3, <3>1
  <2>2. sum' \in [Workers -> Int]
    BY <1>2, <1>3, <2>1 DEF RunType
  <2> QED BY <1>2, <2>1, <2>2 DEF RunType
<1>20. NotStarted' /\ DOMAIN replies' \subseteq DOMAIN queries'
  BY <1>2 DEF NotStarted, RunStep
<1>21. RepliesDetermined'
  BY <1>2, RepliesSame
<1> QED BY <1>18, <1>19, <1>20, <1>21

\* A list without repetition is as long as the set of its elements.
LEMMA ListCounts ==
  ASSUME NEW V, NEW p \in Seq(V), IsInjective(p)
  PROVE  Cardinality(Range(p)) = Len(p)
<1>1. Len(p) \in Nat /\ DOMAIN p = 1 .. Len(p)
  OBVIOUS
<1>2. p \in [1 .. Len(p) -> Range(p)]
  BY <1>1 DEF Range
<1>3. p \in Bijection(1 .. Len(p), Range(p))
  BY <1>1, <1>2 DEF Bijection, Injection, Surjection, IsInjective, Range
<1>4. IsFiniteSet(1 .. Len(p))
  BY <1>1, FS_Interval
<1>5. Cardinality(1 .. Len(p)) = IF 1 > Len(p) THEN 0 ELSE Len(p) - 1 + 1
  BY <1>1, FS_Interval
<1>6. Cardinality(Range(p)) = Cardinality(1 .. Len(p))
  BY <1>3, <1>4, FS_Bijection DEF ExistsBijection
<1> QED BY <1>1, <1>5, <1>6

LEMMA RunReply ==
  ASSUME RunIInv, GraphIInv, NEW k \in Workers, phase = "run", Reply(k)
  PROVE  RunIInv'
<1> USE DEF RunIInv
<1>1. /\ RunStep /\ UNCHANGED <<phase, next, query, visited, list, head, sum>>
      /\ pc[k] = "walk" /\ head[k] >= Len(list[k])
      /\ replies' = [r \in DOMAIN replies \cup {query[k]} |->
                       IF r = query[k] THEN [count |-> Len(list[k]), sum |-> sum[k]] ELSE replies[r]]
      /\ pc' = [pc EXCEPT ![k] = "claim"]
  BY DEF Reply, ScratchOf, graphVars, RunStep
<1>2. /\ Walking(k) /\ list[k] \in Seq(Vertex) /\ visited[k] = Range(list[k])
      /\ query[k] \in DOMAIN queries
  BY <1>1 DEF WorkerIInv
<1>3. /\ Len(list[k]) \in Nat /\ DOMAIN list[k] = 1 .. Len(list[k]) /\ head[k] = Len(list[k])
      /\ \A j \in DOMAIN list[k] : list[k][j] \in Vertex
  <2>1. /\ Len(list[k]) \in Nat /\ DOMAIN list[k] = 1 .. Len(list[k])
        /\ \A j \in DOMAIN list[k] : list[k][j] \in Vertex
    BY <1>2, SeqFacts
  <2>2. head[k] \in Nat /\ head[k] <= Len(list[k])
    BY <1>2 DEF Walking, RunType
  <2> QED BY <1>1, <2>1, <2>2
<1>4. Expanded(k) = visited[k] /\ visited[k] \subseteq Vertex
  BY <1>2, <1>3 DEF Expanded, Range
<1>5. Source(k) \in Vertex /\ Source(k) \in visited[k]
  BY <1>2, <1>4 DEF Walking
<1>6. visited[k] = Reach(Source(k))
  <2>1. Closed(visited[k])
    BY <1>2, <1>4 DEF Walking, Closed
  <2>2. EdgesInRange /\ n \in Nat
    BY SizeFacts DEF GraphIInv
  <2>3. /\ Reach(Source(k)) \subseteq Vertex /\ Source(k) \in Reach(Source(k))
        /\ Closed(Reach(Source(k)))
        /\ \A C \in SUBSET Vertex : Source(k) \in C /\ Closed(C) => Reach(Source(k)) \subseteq C
    BY <1>5, <2>2, ReachFacts
  <2>4. Reach(Source(k)) \subseteq visited[k]
    BY <1>4, <1>5, <2>1, <2>3
  <2>5. visited[k] \subseteq Reach(Source(k))
    BY <1>2, <2>3 DEF Walking
  <2> QED BY <2>4, <2>5
<1>7. [count |-> Len(list[k]), sum |-> sum[k]] = Answer(Reach(Source(k)))
  <2>1. Cardinality(visited[k]) = Len(list[k])
    BY <1>2, ListCounts DEF Walking
  <2>2. sum[k] = Total(visited[k])
    BY <1>2, <1>4 DEF Walking
  <2> QED BY <1>6, <2>1, <2>2 DEF Answer
<1>8. Determined'
  <2>1. Reach(Source(k)) = ReachIn(edges, n, Source(k))
    BY DEF Reach, ReachIn, Neighbors
  <2>2. Determined
    BY DeterminedFacts
  <2> QED BY <1>1, <1>7, <2>1, <2>2 DEF Determined, RunStep, Source
<1>9. RepliesDetermined'
  BY <1>8, DeterminedFacts, PTL
<1>10. DOMAIN replies' \subseteq DOMAIN queries'
  BY <1>1, <1>2 DEF RunStep
<1>11. RunType' /\ NotStarted'
  BY <1>1 DEF RunType, NotStarted
<1>12. ASSUME NEW l \in Workers
       PROVE  WorkerIInv(l)'
  <2>1. pc'[l] = pc[l] \/ pc'[l] = "claim"
    BY <1>1 DEF RunType
  <2> QED BY <1>1, <2>1, WorkerSame
<1> QED BY <1>9, <1>10, <1>11, <1>12

LEMMA RunNext == RunIInv /\ GraphIInv /\ [NextRun]_vars => RunIInv'
<1> SUFFICES ASSUME RunIInv, GraphIInv, [NextRun]_vars PROVE RunIInv'
  OBVIOUS
<1>1. CASE Generate /\ UNCHANGED <<next, pc, query, visited, list, head, sum, replies>>
  BY <1>1, RunGenerate
<1>2. CASE Start
  BY <1>2, RunStart
<1>3. ASSUME NEW k \in Workers, Step(k)
      PROVE  RunIInv'
  <2>1. phase = "run"
    BY <1>3 DEF Step, Claim, Reset, Walk, Reply, RunIInv, NotStarted
  <2> QED BY <1>3, <2>1, RunClaim, RunReset, RunWalk, RunReply DEF Step
<1>4. CASE UNCHANGED vars
  BY <1>4, RunStutter
<1> QED BY <1>1, <1>2, <1>3, <1>4 DEF NextRun, Stay

\* Each reply is the one that the graph and the source determine, for any graph, any number
\* of goroutines and queries, and any schedule: neither the steps of the others nor what the
\* Scratch was used for before change it.
THEOREM RepliesAreDetermined == Spec => []RepliesDetermined
<1>1. InitRun => RunIInv
  BY RunInit
<1>2. RunIInv => RepliesDetermined
  BY DEF RunIInv
<1> QED BY <1>1, <1>2, RunNext, GraphInvariant, PTL DEF Spec
=============================================================================
