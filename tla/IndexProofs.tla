---------------------------- MODULE IndexProofs ----------------------------
(* Proofs about Indexes, for every list of edges, base of digits and word size. *)
EXTENDS Indexes, NaturalFacts, SequenceTheorems

-----------------------------------------------------------------------------
(* Sorting. *)

\* A set with one element for each number from 1 to c has c elements.
LEMMA CountOnto ==
  ASSUME NEW c \in Nat, NEW S, NEW q \in [1 .. c -> S], IsInjective(q),
         \A v \in S : \E j \in 1 .. c : q[j] = v
  PROVE  IsFiniteSet(S) /\ Cardinality(S) = c
<1>1. IsFiniteSet(1 .. c) /\ Cardinality(1 .. c) = c
  <2>1. Cardinality(1 .. c) = IF 1 > c THEN 0 ELSE c - 1 + 1
    BY FS_Interval
  <2> QED BY <2>1, FS_Interval
<1>2. q \in Injection(1 .. c, S) /\ q \in Surjection(1 .. c, S)
  BY DEF Injection, Surjection, IsInjective
<1>3. q \in Bijection(1 .. c, S)
  BY <1>2 DEF Bijection
<1>4. ExistsBijection(1 .. c, S)
  BY <1>3 DEF ExistsBijection
<1> QED BY <1>1, <1>4, FS_Bijection

\* What slices.Sort leaves: the same values, in ascending order, and no value twice if the
\* slice held none twice.
LEMMA SortFacts ==
  ASSUME NEW c \in Nat, NEW s \in [1 .. c -> Int]
  PROVE  /\ SortedSlice(s) \in [1 .. c -> Int]
         /\ Ascending(SortedSlice(s))
         /\ Range(SortedSlice(s)) = Range(s)
         /\ IsInjective(s) => IsInjective(SortedSlice(s))
<1> DEFINE R == {s[k] : k \in 1 .. c}
           Smaller(x) == {k \in 1 .. c : s[k] < x}
           Upto(x) == {k \in 1 .. c : s[k] <= x}
           Nth(x, j) == Cardinality(Smaller(x)) < j /\ Cardinality(Upto(x)) >= j
<1>1. DOMAIN s = 1 .. c /\ Range(s) = R /\ R \subseteq Int
  BY DEF Range
<1>2. IsFiniteSet(1 .. c) /\ Cardinality(1 .. c) = c
  <2>1. Cardinality(1 .. c) = IF 1 > c THEN 0 ELSE c - 1 + 1
    BY FS_Interval
  <2> QED BY <2>1, FS_Interval
<1>3. ASSUME NEW T \in SUBSET (1 .. c)
      PROVE  IsFiniteSet(T) /\ Cardinality(T) \in Nat /\ Cardinality(T) <= c
  <2>1. IsFiniteSet(T) /\ Cardinality(T) <= Cardinality(1 .. c)
    BY <1>2, FS_Subset
  <2> QED BY <1>2, <2>1, FS_CardinalityType
<1>4. ASSUME NEW x
      PROVE  Smaller(x) \in SUBSET (1 .. c) /\ Upto(x) \in SUBSET (1 .. c)
  OBVIOUS
<1>5. ASSUME NEW T \in SUBSET (1 .. c), NEW U \in SUBSET T
      PROVE  Cardinality(U) <= Cardinality(T)
  BY <1>3, FS_Subset
<1>6. ASSUME NEW x \in R, NEW y \in R, x < y
      PROVE  Cardinality(Upto(x)) <= Cardinality(Smaller(y))
  <2>1. \A k \in 1 .. c : s[k] \in Int /\ x \in Int /\ y \in Int
    BY <1>1
  <2>2. Upto(x) \in SUBSET Smaller(y)
    BY <1>6, <2>1
  <2> HIDE DEF Upto, Smaller
  <2> QED BY <1>4, <1>5, <2>2
<1>7. IsFiniteSet(R)
  <2>1. IsFiniteSet({s[k] : k \in 1 .. c})
    BY <1>2, ImageFinite
  <2> QED BY <2>1
\* The value at each position exists.
<1>8. ASSUME NEW j \in 1 .. c
      PROVE  \E x \in R : Nth(x, j)
  <2> DEFINE T == {x \in R : Cardinality(Upto(x)) >= j}
  <2>1. T # {}
    <3>1. s[j] \in R
      OBVIOUS
    <3>2. PICK x \in R : \A y \in R : x >= y
      <4> HIDE DEF R
      <4> QED BY <1>1, <1>7, <3>1, FiniteExtremes
    <3>3. Upto(x) = 1 .. c
      <4>1. \A k \in 1 .. c : s[k] \in R /\ s[k] \in Int /\ x \in Int
        BY <1>1
      <4>2. \A k \in 1 .. c : s[k] <= x
        BY <3>2, <4>1
      <4> QED BY <4>2
    <3>4. Cardinality(Upto(x)) >= j
      <4> HIDE DEF Upto
      <4> QED BY <1>2, <3>3
    <3> QED BY <3>4
  <2>2. IsFiniteSet(T) /\ T \subseteq Int
    <3>1. T \in SUBSET R
      OBVIOUS
    <3> HIDE DEF T, R
    <3> QED BY <1>1, <1>7, <3>1, FS_Subset
  <2>3. PICK x \in T : \A y \in T : x <= y
    <3> HIDE DEF T
    <3> QED BY <2>1, <2>2, FiniteExtremes
  <2>4. Cardinality(Smaller(x)) < j
    <3> SUFFICES ASSUME ~(Cardinality(Smaller(x)) < j) PROVE FALSE
      OBVIOUS
    <3>1. Cardinality(Smaller(x)) >= j
      <4> HIDE DEF Smaller, Upto
      <4> QED BY <1>3, <1>4
    <3> DEFINE V == {s[k] : k \in Smaller(x)}
    <3>2. Smaller(x) # {}
      <4>1. Smaller(x) = {} => Cardinality(Smaller(x)) = 0
        BY FS_EmptySet
      <4> HIDE DEF Smaller
      <4> QED BY <3>1, <4>1
    <3>3. V # {} /\ V \subseteq Int /\ V \subseteq R
      BY <1>1, <3>2, SMTT(30)
    <3>4. IsFiniteSet(V)
      <4> HIDE DEF R, V
      <4> QED BY <1>7, <3>3, FS_Subset
    <3>5. PICK y \in V : \A z \in V : y >= z
      <4> HIDE DEF V
      <4> QED BY <3>3, <3>4, FiniteExtremes
    <3>6. y < x /\ y \in Int /\ x \in Int /\ y \in R
      BY <1>1, <3>3
    <3>7. Smaller(x) \in SUBSET Upto(y)
      BY <3>5
    <3>8. Cardinality(Upto(y)) >= j
      <4> HIDE DEF Smaller, Upto
      <4>1. Cardinality(Smaller(x)) <= Cardinality(Upto(y))
        BY <1>4, <1>5, <3>7
      <4> QED BY <1>3, <1>4, <3>1, <4>1
    <3>9. x <= y
      BY <2>3, <3>6, <3>8
    <3> QED BY <3>6, <3>9
  <2> QED BY <2>3, <2>4
<1>9. PICK t : t = SortedSlice(s)
  OBVIOUS
<1>10. t = [j \in 1 .. c |-> CHOOSE x \in R : Nth(x, j)]
  BY <1>1, <1>9 DEF SortedSlice
<1> HIDE DEF Nth
<1>11. DOMAIN t = 1 .. c /\ t = [j \in 1 .. c |-> t[j]]
       /\ \A j \in 1 .. c : t[j] \in R /\ Nth(t[j], j)
  <2> HIDE DEF R
  <2> QED BY <1>8, <1>10
<1>12. t \in [1 .. c -> Int]
  BY <1>1, <1>11
<1>13. ASSUME NEW j \in 1 .. c, NEW k \in 1 .. c, j < k
       PROVE  t[j] <= t[k]
  <2> SUFFICES ASSUME t[k] < t[j] PROVE FALSE
    BY <1>12
  <2>1. Cardinality(Upto(t[k])) <= Cardinality(Smaller(t[j]))
    BY <1>6, <1>11
  <2>2. Cardinality(Smaller(t[j])) < j /\ Cardinality(Upto(t[k])) >= k
    BY <1>11 DEF Nth
  <2>3. Cardinality(Smaller(t[j])) \in Nat /\ Cardinality(Upto(t[k])) \in Nat
    <3> HIDE DEF Smaller, Upto
    <3> QED BY <1>3, <1>4
  <2> HIDE DEF Smaller, Upto
  <2> QED BY <1>13, <2>1, <2>2, <2>3
<1>14. ASSUME NEW k \in 1 .. c
       PROVE  \E j \in 1 .. c : t[j] = s[k]
  <2>1. PICK x \in R : x = s[k]
    OBVIOUS
  <2>2. x \in Int
    BY <1>1
  <2>3. Smaller(x) \in SUBSET Upto(x) /\ k \in Upto(x) /\ k \notin Smaller(x)
    <3>1. \A h \in 1 .. c : s[h] \in Int
      OBVIOUS
    <3> QED BY <2>1, <2>2, <3>1
  <2>4. PICK a \in Nat, b \in Nat : a = Cardinality(Smaller(x)) /\ b = Cardinality(Upto(x)) /\ b <= c
    <3> HIDE DEF Smaller, Upto
    <3> QED BY <1>3, <1>4
  <2>5. a < b
    <3> HIDE DEF Smaller, Upto
    <3>1. Cardinality(Smaller(x) \cup {k}) = a + 1
      BY <1>3, <1>4, <2>3, <2>4, FS_AddElement
    <3>2. Smaller(x) \cup {k} \in SUBSET Upto(x)
      BY <2>3
    <3>3. Cardinality(Smaller(x) \cup {k}) <= Cardinality(Upto(x))
      BY <1>4, <1>5, <3>2, Zenon
    <3> QED BY <2>4, <3>1, <3>3, SMT
  <2>6. PICK j \in 1 .. c : j = a + 1
    <3>1. a + 1 \in 1 .. c
      <4> HIDE DEF Smaller, Upto
      <4> QED BY <2>4, <2>5
    <3> QED BY <3>1
  <2>7. /\ t[j] \in R /\ t[j] \in Int /\ Cardinality(Smaller(t[j])) < j /\ Cardinality(Upto(t[j])) >= j
        /\ Cardinality(Smaller(t[j])) \in Nat /\ Cardinality(Upto(t[j])) \in Nat
    <3>1. Cardinality(Smaller(t[j])) \in Nat /\ Cardinality(Upto(t[j])) \in Nat
      <4> HIDE DEF Smaller, Upto
      <4> QED BY <1>3, <1>4
    <3> QED BY <1>11, <1>12, <3>1 DEF Nth
  <2> HIDE DEF Smaller, Upto, R
  <2>8. ~(t[j] < x)
    <3> SUFFICES ASSUME t[j] < x PROVE FALSE
      OBVIOUS
    <3>1. Cardinality(Upto(t[j])) <= a
      BY <1>6, <2>4, <2>7
    <3> QED BY <2>4, <2>6, <2>7, <3>1
  <2>9. ~(x < t[j])
    <3> SUFFICES ASSUME x < t[j] PROVE FALSE
      OBVIOUS
    <3>1. b <= Cardinality(Smaller(t[j]))
      BY <1>6, <2>4, <2>7
    <3> QED BY <2>4, <2>5, <2>6, <2>7, <3>1
  <2>10. t[j] = x
    BY <2>2, <2>7, <2>8, <2>9
  <2> QED BY <2>1, <2>10
<1>15. Range(t) = Range(s)
  <2>1. \A j \in 1 .. c : t[j] \in R
    BY <1>11
  <2>2. \A x \in R : \E j \in 1 .. c : t[j] = x
    BY <1>14
  <2> HIDE DEF R
  <2> QED BY <1>1, <1>11, <2>1, <2>2 DEF Range
\* Two positions with one value in t would be two positions with that value in s.
<1>16. ASSUME IsInjective(s), NEW j \in 1 .. c, NEW k \in 1 .. c, j < k
       PROVE  t[j] # t[k]
  <2> SUFFICES ASSUME t[j] = t[k] PROVE FALSE
    OBVIOUS
  <2>1. PICK h \in 1 .. c : t[j] = s[h]
    BY <1>11
  <2>2. Upto(s[h]) \in SUBSET (Smaller(s[h]) \cup {h})
    <3>1. ASSUME NEW g \in 1 .. c, s[g] <= s[h]
          PROVE  s[g] < s[h] \/ g = h
      <4>1. s[g] \in Int /\ s[h] \in Int
        OBVIOUS
      <4>2. s[g] < s[h] \/ s[g] = s[h]
        BY <3>1, <4>1
      <4> QED BY <1>1, <1>16, <4>2 DEF IsInjective
    <3> QED BY <3>1
  <2>3. Cardinality(Smaller(s[h])) < j /\ Cardinality(Upto(s[h])) >= k
    BY <1>11, <2>1 DEF Nth
  <2>4. h \notin Smaller(s[h])
    <3>1. s[h] \in Int
      OBVIOUS
    <3> QED BY <3>1
  <2> HIDE DEF Smaller, Upto
  <2>5. Cardinality(Smaller(s[h]) \cup {h}) = Cardinality(Smaller(s[h])) + 1
    BY <1>3, <1>4, <2>4, FS_AddElement
  <2>6. Smaller(s[h]) \cup {h} \in SUBSET (1 .. c)
    BY <1>4
  <2>7. Cardinality(Upto(s[h])) <= Cardinality(Smaller(s[h]) \cup {h})
    BY <1>5, <2>2, <2>6
  <2>8. Cardinality(Smaller(s[h])) \in Nat /\ Cardinality(Upto(s[h])) \in Nat
    BY <1>3, <1>4
  <2> QED BY <1>16, <2>3, <2>5, <2>7, <2>8
<1>17. Ascending(t)
  BY <1>11, <1>13 DEF Ascending
<1>18. IsInjective(s) => IsInjective(t)
  <2>1. \A j, k \in 1 .. c : j < k \/ k < j \/ j = k
    OBVIOUS
  <2> QED BY <1>11, <1>16, <2>1 DEF IsInjective
<1> QED BY <1>9, <1>12, <1>15, <1>17, <1>18

\* Of an ascending slice, Compact leaves each value once, in ascending order.
LEMMA CompactFacts ==
  ASSUME NEW c \in Nat, NEW s \in [1 .. c -> Int], Ascending(s)
  PROVE  \E d \in Nat : /\ Compact(s) \in [1 .. d -> Int]
                        /\ IsInjective(Compact(s))
                        /\ Range(Compact(s)) = Range(s)
<1> DEFINE K == {j \in 1 .. c : j = 1 \/ s[j] # s[j - 1]}
<1>1. DOMAIN s = 1 .. c
  OBVIOUS
<1>2. K \in SUBSET (1 .. c) /\ IsFiniteSet(1 .. c)
  BY FS_Interval
<1>3. IsFiniteSet(K) /\ K \subseteq Int /\ Cardinality(K) \in Nat
  <2> HIDE DEF K
  <2>1. IsFiniteSet(K)
    BY <1>2, FS_Subset
  <2> QED BY <1>2, <2>1, FS_CardinalityType
<1>4. PICK d, p : d = Cardinality(K) /\ p = InOrder(K)
  OBVIOUS
<1>5. Enumerates(p, K)
  <2> HIDE DEF K
  <2> QED BY <1>3, <1>4, InOrderFacts
<1>6. /\ d \in Nat /\ p \in [1 .. d -> K] /\ \A j, k \in 1 .. d : j < k => p[j] < p[k]
      /\ \A v \in K : \E j \in 1 .. d : p[j] = v
  <2> HIDE DEF K
  <2> QED BY <1>3, <1>4, <1>5 DEF Enumerates
<1>7. PICK t : t = Compact(s)
  OBVIOUS
<1>8. t = [j \in 1 .. d |-> s[p[j]]]
  <2>1. t = [j \in DOMAIN p |-> s[p[j]]]
    BY <1>1, <1>4, <1>7 DEF Compact
  <2>2. DOMAIN p = 1 .. d
    BY <1>6
  <2> QED BY <2>1, <2>2
<1>9. \A j \in 1 .. d : p[j] \in 1 .. c /\ p[j] \in K /\ s[p[j]] \in Int /\ t[j] = s[p[j]]
  BY <1>2, <1>6, <1>8
<1>10. t \in [1 .. d -> Int]
  BY <1>8, <1>9
<1>11. ASSUME NEW j \in 1 .. d, NEW k \in 1 .. d, j < k
       PROVE  t[j] # t[k]
  <2>1. PICK a \in 1 .. c, b \in 1 .. c : a = p[j] /\ b = p[k] /\ a < b
    BY <1>6, <1>9, <1>11
  <2>2. b # 1 /\ b - 1 \in 1 .. c /\ (a = b - 1 \/ a < b - 1) /\ b - 1 < b
    BY <2>1
  <2>3. s[b] # s[b - 1]
    BY <1>9, <2>1, <2>2
  <2>4. s[a] <= s[b - 1] /\ s[b - 1] <= s[b] /\ s[a] \in Int /\ s[b] \in Int /\ s[b - 1] \in Int
    <3>1. s[a] \in Int /\ s[b] \in Int /\ s[b - 1] \in Int
      BY <2>2
    <3> QED BY <1>1, <2>2, <3>1 DEF Ascending
  <2>5. s[a] # s[b]
    BY <2>3, <2>4
  <2> QED BY <1>9, <2>1, <2>5
<1>12. IsInjective(t)
  <2>1. DOMAIN t = 1 .. d
    BY <1>8
  <2>2. \A j, k \in 1 .. d : j < k \/ k < j \/ j = k
    BY <1>6
  <2> QED BY <1>11, <2>1, <2>2 DEF IsInjective
\* The first position of a value is kept.
<1>13. ASSUME NEW k \in 1 .. c
       PROVE  \E j \in 1 .. d : t[j] = s[k]
  <2> DEFINE T == {h \in 1 .. c : s[h] = s[k]}
  <2>1. PICK h \in T : \A g \in T : h <= g
    <3>1. k \in T /\ T \subseteq Nat
      OBVIOUS
    <3> HIDE DEF T
    <3> QED BY <3>1, LeastElement
  <2>2. h \in K
    <3> SUFFICES ASSUME h # 1, s[h] = s[h - 1] PROVE FALSE
      OBVIOUS
    <3>1. h - 1 \in T /\ h \in Int
      OBVIOUS
    <3>2. h <= h - 1
      BY <2>1, <3>1
    <3> QED BY <3>1, <3>2
  <2>3. PICK j \in 1 .. d : p[j] = h
    BY <1>6, <2>2
  <2> QED BY <1>9, <2>3
<1>14. Range(t) = Range(s)
  <2>1. DOMAIN t = 1 .. d /\ \A j \in 1 .. d : p[j] \in 1 .. c /\ t[j] = s[p[j]]
    BY <1>8, <1>9
  <2>2. \A j \in 1 .. d : \E k \in 1 .. c : t[j] = s[k]
    BY <2>1
  <2>3. \A x : x \in Range(t) <=> \E j \in 1 .. d : x = t[j]
    BY <2>1 DEF Range
  <2>4. \A x : x \in Range(s) <=> \E k \in 1 .. c : x = s[k]
    BY <1>1 DEF Range
  <2> HIDE DEF K
  <2> QED BY <1>13, <2>2, <2>3, <2>4
<1> QED BY <1>6, <1>7, <1>10, <1>12, <1>14

-----------------------------------------------------------------------------
(* Packed edges. *)

Edge(c) == [from : 0 .. (c - 1), to : 0 .. (c - 1)]

\* A key of two halves below Radix: nothing is lost, for the last vertex that a half can
\* name as for the others.
LEMMA KeyFacts ==
  ASSUME NEW a \in 0 .. (Radix - 1), NEW b \in 0 .. (Radix - 1)
  PROVE  /\ Pack([from |-> a, to |-> b]) = a * Radix + b
         /\ a * Radix + b \in Nat
         /\ Source(a * Radix + b) = a /\ Target(a * Radix + b) = b
<1>1. PICK r \in Nat \ {0} : r = Radix
  BY RadixAssumption
<1>2. a \in Nat /\ b \in Nat /\ a < r /\ b < r
  BY <1>1
<1>3. PICK k \in Nat : k = a * r + b
  <2>1. a * r \in Nat
    BY <1>2, ProductMonotone
  <2> QED BY <1>2, <2>1
<1>4. k = r * (k \div r) + (k % r) /\ k % r \in 0 .. (r - 1) /\ k \div r \in Nat
  BY DivisionFacts
<1>5. k \div r = a /\ k % r = b
  <2>1. PICK q \in Nat, y \in 0 .. (r - 1) : q = k \div r /\ y = k % r
    BY <1>4
  <2>2. k = q * r + y
    <3>1. r * q = q * r
      OBVIOUS
    <3> QED BY <1>4, <2>1, <3>1
  <2>3. b \in 0 .. (r - 1) /\ a * r + b = q * r + y
    BY <1>2, <1>3, <2>2
  <2>4. a = q /\ b = y
    BY <1>2, <2>3, PlaceUnique
  <2> QED BY <2>1, <2>4
<1>6. PICK z \in Nat \ {0} : z = r * r /\ k < z
  <2>1. a * r + r <= r * r
    BY <1>2, Multiples
  <2>2. PICK x \in Nat, z \in Nat : x = a * r /\ z = r * r /\ x + r <= z
    <3>1. a * r \in Nat /\ r * r \in Nat
      BY <1>2, Multiples
    <3> QED BY <2>1, <3>1
  <2>3. k < z /\ z # 0
    BY <1>2, <1>3, <2>2
  <2> QED BY <2>2, <2>3
<1>7. k % z = k
  <2>1. k = z * (k \div z) + (k % z) /\ k % z \in 0 .. (z - 1) /\ k \div z \in Nat
    BY DivisionFacts
  <2>2. PICK q \in Nat, y \in 0 .. (z - 1) : q = k \div z /\ y = k % z
    BY <2>1
  <2>3. q * z + y = 0 * z + k
    <3>1. z * q = q * z /\ 0 * z = 0
      OBVIOUS
    <3> QED BY <2>1, <2>2, <3>1
  <2>4. k \in 0 .. (z - 1)
    BY <1>6
  <2>5. q = 0 /\ y = k
    BY <2>3, <2>4, PlaceUnique
  <2> QED BY <2>2, <2>5
<1>8. Pack([from |-> a, to |-> b]) = k
  BY <1>1, <1>3, <1>6, <1>7 DEF Pack
<1> QED BY <1>1, <1>3, <1>5, <1>8 DEF Source, Target

\* Different edges have different keys.
LEMMA PackInjective ==
  ASSUME NEW c \in 0 .. Radix, NEW e \in Edge(c), NEW f \in Edge(c)
  PROVE  /\ Pack(e) \in Nat /\ Pack(e) = e.from * Radix + e.to
         /\ Source(Pack(e)) = e.from /\ Target(Pack(e)) = e.to
         /\ Pack(e) = Pack(f) => e = f
<1>1. \A g \in Edge(c) : /\ g = [from |-> g.from, to |-> g.to]
                         /\ g.from \in 0 .. (Radix - 1) /\ g.to \in 0 .. (Radix - 1)
  BY RadixAssumption DEF Edge
<1>2. \A g \in Edge(c) : /\ Pack(g) \in Nat /\ Pack(g) = g.from * Radix + g.to
                         /\ Source(Pack(g)) = g.from /\ Target(Pack(g)) = g.to
  <2> SUFFICES ASSUME NEW g \in Edge(c)
               PROVE  /\ Pack(g) \in Nat /\ Pack(g) = g.from * Radix + g.to
                      /\ Source(Pack(g)) = g.from /\ Target(Pack(g)) = g.to
    OBVIOUS
  <2>1. PICK a \in 0 .. (Radix - 1), b \in 0 .. (Radix - 1) : a = g.from /\ b = g.to
    BY <1>1
  <2>2. g = [from |-> a, to |-> b]
    BY <1>1, <2>1
  <2>3. Pack(g) = a * Radix + b
    BY <2>2, KeyFacts
  <2> QED BY <2>1, <2>3, KeyFacts
<1>3. Pack(e) = Pack(f) => e.from = f.from /\ e.to = f.to
  BY <1>2
<1> QED BY <1>1, <1>2, <1>3

\* The keys of a list are those of its edges; no two are equal if no two edges are.
LEMMA PackedFacts ==
  ASSUME NEW c \in 0 .. Radix, NEW k \in Nat, NEW l \in [1 .. k -> Edge(c)]
  PROVE  /\ Packed(l) \in [1 .. k -> Int]
         /\ \A x : x \in Range(Packed(l)) <=> \E j \in 1 .. k : x = Pack(l[j])
         /\ IsInjective(l) => IsInjective(Packed(l))
<1>1. \A e, f \in Edge(c) : Pack(e) \in Nat /\ (Pack(e) = Pack(f) => e = f)
  BY PackInjective
<1>2. DOMAIN l = 1 .. k /\ \A j \in 1 .. k : l[j] \in Edge(c)
  OBVIOUS
<1>3. PICK p : p = Packed(l)
  OBVIOUS
<1>4. p = [j \in 1 .. k |-> Pack(l[j])]
  BY <1>2, <1>3 DEF Packed
<1>5. DOMAIN p = 1 .. k /\ \A j \in 1 .. k : p[j] = Pack(l[j]) /\ p[j] \in Int
  BY <1>1, <1>2, <1>4
<1>6. p \in [1 .. k -> Int]
  BY <1>4, <1>5
<1>7. \A x : x \in Range(p) <=> \E j \in 1 .. k : x = Pack(l[j])
  BY <1>5 DEF Range
<1>8. IsInjective(l) => IsInjective(p)
  BY <1>1, <1>2, <1>5 DEF IsInjective
<1> QED BY <1>3, <1>6, <1>7, <1>8

\* Dedup leaves each edge of the list once, in some order.
LEMMA DedupFacts ==
  ASSUME NEW c \in 0 .. Radix, NEW k \in Nat, NEW l \in [1 .. k -> Edge(c)]
  PROVE  /\ \E d \in Nat : Dedup(l) \in [1 .. d -> Edge(c)]
         /\ IsInjective(Dedup(l))
         /\ Range(Dedup(l)) = Range(l)
<1>1. PICK p : p = Packed(l) /\ p \in [1 .. k -> Int]
  BY PackedFacts
<1>2. PICK s : s = SortedSlice(p) /\ s \in [1 .. k -> Int] /\ Ascending(s) /\ Range(s) = Range(p)
  BY <1>1, SortFacts
<1>3. PICK t : t = Compact(s)
  OBVIOUS
<1>4. PICK d \in Nat : /\ t = Compact(s) /\ t \in [1 .. d -> Int]
                       /\ IsInjective(t) /\ Range(t) = Range(s)
  BY <1>3, <1>2, CompactFacts
<1>5. \A x : x \in Range(t) <=> \E j \in 1 .. k : x = Pack(l[j])
  <2>1. \A x : x \in Range(Packed(l)) <=> \E j \in 1 .. k : x = Pack(l[j])
    BY PackedFacts
  <2>2. Range(t) = Range(Packed(l))
    BY <1>1, <1>2, <1>4
  <2> QED BY <2>1, <2>2
<1>6. DOMAIN t = 1 .. d /\ \A j \in 1 .. d : t[j] \in Range(t)
  BY <1>4 DEF Range
<1>7. PICK r : r = Dedup(l)
  OBVIOUS
<1>8. r = [j \in 1 .. d |-> [from |-> Source(t[j]), to |-> Target(t[j])]]
  BY <1>1, <1>2, <1>4, <1>6, <1>7 DEF Dedup
<1>9. \A e \in Edge(c) : e = [from |-> Source(Pack(e)), to |-> Target(Pack(e))]
  <2> SUFFICES ASSUME NEW e \in Edge(c)
               PROVE  e = [from |-> Source(Pack(e)), to |-> Target(Pack(e))]
    OBVIOUS
  <2>1. Source(Pack(e)) = e.from /\ Target(Pack(e)) = e.to
    BY PackInjective
  <2> QED BY <2>1 DEF Edge
<1>10. \A j \in 1 .. k : l[j] \in Edge(c)
  OBVIOUS
<1>11. ASSUME NEW j \in 1 .. d
       PROVE  \E h \in 1 .. k : t[j] = Pack(l[h]) /\ r[j] = l[h]
  <2>1. PICK h \in 1 .. k : t[j] = Pack(l[h])
    BY <1>5, <1>6
  <2>2. r[j] = [from |-> Source(Pack(l[h])), to |-> Target(Pack(l[h]))]
    BY <1>8, <2>1
  <2> QED BY <1>9, <1>10, <2>1, <2>2
<1>12. ASSUME NEW h \in 1 .. k
       PROVE  \E j \in 1 .. d : r[j] = l[h]
  <2>1. PICK j \in 1 .. d : t[j] = Pack(l[h])
    BY <1>5, <1>6 DEF Range
  <2>2. PICK g \in 1 .. k : t[j] = Pack(l[g]) /\ r[j] = l[g]
    BY <1>11
  <2>3. l[g] = l[h]
    BY <1>10, <2>1, <2>2, PackInjective
  <2> QED BY <2>2, <2>3
<1>13. DOMAIN r = 1 .. d /\ r = [j \in 1 .. d |-> r[j]]
  BY <1>8
<1>14. r \in [1 .. d -> Edge(c)]
  <2>1. \A j \in 1 .. d : r[j] \in Edge(c)
    BY <1>10, <1>11
  <2> QED BY <1>13, <2>1
<1>15. IsInjective(r)
  <2>1. ASSUME NEW x \in 1 .. d, NEW y \in 1 .. d, r[x] = r[y]
        PROVE  x = y
    <3>1. t[x] = t[y]
      BY <1>11, <2>1
    <3> QED BY <1>4, <1>6, <3>1 DEF IsInjective
  <2> QED BY <1>13, <2>1 DEF IsInjective
<1>16. Range(r) = Range(l)
  <2>1. DOMAIN l = 1 .. k
    OBVIOUS
  <2>2. \A j \in 1 .. d : \E h \in 1 .. k : r[j] = l[h]
    BY <1>11
  <2> QED BY <1>12, <1>13, <2>1, <2>2 DEF Range
<1> QED BY <1>7, <1>14, <1>15, <1>16

\* The list that a constructor receives: the edges of the list, each one once.
Fit(c, l, e) ==
  /\ e \in Seq(Edge(c))
  /\ IsInjective(e)
  /\ \A u, v : Linked(e, u, v) <=> Linked(l, u, v)

\* What a constructor gets are the edges of the list, each one once.
LEMMA ArgumentsFacts ==
  ASSUME NEW c \in 0 .. Radix, NEW l \in Seq(Edge(c)), NEW e \in Arguments(l)
  PROVE  Fit(c, l, e)
<1>1. PICK k \in Nat : l \in [1 .. k -> Edge(c)]
  OBVIOUS
<1>2. CASE e = Dedup(l)
  <2>1. /\ e \in Seq(Edge(c))
        /\ IsInjective(e) /\ Range(e) = Range(l)
    <3>1. /\ \E d \in Nat : e \in [1 .. d -> Edge(c)]
          /\ IsInjective(e) /\ Range(e) = Range(l)
      BY <1>1, <1>2, DedupFacts
    <3> QED BY <3>1
  <2>2. \A x, u, v : Linked(x, u, v) <=> \E f \in Range(x) : f.from = u /\ f.to = v
    BY DEF Linked, Range
  <2> QED BY <2>1, <2>2 DEF Fit
<1>3. CASE e = l /\ IsInjective(l)
  BY <1>1, <1>3 DEF Fit
<1> QED BY <1>2, <1>3 DEF Arguments

-----------------------------------------------------------------------------
(* Joining sequences. *)

\* g gives what the first sequences of s make when they are joined.
Joins(g, s, V) ==
  /\ g \in [Nat -> Seq(V)] /\ g[0] = <<>>
  /\ \A k \in 1 .. Len(s) : g[k] = g[k - 1] \o s[k]

\* FlattenSeq joins one sequence after the other.
LEMMA JoinsExist ==
  ASSUME NEW V, NEW s \in Seq(Seq(V))
  PROVE  \E g : Joins(g, s, V)
<1> DEFINE step == [k \in Nat |-> [x \in Seq(V) |-> IF k + 1 \in 1 .. Len(s) THEN x \o s[k + 1] ELSE x]]
<1>1. \A k \in Nat, x \in Seq(V) : (IF k + 1 \in 1 .. Len(s) THEN x \o s[k + 1] ELSE x) \in Seq(V)
  <2> SUFFICES ASSUME NEW k \in Nat, NEW x \in Seq(V), k + 1 \in 1 .. Len(s)
               PROVE  x \o s[k + 1] \in Seq(V)
    OBVIOUS
  <2>1. s[k + 1] \in Seq(V)
    OBVIOUS
  <2> QED BY <2>1
<1>2. step \in [Nat -> [Seq(V) -> Seq(V)]]
  BY <1>1
<1>3. <<>> \in Seq(V)
  OBVIOUS
<1>4. PICK g : Solves(g, Seq(V), <<>>, step)
  <2> HIDE DEF step
  <2> QED BY <1>2, <1>3, RecursiveFunction DEF Recursion
<1>5. g \in [Nat -> Seq(V)] /\ g[0] = <<>> /\ \A k \in Nat : g[k + 1] = step[k][g[k]]
  <2> HIDE DEF step
  <2> QED BY <1>4 DEF Solves
<1>6. ASSUME NEW k \in 1 .. Len(s)
      PROVE  g[k] = g[k - 1] \o s[k]
  <2>1. k - 1 \in Nat /\ (k - 1) + 1 = k
    OBVIOUS
  <2>2. g[k] = step[k - 1][g[k - 1]] /\ g[k - 1] \in Seq(V)
    <3> HIDE DEF step
    <3> QED BY <1>5, <2>1
  <2> QED BY <2>1, <2>2
<1> QED BY <1>5, <1>6 DEF Joins

\* The fold of the library joins them all.
LEMMA FlattenJoins ==
  ASSUME NEW V, NEW s \in Seq(Seq(V)), NEW g, Joins(g, s, V)
  PROVE  FlattenSeq(s) = g[Len(s)]
<1>1. PICK c \in Nat : c = Len(s) /\ DOMAIN s = 1 .. c
  OBVIOUS
<1>2. /\ g \in [Nat -> Seq(V)] /\ g[0] = <<>>
      /\ \A k \in 1 .. c : g[k] = g[k - 1] \o s[k]
  BY <1>1 DEF Joins
<1>3. CASE c = 0
  <2>1. s = <<>>
    BY <1>1, <1>3
  <2>2. FlattenSeq(s) = s
    BY <1>1, <1>3 DEF FlattenSeq
  <2> QED BY <1>1, <1>2, <1>3, <2>1, <2>2
<1>4. CASE c # 0
  <2> DEFINE Eq(f) == f = [k \in 1 .. Len(s) |-> IF k = 1 THEN s[k] ELSE f[k - 1] \o s[k]]
             flatten == CHOOSE f : Eq(f)
  <2>1. FlattenSeq(s) = flatten[c]
    BY <1>1, <1>4 DEF FlattenSeq
  <2>2. \E f : Eq(f)
    <3>1. PICK f : f = [k \in 1 .. c |-> g[k]]
      OBVIOUS
    <3>2. ASSUME NEW k \in 1 .. c
          PROVE  f[k] = IF k = 1 THEN s[k] ELSE f[k - 1] \o s[k]
      <4>1. CASE k = 1
        <5>1. g[1] = g[0] \o s[1] /\ s[1] \in Seq(V)
          <6>1. 1 - 1 = 0 /\ 1 \in 1 .. c
            BY <4>1
          <6>2. g[1] = g[1 - 1] \o s[1]
            BY <1>2, <6>1
          <6> QED BY <1>1, <6>1, <6>2
        <5>2. g[1] = s[1]
          BY <1>2, <5>1, ConcatEmptySeq
        <5> QED BY <3>1, <4>1, <5>2
      <4>2. CASE k # 1
        <5>1. k - 1 \in 1 .. c
          BY <1>1, <4>2
        <5> QED BY <1>2, <3>1, <4>2, <5>1
      <4> QED BY <4>1, <4>2
    <3>3. f = [k \in 1 .. c |-> IF k = 1 THEN s[k] ELSE f[k - 1] \o s[k]]
      BY <3>1, <3>2
    <3> QED BY <1>1, <3>3
  <2>3. Eq(flatten)
    <3> HIDE DEF Eq
    <3> QED BY <2>2
  <2>4. PICK f : f = flatten
    OBVIOUS
  <2>5. \A k \in 1 .. c : f[k] = IF k = 1 THEN s[k] ELSE f[k - 1] \o s[k]
    <3>1. Eq(f)
      <4> HIDE DEF Eq, flatten
      <4> QED BY <2>3, <2>4
    <3> HIDE DEF flatten
    <3> QED BY <1>1, <3>1
  <2> HIDE DEF flatten, Eq
  <2> DEFINE S == {k \in Nat : k \in 1 .. c => f[k] = g[k]}
  <2>6. 0 \in S
    OBVIOUS
  <2>7. ASSUME NEW k \in Nat, k \in S
        PROVE  k + 1 \in S
    <3> SUFFICES ASSUME k + 1 \in 1 .. c PROVE f[k + 1] = g[k + 1]
      OBVIOUS
    <3>1. CASE k = 0
      <4>1. 1 \in 1 .. c
        BY <3>1
      <4>2. g[1] = g[0] \o s[1] /\ s[1] \in Seq(V) /\ f[1] = s[1]
        <5>1. 1 - 1 = 0
          OBVIOUS
        <5>2. g[1] = g[1 - 1] \o s[1]
          BY <1>2, <4>1
        <5>3. f[1] = s[1]
          BY <2>5, <4>1
        <5> QED BY <1>1, <4>1, <5>1, <5>2, <5>3
      <4>3. g[1] = s[1]
        BY <1>2, <4>2, ConcatEmptySeq
      <4> QED BY <3>1, <4>2, <4>3
    <3>2. CASE k # 0
      <4>1. k \in 1 .. c /\ k + 1 # 1 /\ (k + 1) - 1 = k
        BY <3>2
      <4>2. f[k] = g[k]
        BY <2>7, <4>1
      <4>3. k + 1 \in 1 .. c
        OBVIOUS
      <4>4. f[k + 1] = f[k] \o s[k + 1] /\ g[k + 1] = g[k] \o s[k + 1]
        BY <1>2, <2>5, <4>1, <4>3
      <4> QED BY <4>2, <4>4
    <3> QED BY <3>1, <3>2
  <2>8. \A k \in Nat : k \in S
    <3> HIDE DEF S
    <3> QED BY <2>6, <2>7, SetInduction
  <2>9. f[c] = g[c]
    <3>1. c \in 1 .. c
      BY <1>4
    <3> QED BY <2>8, <3>1
  <2> QED BY <1>1, <2>1, <2>4, <2>9
<1> QED BY <1>3, <1>4

\* What is joined first stays where it is.
LEMMA JoinsGrow ==
  ASSUME NEW V, NEW s \in Seq(Seq(V)), NEW g, Joins(g, s, V),
         NEW a \in 0 .. Len(s), NEW b \in 0 .. Len(s), a <= b
  PROVE  /\ Len(g[a]) \in Nat /\ Len(g[b]) \in Nat /\ Len(g[a]) <= Len(g[b])
         /\ \A j \in 1 .. Len(g[a]) : g[b][j] = g[a][j]
<1>1. PICK c \in Nat : c = Len(s) /\ DOMAIN s = 1 .. c
  OBVIOUS
<1>2. /\ g \in [Nat -> Seq(V)]
      /\ \A k \in 1 .. c : g[k] = g[k - 1] \o s[k] /\ s[k] \in Seq(V)
  <2>1. \A k \in 1 .. c : s[k] \in Seq(V)
    BY <1>1
  <2> QED BY <1>1, <2>1 DEF Joins
<1>3. \A k \in Nat : g[k] \in Seq(V) /\ Len(g[k]) \in Nat
  BY <1>2
<1> DEFINE S == {k \in Nat : k \in a .. c => /\ Len(g[a]) <= Len(g[k])
                                             /\ \A j \in 1 .. Len(g[a]) : g[k][j] = g[a][j]}
<1>4. 0 \in S
  <2>1. 0 \in a .. c => a = 0
    BY <1>1
  <2> QED BY <1>3, <2>1
<1>5. ASSUME NEW k \in Nat, k \in S
      PROVE  k + 1 \in S
  <2> SUFFICES ASSUME k + 1 \in a .. c
               PROVE  /\ Len(g[a]) <= Len(g[k + 1])
                      /\ \A j \in 1 .. Len(g[a]) : g[k + 1][j] = g[a][j]
    OBVIOUS
  <2>1. CASE k + 1 = a
    BY <1>1, <1>3, <2>1
  <2>2. CASE k + 1 # a
    <3>1. k \in a .. c /\ k + 1 \in 1 .. c /\ (k + 1) - 1 = k
      BY <1>1, <2>2
    <3>2. Len(g[a]) <= Len(g[k]) /\ \A j \in 1 .. Len(g[a]) : g[k][j] = g[a][j]
      BY <1>5, <3>1
    <3>3. PICK x, y : x = g[k] /\ y = s[k + 1] /\ x \in Seq(V) /\ y \in Seq(V) /\ g[k + 1] = x \o y
      <4>1. g[k + 1] = g[k] \o s[k + 1] /\ g[k] \in Seq(V) /\ s[k + 1] \in Seq(V)
        BY <1>2, <1>3, <3>1
      <4> QED BY <4>1
    <3>4. Len(x \o y) = Len(x) + Len(y) /\ Len(x) \in Nat /\ Len(y) \in Nat
          /\ \A j \in 1 .. Len(x) : (x \o y)[j] = x[j]
      <4>1. x \in Seq(V) /\ y \in Seq(V)
        BY <3>3
      <4> QED BY <4>1
    <3>5. a \in Nat /\ Len(g[a]) \in Nat
      BY <1>1, <1>3
    <3>6. \A j \in 1 .. Len(g[a]) : j \in 1 .. Len(x)
      <4>1. Len(g[a]) <= Len(x) /\ Len(g[a]) \in Nat /\ Len(x) \in Nat
        BY <3>2, <3>3, <3>4, <3>5
      <4> QED BY <4>1
    <3>7. Len(g[a]) <= Len(g[k + 1])
      <4>1. Len(g[a]) <= Len(x) /\ Len(g[k + 1]) = Len(x) + Len(y)
        BY <3>2, <3>3, <3>4
      <4> QED BY <3>4, <3>5, <4>1
    <3>8. ASSUME NEW j \in 1 .. Len(g[a])
          PROVE  g[k + 1][j] = g[a][j]
      <4>1. (x \o y)[j] = x[j]
        BY <3>4, <3>6
      <4> QED BY <3>2, <3>3, <4>1
    <3> QED BY <3>7, <3>8
  <2> QED BY <2>1, <2>2
<1>6. \A k \in Nat : k \in S
  <2> HIDE DEF S
  <2> QED BY <1>4, <1>5, SetInduction
<1>7. b \in Nat /\ a \in Nat /\ b \in a .. c
  BY <1>1
<1> QED BY <1>3, <1>6, <1>7

\* The first k sequences, joined.
LEMMA FlattenPrefix ==
  ASSUME NEW V, NEW s \in Seq(Seq(V)), NEW g, Joins(g, s, V), NEW k \in 0 .. Len(s)
  PROVE  FlattenSeq([j \in 1 .. k |-> s[j]]) = g[k]
<1>1. PICK t : t = [j \in 1 .. k |-> s[j]]
  OBVIOUS
<1>2. k \in Nat /\ \A j \in 1 .. k : j \in 1 .. Len(s) /\ s[j] \in Seq(V)
  OBVIOUS
<1>3. t \in Seq(Seq(V)) /\ Len(t) = k
  BY <1>1, <1>2
<1>4. Joins(g, t, V)
  BY <1>1, <1>2, <1>3 DEF Joins
<1> QED BY <1>1, <1>3, <1>4, FlattenJoins

\* A window of a sequence.
LEMMA WindowFacts ==
  ASSUME NEW V, NEW a \in Seq(V), NEW f \in Nat, NEW k \in Nat, f + k <= Len(a)
  PROVE  /\ SubSeq(a, f + 1, f + k) \in Seq(V)
         /\ SubSeq(a, f + 1, f + k) = [j \in 1 .. k |-> a[f + j]]
         /\ Len(SubSeq(a, f + 1, f + k)) = k
<1>1. PICK t : t = SubSeq(a, f + 1, f + k)
  OBVIOUS
<1>2. \A x \in (f + 1) .. (f + k) : a[x] \in V
  <2>1. \A x \in (f + 1) .. (f + k) : x \in 1 .. Len(a)
    OBVIOUS
  <2> QED BY <2>1
<1>3. /\ t \in Seq(V) /\ Len(t) = (IF f + 1 <= f + k THEN (f + k) - (f + 1) + 1 ELSE 0)
      /\ \A j \in 1 .. ((f + k) - (f + 1) + 1) : t[j] = a[(f + 1) + j - 1]
  <2>1. f + 1 \in Int /\ f + k \in Int
    OBVIOUS
  <2> QED BY <1>1, <1>2, <2>1, SubSeqProperties
<1>4. Len(t) = k /\ \A j \in 1 .. k : t[j] = a[f + j]
  <2>1. (f + k) - (f + 1) + 1 = k /\ \A j \in 1 .. k : (f + 1) + j - 1 = f + j
    OBVIOUS
  <2> QED BY <1>3, <2>1
<1>5. t = [j \in 1 .. k |-> a[f + j]]
  BY <1>3, <1>4
<1> QED BY <1>1, <1>3, <1>4, <1>5

\* No bytes, or items, between a place and itself.
LEMMA NoWindow == \A a : \A f \in Nat : SubSeq(a, f + 1, f + 0) = <<>>
  BY SubSeqEmpty

-----------------------------------------------------------------------------
(* The slices handed out. *)

SliceOf == [block : Nat, from : Nat, len : Nat, cap : Nat]
Items == Nat \cup Callers

\* The index has the first blocks of memory; its slices are full in two of the structures.
Given == IF owner \in {"csr", "csr-slices"} THEN 1 ELSE Len(Adjacency)
Exact == owner \in {"csr-slices", "adjlist-exact"}

\* The slice of u is a window of a block of the index, which holds the neighbours of u;
\* two lists have different blocks.
IndexSlice(u) ==
  /\ slices[u].block \in 1 .. Given /\ slices[u].len <= slices[u].cap
  /\ slices[u].from + slices[u].cap <= Len(mem[slices[u].block])
  /\ Exact => slices[u].cap = slices[u].len
  /\ owner = "adjlist" => slices[u].block = u /\ slices[u].from = 0
  /\ owner # "csr" => SL!Contents(slices[u]) = Adjacency[u]

\* A slice in a block that the caller c allocated, and no other caller has.
Owned(c, s) ==
  /\ s \in SliceOf /\ s.block \in (Given + 1) .. Len(mem) /\ s.from = 0
  /\ s.len <= s.cap /\ s.cap = Len(mem[s.block])
  /\ \A d \in Callers \ {c} : copied[d] => held[d].block # s.block

\* No slice yet, or one of the index, which may have grown within its capacity.
Borrowed(s) ==
  \/ s = SL!Slice(1, 0, 0, 0)
  \/ \E u \in SL!Vertices : /\ s.len \in slices[u].len .. slices[u].cap
                            /\ s = SL!Slice(slices[u].block, slices[u].from, s.len, slices[u].cap)

Holds(c, s) == IF copied[c] THEN Owned(c, s) ELSE Borrowed(s)

SliceIInv ==
  /\ owner \in SL!Kinds
  /\ mem \in Seq(Seq(Items)) /\ Given <= Len(mem)
  /\ slices \in [SL!Vertices -> SliceOf] /\ \A u \in SL!Vertices : IndexSlice(u)
  /\ held \in [Callers -> SliceOf] /\ copied \in [Callers -> BOOLEAN]
  /\ wrote = [c \in Callers |-> wrote[c]]
  /\ \A c \in Callers : Holds(c, held[c])
  /\ Exact => \A c \in Callers : SL!Contents(held[c]) = wrote[c]

\* A sequence over a set is one over any larger set.
LEMMA WiderSeq ==
  ASSUME NEW A, NEW B, A \subseteq B, NEW s \in Seq(A)
  PROVE  s \in Seq(B)
<1>1. PICK c \in Nat : c = Len(s) /\ s \in [1 .. c -> A]
  OBVIOUS
<1>2. s \in [1 .. c -> B]
  BY <1>1
<1> QED BY <1>2

\* The fields of a slice.
LEMMA SliceRecord ==
  ASSUME NEW b \in Nat, NEW f \in Nat, NEW l \in Nat, NEW c \in Nat
  PROVE  /\ SL!Slice(b, f, l, c) \in SliceOf
         /\ SL!Slice(b, f, l, c).block = b /\ SL!Slice(b, f, l, c).from = f
         /\ SL!Slice(b, f, l, c).len = l /\ SL!Slice(b, f, l, c).cap = c
BY DEF SL!Slice, SliceOf

\* The window of a block that a slice is.
Win(a, s) == SubSeq(a, s.from + 1, s.from + s.len)

\* What a slice shows of its block.
LEMMA WinFacts ==
  ASSUME NEW s \in SliceOf, NEW a \in Seq(Items), s.from + s.len <= Len(a)
  PROVE  /\ Win(a, s) \in Seq(Items) /\ Len(Win(a, s)) = s.len
         /\ Win(a, s) = [j \in 1 .. s.len |-> a[s.from + j]]
<1>1. PICK f \in Nat, k \in Nat : f = s.from /\ k = s.len /\ f + k <= Len(a)
  BY DEF SliceOf
<1>2. Win(a, s) = SubSeq(a, f + 1, f + k)
  BY <1>1 DEF Win
<1>3. f + k <= Len(a)
  BY <1>1
<1>4. SubSeq(a, f + 1, f + k) \in Seq(Items)
  BY <1>3, WindowFacts
<1>5. Len(SubSeq(a, f + 1, f + k)) = k
  BY <1>3, WindowFacts
<1>6. SubSeq(a, f + 1, f + k) = [j \in 1 .. k |-> a[f + j]]
  BY <1>3, WindowFacts
<1>7. [j \in 1 .. k |-> a[f + j]] = [j \in 1 .. s.len |-> a[s.from + j]]
  BY <1>1
<1> QED BY <1>1, <1>2, <1>4, <1>5, <1>6, <1>7

\* An empty slice shows nothing, whatever its block.
LEMMA WinEmpty ==
  ASSUME NEW s \in SliceOf, NEW a, s.len = 0
  PROVE  Win(a, s) = <<>>
<1>1. PICK f : f = s.from /\ f \in Nat
  BY DEF SliceOf
<1>2. Win(a, s) = SubSeq(a, f + 1, f + 0)
  BY <1>1 DEF Win
<1>3. SubSeq(a, f + 1, f + 0) = <<>>
  BY <1>1, NoWindow
<1> QED BY <1>2, <1>3

\* What a caller reads through a slice.
LEMMA ContentsFacts ==
  ASSUME NEW s \in SliceOf, mem[s.block] \in Seq(Items), s.from + s.len <= Len(mem[s.block])
  PROVE  /\ SL!Contents(s) \in Seq(Items) /\ Len(SL!Contents(s)) = s.len
         /\ SL!Contents(s) = [j \in 1 .. s.len |-> mem[s.block][s.from + j]]
<1>1. SL!Contents(s) = Win(mem[s.block], s)
  BY DEF SL!Contents, Win
<1>2. PICK a \in Seq(Items) : a = mem[s.block]
  OBVIOUS
<1>3. /\ Win(a, s) \in Seq(Items) /\ Len(Win(a, s)) = s.len
      /\ Win(a, s) = [j \in 1 .. s.len |-> a[s.from + j]]
  BY <1>2, WinFacts
<1> QED BY <1>1, <1>2, <1>3

\* An empty slice reads as nothing, the nil one included.
LEMMA ContentsEmpty ==
  ASSUME NEW s \in SliceOf, s.len = 0
  PROVE  SL!Contents(s) = <<>>
BY WinEmpty DEF SL!Contents, Win

\* Length and items of two sequences joined.
LEMMA JoinFacts ==
  ASSUME NEW V, NEW x \in Seq(V), NEW y \in Seq(V)
  PROVE  /\ x \o y \in Seq(V) /\ Len(x \o y) = Len(x) + Len(y)
         /\ \A j \in 1 .. Len(x) : (x \o y)[j] = x[j]
         /\ \A j \in 1 .. Len(y) : (x \o y)[Len(x) + j] = y[j]
  OBVIOUS

\* The list of each vertex, in a block of its own or at its place in the arena.
LEMMA Adjacent ==
  ASSUME NEW u \in SL!Vertices
  PROVE  /\ u \in 1 .. Len(Adjacency) /\ Len(Adjacency) \in Nat
         /\ Adjacency[u] \in Seq(Nat) /\ Len(Adjacency[u]) \in Nat
         /\ Adjacency[u] = [j \in 1 .. Len(Adjacency[u]) |-> Adjacency[u][j]]
<1>1. Adjacency \in Seq(Seq(Nat))
  BY IndexesAssumption
<1>2. u \in 1 .. Len(Adjacency) /\ Len(Adjacency) \in Nat /\ Adjacency[u] \in Seq(Nat)
  BY <1>1 DEF SL!Vertices
<1> QED BY <1>2

\* The arena holds the list of each vertex between its bounds.
LEMMA ArenaFacts ==
  ASSUME NEW u \in SL!Vertices
  PROVE  /\ SL!Arena \in Seq(Nat) /\ Len(SL!Arena) \in Nat
         /\ SL!Low(u) \in Nat /\ SL!High(u) = SL!Low(u) + Len(Adjacency[u])
         /\ SL!High(u) <= Len(SL!Arena)
         /\ \A j \in 1 .. Len(Adjacency[u]) : SL!Arena[SL!Low(u) + j] = Adjacency[u][j]
<1>1. Adjacency \in Seq(Seq(Nat))
  BY IndexesAssumption
<1>2. PICK c \in Nat : c = Len(Adjacency) /\ u \in 1 .. c
  BY Adjacent
<1>3. PICK g : Joins(g, Adjacency, Nat)
  BY <1>1, JoinsExist
<1>4. \A s : SL!FlattenSeq(s) = FlattenSeq(s)
  BY DEF SL!FlattenSeq, FlattenSeq
<1>5. SL!Arena = g[c]
  BY <1>1, <1>2, <1>3, <1>4, FlattenJoins DEF SL!Arena
<1>6. PICK k \in 0 .. c : k = u - 1 /\ k + 1 = u
  BY <1>2
<1>7. SL!Low(u) = Len(g[k])
  <2>1. FlattenSeq([j \in 1 .. k |-> Adjacency[j]]) = g[k]
    BY <1>1, <1>2, <1>3, FlattenPrefix, ZenonT(30)
  <2>2. SL!Low(u) = Len(SL!FlattenSeq([j \in 1 .. k |-> Adjacency[j]]))
    BY <1>6 DEF SL!Low
  <2> QED BY <1>4, <2>1, <2>2
<1>8. /\ g \in [Nat -> Seq(Nat)] /\ g[u] = g[k] \o Adjacency[u]
  BY <1>2, <1>3, <1>6 DEF Joins
<1>9. PICK p, q : p = g[k] /\ q = Adjacency[u] /\ p \in Seq(Nat) /\ q \in Seq(Nat) /\ g[u] = p \o q
  <2>1. g[k] \in Seq(Nat)
    BY <1>6, <1>8
  <2> QED BY <1>8, <2>1, Adjacent
<1>10. Len(g[u]) = Len(p) + Len(q) /\ Len(p) \in Nat /\ Len(q) \in Nat
       /\ \A j \in 1 .. Len(q) : g[u][Len(p) + j] = q[j]
  <2>1. /\ Len(p \o q) = Len(p) + Len(q)
        /\ \A j \in 1 .. Len(q) : (p \o q)[Len(p) + j] = q[j]
    <3>1. p \in Seq(Nat) /\ q \in Seq(Nat)
      BY <1>9
    <3> QED BY <3>1, JoinFacts
  <2>2. Len(p) \in Nat /\ Len(q) \in Nat
    BY <1>9
  <2> QED BY <1>9, <2>1, <2>2
<1>11. /\ Len(g[u]) \in Nat /\ Len(g[c]) \in Nat /\ Len(g[u]) <= Len(g[c])
       /\ \A j \in 1 .. Len(g[u]) : g[c][j] = g[u][j]
  <2>1. u \in 0 .. c /\ c \in 0 .. c /\ u <= c
    BY <1>2
  <2>2. u \in 0 .. Len(Adjacency) /\ c \in 0 .. Len(Adjacency)
    BY <1>2, <2>1
  <2> QED BY <1>1, <1>3, <2>1, <2>2, JoinsGrow
<1>12. g[c] \in Seq(Nat)
  BY <1>2, <1>8
<1>13. SL!High(u) = SL!Low(u) + Len(Adjacency[u])
  BY DEF SL!High
<1>14. ASSUME NEW j \in 1 .. Len(Adjacency[u])
       PROVE  g[c][Len(p) + j] = Adjacency[u][j]
  <2>1. j \in 1 .. Len(q)
    BY <1>9
  <2>2. Len(p) + j \in 1 .. Len(g[u])
    BY <1>10, <2>1
  <2> QED BY <1>9, <1>10, <1>11, <2>1, <2>2
<1> QED BY <1>5, <1>7, <1>9, <1>10, <1>11, <1>12, <1>13, <1>14

\* The slices of a new index satisfy the invariant, and nobody holds one.
LEMMA SliceInit == SL!Init => SliceIInv
<1> SUFFICES ASSUME SL!Init PROVE SliceIInv
  OBVIOUS
<1>1. /\ owner \in SL!Kinds /\ owner \in {"adjlist", "adjlist-exact", "csr", "csr-slices"}
      /\ held = [c \in Callers |-> SL!Slice(1, 0, 0, 0)]
      /\ copied = [c \in Callers |-> FALSE] /\ wrote = [c \in Callers |-> <<>>]
  BY DEF SL!Init, SL!Kinds
<1>2. held \in [Callers -> SliceOf] /\ copied \in [Callers -> BOOLEAN]
  <2>1. SL!Slice(1, 0, 0, 0) \in SliceOf
    BY SliceRecord
  <2> QED BY <1>1, <2>1
<1>3. \A c \in Callers : Holds(c, held[c])
  BY <1>1 DEF Holds, Borrowed
<1>4. \A c \in Callers : SL!Contents(held[c]) = wrote[c]
  <2> SUFFICES ASSUME NEW c \in Callers PROVE SL!Contents(held[c]) = wrote[c]
    OBVIOUS
  <2>1. held[c] = SL!Slice(1, 0, 0, 0) /\ wrote[c] = <<>>
    BY <1>1
  <2>2. SL!Slice(1, 0, 0, 0) \in SliceOf /\ SL!Slice(1, 0, 0, 0).len = 0
    <3>1. 0 \in Nat /\ 1 \in Nat
      OBVIOUS
    <3> QED BY ONLY <3>1, SliceRecord
  <2>3. held[c] \in SliceOf /\ held[c].len = 0
    BY <2>1, <2>2
  <2> QED BY <2>1, <2>3, ContentsEmpty
<1>5. Adjacency \in Seq(Seq(Nat))
  BY IndexesAssumption
<1>6. wrote = [c \in Callers |-> wrote[c]]
  BY <1>1
<1>7. Nat \subseteq Items
  BY DEF Items
<1>8. PICK V : V = SL!Vertices
  OBVIOUS
<1>9. CASE owner \in {"csr", "csr-slices"}
  <2>1. /\ mem = <<SL!Arena>> /\ Given = 1
        /\ slices = [u \in V |-> IF owner = "csr" THEN SL!Window(u) ELSE SL!ThreeIndex(u)]
    BY <1>8, <1>9 DEF SL!Init, Given
  <2>2. mem \in Seq(Seq(Items)) /\ Len(mem) = 1 /\ mem[1] = SL!Arena
    <3>1. SL!Arena \in Seq(Items)
      <4>1. PICK g : Joins(g, Adjacency, Nat)
        BY <1>5, JoinsExist
      <4>2. SL!Arena = g[Len(Adjacency)]
        <5>1. SL!Arena = FlattenSeq(Adjacency)
          BY DEF SL!Arena, SL!FlattenSeq, FlattenSeq
        <5> QED BY <1>5, <4>1, <5>1, FlattenJoins
      <4>3. SL!Arena \in Seq(Nat)
        BY <1>5, <4>1, <4>2 DEF Joins
      <4> QED BY <1>7, <4>3, WiderSeq
    <3> QED BY <2>1, <3>1
  <2>3. ASSUME NEW u \in V
        PROVE  slices[u] \in SliceOf /\ IndexSlice(u)
    <3>1. PICK lo \in Nat, l \in Nat, size \in Nat :
            /\ lo = SL!Low(u) /\ l = Len(Adjacency[u]) /\ size = Len(SL!Arena)
            /\ SL!High(u) = lo + l /\ lo + l <= size
            /\ \A j \in 1 .. l : SL!Arena[lo + j] = Adjacency[u][j]
      BY <1>8, Adjacent, ArenaFacts, ZenonT(30)
    <3>2. PICK k \in Nat : /\ slices[u] = SL!Slice(1, lo, l, k) /\ l <= k /\ lo + k <= size
                           /\ owner = "csr-slices" => k = l
      <4>1. CASE owner = "csr"
        <5>1. slices[u] = SL!Slice(1, lo, l, size - lo)
          <6>1. SL!High(u) - SL!Low(u) = l /\ Len(SL!Arena) - SL!Low(u) = size - lo
            BY <3>1
          <6>2. slices[u] = SL!Window(u)
            BY <2>1, <4>1
          <6> QED BY <3>1, <6>1, <6>2 DEF SL!Window
        <5>2. size - lo \in Nat /\ l <= size - lo /\ lo + (size - lo) <= size
          BY <3>1
        <5> QED BY <4>1, <5>1, <5>2
      <4>2. CASE owner = "csr-slices"
        <5>1. slices[u] = SL!Slice(1, lo, l, l)
          <6>1. SL!High(u) - SL!Low(u) = l
            BY <3>1
          <6>2. slices[u] = SL!ThreeIndex(u)
            BY <2>1, <4>2
          <6> QED BY <3>1, <6>1, <6>2 DEF SL!ThreeIndex
        <5> QED BY <3>1, <5>1
      <4> QED BY <1>9, <4>1, <4>2
    <3>3. /\ slices[u] \in SliceOf /\ slices[u].block = 1 /\ slices[u].from = lo
          /\ slices[u].len = l /\ slices[u].cap = k
      BY <3>2, SliceRecord
    <3>4. owner # "csr" => SL!Contents(slices[u]) = Adjacency[u]
      <4>1. mem[1] \in Seq(Items)
        BY <2>2
      <4>2. SL!Contents(slices[u]) = [j \in 1 .. l |-> SL!Arena[lo + j]]
        BY <2>2, <3>1, <3>3, <4>1, ContentsFacts
      <4>3. [j \in 1 .. l |-> SL!Arena[lo + j]] = [j \in 1 .. l |-> Adjacency[u][j]]
        BY <3>1
      <4>4. Adjacency[u] = [j \in 1 .. l |-> Adjacency[u][j]]
        BY <1>8, <3>1, Adjacent
      <4> QED BY <4>2, <4>3, <4>4
    <3> QED BY <1>9, <2>1, <2>2, <3>1, <3>2, <3>3, <3>4 DEF IndexSlice, Exact
  <2>4. slices \in [V -> SliceOf]
    BY <2>1, <2>3
  <2> QED BY <1>1, <1>2, <1>3, <1>4, <1>6, <1>8, <2>1, <2>2, <2>3, <2>4 DEF SliceIInv
<1>10. CASE owner \in {"adjlist", "adjlist-exact"}
  <2> DEFINE free == IF owner = "adjlist" THEN 1 ELSE 0
  <2>1. /\ mem = IF owner = "adjlist" THEN [u \in V |-> Append(Adjacency[u], 0)] ELSE Adjacency
        /\ slices = [u \in V |-> SL!OwnBlock(u, free)]
        /\ Given = Len(Adjacency)
    BY <1>8, <1>10 DEF SL!Init, Given
  <2>2. V = 1 .. Len(Adjacency) /\ Len(Adjacency) \in Nat
    BY <1>5, <1>8 DEF SL!Vertices
  <2>3. ASSUME NEW u \in V
        PROVE  /\ mem[u] \in Seq(Items) /\ Len(mem[u]) = Len(Adjacency[u]) + free
               /\ \A j \in 1 .. Len(Adjacency[u]) : mem[u][j] = Adjacency[u][j]
    <3>1. PICK q : q = Adjacency[u] /\ q \in Seq(Nat) /\ Len(q) \in Nat
      BY <1>8, Adjacent
    <3>2. q \in Seq(Items) /\ 0 \in Items
      BY <1>7, <3>1, WiderSeq
    <3>3. CASE owner = "adjlist"
      <4>1. mem[u] = Append(q, 0)
        BY <2>1, <3>1, <3>3
      <4> QED BY <3>1, <3>2, <3>3, <4>1
    <3>4. CASE owner # "adjlist"
      BY <2>1, <3>1, <3>2, <3>4
    <3> QED BY <3>3, <3>4
  <2>4. mem \in Seq(Seq(Items)) /\ Len(mem) = Len(Adjacency)
    <3>1. DOMAIN mem = V /\ mem = [u \in V |-> mem[u]]
      <4>1. CASE owner = "adjlist"
        BY <2>1, <4>1
      <4>2. CASE owner # "adjlist"
        <5>1. DOMAIN Adjacency = V /\ Adjacency = [u \in V |-> Adjacency[u]]
          BY <1>5, <2>2
        <5> QED BY <2>1, <4>2, <5>1
      <4> QED BY <4>1, <4>2
    <3>2. mem \in [1 .. Len(Adjacency) -> Seq(Items)]
      <4>1. \A u \in V : mem[u] \in Seq(Items)
        BY <2>3
      <4> QED BY <2>2, <3>1, <4>1
    <3> QED BY <2>2, <3>2
  <2>5. ASSUME NEW u \in V
        PROVE  slices[u] \in SliceOf /\ IndexSlice(u)
    <3>1. PICK l \in Nat, k \in Nat : l = Len(Adjacency[u]) /\ k = l + free /\ l <= k
      <4>1. PICK l \in Nat : l = Len(Adjacency[u])
        BY <1>8, Adjacent
      <4>2. free \in Nat
        OBVIOUS
      <4> HIDE DEF free
      <4>3. l + free \in Nat /\ l <= l + free
        BY <4>2
      <4> QED BY <4>1, <4>3
    <3>2. slices[u] = SL!Slice(u, 0, l, k)
      BY <2>1, <3>1 DEF SL!OwnBlock
    <3>3. u \in Nat /\ u \in 1 .. Given
      BY <2>1, <2>2
    <3>4. /\ slices[u] \in SliceOf /\ slices[u].block = u /\ slices[u].from = 0
          /\ slices[u].len = l /\ slices[u].cap = k
      BY <3>2, <3>3, SliceRecord
    <3>5. mem[u] \in Seq(Items) /\ Len(mem[u]) = k /\ \A j \in 1 .. l : mem[u][j] = Adjacency[u][j]
      BY <2>3, <3>1
    <3>6. Exact => k = l
      <4>1. Exact => free = 0
        BY <1>10 DEF Exact
      <4> HIDE DEF free
      <4> QED BY <3>1, <4>1
    <3> HIDE DEF free
    <3>7. 0 + l <= Len(mem[u]) /\ 0 + k <= Len(mem[u])
      BY <3>1, <3>5
    <3>8. SL!Contents(slices[u]) = [j \in 1 .. l |-> mem[u][0 + j]]
      BY <3>4, <3>5, <3>7, ContentsFacts
    <3>9. [j \in 1 .. l |-> mem[u][0 + j]] = [j \in 1 .. l |-> Adjacency[u][j]]
      <4>1. \A j \in 1 .. l : 0 + j = j
        OBVIOUS
      <4>2. \A j \in 1 .. l : mem[u][0 + j] = Adjacency[u][j]
        BY <3>5, <4>1
      <4> QED BY <4>2
    <3>10. Adjacency[u] = [j \in 1 .. l |-> Adjacency[u][j]]
      BY <1>8, <3>1, Adjacent
    <3>11. SL!Contents(slices[u]) = Adjacency[u]
      BY <3>8, <3>9, <3>10
    <3> QED BY <3>1, <3>3, <3>4, <3>6, <3>7, <3>11 DEF IndexSlice
  <2>6. slices \in [V -> SliceOf]
    BY <2>1, <2>5
  <2> HIDE DEF free
  <2> QED BY <1>1, <1>2, <1>3, <1>4, <1>6, <1>8, <2>1, <2>2, <2>4, <2>5, <2>6 DEF SliceIInv
<1> QED BY <1>1, <1>9, <1>10

\* Blocks that agree on the window give the same contents.
LEMMA WinSame ==
  ASSUME NEW s \in SliceOf, NEW a \in Seq(Items), NEW b \in Seq(Items),
         s.from + s.len <= Len(a), Len(b) = Len(a),
         \A j \in 1 .. s.len : a[s.from + j] = b[s.from + j]
  PROVE  Win(a, s) = Win(b, s)
<1>1. s.from + s.len <= Len(b)
  OBVIOUS
<1>2. Win(a, s) = [j \in 1 .. s.len |-> a[s.from + j]]
  BY WinFacts
<1>3. Win(b, s) = [j \in 1 .. s.len |-> b[s.from + j]]
  BY <1>1, WinFacts
<1>4. [j \in 1 .. s.len |-> a[s.from + j]] = [j \in 1 .. s.len |-> b[s.from + j]]
  OBVIOUS
<1> QED BY <1>2, <1>3, <1>4

\* What a caller holds lies within its block.
LEMMA HeldFits ==
  ASSUME SliceIInv, NEW c \in Callers, NEW s \in SliceOf, Holds(c, s)
  PROVE  /\ s.len \in Nat /\ s.from \in Nat /\ s.cap \in Nat /\ s.block \in Nat /\ s.len <= s.cap
         /\ s.len # 0 \/ s.cap # 0 =>
              /\ s.block \in 1 .. Len(mem) /\ mem[s.block] \in Seq(Items)
              /\ s.from + s.cap <= Len(mem[s.block]) /\ s.from + s.len <= Len(mem[s.block])
         /\ copied[c] => /\ s.block \in (Given + 1) .. Len(mem) /\ s.from = 0
                         /\ s.cap = Len(mem[s.block])
         /\ ~copied[c] /\ s.len # 0 => s.block \in 1 .. Given
         /\ ~copied[c] /\ Exact => s.len = s.cap
<1>1. /\ s.len \in Nat /\ s.from \in Nat /\ s.cap \in Nat /\ s.block \in Nat
  BY DEF SliceOf
<1>2. mem \in Seq(Seq(Items)) /\ Len(mem) \in Nat /\ Given \in Nat /\ Given <= Len(mem)
  <2>1. Given \in Nat
    BY IndexesAssumption DEF Given
  <2> QED BY <2>1 DEF SliceIInv
<1>3. \A b \in 1 .. Len(mem) : mem[b] \in Seq(Items) /\ Len(mem[b]) \in Nat
  BY <1>2
<1>4. CASE copied[c]
  <2>1. Owned(c, s)
    BY <1>4 DEF Holds
  <2>2. /\ s.block \in (Given + 1) .. Len(mem) /\ s.from = 0
        /\ s.len <= s.cap /\ s.cap = Len(mem[s.block])
    BY <2>1 DEF Owned
  <2>3. s.block \in 1 .. Len(mem)
    BY <1>2, <2>2
  <2> QED BY <1>1, <1>3, <1>4, <2>2, <2>3
<1>5. CASE ~copied[c]
  <2>1. Borrowed(s)
    BY <1>5 DEF Holds
  <2>2. CASE s = SL!Slice(1, 0, 0, 0)
    <3>1. s.len = 0 /\ s.cap = 0
      BY <2>2, SliceRecord
    <3> QED BY <1>1, <1>5, <3>1
  <2>3. CASE \E u \in SL!Vertices : /\ s.len \in slices[u].len .. slices[u].cap
                            /\ s = SL!Slice(slices[u].block, slices[u].from, s.len, slices[u].cap)
    <3>1. PICK u \in SL!Vertices : /\ s.len \in slices[u].len .. slices[u].cap
                            /\ s = SL!Slice(slices[u].block, slices[u].from, s.len, slices[u].cap)
      BY <2>3
    <3>2. slices[u] \in SliceOf /\ IndexSlice(u)
      BY DEF SliceIInv
    <3>3. /\ slices[u].block \in Nat /\ slices[u].from \in Nat /\ slices[u].len \in Nat /\ slices[u].cap \in Nat
      BY <3>2 DEF SliceOf
    <3>4. s.block = slices[u].block /\ s.from = slices[u].from /\ s.cap = slices[u].cap
      <4>1. PICK b \in Nat, f \in Nat, l \in Nat, k \in Nat :
              b = slices[u].block /\ f = slices[u].from /\ l = s.len /\ k = slices[u].cap
        BY <1>1, <3>3
      <4>2. s = SL!Slice(b, f, l, k)
        BY <3>1, <4>1
      <4>3. /\ SL!Slice(b, f, l, k).block = b /\ SL!Slice(b, f, l, k).from = f
            /\ SL!Slice(b, f, l, k).cap = k
        BY SliceRecord
      <4> QED BY <4>1, <4>2, <4>3
    <3>5. /\ slices[u].block \in 1 .. Given
          /\ slices[u].from + slices[u].cap <= Len(mem[slices[u].block])
          /\ Exact => slices[u].cap = slices[u].len
      BY <3>2 DEF IndexSlice
    <3>6. s.block \in 1 .. Given /\ s.from + s.cap <= Len(mem[s.block])
      BY <3>4, <3>5
    <3>7. s.block \in 1 .. Len(mem) /\ Len(mem[s.block]) \in Nat /\ mem[s.block] \in Seq(Items)
      BY <1>2, <1>3, <3>6
    <3>8. s.len <= s.cap /\ (Exact => s.len = s.cap)
      BY <3>1, <3>3, <3>4, <3>5, <1>1
    <3>9. s.from + s.len <= Len(mem[s.block])
      BY <1>1, <3>6, <3>7, <3>8
    <3> QED BY <1>1, <1>5, <3>6, <3>7, <3>8, <3>9
  <2> QED BY <2>1, <2>2, <2>3 DEF Borrowed
<1> QED BY <1>4, <1>5

\* A step of one caller: the blocks only grow in number and keep their sizes, the index
\* keeps its part of them, and the other callers what they hold.
CallerMove(c, h, x) ==
  /\ owner' = owner /\ slices' = slices
  /\ held' = [held EXCEPT ![c] = h]
  /\ copied' \in [Callers -> BOOLEAN] /\ \A d \in Callers \ {c} : copied'[d] = copied[d]
  /\ mem' \in Seq(Seq(Items)) /\ Len(mem) <= Len(mem')
  /\ \A b \in 1 .. Len(mem) : Len(mem'[b]) = Len(mem[b])
  /\ owner # "csr" => \A u \in SL!Vertices : \A j \in 1 .. slices[u].len :
       mem'[slices[u].block][slices[u].from + j] = mem[slices[u].block][slices[u].from + j]
  /\ Exact => \A d \in Callers \ {c} :
                Win(mem'[held[d].block], held[d]) = Win(mem[held[d].block], held[d])
  /\ copied'[c] => /\ h.block \in (Given + 1) .. Len(mem') /\ h.from = 0
                   /\ h.len <= h.cap /\ h.cap = Len(mem'[h.block])
                   /\ \A d \in Callers \ {c} : copied[d] => held[d].block # h.block
  /\ ~copied'[c] => Borrowed(h)
  /\ wrote' = [wrote EXCEPT ![c] = x] /\ (Exact => Win(mem'[h.block], h) = x)

\* A caller that takes another slice keeps the invariant, if the slice is as CallerMove says.
LEMMA CallerStep ==
  ASSUME SliceIInv, NEW c \in Callers, NEW h \in SliceOf, NEW x, CallerMove(c, h, x)
  PROVE  SliceIInv'
<1> USE DEF CallerMove
<1>1. /\ mem \in Seq(Seq(Items)) /\ Len(mem) \in Nat /\ Given \in Nat /\ Given <= Len(mem)
      /\ slices \in [SL!Vertices -> SliceOf] /\ held \in [Callers -> SliceOf]
      /\ copied \in [Callers -> BOOLEAN] /\ Len(mem') \in Nat
  <2>1. Given \in Nat
    BY IndexesAssumption DEF Given
  <2> QED BY <2>1 DEF SliceIInv
<1>2. Given' = Given /\ Exact' = Exact
  BY DEF Given, Exact
<1>3. held' \in [Callers -> SliceOf] /\ held'[c] = h /\ \A d \in Callers \ {c} : held'[d] = held[d]
  BY <1>1
<1>4. ASSUME NEW u \in SL!Vertices
      PROVE  IndexSlice(u)'
  <2>1. IndexSlice(u) /\ slices[u] \in SliceOf
    BY DEF SliceIInv
  <2>2. PICK s \in SliceOf : s = slices[u] /\ s = slices'[u]
    BY <2>1
  <2>3. PICK b \in 1 .. Len(mem) : b = s.block /\ b \in 1 .. Given
    BY <1>1, <2>1, <2>2 DEF IndexSlice
  <2>4. Len(mem'[b]) = Len(mem[b]) /\ mem[b] \in Seq(Items) /\ mem'[b] \in Seq(Items)
    BY <1>1
  <2>5. /\ s.len \in Nat /\ s.from \in Nat /\ s.cap \in Nat /\ s.len <= s.cap
        /\ s.from + s.cap <= Len(mem[b]) /\ Len(mem[b]) \in Nat
    BY <2>1, <2>2, <2>3, <2>4 DEF IndexSlice, SliceOf
  <2>6. ASSUME owner # "csr"
        PROVE  Win(mem'[b], s) = Adjacency[u]
    <3>1. Win(mem[b], s) = Adjacency[u]
      BY <2>1, <2>2, <2>3, <2>6 DEF IndexSlice, SL!Contents, Win
    <3>2. PICK a \in Seq(Items), z \in Seq(Items) : a = mem[b] /\ z = mem'[b]
      BY <2>4
    <3>3. /\ s.from + s.len <= Len(a) /\ Len(z) = Len(a)
          /\ \A j \in 1 .. s.len : a[s.from + j] = z[s.from + j]
      <4>1. \A j \in 1 .. s.len : mem'[b][s.from + j] = mem[b][s.from + j]
        BY <2>2, <2>3, <2>6
      <4> QED BY <2>4, <2>5, <3>2, <4>1
    <3>4. Win(a, s) = Win(z, s)
      BY <3>3, WinSame
    <3> QED BY <3>1, <3>2, <3>4
  <2>7. (SL!Contents(slices[u]))' = Win(mem'[b], s)
    BY <2>2, <2>3 DEF SL!Contents, Win
  <2>8. /\ slices'[u].block \in 1 .. Given' /\ slices'[u].len <= slices'[u].cap
        /\ slices'[u].from + slices'[u].cap <= Len(mem'[slices'[u].block])
    BY <1>2, <2>2, <2>3, <2>4, <2>5
  <2>9. /\ Exact' => slices'[u].cap = slices'[u].len
        /\ owner' = "adjlist" => slices'[u].block = u /\ slices'[u].from = 0
    BY <1>2, <2>1, <2>2 DEF IndexSlice
  <2>10. owner' # "csr" => (SL!Contents(slices[u]))' = Adjacency[u]
    BY <2>6, <2>7
  <2> QED BY <2>8, <2>9, <2>10 DEF IndexSlice
<1>5. ASSUME NEW d \in Callers
      PROVE  Holds(d, held[d])'
  <2>1. PICK s \in SliceOf : s = held'[d]
    BY <1>3
  <2>2. CASE copied'[d]
    <3>1. Owned(d, s)'
      <4>1. CASE d = c
        <5>1. s = h
          BY <1>3, <2>1, <4>1
        <5>2. \A e \in Callers \ {d} : copied'[e] => held'[e].block # s.block
          BY <1>3, <4>1, <5>1, <2>2
        <5>3. /\ s.block \in (Given' + 1) .. Len(mem') /\ s.from = 0
              /\ s.len <= s.cap /\ s.cap = Len(mem'[s.block])
          BY <1>2, <2>2, <4>1, <5>1
        <5> QED BY <5>2, <5>3 DEF Owned
      <4>2. CASE d # c
        <5>1. s = held[d] /\ copied[d]
          BY <1>3, <2>1, <2>2, <4>2
        <5>2. Owned(d, s)
          BY <5>1 DEF SliceIInv, Holds
        <5>3. /\ s.block \in (Given + 1) .. Len(mem) /\ s.from = 0
              /\ s.len <= s.cap /\ s.cap = Len(mem[s.block])
          BY <5>2 DEF Owned
        <5>4. s.block \in 1 .. Len(mem) /\ s.block \in (Given' + 1) .. Len(mem')
          BY <1>1, <1>2, <5>3
        <5>5. s.cap = Len(mem'[s.block])
          BY <5>3, <5>4
        <5>6. ASSUME NEW e \in Callers \ {d}, copied'[e]
              PROVE  held'[e].block # s.block
          <6>1. CASE e = c
            BY <1>3, <4>2, <5>1, <5>6, <6>1
          <6>2. CASE e # c
            BY <1>3, <5>2, <5>6, <6>2 DEF Owned
          <6> QED BY <6>1, <6>2
        <5> QED BY <5>3, <5>4, <5>5, <5>6 DEF Owned
      <4> QED BY <4>1, <4>2
    <3> QED BY <2>1, <2>2, <3>1 DEF Holds
  <2>3. CASE ~copied'[d]
    <3>1. Borrowed(s)
      <4>1. CASE d = c
        BY <1>3, <2>1, <2>3, <4>1
      <4>2. CASE d # c
        BY <1>3, <2>1, <2>3, <4>2 DEF SliceIInv, Holds
      <4> QED BY <4>1, <4>2
    <3>2. Borrowed(s)'
      BY <3>1 DEF Borrowed
    <3> QED BY <2>1, <2>3, <3>2 DEF Holds
  <2> QED BY <2>2, <2>3
<1>6. wrote = [d \in Callers |-> wrote[d]]
  BY DEF SliceIInv
<1>7. wrote' = [d \in Callers |-> wrote'[d]] /\ wrote'[c] = x
      /\ \A d \in Callers \ {c} : wrote'[d] = wrote[d]
  BY <1>6
<1>8. ASSUME Exact', NEW d \in Callers
      PROVE  (SL!Contents(held[d]) = wrote[d])'
  <2>1. (SL!Contents(held[d]))' = Win(mem'[held'[d].block], held'[d])
    BY DEF SL!Contents, Win
  <2>2. CASE d = c
    BY <1>2, <1>3, <1>7, <1>8, <2>1, <2>2
  <2>3. CASE d # c
    <3>1. SL!Contents(held[d]) = wrote[d] /\ SL!Contents(held[d]) = Win(mem[held[d].block], held[d])
      BY <1>2, <1>8 DEF SliceIInv, SL!Contents, Win
    <3> QED BY <1>2, <1>3, <1>7, <1>8, <2>1, <2>3, <3>1
  <2> QED BY <2>2, <2>3
<1>9. slices' \in [SL!Vertices -> SliceOf] /\ Given' <= Len(mem') /\ owner' \in SL!Kinds
  BY <1>1, <1>2 DEF SliceIInv
<1> QED BY <1>3, <1>4, <1>5, <1>7, <1>8, <1>9 DEF SliceIInv

\* Joining, position by position.
LEMMA JoinIs ==
  ASSUME NEW V, NEW x \in Seq(V), NEW y \in Seq(V)
  PROVE  x \o y = [j \in 1 .. (Len(x) + Len(y)) |-> IF j <= Len(x) THEN x[j] ELSE y[j - Len(x)]]
<1>1. PICK c \in Nat, d \in Nat : c = Len(x) /\ d = Len(y)
  OBVIOUS
<1>2. PICK z \in Seq(V) : z = x \o y /\ Len(z) = c + d
  BY <1>1, JoinFacts
<1>3. /\ \A j \in 1 .. c : z[j] = x[j]
      /\ \A j \in 1 .. d : z[c + j] = y[j]
  BY <1>1, <1>2, JoinFacts
<1>4. ASSUME NEW j \in 1 .. (c + d)
      PROVE  z[j] = IF j <= c THEN x[j] ELSE y[j - c]
  <2>1. CASE j <= c
    BY <1>3, <2>1
  <2>2. CASE ~(j <= c)
    <3>1. j - c \in 1 .. d /\ c + (j - c) = j
      BY <2>2
    <3> QED BY <1>3, <2>2, <3>1
  <2> QED BY <2>1, <2>2
<1>5. z = [j \in 1 .. (c + d) |-> z[j]]
  <2>1. z = [j \in 1 .. Len(z) |-> z[j]]
    OBVIOUS
  <2> QED BY <1>2, <2>1
<1>6. z = [j \in 1 .. (c + d) |-> IF j <= c THEN x[j] ELSE y[j - c]]
  BY <1>4, <1>5
<1> QED BY <1>1, <1>2, <1>6

\* An append within the capacity writes in the block behind the slice.
Written(a, from, items) ==
  [j \in DOMAIN a |-> IF j \in (from + 1) .. (from + Len(items)) THEN items[j - from] ELSE a[j]]

\* What writing some items at a place of a block leaves as it was.
LEMMA WrittenFacts ==
  ASSUME NEW a \in Seq(Items), NEW f \in Nat, NEW items \in Seq(Items), f + Len(items) <= Len(a)
  PROVE  /\ Written(a, f, items) \in Seq(Items) /\ Len(Written(a, f, items)) = Len(a)
         /\ \A j \in 1 .. f : Written(a, f, items)[j] = a[j]
         /\ \A j \in 1 .. Len(items) : Written(a, f, items)[f + j] = items[j]
         /\ Len(items) = 0 => Written(a, f, items) = a
<1>1. PICK k \in Nat, l \in Nat : k = Len(items) /\ l = Len(a) /\ f + k <= l
  OBVIOUS
<1>2. /\ a \in [1 .. l -> Items] /\ items \in [1 .. k -> Items]
  BY <1>1
<1>3. PICK b : b = Written(a, f, items)
  OBVIOUS
<1>4. b = [j \in 1 .. l |-> IF j \in (f + 1) .. (f + k) THEN items[j - f] ELSE a[j]]
  BY <1>1, <1>2, <1>3 DEF Written
<1>5. \A j \in 1 .. l : (IF j \in (f + 1) .. (f + k) THEN items[j - f] ELSE a[j]) \in Items
  <2> SUFFICES ASSUME NEW j \in 1 .. l
               PROVE  (IF j \in (f + 1) .. (f + k) THEN items[j - f] ELSE a[j]) \in Items
    OBVIOUS
  <2>1. j \in (f + 1) .. (f + k) => j - f \in 1 .. k
    OBVIOUS
  <2> QED BY <1>2, <2>1
<1>6. b \in [1 .. l -> Items]
  BY <1>4, <1>5
<1>7. b \in Seq(Items) /\ Len(b) = l
  BY <1>6
<1>8. \A j \in 1 .. f : b[j] = a[j]
  BY <1>1, <1>4
<1>9. ASSUME NEW j \in 1 .. k
      PROVE  b[f + j] = items[j]
  <2>1. f + j \in 1 .. l /\ f + j \in (f + 1) .. (f + k) /\ (f + j) - f = j
    BY <1>1
  <2> QED BY <1>4, <2>1
<1>10. ASSUME k = 0 PROVE b = a
  <2>1. \A j \in 1 .. l : j \notin (f + 1) .. (f + k)
    BY <1>10
  <2>2. \A j \in 1 .. l : b[j] = a[j]
    BY <1>4, <2>1
  <2> QED BY <1>2, <1>6, <2>2
<1> QED BY <1>1, <1>3, <1>7, <1>8, <1>9, <1>10

\* An append by a caller, in place or into a new block, keeps the invariant.
LEMMA ExtendStep ==
  ASSUME SliceIInv, owner' = owner, slices' = slices, NEW c \in Callers,
         NEW dst \in SliceOf, Holds(c, dst), NEW items \in Seq(Items), SL!Extend(c, dst, items),
         NEW x, wrote' = [wrote EXCEPT ![c] = x], Exact => x = SL!Contents(dst) \o items
  PROVE  SliceIInv'
<1>1. PICK b \in Nat, f \in Nat, l \in Nat, z \in Nat, k \in Nat :
        /\ b = dst.block /\ f = dst.from /\ l = dst.len /\ z = dst.cap /\ k = Len(items)
        /\ l <= z
  BY HeldFits DEF SliceOf
<1>2. /\ l # 0 \/ z # 0 => b \in 1 .. Len(mem) /\ mem[b] \in Seq(Items) /\ f + z <= Len(mem[b])
      /\ copied[c] => b \in (Given + 1) .. Len(mem) /\ f = 0 /\ z = Len(mem[b])
      /\ ~copied[c] /\ Exact => l = z
  BY <1>1, HeldFits
<1>3. /\ mem \in Seq(Seq(Items)) /\ Len(mem) \in Nat /\ Given \in Nat /\ Given <= Len(mem)
      /\ slices \in [SL!Vertices -> SliceOf] /\ held \in [Callers -> SliceOf]
      /\ copied \in [Callers -> BOOLEAN]
  <2>1. Given \in Nat
    BY IndexesAssumption DEF Given
  <2> QED BY <2>1 DEF SliceIInv
<1>4. PICK old \in Seq(Items) : old = SL!Contents(dst) /\ Len(old) = l
  <2> SUFFICES SL!Contents(dst) \in Seq(Items) /\ Len(SL!Contents(dst)) = l
    OBVIOUS
  <2>1. CASE l = 0
    <3>1. SL!Contents(dst) = <<>>
      BY <1>1, <2>1, ContentsEmpty
    <3>2. <<>> \in Seq(Items) /\ Len(<<>>) = 0
      OBVIOUS
    <3> QED BY <2>1, <3>1, <3>2
  <2>2. CASE l # 0
    <3>1. mem[dst.block] \in Seq(Items) /\ dst.from + dst.len <= Len(mem[dst.block])
      BY <1>1, <2>2, HeldFits
    <3> QED BY <1>1, <3>1, ContentsFacts
  <2> QED BY <2>1, <2>2
<1>5. old \o items = [j \in 1 .. (l + k) |-> IF j <= l THEN old[j] ELSE items[j - l]]
  <2>1. old \o items = [j \in 1 .. (Len(old) + Len(items)) |->
                          IF j <= Len(old) THEN old[j] ELSE items[j - Len(old)]]
    BY JoinIs
  <2> QED BY <1>1, <1>4, <2>1
<1>6. \A d \in Callers : copied[d] => held[d].block \in 1 .. Len(mem)
  <2> SUFFICES ASSUME NEW d \in Callers, copied[d] PROVE held[d].block \in 1 .. Len(mem)
    OBVIOUS
  <2>1. held[d] \in SliceOf /\ Holds(d, held[d])
    BY <1>3 DEF SliceIInv
  <2>2. held[d].block \in (Given + 1) .. Len(mem)
    BY <2>1, HeldFits
  <2> QED BY <1>3, <2>2
<1>7. \A u \in SL!Vertices : /\ slices[u].block \in 1 .. Given /\ slices[u].len \in Nat
                             /\ slices[u].from \in Nat /\ slices[u].cap \in Nat
                             /\ slices[u].block \in 1 .. Len(mem)
  BY <1>3, SMTT(30) DEF SliceIInv, IndexSlice, SliceOf
<1>8. CASE l + k <= z
  <2>1. /\ mem' = [mem EXCEPT ![b] = [j \in DOMAIN @ |-> IF j \in (f + l + 1) .. (f + (l + k))
                                                        THEN items[j - f - l] ELSE @[j]]]
        /\ held' = [held EXCEPT ![c] = [dst EXCEPT !.len = l + k]]
        /\ copied' = copied
    <3>1. dst.len + Len(items) <= dst.cap
      BY <1>1, <1>8
    <3>2. /\ mem' = [mem EXCEPT ![dst.block] =
                       [j \in DOMAIN @ |-> IF j \in (dst.from + dst.len + 1) .. (dst.from + (dst.len + Len(items)))
                                           THEN items[j - dst.from - dst.len] ELSE @[j]]]
          /\ held' = [held EXCEPT ![c] = [dst EXCEPT !.len = dst.len + Len(items)]]
          /\ copied' = copied
      BY <3>1 DEF SL!Extend
    <3> QED BY <1>1, <3>2
  <2>2. PICK h \in SliceOf : /\ h = [dst EXCEPT !.len = l + k] /\ h.block = b /\ h.from = f
                             /\ h.len = l + k /\ h.cap = z
    <3>1. dst = [block |-> b, from |-> f, len |-> l, cap |-> z]
      BY <1>1 DEF SliceOf
    <3>2. [dst EXCEPT !.len = l + k] = [block |-> b, from |-> f, len |-> l + k, cap |-> z]
      BY <3>1
    <3>3. PICK r : r = [block |-> b, from |-> f, len |-> l + k, cap |-> z]
      OBVIOUS
    <3>4. l + k \in Nat
      OBVIOUS
    <3>5. r \in SliceOf
      BY <3>3, <3>4 DEF SliceOf
    <3>6. r.block = b /\ r.from = f /\ r.len = l + k /\ r.cap = z
      BY <3>3
    <3>7. r = [dst EXCEPT !.len = l + k]
      BY <3>2, <3>3
    <3> QED BY <3>5, <3>6, <3>7, Zenon
  <2>3. CASE k = 0
    <3>1. items = <<>> /\ l + k = l
      <4>1. Len(items) = 0 /\ l + k = l
        BY <1>1, <2>3
      <4>2. items = <<>>
        BY <4>1
      <4> QED BY <4>1, <4>2
    <3>2. h = dst
      BY <1>1, <2>2, <3>1 DEF SliceOf
    <3>3. mem' = mem
      <4>1. CASE b \in 1 .. Len(mem)
        <5>1. PICK a \in Seq(Items) : a = mem[b]
          BY <1>3, <4>1
        <5>2. PICK g : g = [j \in DOMAIN a |-> IF j \in (f + l + 1) .. (f + (l + k))
                                                   THEN items[j - f - l] ELSE a[j]]
          OBVIOUS
        <5>3. g = a
          <6>1. \A j \in DOMAIN a : j \notin (f + l + 1) .. (f + (l + k))
            <7>1. \A j \in Int : j \notin (f + l + 1) .. (f + l)
              OBVIOUS
            <7>2. DOMAIN a \subseteq Int
              BY <5>1
            <7> QED BY <3>1, <7>1, <7>2
          <6>2. \A j \in DOMAIN a : g[j] = a[j]
            BY <5>2, <6>1
          <6>3. a = [j \in DOMAIN a |-> a[j]]
            BY <5>1
          <6>4. g = [j \in DOMAIN a |-> g[j]]
            BY <5>2
          <6>5. [j \in DOMAIN a |-> g[j]] = [j \in DOMAIN a |-> a[j]]
            BY <6>2
          <6> QED BY <6>3, <6>4, <6>5
        <5>4. mem' = [mem EXCEPT ![b] = g]
          BY <2>1, <5>1, <5>2
        <5> QED BY <1>3, <4>1, <5>1, <5>3, <5>4
      <4>2. CASE b \notin 1 .. Len(mem)
        BY <1>3, <2>1, <4>2, SMTT(30)
      <4> QED BY <4>1, <4>2
    <3>4. old \o items = old
      BY <1>4, <3>1
    <3>5. Win(mem'[h.block], h) = old
      BY <1>4, <3>2, <3>3 DEF Win, SL!Contents
    <3>6. held' = [held EXCEPT ![c] = h] /\ (Exact => x = old)
      BY <1>4, <2>1, <2>2, <3>4
    <3>7. copied'[c] => /\ h.block \in (Given + 1) .. Len(mem') /\ h.from = 0
                        /\ h.len <= h.cap /\ h.cap = Len(mem'[h.block])
                        /\ \A d \in Callers \ {c} : copied[d] => held[d].block # h.block
      BY <2>1, <3>2, <3>3 DEF Holds, Owned
    <3>8. ~copied'[c] => Borrowed(h)
      BY <2>1, <3>2 DEF Holds
    <3>9. /\ copied' \in [Callers -> BOOLEAN] /\ (\A d \in Callers \ {c} : copied'[d] = copied[d])
          /\ mem' \in Seq(Seq(Items)) /\ Len(mem) <= Len(mem')
      <4>1. copied' = copied
        BY <2>1
      <4>2. Len(mem') = Len(mem)
        BY <3>3
      <4> QED BY <1>3, <3>3, <4>1, <4>2
    <3> QED BY <3>3, <3>5, <3>6, <3>7, <3>8, <3>9, CallerStep DEF CallerMove
  <2>4. CASE k # 0
    <3>1. PICK a \in Seq(Items) : /\ a = mem[b] /\ b \in 1 .. Len(mem) /\ f + z <= Len(a)
                                  /\ f + l + k <= Len(a) /\ Len(a) \in Nat
      <4>1. b \in 1 .. Len(mem) /\ mem[b] \in Seq(Items) /\ f + z <= Len(mem[b])
        BY <1>2, <1>8, <2>4
      <4>2. Len(mem[b]) \in Nat
        BY <4>1
      <4>3. f + l + k <= Len(mem[b])
        BY <1>8, <4>1, <4>2
      <4> QED BY <4>1, <4>2, <4>3
    <3>2. PICK y : /\ y = Written(a, f + l, items) /\ y \in Seq(Items) /\ Len(y) = Len(a)
                   /\ \A j \in 1 .. (f + l) : y[j] = a[j]
                   /\ \A j \in 1 .. k : y[f + l + j] = items[j]
      <4>1. PICK from \in Nat : from = f + l
        OBVIOUS
      <4>2. from + Len(items) <= Len(a)
        BY <1>1, <3>1, <4>1
      <4>3. /\ Written(a, from, items) \in Seq(Items) /\ Len(Written(a, from, items)) = Len(a)
            /\ \A j \in 1 .. from : Written(a, from, items)[j] = a[j]
            /\ \A j \in 1 .. Len(items) : Written(a, from, items)[from + j] = items[j]
        BY <4>2, WrittenFacts
      <4> QED BY <1>1, <4>1, <4>3
    <3>3. mem' = [mem EXCEPT ![b] = y]
      <4>1. y = [j \in DOMAIN a |-> IF j \in (f + l + 1) .. (f + (l + k))
                                    THEN items[j - f - l] ELSE a[j]]
        <5>1. \A j \in DOMAIN a : j - (f + l) = j - f - l
          BY <3>1
        <5>2. f + l + k = f + (l + k)
          OBVIOUS
        <5> QED BY <1>1, <3>2, <5>1, <5>2 DEF Written
      <4> QED BY <2>1, <3>1, <4>1
    <3>4. /\ mem' \in Seq(Seq(Items)) /\ Len(mem') = Len(mem) /\ mem'[b] = y
          /\ \A e \in 1 .. Len(mem) : e # b => mem'[e] = mem[e]
      BY <1>3, <3>1, <3>2, <3>3
    <3>5. \A e \in 1 .. Len(mem) : Len(mem'[e]) = Len(mem[e])
      BY <3>1, <3>2, <3>4
    <3>6. ~copied[c] => ~Exact /\ \E v \in SL!Vertices : /\ b = slices[v].block /\ f = slices[v].from
                                                        /\ slices[v].len <= l
      <4> SUFFICES ASSUME ~copied[c]
                   PROVE  ~Exact /\ \E v \in SL!Vertices : /\ b = slices[v].block /\ f = slices[v].from
                                                           /\ slices[v].len <= l
        OBVIOUS
      <4>1. ~Exact
        BY <1>1, <1>2, <1>8, <2>4
      <4>2. Borrowed(dst)
        BY DEF Holds
      <4>3. dst # SL!Slice(1, 0, 0, 0)
        <5>1. SL!Slice(1, 0, 0, 0).cap = 0
          BY SliceRecord
        <5> QED BY <1>1, <1>8, <2>4, <5>1
      <4>4. PICK v \in SL!Vertices :
              /\ dst.len \in slices[v].len .. slices[v].cap
              /\ dst = SL!Slice(slices[v].block, slices[v].from, dst.len, slices[v].cap)
        BY <4>2, <4>3 DEF Borrowed
      <4>5. dst.block = slices[v].block /\ dst.from = slices[v].from
        BY <4>4 DEF SL!Slice
      <4>6. slices[v].len <= l
        BY <1>1, <1>7, <4>4
      <4> QED BY <1>1, <4>1, <4>5, <4>6
    <3>7. ASSUME owner # "csr", NEW u \in SL!Vertices, NEW j \in 1 .. slices[u].len
          PROVE  mem'[slices[u].block][slices[u].from + j] = mem[slices[u].block][slices[u].from + j]
      <4>1. CASE slices[u].block # b
        BY <1>7, <3>4, <4>1
      <4>2. CASE slices[u].block = b
        <5>1. ~copied[c]
          BY <1>2, <1>3, <1>7, <4>2
        <5>2. PICK v \in SL!Vertices : b = slices[v].block /\ f = slices[v].from /\ slices[v].len <= l
          BY <3>6, <5>1
        <5>3. owner = "adjlist"
          BY <3>6, <3>7, <5>1 DEF SliceIInv, SL!Kinds, Exact
        <5>4. slices[v].block = v /\ slices[u].block = u /\ slices[u].from = 0
          BY <5>3 DEF SliceIInv, IndexSlice
        <5>5. u = v
          BY <4>2, <5>2, <5>4
        <5>6. slices[u].from + j \in 1 .. (f + l)
          BY <1>7, <5>2, <5>4, <5>5
        <5> QED BY <3>1, <3>2, <3>4, <4>2, <5>6
      <4> QED BY <4>1, <4>2
    <3>8. ASSUME Exact, NEW d \in Callers \ {c}
          PROVE  Win(mem'[held[d].block], held[d]) = Win(mem[held[d].block], held[d])
      <4>1. copied[c] /\ Owned(c, dst) /\ b \in (Given + 1) .. Len(mem)
        BY <1>2, <3>6, <3>8 DEF Holds
      <4>2. held[d] \in SliceOf /\ Holds(d, held[d])
        BY <1>3 DEF SliceIInv
      <4>3. CASE held[d].len = 0
        BY <4>2, <4>3, WinEmpty
      <4>4. CASE held[d].len # 0
        <5>1. held[d].block \in 1 .. Len(mem)
          BY <4>2, <4>4, HeldFits
        <5>2. held[d].block # b
          <6>1. copied[d] => held[d].block # b
            BY <1>1, <4>1 DEF Owned
          <6>2. ~copied[d] => held[d].block \in 1 .. Given
            BY <4>2, <4>4, HeldFits
          <6> QED BY <1>3, <4>1, <6>1, <6>2
        <5> QED BY <3>4, <5>1, <5>2
      <4> QED BY <4>3, <4>4
    <3>9. Win(y, h) = old \o items
      <4>1. h.from + h.len <= Len(y)
        BY <2>2, <3>1, <3>2
      <4>2. Win(y, h) = [j \in 1 .. h.len |-> y[h.from + j]]
        BY <3>2, <4>1, WinFacts
      <4>3. Win(y, h) = [j \in 1 .. (l + k) |-> y[f + j]]
        BY <2>2, <4>2
      <4>4. ASSUME NEW j \in 1 .. (l + k)
            PROVE  y[f + j] = IF j <= l THEN old[j] ELSE items[j - l]
        <5>1. CASE j <= l
          <6>1. f + j \in 1 .. (f + l) /\ j \in 1 .. l
            BY <5>1
          <6>2. old = [i1 \in 1 .. dst.len |-> mem[dst.block][dst.from + i1]]
            <7>1. f + l <= Len(a)
              BY <3>1
            <7>2. mem[dst.block] \in Seq(Items) /\ dst.from + dst.len <= Len(mem[dst.block])
              BY <1>1, <3>1, <7>1
            <7> QED BY <1>4, <7>2, ContentsFacts
          <6>3. old[j] = a[f + j]
            BY <1>1, <3>1, <6>1, <6>2
          <6> QED BY <3>2, <5>1, <6>1, <6>3
        <5>2. CASE ~(j <= l)
          <6>1. j - l \in 1 .. k /\ f + l + (j - l) = f + j
            BY <5>2
          <6> QED BY <3>2, <5>2, <6>1
        <5> QED BY <5>1, <5>2
      <4> QED BY <1>5, <4>3, <4>4
    <3>10. held' = [held EXCEPT ![c] = h] /\ (Exact => x = old \o items)
      BY <1>4, <2>1, <2>2
    <3>11. copied'[c] => /\ h.block \in (Given + 1) .. Len(mem') /\ h.from = 0
                         /\ h.len <= h.cap /\ h.cap = Len(mem'[h.block])
                         /\ \A d \in Callers \ {c} : copied[d] => held[d].block # h.block
      <4>1. copied[c] => \A d \in Callers \ {c} : copied[d] => held[d].block # b
        BY <1>1 DEF Holds, Owned
      <4> QED BY <1>2, <1>8, <2>1, <2>2, <3>4, <3>5, <4>1
    <3>12. ~copied'[c] => Borrowed(h)
      <4> SUFFICES ASSUME ~copied[c] PROVE Borrowed(h)
        BY <2>1
      <4>1. Borrowed(dst)
        BY DEF Holds
      <4>2. dst # SL!Slice(1, 0, 0, 0)
        <5>1. SL!Slice(1, 0, 0, 0).cap = 0
          BY SliceRecord
        <5> QED BY <1>1, <1>8, <2>4, <5>1
      <4>3. PICK v \in SL!Vertices :
              /\ dst.len \in slices[v].len .. slices[v].cap
              /\ dst = SL!Slice(slices[v].block, slices[v].from, dst.len, slices[v].cap)
        BY <4>1, <4>2 DEF Borrowed
      <4>4. dst.cap = slices[v].cap
        BY <4>3 DEF SL!Slice
      <4>5. h = SL!Slice(slices[v].block, slices[v].from, h.len, slices[v].cap)
        BY <2>2, <4>3 DEF SL!Slice
      <4>6. h.len \in slices[v].len .. slices[v].cap
        BY <1>1, <1>7, <1>8, <2>2, <4>3, <4>4
      <4> QED BY <4>5, <4>6 DEF Borrowed
    <3>13. /\ copied' \in [Callers -> BOOLEAN] /\ (\A d \in Callers \ {c} : copied'[d] = copied[d])
           /\ mem' \in Seq(Seq(Items)) /\ Len(mem) <= Len(mem')
      BY <1>3, <2>1, <3>4
    <3>14. Win(mem'[h.block], h) = old \o items
      BY <2>2, <3>4, <3>9
    <3>15. CallerMove(c, h, x)
      BY <3>5, <3>7, <3>8, <3>10, <3>11, <3>12, <3>13, <3>14 DEF CallerMove
    <3> QED BY <3>15, CallerStep
  <2> QED BY <2>3, <2>4
<1>9. CASE ~(l + k <= z)
  <2>1. /\ mem' = Append(mem, old \o items)
        /\ held' = [held EXCEPT ![c] = SL!Slice(Len(mem) + 1, 0, l + k, l + k)]
        /\ copied' = [copied EXCEPT ![c] = TRUE]
    <3>1. ~(dst.len + Len(items) <= dst.cap)
      BY <1>1, <1>9
    <3>2. /\ mem' = Append(mem, SL!Contents(dst) \o items)
          /\ held' = [held EXCEPT ![c] = SL!Slice(Len(mem) + 1, 0, dst.len + Len(items), dst.len + Len(items))]
          /\ copied' = [copied EXCEPT ![c] = TRUE]
      BY <3>1 DEF SL!Extend
    <3>3. dst.len + Len(items) = l + k
      BY <1>1
    <3>4. held' = [held EXCEPT ![c] = SL!Slice(Len(mem) + 1, 0, l + k, l + k)]
      BY <3>2, <3>3, Zenon
    <3>5. mem' = Append(mem, old \o items)
      BY <1>4, <3>2
    <3>6. copied' = [copied EXCEPT ![c] = TRUE]
      BY <3>2
    <3> QED BY <3>4, <3>5, <3>6
  <2>2. PICK y \in Seq(Items) : y = old \o items /\ Len(y) = l + k
    <3>1. old \o items \in Seq(Items) /\ Len(old \o items) = Len(old) + Len(items)
      BY JoinFacts
    <3> QED BY <1>1, <1>4, <3>1
  <2>3. /\ mem' \in Seq(Seq(Items)) /\ Len(mem') = Len(mem) + 1 /\ mem'[Len(mem) + 1] = y
        /\ \A e \in 1 .. Len(mem) : mem'[e] = mem[e]
    BY <1>3, <2>1, <2>2
  <2>4. PICK h \in SliceOf : /\ h = SL!Slice(Len(mem) + 1, 0, l + k, l + k)
                             /\ h.block = Len(mem) + 1 /\ h.from = 0 /\ h.len = l + k /\ h.cap = l + k
    <3>1. PICK b1 \in Nat, z1 \in Nat : b1 = Len(mem) + 1 /\ z1 = l + k
      <4>1. Len(mem) + 1 \in Nat /\ l + k \in Nat
        BY <1>3
      <4> QED BY <4>1
    <3>2. /\ SL!Slice(b1, 0, z1, z1) \in SliceOf
          /\ SL!Slice(b1, 0, z1, z1).block = b1 /\ SL!Slice(b1, 0, z1, z1).from = 0
          /\ SL!Slice(b1, 0, z1, z1).len = z1 /\ SL!Slice(b1, 0, z1, z1).cap = z1
      BY DEF SL!Slice, SliceOf
    <3> QED BY <3>1, <3>2
  <2>5. Win(y, h) = y
    <3>1. h.from + h.len <= Len(y)
      BY <2>2, <2>4
    <3>2. Win(y, h) = [j \in 1 .. h.len |-> y[h.from + j]]
      BY <3>1, WinFacts
    <3>3. \A j \in 1 .. h.len : h.from + j = j
      BY <2>4
    <3>4. y = [j \in 1 .. h.len |-> y[j]]
      <4>1. y = [j \in 1 .. Len(y) |-> y[j]]
        OBVIOUS
      <4> QED BY <2>2, <2>4, <4>1
    <3> QED BY <3>2, <3>3, <3>4
  <2>6. held' = [held EXCEPT ![c] = h] /\ (Exact => x = y)
    BY <1>4, <2>1, <2>2, <2>4
  <2>7. /\ copied' \in [Callers -> BOOLEAN] /\ copied'[c]
        /\ (\A d \in Callers \ {c} : copied'[d] = copied[d])
    BY <1>3, <2>1
  <2>8. \A e \in 1 .. Len(mem) : Len(mem'[e]) = Len(mem[e])
    BY <2>3
  <2>9. \A u \in SL!Vertices : \A j \in 1 .. slices[u].len :
          mem'[slices[u].block][slices[u].from + j] = mem[slices[u].block][slices[u].from + j]
    BY <1>7, <2>3
  <2>10. ASSUME NEW d \in Callers \ {c}
         PROVE  Win(mem'[held[d].block], held[d]) = Win(mem[held[d].block], held[d])
    <3>1. held[d] \in SliceOf /\ Holds(d, held[d])
      BY <1>3 DEF SliceIInv
    <3>2. CASE held[d].len = 0
      BY <3>1, <3>2, WinEmpty
    <3>3. CASE held[d].len # 0
      <4>1. held[d].block \in 1 .. Len(mem)
        BY <3>1, <3>3, HeldFits
      <4> QED BY <2>3, <4>1
    <3> QED BY <3>2, <3>3
  <2>11. copied'[c] => /\ h.block \in (Given + 1) .. Len(mem') /\ h.from = 0
                       /\ h.len <= h.cap /\ h.cap = Len(mem'[h.block])
                       /\ \A d \in Callers \ {c} : copied[d] => held[d].block # h.block
    <3>1. \A d \in Callers : copied[d] => held[d].block # h.block
      BY <1>3, <1>6, <2>4
    <3> QED BY <1>3, <2>2, <2>3, <2>4, <3>1
  <2>12. Win(mem'[h.block], h) = y /\ Len(mem) <= Len(mem')
    BY <1>3, <2>3, <2>4, <2>5
  <2> QED BY <2>3, <2>6, <2>7, <2>8, <2>9, <2>10, <2>11, <2>12, CallerStep DEF CallerMove
<1> QED BY <1>8, <1>9

\* So does handing out a slice,
LEMMA NeighborsStep ==
  ASSUME SliceIInv, NEW c \in Callers, NEW u \in SL!Vertices, SL!Neighbors(c, u)
  PROVE  SliceIInv'
<1>1. /\ mem' = mem /\ owner' = owner /\ slices' = slices
      /\ held' = [held EXCEPT ![c] = slices[u]]
      /\ copied' = [copied EXCEPT ![c] = FALSE]
      /\ wrote' = [wrote EXCEPT ![c] = SL!Contents(slices[u])]
  BY DEF SL!Neighbors
<1>2. /\ mem \in Seq(Seq(Items)) /\ Len(mem) \in Nat
      /\ slices \in [SL!Vertices -> SliceOf] /\ copied \in [Callers -> BOOLEAN]
  BY DEF SliceIInv
<1>3. PICK h \in SliceOf : h = slices[u]
  BY <1>2
<1>4. Borrowed(h)
  <2>1. h = SL!Slice(h.block, h.from, h.len, h.cap)
    BY DEF SL!Slice, SliceOf
  <2>2. h.len \in h.len .. h.cap
    BY <1>3 DEF SliceIInv, IndexSlice, SliceOf
  <2>3. /\ h.len \in slices[u].len .. slices[u].cap
        /\ h = SL!Slice(slices[u].block, slices[u].from, h.len, slices[u].cap)
    BY <1>3, <2>1, <2>2, Zenon
  <2> QED BY <2>3 DEF Borrowed
<1>5. PICK x : x = SL!Contents(slices[u]) /\ Win(mem'[h.block], h) = x
  BY <1>1, <1>3 DEF SL!Contents, Win
<1>6. copied' \in [Callers -> BOOLEAN] /\ (\A d \in Callers \ {c} : copied'[d] = copied[d]) /\ ~copied'[c]
  BY <1>1, <1>2
<1>7. CallerMove(c, h, x)
  BY <1>1, <1>2, <1>3, <1>4, <1>5, <1>6 DEF CallerMove
<1> QED BY <1>7, CallerStep

\* an append to the slice a caller holds,
LEMMA AppendToStep ==
  ASSUME SliceIInv, NEW c \in Callers, SL!AppendTo(c)
  PROVE  SliceIInv'
<1>1. SL!Extend(c, held[c], <<c>>) /\ wrote' = [wrote EXCEPT ![c] = Append(@, c)]
      /\ owner' = owner /\ slices' = slices
  BY DEF SL!AppendTo
<1>2. PICK dst \in SliceOf : dst = held[c] /\ Holds(c, dst)
  BY DEF SliceIInv
<1>3. PICK items \in Seq(Items) : items = <<c>>
  <2>1. c \in Items
    BY DEF Items
  <2>2. <<c>> \in Seq(Items)
    BY <2>1
  <2> QED BY <2>2
<1>4. SL!Extend(c, dst, items)
  BY <1>1, <1>2, <1>3
<1>5. PICK x : x = Append(wrote[c], c)
  OBVIOUS
<1>6. wrote' = [wrote EXCEPT ![c] = x]
  BY <1>1, <1>5
<1>7. ASSUME Exact PROVE x = SL!Contents(dst) \o items
  <2>1. wrote[c] = SL!Contents(dst)
    BY <1>2, <1>7 DEF SliceIInv
  <2>2. PICK old \in Seq(Items) : old = SL!Contents(dst)
    <3>1. CASE dst.len = 0
      <4>1. SL!Contents(dst) = <<>>
        BY <3>1, ContentsEmpty
      <4>2. <<>> \in Seq(Items)
        OBVIOUS
      <4> QED BY <4>1, <4>2
    <3>2. CASE dst.len # 0
      <4>1. mem[dst.block] \in Seq(Items) /\ dst.from + dst.len <= Len(mem[dst.block])
        BY <1>2, <3>2, HeldFits
      <4> QED BY <4>1, ContentsFacts
    <3> QED BY <3>1, <3>2
  <2>3. Append(old, c) = old \o <<c>>
    BY DEF Items
  <2> QED BY <1>3, <1>5, <2>1, <2>2, <2>3
<1> QED BY <1>1, <1>2, <1>4, <1>6, <1>7, ExtendStep

\* and an append of the neighbours of a vertex to it.
LEMMA AppendNeighborsStep ==
  ASSUME SliceIInv, NEW c \in Callers, NEW u \in SL!Vertices, SL!AppendNeighbors(c, u)
  PROVE  SliceIInv'
<1>1. PICK dst : dst = IF copied[c] THEN [held[c] EXCEPT !.len = 0] ELSE SL!Slice(1, 0, 0, 0)
  OBVIOUS
<1>2. PICK items : items = SL!Contents(slices[u])
  OBVIOUS
<1>3. /\ SL!Extend(c, dst, items) /\ wrote' = [wrote EXCEPT ![c] = items]
      /\ owner' = owner /\ slices' = slices
  BY <1>1, <1>2 DEF SL!AppendNeighbors
<1>4. /\ held[c] \in SliceOf /\ Holds(c, held[c])
      /\ slices[u] \in SliceOf /\ IndexSlice(u) /\ mem \in Seq(Seq(Items)) /\ Given <= Len(mem)
  BY DEF SliceIInv
<1>5. dst \in SliceOf /\ dst.len = 0 /\ Holds(c, dst)
  <2>1. CASE copied[c]
    <3>1. PICK b \in Nat, f \in Nat, l \in Nat, z \in Nat :
            held[c] = [block |-> b, from |-> f, len |-> l, cap |-> z]
      BY <1>4 DEF SliceOf
    <3>2. dst = [block |-> b, from |-> f, len |-> 0, cap |-> z]
      BY <1>1, <2>1, <3>1
    <3>3. dst \in SliceOf /\ dst.block = b /\ dst.from = f /\ dst.len = 0 /\ dst.cap = z
      BY <3>2 DEF SliceOf
    <3>4. held[c].block = b /\ held[c].from = f /\ held[c].cap = z
      BY <3>1
    <3>5. Owned(c, held[c])
      BY <1>4, <2>1 DEF Holds
    <3>6. Owned(c, dst)
      BY <3>3, <3>4, <3>5 DEF Owned
    <3> QED BY <2>1, <3>3, <3>6 DEF Holds
  <2>2. CASE ~copied[c]
    <3>1. dst = SL!Slice(1, 0, 0, 0)
      BY <1>1, <2>2
    <3>2. dst \in SliceOf /\ dst.len = 0
      BY <3>1, SliceRecord
    <3> QED BY <2>2, <3>1, <3>2 DEF Holds, Borrowed
  <2> QED BY <2>1, <2>2
<1>6. items \in Seq(Items)
  <2>1. slices[u].block \in 1 .. Len(mem)
    <3>1. Given \in Nat /\ Len(mem) \in Nat
      BY <1>4, IndexesAssumption DEF Given
    <3> QED BY <1>4, <3>1 DEF IndexSlice
  <2>2. mem[slices[u].block] \in Seq(Items)
    BY <1>4, <2>1
  <2>3. slices[u].from + slices[u].len <= Len(mem[slices[u].block])
    <3>1. Len(mem[slices[u].block]) \in Nat
      BY <2>2
    <3> QED BY <1>4, <3>1 DEF IndexSlice, SliceOf
  <2> QED BY <1>2, <1>4, <2>2, <2>3, ContentsFacts
<1>7. items = SL!Contents(dst) \o items
  <2>1. SL!Contents(dst) = <<>>
    BY <1>5, ContentsEmpty
  <2>2. <<>> \o items = items
    BY <1>6
  <2> QED BY <2>1, <2>2
<1> QED BY <1>3, <1>5, <1>6, <1>7, ExtendStep

\* So does every step.
LEMMA SliceNext ==
  ASSUME SliceIInv, SL!Next
  PROVE  SliceIInv'
<1>1. PICK c \in Callers : \/ SL!AppendTo(c)
                          \/ \E u \in SL!Vertices : SL!Neighbors(c, u) \/ SL!AppendNeighbors(c, u)
  BY DEF SL!Next
<1>2. CASE SL!AppendTo(c)
  BY <1>2, AppendToStep
<1>3. ASSUME NEW u \in SL!Vertices, SL!Neighbors(c, u)
      PROVE  SliceIInv'
  BY <1>3, NeighborsStep
<1>4. ASSUME NEW u \in SL!Vertices, SL!AppendNeighbors(c, u)
      PROVE  SliceIInv'
  BY <1>4, AppendNeighborsStep
<1> QED BY <1>1, <1>2, <1>3, <1>4

SlicesInv == name = "slices" => SliceIInv

\* Whatever callers append to the slices they hold, in whatever order, the index still lists
\* its neighbours, and with exact capacities a caller reads what it wrote (csr.go:86-90).
THEOREM SlicesCorrect == Spec => []SlicesSafe
<1>1. Init => SlicesInv
  BY SliceInit DEF Init, SlicesInv, Builders, Lists3
<1>2. SlicesInv /\ [Next]_vars => SlicesInv'
  <2> SUFFICES ASSUME SlicesInv, [Next]_vars, name' = "slices"
               PROVE  SliceIInv'
    BY DEF SlicesInv
  <2>1. CASE name = "slices" /\ SL!Next
    BY <2>1, SliceNext DEF SlicesInv
  <2>2. CASE name = "slices" /\ UNCHANGED vars
    <3>1. SliceIInv
      BY <2>2 DEF SlicesInv
    <3>2. UNCHANGED <<owner, mem, slices, held, copied, wrote>>
      BY <2>2 DEF vars, sliceVars
    <3> QED BY <3>1, <3>2 DEF SliceIInv, IndexSlice, Holds, Owned, Borrowed, Given, Exact, SL!Contents
  <2>3. name' = name
    BY DEF Next, vars, AL!Next, AL!Allocate, AL!AppendEdge, AL!Appended, AL!SortList, AL!Done, AL!Ask, AL!Visit, AL!Leave, AL!Stay, AL!index, AL!vars
  <2>4. name = "slices" => SL!Next \/ UNCHANGED vars
    BY DEF Next, Lists3
  <2> QED BY <2>1, <2>2, <2>3, <2>4
<1>3. SlicesInv => SlicesSafe
  BY DEF SlicesInv, SlicesSafe, SliceIInv, IndexSlice, Exact, SL!IndexIntact, SL!CallersIndependent
<1> QED BY <1>1, <1>2, <1>3, PTL DEF Spec

-----------------------------------------------------------------------------
(* What every structure is built from. *)

\* n vertices, and the edges of the list each one once; no step changes them.
Built ==
  /\ n \in 0 .. Radix
  /\ list \in Seq(Edge(n))
  /\ Fit(n, list, edges)

-----------------------------------------------------------------------------
(* adjlist, adjlist-exact and adjmap. *)

ListOf == [items : Seq(Int), cap : Nat]

\* The positions and the targets of the edges of u among the first r of the list.
Positions(u, r) == {j \in 1 .. r : edges[j].from = u}
Targets(u, r) == {edges[j].to : j \in Positions(u, r)}

\* How many edges the lists hold.
Held == IF phase \in {"count", "append"} THEN at ELSE Len(edges)

\* The list of u has the targets of its edges, each one once.
HasTargets(u) ==
  /\ AL!Entry(u).items \in Seq(Int) /\ IsInjective(AL!Entry(u).items)
  /\ Range(AL!Entry(u).items) = Targets(u, Held)

\* The block of u has the size that was counted and is as full as the loop has come.
IsExact(u) ==
  /\ adj[u].cap = OutDegree(edges, u)
  /\ Len(adj[u].items) = Cardinality(Positions(u, Held))

ListsIInv ==
  /\ phase \in {"count", "append", "sort", "ready", "running", "returned"}
  /\ DOMAIN adj \subseteq Vertex /\ adj \in [DOMAIN adj -> ListOf]
  /\ name # "adjmap" => DOMAIN adj = Vertex
  /\ phase \in {"count", "append", "sort"} => at \in 0 .. Len(edges)
  /\ phase = "count" => at = 0
  /\ \A u \in Vertex : HasTargets(u)
  /\ phase = "sort" => unsorted \subseteq DOMAIN adj
  /\ phase \notin {"count", "append"} =>
       \A u \in DOMAIN adj : (phase = "sort" /\ u \in unsorted) \/ Ascending(adj[u].items)
  /\ name = "adjlist-exact" =>
       moved = 0 /\ (phase # "count" => \A u \in Vertex : IsExact(u))

\* No step changes the arguments.
LEMMA Unchanging == [Next]_vars => n' = n /\ list' = list /\ edges' = edges /\ name' = name
<1> SUFFICES ASSUME [Next]_vars PROVE n' = n /\ list' = list /\ edges' = edges /\ name' = name
  OBVIOUS
<1>1. CASE UNCHANGED vars
  BY <1>1 DEF vars, shared
<1>2. CASE name = "edgelist" /\ EL!Next /\ UNCHANGED <<name, list, byteVars, bitVars, listVars, sliceVars>>
  BY <1>2 DEF EL!Next, EL!NewSortedEdgeList, EL!Ask, EL!Visit, EL!Leave, EL!Stay, EL!vars
<1>3. CASE name = "varint-csr" /\ VC!Next /\ UNCHANGED <<name, list, at, keys, bitVars, listVars, sliceVars>>
  BY <1>3 DEF VC!Next, VC!Encode, VC!Close, VC!Ask, VC!Visit, VC!Leave, VC!Stay, VC!vars, VC!index
<1>4. CASE name = "bitmatrix" /\ BM!Next /\ UNCHANGED <<name, list, at, keys, byteVars, listVars, sliceVars>>
  BY <1>4 DEF BM!Next, BM!Refuse, BM!NewBitMatrix, BM!Ask, BM!Visit, BM!NextWord, BM!Leave, BM!Stay, BM!vars, BM!index
<1>5. CASE AL!Next /\ UNCHANGED <<list, keys, byteVars, bitVars, sliceVars>>
  BY <1>5 DEF AL!Next, AL!Allocate, AL!AppendEdge, AL!Appended, AL!SortList, AL!Done, AL!Ask, AL!Visit, AL!Leave, AL!Stay, AL!vars, AL!index
<1>6. CASE UNCHANGED <<name, list, shared, keys, byteVars, bitVars, listVars>>
  BY <1>6 DEF shared
<1> QED BY <1>1, <1>2, <1>3, <1>4, <1>5, <1>6 DEF Next

\* A structure starts from edges that fit,
LEMMA BuiltInit == Init /\ name \in Builders => Built
<1> SUFFICES ASSUME Init, name \in Builders PROVE Built
  OBVIOUS
<1>1. name # "slices"
  BY DEF Builders, Lists3
<1>2. PICK x \in Inputs : n = x.n /\ list = x.list
  BY <1>1 DEF Init
<1>3. edges \in Arguments(list)
  BY <1>1 DEF Init
<1>4. n \in 0 .. Radix /\ list \in Seq(Edge(n))
  BY <1>2, IndexesAssumption DEF Edge
<1> QED BY <1>3, <1>4, ArgumentsFacts DEF Built

\* and they stay.
LEMMA BuiltNext == Built /\ [Next]_vars => Built'
BY Unchanging DEF Built

\* What an index has to answer about u.
Right(u) ==
  \E s \in Seq(Int) :
    /\ IsInjective(s) /\ Ascending(s) /\ Range(s) = {v \in Vertex : Linked(list, u, v)}
    /\ AppendNeighbors(u) = s /\ Degree(u) = Len(s)
    /\ \A v \in Vertex : HasEdge(u, v) <=> v \in Range(s)

\* Without repetitions, the degree is the number of the neighbours.
LEMMA RightHolds ==
  ASSUME \A u \in Vertex : Right(u)
  PROVE  ContractHolds
<1> SUFFICES ASSUME NEW u \in Vertex, NEW N, N = {v \in Vertex : Linked(list, u, v)}
             PROVE  /\ Degree(u) = Cardinality(N)
                    /\ Ascending(AppendNeighbors(u)) /\ Len(AppendNeighbors(u)) = Degree(u)
                    /\ ToSet(AppendNeighbors(u)) = N
                    /\ \A v \in Vertex : HasEdge(u, v) <=> v \in N
  BY DEF ContractHolds
<1>1. PICK s \in Seq(Int) :
        /\ IsInjective(s) /\ Ascending(s) /\ Range(s) = N
        /\ AppendNeighbors(u) = s /\ Degree(u) = Len(s)
        /\ \A v \in Vertex : HasEdge(u, v) <=> v \in Range(s)
  BY DEF Right
<1>2. PICK k \in Nat : k = Len(s)
  OBVIOUS
<1>3. DOMAIN s = 1 .. k /\ s = [j \in 1 .. k |-> s[j]]
  BY <1>2
<1>4. (\A j \in 1 .. k : s[j] \in N) /\ (\A v \in N : \E j \in 1 .. k : s[j] = v)
  BY <1>1, <1>3 DEF Range
<1>5. s \in [1 .. k -> N]
  BY <1>3, <1>4
<1>6. Cardinality(N) = k
  BY <1>1, <1>4, <1>5, CountOnto
<1>7. ToSet(s) = N
  BY <1>1 DEF ToSet, Range
<1> QED BY <1>1, <1>2, <1>6, <1>7

\* The operators of the library are those of every structure.
LEMMA ListOperators ==
  /\ \A s : AL!Ascending(s) = Ascending(s) /\ AL!SortedSlice(s) = SortedSlice(s)
  /\ \A s, v : AL!BinarySearch(s, v) = BinarySearch(s, v)
  /\ \A e, u : AL!OutDegree(e, u) = OutDegree(e, u)
<1>1. \A s : AL!Ascending(s) = Ascending(s)
  BY DEF AL!Ascending, Ascending
<1>2. \A S : AL!Cardinality(S) = Cardinality(S)
  BY DEF AL!Cardinality, Cardinality
<1>3. \A s : AL!SortedSlice(s) = SortedSlice(s)
  BY DEF AL!SortedSlice, SortedSlice, AL!Cardinality, Cardinality
<1>4. \A s, v : AL!BinarySearch(s, v) = BinarySearch(s, v)
  BY DEF AL!BinarySearch, BinarySearch
<1>5. \A e, u : AL!OutDegree(e, u) = OutDegree(e, u)
  BY <1>2 DEF AL!OutDegree, OutDegree
<1> QED BY <1>1, <1>3, <1>4, <1>5

\* What the proofs about a structure use of its edges.
LEMMA EdgeFacts ==
  ASSUME Built
  PROVE  /\ Len(edges) \in Nat /\ DOMAIN edges = 1 .. Len(edges) /\ n \in Nat
         /\ \A j \in 1 .. Len(edges) : /\ edges[j] \in Edge(n)
                                       /\ edges[j].from \in Vertex /\ edges[j].to \in Vertex
                                       /\ edges[j].to \in Int
         /\ \A j, k \in 1 .. Len(edges) :
              edges[j].from = edges[k].from /\ edges[j].to = edges[k].to => j = k
         /\ \A u, v : Linked(list, u, v) <=>
              \E j \in 1 .. Len(edges) : edges[j].from = u /\ edges[j].to = v
<1>1. edges \in Seq(Edge(n)) /\ IsInjective(edges) /\ n \in Nat
  BY RadixAssumption DEF Built, Fit
<1>2. PICK c \in Nat : c = Len(edges) /\ DOMAIN edges = 1 .. c /\ \A j \in 1 .. c : edges[j] \in Edge(n)
  BY <1>1
<1>3. \A e \in Edge(n) : e.from \in Vertex /\ e.to \in Vertex /\ e.to \in Int
  BY <1>1 DEF Edge, Vertex
<1>4. \A j, k \in 1 .. c : edges[j].from = edges[k].from /\ edges[j].to = edges[k].to => j = k
  <2> SUFFICES ASSUME NEW j \in 1 .. c, NEW k \in 1 .. c,
                      edges[j].from = edges[k].from, edges[j].to = edges[k].to
               PROVE  j = k
    OBVIOUS
  <2>1. edges[j] = edges[k]
    <3>1. \A e \in Edge(n) : e = [from |-> e.from, to |-> e.to]
      BY DEF Edge
    <3>2. edges[j] = [from |-> edges[j].from, to |-> edges[j].to]
      BY <1>2, <3>1
    <3>3. edges[k] = [from |-> edges[k].from, to |-> edges[k].to]
      BY <1>2, <3>1
    <3> QED BY <3>2, <3>3
  <2> QED BY <1>1, <1>2, <2>1 DEF IsInjective
<1>5. \A u, v : Linked(list, u, v) <=> Linked(edges, u, v)
  BY DEF Built, Fit
<1>6. \A u, v : Linked(edges, u, v) <=> \E j \in 1 .. c : edges[j].from = u /\ edges[j].to = v
  BY <1>2 DEF Linked
<1> QED BY <1>1, <1>2, <1>3, <1>4, <1>5, <1>6

\* The positions of the edges of u, and one edge more.
LEMMA PositionFacts ==
  ASSUME Built, NEW u, NEW r \in 0 .. Len(edges)
  PROVE  /\ IsFiniteSet(Positions(u, r)) /\ Cardinality(Positions(u, r)) \in Nat
         /\ Cardinality(Positions(u, r)) <= OutDegree(edges, u)
         /\ r = Len(edges) => Cardinality(Positions(u, r)) = OutDegree(edges, u)
         /\ r < Len(edges) /\ edges[r + 1].from = u =>
              /\ Positions(u, r + 1) = Positions(u, r) \cup {r + 1}
              /\ Cardinality(Positions(u, r + 1)) = Cardinality(Positions(u, r)) + 1
              /\ Cardinality(Positions(u, r)) < OutDegree(edges, u)
         /\ r < Len(edges) /\ edges[r + 1].from # u => Positions(u, r + 1) = Positions(u, r)
<1>1. PICK c \in Nat : c = Len(edges) /\ DOMAIN edges = 1 .. c
  BY EdgeFacts
<1>2. OutDegree(edges, u) = Cardinality(Positions(u, c))
  BY <1>1 DEF OutDegree, Positions
<1>3. IsFiniteSet(1 .. c)
  BY FS_Interval
<1>4. ASSUME NEW q \in 0 .. c
      PROVE  IsFiniteSet(Positions(u, q)) /\ Cardinality(Positions(u, q)) \in Nat
             /\ Positions(u, q) \subseteq Positions(u, c)
  <2>1. Positions(u, q) \subseteq 1 .. c /\ Positions(u, q) \subseteq Positions(u, c)
    BY DEF Positions
  <2> QED BY <1>3, <2>1, FS_Subset, FS_CardinalityType
<1>5. \A q \in 0 .. c : Cardinality(Positions(u, q)) <= Cardinality(Positions(u, c))
  <2> SUFFICES ASSUME NEW q \in 0 .. c PROVE Cardinality(Positions(u, q)) <= Cardinality(Positions(u, c))
    OBVIOUS
  <2>1. c \in 0 .. c
    OBVIOUS
  <2> QED BY <1>4, <2>1, FS_Subset
<1>6. ASSUME r < c, edges[r + 1].from = u
      PROVE  /\ Positions(u, r + 1) = Positions(u, r) \cup {r + 1}
             /\ Cardinality(Positions(u, r + 1)) = Cardinality(Positions(u, r)) + 1
             /\ Cardinality(Positions(u, r)) < OutDegree(edges, u)
  <2>1. r \in 0 .. c /\ r + 1 \in 0 .. c
    BY <1>1, <1>6
  <2>2. \A j \in Int : j \in 1 .. (r + 1) <=> j \in 1 .. r \/ j = r + 1
    BY <2>1
  <2>3. Positions(u, r + 1) = Positions(u, r) \cup {r + 1} /\ r + 1 \notin Positions(u, r)
    BY <1>6, <2>1, <2>2 DEF Positions
  <2>4. Cardinality(Positions(u, r + 1)) = Cardinality(Positions(u, r)) + 1
    BY <1>4, <2>1, <2>3, FS_AddElement
  <2>5. Cardinality(Positions(u, r + 1)) <= Cardinality(Positions(u, c))
    BY <1>5, <2>1
  <2>6. Cardinality(Positions(u, r)) \in Nat /\ Cardinality(Positions(u, c)) \in Nat
    BY <1>4, <2>1
  <2> QED BY <1>2, <2>3, <2>4, <2>5, <2>6
<1>7. ASSUME r < c, edges[r + 1].from # u
      PROVE  Positions(u, r + 1) = Positions(u, r)
  <2>1. \A j \in Int : j \in 1 .. (r + 1) <=> j \in 1 .. r \/ j = r + 1
    BY <1>1
  <2> QED BY <1>7, <2>1 DEF Positions
<1> QED BY <1>1, <1>2, <1>4, <1>5, <1>6, <1>7

\* One item more.
LEMMA AppendedFacts ==
  ASSUME NEW s \in Seq(Int), NEW x \in Int, IsInjective(s), x \notin Range(s)
  PROVE  /\ Append(s, x) \in Seq(Int) /\ Len(Append(s, x)) = Len(s) + 1
         /\ IsInjective(Append(s, x)) /\ Range(Append(s, x)) = Range(s) \cup {x}
<1>1. PICK k \in Nat : k = Len(s) /\ DOMAIN s = 1 .. k
  OBVIOUS
<1>2. PICK t \in Seq(Int) : /\ t = Append(s, x) /\ Len(t) = k + 1 /\ t[k + 1] = x
                            /\ \A j \in 1 .. k : t[j] = s[j]
  <2>1. /\ Append(s, x) \in Seq(Int) /\ Len(Append(s, x)) = Len(s) + 1
        /\ \A j \in 1 .. Len(s) : Append(s, x)[j] = s[j]
        /\ Append(s, x)[Len(s) + 1] = x
    BY AppendProperties
  <2> QED BY <1>1, <2>1
<1>3. DOMAIN t = 1 .. (k + 1) /\ \A j \in 1 .. (k + 1) : j \in 1 .. k \/ j = k + 1
  BY <1>2
<1>4. \A j \in 1 .. k : s[j] # x
  BY <1>1 DEF Range
<1>5. IsInjective(t)
  BY <1>1, <1>2, <1>3, <1>4 DEF IsInjective
<1>6. Range(t) = Range(s) \cup {x}
  BY <1>1, <1>2, <1>3 DEF Range
<1> QED BY <1>1, <1>2, <1>5, <1>6

\* The lists start empty.
LEMMA ListsInit ==
  ASSUME Built, Init, name \in Lists3
  PROVE  ListsIInv
<1>1. /\ AL!Init /\ phase = (IF name = "adjlist-exact" THEN "count" ELSE "append")
      /\ name \in {"adjlist", "adjlist-exact", "adjmap"}
  BY DEF Init, Lists3
<1>2. /\ at = 0 /\ moved = 0
      /\ adj = IF name = "adjmap" THEN <<>> ELSE [u \in Vertex |-> [items |-> <<>>, cap |-> 0]]
  BY <1>1 DEF AL!Init, AL!Nil, AL!Vertex, Vertex
<1>3. <<>> \in Seq(Int) /\ Len(<<>>) = 0 /\ DOMAIN <<>> = {}
  OBVIOUS
<1>4. IsInjective(<<>>) /\ Range(<<>>) = {}
  BY <1>3 DEF IsInjective, Range
<1>5. DOMAIN adj \subseteq Vertex /\ (name # "adjmap" => DOMAIN adj = Vertex)
  BY <1>2, <1>3
<1>6. adj \in [DOMAIN adj -> ListOf]
  <2>1. CASE name = "adjmap"
    BY <1>2, <2>1
  <2>2. CASE name # "adjmap"
    <3>1. [items |-> <<>>, cap |-> 0] \in ListOf
      BY <1>3 DEF ListOf
    <3> QED BY <1>2, <2>2, <3>1
  <2> QED BY <2>1, <2>2
<1>7. ASSUME NEW u \in Vertex
      PROVE  HasTargets(u)
  <2>1. AL!Entry(u).items = <<>>
    BY <1>2, <1>5 DEF AL!Entry, AL!Nil
  <2>2. Held = 0
    BY <1>1, <1>2 DEF Held
  <2>3. Targets(u, 0) = {}
    BY DEF Targets, Positions
  <2> QED BY <1>3, <1>4, <2>1, <2>2, <2>3 DEF HasTargets
<1>8. at \in 0 .. Len(edges)
  BY <1>2, EdgeFacts
<1> QED BY <1>1, <1>2, <1>5, <1>6, <1>7, <1>8 DEF ListsIInv

\* The lists are not touched: only the phase, the cursor and the order of the loop may change.
LEMMA ListsKept ==
  ASSUME ListsIInv, n' = n, edges' = edges, name' = name, adj' = adj, moved' = moved,
         Held' = Held, (phase = "count") = (phase' = "count"),
         phase' \in {"count", "append", "sort", "ready", "running", "returned"},
         phase' \in {"count", "append", "sort"} => at' \in 0 .. Len(edges),
         phase' = "count" => at' = 0,
         phase' = "sort" => unsorted' \subseteq DOMAIN adj,
         phase' \notin {"count", "append"} =>
           \A u \in DOMAIN adj : (phase' = "sort" /\ u \in unsorted') \/ Ascending(adj[u].items)
  PROVE  ListsIInv'
<1>1. Vertex' = Vertex
  BY DEF Vertex
<1>2. \A u \in Vertex : HasTargets(u)'
  BY DEF ListsIInv, HasTargets, AL!Entry, AL!Nil, Targets, Positions
<1>3. \A u \in Vertex : IsExact(u) => IsExact(u)'
  BY DEF IsExact, Positions
<1> QED BY <1>1, <1>2, <1>3 DEF ListsIInv

\* Blocks of the counted sizes keep the invariant of the lists.
LEMMA AllocateStep ==
  ASSUME Built, ListsIInv, n' = n, edges' = edges, name' = name, name \in Lists3, AL!Allocate
  PROVE  ListsIInv'
<1>1. /\ phase = "count" /\ phase' = "append" /\ at' = at /\ moved' = moved
      /\ adj' = [u \in Vertex |-> [items |-> <<>>, cap |-> AL!OutDegree(edges, u)]]
  BY DEF AL!Allocate, AL!Vertex, Vertex
<1>2. PICK c \in Nat : c = Len(edges)
  BY EdgeFacts
<1>3. \A u \in Vertex : OutDegree(edges, u) \in Nat /\ AL!OutDegree(edges, u) = OutDegree(edges, u)
  <2> SUFFICES ASSUME NEW u \in Vertex
               PROVE  OutDegree(edges, u) \in Nat /\ AL!OutDegree(edges, u) = OutDegree(edges, u)
    OBVIOUS
  <2>1. c \in 0 .. Len(edges) /\ c = Len(edges)
    BY <1>2
  <2> QED BY <2>1, PositionFacts, ListOperators
<1>4. <<>> \in Seq(Int) /\ Len(<<>>) = 0 /\ DOMAIN <<>> = {}
  OBVIOUS
<1>5. \A u \in Vertex : adj'[u] \in ListOf /\ adj'[u].items = <<>> /\ adj'[u].cap = OutDegree(edges, u)
  BY <1>1, <1>3, <1>4 DEF ListOf
<1>6. DOMAIN adj' = Vertex /\ adj' \in [DOMAIN adj' -> ListOf] /\ Vertex' = Vertex
  BY <1>1, <1>5 DEF Vertex
\* Nothing was read before.
<1>7. ASSUME NEW u \in Vertex
      PROVE  HasTargets(u)' /\ (name = "adjlist-exact" => IsExact(u)')
  <2>1. HasTargets(u)
    BY DEF ListsIInv
  <2>2. Held = at /\ Held' = at
    BY <1>1 DEF Held
  <2>3. at = 0
    BY <1>1 DEF ListsIInv
  <2>4. Targets(u, 0)' = {} /\ Positions(u, 0)' = {}
    BY DEF Targets, Positions
  <2>5. AL!Entry(u)' = adj'[u]
    BY <1>6 DEF AL!Entry
  <2>6. IsInjective(<<>>) /\ Range(<<>>) = {}
    BY <1>4 DEF IsInjective, Range
  <2>7. HasTargets(u)'
    BY <1>4, <1>5, <2>2, <2>3, <2>4, <2>5, <2>6 DEF HasTargets
  <2>8. IsExact(u)'
    <3>1. Cardinality({}) = 0
      BY FS_EmptySet
    <3> QED BY <1>4, <1>5, <2>2, <2>3, <2>4, <3>1 DEF IsExact
  <2> QED BY <2>7, <2>8
<1> QED BY <1>1, <1>6, <1>7 DEF ListsIInv

\* So does an edge appended, whether its list is moved or not,
LEMMA AppendEdgeStep ==
  ASSUME Built, ListsIInv, n' = n, edges' = edges, name' = name, name \in Lists3, AL!AppendEdge
  PROVE  ListsIInv'
<1>1. PICK c \in Nat : /\ c = Len(edges) /\ at \in 0 .. c /\ at < c /\ at + 1 \in 1 .. c
                       /\ phase = "append" /\ phase' = "append" /\ at' = at + 1
  BY EdgeFacts DEF AL!AppendEdge, ListsIInv
<1>2. PICK f \in Vertex, x \in Vertex : f = edges[at + 1].from /\ x = edges[at + 1].to /\ x \in Int
  BY <1>1, EdgeFacts
<1>3. PICK s \in Seq(Int) : /\ s = AL!Entry(f).items /\ IsInjective(s) /\ Range(s) = Targets(f, at)
  BY <1>1 DEF ListsIInv, HasTargets, Held
\* The edge was not read before: there is only one from f to x.
<1>4. x \notin Targets(f, at)
  <2> SUFFICES ASSUME NEW j \in 1 .. at, edges[j].from = f, edges[j].to = x PROVE FALSE
    BY DEF Targets, Positions
  <2>1. j \in 1 .. c /\ j # at + 1
    BY <1>1
  <2> QED BY <1>1, <1>2, <2>1, EdgeFacts
<1>5. PICK t \in Seq(Int) : /\ t = Append(s, x) /\ IsInjective(t)
                            /\ Range(t) = Targets(f, at) \cup {x} /\ Len(t) = Len(s) + 1
  BY <1>2, <1>3, <1>4, AppendedFacts
<1>6. PICK cap \in IF Len(s) < AL!Entry(f).cap THEN {AL!Entry(f).cap} ELSE Len(t) .. (Len(t) + Slack) :
        adj' = [u \in DOMAIN adj \cup {f} |-> IF u = f THEN [items |-> t, cap |-> cap] ELSE adj[u]]
  BY <1>2, <1>3, <1>5, ZenonT(30) DEF AL!AppendEdge
<1>7. moved' = IF ~(Len(s) < AL!Entry(f).cap) /\ AL!Entry(f).cap > 0 THEN moved + 1 ELSE moved
  BY <1>2, <1>3 DEF AL!AppendEdge
<1>8. AL!Entry(f).cap \in Nat /\ Slack \in Nat
  BY IndexesAssumption DEF ListsIInv, AL!Entry, AL!Nil, ListOf
<1>9. cap \in Nat
  <2>1. Len(t) \in Nat
    OBVIOUS
  <2> QED BY <1>6, <1>8, <2>1
<1>10. /\ DOMAIN adj' = DOMAIN adj \cup {f} /\ adj'[f] = [items |-> t, cap |-> cap]
       /\ \A u \in DOMAIN adj : u # f => adj'[u] = adj[u]
  BY <1>6
<1>11. adj' \in [DOMAIN adj' -> ListOf]
  <2>1. [items |-> t, cap |-> cap] \in ListOf
    BY <1>9 DEF ListOf
  <2>2. \A u \in DOMAIN adj : adj[u] \in ListOf
    BY DEF ListsIInv
  <2> QED BY <1>6, <1>10, <2>1, <2>2
<1>12. /\ Vertex' = Vertex /\ DOMAIN adj' \subseteq Vertex
       /\ name # "adjmap" => DOMAIN adj' = Vertex
  BY <1>2, <1>10 DEF ListsIInv, Vertex
<1>13. Held = at /\ Held' = at + 1
  BY <1>1 DEF Held
<1>14. \A u, r : Targets(u, r)' = Targets(u, r) /\ Positions(u, r)' = Positions(u, r)
  BY DEF Targets, Positions
<1>15. Positions(f, at + 1) = Positions(f, at) \cup {at + 1}
       /\ \A u : u # f => Positions(u, at + 1) = Positions(u, at)
  <2>1. at \in 0 .. Len(edges) /\ at < Len(edges)
    BY <1>1
  <2> QED BY <1>2, <2>1, PositionFacts
<1>16. ASSUME NEW u \in Vertex
       PROVE  HasTargets(u)'
  <2>1. CASE u = f
    <3>1. AL!Entry(u)'.items = t
      BY <1>10, <2>1 DEF AL!Entry
    <3>2. Targets(f, at + 1) = Targets(f, at) \cup {x}
      BY <1>2, <1>15 DEF Targets
    <3> QED BY <1>5, <1>13, <1>14, <2>1, <3>1, <3>2 DEF HasTargets
  <2>2. CASE u # f
    <3>1. AL!Entry(u)' = AL!Entry(u)
      BY <1>10, <2>2 DEF AL!Entry, AL!Nil
    <3>2. Targets(u, at + 1) = Targets(u, at)
      BY <1>15, <2>2 DEF Targets
    <3> QED BY <1>13, <1>14, <3>1, <3>2 DEF HasTargets, ListsIInv
  <2> QED BY <2>1, <2>2
<1>17. ASSUME name = "adjlist-exact"
       PROVE  moved' = 0 /\ \A u \in Vertex : IsExact(u)'
  <2>1. DOMAIN adj = Vertex /\ moved = 0 /\ \A u \in Vertex : IsExact(u)
    BY <1>1, <1>17 DEF ListsIInv
  <2>2. AL!Entry(f) = adj[f]
    BY <2>1 DEF AL!Entry
  <2>3. adj[f].cap = OutDegree(edges, f) /\ Len(s) = Cardinality(Positions(f, at))
    BY <1>3, <1>13, <2>1, <2>2 DEF IsExact
  <2>4. /\ Cardinality(Positions(f, at + 1)) = Cardinality(Positions(f, at)) + 1
        /\ Cardinality(Positions(f, at)) < OutDegree(edges, f)
    BY <1>1, <1>2, PositionFacts
  <2>5. cap = adj[f].cap /\ moved' = moved
    BY <1>6, <1>7, <2>2, <2>3, <2>4
  <2>6. ASSUME NEW u \in Vertex
        PROVE  IsExact(u)'
    <3>1. CASE u = f
      BY <1>5, <1>10, <1>13, <1>14, <2>3, <2>4, <2>5, <3>1 DEF IsExact
    <3>2. CASE u # f
      BY <1>10, <1>13, <1>14, <1>15, <2>1, <3>2 DEF IsExact
    <3> QED BY <3>1, <3>2
  <2> QED BY <2>1, <2>5, <2>6
<1>18. phase' = "append" /\ at' \in 0 .. Len(edges')
  BY <1>1
<1> QED BY <1>11, <1>12, <1>16, <1>17, <1>18 DEF ListsIInv

\* and a list sorted, in whatever order the loop comes to it.
LEMMA SortListStep ==
  ASSUME Built, ListsIInv, n' = n, edges' = edges, name' = name, name \in Lists3, AL!SortList
  PROVE  ListsIInv'
<1>1. /\ phase = "sort" /\ phase' = "sort" /\ at' = at /\ moved' = moved
      /\ unsorted \subseteq DOMAIN adj
  BY DEF AL!SortList, ListsIInv
<1>2. PICK u \in unsorted :
        /\ adj' = IF Len(adj[u].items) > 1 /\ ~Ascending(adj[u].items)
                  THEN [adj EXCEPT ![u].items = SortedSlice(@)] ELSE adj
        /\ unsorted' = unsorted \ {u}
  BY ListOperators DEF AL!SortList, AL!Upcoming
<1>3. PICK s \in Seq(Int), z \in Nat : adj[u] = [items |-> s, cap |-> z]
  BY <1>1, <1>2 DEF ListsIInv, ListOf
<1>4. u \in DOMAIN adj /\ u \in Vertex /\ adj[u].items = s /\ adj[u].cap = z /\ AL!Entry(u) = adj[u]
  BY <1>1, <1>2, <1>3 DEF ListsIInv, AL!Entry
<1>5. IsInjective(s) /\ Range(s) = Targets(u, Held)
  BY <1>4 DEF ListsIInv, HasTargets
<1>6. PICK t \in Seq(Int) : /\ adj' = [adj EXCEPT ![u] = [items |-> t, cap |-> z]]
                            /\ Ascending(t) /\ IsInjective(t) /\ Range(t) = Range(s) /\ Len(t) = Len(s)
  <2>1. PICK k \in Nat : k = Len(s) /\ s \in [1 .. k -> Int]
    OBVIOUS
  <2>2. CASE Len(s) > 1 /\ ~Ascending(s)
    <3>1. /\ SortedSlice(s) \in [1 .. k -> Int] /\ Ascending(SortedSlice(s))
          /\ Range(SortedSlice(s)) = Range(s) /\ IsInjective(SortedSlice(s))
      BY <1>5, <2>1, SortFacts
    <3>2. SortedSlice(s) \in Seq(Int) /\ Len(SortedSlice(s)) = k
      BY <3>1
    <3>3. adj' = [adj EXCEPT ![u].items = SortedSlice(s)]
      BY <1>2, <1>4, <2>2
    <3>4. adj' = [adj EXCEPT ![u] = [items |-> SortedSlice(s), cap |-> z]]
      <4>1. PICK r : r = SortedSlice(s)
        OBVIOUS
      <4>2. [adj[u] EXCEPT !.items = r] = [items |-> r, cap |-> z]
        BY <1>3
      <4>3. adj' = [adj EXCEPT ![u] = [adj[u] EXCEPT !.items = r]]
        BY <3>3, <4>1
      <4> QED BY <4>1, <4>2, <4>3
    <3> QED BY <2>1, <3>1, <3>2, <3>4
  <2>3. CASE ~(Len(s) > 1 /\ ~Ascending(s))
    <3>1. Ascending(s)
      <4>1. ASSUME ~(k > 1)
            PROVE  Ascending(s)
        <5>1. \A j1, j2 \in 1 .. k : ~(j1 < j2)
          BY <4>1
        <5>2. DOMAIN s = 1 .. k
          BY <2>1
        <5> QED BY <5>1, <5>2 DEF Ascending
      <4> QED BY <2>1, <2>3, <4>1
    <3>2. adj' = adj
      BY <1>2, <1>4, <2>3
    <3>3. adj = [adj EXCEPT ![u] = [items |-> s, cap |-> z]]
      BY <1>3, <1>4 DEF ListsIInv
    <3> QED BY <1>5, <3>1, <3>2, <3>3
  <2> QED BY <2>2, <2>3
<1>7. /\ DOMAIN adj' = DOMAIN adj /\ adj'[u] = [items |-> t, cap |-> z]
      /\ \A v \in DOMAIN adj : v # u => adj'[v] = adj[v]
  BY <1>4, <1>6 DEF ListsIInv
<1>8. adj' \in [DOMAIN adj' -> ListOf]
  <2>1. [items |-> t, cap |-> z] \in ListOf
    BY DEF ListOf
  <2>2. \A v \in DOMAIN adj : adj[v] \in ListOf
    BY DEF ListsIInv
  <2>3. \A v \in DOMAIN adj : adj'[v] \in ListOf
    BY <1>7, <2>1, <2>2
  <2>4. adj' = [v \in DOMAIN adj |-> adj'[v]]
    BY <1>6 DEF ListsIInv
  <2> QED BY <1>7, <2>3, <2>4
<1>9. Vertex' = Vertex /\ Held' = Held
  BY <1>1 DEF Vertex, Held
<1>10. \A v, r : Targets(v, r)' = Targets(v, r) /\ Positions(v, r)' = Positions(v, r)
  BY DEF Targets, Positions
<1>11. ASSUME NEW v \in Vertex
       PROVE  HasTargets(v)'
  <2>1. CASE v = u
    <3>1. AL!Entry(v)'.items = t
      BY <1>4, <1>7, <2>1 DEF AL!Entry
    <3> QED BY <1>5, <1>6, <1>9, <1>10, <2>1, <3>1 DEF HasTargets
  <2>2. CASE v # u
    <3>1. AL!Entry(v)' = AL!Entry(v)
      BY <1>7, <2>2 DEF AL!Entry, AL!Nil
    <3> QED BY <1>9, <1>10, <3>1 DEF HasTargets, ListsIInv
  <2> QED BY <2>1, <2>2
<1>12. \A v \in DOMAIN adj' : v \in unsorted' \/ Ascending(adj'[v].items)
  <2> SUFFICES ASSUME NEW v \in DOMAIN adj, v \notin unsorted' PROVE Ascending(adj'[v].items)
    BY <1>7
  <2>1. CASE v = u
    BY <1>6, <1>7, <2>1
  <2>2. CASE v # u
    BY <1>1, <1>2, <1>7, <2>2 DEF ListsIInv
  <2> QED BY <2>1, <2>2
<1>13. ASSUME name = "adjlist-exact"
       PROVE  moved' = 0 /\ \A v \in Vertex : IsExact(v)'
  <2>1. moved = 0 /\ DOMAIN adj = Vertex /\ \A v \in Vertex : IsExact(v)
    BY <1>1, <1>13 DEF ListsIInv
  <2>2. ASSUME NEW v \in Vertex
        PROVE  IsExact(v)'
    <3>1. CASE v = u
      BY <1>4, <1>6, <1>7, <1>9, <1>10, <2>1, <3>1 DEF IsExact
    <3>2. CASE v # u
      BY <1>7, <1>9, <1>10, <2>1, <3>2 DEF IsExact
    <3> QED BY <3>1, <3>2
  <2> QED BY <1>1, <2>1, <2>2
<1>14. unsorted' \subseteq DOMAIN adj'
  BY <1>1, <1>2, <1>7
<1>15. /\ DOMAIN adj' \subseteq Vertex' /\ (name' # "adjmap" => DOMAIN adj' = Vertex')
       /\ at' \in 0 .. Len(edges') /\ phase' = "sort"
  BY <1>1, <1>7, <1>9 DEF ListsIInv
<1> QED BY <1>8, <1>9, <1>11, <1>12, <1>13, <1>14, <1>15 DEF ListsIInv

\* So does every step.
LEMMA ListsNext ==
  ASSUME Built, ListsIInv, n' = n, edges' = edges, name' = name, name \in Lists3,
         AL!Next \/ UNCHANGED vars
  PROVE  ListsIInv'
<1>1. CASE AL!Allocate
  BY <1>1, AllocateStep
<1>2. CASE AL!AppendEdge
  BY <1>2, AppendEdgeStep
<1>3. CASE AL!Appended
  <2>1. /\ phase = "append" /\ phase' = "sort" /\ at = Len(edges) /\ unsorted' = DOMAIN adj
        /\ adj' = adj /\ moved' = moved /\ at' = at
    BY <1>3 DEF AL!Appended, AL!index
  <2>2. Held' = Held /\ at' \in 0 .. Len(edges)
    BY <2>1 DEF Held, ListsIInv
  <2> QED BY <2>1, <2>2, ListsKept
<1>4. CASE AL!SortList
  BY <1>4, SortListStep
<1>5. CASE AL!Done
  <2>1. /\ phase = "sort" /\ phase' = "ready" /\ unsorted = {}
        /\ adj' = adj /\ moved' = moved
    BY <1>5 DEF AL!Done, AL!index
  <2>2. Held' = Held /\ \A u \in DOMAIN adj : Ascending(adj[u].items)
    BY <2>1 DEF Held, ListsIInv
  <2> QED BY <2>1, <2>2, ListsKept
<1>6. CASE AL!Ask \/ AL!Visit \/ AL!Leave
  <2>1. /\ phase \in {"ready", "running"} /\ phase' \in {"running", "returned"}
        /\ adj' = adj /\ moved' = moved
    BY <1>6 DEF AL!Ask, AL!Visit, AL!Leave, AL!index
  <2>2. Held' = Held /\ \A u \in DOMAIN adj : Ascending(adj[u].items)
    BY <2>1 DEF Held, ListsIInv
  <2> QED BY <2>1, <2>2, ListsKept
<1>7. CASE UNCHANGED <<adj, moved, at, unsorted, phase>>
  <2>1. Held' = Held
    BY <1>7 DEF Held
  <2> QED BY <1>7, <2>1, ListsKept DEF ListsIInv
<1>8. AL!Stay \/ UNCHANGED vars => UNCHANGED <<adj, moved, at, unsorted, phase>>
  BY DEF AL!Stay, AL!vars, AL!index, vars, shared, listVars
<1> QED BY <1>1, <1>2, <1>3, <1>4, <1>5, <1>6, <1>7, <1>8 DEF AL!Next

\* Lists that were built answer as the list of edges.
LEMMA ListsRight ==
  ASSUME Built, ListsIInv, name \in Lists3, phase = "ready", NEW u \in Vertex
  PROVE  Right(u)
<1>1. PICK s \in Seq(Int) : /\ s = AL!Entry(u).items /\ IsInjective(s)
                            /\ Range(s) = Targets(u, Len(edges))
  BY DEF ListsIInv, HasTargets, Held
<1>2. Ascending(s)
  <2>1. CASE u \in DOMAIN adj
    BY <1>1, <2>1 DEF ListsIInv, AL!Entry
  <2>2. CASE u \notin DOMAIN adj
    <3>1. s = <<>>
      BY <1>1, <2>2 DEF AL!Entry, AL!Nil
    <3> QED BY <3>1 DEF Ascending
  <2> QED BY <2>1, <2>2
<1>3. Range(s) = {v \in Vertex : Linked(list, u, v)}
  BY <1>1, EdgeFacts DEF Targets, Positions
<1>4. /\ name \notin {"edgelist", "varint-csr", "bitmatrix"}
      /\ AL!Neighbors(u) = s /\ AL!Degree(u) = Len(s)
  BY <1>1 DEF Lists3, AL!Neighbors, AL!Degree
<1>5. AppendNeighbors(u) = s /\ Degree(u) = Len(s)
  BY <1>4 DEF AppendNeighbors, Degree
<1>6. ASSUME NEW v \in Vertex
      PROVE  HasEdge(u, v) <=> v \in Range(s)
  <2>1. BinarySearch(s, v).found <=> v \in Range(s)
    <3>1. v \in Int
      BY EdgeFacts DEF Vertex
    <3>2. BinarySearch(s, v).found <=> \E j \in DOMAIN s : s[j] = v
      BY <1>2, <3>1, BinarySearchFinds
    <3> QED BY <3>2 DEF Range
  <2>2. HasEdge(u, v) <=> (name = "adjmap" => u \in DOMAIN adj) /\ BinarySearch(s, v).found
    <3>1. AL!BinarySearch(s, v) = BinarySearch(s, v)
      BY ListOperators
    <3>2. HasEdge(u, v) = AL!HasEdge(u, v)
      BY <1>4 DEF HasEdge
    <3> QED BY <1>4, <3>1, <3>2 DEF AL!HasEdge
  <2>3. ASSUME u \notin DOMAIN adj
        PROVE  v \notin Range(s)
    <3>1. s = <<>>
      BY <1>1, <2>3 DEF AL!Entry, AL!Nil
    <3> QED BY <3>1 DEF Range
  <2> QED BY <2>1, <2>2, <2>3
<1> QED BY <1>1, <1>2, <1>3, <1>5, <1>6 DEF Right

\* A list of adjlist-exact never moves and ends full.
LEMMA ListsExactHolds ==
  ASSUME Built, ListsIInv, name = "adjlist-exact"
  PROVE  ListsExact
<1> SUFFICES ASSUME phase = "ready", NEW u \in Vertex
             PROVE  adj[u].cap = Len(adj[u].items)
  BY DEF ListsIInv, ListsExact
<1>1. IsExact(u) /\ Held = Len(edges)
  BY DEF ListsIInv, Held
<1>2. Len(edges) \in 0 .. Len(edges)
  BY EdgeFacts
<1> QED BY <1>1, <1>2, PositionFacts DEF IsExact

-----------------------------------------------------------------------------
(* edgelist. *)

\* The keys of the edges, each one once and in ascending order.
KeysIInv ==
  /\ phase \in {"build", "ready", "running", "returned"}
  /\ phase # "build" =>
       /\ keys \in Seq(Int) /\ Ascending(keys) /\ IsInjective(keys)
       /\ Range(keys) = {Pack(edges[j]) : j \in 1 .. Len(edges)}

\* EdgeList works on keys as Dedup does.
LEMMA KeyOperators ==
  /\ \A e : EL!Pack(e) = Pack(e)
  /\ \A s : EL!Packed(s) = Packed(s) /\ EL!Ascending(s) = Ascending(s) /\ EL!SortedSlice(s) = SortedSlice(s)
  /\ \A s, v : EL!BinarySearch(s, v) = BinarySearch(s, v)
  /\ \A k : EL!Source(k) = Source(k) /\ EL!Target(k) = Target(k)
<1>1. \A e : EL!Pack(e) = Pack(e)
  BY DEF EL!Pack, Pack
<1>2. \A s : EL!Packed(s) = Packed(s)
  BY <1>1 DEF EL!Packed, Packed
<1>3. \A s : EL!Ascending(s) = Ascending(s)
  BY DEF EL!Ascending, Ascending
<1>4. \A s : EL!SortedSlice(s) = SortedSlice(s)
  BY DEF EL!SortedSlice, SortedSlice, EL!Cardinality, Cardinality
<1>5. \A s, v : EL!BinarySearch(s, v) = BinarySearch(s, v)
  BY DEF EL!BinarySearch, BinarySearch
<1>6. \A k : EL!Source(k) = Source(k) /\ EL!Target(k) = Target(k)
  BY DEF EL!Source, Source, EL!Target, Target
<1> QED BY <1>1, <1>2, <1>3, <1>4, <1>5, <1>6

\* Every step keeps the invariant of the keys.
LEMMA KeysNext ==
  ASSUME Built, KeysIInv, edges' = edges, EL!Next \/ UNCHANGED vars
  PROVE  KeysIInv'
<1>1. CASE EL!NewSortedEdgeList
  <2>1. PICK c \in Nat, k \in Nat : /\ c = n /\ c \in 0 .. Radix /\ k = Len(edges)
                                    /\ edges \in [1 .. k -> Edge(c)] /\ IsInjective(edges)
    BY EdgeFacts DEF Built, Fit
  <2>2. PICK p : /\ p = Packed(edges) /\ p \in [1 .. k -> Int] /\ IsInjective(p)
                 /\ \A x : x \in Range(p) <=> \E j \in 1 .. k : x = Pack(edges[j])
    BY <2>1, PackedFacts
  <2>3. keys' = IF Ascending(p) THEN p ELSE SortedSlice(p)
    BY <1>1, <2>2, KeyOperators DEF EL!NewSortedEdgeList
  <2>4. keys' \in [1 .. k -> Int] /\ Ascending(keys') /\ IsInjective(keys') /\ Range(keys') = Range(p)
    BY <2>2, <2>3, SortFacts
  <2>5. Range(keys') = {Pack(edges[j]) : j \in 1 .. Len(edges)}
    BY <2>1, <2>2, <2>4
  <2>6. keys' \in Seq(Int) /\ phase' = "ready"
    BY <1>1, <2>4 DEF EL!NewSortedEdgeList
  <2> QED BY <2>4, <2>5, <2>6 DEF KeysIInv
<1>2. CASE EL!Ask \/ EL!Visit \/ EL!Leave
  <2>1. keys' = keys /\ phase \in {"ready", "running"} /\ phase' \in {"ready", "running", "returned"}
    BY <1>2 DEF EL!Ask, EL!Visit, EL!Leave
  <2> QED BY <2>1 DEF KeysIInv
<1>3. CASE EL!Stay \/ UNCHANGED vars
  <2>1. keys' = keys /\ phase' = phase
    BY <1>3 DEF EL!Stay, EL!vars, vars, shared
  <2> QED BY <2>1 DEF KeysIInv
<1> QED BY <1>1, <1>2, <1>3 DEF EL!Next

\* What the keys of an index say of the edges.
LEMMA SortedKeys ==
  ASSUME Built, KeysIInv, phase # "build"
  PROVE  /\ keys \in Seq(Int) /\ Len(keys) \in Nat /\ DOMAIN keys = 1 .. Len(keys)
         /\ \A j \in 1 .. Len(keys) :
              /\ Source(keys[j]) \in Vertex /\ Target(keys[j]) \in Vertex
              /\ keys[j] = Source(keys[j]) * Radix + Target(keys[j]) /\ keys[j] \in Int
              /\ Linked(list, Source(keys[j]), Target(keys[j]))
         /\ \A u, v : Linked(list, u, v) => \E j \in 1 .. Len(keys) : Source(keys[j]) = u /\ Target(keys[j]) = v
         /\ \A j, k \in 1 .. Len(keys) : j < k => keys[j] < keys[k]
<1>1. PICK c \in 0 .. Radix : c = n
  BY DEF Built
<1>2. PICK l \in Nat : l = Len(keys) /\ DOMAIN keys = 1 .. l /\ \A j \in 1 .. l : keys[j] \in Int
  BY DEF KeysIInv
<1>3. \A x : (\E j \in 1 .. l : keys[j] = x) <=> \E h \in 1 .. Len(edges) : x = Pack(edges[h])
  <2>1. Range(keys) = {keys[j] : j \in 1 .. l}
    BY <1>2 DEF Range
  <2> QED BY <2>1 DEF KeysIInv
<1>4. \A h \in 1 .. Len(edges) : /\ Pack(edges[h]) = edges[h].from * Radix + edges[h].to
                                 /\ Source(Pack(edges[h])) = edges[h].from
                                 /\ Target(Pack(edges[h])) = edges[h].to
  <2> SUFFICES ASSUME NEW h \in 1 .. Len(edges)
               PROVE  /\ Pack(edges[h]) = edges[h].from * Radix + edges[h].to
                      /\ Source(Pack(edges[h])) = edges[h].from
                      /\ Target(Pack(edges[h])) = edges[h].to
    OBVIOUS
  <2>1. PICK e \in Edge(c) : e = edges[h]
    BY <1>1, EdgeFacts
  <2> QED BY <2>1, PackInjective
<1>5. ASSUME NEW j \in 1 .. l
      PROVE  /\ Source(keys[j]) \in Vertex /\ Target(keys[j]) \in Vertex
             /\ keys[j] = Source(keys[j]) * Radix + Target(keys[j])
             /\ Linked(list, Source(keys[j]), Target(keys[j]))
  <2>1. PICK h \in 1 .. Len(edges) : keys[j] = Pack(edges[h])
    BY <1>3
  <2>2. Source(keys[j]) = edges[h].from /\ Target(keys[j]) = edges[h].to
    BY <1>4, <2>1
  <2>3. keys[j] = edges[h].from * Radix + edges[h].to
    BY <1>4, <2>1
  <2> QED BY <2>2, <2>3, EdgeFacts
<1>6. ASSUME NEW u, NEW v, Linked(list, u, v)
      PROVE  \E j \in 1 .. l : Source(keys[j]) = u /\ Target(keys[j]) = v
  <2>1. PICK h \in 1 .. Len(edges) : edges[h].from = u /\ edges[h].to = v
    BY <1>6, EdgeFacts
  <2>2. PICK j \in 1 .. l : keys[j] = Pack(edges[h])
    BY <1>3
  <2> QED BY <1>4, <2>1, <2>2
<1>7. ASSUME NEW j \in 1 .. l, NEW k \in 1 .. l, j < k
      PROVE  keys[j] < keys[k]
  <2>1. keys[j] <= keys[k] /\ keys[j] # keys[k]
    BY <1>2, <1>7 DEF KeysIInv, Ascending, IsInjective
  <2> QED BY <1>2, <2>1
<1> QED BY <1>2, <1>5, <1>6, <1>7 DEF KeysIInv

\* The keys below the first one of u are those of the sources below u.
LEMMA KeyBelow ==
  ASSUME NEW u \in Nat, NEW a \in Nat, NEW b \in 0 .. (Radix - 1)
  PROVE  a * Radix + b < u * Radix <=> a < u
<1>1. PICK r \in Nat : r = Radix /\ b \in 0 .. (r - 1)
  BY RadixAssumption
<1>2. PICK x \in Nat, y \in Nat : x = a * r /\ y = u * r
  <2>1. a * r \in Nat /\ u * r \in Nat
    OBVIOUS
  <2> QED BY <2>1
<1>3. a < u => x + r <= y
  BY <1>2, Multiples
<1>4. u < a => y + r <= x
  BY <1>2, Multiples
<1>5. u = a => x = y
  BY <1>2
<1>6. x + b < y <=> a < u
  <2>1. a < u \/ u < a \/ u = a
    OBVIOUS
  <2> QED BY <1>1, <1>3, <1>4, <1>5, <2>1
<1> QED BY <1>1, <1>2, <1>6

\* The keys of u are those from the lower bound to the end of the block.
LEMMA BlockFacts ==
  ASSUME Built, KeysIInv, phase # "build", NEW u \in Vertex
  PROVE  \E lo \in 0 .. Len(keys), hi \in 0 .. Len(keys) :
           /\ lo = EL!lowerBound(u) /\ hi = EL!BlockEnd(u) /\ lo <= hi
           /\ \A j \in 1 .. Len(keys) : Source(keys[j]) = u <=> lo < j /\ j <= hi
<1>1. PICK l \in Nat : /\ l = Len(keys) /\ keys \in Seq(Int) /\ Ascending(keys)
                       /\ \A j \in 1 .. l :
                            /\ Source(keys[j]) \in Vertex /\ Target(keys[j]) \in Vertex
                            /\ keys[j] = Source(keys[j]) * Radix + Target(keys[j]) /\ keys[j] \in Int
                       /\ \A j, k \in 1 .. l : j < k => keys[j] < keys[k]
  BY SortedKeys DEF KeysIInv
<1>2. u \in Nat /\ \A v \in Vertex : v \in Nat /\ v \in 0 .. (Radix - 1)
  <2>1. n \in Nat /\ n <= Radix /\ Radix \in Nat
    BY RadixAssumption DEF Built
  <2> QED BY <2>1 DEF Vertex
<1>3. PICK v \in Int : v = u * Radix
  <2>1. u * Radix \in Int
    BY <1>2, RadixAssumption
  <2> QED BY <2>1
<1>4. \A j \in 1 .. l : keys[j] < v <=> Source(keys[j]) < u
  <2> SUFFICES ASSUME NEW j \in 1 .. l PROVE keys[j] < v <=> Source(keys[j]) < u
    OBVIOUS
  <2>1. PICK a \in Nat, b \in 0 .. (Radix - 1) :
          a = Source(keys[j]) /\ b = Target(keys[j]) /\ keys[j] = a * Radix + b
    BY <1>1, <1>2
  <2> QED BY <1>2, <1>3, <2>1, KeyBelow
<1>5. PICK lo : lo = EL!lowerBound(u) /\ Place(keys, v, 0, l, lo)
  <2>1. EL!lowerBound(u) = BinarySearch(keys, v).index
    BY <1>3, KeyOperators DEF EL!lowerBound
  <2> QED BY <1>1, <2>1, BinarySearchPlace
<1>6. /\ lo \in 0 .. l
      /\ \A y \in 0 .. (lo - 1) : keys[y + 1] < v
      /\ \A y \in lo .. (l - 1) : keys[y + 1] >= v
  BY <1>5 DEF Place
<1>7. \A j \in 1 .. l : j <= lo => Source(keys[j]) < u
  <2> SUFFICES ASSUME NEW j \in 1 .. l, j <= lo PROVE Source(keys[j]) < u
    OBVIOUS
  <2>1. j - 1 \in 0 .. (lo - 1) /\ (j - 1) + 1 = j
    BY <1>6
  <2>2. keys[j] < v
    BY <1>6, <2>1
  <2> QED BY <1>4, <2>2
<1>8. \A j \in 1 .. l : lo < j => ~(Source(keys[j]) < u)
  <2> SUFFICES ASSUME NEW j \in 1 .. l, lo < j PROVE ~(Source(keys[j]) < u)
    OBVIOUS
  <2>1. j - 1 \in lo .. (l - 1) /\ (j - 1) + 1 = j
    BY <1>6
  <2>2. keys[j] >= v /\ keys[j] \in Int
    BY <1>1, <1>6, <2>1
  <2>3. ~(keys[j] < v)
    BY <2>2
  <2> QED BY <1>4, <2>3
<1> DEFINE T == {h \in lo .. l : h = l \/ Source(keys[h + 1]) # u}
<1>9. PICK hi \in T : hi = EL!BlockEnd(u) /\ \A h \in T : hi <= h
  <2>1. l \in T /\ T \subseteq Nat
    BY <1>6
  <2>2. \E x \in T : \A y \in T : x <= y
    <3> HIDE DEF T
    <3> QED BY <2>1, LeastElement
  <2>3. EL!BlockEnd(u) = CHOOSE x \in T : \A y \in T : x <= y
    BY <1>1, <1>5, KeyOperators DEF EL!BlockEnd, EL!Min
  <2> HIDE DEF T
  <2> QED BY <2>2, <2>3
<1>10. hi \in 0 .. l /\ lo <= hi
  BY <1>6
<1>11. ASSUME NEW j \in 1 .. l, lo < j, j <= hi
       PROVE  Source(keys[j]) = u
  <2> SUFFICES ASSUME Source(keys[j]) # u PROVE FALSE
    OBVIOUS
  <2>1. j - 1 \in lo .. l /\ (j - 1) + 1 = j /\ j - 1 < hi
    BY <1>6, <1>10, <1>11
  <2>2. j - 1 \in T
    BY <2>1
  <2>3. hi <= j - 1
    BY <1>9, <2>2
  <2> QED BY <1>10, <2>1, <2>3
\* Behind the block the sources are above u: the keys ascend.
<1>12. ASSUME NEW j \in 1 .. l, hi < j
       PROVE  Source(keys[j]) # u
  <2>1. hi + 1 \in 1 .. l /\ hi # l /\ lo < hi + 1 /\ (hi + 1 = j \/ hi + 1 < j)
    BY <1>6, <1>10, <1>12
  <2>2. Source(keys[hi + 1]) # u
    BY <1>9, <2>1
  <2>3. /\ Source(keys[hi + 1]) \in Nat /\ Source(keys[j]) \in Nat
        /\ Target(keys[hi + 1]) \in 0 .. (Radix - 1) /\ Target(keys[j]) \in 0 .. (Radix - 1)
    BY <1>1, <1>2, <2>1
  <2>4. ~(Source(keys[hi + 1]) < u)
    BY <1>8, <2>1
  <2>5. ASSUME Source(keys[j]) = u PROVE FALSE
    <3>1. Source(keys[j]) < Source(keys[hi + 1])
      BY <1>2, <2>2, <2>3, <2>4, <2>5
    <3>2. PICK a \in Nat, b \in 0 .. (Radix - 1), d \in Nat :
            /\ a = Source(keys[j]) /\ b = Target(keys[j]) /\ d = Source(keys[hi + 1])
            /\ keys[j] = a * Radix + b /\ a < d
      BY <1>1, <2>3, <3>1
    <3>3. keys[j] < d * Radix
      BY <3>2, KeyBelow
    <3>4. PICK e \in 0 .. (Radix - 1) : e = Target(keys[hi + 1]) /\ keys[hi + 1] = d * Radix + e
      BY <1>1, <2>1, <2>3, <3>2
    <3>5. ~(keys[hi + 1] < d * Radix)
      BY <3>2, <3>4, KeyBelow
    <3>6. keys[j] < keys[hi + 1]
      <4>1. d * Radix \in Int /\ keys[j] \in Int /\ keys[hi + 1] \in Int
        BY <1>1, <2>1, RadixAssumption, <3>2
      <4> QED BY <3>3, <3>5, <4>1
    <3>7. keys[hi + 1] <= keys[j] /\ keys[j] \in Int /\ keys[hi + 1] \in Int
      BY <1>1, <2>1
    <3> QED BY <3>6, <3>7
  <2> QED BY <2>5
<1>13. \A j \in 1 .. l : Source(keys[j]) = u <=> lo < j /\ j <= hi
  <2> SUFFICES ASSUME NEW j \in 1 .. l PROVE Source(keys[j]) = u <=> lo < j /\ j <= hi
    OBVIOUS
  <2>1. CASE j <= lo
    <3>1. Source(keys[j]) \in Nat /\ Source(keys[j]) < u
      BY <1>1, <1>2, <1>7, <2>1
    <3> QED BY <1>2, <1>6, <2>1, <3>1
  <2>2. CASE lo < j /\ j <= hi
    BY <1>11, <2>2
  <2>3. CASE hi < j
    BY <1>10, <1>12, <2>3
  <2> QED BY <1>6, <1>10, <2>1, <2>2, <2>3
<1> HIDE DEF T
<1> QED BY <1>1, <1>5, <1>6, <1>9, <1>10, <1>13

\* Blocks of sorted keys, found by search, answer as the list of edges.
LEMMA KeysRight ==
  ASSUME Built, KeysIInv, name = "edgelist", phase = "ready", NEW u \in Vertex
  PROVE  Right(u)
<1>1. PICK l \in Nat : /\ l = Len(keys) /\ keys \in Seq(Int) /\ Ascending(keys) /\ DOMAIN keys = 1 .. l
                       /\ \A j \in 1 .. l :
                            /\ Source(keys[j]) \in Vertex /\ Target(keys[j]) \in Vertex
                            /\ keys[j] = Source(keys[j]) * Radix + Target(keys[j]) /\ keys[j] \in Int
                            /\ Linked(list, Source(keys[j]), Target(keys[j]))
                       /\ \A x, v : Linked(list, x, v) => \E j \in 1 .. l : Source(keys[j]) = x /\ Target(keys[j]) = v
                       /\ \A j, k \in 1 .. l : j < k => keys[j] < keys[k]
  BY SortedKeys DEF KeysIInv
<1>2. PICK lo \in 0 .. l, hi \in 0 .. l :
        /\ lo = EL!lowerBound(u) /\ hi = EL!BlockEnd(u) /\ lo <= hi
        /\ \A j \in 1 .. l : Source(keys[j]) = u <=> lo < j /\ j <= hi
  BY <1>1, BlockFacts
<1>3. PICK c \in Nat : c = hi - lo
  BY <1>2
<1>4. PICK s : s = [j \in 1 .. c |-> Target(keys[lo + j])]
  OBVIOUS
<1>5. \A j \in 1 .. c : lo + j \in 1 .. l /\ lo < lo + j /\ lo + j <= hi
  BY <1>3
<1>6. \A j \in 1 .. c : /\ s[j] = Target(keys[lo + j]) /\ s[j] \in Vertex /\ s[j] \in Int
                        /\ Source(keys[lo + j]) = u /\ keys[lo + j] = u * Radix + s[j]
  <2>1. \A v \in Vertex : v \in Int
    BY EdgeFacts DEF Vertex
  <2> QED BY <1>1, <1>2, <1>4, <1>5, <2>1
<1>7. s \in Seq(Int) /\ Len(s) = c /\ DOMAIN s = 1 .. c
  <2>1. DOMAIN s = 1 .. c /\ s = [j \in 1 .. c |-> s[j]]
    BY <1>4
  <2>2. \A j \in 1 .. c : s[j] \in Int
    BY <1>6
  <2> QED BY <2>1, <2>2
<1>8. ASSUME NEW j \in 1 .. c, NEW k \in 1 .. c, j < k
      PROVE  s[j] < s[k]
  <2>1. keys[lo + j] < keys[lo + k]
    <3>1. lo + j \in 1 .. l /\ lo + k \in 1 .. l /\ lo + j < lo + k
      BY <1>2, <1>5, <1>8
    <3> QED BY <1>1, <3>1
  <2>2. PICK z \in Int : z = u * Radix
    <3>1. u * Radix \in Int
      BY EdgeFacts, RadixAssumption DEF Vertex
    <3> QED BY <3>1
  <2>3. keys[lo + j] = z + s[j] /\ keys[lo + k] = z + s[k] /\ s[j] \in Int /\ s[k] \in Int
    BY <1>6, <2>2
  <2> QED BY <2>1, <2>2, <2>3
<1>9. Ascending(s) /\ IsInjective(s)
  <2>1. \A j, k \in 1 .. c : j < k \/ k < j \/ j = k
    OBVIOUS
  <2>2. Ascending(s)
    BY <1>6, <1>7, <1>8 DEF Ascending
  <2>3. IsInjective(s)
    BY <1>6, <1>7, <1>8, <2>1 DEF IsInjective
  <2> QED BY <2>2, <2>3
<1>10. Range(s) = {v \in Vertex : Linked(list, u, v)}
  <2>1. \A j \in 1 .. c : s[j] \in Vertex /\ Linked(list, u, s[j])
    BY <1>1, <1>5, <1>6
  <2>2. ASSUME NEW v \in Vertex, Linked(list, u, v)
        PROVE  \E j \in 1 .. c : s[j] = v
    <3>1. PICK k \in 1 .. l : Source(keys[k]) = u /\ Target(keys[k]) = v
      BY <1>1, <2>2
    <3>2. lo < k /\ k <= hi
      BY <1>2, <3>1
    <3>3. k - lo \in 1 .. c /\ lo + (k - lo) = k
      BY <1>3, <3>2
    <3> QED BY <1>6, <3>1, <3>3
  <2> QED BY <1>7, <2>1, <2>2 DEF Range
<1>11. AppendNeighbors(u) = s /\ Degree(u) = Len(s)
  <2>1. EL!AppendNeighbors(<<>>, u) = <<>> \o s
    BY <1>2, <1>3, <1>4, KeyOperators DEF EL!AppendNeighbors
  <2>2. <<>> \o s = s
    BY <1>7
  <2>3. EL!Degree(u) = c
    BY <1>2, <1>3 DEF EL!Degree
  <2> QED BY <1>7, <2>1, <2>2, <2>3 DEF AppendNeighbors, Degree, Lists3
<1>12. ASSUME NEW v \in Vertex
       PROVE  HasEdge(u, v) <=> v \in Range(s)
  <2>1. PICK k : k = Pack([from |-> u, to |-> v])
    OBVIOUS
  <2>2. k \in Int /\ Source(k) = u /\ Target(k) = v /\ k = u * Radix + v
    <3>1. u \in 0 .. (Radix - 1) /\ v \in 0 .. (Radix - 1)
      <4>1. n \in Nat /\ n <= Radix /\ Radix \in Nat
        BY RadixAssumption DEF Built
      <4> QED BY <4>1 DEF Vertex
    <3>2. /\ Pack([from |-> u, to |-> v]) = u * Radix + v /\ u * Radix + v \in Nat
          /\ Source(u * Radix + v) = u /\ Target(u * Radix + v) = v
      BY <3>1, KeyFacts
    <3> QED BY <2>1, <3>2
  <2>3. HasEdge(u, v) <=> BinarySearch(keys, k).found
    <3>1. HasEdge(u, v) = EL!HasEdge(u, v)
      BY DEF HasEdge, Lists3
    <3> QED BY <2>1, <3>1, KeyOperators DEF EL!HasEdge
  <2>4. BinarySearch(keys, k).found <=> \E j \in 1 .. l : keys[j] = k
    BY <1>1, <2>2, BinarySearchFinds
  <2>5. (\E j \in 1 .. l : keys[j] = k) <=> Linked(list, u, v)
    <3>1. ASSUME NEW j \in 1 .. l, keys[j] = k
          PROVE  Linked(list, u, v)
      BY <1>1, <2>2, <3>1
    <3>2. ASSUME Linked(list, u, v)
          PROVE  \E j \in 1 .. l : keys[j] = k
      <4>1. PICK j \in 1 .. l : Source(keys[j]) = u /\ Target(keys[j]) = v
        BY <1>1, <3>2
      <4>2. keys[j] = u * Radix + v
        BY <1>1, <4>1
      <4> QED BY <2>2, <4>2
    <3> QED BY <3>1, <3>2
  <2> QED BY <1>10, <2>3, <2>4, <2>5
<1> QED BY <1>7, <1>9, <1>10, <1>11, <1>12 DEF Right

-----------------------------------------------------------------------------
(* bitmatrix. *)

\* Two sets of which one numbers the other have the same size.
LEMMA SameSize ==
  ASSUME NEW S, IsFiniteSet(S), NEW T, NEW q \in [S -> T], IsInjective(q),
         \A v \in T : \E x \in S : q[x] = v
  PROVE  IsFiniteSet(T) /\ Cardinality(T) = Cardinality(S)
<1>1. q \in Injection(S, T) /\ q \in Surjection(S, T)
  BY DEF Injection, Surjection, IsInjective
<1>2. ExistsBijection(S, T)
  BY <1>1 DEF Bijection, ExistsBijection
<1> QED BY <1>2, FS_Bijection

Part(part, S, k) == {x \in S : part[x] = k}

\* The sizes of the parts of a set add up to its size.
LEMMA PartsSum ==
  ASSUME NEW S, IsFiniteSet(S), NEW c \in Nat, NEW part \in [S -> 0 .. (c - 1)],
         NEW z, z = [k \in 0 .. (c - 1) |-> Cardinality(Part(part, S, k))],
         NEW f, Sums(f, z, 0 .. (c - 1))
  PROVE  f[0 .. (c - 1)] = Cardinality(S)
<1> DEFINE Low(k) == {x \in S : part[x] < k}
           Good == {k \in 0 .. c : f[0 .. (k - 1)] = Cardinality(Low(k))}
<1>1. PICK D : D = 0 .. (c - 1) /\ IsFiniteSet(D)
  BY FS_Interval
<1>2. \A U \in SUBSET S : IsFiniteSet(U) /\ Cardinality(U) \in Int
  <2>1. \A U \in SUBSET S : IsFiniteSet(U)
    BY FS_Subset
  <2> QED BY <2>1, FS_CardinalityType
<1>3. z \in [D -> Int]
  <2>1. \A k \in D : Part(part, S, k) \in SUBSET S
    BY DEF Part
  <2>2. \A k \in D : Cardinality(Part(part, S, k)) \in Int
    BY <1>2, <2>1
  <2> QED BY <1>1, <2>2
<1>4. Sums(f, z, D)
  BY <1>1
<1>5. f[{}] = 0 /\ AddsUp(f, z, D)
  <2>1. IsFiniteSet(D)
    BY <1>1
  <2> QED BY ONLY <1>3, <1>4, <2>1, SumsType, SumsAdd
<1>6. 0 \in Good
  <2>1. \A x \in S : ~(part[x] < 0)
    OBVIOUS
  <2>2. Low(0) = {}
    BY <2>1
  <2>3. 0 .. (0 - 1) = {}
    OBVIOUS
  <2>4. f[0 .. (0 - 1)] = Cardinality(Low(0))
    <3> HIDE DEF Low
    <3> QED BY <1>5, <2>2, <2>3, FS_EmptySet
  <2> QED BY <2>4
<1>7. ASSUME NEW k \in 0 .. (c - 1), k \in Good
      PROVE  k + 1 \in Good
  <2>1. PICK A, B : A = Low(k) /\ B = Part(part, S, k) /\ Low(k + 1) = A \cup B /\ A \cap B = {}
    <3>1. \A x \in S : part[x] < k + 1 <=> part[x] < k \/ part[x] = k
      OBVIOUS
    <3>2. \A x \in S : ~(part[x] < k /\ part[x] = k)
      OBVIOUS
    <3>3. Low(k + 1) = Low(k) \cup Part(part, S, k)
      BY <3>1 DEF Part
    <3>4. Low(k) \cap Part(part, S, k) = {}
      BY <3>2 DEF Part
    <3> HIDE DEF Low
    <3> QED BY <3>3, <3>4
  <2>2. A \in SUBSET S /\ B \in SUBSET S
    BY <2>1 DEF Part
  <2>3. Cardinality(A \cup B) = Cardinality(A) + Cardinality(B) - Cardinality(A \cap B)
    BY <1>2, <2>2, FS_Union
  <2>4. Cardinality(A \cup B) = Cardinality(A) + Cardinality(B)
    BY <1>2, <2>1, <2>2, <2>3, FS_EmptySet
  <2>5. PICK K : K = 0 .. (k - 1) /\ K \in SUBSET D /\ k \in D /\ k \notin K /\ 0 .. ((k + 1) - 1) = K \cup {k}
    BY <1>1
  <2>6. f[K \cup {k}] = f[K] + z[k]
    BY <1>5, <2>5 DEF AddsUp
  <2>7. f[K] = Cardinality(A) /\ z[k] = Cardinality(B)
    BY <1>7, <2>1, <2>5
  <2>8. k + 1 \in 0 .. c
    OBVIOUS
  <2>9. f[0 .. ((k + 1) - 1)] = Cardinality(Low(k + 1))
    <3> HIDE DEF Low
    <3> QED BY <2>1, <2>4, <2>5, <2>6, <2>7
  <2> QED BY <2>8, <2>9
<1>8. c \in Good
  <2> HIDE DEF Good
  <2>1. \A k \in 0 .. c : k \in Good
    BY <1>6, <1>7, BoundedInduction
  <2> QED BY <2>1
<1>9. Low(c) = S
  OBVIOUS
<1> QED BY <1>8, <1>9

\* The words of a matrix that was not refused: in each, the bits of the edges it is for.
MatrixIInv ==
  /\ phase \in {"build", "refused", "ready", "running", "returned"}
  /\ phase \in {"build", "refused"} => bits = <<>>
  /\ phase = "refused" => n * BM!wordsPerRow > MaxWords
  /\ phase \notin {"build", "refused"} =>
       /\ ~(n * BM!wordsPerRow > MaxWords) /\ m = Len(edges)
       /\ bits = [p \in 0 .. (n * BM!wordsPerRow - 1) |->
                    {BM!Bit(e.to) : e \in {f \in Range(edges) : BM!At(f.from, f.to) = p}}]

\* Every step keeps the invariant of the matrix.
LEMMA MatrixNext ==
  ASSUME Built, MatrixIInv, n' = n, edges' = edges, BM!Next \/ UNCHANGED vars
  PROVE  MatrixIInv'
<1>1. BM!wordsPerRow' = BM!wordsPerRow
  BY DEF BM!wordsPerRow
<1>2. CASE BM!Refuse
  <2>1. phase = "build" /\ n * BM!wordsPerRow > MaxWords /\ phase' = "refused" /\ bits' = bits
    BY <1>2 DEF BM!Refuse, BM!index
  <2> QED BY <1>1, <2>1 DEF MatrixIInv
<1>3. CASE BM!NewBitMatrix
  <2> DEFINE Words == [p \in 0 .. (n * BM!wordsPerRow - 1) |->
                         {BM!Bit(e.to) : e \in {f \in Range(edges) : BM!At(f.from, f.to) = p}}]
  <2>1. /\ ~(n * BM!wordsPerRow > MaxWords) /\ phase' = "ready" /\ m' = Len(edges)
        /\ bits' = Words
    BY <1>3 DEF BM!NewBitMatrix, BM!Range, Range
  <2>2. Words' = Words
    BY <1>1 DEF BM!Bit, BM!At, BM!wordsPerRow
  <2>3. ~(n' * BM!wordsPerRow' > MaxWords) /\ m' = Len(edges') /\ bits' = Words'
    BY <1>1, <2>1, <2>2
  <2> HIDE DEF Words
  <2>4. phase' \notin {"build", "refused"} /\ phase' \in {"build", "refused", "ready", "running", "returned"}
    BY <2>1
  <2> QED BY <2>3, <2>4 DEF MatrixIInv, Words
<1>4. CASE UNCHANGED <<m, bits>> /\ (phase' = phase \/ (phase \in {"ready", "running"} /\ phase' \in {"ready", "running", "returned"}))
  <2> DEFINE Words == [p \in 0 .. (n * BM!wordsPerRow - 1) |->
                         {BM!Bit(e.to) : e \in {f \in Range(edges) : BM!At(f.from, f.to) = p}}]
  <2>1. Words' = Words
    BY <1>1 DEF BM!Bit, BM!At, BM!wordsPerRow
  <2>2. phase \notin {"build", "refused"} => ~(n * BM!wordsPerRow > MaxWords) /\ m = Len(edges) /\ bits = Words
    BY DEF MatrixIInv
  <2>3. phase' \notin {"build", "refused"} => ~(n' * BM!wordsPerRow' > MaxWords) /\ m' = Len(edges') /\ bits' = Words'
    <3> HIDE DEF Words
    <3> QED BY <1>1, <1>4, <2>1, <2>2
  <2>4. /\ phase' \in {"build", "refused", "ready", "running", "returned"}
        /\ phase' \in {"build", "refused"} => bits' = <<>>
        /\ phase' = "refused" => n' * BM!wordsPerRow' > MaxWords
    BY <1>1, <1>4 DEF MatrixIInv
  <2> HIDE DEF Words
  <2> QED BY <2>3, <2>4 DEF MatrixIInv, Words
<1>5. BM!Ask \/ BM!Visit \/ BM!NextWord \/ BM!Leave \/ BM!Stay \/ UNCHANGED vars =>
        UNCHANGED <<m, bits>> /\ (phase' = phase \/ (phase \in {"ready", "running"} /\ phase' \in {"ready", "running", "returned"}))
  BY DEF BM!Ask, BM!Visit, BM!NextWord, BM!Leave, BM!Stay, BM!vars, BM!index, vars, shared, bitVars
<1> QED BY <1>2, <1>3, <1>4, <1>5 DEF BM!Next

\* Every vertex has a bit in its row, and no other vertex has it.
LEMMA RowFacts ==
  ASSUME n \in Nat
  PROVE  \E r \in Nat :
           /\ r = BM!wordsPerRow
           /\ r = (n \div WordBits) + IF n % WordBits = 0 THEN 0 ELSE 1
           /\ \A v \in Vertex : /\ v \div WordBits \in 0 .. (r - 1) /\ v % WordBits \in 0 .. (WordBits - 1)
                                /\ v = (v \div WordBits) * WordBits + (v % WordBits)
<1>1. PICK c \in Nat \ {0} : c = WordBits
  BY IndexesAssumption
<1>2. PICK r \in Nat, x \in 0 .. (c - 1) : r = (n + c - 1) \div c /\ n + c - 1 = r * c + x
  <2>1. n + c - 1 \in Nat
    OBVIOUS
  <2>2. n + c - 1 = c * ((n + c - 1) \div c) + ((n + c - 1) % c)
    BY <2>1, DivisionFacts
  <2>3. PICK a \in Nat, b \in 0 .. (c - 1) : a = (n + c - 1) \div c /\ b = (n + c - 1) % c /\ n + c - 1 = c * a + b
    BY <2>1, <2>2, DivisionFacts
  <2>4. c * a = a * c
    OBVIOUS
  <2> QED BY <2>3, <2>4
<1>3. PICK q \in Nat, y \in 0 .. (c - 1) : q = n \div c /\ y = n % c /\ n = q * c + y
  BY DivisionFacts
<1>4. r = q + IF y = 0 THEN 0 ELSE 1
  <2>1. CASE y = 0
    <3>1. q * c + (c - 1) = r * c + x
      <4>1. q * c \in Nat /\ r * c \in Nat
        OBVIOUS
      <4> QED BY <1>2, <1>3, <2>1, <4>1
    <3>2. c - 1 \in 0 .. (c - 1)
      OBVIOUS
    <3>3. q = r
      BY <3>1, <3>2, PlaceUnique
    <3> QED BY <2>1, <3>3
  <2>2. CASE y # 0
    <3>1. (q + 1) * c = q * c + c /\ q * c \in Nat /\ r * c \in Nat
      OBVIOUS
    <3>2. (q + 1) * c + (y - 1) = r * c + x
      BY <1>2, <1>3, <3>1
    <3>3. y - 1 \in 0 .. (c - 1) /\ q + 1 \in Nat
      BY <2>2
    <3>4. q + 1 = r
      BY <3>2, <3>3, PlaceUnique
    <3> QED BY <2>2, <3>4
  <2> QED BY <2>1, <2>2
<1>5. PICK z \in Nat : z = r * c /\ n <= z
  <2>1. r * c \in Nat
    OBVIOUS
  <2> QED BY <1>2, <2>1
<1>6. ASSUME NEW v \in Vertex
      PROVE  /\ v \div c \in 0 .. (r - 1) /\ v % c \in 0 .. (c - 1)
             /\ v = (v \div c) * c + (v % c)
  <2>1. v \in Nat /\ v < z
    BY <1>5 DEF Vertex
  <2>2. PICK a \in Nat, b \in 0 .. (c - 1) : a = v \div c /\ b = v % c /\ v = a * c + b
    <3>1. PICK a \in Nat, b \in 0 .. (c - 1) : a = v \div c /\ b = v % c /\ v = c * a + b
      BY <2>1, DivisionFacts
    <3>2. c * a = a * c
      OBVIOUS
    <3> QED BY <3>1, <3>2
  <2>3. a * c \in Nat
    OBVIOUS
  <2>4. r < a => r * c + c <= a * c
    BY Multiples
  <2>5. ~(r < a) /\ r # a
    BY <1>5, <2>1, <2>2, <2>3, <2>4
  <2> QED BY <2>2, <2>5
<1>7. BM!wordsPerRow = r
  BY <1>1, <1>2 DEF BM!wordsPerRow
<1> QED BY <1>1, <1>3, <1>4, <1>6, <1>7

\* The bits of a word are those of the neighbours that the word is for.
LEMMA WordFacts ==
  ASSUME Built, MatrixIInv, phase \notin {"build", "refused"}, NEW u \in Vertex,
         NEW r \in Nat, r = BM!wordsPerRow, NEW k \in 0 .. (r - 1)
  PROVE  /\ u * r + k \in 0 .. (n * r - 1)
         /\ \A b : b \in bits[u * r + k] <=>
                     \E v \in Vertex : Linked(list, u, v) /\ v \div WordBits = k /\ v % WordBits = b
<1> DEFINE p == u * r + k
<1>1. n \in Nat /\ u \in Nat /\ u < n
  BY EdgeFacts DEF Vertex
<1>2. u * r + k \in 0 .. (n * r - 1)
  <2>1. u * r \in Nat /\ n * r \in Nat /\ u * r + r <= n * r
    BY <1>1, Multiples
  <2> QED BY <2>1
<1>3. \A v \in Vertex : v \div WordBits \in 0 .. (r - 1)
  BY <1>1, RowFacts
<1>4. bits[p] = {BM!Bit(e.to) : e \in {f \in Range(edges) : BM!At(f.from, f.to) = p}}
  <2> HIDE DEF p
  <2>1. p \in 0 .. (n * r - 1)
    BY <1>2 DEF p
  <2> QED BY <2>1 DEF MatrixIInv
<1>5. \A j \in 1 .. Len(edges) :
        BM!At(edges[j].from, edges[j].to) = p <=> edges[j].from = u /\ edges[j].to \div WordBits = k
  <2> SUFFICES ASSUME NEW j \in 1 .. Len(edges), NEW a, a = edges[j].from, NEW d, d = edges[j].to \div WordBits
               PROVE  BM!At(edges[j].from, edges[j].to) = p <=> a = u /\ d = k
    OBVIOUS
  <2>1. a \in Nat /\ d \in 0 .. (r - 1)
    BY <1>3, EdgeFacts DEF Vertex
  <2>2. BM!At(edges[j].from, edges[j].to) = a * r + d
    BY DEF BM!At
  <2>3. a * r + d = u * r + k => a = u /\ d = k
    <3> SUFFICES ASSUME a * r + d = u * r + k PROVE a = u /\ d = k
      OBVIOUS
    <3>1. u \in Nat
      BY <1>1
    <3> QED BY ONLY <2>1, <3>1, a * r + d = u * r + k, r \in Nat, k \in 0 .. (r - 1), PlaceUnique
  <2> QED BY <2>2, <2>3
<1>6. \A x : x \in Range(edges) <=> \E j \in 1 .. Len(edges) : x = edges[j]
  BY EdgeFacts DEF Range
<1>7. \A b : b \in bits[p] <=> \E j \in 1 .. Len(edges) :
               edges[j].from = u /\ edges[j].to \div WordBits = k /\ b = edges[j].to % WordBits
  <2>1. \A b : b \in bits[p] <=> \E j \in 1 .. Len(edges) :
                 BM!At(edges[j].from, edges[j].to) = p /\ b = BM!Bit(edges[j].to)
    <3> HIDE DEF p
    <3> QED BY <1>4, <1>6
  <2> HIDE DEF p
  <2> QED BY <1>5, <2>1 DEF BM!Bit
<1>8. ASSUME NEW b
      PROVE  (\E j \in 1 .. Len(edges) : edges[j].from = u /\ edges[j].to \div WordBits = k /\ b = edges[j].to % WordBits)
             <=> \E v \in Vertex : Linked(list, u, v) /\ v \div WordBits = k /\ v % WordBits = b
  BY EdgeFacts
<1> HIDE DEF p
<1>9. \A b : b \in bits[p] <=>
               \E v \in Vertex : Linked(list, u, v) /\ v \div WordBits = k /\ v % WordBits = b
  BY <1>7, <1>8
<1> QED BY <1>2, <1>9 DEF p

\* The loop of a reader over the words of a row sums up their bits.
LEMMA BitSums ==
  ASSUME NEW u, NEW K, K = 0 .. (BM!wordsPerRow - 1), IsFiniteSet(K),
         NEW z, z = [k \in K |-> Cardinality(bits[u * BM!wordsPerRow + k])], z \in [K -> Int]
  PROVE  \E f : Sums(f, z, K) /\ BM!Degree(u) = f[K]
<1> DEFINE R(g) == g = [s \in SUBSET K |-> IF s = {} THEN 0
                                          ELSE Cardinality(bits[u * BM!wordsPerRow + (CHOOSE x \in s : TRUE)])
                                               + g[s \ {CHOOSE x \in s : TRUE}]]
<1>1. ASSUME NEW g
      PROVE  R(g) <=> Sums(g, z, K)
  <2>1. \A s \in SUBSET K : s # {} => z[Pick(s)] = Cardinality(bits[u * BM!wordsPerRow + Pick(s)])
    BY DEF Pick
  <2> QED BY <2>1, ZenonT(30) DEF Sums, Pick
<1>2. \E g : R(g)
  <2> HIDE DEF R
  <2> QED BY <1>1, SumsExist
<1>3. BM!Degree(u) = (CHOOSE g : R(g))[K]
  BY DEF BM!Degree, BM!MapThenSumSet, BM!MapThenFoldSet, BM!Cardinality, Cardinality
<1>4. PICK g : R(g) /\ BM!Degree(u) = g[K]
  <2> HIDE DEF R
  <2> QED BY <1>2, <1>3
<1> HIDE DEF R
<1> QED BY <1>1, <1>4

\* Rows of words answer as the list of edges.
LEMMA MatrixRight ==
  ASSUME Built, MatrixIInv, name = "bitmatrix", phase = "ready", NEW u \in Vertex
  PROVE  Right(u)
<1> DEFINE N == {v \in Vertex : Linked(list, u, v)}
<1>1. n \in Nat /\ u \in Nat /\ \A v \in Vertex : v \in Nat
  BY EdgeFacts DEF Vertex
<1>2. PICK r \in Nat :
        /\ r = BM!wordsPerRow
        /\ \A v \in Vertex : /\ v \div WordBits \in 0 .. (r - 1) /\ v % WordBits \in 0 .. (WordBits - 1)
                             /\ v = (v \div WordBits) * WordBits + (v % WordBits)
  BY <1>1, RowFacts
<1> DEFINE Col(c, k, b) == k * c + b
<1>3. PICK c \in Nat \ {0} :
        /\ c = WordBits
        /\ \A v \in N : v \in Int /\ v \in Vertex
        /\ \A v \in Vertex : /\ v \div c \in 0 .. (r - 1) /\ v % c \in 0 .. (c - 1)
                             /\ v = Col(c, v \div c, v % c)
  BY <1>1, <1>2, IndexesAssumption
<1>4. \A k \in 0 .. (r - 1) : \A b : b \in bits[u * r + k] <=> \E v \in N : v \div c = k /\ v % c = b
  <2> SUFFICES ASSUME NEW k \in 0 .. (r - 1)
               PROVE  \A b : b \in bits[u * r + k] <=> \E v \in N : v \div c = k /\ v % c = b
    OBVIOUS
  <2>1. \A b : b \in bits[u * r + k] <=>
               \E v \in Vertex : Linked(list, u, v) /\ v \div WordBits = k /\ v % WordBits = b
    BY <1>2, WordFacts
  <2> QED BY <1>3, <2>1
<1>5. IsFiniteSet(N) /\ N \subseteq Int
  <2>1. IsFiniteSet(0 .. (n - 1)) /\ N \in SUBSET (0 .. (n - 1))
    BY <1>1, FS_Interval DEF Vertex
  <2>2. IsFiniteSet(N)
    <3> HIDE DEF N
    <3> QED BY <2>1, FS_Subset
  <2> HIDE DEF N
  <2> QED BY <1>3, <2>2
<1>6. ASSUME NEW k \in 0 .. (r - 1), NEW b \in 0 .. (c - 1), NEW v, v = Col(c, k, b)
      PROVE  (v \in N <=> b \in bits[u * r + k]) /\ v \div c = k /\ v % c = b
  <2>1. v \in Nat
    BY <1>6
  <2>2. v = c * (v \div c) + (v % c) /\ v % c \in 0 .. (c - 1) /\ v \div c \in Nat
    BY <2>1, DivisionFacts
  <2>3. v \div c = k /\ v % c = b
    <3>1. (v \div c) * c + (v % c) = k * c + b
      BY <1>6, <2>2
    <3>2. v \div c \in Nat /\ v % c \in 0 .. (c - 1) /\ k \in Nat
      BY <2>2
    <3> QED BY ONLY <3>1, <3>2, c \in Nat \ {0}, b \in 0 .. (c - 1), PlaceUnique
  <2>4. ASSUME NEW x \in N, x \div c = k, x % c = b
        PROVE  x = v
    <3>1. x = Col(c, x \div c, x % c)
      BY <1>3
    <3> QED BY <1>6, <2>4, <3>1
  <2> HIDE DEF N
  <2> QED BY <1>4, <2>3, <2>4
<1> HIDE DEF Col
\* The words and bits of the row are those of the neighbours.
<1>7. BM!AppendNeighbors(<<>>, u) = <<>> \o InOrder(N)
  <2> DEFINE row == {Col(c, k, b) : k \in 0 .. (r - 1), b \in 0 .. (c - 1)}
             S == {v \in row : v % c \in bits[u * r + (v \div c)]}
  <2>1. S = N
    <3>1. ASSUME NEW v \in N
          PROVE  v \in S
      <4>1. v \div c \in 0 .. (r - 1) /\ v % c \in 0 .. (c - 1) /\ v = Col(c, v \div c, v % c)
        BY <1>3
      <4>2. v \in row
        BY <4>1
      <4>3. v % c \in bits[u * r + (v \div c)]
        BY <1>4, <4>1
      <4> HIDE DEF row, N
      <4> QED BY <4>2, <4>3
    <3>2. ASSUME NEW v \in S
          PROVE  v \in N
      <4>1. PICK k \in 0 .. (r - 1), b \in 0 .. (c - 1) : v = Col(c, k, b) /\ v % c \in bits[u * r + (v \div c)]
        OBVIOUS
      <4>2. (v \in N <=> b \in bits[u * r + k]) /\ v \div c = k /\ v % c = b
        BY <1>6, <4>1
      <4> HIDE DEF row, N
      <4> QED BY <4>1, <4>2
    <3> HIDE DEF S, N
    <3> QED BY <3>1, <3>2
  <2>2. BM!AppendNeighbors(<<>>, u) = <<>> \o BM!InOrder(S)
    BY <1>2, <1>3 DEF BM!AppendNeighbors, BM!Bit, BM!At, Col
  <2>3. BM!InOrder(N) = InOrder(N)
    <3> HIDE DEF N
    <3> QED BY DEF BM!InOrder, InOrder, BM!Cardinality, Cardinality
  <2> HIDE DEF S, N
  <2> QED BY <2>1, <2>2, <2>3
\* Bit by bit, the neighbours of a word are counted.
<1>8. BM!Degree(u) = Cardinality(N)
  <2>1. PICK K : K = 0 .. (r - 1) /\ IsFiniteSet(K)
    BY FS_Interval
  <2>2. PICK part : part = [v \in N |-> v \div c] /\ part \in [N -> 0 .. (r - 1)]
    <3> HIDE DEF N
    <3>1. [v \in N |-> v \div c] \in [N -> 0 .. (r - 1)]
      BY <1>3
    <3> QED BY <3>1
  <2>3. ASSUME NEW k \in K
        PROVE  /\ Cardinality(bits[u * r + k]) = Cardinality(Part(part, N, k))
               /\ Cardinality(bits[u * r + k]) \in Int
    <3>1. PICK T : T = Part(part, N, k) /\ T \in SUBSET N /\ \A v : v \in T <=> v \in N /\ v \div c = k
      <4> HIDE DEF N
      <4>1. \A v : v \in Part(part, N, k) <=> v \in N /\ v \div c = k
        BY <2>2 DEF Part
      <4>2. Part(part, N, k) \in SUBSET N
        BY <4>1
      <4> QED BY <4>1, <4>2
    <3>2. PICK B : B = bits[u * r + k]
      OBVIOUS
    <3>3. PICK q : q = [v \in T |-> v % c]
      OBVIOUS
    <3>4. \A v \in T : v % c \in B
      BY <1>4, <2>1, <3>1, <3>2
    <3>5. \A b \in B : \E v \in T : v % c = b
      BY <1>4, <2>1, <3>1, <3>2
    <3>6. ASSUME NEW v \in T, NEW x \in T, v % c = x % c
          PROVE  v = x
      <4>1. v = Col(c, k, v % c) /\ x = Col(c, k, x % c)
        <5> HIDE DEF N
        <5> QED BY <1>3, <3>1
      <4> QED BY <3>6, <4>1
    <3>7. IsFiniteSet(T) /\ Cardinality(T) \in Int
      <4> HIDE DEF N
      <4>1. IsFiniteSet(T)
        BY <1>5, <3>1, FS_Subset
      <4> QED BY <4>1, FS_CardinalityType
    <3>8. q \in [T -> B] /\ IsInjective(q) /\ \A b \in B : \E v \in T : q[v] = b
      <4> HIDE DEF N
      <4>1. q \in [T -> B]
        BY <3>3, <3>4
      <4>2. IsInjective(q)
        BY <3>3, <3>6 DEF IsInjective
      <4> QED BY <3>3, <3>5, <4>1, <4>2
    <3>9. Cardinality(B) = Cardinality(T)
      BY <3>7, <3>8, SameSize
    <3> QED BY <3>1, <3>2, <3>7, <3>9
  <2>4. PICK z : z = [k \in K |-> Cardinality(bits[u * r + k])] /\ z \in [K -> Int]
    <3>1. \A k \in K : Cardinality(bits[u * r + k]) \in Int
      BY <2>3
    <3>2. [k \in K |-> Cardinality(bits[u * r + k])] \in [K -> Int]
      BY <3>1
    <3> QED BY <3>2
  <2>5. PICK f : Sums(f, z, K) /\ BM!Degree(u) = f[K]
    BY <1>2, <2>1, <2>4, BitSums, ZenonT(30)
  <2>6. z = [k \in K |-> Cardinality(Part(part, N, k))]
    <3> HIDE DEF N
    <3> QED BY <2>3, <2>4
  <2> HIDE DEF N
  <2> QED BY <1>5, <2>1, <2>2, <2>5, <2>6, PartsSum
<1>9. PICK s : s = InOrder(N)
  OBVIOUS
<1> HIDE DEF N
<1>10. s \in Seq(N) /\ Len(s) = Cardinality(N) /\ Range(s) = N /\ IsInjective(s) /\ Ascending(s)
  <2>1. Enumerates(s, N)
    BY <1>5, <1>9, InOrderFacts
  <2> QED BY <1>5, <2>1, EnumeratesFacts
<1>11. s \in Seq(Int) /\ <<>> \o s = s
  <2>1. s \in Seq(Int)
    BY <1>5, <1>10, WiderSeq
  <2> QED BY <2>1
<1>12. AppendNeighbors(u) = s /\ Degree(u) = Len(s)
  BY <1>7, <1>8, <1>9, <1>10, <1>11 DEF AppendNeighbors, Degree, Lists3
<1>13. ASSUME NEW v \in Vertex
       PROVE  HasEdge(u, v) <=> v \in N
  <2>1. v \div c \in 0 .. (r - 1) /\ v % c \in 0 .. (c - 1) /\ v = Col(c, v \div c, v % c)
    BY <1>3
  <2>2. v \in N <=> v % c \in bits[u * r + (v \div c)]
    BY <1>6, <2>1
  <2>3. HasEdge(u, v) = BM!HasEdge(u, v)
    BY DEF HasEdge, Lists3
  <2> QED BY <1>2, <1>3, <2>2, <2>3 DEF BM!HasEdge, BM!Bit, BM!At
<1> QED BY <1>10, <1>11, <1>12, <1>13 DEF Right, N

\* The degrees add up to the number of edges.
LEMMA DegreeSum ==
  ASSUME Built, \A u \in Vertex : Right(u)
  PROVE  MapThenSumSet(Degree, Vertex) = Len(edges)
<1>1. PICK c \in Nat, l \in Nat : c = n /\ l = Len(edges)
  BY EdgeFacts
<1>2. PICK D : D = 0 .. (c - 1) /\ D = Vertex /\ IsFiniteSet(D)
  <2>1. IsFiniteSet(0 .. (c - 1))
    BY FS_Interval
  <2> QED BY <1>1, <2>1 DEF Vertex
<1>3. PICK S : S = 1 .. l /\ IsFiniteSet(S) /\ Cardinality(S) = l
  <2>1. Cardinality(1 .. l) = IF 1 > l THEN 0 ELSE l - 1 + 1
    BY FS_Interval
  <2> QED BY <2>1, FS_Interval
<1>4. PICK part : part = [j \in S |-> edges[j].from] /\ part \in [S -> D]
  <2>1. \A j \in S : edges[j].from \in D
    BY <1>1, <1>2, <1>3, EdgeFacts
  <2>2. [j \in S |-> edges[j].from] \in [S -> D]
    BY <2>1
  <2> QED BY <2>2
\* The edges of a vertex are as many as its neighbours.
<1>5. ASSUME NEW u \in D
      PROVE  Degree(u) = Cardinality(Part(part, S, u)) /\ Degree(u) \in Int
  <2>1. PICK T : /\ T = Part(part, S, u) /\ T \in SUBSET S
                 /\ \A j : j \in T <=> j \in S /\ edges[j].from = u
    <3>1. \A j : j \in Part(part, S, u) <=> j \in S /\ edges[j].from = u
      BY <1>4 DEF Part
    <3> QED BY <3>1
  <2>2. PICK s \in Seq(Int) : /\ IsInjective(s) /\ Range(s) = {v \in Vertex : Linked(list, u, v)}
                              /\ Degree(u) = Len(s)
    BY <1>2 DEF Right
  <2>3. PICK k \in Nat : k = Len(s) /\ DOMAIN s = 1 .. k
    OBVIOUS
  <2>4. PICK N : N = Range(s) /\ \A v : v \in N <=> v \in Vertex /\ Linked(list, u, v)
    BY <2>2
  <2>5. IsFiniteSet(N) /\ Cardinality(N) = k
    <3>1. s \in [1 .. k -> N] /\ \A v \in N : \E j \in 1 .. k : s[j] = v
      <4>1. s = [j \in 1 .. k |-> s[j]]
        BY <2>3
      <4>2. N = {s[j] : j \in 1 .. k}
        BY <2>3, <2>4 DEF Range
      <4> QED BY <4>1, <4>2
    <3> QED BY <2>2, <3>1, CountOnto
  <2>6. PICK q : q = [j \in T |-> edges[j].to]
    OBVIOUS
  <2>7. q \in [T -> N] /\ IsInjective(q) /\ \A v \in N : \E j \in T : q[j] = v
    <3>1. \A j \in T : edges[j].to \in N
      BY <1>1, <1>3, <2>1, <2>4, EdgeFacts
    <3>2. q \in [T -> N]
      BY <2>6, <3>1
    <3>3. \A j, x \in T : edges[j].to = edges[x].to => j = x
      BY <1>1, <1>3, <2>1, EdgeFacts
    <3>4. IsInjective(q)
      BY <2>6, <3>3 DEF IsInjective
    <3>5. \A v \in N : \E j \in T : edges[j].to = v
      BY <1>1, <1>3, <2>1, <2>4, EdgeFacts
    <3> QED BY <2>6, <3>2, <3>4, <3>5
  <2>8. IsFiniteSet(T)
    BY <1>3, <2>1, FS_Subset
  <2>9. Cardinality(N) = Cardinality(T)
    BY <2>7, <2>8, SameSize
  <2> QED BY <2>1, <2>2, <2>3, <2>5, <2>9
<1>6. PICK z : z = [u \in D |-> Cardinality(Part(part, S, u))] /\ z \in [D -> Int]
  <2>1. \A u \in D : Cardinality(Part(part, S, u)) \in Int
    BY <1>5
  <2>2. [u \in D |-> Cardinality(Part(part, S, u))] \in [D -> Int]
    BY <2>1
  <2> QED BY <2>2
<1> DEFINE R(g) == g = [s \in SUBSET D |-> IF s = {} THEN 0
                                          ELSE Degree(CHOOSE x \in s : TRUE) + g[s \ {CHOOSE x \in s : TRUE}]]
<1>7. ASSUME NEW g
      PROVE  R(g) <=> Sums(g, z, D)
  <2>1. \A s \in SUBSET D : s # {} => z[Pick(s)] = Degree(Pick(s))
    BY <1>5, <1>6 DEF Pick
  <2> QED BY <2>1 DEF Sums, Pick
<1>8. \E g : R(g)
  <2> HIDE DEF R
  <2> QED BY <1>2, <1>6, <1>7, SumsExist
<1>9. MapThenSumSet(Degree, Vertex) = (CHOOSE g : R(g))[D]
  BY <1>2 DEF MapThenSumSet, MapThenFoldSet
<1>10. PICK f : Sums(f, z, D) /\ MapThenSumSet(Degree, Vertex) = f[D]
  <2> HIDE DEF R
  <2> QED BY <1>7, <1>8, <1>9
<1> HIDE DEF R
<1>11. D = 0 .. (c - 1) /\ Sums(f, z, D) /\ part \in [S -> D] /\ IsFiniteSet(S)
       /\ z = [u \in D |-> Cardinality(Part(part, S, u))]
  BY <1>2, <1>3, <1>4, <1>6, <1>10
<1>12. f[D] = Cardinality(S)
  BY ONLY <1>11, c \in Nat, PartsSum
<1> QED BY <1>1, <1>3, <1>10, <1>12

\* The number of words is the smallest one, and the number of bits that of the edges.
LEMMA MatrixExactHolds ==
  ASSUME Built, MatrixIInv, name = "bitmatrix"
  PROVE  MatrixExact
<1>1. PICK r \in Nat, c \in Nat :
        r = BM!wordsPerRow /\ r = (n \div WordBits) + (IF n % WordBits = 0 THEN 0 ELSE 1) /\ c = n
  BY EdgeFacts, RowFacts
<1>2. PICK size \in Nat : size = c * r
  <2>1. c * r \in Nat
    OBVIOUS
  <2> QED BY <2>1
<1>3. size = n * ((n \div WordBits) + IF n % WordBits = 0 THEN 0 ELSE 1) /\ size = n * BM!wordsPerRow
  BY <1>1, <1>2
<1>4. MaxWords \in Nat
  BY IndexesAssumption
<1>5. Cardinality(DOMAIN bits) = (IF phase \in {"build", "refused"} THEN 0 ELSE size)
      /\ Cardinality(DOMAIN bits) <= MaxWords
  <2>1. CASE phase \in {"build", "refused"}
    <3>1. DOMAIN bits = {}
      BY <2>1 DEF MatrixIInv
    <3> QED BY <1>4, <2>1, <3>1, FS_EmptySet
  <2>2. CASE phase \notin {"build", "refused"}
    <3>1. DOMAIN bits = 0 .. (size - 1) /\ ~(size > MaxWords)
      BY <1>3, <2>2 DEF MatrixIInv
    <3>2. Cardinality(0 .. (size - 1)) = IF 0 > size - 1 THEN 0 ELSE size - 1 - 0 + 1
      BY FS_Interval
    <3> QED BY <1>2, <1>4, <2>2, <3>1, <3>2
  <2> QED BY <2>1, <2>2
<1>6. phase = "refused" => size > MaxWords
  BY <1>3 DEF MatrixIInv
<1>7. phase = "ready" => MapThenSumSet(Degree, Vertex) = m
  <2> SUFFICES ASSUME phase = "ready" PROVE MapThenSumSet(Degree, Vertex) = m
    OBVIOUS
  <2>1. \A u \in Vertex : Right(u)
    BY MatrixRight
  <2>2. MapThenSumSet(Degree, Vertex) = Len(edges)
    BY <2>1, DegreeSum
  <2> QED BY <2>2 DEF MatrixIInv
<1> QED BY <1>3, <1>5, <1>6, <1>7 DEF MatrixExact

-----------------------------------------------------------------------------
(* The codec of varint-csr. *)

\* The last digit of a number and the rest.
LEMMA BaseFacts ==
  ASSUME NEW y \in Nat
  PROVE  /\ Base \in Nat /\ Base >= 2
         /\ y \div Base \in Nat /\ y % Base \in 0 .. (Base - 1)
         /\ y = (y % Base) + Base * (y \div Base)
         /\ ~(y < Base) => y \div Base < y
<1>1. PICK b \in Nat : b = Base /\ b >= 2
  BY IndexesAssumption
<1>2. PICK q \in Nat, r \in 0 .. (b - 1) : q = y \div b /\ r = y % b /\ y = b * q + r
  BY <1>1, DivisionFacts
<1>3. PICK z \in Nat : z = b * q /\ z = q * b
  <2>1. b * q \in Nat /\ b * q = q * b
    OBVIOUS
  <2> QED BY <2>1
<1>4. q * 2 <= z
  BY <1>1, <1>3, ProductMonotone
<1>5. q = 0 => z = 0
  BY <1>3
<1>6. ~(y < b) => q < y
  BY <1>1, <1>2, <1>3, <1>4, <1>5
<1> QED BY <1>1, <1>2, <1>3, <1>6

\* The equation of the loop that writes digits while the value is at least Base.
IsDigits(f) ==
  f = [y \in Nat |-> IF y < Base THEN <<y>> ELSE <<Base + (y % Base)>> \o f[y \div Base]]

\* The loop ends: the value shrinks with each digit.
LEMMA DigitsExist == \E f : IsDigits(f)
<1> DEFINE V == [Nat -> Seq(Int)]
           Row(h) == [y \in Nat |-> IF y < Base THEN <<y>> ELSE <<Base + (y % Base)>> \o h[y \div Base]]
           step == [k \in Nat |-> [h \in V |-> Row(h)]]
           first == [y \in Nat |-> <<y>>]
<1>1. ASSUME NEW h \in V
      PROVE  Row(h) \in V
  <2> SUFFICES ASSUME NEW y \in Nat
               PROVE  (IF y < Base THEN <<y>> ELSE <<Base + (y % Base)>> \o h[y \div Base]) \in Seq(Int)
    OBVIOUS
  <2>1. <<y>> \in Seq(Int)
    OBVIOUS
  <2>2. <<Base + (y % Base)>> \o h[y \div Base] \in Seq(Int)
    <3>1. Base + (y % Base) \in Int /\ h[y \div Base] \in Seq(Int)
      BY BaseFacts
    <3>2. <<Base + (y % Base)>> \in Seq(Int)
      BY <3>1
    <3> QED BY <3>1, <3>2, ConcatProperties
  <2> QED BY <2>1, <2>2
<1>2. first \in V
  OBVIOUS
<1>3. step \in [Nat -> [V -> V]]
  <2> HIDE DEF V, Row
  <2> QED BY <1>1
<1>4. PICK g : Solves(g, V, first, step)
  <2> HIDE DEF V, step, first
  <2> QED BY <1>2, <1>3, RecursiveFunction DEF Recursion
<1>5. g \in [Nat -> V] /\ g[0] = first /\ \A k \in Nat : g[k + 1] = Row(g[k])
  <2>1. g \in [Nat -> V] /\ g[0] = first /\ \A k \in Nat : g[k + 1] = step[k][g[k]]
    <3> HIDE DEF V, step, first
    <3> QED BY <1>4 DEF Solves
  <2> HIDE DEF V, Row, first
  <2> QED BY <2>1
<1> HIDE DEF V
<1>6. \A k, y \in Nat : g[k + 1][y] = IF y < Base THEN <<y>> ELSE <<Base + (y % Base)>> \o g[k][y \div Base]
  BY <1>5
<1>7. \A y \in Nat : g[0][y] = <<y>>
  BY <1>5
\* y digits are enough for a value up to y.
<1> DEFINE Q == {k \in Nat : \A y \in 0 .. k : g[k + 1][y] = g[k][y]}
<1>8. \A k \in Nat : k \in Q
  <2>1. 0 \in Q
    <3>1. g[0 + 1][0] = <<0>>
      <4>1. 0 < Base
        BY BaseFacts
      <4> QED BY <1>6, <4>1
    <3>2. \A y \in 0 .. 0 : y = 0
      OBVIOUS
    <3> QED BY <1>7, <3>1, <3>2
  <2>2. ASSUME NEW k \in Nat, k \in Q
        PROVE  k + 1 \in Q
    <3> SUFFICES ASSUME NEW y \in 0 .. (k + 1)
                 PROVE  g[(k + 1) + 1][y] = g[k + 1][y]
      OBVIOUS
    <3>1. /\ g[k + 1][y] = IF y < Base THEN <<y>> ELSE <<Base + (y % Base)>> \o g[k][y \div Base]
          /\ g[(k + 1) + 1][y] = IF y < Base THEN <<y>> ELSE <<Base + (y % Base)>> \o g[k + 1][y \div Base]
      <4>1. k + 1 \in Nat /\ y \in Nat
        OBVIOUS
      <4> QED BY <1>6, <4>1
    <3>2. CASE ~(y < Base)
      <4>1. y \div Base \in 0 .. k
        BY <3>2, BaseFacts
      <4>2. g[k + 1][y \div Base] = g[k][y \div Base]
        BY <2>2, <4>1
      <4> QED BY <3>1, <4>2
    <3> QED BY <3>1, <3>2
  <2> HIDE DEF Q
  <2> QED BY <2>1, <2>2, SetInduction
<1>9. ASSUME NEW z \in Nat, NEW i0 \in Nat
      PROVE  g[z + i0][z] = g[z][z]
  <2> DEFINE T == {k \in Nat : g[z + k][z] = g[z][z]}
  <2>1. 0 \in T
    OBVIOUS
  <2>2. ASSUME NEW k \in Nat, k \in T
        PROVE  k + 1 \in T
    <3>1. z + k \in Q /\ z \in 0 .. (z + k) /\ z + (k + 1) = (z + k) + 1
      BY <1>8
    <3> QED BY <2>2, <3>1
  <2>3. i0 \in T
    <3> HIDE DEF T
    <3> QED BY <2>1, <2>2, SetInduction
  <2> QED BY <2>3
<1>10. PICK f : f = [y \in Nat |-> g[y][y]]
  OBVIOUS
<1>11. ASSUME NEW y \in Nat
       PROVE  f[y] = IF y < Base THEN <<y>> ELSE <<Base + (y % Base)>> \o f[y \div Base]
  <2>1. CASE y = 0
    <3>1. 0 < Base
      BY BaseFacts
    <3> QED BY <1>7, <1>10, <2>1, <3>1
  <2>2. CASE y # 0
    <3>1. PICK k \in Nat : y = k + 1
      <4>1. y - 1 \in Nat /\ y = (y - 1) + 1
        BY <2>2
      <4> QED BY <4>1
    <3>2. f[y] = IF y < Base THEN <<y>> ELSE <<Base + (y % Base)>> \o g[k][y \div Base]
      BY <1>6, <1>10, <3>1
    <3>3. ~(y < Base) => g[k][y \div Base] = f[y \div Base]
      <4> SUFFICES ASSUME ~(y < Base) PROVE g[k][y \div Base] = f[y \div Base]
        OBVIOUS
      <4>1. PICK z \in Nat : z = y \div Base /\ z <= k
        BY <3>1, BaseFacts
      <4>2. k - z \in Nat /\ z + (k - z) = k
        BY <4>1
      <4>3. g[z + (k - z)][z] = g[z][z]
        BY <1>9, <4>2
      <4> QED BY <1>10, <4>1, <4>2, <4>3
    <3> QED BY <3>2, <3>3
  <2> QED BY <2>1, <2>2
<1>12. f = [y \in Nat |-> IF y < Base THEN <<y>> ELSE <<Base + (y % Base)>> \o f[y \div Base]]
  BY <1>10, <1>11
<1> QED BY <1>12 DEF IsDigits

\* What a value looks like in digits: the last one is below Base, the others are not, and
\* from the digit j on they make up the value v[j].
Spells(p, k, v, x) ==
  /\ p \in Seq(Int) /\ Len(p) = k /\ v \in [1 .. (k + 1) -> Nat]
  /\ p[k] < Base /\ \A j \in 1 .. (k - 1) : ~(p[j] < Base)
  /\ \A j \in 1 .. k : v[j] = (p[j] % Base) + Base * v[j + 1]
  /\ v[1] = x /\ v[k + 1] = 0

\* The digits that the recursion writes spell the number,
LEMMA DigitsSpell ==
  ASSUME NEW f, IsDigits(f), NEW x \in Nat
  PROVE  \E k \in Nat \ {0} : \E v : Spells(f[x], k, v, x)
<1> DEFINE Bad == {y \in Nat : ~ \E k \in Nat \ {0} : \E v : Spells(f[y], k, v, y)}
<1> SUFFICES ASSUME Bad # {} PROVE FALSE
  OBVIOUS
<1>1. PICK y \in Bad : \A z \in Bad : y <= z
  <2> HIDE DEF Bad
  <2>1. Bad \subseteq Nat
    BY DEF Bad
  <2> QED BY <2>1, LeastElement
<1>2. y \in Nat /\ ~ \E k \in Nat \ {0} : \E v : Spells(f[y], k, v, y)
  OBVIOUS
<1>3. f[y] = IF y < Base THEN <<y>> ELSE <<Base + (y % Base)>> \o f[y \div Base]
  BY <1>2 DEF IsDigits
<1>4. CASE y < Base
  <2>1. PICK v : v = [j \in 1 .. 2 |-> IF j = 1 THEN y ELSE 0]
    OBVIOUS
  <2>2. y % Base = y
    <3>1. PICK b \in Nat : b = Base /\ b >= 2
      BY <1>2, BaseFacts
    <3>2. PICK q \in Nat, r \in 0 .. (b - 1) : q = y \div b /\ r = y % b /\ y = b * q + r
      <4>1. y \in Nat /\ b \in Nat \ {0}
        BY <1>2, <3>1
      <4>2. y = b * (y \div b) + (y % b) /\ y % b \in 0 .. (b - 1) /\ y \div b \in Nat
        BY ONLY <4>1, DivisionFacts
      <4> QED BY ONLY <4>2
    <3>3. q * b + r = 0 * b + y /\ 0 \in Nat /\ y \in 0 .. (b - 1)
      <4>1. b * q = q * b /\ 0 * b = 0
        OBVIOUS
      <4> QED BY <1>2, <1>4, <3>1, <3>2, <4>1
    <3>4. r = y
      BY ONLY <3>3, b \in Nat, q \in Nat, r \in 0 .. (b - 1), PlaceUnique
    <3> QED BY <3>1, <3>2, <3>4
  <2>3. f[y] = <<y>> /\ v \in [1 .. (1 + 1) -> Nat] /\ v[1] = y /\ v[1 + 1] = 0
    BY <1>2, <1>3, <1>4, <2>1
  <2>4. (y % Base) + Base * 0 = y
    BY <1>2, <2>2, BaseFacts
  <2>5. Spells(f[y], 1, v, y)
    <3>1. f[y] \in Seq(Int) /\ Len(f[y]) = 1 /\ f[y][1] = y
      BY <1>2, <2>3
    <3>2. \A j \in 1 .. 1 : v[j] = (f[y][j] % Base) + Base * v[j + 1]
      BY <2>3, <2>4, <3>1
    <3>3. 1 .. (1 - 1) = {}
      OBVIOUS
    <3> QED BY <1>4, <2>3, <3>1, <3>2, <3>3 DEF Spells
  <2> QED BY <1>2, <2>5
<1>5. CASE ~(y < Base)
  <2>1. PICK q \in Nat, r \in Nat, b \in Nat \ {0} :
          q = y \div Base /\ r = y % Base /\ b = Base /\ y = r + b * q /\ q < y /\ r < b
    <3>1. PICK b \in Nat : b = Base /\ b >= 2
      BY <1>2, BaseFacts
    <3>2. PICK q \in Nat, r \in 0 .. (b - 1) : q = y \div b /\ r = y % b /\ y = r + b * q
      BY <1>2, <3>1, BaseFacts
    <3>3. q < y
      BY <1>2, <1>5, <3>1, <3>2, BaseFacts
    <3>4. b \in Nat \ {0} /\ r \in Nat /\ r < b
      BY <3>1, <3>2
    <3> QED BY ONLY <3>1, <3>2, <3>3, <3>4
  <2>2. PICK k \in Nat \ {0} : \E v : Spells(f[q], k, v, q)
    <3>1. q \notin Bad
      <4> HIDE DEF Bad
      <4> QED BY <1>1, <1>2, <2>1
    <3> QED BY <3>1
  <2>3. PICK v : Spells(f[q], k, v, q)
    BY <2>2
  <2>4. f[y] = <<b + r>> \o f[q]
    BY <1>3, <1>5, <2>1
  <2>5. PICK p : p = f[q]
    OBVIOUS
  <2>6. PICK s : s = f[y] /\ s = <<b + r>> \o p
    BY <2>4, <2>5
  <2>7. /\ p \in Seq(Int) /\ Len(p) = k /\ v \in [1 .. (k + 1) -> Nat]
        /\ p[k] < b /\ \A j \in 1 .. (k - 1) : ~(p[j] < b)
        /\ \A j \in 1 .. k : v[j] = (p[j] % b) + b * v[j + 1]
        /\ v[1] = q /\ v[k + 1] = 0
    BY <2>1, <2>5, <2>3 DEF Spells
  <2>8. s \in Seq(Int) /\ Len(s) = k + 1 /\ s[1] = b + r /\ \A j \in 1 .. k : s[j + 1] = p[j]
    <3>1. <<b + r>> \in Seq(Int) /\ Len(<<b + r>>) = 1 /\ <<b + r>>[1] = b + r
      OBVIOUS
    <3>2. s \in Seq(Int) /\ Len(s) = 1 + k /\ s[1] = b + r /\ \A j \in 1 .. k : s[1 + j] = p[j]
      BY <2>6, <2>7, <3>1, JoinFacts
    <3> QED BY <3>2
  <2>9. PICK h : h = [j \in 1 .. ((k + 1) + 1) |-> IF j = 1 THEN y ELSE v[j - 1]]
    OBVIOUS
  <2>10. h \in [1 .. ((k + 1) + 1) -> Nat] /\ h[1] = y /\ h[(k + 1) + 1] = 0
        /\ \A j \in 1 .. (k + 1) : h[j + 1] = v[j]
    <3>1. \A j \in 1 .. ((k + 1) + 1) : j # 1 => j - 1 \in 1 .. (k + 1)
      OBVIOUS
    <3>2. \A j \in 1 .. ((k + 1) + 1) : (IF j = 1 THEN y ELSE v[j - 1]) \in Nat
      BY <1>2, <2>7, <3>1
    <3>3. h \in [1 .. ((k + 1) + 1) -> Nat]
      BY <2>9, <3>2
    <3>4. 1 \in 1 .. ((k + 1) + 1) /\ (k + 1) + 1 \in 1 .. ((k + 1) + 1) /\ (k + 1) + 1 # 1
          /\ ((k + 1) + 1) - 1 = k + 1
      OBVIOUS
    <3>5. \A j \in 1 .. (k + 1) : j + 1 \in 1 .. ((k + 1) + 1) /\ j + 1 # 1 /\ (j + 1) - 1 = j
      OBVIOUS
    <3>6. \A j \in 1 .. (k + 1) : h[j + 1] = v[j]
      BY <2>9, <3>5
    <3> QED BY <2>7, <2>9, <3>3, <3>4, <3>6
  <2>11. (b + r) % b = r /\ ~(b + r < b)
    <3>1. b + r \in Nat
      OBVIOUS
    <3>2. b + r = b * ((b + r) \div b) + ((b + r) % b) /\ (b + r) % b \in 0 .. (b - 1) /\ (b + r) \div b \in Nat
      BY <3>1, DivisionFacts
    <3>3. PICK d \in Nat, e \in 0 .. (b - 1) : d = (b + r) \div b /\ e = (b + r) % b /\ b + r = b * d + e
      BY <3>2
    <3>4. 1 * b + r = d * b + e /\ 1 \in Nat /\ r \in 0 .. (b - 1)
      BY <2>1, <3>3
    <3>5. r = e
      BY ONLY <3>4, b \in Nat \ {0}, d \in Nat, e \in 0 .. (b - 1), PlaceUnique
    <3> QED BY <3>3, <3>5
  <2>12. ASSUME NEW j \in 1 .. (k + 1)
         PROVE  h[j] = (s[j] % b) + b * h[j + 1]
    <3>1. CASE j = 1
      <4>1. 1 \in 1 .. (k + 1)
        OBVIOUS
      <4>2. h[1 + 1] = q
        BY <2>7, <2>10, <4>1
      <4> QED BY <2>1, <2>8, <2>10, <2>11, <3>1, <4>2
    <3>2. CASE j # 1
      <4>1. PICK i0 \in 1 .. k : j = i0 + 1
        <5>1. j - 1 \in 1 .. k /\ j = (j - 1) + 1
          BY <3>2
        <5> QED BY <5>1
      <4>2. h[i0 + 1] = v[i0] /\ h[(i0 + 1) + 1] = v[i0 + 1]
        <5>1. i0 \in 1 .. (k + 1) /\ i0 + 1 \in 1 .. (k + 1)
          BY <4>1
        <5> QED BY <2>10, <5>1
      <4>3. v[i0] = (p[i0] % b) + b * v[i0 + 1] /\ s[i0 + 1] = p[i0]
        BY <2>7, <2>8
      <4> QED BY <4>1, <4>2, <4>3
    <3> QED BY <3>1, <3>2
  <2>13. s[k + 1] < b /\ \A j \in 1 .. ((k + 1) - 1) : ~(s[j] < b)
    <3>1. s[k + 1] = p[k]
      BY <2>8
    <3>2. ASSUME NEW j \in 1 .. ((k + 1) - 1)
          PROVE  ~(s[j] < b)
      <4>1. CASE j = 1
        BY <2>8, <2>11, <4>1
      <4>2. CASE j # 1
        <5>1. j - 1 \in 1 .. (k - 1) /\ j - 1 \in 1 .. k /\ (j - 1) + 1 = j
          BY <4>2
        <5>2. s[j] = p[j - 1]
          BY <2>8, <5>1
        <5> QED BY <2>7, <5>1, <5>2
      <4> QED BY <4>1, <4>2
    <3> QED BY <2>7, <3>1, <3>2
  <2>14. Spells(s, k + 1, h, y)
    BY <2>1, <2>8, <2>10, <2>12, <2>13 DEF Spells
  <2>15. k + 1 \in Nat \ {0}
    OBVIOUS
  <2> QED BY <1>2, <2>6, <2>14, <2>15
<1> QED BY <1>4, <1>5

\* so that those of PutUvarint do.
LEMMA PutUvarintFacts ==
  ASSUME NEW x \in Nat
  PROVE  \E k \in Nat \ {0} : \E v : Spells(VC!PutUvarint(x), k, v, x)
<1>1. VC!PutUvarint(x) = (CHOOSE f : IsDigits(f))[x]
  BY DEF VC!PutUvarint, IsDigits
<1>2. PICK f : IsDigits(f) /\ VC!PutUvarint(x) = f[x]
  BY <1>1, DigitsExist
<1> QED BY <1>2, DigitsSpell

\* A number is read back from its digits, and the bytes after them are left.
LEMMA RoundTrip ==
  ASSUME NEW x \in Nat, NEW t \in Seq(Int)
  PROVE  VC!PutUvarint(x) \in Seq(Int) /\ VC!Uvarint(VC!PutUvarint(x) \o t) = [value |-> x, rest |-> t]
<1>1. PICK k \in Nat \ {0} : \E v : Spells(VC!PutUvarint(x), k, v, x)
  BY PutUvarintFacts
<1>2. PICK v : Spells(VC!PutUvarint(x), k, v, x)
  BY <1>1
<1>3. PICK p : p = VC!PutUvarint(x)
  OBVIOUS
<1>4. /\ p \in Seq(Int) /\ Len(p) = k /\ v \in [1 .. (k + 1) -> Nat]
      /\ p[k] < Base /\ \A j \in 1 .. (k - 1) : ~(p[j] < Base)
      /\ \A j \in 1 .. k : v[j] = (p[j] % Base) + Base * v[j + 1]
      /\ v[1] = x /\ v[k + 1] = 0
  BY <1>2, <1>3 DEF Spells
<1>5. PICK b : b = p \o t
  OBVIOUS
<1>6. PICK l \in Nat : /\ l = Len(t) /\ b \in Seq(Int) /\ Len(b) = k + l /\ DOMAIN b = 1 .. (k + l)
                       /\ \A j \in 1 .. k : b[j] = p[j]
                       /\ \A j \in 1 .. l : b[k + j] = t[j]
  <2>1. b \in Seq(Int) /\ Len(b) = k + Len(t) /\ (\A j \in 1 .. k : b[j] = p[j])
        /\ \A j \in 1 .. Len(t) : b[k + j] = t[j]
    <3>1. p \in Seq(Int) /\ Len(p) = k
      BY <1>4
    <3>2. b \in Seq(Int) /\ Len(b) = Len(p) + Len(t) /\ (\A j \in 1 .. Len(p) : b[j] = p[j])
          /\ \A j \in 1 .. Len(t) : b[Len(p) + j] = t[j]
      <4>1. p \in Seq(Int)
        BY <3>1
      <4>2. /\ p \o t \in Seq(Int) /\ Len(p \o t) = Len(p) + Len(t)
            /\ \A j \in 1 .. Len(p) : (p \o t)[j] = p[j]
            /\ \A j \in 1 .. Len(t) : (p \o t)[Len(p) + j] = t[j]
        BY ONLY <4>1, t \in Seq(Int), JoinFacts
      <4> QED BY <1>5, <4>2
    <3> QED BY <3>1, <3>2
  <2>2. DOMAIN b = 1 .. Len(b) /\ Len(t) \in Nat
    BY <2>1
  <2> QED BY <2>1, <2>2
<1> DEFINE final == {j \in DOMAIN b : b[j] < Base}
           Eq(f) == f = [j \in 1 .. (k + 1) |-> IF j > k THEN 0 ELSE (b[j] % Base) + Base * f[j + 1]]
<1>7. VC!Min(final) = k /\ final # {}
  <2>1. k \in final
    BY <1>4, <1>6
  <2>2. \A j \in final : k <= j
    <3> SUFFICES ASSUME NEW j \in final, ~(k <= j) PROVE FALSE
      OBVIOUS
    <3>1. j \in 1 .. (k - 1) /\ j \in 1 .. k
      BY <1>6
    <3> QED BY <1>4, <1>6, <3>1
  <2>3. \A j \in final : j \in Int
    BY <1>6
  <2> HIDE DEF final
  <2>4. \A j \in final : (\A y \in final : j <= y) => j = k
    BY <2>1, <2>2, <2>3
  <2> QED BY <2>1, <2>2, <2>4 DEF VC!Min
<1>8. VC!Uvarint(b) = [value |-> (CHOOSE f : Eq(f))[1], rest |-> SubSeq(b, k + 1, Len(b))]
  <2>1. VC!Uvarint(b) =
          LET k0 == IF final = {} THEN 0 ELSE VC!Min(final)
              from[j \in 1 .. (k0 + 1)] == IF j > k0 THEN 0 ELSE (b[j] % Base) + Base * from[j + 1]
          IN [value |-> from[1], rest |-> SubSeq(b, k0 + 1, Len(b))]
    BY DEF VC!Uvarint
  <2>2. PICK k0 : k0 = k /\ k0 = (IF final = {} THEN 0 ELSE VC!Min(final))
    <3> HIDE DEF final
    <3> QED BY <1>7
  <2> HIDE DEF final
  <2> QED BY <2>1, <2>2
<1>9. Eq(v)
  <2>1. \A j \in 1 .. (k + 1) : v[j] = IF j > k THEN 0 ELSE (b[j] % Base) + Base * v[j + 1]
    <3> SUFFICES ASSUME NEW j \in 1 .. (k + 1)
                 PROVE  v[j] = IF j > k THEN 0 ELSE (b[j] % Base) + Base * v[j + 1]
      OBVIOUS
    <3>1. CASE j > k
      <4>1. j = k + 1
        BY <3>1
      <4> QED BY <1>4, <3>1, <4>1
    <3>2. CASE ~(j > k)
      <4>1. j \in 1 .. k
        BY <3>2
      <4> QED BY <1>4, <1>6, <3>2, <4>1
    <3> QED BY <3>1, <3>2
  <2>2. v = [j \in 1 .. (k + 1) |-> v[j]]
    BY <1>4
  <2> QED BY <2>1, <2>2
<1>10. PICK f : f = (CHOOSE g : Eq(g)) /\ Eq(f)
  <2> HIDE DEF Eq
  <2> QED BY <1>9
<1>11. \A j \in 1 .. (k + 1) : f[j] = IF j > k THEN 0 ELSE (b[j] % Base) + Base * f[j + 1]
  <2>1. f = [j \in 1 .. (k + 1) |-> IF j > k THEN 0 ELSE (b[j] % Base) + Base * f[j + 1]]
    BY <1>10
  <2> QED BY <2>1
<1>12. f[1] = x
  <2> DEFINE S == {d \in 0 .. k : f[(k + 1) - d] = v[(k + 1) - d]}
  <2>1. 0 \in S
    <3>1. k + 1 \in 1 .. (k + 1) /\ k + 1 > k /\ (k + 1) - 0 = k + 1
      OBVIOUS
    <3> QED BY <1>4, <1>11, <3>1
  <2>2. ASSUME NEW d \in 0 .. (k - 1), d \in S
        PROVE  d + 1 \in S
    <3>1. PICK j \in 1 .. k : j = (k + 1) - (d + 1) /\ j + 1 = (k + 1) - d /\ ~(j > k)
      <4>1. (k + 1) - (d + 1) \in 1 .. k /\ ((k + 1) - (d + 1)) + 1 = (k + 1) - d
        OBVIOUS
      <4> QED BY <4>1
    <3>2. f[j + 1] = v[j + 1]
      BY <2>2, <3>1
    <3>3. f[j] = (b[j] % Base) + Base * f[j + 1] /\ v[j] = (p[j] % Base) + Base * v[j + 1]
      BY <1>4, <1>11, <3>1
    <3>4. f[j] = v[j]
      BY <1>6, <3>2, <3>3
    <3> QED BY <3>1, <3>4
  <2>3. k \in S
    <3> HIDE DEF S
    <3>1. \A d \in 0 .. k : d \in S
      BY <2>1, <2>2, BoundedInduction
    <3> QED BY <3>1
  <2> QED BY <1>4, <2>3
<1>13. SubSeq(b, k + 1, Len(b)) = t
  <2>1. PICK z : z = SubSeq(b, k + 1, k + l)
    OBVIOUS
  <2>2. z = [j \in 1 .. l |-> b[k + j]] /\ z \in Seq(Int)
    BY <1>6, <2>1, WindowFacts
  <2>3. t = [j \in 1 .. l |-> t[j]]
    BY <1>6
  <2>4. z = t
    BY <1>6, <2>2, <2>3
  <2> QED BY <1>6, <2>1, <2>4
<1> HIDE DEF Eq
<1> QED BY <1>3, <1>4, <1>5, <1>8, <1>10, <1>12, <1>13

-----------------------------------------------------------------------------
(* varint-csr: the block of a vertex. *)

\* The number that is written for the k-th neighbour.
Gap(s, k) == IF k = 1 THEN s[1] ELSE s[k] - s[k - 1]
Gaps(s) == \A k \in 1 .. Len(s) : Gap(s, k) \in Nat

\* g[j] is what is left of the block behind the j-th neighbour.
Tails(g, s) ==
  /\ g \in [0 .. Len(s) -> Seq(Int)] /\ g[Len(s)] = <<>>
  /\ \A j \in 1 .. Len(s) : g[j - 1] = VC!PutUvarint(Gap(s, j)) \o g[j]

\* The bytes of a block are a number and a chain of gaps.
LEMMA EncodedFacts ==
  ASSUME NEW s \in Seq(Int), Gaps(s)
  PROVE  \E g : /\ Tails(g, s) /\ VC!Encoded(s) \in Seq(Int)
                /\ VC!Encoded(s) = VC!PutUvarint(Len(s)) \o g[0]
<1>1. PICK c \in Nat : c = Len(s) /\ DOMAIN s = 1 .. c
  OBVIOUS
<1>2. PICK codes : codes = [j \in 1 .. c |-> VC!PutUvarint(Gap(s, j))]
  OBVIOUS
<1>3. (\A j \in 1 .. c : codes[j] \in Seq(Int)) /\ VC!PutUvarint(c) \in Seq(Int)
  <2>1. <<>> \in Seq(Int)
    OBVIOUS
  <2>2. \A j \in 1 .. c : Gap(s, j) \in Nat
    BY <1>1 DEF Gaps
  <2>3. \A x \in Nat : VC!PutUvarint(x) \in Seq(Int)
    BY <2>1, RoundTrip
  <2> QED BY <1>2, <2>2, <2>3
<1>4. codes \in Seq(Seq(Int)) /\ Len(codes) = c
  BY <1>2, <1>3
<1>5. PICK y : Joins(y, codes, Int) /\ FlattenSeq(codes) = y[c]
  <2>1. PICK y : Joins(y, codes, Int)
    BY <1>4, JoinsExist
  <2>2. FlattenSeq(codes) = y[Len(codes)]
    BY <1>4, <2>1, FlattenJoins
  <2> QED BY <1>4, <2>1, <2>2
<1>6. y \in [Nat -> Seq(Int)] /\ y[0] = <<>> /\ \A j \in 1 .. c : y[j] = y[j - 1] \o codes[j]
  BY <1>4, <1>5 DEF Joins
\* The tails, from the last one on.
<1> DEFINE step == [k \in Nat |-> [x \in Seq(Int) |-> IF c - k \in 1 .. c THEN codes[c - k] \o x ELSE x]]
<1>7. step \in [Nat -> [Seq(Int) -> Seq(Int)]]
  <2> SUFFICES ASSUME NEW k \in Nat, NEW x \in Seq(Int)
               PROVE  (IF c - k \in 1 .. c THEN codes[c - k] \o x ELSE x) \in Seq(Int)
    OBVIOUS
  <2>1. c - k \in 1 .. c => codes[c - k] \o x \in Seq(Int)
    BY <1>3, ConcatProperties
  <2> QED BY <2>1
<1>8. PICK h : h \in [Nat -> Seq(Int)] /\ h[0] = <<>> /\ \A k \in Nat : h[k + 1] = step[k][h[k]]
  <2>1. <<>> \in Seq(Int)
    OBVIOUS
  <2> HIDE DEF step
  <2>2. PICK h : Solves(h, Seq(Int), <<>>, step)
    BY <1>7, <2>1, RecursiveFunction DEF Recursion
  <2> QED BY <2>2 DEF Solves
<1>9. PICK g : g = [j \in 0 .. c |-> h[c - j]]
  OBVIOUS
<1>10. g \in [0 .. c -> Seq(Int)] /\ g[c] = <<>>
  <2>1. \A j \in 0 .. c : c - j \in Nat
    OBVIOUS
  <2>2. \A j \in 0 .. c : h[c - j] \in Seq(Int)
    BY <1>8, <2>1
  <2>3. c \in 0 .. c /\ c - c = 0
    OBVIOUS
  <2> QED BY <1>8, <1>9, <2>2, <2>3
<1>11. ASSUME NEW j \in 1 .. c
       PROVE  g[j - 1] = codes[j] \o g[j]
  <2>1. c - j \in Nat /\ c - (j - 1) = (c - j) + 1 /\ c - (c - j) = j /\ j \in 0 .. c /\ j - 1 \in 0 .. c
    OBVIOUS
  <2>2. h[c - j] \in Seq(Int) /\ h[(c - j) + 1] = step[c - j][h[c - j]]
    <3> HIDE DEF step
    <3> QED BY <1>8, <2>1
  <2>3. h[(c - j) + 1] = codes[j] \o h[c - j]
    BY <2>1, <2>2
  <2> QED BY <1>9, <2>1, <2>3
<1> HIDE DEF step
<1>12. Tails(g, s)
  BY <1>1, <1>2, <1>10, <1>11 DEF Tails
\* What is joined so far and the tail make up the whole.
<1> DEFINE S == {j \in 0 .. c : y[j] \o g[j] = g[0]}
<1>13. c \in S
  <2>1. 0 \in S
    <3>1. g[0] \in Seq(Int)
      BY <1>10
    <3>2. <<>> \o g[0] = g[0]
      BY <3>1, ConcatEmptySeq
    <3>3. y[0] \o g[0] = g[0] /\ 0 \in 0 .. c
      BY <1>6, <3>2
    <3> QED BY <3>3
  <2>2. ASSUME NEW j \in 0 .. (c - 1), j \in S
        PROVE  j + 1 \in S
    <3>1. j + 1 \in 1 .. c /\ (j + 1) - 1 = j /\ j \in Nat /\ j \in 0 .. c /\ j + 1 \in 0 .. c
      OBVIOUS
    <3>2. g[j] = codes[j + 1] \o g[j + 1]
      BY <1>11, <3>1
    <3>3. y[j + 1] = y[j] \o codes[j + 1]
      BY <1>6, <3>1
    <3>4. y[j] \in Seq(Int) /\ codes[j + 1] \in Seq(Int) /\ g[j + 1] \in Seq(Int)
      BY <1>3, <1>6, <1>10, <3>1
    <3>5. (y[j] \o codes[j + 1]) \o g[j + 1] = y[j] \o (codes[j + 1] \o g[j + 1])
      <4>1. \A a, b, d \in Seq(Int) : (a \o b) \o d = a \o (b \o d)
        BY ConcatAssociative, SMTT(30)
      <4> QED BY <3>4, <4>1
    <3>6. y[j + 1] \o g[j + 1] = y[j] \o g[j]
      BY <3>2, <3>3, <3>5
    <3> QED BY <2>2, <3>1, <3>6
  <2>3. \A j \in 0 .. c : j \in S
    <3> HIDE DEF S
    <3> QED BY <2>1, <2>2, BoundedInduction
  <2>4. c \in 0 .. c
    OBVIOUS
  <2> QED BY <2>3, <2>4
<1>14. FlattenSeq(codes) = g[0]
  <2>1. y[c] \in Seq(Int)
    BY <1>6
  <2>2. y[c] \o <<>> = y[c]
    BY <2>1, ConcatEmptySeq
  <2>3. y[c] \o g[c] = g[0]
    BY <1>13
  <2> QED BY <1>5, <1>10, <2>2, <2>3
<1>15. VC!Encoded(s) = VC!PutUvarint(c) \o FlattenSeq(codes)
  <2>1. VC!FlattenSeq(codes) = FlattenSeq(codes)
    BY DEF VC!FlattenSeq, FlattenSeq
  <2>2. codes = [j \in DOMAIN s |-> VC!PutUvarint(IF j = 1 THEN s[1] ELSE s[j] - s[j - 1])]
    BY <1>1, <1>2 DEF Gap
  <2> QED BY <1>1, <2>1, <2>2 DEF VC!Encoded
<1>16. VC!Encoded(s) \in Seq(Int)
  <2>1. g[0] \in Seq(Int)
    BY <1>10
  <2> QED BY <1>3, <1>14, <1>15, <2>1, ConcatProperties
<1> QED BY <1>1, <1>12, <1>14, <1>15, <1>16

\* The decoding loop of a block finds each neighbour and ends with the last byte.
LEMMA DecodeFacts ==
  ASSUME NEW u, NEW s \in Seq(Int), Gaps(s), VC!Bytes(u) = VC!Encoded(s)
  PROVE  /\ VC!Degree(u) = Len(s)
         /\ \A j \in 1 .. Len(s) : VC!Decode(u)[j].cur = s[j]
         /\ VC!Decode(u)[Len(s)].rest = <<>>
<1>1. PICK g : /\ Tails(g, s) /\ VC!Bytes(u) = VC!PutUvarint(Len(s)) \o g[0]
  BY EncodedFacts
<1>2. PICK c \in Nat : c = Len(s) /\ DOMAIN s = 1 .. c /\ \A j \in 1 .. c : s[j] \in Int
  OBVIOUS
<1>3. /\ g \in [0 .. c -> Seq(Int)] /\ g[c] = <<>>
      /\ \A j \in 1 .. c : g[j - 1] = VC!PutUvarint(Gap(s, j)) \o g[j]
  BY <1>1, <1>2 DEF Tails
<1>4. VC!Uvarint(VC!Bytes(u)) = [value |-> c, rest |-> g[0]]
  <2>1. g[0] \in Seq(Int)
    BY <1>3
  <2>2. VC!Uvarint(VC!PutUvarint(c) \o g[0]) = [value |-> c, rest |-> g[0]]
    BY <2>1, RoundTrip
  <2> QED BY <1>1, <1>2, <2>2
<1>5. VC!Degree(u) = c
  BY <1>4 DEF VC!Degree
<1>6. ASSUME NEW j \in 1 .. c
      PROVE  VC!Uvarint(g[j - 1]) = [value |-> Gap(s, j), rest |-> g[j]]
  <2>1. Gap(s, j) \in Nat /\ g[j] \in Seq(Int) /\ g[j - 1] = VC!PutUvarint(Gap(s, j)) \o g[j]
    <3>1. Gap(s, j) \in Nat
      BY <1>2 DEF Gaps
    <3>2. j \in 0 .. c
      OBVIOUS
    <3> QED BY <1>3, <3>1, <3>2
  <2> QED BY <2>1, RoundTrip
<1> DEFINE Step(f, j) == IF j = 0 THEN [cur |-> 0, rest |-> g[0]]
                         ELSE [cur |-> f[j - 1].cur + VC!Uvarint(f[j - 1].rest).value,
                               rest |-> VC!Uvarint(f[j - 1].rest).rest]
           Eq(f) == f = [j \in 0 .. c |-> Step(f, j)]
<1>7. VC!Decode(u) = CHOOSE f : Eq(f)
  BY <1>4, <1>5, SMTT(30) DEF VC!Decode
<1>8. PICK a : a = [j \in 0 .. c |-> [cur |-> IF j = 0 THEN 0 ELSE s[j], rest |-> g[j]]]
  OBVIOUS
<1>9. ASSUME NEW j \in 1 .. c
      PROVE  /\ a[j - 1].rest = g[j - 1] /\ a[j - 1].cur + Gap(s, j) = s[j]
             /\ a[j] = [cur |-> s[j], rest |-> g[j]]
  <2>1. j - 1 \in 0 .. c /\ j \in 0 .. c /\ j # 0
    OBVIOUS
  <2>2. a[j - 1] = [cur |-> IF j - 1 = 0 THEN 0 ELSE s[j - 1], rest |-> g[j - 1]]
    BY <1>8, <2>1
  <2>3. a[j] = [cur |-> s[j], rest |-> g[j]]
    BY <1>8, <2>1
  <2>4. (IF j - 1 = 0 THEN 0 ELSE s[j - 1]) + Gap(s, j) = s[j]
    <3>1. CASE j = 1
      BY <1>2, <3>1 DEF Gap
    <3>2. CASE j # 1
      <4>1. j - 1 \in 1 .. c /\ j - 1 # 0
        BY <3>2
      <4>2. s[j] \in Int /\ s[j - 1] \in Int
        BY <1>2, <4>1
      <4> QED BY <3>2, <4>1, <4>2 DEF Gap
    <3> QED BY <3>1, <3>2
  <2> QED BY <2>2, <2>3, <2>4
<1>10. Eq(a)
  <2>1. ASSUME NEW j \in 0 .. c
        PROVE  a[j] = Step(a, j)
    <3>1. CASE j = 0
      BY <1>8, <3>1
    <3>2. CASE j # 0
      <4>1. j \in 1 .. c
        BY <3>2
      <4>2. VC!Uvarint(a[j - 1].rest) = [value |-> Gap(s, j), rest |-> g[j]]
        BY <1>6, <1>9, <4>1
      <4>3. Step(a, j) = [cur |-> a[j - 1].cur + Gap(s, j), rest |-> g[j]]
        BY <3>2, <4>2
      <4> QED BY <1>9, <4>1, <4>3
    <3> QED BY <3>1, <3>2
  <2>2. a = [j \in 0 .. c |-> a[j]]
    BY <1>8
  <2> HIDE DEF Step
  <2> QED BY <2>1, <2>2
<1>11. PICK f : f = VC!Decode(u) /\ Eq(f)
  <2> HIDE DEF Eq
  <2> QED BY <1>7, <1>10
<1>12. \A j \in 0 .. c : f[j] = Step(f, j)
  <2>1. f = [j \in 0 .. c |-> Step(f, j)]
    BY <1>11
  <2> HIDE DEF Step
  <2> QED BY <2>1
<1>13. \A j \in 0 .. c : f[j] = a[j]
  <2> DEFINE S == {j \in 0 .. c : f[j] = a[j]}
  <2>1. 0 \in S
    <3>1. 0 \in 0 .. c
      OBVIOUS
    <3>2. f[0] = [cur |-> 0, rest |-> g[0]]
      BY <1>12, <3>1
    <3> QED BY <1>8, <3>1, <3>2
  <2>2. ASSUME NEW j \in 0 .. (c - 1), j \in S
        PROVE  j + 1 \in S
    <3>1. j + 1 \in 0 .. c /\ j + 1 # 0 /\ (j + 1) - 1 = j
      OBVIOUS
    <3>2. f[j + 1] = Step(f, j + 1) /\ a[j + 1] = Step(a, j + 1)
      <4>1. \A x \in 0 .. c : a[x] = Step(a, x)
        <5>1. a = [x \in 0 .. c |-> Step(a, x)]
          BY <1>10
        <5> HIDE DEF Step
        <5> QED BY <5>1
      <4> HIDE DEF Step
      <4> QED BY <1>12, <3>1, <4>1
    <3>3. Step(f, j + 1) = Step(a, j + 1)
      <4>1. f[(j + 1) - 1] = a[(j + 1) - 1]
        BY <2>2, <3>1
      <4> QED BY <4>1
    <3> QED BY <3>1, <3>2, <3>3
  <2> HIDE DEF S
  <2>3. \A j \in 0 .. c : j \in S
    BY <2>1, <2>2, BoundedInduction
  <2> QED BY <2>3 DEF S
<1> HIDE DEF Eq, Step
<1>14. \A j \in 1 .. c : f[j].cur = s[j]
  <2> SUFFICES ASSUME NEW j \in 1 .. c PROVE f[j].cur = s[j]
    OBVIOUS
  <2>1. f[j] = a[j] /\ a[j] = [cur |-> s[j], rest |-> g[j]]
    BY <1>9, <1>13
  <2> QED BY <2>1
<1>15. f[c].rest = <<>>
  <2>1. c \in 0 .. c
    OBVIOUS
  <2>2. f[c] = a[c] /\ a[c].rest = g[c]
    BY <1>8, <1>13, <2>1
  <2> QED BY <1>3, <2>2
<1> QED BY <1>2, <1>5, <1>11, <1>14, <1>15

-----------------------------------------------------------------------------
(* varint-csr: the constructor. *)

\* Where the block of u ends: at the next offset, or, for the last one, at the end of the
\* buffer.
BlockStop(u) == IF u + 2 \in 1 .. Len(offsets) THEN offsets[u + 2] ELSE Len(data)

IsBlock(u) ==
  /\ offsets[u + 1] <= BlockStop(u) /\ BlockStop(u) <= Len(data)
  /\ SubSeq(data, offsets[u + 1] + 1, BlockStop(u)) = VC!Encoded(VC!Sorted(u))

\* The offsets bound the blocks of the vertices that have been encoded.
BytesIInv ==
  /\ phase \in {"build", "ready", "running", "returned"}
  /\ offsets \in Seq(Nat) /\ data \in Seq(Int)
  /\ phase = "build" => Len(offsets) <= n
  /\ phase # "build" => Len(offsets) = n + 1
  /\ \A u \in Vertex : u < Len(offsets) => IsBlock(u)

\* The targets of a vertex, in order, have gaps that are natural numbers.
LEMMA SortedFacts ==
  ASSUME Built, NEW u
  PROVE  \E s \in Seq(Int) :
           /\ s = VC!Sorted(u) /\ Gaps(s) /\ IsInjective(s) /\ Ascending(s)
           /\ Range(s) = {v \in Vertex : Linked(list, u, v)}
<1>1. PICK N : N = {v \in Vertex : Linked(list, u, v)}
  OBVIOUS
<1>2. n \in Nat /\ \A v \in N : v \in Nat
  BY <1>1, EdgeFacts DEF Vertex
<1>3. IsFiniteSet(N) /\ N \subseteq Int
  <2>1. IsFiniteSet(0 .. (n - 1)) /\ N \in SUBSET (0 .. (n - 1))
    BY <1>1, <1>2, FS_Interval DEF Vertex
  <2>2. IsFiniteSet(N)
    BY <2>1, FS_Subset
  <2> QED BY <1>2, <2>2
<1>4. PICK s : s = InOrder(N)
  OBVIOUS
<1>5. s = VC!Sorted(u)
  <2>1. \A v : VC!Linked(edges, u, v) <=> Linked(list, u, v)
    <3>1. \A v : VC!Linked(edges, u, v) <=> Linked(edges, u, v)
      BY DEF VC!Linked, Linked
    <3> QED BY <3>1 DEF Built, Fit
  <2>2. {v \in VC!Vertex : VC!Linked(edges, u, v)} = N
    BY <1>1, <2>1 DEF VC!Vertex, Vertex
  <2>3. VC!InOrder(N) = InOrder(N)
    BY DEF VC!InOrder, InOrder, VC!Cardinality, Cardinality
  <2> QED BY <1>4, <2>2, <2>3 DEF VC!Sorted
<1>6. s \in Seq(N) /\ Range(s) = N /\ IsInjective(s) /\ Ascending(s)
  <2>1. Enumerates(s, N)
    BY <1>3, <1>4, InOrderFacts
  <2> QED BY <1>3, <2>1, EnumeratesFacts
<1>7. s \in Seq(Int)
  BY <1>3, <1>6, WiderSeq
<1>8. Gaps(s)
  <2> SUFFICES ASSUME NEW j \in 1 .. Len(s) PROVE Gap(s, j) \in Nat
    BY DEF Gaps
  <2>1. s[j] \in Nat
    BY <1>2, <1>6
  <2>2. CASE j = 1
    BY <2>1, <2>2 DEF Gap
  <2>3. CASE j # 1
    <3>1. j - 1 \in 1 .. Len(s) /\ j - 1 < j
      BY <2>3, <1>7
    <3>2. s[j - 1] \in Nat
      BY <1>2, <1>6, <3>1
    <3>3. s[j - 1] <= s[j]
      BY <1>6, <1>7, <3>1 DEF Ascending
    <3> QED BY <2>1, <2>3, <3>2, <3>3 DEF Gap
  <2> QED BY <2>2, <2>3
<1> QED BY <1>1, <1>5, <1>6, <1>7, <1>8

\* The block of one more vertex keeps the invariant of the bytes.
LEMMA EncodeStep ==
  ASSUME Built, BytesIInv, n' = n, edges' = edges, VC!Encode
  PROVE  BytesIInv'
<1>1. PICK c \in Nat, l \in Nat : c = Len(offsets) /\ c < n /\ l = Len(data)
  BY DEF BytesIInv, VC!Encode
<1>2. PICK E \in Seq(Int) : E = VC!Encoded(VC!Sorted(c))
  BY SortedFacts, EncodedFacts
<1>3. phase = "build" /\ phase' = phase /\ offsets' = Append(offsets, l) /\ data' = data \o E
  BY <1>1, <1>2 DEF VC!Encode
<1>4. /\ offsets' \in Seq(Nat) /\ Len(offsets') = c + 1 /\ offsets'[c + 1] = l
      /\ \A j \in 1 .. c : offsets'[j] = offsets[j]
  BY <1>1, <1>3 DEF BytesIInv
<1>5. PICK k \in Nat : /\ k = Len(E) /\ data' \in Seq(Int) /\ Len(data') = l + k
                       /\ \A j \in 1 .. l : data'[j] = data[j]
                       /\ \A j \in 1 .. k : data'[l + j] = E[j]
  <2>1. data \in Seq(Int)
    BY DEF BytesIInv
  <2>2. /\ data \o E \in Seq(Int) /\ Len(data \o E) = Len(data) + Len(E)
        /\ \A j \in 1 .. Len(data) : (data \o E)[j] = data[j]
        /\ \A j \in 1 .. Len(E) : (data \o E)[Len(data) + j] = E[j]
    BY ONLY <2>1, E \in Seq(Int), JoinFacts
  <2>3. PICK k \in Nat : k = Len(E)
    OBVIOUS
  <2>4. data' \in Seq(Int) /\ Len(data') = l + k
    BY <1>1, <1>3, <2>2, <2>3
  <2>5. (\A j \in 1 .. l : data'[j] = data[j]) /\ \A j \in 1 .. k : data'[l + j] = E[j]
    BY <1>1, <1>3, <2>2, <2>3
  <2> QED BY <2>3, <2>4, <2>5
<1>6. ASSUME NEW u \in Vertex, u < c + 1
      PROVE  IsBlock(u)'
  <2>1. u \in Nat /\ VC!Sorted(u)' = VC!Sorted(u)
    BY EdgeFacts DEF Vertex, VC!Sorted, VC!Vertex
  <2>2. VC!Encoded(VC!Sorted(u))' = VC!Encoded(VC!Sorted(u))
    BY <2>1 DEF VC!Encoded, VC!PutUvarint
  \* An earlier block: what ended at the end of the buffer ends at the new offset.
  <2>3. CASE u < c
    <3>1. PICK a \in Nat, b \in Nat : /\ a = offsets[u + 1] /\ b = BlockStop(u) /\ a <= b /\ b <= l
                                      /\ SubSeq(data, a + 1, b) = VC!Encoded(VC!Sorted(u))
      <4>1. IsBlock(u) /\ u + 1 \in 1 .. c
        BY <1>1, <2>1, <2>3 DEF BytesIInv
      <4>2. offsets[u + 1] \in Nat /\ BlockStop(u) \in Nat
        BY <1>1, <4>1 DEF BytesIInv, BlockStop
      <4> QED BY <1>1, <4>1, <4>2 DEF IsBlock
    <3>2. offsets'[u + 1] = a /\ BlockStop(u)' = b
      <4>1. u + 1 \in 1 .. c
        BY <2>1, <2>3
      <4>2. CASE u + 2 \in 1 .. c
        <5>1. u + 2 \in 1 .. (c + 1) /\ offsets'[u + 2] = offsets[u + 2]
          BY <1>4, <4>2
        <5>2. BlockStop(u) = offsets[u + 2] /\ BlockStop(u)' = offsets'[u + 2]
          BY <1>1, <1>4, <4>2, <5>1 DEF BlockStop
        <5> QED BY <1>4, <3>1, <4>1, <5>1, <5>2
      <4>3. CASE u + 2 \notin 1 .. c
        <5>1. u + 2 = c + 1
          BY <2>1, <2>3, <4>3
        <5>2. BlockStop(u) = l
          BY <1>1, <4>3 DEF BlockStop
        <5>3. u + 2 \in 1 .. (c + 1) /\ offsets'[u + 2] = l
          BY <1>4, <5>1
        <5>4. BlockStop(u)' = offsets'[u + 2]
          BY <1>4, <5>3 DEF BlockStop
        <5> QED BY <1>4, <3>1, <4>1, <5>2, <5>3, <5>4
      <4> QED BY <4>2, <4>3
    <3>3. SubSeq(data', a + 1, b) = SubSeq(data, a + 1, b)
      <4>1. PICK d \in Nat : d = b - a /\ a + d = b
        BY <3>1
      <4>2. data \in Seq(Int) /\ data' \in Seq(Int) /\ a + d <= Len(data) /\ a + d <= Len(data')
        BY <1>1, <1>5, <3>1, <4>1 DEF BytesIInv
      <4>3. SubSeq(data, a + 1, a + d) = [j \in 1 .. d |-> data[a + j]]
        BY <4>2, WindowFacts
      <4>4. SubSeq(data', a + 1, a + d) = [j \in 1 .. d |-> data'[a + j]]
        BY <4>2, WindowFacts
      <4>5. \A j \in 1 .. d : data'[a + j] = data[a + j]
        <5>1. \A j \in 1 .. d : a + j \in 1 .. l
          <6>1. a \in Nat /\ d \in Nat /\ l \in Nat /\ a + d <= l
            BY <3>1, <4>1
          <6> QED BY ONLY <6>1
        <5> QED BY <1>5, <5>1
      <4> QED BY <4>1, <4>3, <4>4, <4>5
    <3>4. offsets'[u + 1] <= BlockStop(u)' /\ BlockStop(u)' <= Len(data')
      BY <1>5, <3>1, <3>2
    <3>5. SubSeq(data', offsets'[u + 1] + 1, BlockStop(u)') = VC!Encoded(VC!Sorted(u))'
      BY <2>2, <3>1, <3>2, <3>3
    <3> QED BY <3>4, <3>5 DEF IsBlock
  <2>4. CASE u = c
    <3>1. offsets'[u + 1] = l /\ BlockStop(u)' = l + k
      BY <1>4, <1>5, <2>4 DEF BlockStop
    <3>2. SubSeq(data', l + 1, l + k) = E
      <4>1. SubSeq(data', l + 1, l + k) = [j \in 1 .. k |-> data'[l + j]]
        BY <1>5, WindowFacts
      <4>2. E = [j \in 1 .. k |-> E[j]]
        BY <1>5
      <4> QED BY <1>5, <4>1, <4>2
    <3>3. offsets'[u + 1] <= BlockStop(u)' /\ BlockStop(u)' <= Len(data')
      BY <1>1, <1>5, <3>1
    <3>4. VC!Encoded(VC!Sorted(u))' = E
      BY <1>2, <2>2, <2>4
    <3>5. SubSeq(data', offsets'[u + 1] + 1, BlockStop(u)') = E
      BY <3>1, <3>2
    <3> QED BY <3>3, <3>4, <3>5 DEF IsBlock
  <2> QED BY <1>6, <2>1, <2>3, <2>4
<1>7. ASSUME NEW u \in Vertex', u < Len(offsets')
      PROVE  IsBlock(u)'
  BY <1>4, <1>6, <1>7 DEF Vertex
<1>8. Len(offsets') <= n'
  BY <1>1, <1>4, EdgeFacts
<1> QED BY <1>3, <1>4, <1>5, <1>7, <1>8 DEF BytesIInv

\* So does every step.
LEMMA BytesNext ==
  ASSUME Built, BytesIInv, n' = n, edges' = edges, VC!Next \/ UNCHANGED vars
  PROVE  BytesIInv'
<1>1. ASSUME NEW u, UNCHANGED <<offsets, data>>
      PROVE  IsBlock(u)' <=> IsBlock(u)
  <2>1. VC!Encoded(VC!Sorted(u))' = VC!Encoded(VC!Sorted(u))
    BY DEF VC!Encoded, VC!PutUvarint, VC!Sorted, VC!Vertex
  <2>2. BlockStop(u)' = BlockStop(u)
    BY <1>1 DEF BlockStop
  <2> QED BY <1>1, <2>1, <2>2 DEF IsBlock
<1>2. CASE VC!Encode
  BY <1>2, EncodeStep
<1>3. CASE VC!Close
  <2>1. PICK l \in Nat : l = Len(data)
    BY DEF BytesIInv
  <2>2. /\ phase' = "ready" /\ Len(offsets) = n /\ offsets' = Append(offsets, l) /\ data' = data
    BY <1>3, <2>1 DEF VC!Close
  <2>3. PICK c \in Nat : c = n /\ c = Len(offsets)
    BY <2>2 DEF BytesIInv
  <2>4. /\ offsets' \in Seq(Nat) /\ Len(offsets') = c + 1 /\ offsets'[c + 1] = l
        /\ \A j \in 1 .. c : offsets'[j] = offsets[j]
    BY <2>2, <2>3 DEF BytesIInv
  <2>5. ASSUME NEW u \in Vertex
        PROVE  IsBlock(u)'
    <3>1. u \in Nat /\ u + 1 \in 1 .. c /\ IsBlock(u)
      BY <2>3 DEF BytesIInv, Vertex
    <3>2. BlockStop(u)' = BlockStop(u)
      <4>1. CASE u + 2 \in 1 .. c
        <5>1. u + 2 \in 1 .. (c + 1) /\ offsets'[u + 2] = offsets[u + 2]
          BY <2>4, <4>1
        <5> QED BY <2>3, <2>4, <4>1, <5>1 DEF BlockStop
      <4>2. CASE u + 2 \notin 1 .. c
        <5>1. u + 2 = c + 1
          BY <3>1, <4>2
        <5>2. BlockStop(u) = l
          BY <2>1, <2>3, <4>2 DEF BlockStop
        <5>3. u + 2 \in 1 .. (c + 1) /\ offsets'[u + 2] = l
          BY <2>3, <2>4, <5>1
        <5> QED BY <2>4, <5>2, <5>3 DEF BlockStop
      <4> QED BY <4>1, <4>2
    <3>3. VC!Encoded(VC!Sorted(u))' = VC!Encoded(VC!Sorted(u))
      BY DEF VC!Encoded, VC!PutUvarint, VC!Sorted, VC!Vertex
    <3>4. offsets'[u + 1] = offsets[u + 1]
      BY <2>4, <3>1
    <3> QED BY <2>2, <3>1, <3>2, <3>3, <3>4 DEF IsBlock
  <2>6. Vertex' = Vertex
    BY DEF Vertex
  <2> QED BY <2>2, <2>3, <2>4, <2>5, <2>6 DEF BytesIInv
<1>4. CASE /\ UNCHANGED <<offsets, data>>
           /\ phase' = phase \/ (phase \in {"ready", "running"} /\ phase' \in {"ready", "running", "returned"})
  <2>1. ASSUME NEW u \in Vertex', u < Len(offsets')
        PROVE  IsBlock(u)'
    BY <1>1, <1>4, <2>1 DEF BytesIInv, Vertex
  <2> QED BY <1>4, <2>1 DEF BytesIInv
<1>5. VC!Ask \/ VC!Visit \/ VC!Leave \/ VC!Stay \/ UNCHANGED vars =>
        /\ UNCHANGED <<offsets, data>>
        /\ phase' = phase \/ (phase \in {"ready", "running"} /\ phase' \in {"ready", "running", "returned"})
  BY DEF VC!Ask, VC!Visit, VC!Leave, VC!Stay, VC!vars, VC!index, vars, shared, byteVars
<1> QED BY <1>2, <1>3, <1>4, <1>5 DEF VC!Next

\* What the readers find in the block of u.
LEMMA BlockRead ==
  ASSUME Built, BytesIInv, phase = "ready", NEW u \in Vertex
  PROVE  \E s \in Seq(Int) :
           /\ IsInjective(s) /\ Ascending(s) /\ Range(s) = {v \in Vertex : Linked(list, u, v)}
           /\ VC!Degree(u) = Len(s)
           /\ \A j \in 1 .. Len(s) : VC!Decode(u)[j].cur = s[j]
           /\ VC!Decode(u)[Len(s)].rest = <<>>
           /\ Gaps(s) /\ VC!Bytes(u) = VC!Encoded(s)
<1>1. PICK s \in Seq(Int) : /\ s = VC!Sorted(u) /\ Gaps(s) /\ IsInjective(s) /\ Ascending(s)
                            /\ Range(s) = {v \in Vertex : Linked(list, u, v)}
  BY SortedFacts
<1>2. n \in Nat /\ u \in Nat /\ u < n /\ Len(offsets) = n + 1
  BY EdgeFacts DEF Vertex, BytesIInv
<1>3. u + 2 \in 1 .. Len(offsets) /\ u < Len(offsets)
  BY <1>2
<1>4. VC!Bytes(u) = VC!Encoded(s)
  <2>1. IsBlock(u)
    BY <1>3 DEF BytesIInv
  <2>2. BlockStop(u) = offsets[u + 2]
    BY <1>3 DEF BlockStop
  <2> QED BY <1>1, <2>1, <2>2 DEF IsBlock, VC!Bytes
<1> QED BY <1>1, <1>4, DecodeFacts

\* Blocks that were encoded answer as the list of edges.
LEMMA BytesRight ==
  ASSUME Built, BytesIInv, name = "varint-csr", phase = "ready", NEW u \in Vertex
  PROVE  Right(u)
<1>1. PICK s \in Seq(Int) : /\ IsInjective(s) /\ Ascending(s)
                            /\ Range(s) = {v \in Vertex : Linked(list, u, v)}
                            /\ VC!Degree(u) = Len(s)
                            /\ \A j \in 1 .. Len(s) : VC!Decode(u)[j].cur = s[j]
  BY BlockRead
<1>2. PICK c \in Nat : c = Len(s) /\ DOMAIN s = 1 .. c /\ \A j \in 1 .. c : s[j] \in Int
  OBVIOUS
<1>3. AppendNeighbors(u) = s
  <2>1. [j \in 1 .. VC!Degree(u) |-> VC!Decode(u)[j].cur] = s
    <3>1. s = [j \in 1 .. c |-> s[j]]
      BY <1>2
    <3> QED BY <1>1, <1>2, <3>1
  <2>2. <<>> \o s = s
    BY ConcatEmptySeq
  <2>3. VC!AppendNeighbors(<<>>, u) = s
    BY <2>1, <2>2 DEF VC!AppendNeighbors
  <2> QED BY <2>3 DEF AppendNeighbors, Lists3
<1>4. Degree(u) = Len(s)
  BY <1>1 DEF Degree, Lists3
<1>5. ASSUME NEW v \in Vertex
      PROVE  HasEdge(u, v) <=> v \in Range(s)
  <2>1. PICK T : T = {j \in 1 .. c : s[j] >= v}
    OBVIOUS
  <2>2. v \in Int
    BY EdgeFacts DEF Vertex
  <2>3. T = {j \in 1 .. VC!Degree(u) : VC!Decode(u)[j].cur >= v}
    BY <1>1, <1>2, <2>1
  <2>4. HasEdge(u, v) <=> T # {} /\ VC!Decode(u)[VC!Min(T)].cur = v
    BY <2>3 DEF HasEdge, VC!HasEdge, Lists3
  <2>5. CASE T = {}
    <3>1. v \notin Range(s)
      <4>1. \A j \in 1 .. c : ~(s[j] >= v)
        BY <2>1, <2>5
      <4>2. \A j \in 1 .. c : s[j] # v
        BY <1>2, <2>2, <4>1
      <4> QED BY <1>2, <4>2 DEF Range
    <3> QED BY <2>4, <2>5, <3>1
  <2>6. CASE T # {}
    <3>1. PICK x \in T : x = VC!Min(T) /\ \A y \in T : x <= y
      <4>1. T \subseteq Nat
        BY <2>1
      <4>2. \E x \in T : \A y \in T : x <= y
        BY <2>6, <4>1, LeastElement
      <4>3. VC!Min(T) = CHOOSE x \in T : \A y \in T : x <= y
        BY DEF VC!Min
      <4> QED BY <4>2, <4>3
    <3>2. x \in 1 .. c /\ s[x] >= v /\ VC!Decode(u)[x].cur = s[x]
      BY <1>1, <1>2, <2>1
    <3>3. s[x] = v <=> v \in Range(s)
      <4>1. s[x] \in Range(s)
        BY <1>2, <3>2 DEF Range
      <4>2. ASSUME v \in Range(s)
            PROVE  s[x] = v
        <5>1. PICK j \in 1 .. c : s[j] = v
          BY <1>2, <4>2 DEF Range
        <5>2. j \in T
          BY <1>2, <2>1, <2>2, <5>1
        <5>3. x <= j
          BY <3>1, <5>2
        <5>4. s[x] <= s[j]
          <6>1. CASE x = j
            BY <1>2, <5>1, <6>1
          <6>2. CASE x < j
            BY <1>1, <1>2, <3>2, <6>2 DEF Ascending
          <6> QED BY <3>2, <5>3, <6>1, <6>2
        <5> QED BY <1>2, <2>2, <3>2, <5>1, <5>4
      <4> QED BY <4>1, <4>2
    <3> QED BY <2>4, <2>6, <3>1, <3>2, <3>3
  <2> QED BY <2>5, <2>6
<1> QED BY <1>1, <1>3, <1>4, <1>5 DEF Right

\* Decoding a block ends at its last byte.
LEMMA BlocksExactHolds ==
  ASSUME Built, BytesIInv, name = "varint-csr", phase = "ready"
  PROVE  BlocksExact
<1> SUFFICES ASSUME NEW u \in Vertex PROVE VC!Decode(u)[Degree(u)].rest = <<>>
  BY DEF BlocksExact
<1>1. VC!Decode(u)[VC!Degree(u)].rest = <<>>
  BY BlockRead
<1> QED BY <1>1 DEF Degree, Lists3

-----------------------------------------------------------------------------
(* Every structure. *)

\* The inductive invariant: what each structure is built from, and what it is.
IndexIInv ==
  /\ name \in Builders \cup {"slices"}
  /\ name \in Builders => Built
  /\ name \in Lists3 => ListsIInv
  /\ name = "edgelist" => KeysIInv
  /\ name = "bitmatrix" => MatrixIInv
  /\ name = "varint-csr" => BytesIInv
  /\ name = "slices" => phase = "build"

\* The invariant of all structures holds at first,
LEMMA IndexInit == Init => IndexIInv
<1> SUFFICES ASSUME Init PROVE IndexIInv
  OBVIOUS
<1>1. name \in Builders \cup {"slices"} /\ (name = "slices" => phase = "build")
  BY DEF Init, Builders, Lists3
<1>2. name \in Builders => Built
  BY BuiltInit
<1>3. name \in Lists3 => ListsIInv
  BY <1>2, ListsInit DEF Builders
<1>4. name \in {"edgelist", "bitmatrix", "varint-csr"} => phase = "build"
  BY DEF Init, Lists3
<1>5. name = "edgelist" => KeysIInv
  BY <1>4 DEF KeysIInv
<1>6. name = "bitmatrix" => MatrixIInv
  BY <1>4 DEF MatrixIInv, Init, BM!Init
<1>7. name = "varint-csr" => BytesIInv
  <2> SUFFICES ASSUME name = "varint-csr" PROVE BytesIInv
    OBVIOUS
  <2>1. offsets = <<>> /\ data = <<>> /\ phase = "build"
    BY <1>4 DEF Init, VC!Init
  <2>2. n \in Nat
    BY <1>2 DEF Builders, Built
  <2>3. offsets \in Seq(Nat) /\ data \in Seq(Int) /\ Len(offsets) = 0
    BY <2>1
  <2>4. \A u \in Vertex : ~(u < 0)
    BY <2>2 DEF Vertex
  <2> QED BY <2>1, <2>2, <2>3, <2>4 DEF BytesIInv
<1> QED BY <1>1, <1>2, <1>3, <1>5, <1>6, <1>7 DEF IndexIInv

\* every step keeps it,
LEMMA IndexNext == IndexIInv /\ [Next]_vars => IndexIInv'
<1> SUFFICES ASSUME IndexIInv, [Next]_vars PROVE IndexIInv'
  OBVIOUS
<1>1. n' = n /\ list' = list /\ edges' = edges /\ name' = name
  BY Unchanging
<1>2. name' \in Builders \cup {"slices"} /\ (name' \in Builders => Built')
  BY <1>1, BuiltNext DEF IndexIInv
<1>3. name' \in Lists3 => ListsIInv'
  <2> SUFFICES ASSUME name \in Lists3 PROVE ListsIInv'
    BY <1>1
  <2>1. AL!Next \/ UNCHANGED vars
    BY DEF Next, Lists3
  <2> QED BY <1>1, <2>1, ListsNext DEF IndexIInv, Builders
<1>4. name' = "edgelist" => KeysIInv'
  <2> SUFFICES ASSUME name = "edgelist" PROVE KeysIInv'
    BY <1>1
  <2>1. EL!Next \/ UNCHANGED vars
    BY DEF Next, Lists3
  <2> QED BY <1>1, <2>1, KeysNext DEF IndexIInv, Builders
<1>5. name' = "bitmatrix" => MatrixIInv'
  <2> SUFFICES ASSUME name = "bitmatrix" PROVE MatrixIInv'
    BY <1>1
  <2>1. BM!Next \/ UNCHANGED vars
    BY DEF Next, Lists3
  <2> QED BY <1>1, <2>1, MatrixNext DEF IndexIInv, Builders
<1>6. name' = "varint-csr" => BytesIInv'
  <2> SUFFICES ASSUME name = "varint-csr" PROVE BytesIInv'
    BY <1>1
  <2>1. VC!Next \/ UNCHANGED vars
    BY DEF Next, Lists3
  <2> QED BY <1>1, <2>1, BytesNext DEF IndexIInv, Builders
<1>7. name' = "slices" => phase' = "build"
  <2> SUFFICES ASSUME name = "slices" PROVE phase' = "build"
    BY <1>1
  <2>1. UNCHANGED phase
    BY DEF Next, Lists3, shared, vars
  <2> QED BY <2>1 DEF IndexIInv
<1> QED BY <1>2, <1>3, <1>4, <1>5, <1>6, <1>7 DEF IndexIInv

\* and so it always holds.
LEMMA IndexInvariant == Spec => []IndexIInv
<1>1. Init => IndexIInv
  BY IndexInit
<1>2. IndexIInv /\ [Next]_vars => IndexIInv'
  BY IndexNext
<1> QED BY <1>1, <1>2, PTL DEF Spec

\* Every structure, built from any list of edges over any number of vertices that a key can
\* hold, answers as the list does: Degree, AppendNeighbors and HasEdge of the sorted edge
\* list, the gap-coded blocks, the bit matrix and the three adjacency lists agree.
THEOREM ContractCorrect == Spec => []ContractHolds
<1>1. IndexIInv => ContractHolds
  <2> SUFFICES ASSUME IndexIInv PROVE ContractHolds
    OBVIOUS
  <2>1. CASE phase # "ready"
    BY <2>1 DEF ContractHolds
  <2>2. CASE phase = "ready"
    <3>1. name \in Builders /\ Built
      BY <2>2 DEF IndexIInv
    <3>2. ASSUME NEW u \in Vertex
          PROVE  Right(u)
      <4>1. CASE name \in Lists3
        BY <2>2, <3>1, <4>1, ListsRight DEF IndexIInv
      <4>2. CASE name = "edgelist"
        BY <2>2, <3>1, <4>2, KeysRight DEF IndexIInv
      <4>3. CASE name = "bitmatrix"
        BY <2>2, <3>1, <4>3, MatrixRight DEF IndexIInv
      <4>4. CASE name = "varint-csr"
        BY <2>2, <3>1, <4>4, BytesRight DEF IndexIInv
      <4> QED BY <3>1, <4>1, <4>2, <4>3, <4>4 DEF Builders
    <3> QED BY <3>2, RightHolds
  <2> QED BY <2>1, <2>2
<1> QED BY <1>1, IndexInvariant, PTL

\* No structure holds more than it needs: the blocks of varint-csr leave no byte between
\* them, a matrix has one bit for each pair and is refused exactly above its limit, and the
\* exact lists are full and were never moved.
THEOREM SizesCorrect == Spec => []SizesExact
<1>1. IndexIInv => SizesExact
  <2> SUFFICES ASSUME IndexIInv PROVE SizesExact
    OBVIOUS
  <2>1. name = "varint-csr" /\ phase = "ready" => BlocksExact
    BY BlocksExactHolds DEF IndexIInv, Builders
  <2>2. name = "bitmatrix" => MatrixExact
    BY MatrixExactHolds DEF IndexIInv, Builders
  <2>3. name = "adjlist-exact" => ListsExact
    BY ListsExactHolds DEF IndexIInv, Builders, Lists3
  <2> QED BY <2>1, <2>2, <2>3 DEF SizesExact
<1> QED BY <1>1, IndexInvariant, PTL

-----------------------------------------------------------------------------
(* The iteration. *)

\* s lists the neighbours of the asked vertex.
Listing(s) ==
  /\ s \in Seq(Int) /\ IsInjective(s) /\ Ascending(s)
  /\ Range(s) = {v \in Vertex : Linked(list, asked, v)}

\* The callback has received the beginning of s.
Received(s) ==
  /\ sent \in Seq(Int) /\ Len(sent) <= Len(s)
  /\ \A j \in 1 .. Len(sent) : sent[j] = s[j]

\* Where the loop of a list stands,
ListsAt(s) == AL!Neighbors(asked) = s /\ at = Len(sent)

\* that of edgelist: so far behind the lower bound,
KeysAt(s) ==
  \E lo \in Nat :
    /\ at = lo + Len(sent) /\ lo + Len(s) <= Len(keys)
    /\ \A j \in 1 .. Len(keys) : Source(keys[j]) = asked <=> lo < j /\ j <= lo + Len(s)
    /\ \A j \in 1 .. Len(s) : Target(keys[lo + j]) = s[j]

\* that of varint-csr: before the bytes of the gaps that are left,
BytesAt(s) ==
  /\ left = Len(s) - Len(sent)
  /\ Len(sent) > 0 => cur = s[Len(sent)]
  /\ Gaps(s) /\ \E g : Tails(g, s) /\ block = g[Len(sent)]

\* and that of bitmatrix: what was not received is in the bits left of a word and in the
\* words after it, what was received in that word and those before it.
WordsAt(s) ==
  /\ i \in 0 .. (BM!wordsPerRow - 1)
  /\ w = {s[j] % WordBits : j \in {k \in 1 .. Len(s) : k > Len(sent) /\ s[k] \div WordBits = i}}
  /\ \A j \in 1 .. Len(s) : IF j <= Len(sent) THEN s[j] \div WordBits <= i ELSE s[j] \div WordBits >= i

Stands(s) ==
  /\ name \in Lists3 => ListsAt(s)
  /\ name = "edgelist" => KeysAt(s)
  /\ name = "varint-csr" => BytesAt(s)
  /\ name = "bitmatrix" => WordsAt(s)

\* A loop starts at the beginning, and what it has delivered is the beginning of what the
\* index lists.
WalkIInv ==
  /\ phase \notin {"running", "returned"} => sent = <<>> /\ i = 0
  /\ phase = "ready" /\ name \in Lists3 => at = 0
  /\ phase = "running" => asked \in Vertex /\ \E s : Listing(s) /\ Received(s) /\ Stands(s)

\* What is left of a listing: nothing when all was received, otherwise the next item is the
\* smallest one.
LEMMA NextLeft ==
  ASSUME Built, NEW s, Listing(s), Received(s)
  PROVE  /\ Len(sent) \in Nat /\ Len(s) \in Nat /\ Len(sent) <= Len(s)
         /\ Len(sent) = Len(s) => Iter!Left = {}
         /\ Len(sent) < Len(s) => Iter!Left # {} /\ Iter!Min(Iter!Left) = s[Len(sent) + 1]
<1>1. PICK c \in Nat, r \in Nat :
        /\ c = Len(s) /\ DOMAIN s = 1 .. c /\ \A j \in 1 .. c : s[j] \in Int
        /\ r = Len(sent) /\ DOMAIN sent = 1 .. r /\ r <= c /\ \A j \in 1 .. r : sent[j] = s[j]
  BY DEF Listing, Received
<1>2. PICK L : L = Iter!Left
  OBVIOUS
<1>3. \A v : v \in {x \in 0 .. (n - 1) : Iter!Linked(edges, asked, x)} <=> \E j \in 1 .. c : s[j] = v
  <2>1. \A v : Iter!Linked(edges, asked, v) <=> Linked(list, asked, v)
    BY EdgeFacts DEF Iter!Linked
  <2>2. \A v : v \in Range(s) <=> v \in Vertex /\ Linked(list, asked, v)
    BY DEF Listing
  <2>3. \A v : v \in Range(s) <=> \E j \in 1 .. c : s[j] = v
    BY <1>1 DEF Range
  <2> QED BY <2>1, <2>2, <2>3 DEF Vertex
<1>4. \A v : v \in Iter!Range(sent) <=> \E j \in 1 .. r : s[j] = v
  BY <1>1 DEF Iter!Range
<1>5. \A j, k \in 1 .. c : s[j] = s[k] => j = k
  BY <1>1 DEF Listing, IsInjective
<1>6. \A v : v \in L <=> \E j \in 1 .. c : r < j /\ s[j] = v
  <2>1. \A v : v \in L <=> (\E j \in 1 .. c : s[j] = v) /\ ~(\E j \in 1 .. r : s[j] = v)
    BY <1>2, <1>3, <1>4 DEF Iter!Left
  <2>2. ASSUME NEW j \in 1 .. c
        PROVE  (\E k \in 1 .. r : s[k] = s[j]) <=> ~(r < j)
    <3>1. \A k \in 1 .. r : k \in 1 .. c
      BY <1>1
    <3>2. ~(r < j) => j \in 1 .. r
      OBVIOUS
    <3> QED BY <1>5, <3>1, <3>2
  <2> QED BY <2>1, <2>2
<1>7. r = c => L = {}
  <2>1. r = c => \A j \in 1 .. c : ~(r < j)
    OBVIOUS
  <2> QED BY <1>6, <2>1
<1>8. ASSUME r < c
      PROVE  L # {} /\ Iter!Min(L) = s[r + 1]
  <2>1. PICK x \in Int : x = s[r + 1] /\ x \in L
    <3>1. r + 1 \in 1 .. c /\ r < r + 1
      BY <1>8
    <3> QED BY <1>1, <1>6, <3>1
  <2>2. \A v \in L : v \in Int /\ x <= v
    <3> SUFFICES ASSUME NEW v \in L PROVE v \in Int /\ x <= v
      OBVIOUS
    <3>1. PICK j \in 1 .. c : r < j /\ s[j] = v
      BY <1>6
    <3>2. r + 1 \in 1 .. c /\ (r + 1 = j \/ r + 1 < j)
      BY <3>1
    <3>3. r + 1 < j => s[r + 1] <= s[j]
      BY <1>1, <3>2 DEF Listing, Ascending
    <3> QED BY <1>1, <2>1, <3>1, <3>2, <3>3
  <2>3. \A y \in L : (\A v \in L : y <= v) => y = x
    <3> SUFFICES ASSUME NEW y \in L, \A v \in L : y <= v PROVE y = x
      OBVIOUS
    <3>1. y <= x /\ x <= y /\ y \in Int
      BY <2>1, <2>2
    <3> QED BY <3>1
  <2>4. Iter!Min(L) = CHOOSE y \in L : \A v \in L : y <= v
    BY DEF Iter!Min
  <2> QED BY <2>1, <2>2, <2>3, <2>4
<1> QED BY <1>1, <1>2, <1>7, <1>8

\* A call of the callback with the next item is a step of the iteration.
LEMMA DeliverStep ==
  ASSUME Built, NEW s, Listing(s), Received(s), Len(sent) < Len(s), phase = "running",
         n' = n, edges' = edges, list' = list, asked' = asked,
         sent' = Append(sent, s[Len(sent) + 1]), more' \in BOOLEAN,
         phase' = IF more' THEN "running" ELSE "returned"
  PROVE  Iter!Next /\ Listing(s)' /\ Received(s)' /\ Len(sent') = Len(sent) + 1
<1>1. Iter!Left # {} /\ Iter!Min(Iter!Left) = s[Len(sent) + 1]
  BY NextLeft
<1>2. Iter!Deliver
  BY <1>1 DEF Iter!Deliver
<1>3. PICK c \in Nat, r \in Nat : /\ c = Len(s) /\ \A j \in 1 .. c : s[j] \in Int
                                  /\ r = Len(sent) /\ r < c /\ sent \in Seq(Int)
  BY DEF Listing, Received
<1>4. PICK x \in Int : x = s[r + 1]
  BY <1>3
<1>5. /\ sent' \in Seq(Int) /\ Len(sent') = r + 1 /\ sent'[r + 1] = x
      /\ \A j \in 1 .. r : sent'[j] = sent[j]
  BY <1>3, <1>4
<1>6. Received(s)'
  <2>1. \A j \in 1 .. (r + 1) : sent'[j] = s[j]
    <3>1. \A j \in 1 .. (r + 1) : j \in 1 .. r \/ j = r + 1
      OBVIOUS
    <3>2. \A j \in 1 .. r : sent[j] = s[j]
      BY <1>3 DEF Received
    <3> QED BY <1>4, <1>5, <3>1, <3>2
  <2> QED BY <1>3, <1>5, <2>1 DEF Received
<1>7. Listing(s)'
  BY DEF Listing, Vertex
<1> QED BY <1>2, <1>3, <1>5, <1>6, <1>7 DEF Iter!Next

\* So is the end of the loop when there is nothing left,
LEMMA LeaveStep ==
  ASSUME Built, NEW s, Listing(s), Received(s), Len(sent) = Len(s), phase = "running",
         phase' = "returned", UNCHANGED <<n, edges, asked, sent, more>>
  PROVE  Iter!Next
<1>1. Iter!Left = {}
  BY NextLeft
<1> QED BY <1>1 DEF Iter!Next, Iter!Exhausted

\* its beginning,
LEMMA AskStep ==
  ASSUME phase = "ready", phase' = "running", asked' \in Vertex, UNCHANGED <<n, edges, sent, more>>
  PROVE  Iter!Next
BY DEF Iter!Next, Iter!Ask, Vertex

\* and the last step of the constructor; its other steps leave the iteration as it was.
LEMMA BuildStep ==
  ASSUME phase \notin {"ready", "running", "returned"}, phase' \notin {"running", "returned"},
         UNCHANGED <<n, edges, asked, sent, more>>
  PROVE  [Iter!Next]_Iter!vars
BY DEF Iter!Next, Iter!Build, Iter!vars

\* At first, nothing of a listing was received.
LEMMA NothingReceived ==
  ASSUME NEW s, Listing(s), sent = <<>>
  PROVE  Received(s) /\ Len(sent) = 0
<1>1. sent \in Seq(Int) /\ Len(sent) = 0 /\ Len(s) \in Nat
  BY DEF Listing
<1> QED BY <1>1 DEF Received

\* The steps of a list deliver its items in order.
LEMMA ListsWalk ==
  ASSUME Built, ListsIInv, WalkIInv, name \in Lists3, AL!Next,
         UNCHANGED <<name, n, list, edges, i>>
  PROVE  WalkIInv' /\ [Iter!Next]_Iter!vars
<1>1. name' \in Lists3 /\ name' \notin {"edgelist", "varint-csr", "bitmatrix"}
  BY DEF Lists3
<1>2. Vertex' = Vertex
  BY DEF Vertex
<1>3. CASE AL!Allocate \/ AL!AppendEdge \/ AL!Appended \/ AL!SortList
  <2>1. /\ phase \in {"count", "append", "sort"} /\ phase' \in {"count", "append", "sort"}
        /\ UNCHANGED <<n, edges, asked, sent, more>>
    BY <1>3 DEF AL!Allocate, AL!AppendEdge, AL!Appended, AL!SortList, AL!index
  <2>2. [Iter!Next]_Iter!vars
    BY <2>1, BuildStep
  <2> QED BY <2>1, <2>2 DEF WalkIInv
<1>4. CASE AL!Done
  <2>1. phase = "sort" /\ phase' = "ready" /\ at' = 0 /\ UNCHANGED <<n, edges, asked, sent, more>>
    BY <1>4 DEF AL!Done, AL!index
  <2>2. [Iter!Next]_Iter!vars
    BY <2>1, BuildStep
  <2> QED BY <2>1, <2>2 DEF WalkIInv
<1>5. CASE AL!Ask
  <2>1. PICK u \in Vertex : /\ phase = "ready" /\ phase' = "running" /\ asked' = u
                            /\ UNCHANGED <<n, edges, sent, more, adj, at>>
    BY <1>5 DEF AL!Ask, AL!Vertex, AL!index, Vertex
  <2>2. PICK s \in Seq(Int) : /\ IsInjective(s) /\ Ascending(s)
                              /\ Range(s) = {v \in Vertex : Linked(list, u, v)}
                              /\ AppendNeighbors(u) = s
    BY <2>1, ListsRight DEF Right
  <2>3. Listing(s)'
    BY <1>2, <2>1, <2>2 DEF Listing
  <2>4. sent' = <<>> /\ at' = 0
    BY <2>1 DEF WalkIInv
  <2>5. Received(s)' /\ Len(sent') = 0
    <3>1. sent' \in Seq(Int) /\ Len(sent') = 0 /\ Len(s) \in Nat
      BY <2>4
    <3> QED BY <3>1 DEF Received
  <2>6. AL!Neighbors(u)' = s
    <3>1. AL!Neighbors(u) = s
      BY <1>1, <2>2 DEF AppendNeighbors
    <3> QED BY <2>1, <3>1 DEF AL!Neighbors, AL!Entry, AL!Nil
  <2>7. ListsAt(s)'
    BY <2>1, <2>4, <2>5, <2>6 DEF ListsAt
  <2>8. Iter!Next
    BY <2>1, AskStep
  <2> QED BY <1>1, <1>2, <2>1, <2>3, <2>5, <2>7, <2>8 DEF WalkIInv, Stands
<1>6. CASE AL!Visit \/ AL!Leave
  <2>1. phase = "running" /\ UNCHANGED <<n, edges, asked, adj>>
    BY <1>6 DEF AL!Visit, AL!Leave, AL!index
  <2>2. PICK s : Listing(s) /\ Received(s) /\ AL!Neighbors(asked) = s /\ at = Len(sent)
    BY <2>1 DEF WalkIInv, Stands, ListsAt
  <2>3. AL!Degree(asked) = Len(s) /\ Len(sent) \in Nat /\ Len(s) \in Nat /\ Len(sent) <= Len(s)
    BY <2>2, NextLeft DEF AL!Degree
  <2>4. CASE AL!Visit
    <3>1. /\ Len(sent) < Len(s) /\ sent' = Append(sent, s[Len(sent) + 1]) /\ at' = at + 1
          /\ more' \in BOOLEAN /\ phase' = IF more' THEN "running" ELSE "returned"
      BY <2>2, <2>3, <2>4 DEF AL!Visit
    <3>2. Iter!Next /\ Listing(s)' /\ Received(s)' /\ Len(sent') = Len(sent) + 1
      BY <2>1, <2>2, <3>1, DeliverStep
    <3>3. AL!Neighbors(asked)' = s
      BY <2>1, <2>2 DEF AL!Neighbors, AL!Entry, AL!Nil
    <3>4. ListsAt(s)'
      BY <2>2, <3>1, <3>2, <3>3 DEF ListsAt
    <3>5. asked' \in Vertex' /\ phase' \in {"running", "returned"}
      BY <1>2, <2>1, <3>1 DEF WalkIInv
    <3> QED BY <1>1, <3>2, <3>4, <3>5 DEF WalkIInv, Stands
  <2>5. CASE AL!Leave
    <3>1. Len(sent) = Len(s) /\ phase' = "returned" /\ UNCHANGED <<sent, more>>
      BY <2>2, <2>3, <2>5 DEF AL!Leave
    <3>2. Iter!Next
      BY <2>1, <2>2, <3>1, LeaveStep
    <3> QED BY <3>1, <3>2 DEF WalkIInv
  <2> QED BY <1>6, <2>4, <2>5
<1>7. CASE AL!Stay
  <2>1. UNCHANGED <<asked, sent, more, phase, at, adj>>
    BY <1>7 DEF AL!Stay, AL!vars, AL!index
  <2>2. UNCHANGED Iter!vars
    BY <2>1 DEF Iter!vars
  <2>3. phase \in {"ready", "returned"}
    BY <1>7 DEF AL!Stay
  <2> QED BY <2>1, <2>2, <2>3 DEF WalkIInv
<1> QED BY <1>3, <1>4, <1>5, <1>6, <1>7 DEF AL!Next

\* So do those over the keys of a block.
LEMMA KeysWalk ==
  ASSUME Built, KeysIInv, WalkIInv, name = "edgelist", EL!Next,
         UNCHANGED <<name, n, list, edges, i>>
  PROVE  WalkIInv' /\ [Iter!Next]_Iter!vars
<1>1. name' = "edgelist" /\ name' \notin Lists3 \cup {"varint-csr", "bitmatrix"}
  BY DEF Lists3
<1>2. Vertex' = Vertex
  BY DEF Vertex
<1>3. CASE EL!NewSortedEdgeList
  <2>1. phase = "build" /\ phase' = "ready" /\ UNCHANGED <<n, edges, asked, sent, more>>
    BY <1>3 DEF EL!NewSortedEdgeList
  <2>2. [Iter!Next]_Iter!vars
    BY <2>1, BuildStep
  <2> QED BY <1>1, <2>1, <2>2 DEF WalkIInv
<1>4. CASE EL!Ask
  <2>1. PICK u \in Vertex : /\ phase = "ready" /\ phase' = "running" /\ asked' = u /\ at' = EL!lowerBound(u)
                            /\ UNCHANGED <<n, edges, keys, sent, more>>
    BY <1>4 DEF EL!Ask, EL!Vertex, Vertex
  <2>2. PICK s \in Seq(Int) : /\ IsInjective(s) /\ Ascending(s)
                              /\ Range(s) = {v \in Vertex : Linked(list, u, v)}
                              /\ AppendNeighbors(u) = s /\ Len(s) \in Nat
    BY <2>1, KeysRight DEF Right
  <2>3. PICK l \in Nat, lo \in Nat, hi \in Nat :
          /\ l = Len(keys) /\ lo = EL!lowerBound(u) /\ hi = EL!BlockEnd(u) /\ lo <= hi /\ hi <= l
          /\ \A j \in 1 .. l : Source(keys[j]) = u <=> lo < j /\ j <= hi
    <3>1. PICK l \in Nat : l = Len(keys)
      BY <2>1, SortedKeys
    <3>2. PICK lo \in 0 .. l, hi \in 0 .. l :
            /\ lo = EL!lowerBound(u) /\ hi = EL!BlockEnd(u) /\ lo <= hi
            /\ \A j \in 1 .. l : Source(keys[j]) = u <=> lo < j /\ j <= hi
      BY <2>1, <3>1, BlockFacts
    <3> QED BY <3>1, <3>2
  <2>4. s = [j \in 1 .. (hi - lo) |-> Target(keys[lo + j])]
    <3>1. EL!AppendNeighbors(<<>>, u) = <<>> \o [j \in 1 .. (hi - lo) |-> Target(keys[lo + j])]
      BY <2>3, KeyOperators DEF EL!AppendNeighbors
    <3>2. PICK d \in Nat : d = hi - lo
      BY <2>3
    <3>3. PICK t : t = <<>> \o t /\ t = [j \in 1 .. d |-> Target(keys[lo + j])]
      <4>1. PICK t : t = [j \in 1 .. d |-> Target(keys[lo + j])]
        OBVIOUS
      <4>2. \A j \in 1 .. d : t[j] \in Int
        <5>1. \A j \in 1 .. d : lo + j \in 1 .. l
          BY <2>3, <3>2
        <5>2. \A j \in 1 .. l : Target(keys[j]) \in Vertex
          BY <2>1, <2>3, SortedKeys
        <5>3. \A v \in Vertex : v \in Int
          BY EdgeFacts DEF Vertex
        <5> QED BY <4>1, <5>1, <5>2, <5>3
      <4>3. DOMAIN t = 1 .. d /\ t = [j \in 1 .. d |-> t[j]]
        BY <4>1
      <4>4. t \in Seq(Int)
        BY <4>2, <4>3
      <4>5. <<>> \o t = t
        BY <4>4, ConcatEmptySeq
      <4> QED BY <4>1, <4>5
    <3>4. EL!AppendNeighbors(<<>>, u) = s
      BY <1>1, <2>2 DEF AppendNeighbors, Lists3
    <3> QED BY <3>1, <3>2, <3>3, <3>4
  <2>5. Len(s) = hi - lo /\ \A j \in 1 .. Len(s) : Target(keys[lo + j]) = s[j]
    BY <2>3, <2>4
  <2>6. Listing(s)'
    BY <1>2, <2>1, <2>2 DEF Listing
  <2>7. sent' = <<>> /\ Len(sent') = 0 /\ sent' \in Seq(Int)
    BY <2>1 DEF WalkIInv
  <2>8. Received(s)'
    BY <2>2, <2>7 DEF Received
  <2>9. KeysAt(s)'
    <3>1. /\ at' = lo + Len(sent') /\ lo + Len(s) <= Len(keys')
          /\ \A j \in 1 .. Len(keys') : Source(keys'[j]) = asked' <=> lo < j /\ j <= lo + Len(s)
          /\ \A j \in 1 .. Len(s) : Target(keys'[lo + j]) = s[j]
      BY <2>1, <2>3, <2>5, <2>7
    <3> QED BY <3>1 DEF KeysAt, Source, Target
  <2>10. Iter!Next
    BY <2>1, AskStep
  <2> QED BY <1>1, <1>2, <2>1, <2>6, <2>8, <2>9, <2>10 DEF WalkIInv, Stands
<1>5. CASE EL!Visit \/ EL!Leave
  <2>1. phase = "running" /\ UNCHANGED <<n, edges, asked, keys>>
    BY <1>5 DEF EL!Visit, EL!Leave
  <2>2. PICK s : Listing(s) /\ Received(s) /\ KeysAt(s)
    BY <2>1 DEF WalkIInv, Stands
  <2>3. PICK c \in Nat, r \in Nat : c = Len(s) /\ r = Len(sent) /\ r <= c
    BY <2>2, NextLeft
  <2>4. PICK l \in Nat, lo \in Nat :
          /\ l = Len(keys) /\ at = lo + r /\ lo + c <= l
          /\ \A j \in 1 .. l : Source(keys[j]) = asked <=> lo < j /\ j <= lo + c
          /\ \A j \in 1 .. c : Target(keys[lo + j]) = s[j]
    BY <2>1, <2>2, <2>3, SortedKeys DEF KeysAt
  <2>5. EL!InBlock <=> r < c
    <3>1. EL!InBlock <=> at < l /\ Source(keys[at + 1]) = asked
      BY <2>4, KeyOperators DEF EL!InBlock
    <3>2. CASE at < l
      <4>1. at + 1 \in 1 .. l
        BY <2>4, <3>2
      <4>2. Source(keys[at + 1]) = asked <=> lo < at + 1 /\ at + 1 <= lo + c
        BY <2>4, <4>1
      <4> QED BY <2>4, <3>1, <3>2, <4>2
    <3>3. CASE ~(at < l)
      BY <2>4, <3>1, <3>3
    <3> QED BY <3>2, <3>3
  <2>6. CASE EL!Visit
    <3>1. r < c
      BY <2>5, <2>6 DEF EL!Visit
    <3>2. Target(keys[at + 1]) = s[r + 1]
      <4>1. r + 1 \in 1 .. c /\ lo + (r + 1) = at + 1
        BY <2>4, <3>1
      <4>2. \A j \in 1 .. c : Target(keys[lo + j]) = s[j]
        BY <2>4
      <4> QED BY <4>1, <4>2
    <3>3. /\ sent' = Append(sent, s[r + 1]) /\ more' \in BOOLEAN
          /\ phase' = IF more' THEN "running" ELSE "returned"
          /\ phase' = "running" => at' = at + 1
      BY <2>1, <2>6, <3>2, KeyOperators DEF EL!Visit
    <3>4. Iter!Next /\ Listing(s)' /\ Received(s)' /\ Len(sent') = r + 1
      BY <2>1, <2>2, <2>3, <3>1, <3>3, DeliverStep
    <3>5. ASSUME phase' = "running"
          PROVE  KeysAt(s)'
      <4>1. /\ at' = lo + Len(sent') /\ lo + Len(s) <= Len(keys')
            /\ \A j \in 1 .. Len(keys') : Source(keys'[j]) = asked' <=> lo < j /\ j <= lo + Len(s)
            /\ \A j \in 1 .. Len(s) : Target(keys'[lo + j]) = s[j]
        BY <2>1, <2>3, <2>4, <3>3, <3>4, <3>5
      <4> QED BY <4>1 DEF KeysAt, Source, Target
    <3>6. asked' \in Vertex' /\ phase' \in {"running", "returned"}
      BY <1>2, <2>1, <3>3 DEF WalkIInv
    <3> QED BY <1>1, <3>4, <3>5, <3>6 DEF WalkIInv, Stands
  <2>7. CASE EL!Leave
    <3>1. Len(sent) = Len(s) /\ phase' = "returned" /\ UNCHANGED <<sent, more>>
      BY <2>3, <2>5, <2>7 DEF EL!Leave
    <3>2. Iter!Next
      BY <2>1, <2>2, <3>1, LeaveStep
    <3> QED BY <3>1, <3>2 DEF WalkIInv
  <2> QED BY <1>5, <2>6, <2>7
<1>6. CASE EL!Stay
  <2>1. UNCHANGED <<asked, sent, more, phase, at, keys>> /\ phase \in {"ready", "returned"}
    BY <1>6 DEF EL!Stay, EL!vars
  <2>2. UNCHANGED Iter!vars
    BY <2>1 DEF Iter!vars
  <2> QED BY <1>1, <2>1, <2>2 DEF WalkIInv
<1> QED BY <1>3, <1>4, <1>5, <1>6 DEF EL!Next

\* So does the decoding loop of varint-csr, gap by gap.
LEMMA BytesWalk ==
  ASSUME Built, BytesIInv, WalkIInv, name = "varint-csr", VC!Next,
         UNCHANGED <<name, n, list, edges, i>>
  PROVE  WalkIInv' /\ [Iter!Next]_Iter!vars
<1>1. name' = "varint-csr" /\ name' \notin Lists3 \cup {"edgelist", "bitmatrix"}
  BY DEF Lists3
<1>2. Vertex' = Vertex
  BY DEF Vertex
<1>3. \A g, s : Tails(g, s)' <=> Tails(g, s)
  BY DEF Tails, Gap, VC!PutUvarint
<1>4. CASE VC!Encode \/ VC!Close
  <2>1. phase = "build" /\ phase' \in {"build", "ready"} /\ UNCHANGED <<n, edges, asked, sent, more>>
    BY <1>4 DEF VC!Encode, VC!Close
  <2>2. [Iter!Next]_Iter!vars
    BY <2>1, BuildStep
  <2> QED BY <1>1, <2>1, <2>2 DEF WalkIInv
<1>5. CASE VC!Ask
  <2>1. PICK u \in Vertex :
          /\ phase = "ready" /\ phase' = "running" /\ asked' = u
          /\ block' = VC!Uvarint(VC!Bytes(u)).rest /\ left' = VC!Uvarint(VC!Bytes(u)).value
          /\ UNCHANGED <<n, edges, sent, more>>
    BY <1>5 DEF VC!Ask, VC!Vertex, VC!index, Vertex
  <2>2. PICK s \in Seq(Int) : /\ IsInjective(s) /\ Ascending(s)
                              /\ Range(s) = {v \in Vertex : Linked(list, u, v)}
                              /\ Gaps(s) /\ VC!Bytes(u) = VC!Encoded(s)
    BY <2>1, BlockRead
  <2>3. PICK g : /\ Tails(g, s) /\ VC!Bytes(u) = VC!PutUvarint(Len(s)) \o g[0]
    BY <2>2, EncodedFacts
  <2>4. VC!Uvarint(VC!Bytes(u)) = [value |-> Len(s), rest |-> g[0]]
    <3>1. PICK c \in Nat : c = Len(s) /\ 0 \in 0 .. c
      BY <2>2
    <3>2. g[0] \in Seq(Int)
      BY <2>3, <3>1 DEF Tails
    <3>3. VC!Uvarint(VC!PutUvarint(c) \o g[0]) = [value |-> c, rest |-> g[0]]
      BY <3>2, RoundTrip
    <3> QED BY <2>3, <3>1, <3>3
  <2>5. Listing(s)'
    BY <1>2, <2>1, <2>2 DEF Listing
  <2>6. sent' = <<>> /\ Len(sent') = 0 /\ sent' \in Seq(Int) /\ Len(s) \in Nat
    BY <2>1, <2>2 DEF WalkIInv
  <2>7. Received(s)'
    BY <2>6 DEF Received
  <2>8. BytesAt(s)'
    <3>1. left' = Len(s) - Len(sent') /\ block' = g[Len(sent')] /\ ~(Len(sent') > 0)
      BY <2>1, <2>4, <2>6
    <3>2. Gaps(s)'
      BY <2>2 DEF Gaps, Gap
    <3> QED BY <1>3, <2>3, <3>1, <3>2 DEF BytesAt
  <2>9. Iter!Next
    BY <2>1, AskStep
  <2> QED BY <1>1, <1>2, <2>1, <2>5, <2>7, <2>8, <2>9 DEF WalkIInv, Stands
<1>6. CASE VC!Visit \/ VC!Leave
  <2>1. phase = "running" /\ UNCHANGED <<n, edges, asked>>
    BY <1>6 DEF VC!Visit, VC!Leave, VC!index
  <2>2. PICK s : Listing(s) /\ Received(s) /\ BytesAt(s)
    BY <2>1 DEF WalkIInv, Stands
  <2>3. PICK c \in Nat, r \in Nat : c = Len(s) /\ r = Len(sent) /\ r <= c
    BY <2>2, NextLeft
  <2>4. /\ left = c - r /\ Gaps(s) /\ (r > 0 => cur = s[r])
        /\ \A j \in 1 .. c : s[j] \in Int
    BY <2>2, <2>3 DEF BytesAt, Listing
  <2>5. PICK g : Tails(g, s) /\ block = g[r]
    BY <2>2, <2>3 DEF BytesAt
  <2>6. CASE VC!Visit
    <3>1. r < c /\ r + 1 \in 1 .. c /\ r + 1 \in 0 .. c /\ (r + 1) - 1 = r
      BY <2>3, <2>4, <2>6 DEF VC!Visit
    <3>2. VC!Uvarint(block) = [value |-> Gap(s, r + 1), rest |-> g[r + 1]]
      <4>1. block = VC!PutUvarint(Gap(s, r + 1)) \o g[r + 1] /\ g[r + 1] \in Seq(Int)
        BY <2>3, <2>5, <3>1 DEF Tails
      <4>2. Gap(s, r + 1) \in Nat
        BY <2>3, <2>4, <3>1 DEF Gaps
      <4> QED BY <4>1, <4>2, RoundTrip
    <3>3. sent = <<>> <=> r = 0
      BY <2>2, <2>3 DEF Received
    <3>4. cur' = s[r + 1]
      <4>1. cur' = IF r = 0 THEN Gap(s, r + 1) ELSE cur + Gap(s, r + 1)
        BY <2>6, <3>2, <3>3 DEF VC!Visit
      <4>2. CASE r = 0
        BY <4>1, <4>2 DEF Gap
      <4>3. CASE r # 0
        <5>1. r > 0 /\ r \in 1 .. c /\ s[r] \in Int /\ s[r + 1] \in Int /\ cur = s[r]
          BY <2>4, <3>1, <4>3
        <5>2. Gap(s, r + 1) = s[r + 1] - s[r]
          BY <3>1, <4>3 DEF Gap
        <5> QED BY <4>1, <4>3, <5>1, <5>2
      <4> QED BY <4>2, <4>3
    <3>5. /\ sent' = Append(sent, s[r + 1]) /\ more' \in BOOLEAN /\ block' = g[r + 1]
          /\ phase' = (IF more' THEN "running" ELSE "returned") /\ left' = left - 1
      BY <2>6, <3>2, <3>4 DEF VC!Visit
    <3>6. Iter!Next /\ Listing(s)' /\ Received(s)' /\ Len(sent') = r + 1
      BY <2>1, <2>2, <2>3, <3>1, <3>5, DeliverStep
    <3>7. BytesAt(s)'
      <4>1. left' = Len(s) - Len(sent') /\ cur' = s[Len(sent')] /\ block' = g[Len(sent')]
        BY <2>3, <2>4, <3>4, <3>5, <3>6
      <4>2. Gaps(s)'
        BY <2>4 DEF Gaps, Gap
      <4> QED BY <1>3, <2>5, <4>1, <4>2 DEF BytesAt
    <3>8. asked' \in Vertex' /\ phase' \in {"running", "returned"}
      BY <1>2, <2>1, <3>5 DEF WalkIInv
    <3> QED BY <1>1, <3>6, <3>7, <3>8 DEF WalkIInv, Stands
  <2>7. CASE VC!Leave
    <3>1. Len(sent) = Len(s) /\ phase' = "returned" /\ UNCHANGED <<sent, more>>
      BY <2>3, <2>4, <2>7 DEF VC!Leave
    <3>2. Iter!Next
      BY <2>1, <2>2, <3>1, LeaveStep
    <3> QED BY <3>1, <3>2 DEF WalkIInv
  <2> QED BY <1>6, <2>6, <2>7
<1>7. CASE VC!Stay
  <2>1. UNCHANGED <<asked, sent, more, phase>> /\ phase \in {"ready", "returned"}
    BY <1>7 DEF VC!Stay, VC!vars
  <2>2. UNCHANGED Iter!vars
    BY <2>1 DEF Iter!vars
  <2> QED BY <1>1, <2>1, <2>2 DEF WalkIInv
<1> QED BY <1>4, <1>5, <1>6, <1>7 DEF VC!Next

\* Of two vertices, the smaller one has the earlier word, or the lower bit in the same one.
LEMMA WordOrder ==
  ASSUME NEW c \in Nat \ {0}, NEW x \in Nat, NEW y \in Nat, x <= y
  PROVE  /\ x \div c \in Nat /\ y \div c \in Nat /\ x \div c <= y \div c
         /\ x \div c = y \div c => x % c <= y % c /\ (x # y => x % c # y % c)
<1>1. PICK a \in Nat, b \in 0 .. (c - 1) : a = x \div c /\ b = x % c /\ x = c * a + b
  BY DivisionFacts
<1>2. PICK d \in Nat, e \in 0 .. (c - 1) : d = y \div c /\ e = y % c /\ y = c * d + e
  BY DivisionFacts
<1>3. PICK p \in Nat, q \in Nat : p = a * c /\ q = d * c
  <2>1. a * c \in Nat /\ d * c \in Nat
    OBVIOUS
  <2> QED BY <2>1
<1>4. x = p + b /\ y = q + e
  <2>1. c * a = a * c /\ c * d = d * c
    OBVIOUS
  <2> QED BY <1>1, <1>2, <1>3, <2>1
<1>5. d < a => q + c <= p
  BY <1>3, Multiples
<1>6. a <= d
  BY <1>4, <1>5
<1>7. a = d => b <= e /\ (x # y => b # e)
  <2>1. a = d => p = q
    BY <1>3
  <2> QED BY <1>4, <2>1
<1> QED BY <1>1, <1>2, <1>6, <1>7

\* The bits of a word of the row are those of the neighbours in it.
LEMMA WordListed ==
  ASSUME Built, MatrixIInv, phase \notin {"build", "refused"}, NEW u \in Vertex,
         NEW s \in Seq(Int), Range(s) = {v \in Vertex : Linked(list, u, v)},
         NEW r \in Nat, r = BM!wordsPerRow, NEW k \in 0 .. (r - 1)
  PROVE  bits[u * r + k] = {s[j] % WordBits : j \in {x \in 1 .. Len(s) : s[x] \div WordBits = k}}
<1>1. \A b : b \in bits[u * r + k] <=>
               \E v \in Vertex : Linked(list, u, v) /\ v \div WordBits = k /\ v % WordBits = b
  BY WordFacts
<1>2. \A v : v \in Vertex /\ Linked(list, u, v) <=> \E j \in 1 .. Len(s) : s[j] = v
  <2>1. \A v : v \in Range(s) <=> \E j \in 1 .. Len(s) : s[j] = v
    BY DEF Range
  <2> QED BY <2>1
<1>3. ASSUME NEW b
      PROVE  (\E v \in Vertex : Linked(list, u, v) /\ v \div WordBits = k /\ v % WordBits = b)
             <=> \E j \in 1 .. Len(s) : s[j] \div WordBits = k /\ s[j] % WordBits = b
  BY <1>2
<1>4. \A b : b \in bits[u * r + k] <=> \E j \in 1 .. Len(s) : s[j] \div WordBits = k /\ s[j] % WordBits = b
  BY <1>1, <1>3
<1>5. \A b : b \in {s[j] % WordBits : j \in {x \in 1 .. Len(s) : s[x] \div WordBits = k}} <=>
               \E j \in 1 .. Len(s) : s[j] \div WordBits = k /\ s[j] % WordBits = b
  OBVIOUS
<1>6. \A b : b \in bits[u * r + k] <=> b \in {s[j] % WordBits : j \in {x \in 1 .. Len(s) : s[x] \div WordBits = k}}
  BY <1>4, <1>5
<1>7. PICK p \in 0 .. (n * r - 1) : p = u * r + k
  BY WordFacts
<1>8. bits[p] = {BM!Bit(e.to) : e \in {f \in Range(edges) : BM!At(f.from, f.to) = p}}
  BY DEF MatrixIInv
<1>9. PICK B, W : B = bits[p] /\ W = {s[j] % WordBits : j \in {x \in 1 .. Len(s) : s[x] \div WordBits = k}}
  OBVIOUS
<1>10. \A b : b \in B <=> b \in W
  BY <1>6, <1>7, <1>9
<1>11. B = W
  BY <1>8, <1>9, <1>10
<1> QED BY <1>7, <1>9, <1>11

\* What the callback has not received: the next item is in the word of the loop when a bit is
\* left there, and is its lowest one; otherwise it is in a later word.
LEMMA WordNext ==
  ASSUME Built, NEW s, Listing(s), Received(s), WordsAt(s), NEW c, c = WordBits
  PROVE  /\ w # {} => /\ Len(sent) < Len(s) /\ s[Len(sent) + 1] = i * c + BM!Min(w)
                      /\ BM!Min(w) = s[Len(sent) + 1] % c /\ s[Len(sent) + 1] \div c = i
         /\ w = {} => \A j \in 1 .. Len(s) : j > Len(sent) => s[j] \div c >= i + 1
<1>1. PICK l \in Nat, r \in Nat : /\ l = Len(s) /\ r = Len(sent) /\ r <= l
                                  /\ \A j \in 1 .. l : s[j] \in Nat /\ s[j] \in Vertex
  <2>1. DOMAIN s = 1 .. Len(s) /\ Range(s) \subseteq Vertex
    BY DEF Listing
  <2>2. \A j \in 1 .. Len(s) : s[j] \in Vertex
    BY <2>1 DEF Range
  <2>3. \A v \in Vertex : v \in Nat
    BY EdgeFacts DEF Vertex
  <2> QED BY <2>2, <2>3, NextLeft
<1>2. c \in Nat \ {0} /\ i \in Int
  BY IndexesAssumption, RowFacts, EdgeFacts DEF WordsAt
<1>3. /\ w = {s[j] % c : j \in {k \in 1 .. l : k > r /\ s[k] \div c = i}}
      /\ \A j \in 1 .. l : j > r => s[j] \div c >= i
  BY <1>1 DEF WordsAt
<1>4. \A j \in 1 .. l : s[j] \div c \in Nat /\ s[j] % c \in 0 .. (c - 1) /\ s[j] = (s[j] \div c) * c + (s[j] % c)
  <2> SUFFICES ASSUME NEW j \in 1 .. l
               PROVE  s[j] \div c \in Nat /\ s[j] % c \in 0 .. (c - 1) /\ s[j] = (s[j] \div c) * c + (s[j] % c)
    OBVIOUS
  <2>1. PICK x \in Nat : x = s[j]
    BY <1>1
  <2>2. x \div c \in Nat /\ x % c \in 0 .. (c - 1) /\ x = c * (x \div c) + (x % c)
    BY <1>2, DivisionFacts
  <2>3. c * (x \div c) = (x \div c) * c
    BY <1>2, <2>2
  <2> QED BY <2>1, <2>2, <2>3
<1>5. ASSUME w # {}
      PROVE  /\ r < l /\ s[r + 1] = i * c + BM!Min(w)
             /\ BM!Min(w) = s[r + 1] % c /\ s[r + 1] \div c = i
  <2>1. PICK k \in 1 .. l : k > r /\ s[k] \div c = i
    BY <1>3, <1>5
  <2>2. r < l /\ r + 1 \in 1 .. l /\ r + 1 > r
    BY <2>1
  <2>3. \A j \in 1 .. l : j > r => s[r + 1] <= s[j]
    <3> SUFFICES ASSUME NEW j \in 1 .. l, j > r PROVE s[r + 1] <= s[j]
      OBVIOUS
    <3>1. r + 1 = j \/ r + 1 < j
      OBVIOUS
    <3>2. r + 1 < j => s[r + 1] <= s[j]
      BY <1>1, <2>2 DEF Listing, Ascending
    <3> QED BY <1>1, <3>1, <3>2
  <2>4. s[r + 1] \div c = i
    <3>1. s[r + 1] \div c <= s[k] \div c
      BY <1>1, <1>2, <2>1, <2>2, <2>3, WordOrder
    <3>2. s[r + 1] \div c >= i /\ s[r + 1] \div c \in Nat
      BY <1>3, <1>4, <2>2
    <3> QED BY <1>2, <2>1, <3>1, <3>2
  <2>5. PICK x \in 0 .. (c - 1) : x = s[r + 1] % c /\ x \in w
    <3>1. s[r + 1] % c \in w
      BY <1>3, <2>2, <2>4
    <3> QED BY <1>4, <2>2, <3>1
  <2>6. \A y \in w : y \in Int /\ x <= y
    <3> SUFFICES ASSUME NEW y \in w PROVE y \in Int /\ x <= y
      OBVIOUS
    <3>1. PICK j \in 1 .. l : j > r /\ s[j] \div c = i /\ y = s[j] % c
      BY <1>3
    <3>2. s[r + 1] % c <= s[j] % c
      BY <1>1, <1>2, <2>2, <2>3, <2>4, <3>1, WordOrder
    <3> QED BY <1>2, <1>4, <2>5, <3>1, <3>2
  <2>7. BM!Min(w) = x
    <3>1. \A y \in w : (\A v \in w : y <= v) => y = x
      <4> SUFFICES ASSUME NEW y \in w, \A v \in w : y <= v PROVE y = x
        OBVIOUS
      <4>1. y <= x /\ x <= y /\ y \in Int
        BY <2>5, <2>6
      <4> QED BY <1>2, <4>1
    <3>2. BM!Min(w) = CHOOSE y \in w : \A v \in w : y <= v
      BY DEF BM!Min
    <3> QED BY <2>5, <2>6, <3>1, <3>2
  <2>8. s[r + 1] = i * c + x
    BY <1>4, <2>2, <2>4, <2>5
  <2> QED BY <2>2, <2>4, <2>5, <2>7, <2>8
<1>6. ASSUME w = {}, NEW j \in 1 .. l, j > r
      PROVE  s[j] \div c >= i + 1
  <2>1. s[j] \div c # i
    BY <1>3, <1>6
  <2>2. s[j] \div c >= i /\ s[j] \div c \in Nat
    BY <1>3, <1>4, <1>6
  <2> QED BY <1>2, <2>1, <2>2
<1> QED BY <1>1, <1>5, <1>6

\* The bit of the item that was delivered is cleared.
LEMMA WordCleared ==
  ASSUME Built, NEW s, Listing(s), Received(s), WordsAt(s), w # {}, w' = w \ {BM!Min(w)},
         UNCHANGED <<n, i>>, Len(sent') = Len(sent) + 1
  PROVE  WordsAt(s)'
<1>1. PICK c \in Nat \ {0} : c = WordBits
  BY IndexesAssumption
<1>2. PICK l \in Nat, r \in Nat : /\ l = Len(s) /\ r = Len(sent) /\ r < l
                                  /\ BM!Min(w) = s[r + 1] % c /\ s[r + 1] \div c = i
  BY <1>1, NextLeft, WordNext
<1>3. /\ w = {s[j] % c : j \in {k \in 1 .. l : k > r /\ s[k] \div c = i}}
      /\ \A j \in 1 .. l : IF j <= r THEN s[j] \div c <= i ELSE s[j] \div c >= i
      /\ i \in 0 .. (BM!wordsPerRow - 1)
  BY <1>1, <1>2 DEF WordsAt
<1>4. \A j \in 1 .. l : s[j] \in Nat
  <2>1. DOMAIN s = 1 .. Len(s) /\ Range(s) \subseteq Vertex
    BY DEF Listing
  <2>2. \A j \in 1 .. Len(s) : s[j] \in Vertex
    BY <2>1 DEF Range
  <2>3. \A v \in Vertex : v \in Nat
    BY EdgeFacts DEF Vertex
  <2> QED BY <1>2, <2>2, <2>3
<1>5. \A j \in 1 .. l : j > r + 1 /\ s[j] \div c = i => s[j] % c # s[r + 1] % c
  <2> SUFFICES ASSUME NEW j \in 1 .. l, j > r + 1, s[j] \div c = i PROVE s[j] % c # s[r + 1] % c
    OBVIOUS
  <2>1. r + 1 \in 1 .. l /\ r + 1 < j /\ DOMAIN s = 1 .. l
    BY <1>2 DEF Listing
  <2>2. s[r + 1] <= s[j] /\ s[r + 1] # s[j]
    BY <2>1, SMTT(30) DEF Listing, Ascending, IsInjective
  <2>3. s[r + 1] \in Nat /\ s[j] \in Nat
    BY <1>4, <2>1
  <2> QED BY <1>2, <2>2, <2>3, WordOrder
<1>6. w' = {s[j] % c : j \in {k \in 1 .. l : k > r + 1 /\ s[k] \div c = i}}
  <2>1. \A j \in 1 .. l : j > r <=> j = r + 1 \/ j > r + 1
    OBVIOUS
  <2>2. PICK W : W = {s[j] % c : j \in {k \in 1 .. l : k > r + 1 /\ s[k] \div c = i}}
    OBVIOUS
  <2>3. \A b : b \in W <=> \E j \in 1 .. l : j > r + 1 /\ s[j] \div c = i /\ b = s[j] % c
    BY <2>2
  <2>4. \A b : b \in w <=> \E j \in 1 .. l : j > r /\ s[j] \div c = i /\ b = s[j] % c
    BY <1>3
  <2>5. \A b : b \in w' <=> b \in w /\ b # s[r + 1] % c
    BY <1>2
  <2>6. \A b : b \in w' <=> b \in W
    BY <1>5, <2>1, <2>3, <2>4, <2>5
  <2>7. w' = W
    BY <2>2, <2>6
  <2> QED BY <2>2, <2>7
<1>7. \A j \in 1 .. l : IF j <= r + 1 THEN s[j] \div c <= i ELSE s[j] \div c >= i
  <2> SUFFICES ASSUME NEW j \in 1 .. l
               PROVE  IF j <= r + 1 THEN s[j] \div c <= i ELSE s[j] \div c >= i
    OBVIOUS
  <2>1. CASE j = r + 1
    <3>1. i \in Int
      BY <1>3, RowFacts, EdgeFacts
    <3> QED BY <1>2, <2>1, <3>1
  <2>2. CASE j # r + 1
    <3>1. j <= r + 1 <=> j <= r
      BY <2>2
    <3> QED BY <1>3, <3>1
  <2> QED BY <2>1, <2>2
<1>8. BM!wordsPerRow' = BM!wordsPerRow /\ i' = i /\ Len(sent') = r + 1
  <2>1. BM!wordsPerRow' = BM!wordsPerRow
    BY DEF BM!wordsPerRow
  <2> QED BY <1>2, <2>1
<1>9. i' \in 0 .. (BM!wordsPerRow' - 1)
  BY <1>3, <1>8
<1>10. w' = {s[j] % WordBits : j \in {k \in 1 .. Len(s) : k > Len(sent') /\ s[k] \div WordBits = i'}}
  BY <1>1, <1>2, <1>6, <1>8
<1>11. \A j \in 1 .. Len(s) :
         IF j <= Len(sent') THEN s[j] \div WordBits <= i' ELSE s[j] \div WordBits >= i'
  BY <1>1, <1>2, <1>7, <1>8
<1> QED BY <1>9, <1>10, <1>11 DEF WordsAt

\* So do the loops over the words of a row and over their bits.
LEMMA WordsWalk ==
  ASSUME Built, MatrixIInv, WalkIInv, name = "bitmatrix", BM!Next,
         UNCHANGED <<name, n, list, edges>>
  PROVE  WalkIInv' /\ [Iter!Next]_Iter!vars
<1>1. name' = "bitmatrix" /\ name' \notin Lists3 \cup {"edgelist", "varint-csr"}
  BY DEF Lists3
<1>2. Vertex' = Vertex /\ BM!wordsPerRow' = BM!wordsPerRow
  BY DEF Vertex, BM!wordsPerRow
<1>3. PICK c \in Nat \ {0} : c = WordBits
  BY IndexesAssumption
<1>4. PICK r \in Nat : r = BM!wordsPerRow /\ \A v \in Vertex : v \div c \in 0 .. (r - 1)
  BY <1>3, EdgeFacts, RowFacts
<1>5. CASE BM!Refuse \/ BM!NewBitMatrix
  <2>1. /\ phase = "build" /\ phase' \in {"refused", "ready"}
        /\ UNCHANGED <<n, edges, asked, sent, more, i>>
    BY <1>5 DEF BM!Refuse, BM!NewBitMatrix, BM!index
  <2>2. [Iter!Next]_Iter!vars
    BY <2>1, BuildStep
  <2> QED BY <1>1, <2>1, <2>2 DEF WalkIInv
<1>6. CASE BM!Ask
  <2>1. PICK u \in Vertex : /\ phase = "ready" /\ phase' = "running" /\ asked' = u /\ w' = bits[u * r]
                            /\ UNCHANGED <<n, edges, sent, more, i>>
    BY <1>4, <1>6 DEF BM!Ask, BM!Vertex, BM!index, Vertex
  <2>2. PICK s \in Seq(Int) : /\ IsInjective(s) /\ Ascending(s)
                              /\ Range(s) = {v \in Vertex : Linked(list, u, v)}
    BY <2>1, MatrixRight DEF Right
  <2>3. Listing(s)'
    BY <1>2, <2>1, <2>2 DEF Listing
  <2>4. sent' = <<>> /\ Len(sent') = 0 /\ sent' \in Seq(Int) /\ Len(s) \in Nat /\ i' = 0
    BY <2>1, <2>2 DEF WalkIInv
  <2>5. Received(s)'
    BY <2>4 DEF Received
  <2>6. WordsAt(s)'
    <3>1. 0 \in 0 .. (r - 1) /\ u * r + 0 = u * r
      <4>1. u \div c \in 0 .. (r - 1)
        BY <1>4
      <4>2. u \in Nat
        BY EdgeFacts DEF Vertex
      <4>3. u * r \in Nat
        BY <4>2
      <4>4. \A x \in 0 .. (r - 1) : 0 \in 0 .. (r - 1)
        OBVIOUS
      <4> QED BY <4>1, <4>3, <4>4
    <3>2. bits[u * r + 0] = {s[j] % WordBits : j \in {x \in 1 .. Len(s) : s[x] \div WordBits = 0}}
      BY <1>4, <2>1, <2>2, <3>1, WordListed
    <3>3. w' = {s[j] % WordBits : j \in {x \in 1 .. Len(s) : x > Len(sent') /\ s[x] \div WordBits = i'}}
      <4>1. \A x \in 1 .. Len(s) : x > 0
        OBVIOUS
      <4> QED BY <2>1, <2>4, <3>1, <3>2, <4>1
    <3>4. \A j \in 1 .. Len(s) : ~(j <= Len(sent')) /\ s[j] \div WordBits >= i'
      <4> SUFFICES ASSUME NEW j \in 1 .. Len(s) PROVE ~(j <= 0) /\ s[j] \div c >= 0
        BY <1>3, <2>4
      <4>1. s[j] \in Vertex
        <5>1. s[j] \in Range(s)
          BY <2>2 DEF Range
        <5> QED BY <2>2, <5>1
      <4>2. s[j] \div c \in 0 .. (r - 1)
        BY <1>4, <4>1
      <4> QED BY <4>2
    <3> QED BY <1>2, <1>4, <2>4, <3>1, <3>3, <3>4 DEF WordsAt
  <2>7. Iter!Next
    BY <2>1, AskStep
  <2> QED BY <1>1, <1>2, <2>1, <2>3, <2>5, <2>6, <2>7 DEF WalkIInv, Stands
<1>7. CASE BM!Visit \/ BM!NextWord \/ BM!Leave
  <2>1. phase = "running" /\ UNCHANGED <<n, edges, asked, bits>> /\ asked \in Vertex
    BY <1>7 DEF BM!Visit, BM!NextWord, BM!Leave, BM!index, WalkIInv
  <2>2. PICK s : Listing(s) /\ Received(s) /\ WordsAt(s)
    BY <2>1 DEF WalkIInv, Stands
  <2>3. PICK l \in Nat, d \in Nat : l = Len(s) /\ d = Len(sent) /\ d <= l
    BY <2>2, NextLeft
  <2>4. i \in 0 .. (r - 1)
    BY <1>4, <2>2 DEF WordsAt
  <2>5. CASE BM!Visit
    <3>1. d < l /\ s[d + 1] = i * c + BM!Min(w) /\ w # {}
      BY <1>3, <2>2, <2>3, <2>5, WordNext DEF BM!Visit
    <3>2. /\ sent' = Append(sent, s[d + 1]) /\ more' \in BOOLEAN /\ i' = i
          /\ phase' = IF more' THEN "running" ELSE "returned"
          /\ phase' = "running" => w' = w \ {BM!Min(w)}
      BY <1>3, <2>1, <2>5, <3>1 DEF BM!Visit
    <3>3. Iter!Next /\ Listing(s)' /\ Received(s)' /\ Len(sent') = d + 1
      BY <2>1, <2>2, <2>3, <3>1, <3>2, DeliverStep
    <3>4. phase' = "running" => WordsAt(s)'
      BY <2>1, <2>2, <2>3, <3>1, <3>2, <3>3, WordCleared
    <3>5. asked' \in Vertex' /\ phase' \in {"running", "returned"}
      BY <1>2, <2>1, <3>2
    <3> QED BY <1>1, <3>3, <3>4, <3>5 DEF WalkIInv, Stands
  <2>6. CASE BM!NextWord
    <3>1. /\ w = {} /\ i + 1 < r /\ i' = i + 1 /\ w' = bits[asked * r + i + 1]
          /\ UNCHANGED <<phase, sent, more>>
      BY <1>4, <2>6 DEF BM!NextWord, BM!index
    <3>2. i + 1 \in 0 .. (r - 1) /\ asked * r + i + 1 = asked * r + (i + 1)
      <4>1. asked * r \in Int
        <5>1. asked \in Nat
          BY <2>1, EdgeFacts DEF Vertex
        <5> QED BY <5>1
      <4> QED BY <2>4, <3>1, <4>1
    <3>3. s \in Seq(Int) /\ Range(s) = {v \in Vertex : Linked(list, asked, v)}
      BY <2>2 DEF Listing
    <3>4. PICK k \in 0 .. (r - 1) : k = i + 1
      BY <3>2
    <3>5. bits[asked * r + k] = {s[j] % WordBits : j \in {x \in 1 .. Len(s) : s[x] \div WordBits = k}}
      BY <1>4, <2>1, <3>3, WordListed, SMTT(30)
    <3>6. \A j \in 1 .. l : IF j <= d THEN s[j] \div c < k ELSE s[j] \div c >= k
      <4>1. \A j \in 1 .. l : s[j] \div c \in 0 .. (r - 1)
        <5>1. \A j \in 1 .. l : s[j] \in Range(s)
          BY <2>3, <3>3 DEF Range
        <5> QED BY <1>4, <3>3, <5>1
      <4>2. \A j \in 1 .. l : j > d => s[j] \div c >= i + 1
        BY <1>3, <2>2, <2>3, <3>1, WordNext
      <4>3. \A j \in 1 .. l : j <= d => s[j] \div c <= i
        BY <1>3, <2>2, <2>3 DEF WordsAt
      <4>4. \A x \in 0 .. (r - 1) : x <= i => x < k
        BY <2>4, <3>4
      <4>5. \A j \in 1 .. l : ~(j <= d) => j > d
        OBVIOUS
      <4> QED BY <3>4, <4>1, <4>2, <4>3, <4>4, <4>5
    <3>7. w' = {s[j] % c : j \in {x \in 1 .. l : x > d /\ s[x] \div c = k}}
      <4>1. \A x \in 1 .. l : s[x] \div c = k => x > d
        <5> SUFFICES ASSUME NEW x \in 1 .. l, s[x] \div c = k PROVE x > d
          OBVIOUS
        <5>1. ~(k < k)
          OBVIOUS
        <5> QED BY <3>6, <5>1
      <4>2. w' = {s[j] % c : j \in {x \in 1 .. l : s[x] \div c = k}}
        BY <1>3, <2>3, <3>1, <3>2, <3>4, <3>5
      <4> QED BY <4>1, <4>2
    <3>8. WordsAt(s)'
      <4>1. \A j \in 1 .. l : IF j <= d THEN s[j] \div c <= k ELSE s[j] \div c >= k
        <5>1. \A j \in 1 .. l : s[j] \div c \in 0 .. (r - 1)
          <6>1. \A j \in 1 .. l : s[j] \in Range(s)
            BY <2>3, <3>3 DEF Range
          <6> QED BY <1>4, <3>3, <6>1
        <5>2. \A x \in 0 .. (r - 1) : x < k => x <= k
          OBVIOUS
        <5> QED BY <3>6, <5>1, <5>2
      <4>2. Len(sent') = d /\ i' = k /\ BM!wordsPerRow' = r
        BY <1>2, <1>4, <2>3, <3>1, <3>4
      <4>3. w' = {s[j] % WordBits : j \in {x \in 1 .. Len(s) : x > Len(sent') /\ s[x] \div WordBits = i'}}
        BY <1>3, <2>3, <3>7, <4>2
      <4>4. \A j \in 1 .. Len(s) :
              IF j <= Len(sent') THEN s[j] \div WordBits <= i' ELSE s[j] \div WordBits >= i'
        BY <1>3, <2>3, <4>1, <4>2
      <4> QED BY <4>2, <4>3, <4>4 DEF WordsAt
    <3>9. Listing(s)' /\ Received(s)' /\ asked' \in Vertex' /\ phase' = "running"
      BY <1>2, <2>1, <2>2, <3>1 DEF Listing, Received
    <3>10. UNCHANGED Iter!vars
      BY <2>1, <3>1 DEF Iter!vars
    <3> QED BY <1>1, <3>8, <3>9, <3>10 DEF WalkIInv, Stands
  <2>7. CASE BM!Leave
    <3>1. w = {} /\ i + 1 = r /\ phase' = "returned" /\ UNCHANGED <<sent, more>>
      BY <1>4, <2>7 DEF BM!Leave
    <3>2. d = l
      <4> SUFFICES ASSUME d < l PROVE FALSE
        BY <2>3
      <4>1. d + 1 \in 1 .. l /\ d + 1 > d
        BY <2>3
      <4>2. s[d + 1] \div c >= i + 1
        BY <1>3, <2>2, <2>3, <3>1, <4>1, WordNext
      <4>3. s[d + 1] \div c \in 0 .. (r - 1)
        <5>1. s[d + 1] \in Range(s) /\ Range(s) \subseteq Vertex
          BY <2>2, <2>3, <4>1 DEF Listing, Range
        <5> QED BY <1>4, <5>1
      <4> QED BY <2>4, <3>1, <4>2, <4>3
    <3>3. Iter!Next
      BY <2>1, <2>2, <2>3, <3>1, <3>2, LeaveStep
    <3> QED BY <3>1, <3>3 DEF WalkIInv
  <2> QED BY <1>7, <2>5, <2>6, <2>7
<1>8. CASE BM!Stay
  <2>1. UNCHANGED <<asked, sent, more, phase, i>> /\ phase \in {"ready", "returned", "refused"}
    BY <1>8 DEF BM!Stay, BM!vars
  <2>2. UNCHANGED Iter!vars
    BY <2>1 DEF Iter!vars
  <2> QED BY <1>1, <2>1, <2>2 DEF WalkIInv
<1> QED BY <1>5, <1>6, <1>7, <1>8 DEF BM!Next

\* The invariant of the iteration holds at first, and the iteration starts as it should.
LEMMA WalkInit == Init => WalkIInv /\ Iter!Init
<1> SUFFICES ASSUME Init PROVE WalkIInv /\ Iter!Init
  OBVIOUS
<1>1. asked = 0 /\ sent = <<>> /\ more = TRUE /\ i = 0
  BY DEF Init, BM!Init
<1>2. phase \in {"count", "append", "build"}
  BY DEF Init
<1>3. WalkIInv
  BY <1>1, <1>2 DEF WalkIInv
<1>4. n \in Nat /\ edges \in Seq([from : 0 .. (n - 1), to : 0 .. (n - 1)])
  <2>1. CASE name \in Builders
    <3>1. Built
      BY <2>1, BuiltInit
    <3>2. edges \in Seq(Edge(n)) /\ n \in Nat
      BY <3>1, EdgeFacts DEF Built, Fit
    <3> QED BY <3>2 DEF Edge
  <2>2. CASE name \notin Builders
    <3>1. n = 0 /\ edges = <<>>
      BY <2>2 DEF Init
    <3> QED BY <3>1
  <2> QED BY <2>1, <2>2
<1> QED BY <1>1, <1>2, <1>3, <1>4 DEF Iter!Init

\* Every step keeps it, and is one of the iteration or none.
LEMMA WalkStep == IndexIInv /\ WalkIInv /\ [Next]_vars => WalkIInv' /\ [Iter!Next]_Iter!vars
<1> SUFFICES ASSUME IndexIInv, WalkIInv, [Next]_vars
             PROVE  WalkIInv' /\ [Iter!Next]_Iter!vars
  OBVIOUS
<1>1. n' = n /\ list' = list /\ edges' = edges /\ name' = name
  BY Unchanging
<1>2. CASE name = "edgelist" /\ EL!Next /\ UNCHANGED bitVars
  BY <1>1, <1>2, KeysWalk DEF IndexIInv, Builders, bitVars
<1>3. CASE name = "varint-csr" /\ VC!Next /\ UNCHANGED bitVars
  BY <1>1, <1>3, BytesWalk DEF IndexIInv, Builders, bitVars
<1>4. CASE name = "bitmatrix" /\ BM!Next
  BY <1>1, <1>4, WordsWalk DEF IndexIInv, Builders
<1>5. CASE name \in Lists3 /\ AL!Next /\ UNCHANGED bitVars
  BY <1>1, <1>5, ListsWalk DEF IndexIInv, Builders, bitVars
<1>6. CASE name = "slices" /\ UNCHANGED <<shared, bitVars>>
  <2>1. UNCHANGED <<phase, asked, sent, more, i>> /\ phase = "build"
    BY <1>6 DEF shared, bitVars, IndexIInv
  <2>2. UNCHANGED Iter!vars
    BY <1>1, <2>1 DEF Iter!vars
  <2> QED BY <2>1, <2>2 DEF WalkIInv
<1>7. CASE UNCHANGED vars
  <2>1. UNCHANGED <<shared, keys, byteVars, bitVars, listVars, name, list>>
    BY <1>7 DEF vars
  <2>2. UNCHANGED <<n, edges, phase, asked, sent, more, at, keys, block, left, cur, i, w, adj>>
    BY <2>1 DEF shared, byteVars, bitVars, listVars
  <2>3. UNCHANGED Iter!vars
    BY <2>2 DEF Iter!vars
  <2>4. ASSUME NEW s, Listing(s), Received(s), Stands(s)
        PROVE  Listing(s)' /\ Received(s)' /\ Stands(s)'
    <3>1. Listing(s)' /\ Received(s)'
      BY <2>1, <2>2, <2>4 DEF Listing, Received, Vertex
    <3>2. ListsAt(s)' <=> ListsAt(s)
      BY <2>2 DEF ListsAt, AL!Neighbors, AL!Entry, AL!Nil
    <3>3. KeysAt(s)' <=> KeysAt(s)
      BY <2>2 DEF KeysAt, Source, Target
    <3>4. BytesAt(s)' <=> BytesAt(s)
      <4>1. (\A g : Tails(g, s)' <=> Tails(g, s)) /\ (Gaps(s)' <=> Gaps(s))
        BY DEF Tails, Gaps, Gap, VC!PutUvarint
      <4> QED BY <2>2, <4>1 DEF BytesAt
    <3>5. WordsAt(s)' <=> WordsAt(s)
      BY <2>2 DEF WordsAt, BM!wordsPerRow
    <3> QED BY <1>1, <2>4, <3>1, <3>2, <3>3, <3>4, <3>5 DEF Stands
  <2>5. Vertex' = Vertex
    BY <2>2 DEF Vertex
  <2> QED BY <1>1, <2>2, <2>3, <2>4, <2>5 DEF WalkIInv
<1> QED BY <1>2, <1>3, <1>4, <1>5, <1>6, <1>7 DEF Next

\* The callback of ForEachNeighbor receives the neighbours in order, each one once, and
\* nothing after it returned false, in all six structures and wherever it stops: the safety
\* part of ImplementsIteration.
THEOREM IteratesSafely == Spec => Iter!Init /\ [][Iter!Next]_Iter!vars
<1>1. Init => WalkIInv /\ Iter!Init
  BY WalkInit
<1>2. IndexIInv /\ WalkIInv /\ [Next]_vars => WalkIInv' /\ [Iter!Next]_Iter!vars
  BY WalkStep
<1> QED BY <1>1, <1>2, IndexInvariant, PTL DEF Spec
=============================================================================
