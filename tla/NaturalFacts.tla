---------------------------- MODULE NaturalFacts ----------------------------
(***************************************************************************)
(* What the proofs of this project use of the natural numbers and of       *)
(* finite sets: induction for facts stated as sets, functions defined by   *)
(* recursion, and products and divisions by a parameter.                   *)
(*                                                                         *)
(* The theorems of NaturalsInduction are about an arbitrary predicate; the *)
(* lemmas here are about an arbitrary set of numbers, so that each use     *)
(* only has to name the set of the numbers that have the property.         *)
(***************************************************************************)
EXTENDS Slices, TLAPS, WellFoundedInduction, FiniteSetTheorems

-----------------------------------------------------------------------------
(* Induction. *)

Below == {p \in Nat \X Nat : p[1] < p[2]}

LEMMA BelowWellFounded == IsWellFoundedOn(Below, Nat)
BY NatLessThanWellFounded, Zenon DEF OpToRel, Below

\* A set of natural numbers that is not empty has a least element.
LEMMA LeastElement ==
  ASSUME NEW T, T \subseteq Nat, T # {}
  PROVE  \E x \in T : \A y \in T : x <= y
<1>1. PICK x \in T : \A y \in T : ~(<<y, x>> \in Below)
  BY BelowWellFounded, WFMin, Zenon
<1>2. ASSUME NEW y \in T
      PROVE  x <= y
  <2>1. x \in Nat /\ y \in Nat
    OBVIOUS
  <2>2. ~(<<y, x>> \in Below)
    BY <1>1
  <2> QED BY <2>1, <2>2 DEF Below
<1> QED BY <1>2, Zenon

\* Induction: a set that holds 0, and n + 1 whenever it holds n, holds every number.
LEMMA SetInduction ==
  ASSUME NEW S, 0 \in S, \A n \in Nat : n \in S => n + 1 \in S
  PROVE  \A n \in Nat : n \in S
<1> DEFINE T == Nat \ S
<1>1. CASE T = {}
  BY <1>1
<1>2. CASE T # {}
  <2>1. PICK x \in T : \A y \in T : x <= y
    <3>1. T \subseteq Nat
      OBVIOUS
    <3> HIDE DEF T
    <3> QED BY <1>2, <3>1, LeastElement
  <2>2. x \in Nat \ {0}
    OBVIOUS
  <2>3. x - 1 \in Nat /\ x - 1 < x /\ (x - 1) + 1 = x
    BY <2>2
  <2>4. x - 1 \in S
    BY <2>1, <2>3
  <2> QED BY <2>3, <2>4
<1> QED BY <1>1, <1>2

\* The same up to a bound.
LEMMA BoundedInduction ==
  ASSUME NEW S, NEW b \in Nat, 0 \in S,
         \A n \in 0 .. (b - 1) : n \in S => n + 1 \in S
  PROVE  \A n \in 0 .. b : n \in S
<1> DEFINE T == {n \in Nat : n <= b => n \in S}
<1>1. 0 \in T
  OBVIOUS
<1>2. ASSUME NEW n \in Nat, n \in T
      PROVE  n + 1 \in T
  <2>1. CASE n + 1 <= b
    <3>1. n \in 0 .. (b - 1) /\ n <= b
      BY <2>1
    <3> QED BY <1>2, <3>1
  <2>2. CASE ~(n + 1 <= b)
    BY <2>2
  <2> QED BY <2>1, <2>2
<1>3. \A n \in Nat : n \in T
  <2> HIDE DEF T
  <2> QED BY <1>1, <1>2, SetInduction
<1>4. \A n \in 0 .. b : n \in Nat /\ n <= b
  OBVIOUS
<1> QED BY <1>3, <1>4

\* The equations of a function on the natural numbers, with values in V.
Recursion(V, first, step) == first \in V /\ step \in [Nat -> [V -> V]]
Solves(f, V, first, step) ==
  f \in [Nat -> V] /\ f[0] = first /\ \A n \in Nat : f[n + 1] = step[n][f[n]]

\* Definition by recursion: the first value and the step from a value to the next one
\* determine a function on the natural numbers.
LEMMA RecursiveFunction ==
  ASSUME NEW V, NEW first, NEW step, Recursion(V, first, step)
  PROVE  \E f : Solves(f, V, first, step)
<1>0. first \in V /\ step \in [Nat -> [V -> V]]
  BY DEF Recursion
<1> USE <1>0
<1> DEFINE Upto(n) == {g \in [0 .. n -> V] :
                         g[0] = first /\ \A i \in 0 .. (n - 1) : g[i + 1] = step[i][g[i]]}
           S == {n \in Nat : \E g \in [0 .. n -> V] :
                   g[0] = first /\ \A i \in 0 .. (n - 1) : g[i + 1] = step[i][g[i]]}
<1>1. 0 \in S
  <2>1. /\ [i \in 0 .. 0 |-> first] \in [0 .. 0 -> V] /\ [i \in 0 .. 0 |-> first][0] = first
        /\ 0 .. (0 - 1) = {}
    OBVIOUS
  <2> QED BY <2>1
<1>2. ASSUME NEW n \in Nat, n \in S
      PROVE  n + 1 \in S
  <2>1. PICK g \in [0 .. n -> V] :
          g[0] = first /\ \A i \in 0 .. (n - 1) : g[i + 1] = step[i][g[i]]
    BY <1>2
  <2> DEFINE h == [i \in 0 .. (n + 1) |-> IF i = n + 1 THEN step[n][g[n]] ELSE g[i]]
  <2>2. h \in [0 .. (n + 1) -> V]
    <3>1. n \in 0 .. n /\ step[n][g[n]] \in V
      OBVIOUS
    <3>2. ASSUME NEW i \in 0 .. (n + 1), i # n + 1
          PROVE  g[i] \in V
      BY <3>2
    <3> QED BY <3>1, <3>2
  <2>3. h[0] = first
    BY <2>1
  <2>4. ASSUME NEW i \in 0 .. n
        PROVE  h[i + 1] = step[i][h[i]]
    <3>1. i \in Nat /\ i + 1 \in 0 .. (n + 1) /\ i \in 0 .. (n + 1) /\ h[i] = g[i]
      OBVIOUS
    <3>2. CASE i = n
      BY <3>1, <3>2
    <3>3. CASE i # n
      <4>1. i \in 0 .. (n - 1) /\ i + 1 # n + 1
        BY <3>3
      <4>2. h[i + 1] = g[i + 1]
        BY <3>1, <4>1
      <4> QED BY <2>1, <3>1, <4>1, <4>2
    <3> QED BY <3>2, <3>3
  <2>5. \A i \in 0 .. ((n + 1) - 1) : h[i + 1] = step[i][h[i]]
    <3>1. \A i \in 0 .. ((n + 1) - 1) : i \in 0 .. n
      OBVIOUS
    <3> HIDE DEF h
    <3> QED BY <2>4, <3>1
  <2>6. \E d \in [0 .. (n + 1) -> V] :
          d[0] = first /\ \A i \in 0 .. ((n + 1) - 1) : d[i + 1] = step[i][d[i]]
    <3> HIDE DEF h
    <3> QED BY <2>2, <2>3, <2>5
  <2>7. n + 1 \in Nat
    OBVIOUS
  <2> QED BY <2>6, <2>7
<1>3. \A n \in Nat : Upto(n) # {}
  <2>1. \A n \in Nat : n \in S
    <3> HIDE DEF S
    <3> QED BY <1>1, <1>2, SetInduction
  <2> QED BY <2>1
<1>4. PICK G : \A n \in Nat : G[n] \in Upto(n)
  <2> DEFINE H == [n \in Nat |-> CHOOSE g \in Upto(n) : TRUE]
  <2>1. \A n \in Nat : H[n] \in Upto(n)
    <3> HIDE DEF Upto
    <3> QED BY <1>3
  <2> HIDE DEF H
  <2> QED BY <2>1
<1> DEFINE f == [n \in Nat |-> G[n][n]]
<1>5. ASSUME NEW n \in Nat
      PROVE  /\ G[n] \in [0 .. n -> V] /\ G[n][0] = first
             /\ \A i \in 0 .. (n - 1) : G[n][i + 1] = step[i][G[n][i]]
  BY <1>4
<1> HIDE DEF Upto
\* Two approximations agree where both are defined.
<1>6. ASSUME NEW n \in Nat
      PROVE  \A i \in 0 .. n : G[n][i] = G[n + 1][i]
  <2> DEFINE A == {i \in Nat : G[n][i] = G[n + 1][i]}
  <2>1. n + 1 \in Nat /\ \A i \in 0 .. (n - 1) : i \in 0 .. ((n + 1) - 1) /\ i \in Nat
    OBVIOUS
  <2>2. 0 \in A
    BY <1>5, <2>1
  <2>3. ASSUME NEW i \in 0 .. (n - 1), i \in A
        PROVE  i + 1 \in A
    <3>1. G[n][i + 1] = step[i][G[n][i]]
      BY <1>5
    <3>2. G[n + 1][i + 1] = step[i][G[n + 1][i]]
      BY <1>5, <2>1
    <3>3. i + 1 \in Nat
      BY <2>1
    <3> QED BY <2>3, <3>1, <3>2, <3>3
  <2>4. \A i \in 0 .. n : i \in A
    <3> HIDE DEF A
    <3> QED BY <2>2, <2>3, BoundedInduction
  <2> QED BY <2>4
<1>7. f \in [Nat -> V]
  <2>1. ASSUME NEW n \in Nat
        PROVE  G[n][n] \in V
    <3>1. G[n] \in [0 .. n -> V] /\ n \in 0 .. n
      BY <1>5
    <3> QED BY <3>1
  <2> QED BY <2>1
<1>8. f[0] = first
  BY <1>5
<1>9. ASSUME NEW n \in Nat
      PROVE  f[n + 1] = step[n][f[n]]
  <2>1. n + 1 \in Nat /\ n \in 0 .. ((n + 1) - 1) /\ n \in 0 .. n
    OBVIOUS
  <2>2. G[n + 1][n + 1] = step[n][G[n + 1][n]]
    BY <1>5, <2>1
  <2>3. G[n + 1][n] = G[n][n]
    BY <1>6, <2>1
  <2> QED BY <2>1, <2>2, <2>3
<1> HIDE DEF f
<1>10. Solves(f, V, first, step)
  BY <1>7, <1>8, <1>9 DEF Solves
<1> QED BY <1>10

-----------------------------------------------------------------------------
(* Products and divisions. *)

LEMMA ProductMonotone ==
  ASSUME NEW a \in Nat, NEW b \in Nat, NEW c \in Nat, a <= b
  PROVE  c * a <= c * b
  OBVIOUS

\* A product of a sum, and of a double.
LEMMA ProductFacts ==
  ASSUME NEW a \in Nat, NEW b \in Nat, NEW c \in Nat
  PROVE  /\ a * (b + c) = a * b + a * c
         /\ a * (2 * b) = 2 * (a * b) /\ (2 * a) * b = 2 * (a * b)
<1>1. a * (b + c) = a * b + a * c
  OBVIOUS
<1>2. a * (2 * b) = 2 * (a * b) /\ (2 * a) * b = 2 * (a * b)
  OBVIOUS
<1> QED BY <1>1, <1>2

\* What the provers know of division.
LEMMA DivisionFacts ==
  ASSUME NEW c \in Nat \ {0}, NEW a \in Nat
  PROVE  a = c * (a \div c) + (a % c) /\ a % c \in 0 .. (c - 1) /\ a \div c \in Nat
  OBVIOUS

LEMMA DivisibleFacts ==
  ASSUME NEW c \in Nat \ {0}, NEW a \in Nat, a % c = 0
  PROVE  \E d \in Nat : a = c * d
<1>1. a = c * (a \div c) + (a % c) /\ a % c \in 0 .. (c - 1) /\ a \div c \in Nat
  BY DivisionFacts
<1>2. a = c * (a \div c)
  BY <1>1
<1> QED BY <1>1, <1>2

\* The only multiple of c from 0 to c - 1 is 0.
LEMMA SmallMultiple ==
  ASSUME NEW c \in Nat \ {0}, NEW k \in Int, NEW r, r = c * k, 0 <= r, r < c
  PROVE  r = 0
<1>1. CASE k <= -1
  <2>1. -k \in Nat /\ 1 <= -k /\ c \in Nat
    BY <1>1
  <2>2. c * 1 <= c * (-k)
    BY <2>1, ProductMonotone
  <2>3. c * (-k) = -(c * k)
    OBVIOUS
  <2> QED BY <2>2, <2>3
<1>2. CASE k >= 1
  <2>1. c * 1 <= c * k
    BY <1>2, ProductMonotone
  <2> QED BY <2>1
<1>3. CASE k = 0
  BY <1>3
<1> QED BY <1>1, <1>2, <1>3

LEMMA MultipleDivisible ==
  ASSUME NEW c \in Nat \ {0}, NEW k \in Nat, NEW a, a = c * k
  PROVE  a % c = 0
<1>1. a \in Nat
  BY ProductMonotone
<1>2. a = c * (a \div c) + (a % c) /\ a % c \in 0 .. (c - 1) /\ a \div c \in Nat
  BY <1>1, DivisionFacts
<1>3. PICK d \in Nat, r \in 0 .. (c - 1) : a = c * d + r /\ r = a % c
  BY <1>2
<1>4. PICK e \in Int : e = k - d
  OBVIOUS
<1>5. PICK p \in Int : p = c * d
  OBVIOUS
<1>6. c * e = c * k - c * d
  BY <1>4
<1>7. c * e = a - p
  BY <1>5, <1>6
<1>8. r \in Int /\ 0 <= r /\ r < c
  OBVIOUS
<1>9. a = p + r
  BY <1>3, <1>5
<1>10. r = a - p
  BY <1>5, <1>8, <1>9
<1>11. r = c * e
  BY <1>7, <1>10
<1>12. r = 0
  BY <1>8, <1>11, SmallMultiple
<1> QED BY <1>3, <1>12

\* A counter that moves by c stays a multiple of c.
LEMMA DivisibleNext ==
  ASSUME NEW c \in Nat \ {0}, NEW a \in Nat, a % c = 0
  PROVE  (a + c) % c = 0
<1>1. PICK d \in Nat : a = c * d
  BY DivisibleFacts
<1>2. PICK e \in Nat : e = d + 1
  OBVIOUS
<1>3. a + c = c * e
  BY <1>1, <1>2
<1> QED BY <1>3, MultipleDivisible

\* And skips no multiple.
LEMMA DivisibleGap ==
  ASSUME NEW c \in Nat \ {0}, NEW a \in Nat, NEW b \in Nat,
         a % c = 0, a < b, b < a + c
  PROVE  b % c # 0
<1> SUFFICES ASSUME b % c = 0 PROVE FALSE
  OBVIOUS
<1>1. PICK d \in Nat : a = c * d
  BY DivisibleFacts
<1>2. PICK e \in Nat : b = c * e
  BY DivisibleFacts
<1>3. PICK r \in Int : r = b - a
  OBVIOUS
<1>4. e - d \in Int /\ r = c * (e - d)
  BY <1>1, <1>2, <1>3
<1>5. 0 <= r /\ r < c
  BY <1>3
<1>6. r = 0
  BY <1>4, <1>5, SmallMultiple
<1> QED BY <1>3, <1>6

\* Two multiples of w are w apart.
LEMMA Multiples ==
  ASSUME NEW a \in Nat, NEW b \in Nat, NEW w \in Nat, a < b
  PROVE  a * w \in Nat /\ b * w \in Nat /\ a * w + w <= b * w
<1>1. PICK k \in Nat : b = a + 1 + k
  <2>1. b - a - 1 \in Nat /\ b = a + 1 + (b - a - 1)
    OBVIOUS
  <2> QED BY <2>1
<1>2. b * w = a * w + w + k * w
  BY <1>1
<1>3. PICK p \in Nat, q \in Nat : p = a * w /\ q = k * w
  OBVIOUS
<1> QED BY <1>2, <1>3

\* A number has one quotient and one remainder.
LEMMA PlaceUnique ==
  ASSUME NEW a \in Nat, NEW c \in Nat, NEW w \in Nat,
         NEW b \in 0 .. (w - 1), NEW d \in 0 .. (w - 1), a * w + b = c * w + d
  PROVE  a = c /\ b = d
<1>1. PICK p \in Nat, q \in Nat : p = a * w /\ q = c * w
  OBVIOUS
<1>2. ~(a < c)
  <2> SUFFICES ASSUME a < c PROVE FALSE
    OBVIOUS
  <2>1. p + w <= q
    BY <1>1, Multiples
  <2> QED BY <1>1, <2>1
<1>3. ~(c < a)
  <2> SUFFICES ASSUME c < a PROVE FALSE
    OBVIOUS
  <2>1. q + w <= p
    BY <1>1, Multiples
  <2> QED BY <1>1, <2>1
<1>4. a = c
  BY <1>2, <1>3
<1> QED BY <1>1, <1>4

-----------------------------------------------------------------------------
(* Recursion on finite sets. *)

\* Induction on the subsets of a finite set: W holds every subset when it holds each one
\* that it holds all but any element of.
LEMMA SubsetInduction ==
  ASSUME NEW S, IsFiniteSet(S), NEW W,
         \A s \in SUBSET S : (\A x \in s : s \ {x} \in W) => s \in W
  PROVE  \A s \in SUBSET S : s \in W
<1> DEFINE N == {k \in Nat : \A s \in SUBSET S : Cardinality(s) = k => s \in W}
<1>1. \A s \in SUBSET S : IsFiniteSet(s) /\ Cardinality(s) \in Nat
  BY FS_Subset, FS_CardinalityType
<1>2. 0 \in N
  <2>1. \A s \in SUBSET S : Cardinality(s) = 0 => s = {}
    BY <1>1, FS_EmptySet
  <2>2. {} \in W
    OBVIOUS
  <2> QED BY <2>1, <2>2
<1>3. ASSUME NEW k \in Nat, k \in N
      PROVE  k + 1 \in N
  <2>1. ASSUME NEW s \in SUBSET S, Cardinality(s) = k + 1, NEW x \in s
        PROVE  s \ {x} \in W
    <3>1. Cardinality(s \ {x}) = Cardinality(s) - 1
      BY <1>1, <2>1, FS_RemoveElement
    <3>2. Cardinality(s \ {x}) = k
      BY <2>1, <3>1
    <3> QED BY <1>3, <3>2
  <2> QED BY <2>1
<1>4. \A k \in Nat : k \in N
  <2> HIDE DEF N
  <2> QED BY <1>2, <1>3, SetInduction
<1> QED BY <1>1, <1>4

\* The equation of a function on the subsets of S, with values in V.
Picks(pick, S) == \A s \in SUBSET S : s # {} => pick[s] \in s
SubsetSolves(f, S, base, pick, step) ==
  f = [s \in SUBSET S |-> IF s = {} THEN base ELSE step[s][f[s \ {pick[s]}]]]

\* Definition by recursion on the subsets of a finite set: step takes a subset, and the value
\* of what is left of it without its element `pick', to the value of the subset.
LEMMA SubsetRecursion ==
  ASSUME NEW S, IsFiniteSet(S), NEW V, NEW base \in V, NEW pick, Picks(pick, S),
         NEW step \in [SUBSET S -> [V -> V]]
  PROVE  \E f \in [SUBSET S -> V] : SubsetSolves(f, S, base, pick, step)
<1> DEFINE Values == [SUBSET S -> V]
           first == [s \in SUBSET S |-> base]
           next(g) == [s \in SUBSET S |-> IF s = {} THEN base ELSE step[s][g[s \ {pick[s]}]]]
           steps == [k \in Nat |-> [g \in Values |-> next(g)]]
<1>1. \A s \in SUBSET S : IsFiniteSet(s) /\ Cardinality(s) \in Nat
  BY FS_Subset, FS_CardinalityType
<1>2. first \in Values
  OBVIOUS
<1>3. ASSUME NEW g \in Values
      PROVE  next(g) \in Values
  <2>1. \A s \in SUBSET S : s \ {pick[s]} \in SUBSET S
    OBVIOUS
  <2>2. \A s \in SUBSET S : step[s][g[s \ {pick[s]}]] \in V
    BY <2>1
  <2> QED BY <2>2
<1>4. PICK F : Solves(F, Values, first, steps)
  <2>1. Recursion(Values, first, steps)
    <3> HIDE DEF Values, first, next
    <3> QED BY <1>2, <1>3 DEF Recursion
  <2> HIDE DEF Values, first, steps
  <2> QED BY <2>1, RecursiveFunction
<1>5. /\ F \in [Nat -> Values] /\ F[0] = first
      /\ \A k \in Nat : F[k + 1] = next(F[k])
  <2> HIDE DEF Values, first, next
  <2> QED BY <1>4 DEF Solves
<1> DEFINE f == [s \in SUBSET S |-> F[Cardinality(s)][s]]
<1>6. f \in Values
  BY <1>1, <1>5
<1>7. ASSUME NEW s \in SUBSET S
      PROVE  f[s] = IF s = {} THEN base ELSE step[s][f[s \ {pick[s]}]]
  <2>1. CASE s = {}
    <3>1. Cardinality(s) = 0
      BY <1>1, <2>1, FS_EmptySet
    <3> QED BY <1>5, <2>1, <3>1
  <2>2. CASE s # {}
    <3>1. s \ {pick[s]} \in SUBSET S /\ pick[s] \in s
      BY <2>2 DEF Picks
    <3>2. PICK k \in Nat : Cardinality(s) = k + 1 /\ Cardinality(s \ {pick[s]}) = k
      <4>1. Cardinality(s) # 0
        BY <1>1, <2>2, FS_EmptySet
      <4>2. Cardinality(s) - 1 \in Nat /\ Cardinality(s) = Cardinality(s) - 1 + 1
        BY <1>1, <4>1
      <4>3. Cardinality(s \ {pick[s]}) = Cardinality(s) - 1
        BY <1>1, <3>1, FS_RemoveElement
      <4> QED BY <4>2, <4>3
    <3>3. f[s] = next(F[k])[s] /\ f[s \ {pick[s]}] = F[k][s \ {pick[s]}]
      <4> HIDE DEF next
      <4> QED BY <1>5, <3>1, <3>2
    <3> QED BY <2>2, <3>3
  <2> QED BY <2>1, <2>2
<1>8. f = [s \in SUBSET S |-> IF s = {} THEN base ELSE step[s][f[s \ {pick[s]}]]]
  <2>1. f = [s \in SUBSET S |-> f[s]]
    OBVIOUS
  <2> HIDE DEF f
  <2> QED BY <1>7, <2>1
<1> HIDE DEF f
<1> QED BY <1>6, <1>8 DEF SubsetSolves

-----------------------------------------------------------------------------
(* Least and greatest elements. *)

LEMMA FiniteExtremes ==
  ASSUME NEW S, IsFiniteSet(S), S \subseteq Int, S # {}
  PROVE  /\ \E x \in S : \A y \in S : x <= y
         /\ \E x \in S : \A y \in S : x >= y
<1> DEFINE Bounded(s) == /\ \E x \in s : \A y \in s : x <= y
                         /\ \E x \in s : \A y \in s : x >= y
           W == {s \in SUBSET S : s = {} \/ Bounded(s)}
<1>1. ASSUME NEW s \in SUBSET S, \A x \in s : s \ {x} \in W
      PROVE  s \in W
  <2> SUFFICES ASSUME NEW z \in s PROVE Bounded(s)
    OBVIOUS
  <2>1. s \ {z} = {} \/ Bounded(s \ {z})
    BY <1>1
  <2>2. CASE s \ {z} = {}
    <3>1. \A y \in s : y = z
      BY <2>2
    <3>2. z \in Int
      OBVIOUS
    <3> QED BY <3>1, <3>2
  <2>3. CASE Bounded(s \ {z})
    <3>1. PICK lo \in s \ {z} : \A y \in s \ {z} : lo <= y
      BY <2>3
    <3>2. PICK hi \in s \ {z} : \A y \in s \ {z} : hi >= y
      BY <2>3
    <3>3. lo \in Int /\ hi \in Int /\ z \in Int /\ s \subseteq Int
      OBVIOUS
    <3>4. \E x \in s : \A y \in s : x <= y
      <4>1. CASE lo <= z
        BY <3>1, <3>3, <4>1
      <4>2. CASE ~(lo <= z)
        BY <3>1, <3>3, <4>2
      <4> QED BY <4>1, <4>2
    <3>5. \E x \in s : \A y \in s : x >= y
      <4>1. CASE hi >= z
        BY <3>2, <3>3, <4>1
      <4>2. CASE ~(hi >= z)
        BY <3>2, <3>3, <4>2
      <4> QED BY <4>1, <4>2
    <3> QED BY <3>4, <3>5
  <2> QED BY <2>1, <2>2, <2>3
<1>2. \A s \in SUBSET S : s \in W
  <2> HIDE DEF W
  <2> QED BY <1>1, SubsetInduction
<1> QED BY <1>2

\* A function takes finitely many values on a finite set.
LEMMA ImageFinite ==
  ASSUME NEW D, IsFiniteSet(D), NEW f
  PROVE  IsFiniteSet({f[x] : x \in D})
<1> DEFINE T == {f[x] : x \in D}
           h == [x \in D |-> f[x]]
<1>1. h \in Surjection(D, T)
  BY DEF Surjection
<1>2. IsFiniteSet(T)
  <2> HIDE DEF T, h
  <2> QED BY <1>1, FS_Surjection
<1> QED BY <1>2

-----------------------------------------------------------------------------
(* Sums over finite sets. *)

Pick(s) == CHOOSE x \in s : TRUE

\* f gives the sum of the weights w of each subset of S, as the folds of the library do.
Sums(f, w, S) ==
  f = [s \in SUBSET S |-> IF s = {} THEN 0 ELSE w[Pick(s)] + f[s \ {Pick(s)}]]

LEMMA SumsExist ==
  ASSUME NEW S, IsFiniteSet(S), NEW w \in [S -> Int]
  PROVE  \E f : Sums(f, w, S)
<1>a. PICK pick : pick = [s \in SUBSET S |-> Pick(s)]
  OBVIOUS
<1>b. PICK step : step = [s \in SUBSET S |-> [v \in Int |-> IF s = {} THEN 0 ELSE w[pick[s]] + v]]
  OBVIOUS
<1>1. \A s \in SUBSET S : s # {} => pick[s] \in s
  BY <1>a DEF Pick
<1>2. step \in [SUBSET S -> [Int -> Int]]
  <2>1. ASSUME NEW s \in SUBSET S, s # {}
        PROVE  w[pick[s]] \in Int
    BY <1>1, <2>1
  <2> QED BY <2>1, <1>b
<1>3. 0 \in Int
  OBVIOUS
<1>4. PICK f \in [SUBSET S -> Int] :
        f = [s \in SUBSET S |-> IF s = {} THEN 0 ELSE step[s][f[s \ {pick[s]}]]]
  <2>1. \E f \in [SUBSET S -> Int] :
          SubsetSolves(f, S, 0, pick, step)
    BY <1>1, <1>2, <1>3, SubsetRecursion, Zenon DEF Picks
  <2> QED BY <2>1 DEF SubsetSolves
<1>5. \A s \in SUBSET S :
        f[s] = IF s = {} THEN 0 ELSE w[Pick(s)] + f[s \ {Pick(s)}]
  <2> SUFFICES ASSUME NEW s \in SUBSET S
               PROVE  f[s] = IF s = {} THEN 0 ELSE w[Pick(s)] + f[s \ {Pick(s)}]
    OBVIOUS
  <2>1. pick[s] = Pick(s) /\ s \ {pick[s]} \in SUBSET S
    BY <1>a
  <2>2. f[s] = IF s = {} THEN 0 ELSE step[s][f[s \ {pick[s]}]]
    BY <1>4
  <2>3. f[s \ {pick[s]}] \in Int
    BY <2>1
  <2> QED BY <1>b, <2>1, <2>2, <2>3
<1>6. f = [s \in SUBSET S |-> f[s]]
  OBVIOUS
<1> QED BY <1>5, <1>6 DEF Sums

LEMMA SumsType ==
  ASSUME NEW S, NEW w, NEW f, Sums(f, w, S), IsFiniteSet(S), w \in [S -> Int]
  PROVE  f \in [SUBSET S -> Int] /\ f[{}] = 0
<1>1. \A s \in SUBSET S : f[s] = IF s = {} THEN 0 ELSE w[Pick(s)] + f[s \ {Pick(s)}]
  BY DEF Sums
<1> DEFINE W == {s \in SUBSET S : f[s] \in Int}
<1>2. ASSUME NEW s \in SUBSET S, \A x \in s : s \ {x} \in W
      PROVE  s \in W
  <2>1. CASE s = {}
    <3>1. f[s] = 0
      BY <1>1, <2>1
    <3> QED BY <3>1
  <2>2. CASE s # {}
    <3>1. Pick(s) \in s
      BY <2>2 DEF Pick
    <3>2. w[Pick(s)] \in Int /\ f[s \ {Pick(s)}] \in Int
      BY <1>2, <3>1
    <3>3. f[s] = w[Pick(s)] + f[s \ {Pick(s)}]
      BY <1>1, <2>2
    <3> QED BY <3>2, <3>3
  <2> QED BY <2>1, <2>2
<1>3. \A s \in SUBSET S : s \in W
  <2> HIDE DEF W
  <2> QED BY <1>2, SubsetInduction
<1>4. f = [s \in SUBSET S |-> f[s]]
  BY DEF Sums
<1> QED BY <1>1, <1>3, <1>4

AddsUp(f, w, S) == \A s \in SUBSET S, x \in S : x \notin s => f[s \cup {x}] = f[s] + w[x]

\* The sum does not depend on the order in which the elements are taken.
LEMMA SumsAdd ==
  ASSUME NEW S, NEW w, NEW f, Sums(f, w, S), IsFiniteSet(S), w \in [S -> Int]
  PROVE  AddsUp(f, w, S)
<1>1. \A s \in SUBSET S : f[s] = IF s = {} THEN 0 ELSE w[Pick(s)] + f[s \ {Pick(s)}]
  BY DEF Sums
<1>2. f \in [SUBSET S -> Int] /\ f[{}] = 0
  BY SumsType
<1> DEFINE W == {s \in SUBSET S : \A x \in S \ s : f[s \cup {x}] = f[s] + w[x]}
<1>3. ASSUME NEW s \in SUBSET S, \A x \in s : s \ {x} \in W
      PROVE  s \in W
  <2> SUFFICES ASSUME NEW x \in S \ s
               PROVE  f[s \cup {x}] = f[s] + w[x]
    OBVIOUS
  <2>1. PICK p \in s \cup {x} : p = Pick(s \cup {x})
    BY DEF Pick
  <2>2. f[s \cup {x}] = w[p] + f[(s \cup {x}) \ {p}]
    BY <1>1, <2>1
  <2>3. CASE p = x
    <3>1. (s \cup {x}) \ {p} = s
      BY <2>3
    <3>2. f[s] \in Int /\ w[x] \in Int
      BY <1>2
    <3>3. f[s \cup {x}] = w[x] + f[s]
      BY <2>2, <2>3, <3>1
    <3> QED BY <3>2, <3>3
  <2>4. CASE p # x
    <3>1. p \in s /\ s \ {p} \in W /\ x \in S \ (s \ {p}) /\ p \in S \ (s \ {p})
      BY <1>3, <2>4
    <3>2. (s \cup {x}) \ {p} = (s \ {p}) \cup {x} /\ (s \ {p}) \cup {p} = s
      BY <2>4, <3>1
    <3>3. f[(s \ {p}) \cup {x}] = f[s \ {p}] + w[x] /\ f[(s \ {p}) \cup {p}] = f[s \ {p}] + w[p]
      BY <3>1
    <3>4. f[s \ {p}] \in Int /\ w[p] \in Int /\ w[x] \in Int
      BY <1>2, <3>1
    <3>5. f[s \cup {x}] = w[p] + (f[s \ {p}] + w[x]) /\ f[s] = f[s \ {p}] + w[p]
      BY <2>2, <3>2, <3>3
    <3> QED BY <3>4, <3>5
  <2> QED BY <2>3, <2>4
<1>4. \A s \in SUBSET S : s \in W
  <2> HIDE DEF W
  <2> QED BY <1>3, SubsetInduction
<1> QED BY <1>4 DEF AddsUp

\* Nor on the elements that are not in the set.
Agree(w, z, T) == \A x \in T : w[x] = z[x]

LEMMA SumsSame ==
  ASSUME NEW S, NEW w, NEW f, Sums(f, w, S), NEW T, NEW z, NEW g, Sums(g, z, T),
         IsFiniteSet(S), T \subseteq S, Agree(w, z, T)
  PROVE  f[T] = g[T]
<1>1. \A s \in SUBSET S : f[s] = IF s = {} THEN 0 ELSE w[Pick(s)] + f[s \ {Pick(s)}]
  BY DEF Sums
<1>2. \A s \in SUBSET T : g[s] = IF s = {} THEN 0 ELSE z[Pick(s)] + g[s \ {Pick(s)}]
  BY DEF Sums
<1> DEFINE W == {s \in SUBSET T : f[s] = g[s]}
<1>3. ASSUME NEW s \in SUBSET T, \A x \in s : s \ {x} \in W
      PROVE  s \in W
  <2>1. CASE s = {}
    BY <1>1, <1>2, <2>1
  <2>2. CASE s # {}
    <3>1. Pick(s) \in s
      BY <2>2 DEF Pick
    <3>2. w[Pick(s)] = z[Pick(s)] /\ f[s \ {Pick(s)}] = g[s \ {Pick(s)}]
      BY <1>3, <3>1 DEF Agree
    <3> QED BY <1>1, <1>2, <2>2, <3>2
  <2> QED BY <2>1, <2>2
<1>4. IsFiniteSet(T)
  BY FS_Subset
<1>5. \A s \in SUBSET T : s \in W
  <2> HIDE DEF W
  <2> QED BY <1>3, <1>4, SubsetInduction
<1> QED BY <1>5

-----------------------------------------------------------------------------
(* Ascending order. *)

\* q lists the elements of S once each, in ascending order.
Enumerates(q, S) ==
  /\ q \in [1 .. Cardinality(S) -> S]
  /\ \A j, k \in 1 .. Cardinality(S) : j < k => q[j] < q[k]
  /\ \A v \in S : \E j \in 1 .. Cardinality(S) : q[j] = v

LEMMA InOrderFacts ==
  ASSUME NEW S, IsFiniteSet(S), S \subseteq Int
  PROVE  Enumerates(InOrder(S), S)
<1>1. PICK c \in Nat : c = Cardinality(S)
  BY FS_CardinalityType
<1>2. PICK rank : rank = [v \in S |-> Cardinality({w \in S : w < v})]
  OBVIOUS
<1>3. \A v \in S : rank[v] \in Nat /\ rank[v] < c
  <2> SUFFICES ASSUME NEW v \in S PROVE rank[v] \in Nat /\ rank[v] < c
    OBVIOUS
  <2>1. PICK T : T = {w \in S : w < v}
    OBVIOUS
  <2>2. T \in SUBSET (S \ {v}) /\ T \in SUBSET S
    BY <2>1
  <2>3. IsFiniteSet(S \ {v}) /\ Cardinality(S \ {v}) = c - 1
    BY <1>1, FS_RemoveElement
  <2>4. Cardinality(T) <= c - 1
    BY <2>2, <2>3, FS_Subset
  <2>5. Cardinality(T) \in Nat
    BY <2>2, FS_Subset, FS_CardinalityType
  <2> QED BY <1>1, <1>2, <2>1, <2>4, <2>5
<1>4. ASSUME NEW u \in S, NEW v \in S, u < v
      PROVE  rank[u] < rank[v]
  <2>1. PICK T, U : T = {w \in S : w < u} /\ U = {w \in S : w < v}
    OBVIOUS
  <2>2. T \in SUBSET S /\ U \in SUBSET S /\ u \notin T /\ T \cup {u} \in SUBSET U
    <3>1. \A w \in S : w < u => w < v
      <4>1. \A w \in S : w \in Int
        OBVIOUS
      <4> QED BY <1>4, <4>1
    <3>2. u \in S /\ u < v /\ ~(u < u)
      BY <1>4
    <3> QED BY <2>1, <3>1, <3>2
  <2>3. IsFiniteSet(T) /\ IsFiniteSet(U)
    BY <2>2, FS_Subset
  <2>4. Cardinality(T \cup {u}) = Cardinality(T) + 1 /\ Cardinality(T) \in Nat
    BY <2>2, <2>3, FS_AddElement, FS_CardinalityType
  <2>5. Cardinality(T \cup {u}) <= Cardinality(U) /\ Cardinality(U) \in Nat
    BY <2>2, <2>3, FS_Subset, FS_CardinalityType
  <2> QED BY <1>2, <2>1, <2>4, <2>5
<1>5. \A u, v \in S : rank[u] = rank[v] => u = v
  <2> SUFFICES ASSUME NEW u \in S, NEW v \in S, rank[u] = rank[v], u # v PROVE FALSE
    OBVIOUS
  <2>1. u \in Int /\ v \in Int /\ (u < v \/ v < u)
    OBVIOUS
  <2> QED BY <1>3, <1>4, <2>1
<1>6. PICK place : place = [v \in S |-> rank[v] + 1]
  OBVIOUS
<1>7. place \in Injection(S, 1 .. c)
  <2>1. place \in [S -> 1 .. c]
    BY <1>3, <1>6
  <2>2. \A u, v \in S : place[u] = place[v] => u = v
    BY <1>3, <1>5, <1>6
  <2> QED BY <2>1, <2>2 DEF Injection, IsInjective
<1>8. place \in Surjection(S, 1 .. c)
  <2>1. IsFiniteSet(1 .. c)
    BY FS_Interval
  <2>2. Cardinality(1 .. c) = IF 1 > c THEN 0 ELSE c - 1 + 1
    BY FS_Interval
  <2>3. Cardinality(S) = Cardinality(1 .. c)
    BY <1>1, <2>2
  <2> QED BY <1>7, <2>1, <2>3, FS_Injection
<1>9. \A j \in 1 .. c : \E v \in S : place[v] = j
  BY <1>8 DEF Surjection
<1> DEFINE Nth(j) == CHOOSE v \in S : Cardinality({w \in S : w < v}) = j - 1
<1>10. PICK q : q = InOrder(S)
  OBVIOUS
<1>11. /\ DOMAIN q = 1 .. c /\ q = [j \in 1 .. c |-> q[j]]
       /\ \A j \in 1 .. c : q[j] = Nth(j)
  <2>1. q = [j \in 1 .. c |-> Nth(j)]
    BY <1>1, <1>10 DEF InOrder
  <2> HIDE DEF Nth
  <2> QED BY <2>1
<1>12. \A j \in 1 .. c : q[j] \in S /\ place[q[j]] = j
  <2> SUFFICES ASSUME NEW j \in 1 .. c PROVE q[j] \in S /\ place[q[j]] = j
    OBVIOUS
  <2>1. \E v \in S : rank[v] = j - 1
    <3>1. PICK v \in S : place[v] = j
      BY <1>9
    <3> QED BY <1>3, <1>6, <3>1
  <2>2. q[j] \in S /\ rank[q[j]] = j - 1
    <3>1. \E v \in S : Cardinality({w \in S : w < v}) = j - 1
      BY <1>2, <2>1
    <3>2. q[j] \in S /\ Cardinality({w \in S : w < q[j]}) = j - 1
      BY <1>11, <3>1
    <3> QED BY <1>2, <3>2
  <2> QED BY <1>6, <2>2
<1>13. q \in [1 .. c -> S]
  BY <1>11, <1>12
<1>14. ASSUME NEW j \in 1 .. c, NEW k \in 1 .. c, j < k
       PROVE  q[j] < q[k]
  <2>1. /\ q[j] \in S /\ q[k] \in S /\ q[j] \in Int /\ q[k] \in Int
        /\ rank[q[j]] = j - 1 /\ rank[q[k]] = k - 1
    <3>1. ASSUME NEW x \in 1 .. c
          PROVE  q[x] \in S /\ q[x] \in Int /\ rank[q[x]] = x - 1
      <4>1. q[x] \in S /\ place[q[x]] = x
        BY <1>12
      <4>2. place[q[x]] = rank[q[x]] + 1 /\ rank[q[x]] \in Nat
        BY <1>3, <1>6, <4>1
      <4>3. x = rank[q[x]] + 1
        BY <4>1, <4>2
      <4>4. rank[q[x]] = x - 1
        BY <4>2, <4>3
      <4>5. q[x] \in Int
        BY <4>1
      <4> QED BY <4>1, <4>4, <4>5
    <3> QED BY <3>1
  <2>2. ~(q[k] < q[j]) /\ q[k] # q[j]
    BY <1>4, <1>14, <2>1
  <2> QED BY <2>1, <2>2
<1>15. ASSUME NEW v \in S
       PROVE  \E j \in 1 .. c : q[j] = v
  <2>1. place[v] \in 1 .. c
    BY <1>3, <1>6
  <2>2. \A u \in S : place[u] = place[v] => u = v
    BY <1>3, <1>5, <1>6
  <2> QED BY <1>12, <2>1, <2>2
<1> QED BY <1>1, <1>10, <1>13, <1>14, <1>15 DEF Enumerates

LEMMA EnumeratesFacts ==
  ASSUME NEW S, IsFiniteSet(S), S \subseteq Int, NEW q, Enumerates(q, S)
  PROVE  /\ q \in Seq(S) /\ Len(q) = Cardinality(S) /\ DOMAIN q = 1 .. Len(q)
         /\ Range(q) = S /\ IsInjective(q) /\ Ascending(q)
<1>1. PICK c \in Nat : c = Cardinality(S)
  BY FS_CardinalityType
<1>2. q \in [1 .. c -> S] /\ \A j, k \in 1 .. c : j < k => q[j] < q[k]
  BY <1>1 DEF Enumerates
<1>3. q \in Seq(S) /\ Len(q) = c /\ DOMAIN q = 1 .. c
  BY <1>2
<1>4. Range(q) = S
  BY <1>1, <1>2, <1>3 DEF Enumerates, Range
<1>5. \A j \in 1 .. c : q[j] \in Int
  <2>1. \A j \in 1 .. c : q[j] \in S
    BY <1>2
  <2> QED BY <2>1
<1>6. IsInjective(q) /\ Ascending(q)
  BY <1>2, <1>3, <1>5 DEF IsInjective, Ascending
<1> QED BY <1>1, <1>3, <1>4, <1>6

-----------------------------------------------------------------------------
(* Binary search. *)

\* x is the place of v between a and z: what is before it is smaller than v, and
\* nothing that follows is.
Place(s, v, a, z, x) ==
  /\ x \in a .. z
  /\ \A y \in a .. (x - 1) : s[y + 1] < v
  /\ \A y \in x .. (z - 1) : s[y + 1] >= v

\* On an ascending slice there is one such place.
LEMMA OnePlace ==
  ASSUME NEW s \in Seq(Int), Ascending(s), NEW v \in Int,
         NEW a \in 0 .. Len(s), NEW z \in 0 .. Len(s), a <= z
  PROVE  /\ \E x : Place(s, v, a, z, x)
         /\ \A x, y : Place(s, v, a, z, x) /\ Place(s, v, a, z, y) => x = y
<1>1. PICK L \in Nat : L = Len(s)
  OBVIOUS
<1>2. DOMAIN s = 1 .. L /\ \A j \in 1 .. L : s[j] \in Int
  BY <1>1
<1>3. a \in 0 .. L /\ z \in 0 .. L
  BY <1>1
<1>4. \E x : Place(s, v, a, z, x)
  <2> DEFINE T == {x \in a .. z : x = z \/ s[x + 1] >= v}
  <2>1. PICK x \in T : \A y \in T : x <= y
    <3>1. z \in T /\ T \subseteq Nat
      BY <1>3
    <3> HIDE DEF T
    <3> QED BY <3>1, LeastElement
  <2>2. ASSUME NEW y \in a .. (x - 1)
        PROVE  s[y + 1] < v
    <3>1. y \in a .. z /\ y # z /\ y + 1 \in 1 .. L /\ ~(x <= y)
      BY <1>3, <2>1
    <3>2. y \notin T
      BY <2>1, <3>1
    <3>3. s[y + 1] \in Int /\ ~(s[y + 1] >= v)
      BY <1>2, <3>1, <3>2
    <3> QED BY <3>3
  <2>3. ASSUME NEW y \in x .. (z - 1)
        PROVE  s[y + 1] >= v
    <3>1. x # z /\ x + 1 \in 1 .. L /\ y + 1 \in 1 .. L /\ (x = y \/ x + 1 < y + 1)
      BY <1>3, <2>1
    <3>2. s[x + 1] >= v
      BY <2>1, <3>1
    <3>3. s[x + 1] <= s[y + 1]
      BY <1>2, <3>1 DEF Ascending
    <3> QED BY <1>2, <3>1, <3>2, <3>3
  <2> QED BY <2>1, <2>2, <2>3 DEF Place
<1>5. ASSUME NEW x, NEW y, Place(s, v, a, z, x), Place(s, v, a, z, y)
      PROVE  ~(x < y)
  <2> SUFFICES ASSUME x < y PROVE FALSE
    OBVIOUS
  <2>1. x \in Int /\ y \in Int /\ x \in a .. (y - 1) /\ x \in x .. (z - 1) /\ x + 1 \in 1 .. L
    BY <1>3, <1>5 DEF Place
  <2>2. s[x + 1] < v /\ s[x + 1] >= v /\ s[x + 1] \in Int
    BY <1>2, <1>5, <2>1 DEF Place
  <2> QED BY <2>2
<1>6. ASSUME NEW x, NEW y, Place(s, v, a, z, x), Place(s, v, a, z, y)
      PROVE  x = y
  <2>1. x \in Int /\ y \in Int
    BY <1>3, <1>6 DEF Place
  <2>2. ~(x < y) /\ ~(y < x)
    BY <1>5, <1>6
  <2> QED BY <2>1, <2>2
<1> QED BY <1>4, <1>6

\* One comparison leaves the half that holds the place.
LEMMA HalfKeepsPlace ==
  ASSUME NEW s \in Seq(Int), Ascending(s), NEW v \in Int,
         NEW a \in 0 .. Len(s), NEW z \in 0 .. Len(s), a < z, NEW c \in a .. (z - 1), NEW x
  PROVE  /\ s[c + 1] < v /\ Place(s, v, c + 1, z, x) => Place(s, v, a, z, x)
         /\ ~(s[c + 1] < v) /\ Place(s, v, a, c, x) => Place(s, v, a, z, x)
<1>1. PICK L \in Nat : L = Len(s)
  OBVIOUS
<1>2. DOMAIN s = 1 .. L /\ \A j \in 1 .. L : s[j] \in Int
  BY <1>1
<1>3. a \in 0 .. L /\ z \in 0 .. L /\ c \in Nat /\ c + 1 \in 1 .. L /\ s[c + 1] \in Int
  BY <1>1, <1>2
<1>4. ASSUME s[c + 1] < v, Place(s, v, c + 1, z, x)
      PROVE  Place(s, v, a, z, x)
  <2>1. x \in (c + 1) .. z /\ x \in a .. z
    BY <1>3, <1>4 DEF Place
  <2>2. ASSUME NEW y \in a .. (x - 1)
        PROVE  s[y + 1] < v
    <3>1. CASE y > c
      <4>1. y \in (c + 1) .. (x - 1)
        BY <1>3, <3>1
      <4> QED BY <1>4, <4>1 DEF Place
    <3>2. CASE y = c
      BY <1>4, <3>2
    <3>3. CASE y < c
      <4>1. y + 1 \in 1 .. L /\ y + 1 < c + 1
        BY <1>3, <3>3
      <4>2. s[y + 1] <= s[c + 1]
        BY <1>2, <1>3, <4>1 DEF Ascending
      <4> QED BY <1>2, <1>3, <1>4, <4>1, <4>2
    <3> QED BY <1>3, <3>1, <3>2, <3>3
  <2> QED BY <1>4, <2>1, <2>2 DEF Place
<1>5. ASSUME ~(s[c + 1] < v), Place(s, v, a, c, x)
      PROVE  Place(s, v, a, z, x)
  <2>1. x \in a .. c /\ x \in a .. z
    BY <1>3, <1>5 DEF Place
  <2>2. ASSUME NEW y \in x .. (z - 1)
        PROVE  s[y + 1] >= v
    <3>1. CASE y < c
      <4>1. y \in x .. (c - 1)
        BY <1>3, <3>1
      <4> QED BY <1>5, <4>1 DEF Place
    <3>2. CASE y = c
      BY <1>3, <1>5, <3>2
    <3>3. CASE y > c
      <4>1. y + 1 \in 1 .. L /\ c + 1 < y + 1
        BY <1>3, <2>1, <3>3
      <4>2. s[c + 1] <= s[y + 1]
        BY <1>2, <1>3, <4>1 DEF Ascending
      <4> QED BY <1>2, <1>3, <1>5, <4>1, <4>2
    <3> QED BY <1>3, <2>1, <3>1, <3>2, <3>3
  <2> QED BY <1>5, <2>1, <2>2 DEF Place
<1> QED BY <1>4, <1>5

\* The halving is well defined, and it returns the place.
LEMMA LowestIsPlace ==
  ASSUME NEW s \in Seq(Int), Ascending(s), NEW v \in Int, NEW l,
         l = CHOOSE f : f = [b \in {c \in (0 .. Len(s)) \X (0 .. Len(s)) : c[1] <= c[2]} |->
                               IF b[1] = b[2] THEN b[1]
                               ELSE IF s[(b[1] + b[2]) \div 2 + 1] < v
                                    THEN f[<<(b[1] + b[2]) \div 2 + 1, b[2]>>]
                                    ELSE f[<<b[1], (b[1] + b[2]) \div 2>>]]
  PROVE  Place(s, v, 0, Len(s), l[<<0, Len(s)>>])
<1> DEFINE Pairs == {c \in (0 .. Len(s)) \X (0 .. Len(s)) : c[1] <= c[2]}
           mid(b) == (b[1] + b[2]) \div 2
           half(f, b) == IF s[mid(b) + 1] < v THEN f[<<mid(b) + 1, b[2]>>] ELSE f[<<b[1], mid(b)>>]
           Halves(f) == f = [b \in Pairs |-> IF b[1] = b[2] THEN b[1] ELSE half(f, b)]
           At(b, x) == Place(s, v, b[1], b[2], x)
<1>1. Len(s) \in Nat
  OBVIOUS
<1>2. ASSUME NEW b \in Pairs
      PROVE  b[1] \in 0 .. Len(s) /\ b[2] \in 0 .. Len(s) /\ b[1] <= b[2]
  OBVIOUS
<1>3. ASSUME NEW b \in Pairs, b[1] # b[2]
      PROVE  /\ mid(b) \in b[1] .. (b[2] - 1)
             /\ <<mid(b) + 1, b[2]>> \in Pairs /\ <<b[1], mid(b)>> \in Pairs
  <2>1. PICK x \in Nat, y \in Nat : x = b[1] /\ y = b[2] /\ x < y /\ y <= Len(s)
    BY <1>1, <1>2, <1>3
  <2>2. PICK q \in Nat : q = (x + y) \div 2 /\ x <= q /\ q < y
    BY <2>1, SMTT(30)
  <2>3. mid(b) = q
    BY <2>1, <2>2
  <2>4. q + 1 \in 0 .. Len(s) /\ q \in 0 .. Len(s) /\ x \in 0 .. Len(s) /\ y \in 0 .. Len(s)
        /\ q + 1 <= y /\ x <= q /\ q \in x .. (y - 1)
    <3>1. PICK L \in Nat : L = Len(s)
      BY <1>1
    <3>2. q + 1 \in 0 .. L /\ q \in 0 .. L /\ x \in 0 .. L /\ y \in 0 .. L
          /\ q + 1 <= y /\ x <= q /\ q \in x .. (y - 1)
      BY <2>1, <2>2, <3>1, SMTT(30)
    <3> QED BY <3>1, <3>2
  <2> HIDE DEF mid
  <2> QED BY <2>1, <2>3, <2>4
<1> HIDE DEF mid
<1>4. ASSUME NEW f, NEW b \in Pairs, b[1] # b[2],
             At(<<mid(b) + 1, b[2]>>, f[<<mid(b) + 1, b[2]>>]),
             At(<<b[1], mid(b)>>, f[<<b[1], mid(b)>>])
      PROVE  At(b, half(f, b))
  <2>1. b[1] \in 0 .. Len(s) /\ b[2] \in 0 .. Len(s) /\ b[1] < b[2] /\ mid(b) \in b[1] .. (b[2] - 1)
    <3>1. b[1] \in 0 .. Len(s) /\ b[2] \in 0 .. Len(s) /\ b[1] <= b[2]
      BY <1>2
    <3>2. mid(b) \in b[1] .. (b[2] - 1)
      BY <1>3, <1>4
    <3> HIDE DEF Pairs
    <3> QED BY <1>1, <1>4, <3>1, <3>2
  <2>2. CASE s[mid(b) + 1] < v
    BY <1>4, <2>1, <2>2, HalfKeepsPlace
  <2>3. CASE ~(s[mid(b) + 1] < v)
    BY <1>4, <2>1, <2>3, HalfKeepsPlace
  <2> QED BY <2>2, <2>3
<1>5. ASSUME NEW b \in Pairs, b[1] = b[2]
      PROVE  At(b, b[1])
  BY <1>1, <1>2, <1>5 DEF Place
<1> HIDE DEF half
\* A function that halves: the place itself.
<1>6. \E f : Halves(f)
  <2> DEFINE g == [b \in Pairs |-> CHOOSE x : At(b, x)]
  <2>1. \A b \in Pairs : At(b, g[b]) /\ \A x : At(b, x) => x = g[b]
    <3> SUFFICES ASSUME NEW b \in Pairs
                 PROVE  At(b, g[b]) /\ \A x : At(b, x) => x = g[b]
      OBVIOUS
    <3>1. (\E x : At(b, x)) /\ \A x, y : At(b, x) /\ At(b, y) => x = y
      BY <1>2, OnePlace
    <3>2. g[b] = CHOOSE x : At(b, x)
      OBVIOUS
    <3> HIDE DEF At, g
    <3> QED BY <3>1, <3>2
  <2>2. ASSUME NEW b \in Pairs
        PROVE  g[b] = IF b[1] = b[2] THEN b[1] ELSE half(g, b)
    <3> HIDE DEF At, g, Pairs
    <3>1. CASE b[1] = b[2]
      BY <1>5, <2>1, <3>1
    <3>2. CASE b[1] # b[2]
      BY <1>3, <1>4, <2>1, <3>2
    <3> QED BY <3>1, <3>2
  <2>3. DOMAIN g = Pairs /\ g = [b \in Pairs |-> g[b]]
    OBVIOUS
  <2> HIDE DEF g, Pairs
  <2>4. g = [b \in Pairs |-> IF b[1] = b[2] THEN b[1] ELSE half(g, b)]
    BY <2>2, <2>3
  <2> QED BY <2>4
<1>7. Halves(l)
  BY <1>6 DEF half, mid
\* Every function that halves gives the place.
<1> DEFINE S == {d \in Nat : \A b \in Pairs : b[2] - b[1] <= d => At(b, l[b])}
<1>8. 0 \in S
  <2>1. ASSUME NEW b \in Pairs, b[2] - b[1] <= 0
        PROVE  At(b, l[b])
    <3>1. b[1] = b[2]
      BY <1>1, <1>2, <2>1
    <3>2. l[b] = b[1]
      BY <1>7, <3>1
    <3> QED BY <1>5, <3>1, <3>2
  <2> HIDE DEF At, Pairs
  <2> QED BY <2>1
<1>9. ASSUME NEW d \in Nat, d \in S
      PROVE  d + 1 \in S
  <2>1. ASSUME NEW b \in Pairs, b[2] - b[1] <= d + 1
        PROVE  At(b, l[b])
    <3>1. CASE b[1] = b[2]
      <4>1. l[b] = b[1]
        BY <1>7, <3>1
      <4> QED BY <1>5, <3>1, <4>1
    <3>2. CASE b[1] # b[2]
      <4>1. l[b] = half(l, b)
        BY <1>7, <3>2
      <4>2. /\ mid(b) \in b[1] .. (b[2] - 1)
            /\ <<mid(b) + 1, b[2]>> \in Pairs /\ <<b[1], mid(b)>> \in Pairs
        BY <1>3, <3>2
      <4>3. b[2] - (mid(b) + 1) <= d /\ mid(b) - b[1] <= d
        <5>1. b[1] \in Int /\ b[2] \in Int
          BY <1>1, <1>2
        <5> QED BY <2>1, <4>2, <5>1
      <4>4. /\ At(<<mid(b) + 1, b[2]>>, l[<<mid(b) + 1, b[2]>>])
            /\ At(<<b[1], mid(b)>>, l[<<b[1], mid(b)>>])
        BY <1>9, <4>2, <4>3
      <4> HIDE DEF At, Pairs
      <4> QED BY <1>4, <3>2, <4>1, <4>4
    <3> QED BY <3>1, <3>2
  <2> HIDE DEF At, Pairs
  <2>2. d + 1 \in Nat
    OBVIOUS
  <2> QED BY <2>1, <2>2
<1>10. Len(s) \in S
  <2> HIDE DEF S
  <2> QED BY <1>1, <1>8, <1>9, SetInduction
<1>11. <<0, Len(s)>> \in Pairs /\ Len(s) - 0 <= Len(s)
  BY <1>1
<1> QED BY <1>10, <1>11

\* The index of the search is the place, on an ascending slice of any length.
LEMMA BinarySearchPlace ==
  ASSUME NEW s \in Seq(Int), Ascending(s), NEW v \in Int
  PROVE  Place(s, v, 0, Len(s), BinarySearch(s, v).index)
<1> DEFINE l == CHOOSE f : f = [b \in {c \in (0 .. Len(s)) \X (0 .. Len(s)) : c[1] <= c[2]} |->
                             IF b[1] = b[2] THEN b[1]
                             ELSE IF s[(b[1] + b[2]) \div 2 + 1] < v
                                  THEN f[<<(b[1] + b[2]) \div 2 + 1, b[2]>>]
                                  ELSE f[<<b[1], (b[1] + b[2]) \div 2>>]]
<1>1. BinarySearch(s, v).index = l[<<0, Len(s)>>]
  BY DEF BinarySearch
<1>2. Place(s, v, 0, Len(s), l[<<0, Len(s)>>])
  <2>1. PICK x : x = l
    OBVIOUS
  <2>2. Place(s, v, 0, Len(s), x[<<0, Len(s)>>])
    BY <2>1, LowestIsPlace
  <2> HIDE DEF l
  <2> QED BY <2>1, <2>2
<1> HIDE DEF l
<1> QED BY <1>1, <1>2

\* The search finds what is there.
LEMMA BinarySearchFinds ==
  ASSUME NEW s \in Seq(Int), Ascending(s), NEW v \in Int
  PROVE  BinarySearch(s, v).found <=> \E j \in DOMAIN s : s[j] = v
<1>1. PICK at : /\ Place(s, v, 0, Len(s), at)
                /\ BinarySearch(s, v).found = (at < Len(s) /\ s[at + 1] = v)
  <2>1. BinarySearch(s, v).found
          = (BinarySearch(s, v).index < Len(s) /\ s[BinarySearch(s, v).index + 1] = v)
    BY DEF BinarySearch
  <2> QED BY <2>1, BinarySearchPlace
<1>2. PICK L \in Nat : L = Len(s)
  OBVIOUS
<1>3. DOMAIN s = 1 .. L /\ \A j \in 1 .. L : s[j] \in Int
  BY <1>2
<1>4. at \in 0 .. L
  BY <1>1, <1>2 DEF Place
<1>5. ASSUME NEW j \in DOMAIN s, s[j] = v
      PROVE  at < L /\ s[at + 1] = v
  <2>1. j - 1 >= at
    <3> SUFFICES ASSUME j - 1 < at PROVE FALSE
      BY <1>3, <1>4
    <3>1. j - 1 \in 0 .. (at - 1) /\ (j - 1) + 1 = j
      BY <1>3, <1>4
    <3>2. s[j] < v
      BY <1>1, <3>1 DEF Place
    <3> QED BY <1>5, <3>2
  <2>2. at < L /\ at \in at .. (L - 1) /\ at + 1 \in 1 .. L /\ (at + 1 = j \/ at + 1 < j)
    BY <1>3, <1>4, <2>1
  <2>3. (s[at + 1] >= v /\ s[at + 1] <= s[j]) \/ at + 1 = j
    BY <1>1, <1>2, <1>3, <2>2 DEF Place, Ascending
  <2> QED BY <1>3, <1>5, <2>2, <2>3
<1>6. at < L /\ s[at + 1] = v => at + 1 \in DOMAIN s
  BY <1>3, <1>4
<1> QED BY <1>1, <1>2, <1>5, <1>6
=============================================================================
