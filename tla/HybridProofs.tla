---------------------------- MODULE HybridProofs ----------------------------
(* Proofs about HybridBuild, for every word size and every list of edges. *)
EXTENDS HybridBuild, NaturalFacts, FiniteSetTheorems, SequenceTheorems

\* What is proved of buildCSRArrays holds of the call that NewHybrid makes.
Rest == INSTANCE CSRProofs WITH edges <- rest

-----------------------------------------------------------------------------
(* The inductive invariant, in named parts. *)

\* The edges already split, and those read by a loop that has read k of them.
Read == IF phase \in {"degree", "promote"} THEN 0
        ELSE IF phase = "split" THEN i ELSE Len(edges)
From(k, u)      == {j \in 1 .. k : edges[j].from = u}
FromTo(k, u, v) == {j \in 1 .. k : edges[j].from = u /\ edges[j].to = v}
FromHubs(k)     == {j \in 1 .. k : edges[j].from \in isHub}

\* The indices of the loops, and the arguments.
Loops ==
  /\ phase \in {"degree", "split"} => i <= Len(edges)
  /\ phase = "promote" => i <= n
  /\ \A j, l \in DOMAIN edges : edges[j] = edges[l] => j = l

DegreesCounted ==
  \A u \in Vertex :
    deg[u] = Cardinality(From(IF phase = "degree" THEN i ELSE Len(edges), u))

\* The vertices before i have been decided.
HubsMarked ==
  /\ phase = "degree" => isHub = {}
  /\ phase = "promote" =>
       \A u \in Vertex : IF u < i THEN u \in isHub \/ hubRow[u] = -1 ELSE u \notin isHub

\* The rows take at most one target per hub more than the edges of the hubs.
RoomPaid == 2 * usedWords <= Cardinality(FromHubs(Len(edges))) + numHubs

\* A bit of a row is set when the edge it stands for has been read.
BitsSet ==
  phase \notin {"degree", "promote"} =>
    \A u \in isHub, w \in 0 .. (wordsPerRow - 1), b \in 0 .. (WordBits - 1) :
      b \in hubBits[hubRow[u] * wordsPerRow + w] <=>
        \E j \in 1 .. Read : edges[j].from = u /\ edges[j].to = w * WordBits + b

\* rest has the edges read that leave no hub, with their multiplicity.
RestKept ==
  /\ phase \in {"degree", "promote"} => rest = <<>>
  /\ \A j \in DOMAIN rest : rest[j].from \notin isHub
  /\ \A u \in Vertex : u \notin isHub =>
       /\ OutDegree(rest, u) = Cardinality(From(Read, u))
       /\ \A v \in Vertex : Multiplicity(rest, u, v) = Cardinality(FromTo(Read, u, v))
  /\ Len(rest) + Cardinality(FromHubs(Read)) = Read

\* The call of buildCSRArrays.
ArraysBuilt ==
  IF phase \in {"degree", "promote", "split"}
  THEN offsets = <<>> /\ targets = <<>> /\ cursor = <<>>
  ELSE Rest!Arrays

IInv ==
  /\ RowsConsistent
  /\ Loops
  /\ DegreesCounted
  /\ HubsMarked
  /\ RoomPaid
  /\ BitsSet
  /\ RestKept
  /\ ArraysBuilt

-----------------------------------------------------------------------------
(* Counting. *)

\* One more number is counted once.
LEMMA OneMore ==
  ASSUME NEW T, NEW k \in Nat
  PROVE  /\ IsFiniteSet(T \cap (1 .. k)) /\ Cardinality(T \cap (1 .. k)) \in Nat
         /\ Cardinality(T \cap (1 .. k)) <= k
         /\ T \cap (1 .. k) = {} => Cardinality(T \cap (1 .. k)) = 0
         /\ Cardinality(T \cap (1 .. (k + 1)))
              = Cardinality(T \cap (1 .. k)) + (IF k + 1 \in T THEN 1 ELSE 0)
<1>1. IsFiniteSet(1 .. k) /\ Cardinality(1 .. k) = k /\ T \cap (1 .. k) \in SUBSET (1 .. k)
  BY FS_Interval
<1>2. IsFiniteSet(T \cap (1 .. k)) /\ Cardinality(T \cap (1 .. k)) <= k
  BY <1>1, FS_Subset
<1>3. Cardinality(T \cap (1 .. k)) \in Nat
  BY <1>2, FS_CardinalityType
<1>4. 1 .. (k + 1) = (1 .. k) \cup {k + 1} /\ k + 1 \notin 1 .. k
  OBVIOUS
<1>5. CASE k + 1 \in T
  <2>1. T \cap (1 .. (k + 1)) = (T \cap (1 .. k)) \cup {k + 1} /\ k + 1 \notin T \cap (1 .. k)
    BY <1>4, <1>5
  <2>2. Cardinality((T \cap (1 .. k)) \cup {k + 1}) = Cardinality(T \cap (1 .. k)) + 1
    BY <1>2, <2>1, FS_AddElement
  <2> QED BY <1>2, <1>3, <1>5, <2>1, <2>2, FS_EmptySet
<1>6. CASE k + 1 \notin T
  <2>1. T \cap (1 .. (k + 1)) = T \cap (1 .. k)
    BY <1>4, <1>6
  <2> QED BY <1>2, <1>3, <1>6, <2>1, FS_EmptySet
<1> QED BY <1>5, <1>6

\* What the type invariant says of the edges.
LEMMA EdgesType ==
  ASSUME TypeOK
  PROVE  /\ n \in Nat /\ Len(edges) \in Nat /\ DOMAIN edges = 1 .. Len(edges)
         /\ \A j \in 1 .. Len(edges) : /\ edges[j] \in [from : Vertex, to : Vertex]
                                       /\ edges[j].from \in Vertex /\ edges[j].to \in Vertex
         /\ Len(rest) \in Nat /\ DOMAIN rest = 1 .. Len(rest)
         /\ \A j \in 1 .. Len(rest) : rest[j].from \in Vertex /\ rest[j].to \in Vertex
<1> DEFINE E == [from : Vertex, to : Vertex]
<1>1. n \in Nat /\ edges \in Seq(E) /\ rest \in Seq(E)
  BY DEF TypeOK
<1>2. ASSUME NEW S, NEW s \in Seq(S)
      PROVE  Len(s) \in Nat /\ DOMAIN s = 1 .. Len(s) /\ \A j \in 1 .. Len(s) : s[j] \in S
  OBVIOUS
<1>3. /\ Len(edges) \in Nat /\ DOMAIN edges = 1 .. Len(edges)
      /\ \A j \in 1 .. Len(edges) : edges[j] \in E
      /\ Len(rest) \in Nat /\ DOMAIN rest = 1 .. Len(rest)
      /\ \A j \in 1 .. Len(rest) : rest[j] \in E
  <2> HIDE DEF E
  <2> QED BY <1>1, <1>2
<1> QED BY <1>1, <1>3

\* The counts are natural numbers, zero before anything is read, and one more edge is
\* counted where it belongs.
LEMMA CountsOf ==
  ASSUME TypeOK, NEW k \in Nat, NEW u, NEW v
  PROVE  /\ Cardinality(From(k, u)) \in Nat /\ Cardinality(FromTo(k, u, v)) \in Nat
         /\ Cardinality(FromHubs(k)) \in Nat /\ Cardinality(FromHubs(k)) <= k
         /\ IsFiniteSet(From(k, u)) /\ IsFiniteSet(FromTo(k, u, v)) /\ IsFiniteSet(FromHubs(k))
         /\ Cardinality(From(0, u)) = 0 /\ Cardinality(FromTo(0, u, v)) = 0
         /\ Cardinality(FromHubs(0)) = 0
         /\ Cardinality(From(k + 1, u))
              = Cardinality(From(k, u)) + (IF edges[k + 1].from = u THEN 1 ELSE 0)
         /\ Cardinality(FromTo(k + 1, u, v))
              = Cardinality(FromTo(k, u, v))
                  + (IF edges[k + 1].from = u /\ edges[k + 1].to = v THEN 1 ELSE 0)
         /\ Cardinality(FromHubs(k + 1))
              = Cardinality(FromHubs(k)) + (IF edges[k + 1].from \in isHub THEN 1 ELSE 0)
<1> DEFINE A == {j \in Nat : edges[j].from = u}
           B == {j \in Nat : edges[j].from = u /\ edges[j].to = v}
           C == {j \in Nat : edges[j].from \in isHub}
<1>1. \A l \in Nat : /\ From(l, u) = A \cap (1 .. l) /\ FromTo(l, u, v) = B \cap (1 .. l)
                     /\ FromHubs(l) = C \cap (1 .. l)
  BY DEF From, FromTo, FromHubs
<1>2. k + 1 \in Nat /\ 0 \in Nat /\ 1 .. 0 = {}
  OBVIOUS
<1>3. /\ edges[k + 1].from = u <=> k + 1 \in A
      /\ edges[k + 1].from = u /\ edges[k + 1].to = v <=> k + 1 \in B
      /\ edges[k + 1].from \in isHub <=> k + 1 \in C
  BY <1>2
<1> HIDE DEF A, B, C
<1>4. A \cap (1 .. 0) = {} /\ B \cap (1 .. 0) = {} /\ C \cap (1 .. 0) = {}
  BY <1>2
<1>5. /\ Cardinality(A \cap (1 .. 0)) = 0 /\ Cardinality(B \cap (1 .. 0)) = 0
      /\ Cardinality(C \cap (1 .. 0)) = 0
  BY <1>4, FS_EmptySet
<1>6. \A l \in Nat : /\ Cardinality(From(l, u)) = Cardinality(A \cap (1 .. l))
                     /\ Cardinality(FromTo(l, u, v)) = Cardinality(B \cap (1 .. l))
                     /\ Cardinality(FromHubs(l)) = Cardinality(C \cap (1 .. l))
  BY <1>1
<1>7. /\ IsFiniteSet(From(k, u)) /\ IsFiniteSet(FromTo(k, u, v)) /\ IsFiniteSet(FromHubs(k))
      /\ Cardinality(From(k, u)) \in Nat /\ Cardinality(FromTo(k, u, v)) \in Nat
      /\ Cardinality(FromHubs(k)) \in Nat /\ Cardinality(FromHubs(k)) <= k
  <2>1. \A T : /\ IsFiniteSet(T \cap (1 .. k)) /\ Cardinality(T \cap (1 .. k)) \in Nat
               /\ Cardinality(T \cap (1 .. k)) <= k
    BY OneMore
  <2> QED BY <1>1, <2>1
<1>8. Cardinality(A \cap (1 .. (k + 1)))
        = Cardinality(A \cap (1 .. k)) + (IF edges[k + 1].from = u THEN 1 ELSE 0)
  BY <1>3, OneMore
<1>9. Cardinality(B \cap (1 .. (k + 1)))
        = Cardinality(B \cap (1 .. k))
            + (IF edges[k + 1].from = u /\ edges[k + 1].to = v THEN 1 ELSE 0)
  BY <1>3, OneMore
<1>10. Cardinality(C \cap (1 .. (k + 1)))
         = Cardinality(C \cap (1 .. k)) + (IF edges[k + 1].from \in isHub THEN 1 ELSE 0)
  BY <1>3, OneMore
<1> QED BY <1>2, <1>5, <1>6, <1>7, <1>8, <1>9, <1>10

\* Appending an edge to a list counts it once.
LEMMA AppendCounts ==
  ASSUME NEW E, NEW s \in Seq(E), NEW e \in E, NEW u, NEW v
  PROVE  /\ OutDegree(Append(s, e), u) = OutDegree(s, u) + (IF e.from = u THEN 1 ELSE 0)
         /\ Multiplicity(Append(s, e), u, v)
              = Multiplicity(s, u, v) + (IF e.from = u /\ e.to = v THEN 1 ELSE 0)
         /\ OutDegree(<<>>, u) = 0 /\ Multiplicity(<<>>, u, v) = 0
<1> DEFINE t == Append(s, e)
           A == {j \in Nat : t[j].from = u}
           B == {j \in Nat : t[j].from = u /\ t[j].to = v}
<1>1. PICK k \in Nat : k = Len(s)
  OBVIOUS
<1>2. /\ DOMAIN s = 1 .. k /\ DOMAIN t = 1 .. (k + 1) /\ t[k + 1] = e
      /\ \A j \in 1 .. k : t[j] = s[j]
  BY <1>1
<1> HIDE DEF t
<1>3. /\ {j \in DOMAIN s : s[j].from = u} = A \cap (1 .. k)
      /\ {j \in DOMAIN s : s[j].from = u /\ s[j].to = v} = B \cap (1 .. k)
      /\ {j \in DOMAIN t : t[j].from = u} = A \cap (1 .. (k + 1))
      /\ {j \in DOMAIN t : t[j].from = u /\ t[j].to = v} = B \cap (1 .. (k + 1))
  BY <1>2
<1>4. /\ e.from = u <=> k + 1 \in A
      /\ e.from = u /\ e.to = v <=> k + 1 \in B
  BY <1>1, <1>2
<1> HIDE DEF A, B
<1>5. /\ OutDegree(t, u) = OutDegree(s, u) + (IF e.from = u THEN 1 ELSE 0)
      /\ Multiplicity(t, u, v) = Multiplicity(s, u, v)
                                   + (IF e.from = u /\ e.to = v THEN 1 ELSE 0)
  <2>1. /\ OutDegree(t, u) = Cardinality(A \cap (1 .. (k + 1)))
        /\ OutDegree(s, u) = Cardinality(A \cap (1 .. k))
        /\ Multiplicity(t, u, v) = Cardinality(B \cap (1 .. (k + 1)))
        /\ Multiplicity(s, u, v) = Cardinality(B \cap (1 .. k))
    BY <1>3 DEF OutDegree, Multiplicity
  <2>2. Cardinality(A \cap (1 .. (k + 1)))
          = Cardinality(A \cap (1 .. k)) + (IF e.from = u THEN 1 ELSE 0)
    BY <1>4, OneMore
  <2>3. Cardinality(B \cap (1 .. (k + 1)))
          = Cardinality(B \cap (1 .. k)) + (IF e.from = u /\ e.to = v THEN 1 ELSE 0)
    BY <1>4, OneMore
  <2> QED BY <2>1, <2>2, <2>3
<1>6. OutDegree(<<>>, u) = 0 /\ Multiplicity(<<>>, u, v) = 0
  <2>1. /\ {j \in DOMAIN <<>> : <<>>[j].from = u} = {}
        /\ {j \in DOMAIN <<>> : <<>>[j].from = u /\ <<>>[j].to = v} = {}
    OBVIOUS
  <2> QED BY <2>1, FS_EmptySet DEF OutDegree, Multiplicity
<1> QED BY <1>5, <1>6 DEF t

-----------------------------------------------------------------------------
(* Words and rows. *)

\* Every vertex has a bit in a row: hybrid.go:42, 65, 139.
LEMMA RowWords ==
  ASSUME n \in Nat
  PROVE  /\ wordsPerRow \in Nat
         /\ \A v \in Vertex : /\ v \div WordBits \in 0 .. (wordsPerRow - 1)
                              /\ v % WordBits \in 0 .. (WordBits - 1)
                              /\ v = (v \div WordBits) * WordBits + (v % WordBits)
<1>1. PICK W \in Nat \ {0} : W = WordBits
  BY HybridAssumption
<1>2. n + W - 1 \in Nat
  BY <1>1
<1>3. PICK R \in Nat, x \in 0 .. (W - 1) :
        R = (n + W - 1) \div W /\ n + W - 1 = W * R + x
  BY <1>1, <1>2, DivisionFacts
<1>4. wordsPerRow = R
  BY <1>1, <1>3 DEF wordsPerRow
<1>5. ASSUME NEW v \in Vertex
      PROVE  /\ v \div W \in 0 .. (R - 1) /\ v % W \in 0 .. (W - 1)
             /\ v = (v \div W) * W + (v % W)
  <2>1. v \in Nat /\ v < n
    BY DEF Vertex
  <2>2. PICK q \in Nat, b \in 0 .. (W - 1) : q = v \div W /\ b = v % W /\ v = W * q + b
    BY <1>1, <2>1, DivisionFacts, ZenonT(30)
  <2>3. PICK p \in Nat, r \in Nat : p = W * q /\ r = W * R
    BY <1>1, <1>3, <2>2
  <2>4. p < r
    BY <1>1, <1>2, <1>3, <2>1, <2>2, <2>3
  <2>5. q < R
    <3> SUFFICES ASSUME R <= q PROVE FALSE
      BY <1>3, <2>2
    <3>1. W * R <= W * q
      BY <1>1, ProductMonotone
    <3> QED BY <2>3, <2>4, <3>1
  <2>6. v = q * W + b
    BY <1>1, <2>2
  <2>7. q \in 0 .. (R - 1)
    BY <1>3, <2>2, <2>5
  <2> QED BY <2>2, <2>6, <2>7
<1> QED BY <1>1, <1>3, <1>4, <1>5

\* The word of a row is in hubBits, and belongs to one row only: hybrid.go:60, 65, 88-91.
LEMMA RowPlaces ==
  ASSUME RowsConsistent, NEW u \in isHub, NEW w \in 0 .. (wordsPerRow - 1)
  PROVE  /\ hubRow[u] * wordsPerRow + w \in 0 .. (numHubs * wordsPerRow - 1)
         /\ \A x \in isHub, y \in 0 .. (wordsPerRow - 1) :
              hubRow[u] * wordsPerRow + w = hubRow[x] * wordsPerRow + y => u = x /\ w = y
<1>1. PICK R \in Nat, H \in Nat : R = wordsPerRow /\ H = numHubs
  BY RowWords DEF RowsConsistent, TypeOK
<1>2. \A x \in isHub : hubRow[x] \in 0 .. (H - 1)
  BY <1>1 DEF RowsConsistent
<1>3. PICK r \in 0 .. (H - 1) : r = hubRow[u]
  BY <1>2
<1>4. r \in Nat /\ r < H /\ w \in 0 .. (R - 1)
  BY <1>1
<1>5. PICK p \in Nat, q \in Nat : p = r * R /\ q = H * R
  BY <1>1, <1>4
<1>6. p + R <= q
  BY <1>4, <1>5, Multiples
<1>7. hubRow[u] * wordsPerRow + w \in 0 .. (numHubs * wordsPerRow - 1)
  BY <1>1, <1>3, <1>4, <1>5, <1>6
<1>8. ASSUME NEW x \in isHub, NEW y \in 0 .. (wordsPerRow - 1),
             hubRow[u] * wordsPerRow + w = hubRow[x] * wordsPerRow + y
      PROVE  u = x /\ w = y
  <2>1. PICK s \in Nat : s = hubRow[x]
    BY <1>2, <1>1
  <2>2. r * R + w = s * R + y /\ y \in 0 .. (R - 1)
    BY <1>1, <1>3, <1>8, <2>1
  <2>3. r = s /\ w = y
    BY <1>4, <2>2, PlaceUnique
  <2> QED BY <1>3, <2>1, <2>3 DEF RowsConsistent
<1> QED BY <1>7, <1>8

\* A degree above the threshold pays for the row but for one target: the threshold is
\* rounded down, the row is rounded up (hybrid.go:28-30, 42, 52).
LEMMA PromotionPays ==
  ASSUME n \in Nat, NEW d \in Nat, d > thr
  PROVE  2 * wordsPerRow <= d + 1
<1>1. PICK h \in Nat \ {0} : WordBits = 2 * h /\ h = WordBits \div 2
  BY HybridAssumption
<1>2. PICK q \in Nat, x \in 0 .. (h - 1) : q = n \div h /\ n = h * q + x
  BY <1>1, DivisionFacts
<1>3. hubThreshold = q
  BY <1>1, <1>2 DEF hubThreshold
<1>4. q + 1 <= d
  BY <1>2, <1>3 DEF thr, Tiny
<1>5. 2 * h \in Nat \ {0} /\ n + 2 * h - 1 \in Nat
  BY <1>1
<1>6. PICK R \in Nat, y \in 0 .. (2 * h - 1) :
        R = (n + 2 * h - 1) \div (2 * h) /\ n + 2 * h - 1 = (2 * h) * R + y
  BY <1>5, DivisionFacts, ZenonT(30)
<1>7. wordsPerRow = R
  BY <1>1, <1>6 DEF wordsPerRow
<1>8. 2 * R < q + 3
  <2> SUFFICES ASSUME q + 3 <= 2 * R PROVE FALSE
    BY <1>2, <1>6
  <2>1. PICK p \in Nat, r \in Nat : p = h * q /\ r = h * R
    BY <1>1, <1>2, <1>6
  <2>2. h * (q + 3) <= h * (2 * R)
    <3>1. q + 3 \in Nat /\ 2 * R \in Nat
      BY <1>2, <1>6
    <3> QED BY <1>1, <3>1, ProductMonotone
  <2>3. h * (q + 3) = p + 3 * h /\ h * (2 * R) = 2 * r /\ (2 * h) * R = 2 * r
    <3>1. h * (q + 3) = h * q + h * 3
      <4>1. h \in Nat /\ q \in Nat /\ 3 \in Nat
        BY <1>1, <1>2
      <4> QED BY <4>1, ProductFacts
    <3>2. h * (2 * R) = 2 * (h * R) /\ (2 * h) * R = 2 * (h * R)
      <4>1. h \in Nat /\ R \in Nat
        BY <1>1, <1>6
      <4> QED BY <4>1, ProductFacts
    <3>4. h * 3 = 3 * h
      BY <1>1
    <3> QED BY <2>1, <3>1, <3>2, <3>4
  <2>4. n = p + x /\ n + 2 * h - 1 = 2 * r + y
    BY <1>2, <1>6, <2>1, <2>3
  <2> QED BY <1>1, <1>2, <1>6, <2>1, <2>2, <2>3, <2>4
<1> QED BY <1>2, <1>4, <1>6, <1>7, <1>8

-----------------------------------------------------------------------------
(* Each step keeps the invariant. *)

LEMMA SameArguments ==
  ASSUME [Next]_vars
  PROVE  /\ n' = n /\ edges' = edges /\ Vertex' = Vertex /\ Len(edges)' = Len(edges)
         /\ wordsPerRow' = wordsPerRow /\ budgetWords' = budgetWords
         /\ \A k, u, v : From(k, u)' = From(k, u) /\ FromTo(k, u, v)' = FromTo(k, u, v)
         /\ isHub' = isHub => \A k : FromHubs(k)' = FromHubs(k)
<1>1. n' = n /\ edges' = edges
  BY DEF Next, Build, CountDegree, Promote, Split, BuildRest, Built, vars, Csr!Build,
         Csr!Allocate, Csr!Count, Csr!Prefix, Csr!Scatter, Csr!Sort
<1> QED BY <1>1 DEF Vertex, wordsPerRow, budgetWords, From, FromTo, FromHubs

LEMMA InitIInv == Init => IInv
<1> SUFFICES ASSUME Init PROVE IInv
  OBVIOUS
<1>1. PICK x \in Inputs : n = x.n /\ edges = x.edges
  BY DEF Init
<1>2. /\ phase = "degree" /\ i = 0 /\ deg = [u \in Vertex |-> 0] /\ hubRow = [u \in Vertex |-> 0]
      /\ isHub = {} /\ numHubs = 0 /\ usedWords = 0 /\ hubBits = <<>> /\ rest = <<>>
      /\ offsets = <<>> /\ targets = <<>> /\ cursor = <<>>
  BY DEF Init
<1>3. /\ n \in Nat /\ edges \in Seq([from : Vertex, to : Vertex])
      /\ \A j, l \in DOMAIN edges : edges[j] = edges[l] => j = l
  BY <1>1, HybridAssumption DEF Vertex
<1>4. TypeOK
  BY <1>2, <1>3 DEF TypeOK
<1>5. Len(edges) \in Nat /\ wordsPerRow \in Nat
  BY <1>3, <1>4, EdgesType, RowWords
<1>6. /\ Cardinality(isHub) = 0 /\ budgetWords \in Nat
      /\ 0 * wordsPerRow = 0
  BY <1>2, <1>5, FS_EmptySet DEF budgetWords
<1>7. RowsConsistent
  BY <1>2, <1>4, <1>6 DEF RowsConsistent
<1>8. Loops
  BY <1>2, <1>3, <1>5 DEF Loops
<1>9. DegreesCounted
  BY <1>2, <1>4, CountsOf DEF DegreesCounted
<1>10. HubsMarked
  BY <1>2 DEF HubsMarked
<1>11. RoomPaid
  BY <1>2, <1>4, <1>5, CountsOf DEF RoomPaid
<1>12. BitsSet
  BY <1>2 DEF BitsSet
<1>13. RestKept
  <2>1. Read = 0 /\ DOMAIN rest = {} /\ Len(rest) = 0
    BY <1>2 DEF Read
  <2>2. \A u, v : OutDegree(rest, u) = 0 /\ Multiplicity(rest, u, v) = 0
    BY <1>2, FS_EmptySet DEF OutDegree, Multiplicity
  <2>3. \A u, v : Cardinality(From(0, u)) = 0 /\ Cardinality(FromTo(0, u, v)) = 0
                  /\ Cardinality(FromHubs(0)) = 0
    BY <1>4, CountsOf
  <2> QED BY <1>2, <2>1, <2>2, <2>3 DEF RestKept
<1>14. ArraysBuilt
  BY <1>2 DEF ArraysBuilt
<1> QED BY <1>7, <1>8, <1>9, <1>10, <1>11, <1>12, <1>13, <1>14 DEF IInv

\* deg[e.From]++: hybrid.go:35-37.
LEMMA CountDegreeIInv ==
  ASSUME IInv, CountDegree, [Next]_vars
  PROVE  IInv'
<1>1. /\ TypeOK /\ n \in Nat /\ Len(edges) \in Nat /\ phase = "degree" /\ i \in Nat
      /\ i <= Len(edges) /\ deg \in [Vertex -> Nat]
      /\ \A j \in 1 .. Len(edges) : edges[j].from \in Vertex
  BY EdgesType DEF IInv, RowsConsistent, Loops, CountDegree, TypeOK
<1>2. /\ n' = n /\ edges' = edges /\ hubRow' = hubRow /\ isHub' = isHub /\ numHubs' = numHubs
      /\ usedWords' = usedWords /\ hubBits' = hubBits /\ rest' = rest
      /\ offsets' = offsets /\ targets' = targets /\ cursor' = cursor
  BY DEF CountDegree
<1>3. \/ i < Len(edges) /\ phase' = phase /\ i' = i + 1
         /\ deg' = [deg EXCEPT ![edges[i + 1].from] = @ + 1]
      \/ i = Len(edges) /\ phase' = "promote" /\ i' = 0 /\ deg' = deg
  BY DEF CountDegree
<1>4. /\ Vertex' = Vertex /\ Len(edges)' = Len(edges) /\ wordsPerRow' = wordsPerRow
      /\ budgetWords' = budgetWords
      /\ \A k, u, v : From(k, u)' = From(k, u) /\ FromTo(k, u, v)' = FromTo(k, u, v)
      /\ \A k : FromHubs(k)' = FromHubs(k)
  BY <1>2, SameArguments
<1>5. deg' \in [Vertex -> Nat] /\ i' \in Nat
  BY <1>1, <1>3
<1>6. RowsConsistent'
  <2>1. TypeOK'
    BY <1>1, <1>2, <1>3, <1>4, <1>5 DEF TypeOK
  <2> QED BY <1>1, <1>2, <1>3, <1>4, <2>1 DEF IInv, RowsConsistent
<1>7. Loops'
  BY <1>1, <1>2, <1>3, <1>4 DEF IInv, Loops
<1>8. DegreesCounted'
  <2>1. CASE i < Len(edges)
    <3>1. ASSUME NEW u \in Vertex
          PROVE  deg'[u] = Cardinality(From(i + 1, u))
      <4>1. deg[u] = Cardinality(From(i, u))
        BY <1>1 DEF IInv, DegreesCounted
      <4>2. deg'[u] = deg[u] + (IF edges[i + 1].from = u THEN 1 ELSE 0)
        BY <1>1, <1>3, <2>1
      <4>3. Cardinality(From(i + 1, u))
              = Cardinality(From(i, u)) + (IF edges[i + 1].from = u THEN 1 ELSE 0)
        BY <1>1, CountsOf
      <4> QED BY <4>1, <4>2, <4>3
    <3> QED BY <1>1, <1>3, <1>4, <2>1, <3>1 DEF DegreesCounted
  <2>2. CASE i = Len(edges)
    BY <1>1, <1>3, <1>4, <2>2 DEF IInv, DegreesCounted
  <2> QED BY <1>3, <2>1, <2>2
<1>9. HubsMarked'
  BY <1>1, <1>2, <1>3, <1>4 DEF IInv, HubsMarked, Vertex
<1>10. RoomPaid'
  BY <1>2, <1>4 DEF IInv, RoomPaid
<1>11. BitsSet'
  BY <1>1, <1>3 DEF BitsSet
<1>12. RestKept'
  <2>1. Read = 0 /\ Read' = 0 /\ phase' \in {"degree", "promote"}
    BY <1>1, <1>3 DEF Read
  <2>2. \A u, v : OutDegree(rest, u)' = OutDegree(rest, u)
                  /\ Multiplicity(rest, u, v)' = Multiplicity(rest, u, v)
    BY <1>2 DEF OutDegree, Multiplicity
  <2> QED BY <1>1, <1>2, <1>4, <2>1, <2>2 DEF IInv, RestKept
<1>13. ArraysBuilt'
  BY <1>1, <1>2, <1>3 DEF IInv, ArraysBuilt
<1> QED BY <1>6, <1>7, <1>8, <1>9, <1>10, <1>11, <1>12, <1>13 DEF IInv

\* The vertex gets a row: hybrid.go:52-56.
LEMMA PromotedIInv ==
  ASSUME IInv, Promote, [Next]_vars, i < n,
         deg[i] > thr, usedWords + wordsPerRow <= budgetWords
  PROVE  IInv'
<1>1. /\ TypeOK /\ n \in Nat /\ Len(edges) \in Nat /\ phase = "promote" /\ i \in Nat
      /\ i \in Vertex /\ deg \in [Vertex -> Nat] /\ hubRow \in [Vertex -> Nat \cup {-1}]
      /\ isHub \subseteq Vertex /\ numHubs \in Nat /\ usedWords \in Nat
  BY EdgesType, SMTT(30) DEF IInv, RowsConsistent, Promote, TypeOK, Vertex
<1>2. /\ n' = n /\ edges' = edges /\ phase' = phase /\ i' = i + 1 /\ deg' = deg
      /\ hubRow' = [hubRow EXCEPT ![i] = numHubs] /\ isHub' = isHub \cup {i}
      /\ numHubs' = numHubs + 1 /\ usedWords' = usedWords + wordsPerRow
      /\ hubBits' = hubBits /\ rest' = rest
      /\ offsets' = offsets /\ targets' = targets /\ cursor' = cursor
  BY <1>1 DEF Promote
<1>3. /\ Vertex' = Vertex /\ Len(edges)' = Len(edges) /\ wordsPerRow' = wordsPerRow
      /\ budgetWords' = budgetWords
      /\ \A k, u, v : From(k, u)' = From(k, u) /\ FromTo(k, u, v)' = FromTo(k, u, v)
  BY SameArguments
<1>4. i \notin isHub
  BY <1>1 DEF IInv, HubsMarked
<1>5. wordsPerRow \in Nat
  BY <1>1, RowWords
<1>6. /\ hubRow'[i] = numHubs /\ hubRow' \in [Vertex -> Nat \cup {-1}]
      /\ \A u \in Vertex : u # i => hubRow'[u] = hubRow[u]
  BY <1>1, <1>2
<1>7. IsFiniteSet(isHub) /\ Cardinality(isHub) = numHubs /\ Cardinality(isHub') = numHubs + 1
  <2>1. IsFiniteSet(Vertex)
    BY <1>1, FS_Interval DEF Vertex
  <2>2. IsFiniteSet(isHub)
    BY <1>1, <2>1, FS_Subset
  <2> QED BY <1>2, <1>4, <2>2, FS_AddElement DEF IInv, RowsConsistent
<1>8. RowsConsistent'
  <2>1. TypeOK'
    BY <1>1, <1>2, <1>3, <1>5, <1>6 DEF TypeOK
  <2>2. usedWords' = numHubs' * wordsPerRow'
    <3>1. usedWords = numHubs * wordsPerRow
      BY DEF IInv, RowsConsistent
    <3> QED BY <1>1, <1>2, <1>3, <1>5, <3>1
  <2>3. \A u \in isHub : hubRow[u] \in 0 .. (numHubs - 1) /\ u # i /\ hubRow'[u] = hubRow[u]
    BY <1>1, <1>4, <1>6 DEF IInv, RowsConsistent
  <2>4. \A u \in isHub' : hubRow'[u] \in 0 .. (numHubs' - 1)
    BY <1>1, <1>2, <1>6, <2>3
  <2>5. ASSUME NEW u \in isHub', NEW v \in isHub', hubRow'[u] = hubRow'[v]
        PROVE  u = v
    <3>1. \A x \in isHub : hubRow'[x] # numHubs
      BY <1>1, <2>3
    <3>2. \A x, y \in isHub : hubRow[x] = hubRow[y] => x = y
      BY DEF IInv, RowsConsistent
    <3> QED BY <1>2, <1>6, <2>3, <2>5, <3>1, <3>2
  <2> QED BY <1>1, <1>2, <1>3, <1>7, <2>1, <2>2, <2>4, <2>5 DEF RowsConsistent
<1>9. Loops'
  BY <1>1, <1>2, <1>3 DEF IInv, Loops
<1>10. DegreesCounted'
  BY <1>1, <1>2, <1>3 DEF IInv, DegreesCounted
<1>11. HubsMarked'
  <2>1. ASSUME NEW u \in Vertex
        PROVE  IF u < i + 1 THEN u \in isHub' \/ hubRow'[u] = -1 ELSE u \notin isHub'
    <3>1. IF u < i THEN u \in isHub \/ hubRow[u] = -1 ELSE u \notin isHub
      BY <1>1 DEF IInv, HubsMarked
    <3>2. u \in Int
      BY DEF Vertex
    <3> QED BY <1>1, <1>2, <1>6, <3>1, <3>2
  <2> QED BY <1>1, <1>2, <1>3, <2>1 DEF HubsMarked
<1>12. RoomPaid'
  <2> DEFINE L == Len(edges)
  <2>1. FromHubs(L)' = FromHubs(L) \cup From(L, i) /\ FromHubs(L) \cap From(L, i) = {}
    BY <1>2, <1>3, <1>4 DEF FromHubs, From
  <2>2. /\ IsFiniteSet(FromHubs(L)) /\ Cardinality(FromHubs(L)) \in Nat
        /\ IsFiniteSet(From(L, i)) /\ Cardinality(From(L, i)) \in Nat
    BY <1>1, CountsOf
  <2>3. Cardinality(FromHubs(L)') = Cardinality(FromHubs(L)) + Cardinality(From(L, i))
    <3>1. Cardinality(FromHubs(L) \cup From(L, i))
            = Cardinality(FromHubs(L)) + Cardinality(From(L, i))
              - Cardinality(FromHubs(L) \cap From(L, i))
      BY <2>2, FS_Union
    <3>2. Cardinality(FromHubs(L) \cap From(L, i)) = 0
      BY <2>1, FS_EmptySet
    <3> QED BY <2>1, <2>2, <3>1, <3>2
  <2>4. deg[i] = Cardinality(From(L, i)) /\ deg[i] \in Nat
    BY <1>1 DEF IInv, DegreesCounted
  <2>5. 2 * wordsPerRow <= deg[i] + 1
    BY <1>1, <2>4, PromotionPays
  <2>6. 2 * usedWords <= Cardinality(FromHubs(L)) + numHubs
    BY DEF IInv, RoomPaid
  <2>7. 2 * usedWords' <= Cardinality(FromHubs(L)') + numHubs'
    BY <1>1, <1>2, <1>5, <2>2, <2>3, <2>4, <2>5, <2>6
  <2> QED BY <2>7 DEF RoomPaid
<1>13. BitsSet'
  BY <1>1, <1>2 DEF BitsSet
<1>14. RestKept'
  <2>1. /\ rest = <<>> /\ Read = 0 /\ Read' = 0 /\ FromHubs(0)' = {} /\ FromHubs(0) = {}
    BY <1>1, <1>2 DEF IInv, RestKept, Read, FromHubs
  <2>2. Cardinality(FromHubs(Read)') = Cardinality(FromHubs(Read))
    BY <2>1
  <2>3. \A u, v : OutDegree(rest, u)' = OutDegree(rest, u)
                  /\ Multiplicity(rest, u, v)' = Multiplicity(rest, u, v)
    BY <1>2 DEF OutDegree, Multiplicity
  <2>4. \A j \in DOMAIN rest' : rest'[j].from \notin isHub'
    BY <1>2, <2>1
  <2>5. \A u \in Vertex : u \notin isHub' => u \notin isHub
    BY <1>2
  <2>6. Len(rest)' + Cardinality(FromHubs(Read)') = Read'
    BY <1>2, <2>1, <2>2 DEF IInv, RestKept
  <2> QED BY <1>1, <1>2, <1>3, <2>1, <2>3, <2>4, <2>5, <2>6 DEF IInv, RestKept
<1>15. ArraysBuilt'
  BY <1>1, <1>2 DEF IInv, ArraysBuilt
<1> QED BY <1>8, <1>9, <1>10, <1>11, <1>12, <1>13, <1>14, <1>15 DEF IInv

\* The vertex stays in the CSR: hybrid.go:51-52.
LEMMA NotPromotedIInv ==
  ASSUME IInv, Promote, [Next]_vars, i < n,
         ~(deg[i] > thr /\ usedWords + wordsPerRow <= budgetWords)
  PROVE  IInv'
<1>1. /\ TypeOK /\ n \in Nat /\ Len(edges) \in Nat /\ phase = "promote" /\ i \in Nat
      /\ i \in Vertex /\ deg \in [Vertex -> Nat] /\ hubRow \in [Vertex -> Nat \cup {-1}]
      /\ isHub \subseteq Vertex /\ numHubs \in Nat /\ usedWords \in Nat
  BY EdgesType, SMTT(30) DEF IInv, RowsConsistent, Promote, TypeOK, Vertex
<1>2. /\ n' = n /\ edges' = edges /\ phase' = phase /\ i' = i + 1 /\ deg' = deg
      /\ hubRow' = [hubRow EXCEPT ![i] = -1] /\ isHub' = isHub
      /\ numHubs' = numHubs /\ usedWords' = usedWords
      /\ hubBits' = hubBits /\ rest' = rest
      /\ offsets' = offsets /\ targets' = targets /\ cursor' = cursor
  BY <1>1 DEF Promote
<1>3. /\ Vertex' = Vertex /\ Len(edges)' = Len(edges) /\ wordsPerRow' = wordsPerRow
      /\ budgetWords' = budgetWords
      /\ \A k, u, v : From(k, u)' = From(k, u) /\ FromTo(k, u, v)' = FromTo(k, u, v)
      /\ \A k : FromHubs(k)' = FromHubs(k)
  BY <1>2, SameArguments
<1>4. i \notin isHub
  BY <1>1 DEF IInv, HubsMarked
<1>5. /\ hubRow'[i] = -1 /\ hubRow' \in [Vertex -> Nat \cup {-1}]
      /\ \A u \in Vertex : u # i => hubRow'[u] = hubRow[u]
      /\ \A u \in isHub : hubRow'[u] = hubRow[u]
  BY <1>1, <1>2, <1>4
<1>6. RowsConsistent'
  <2>1. TypeOK'
    BY <1>1, <1>2, <1>3, <1>5 DEF TypeOK
  <2> QED BY <1>1, <1>2, <1>3, <1>5, <2>1 DEF IInv, RowsConsistent
<1>7. Loops'
  BY <1>1, <1>2, <1>3 DEF IInv, Loops
<1>8. DegreesCounted'
  BY <1>1, <1>2, <1>3 DEF IInv, DegreesCounted
<1>9. HubsMarked'
  <2>1. ASSUME NEW u \in Vertex
        PROVE  IF u < i + 1 THEN u \in isHub \/ hubRow'[u] = -1 ELSE u \notin isHub
    <3>1. IF u < i THEN u \in isHub \/ hubRow[u] = -1 ELSE u \notin isHub
      BY <1>1 DEF IInv, HubsMarked
    <3>2. u \in Int
      BY DEF Vertex
    <3> QED BY <1>1, <1>2, <1>5, <3>1, <3>2
  <2> QED BY <1>1, <1>2, <1>3, <2>1 DEF HubsMarked
<1>10. RoomPaid'
  BY <1>2, <1>3 DEF IInv, RoomPaid
<1>11. BitsSet'
  BY <1>1, <1>2 DEF BitsSet
<1>12. RestKept'
  <2>1. Read' = Read
    BY <1>1, <1>2 DEF Read
  <2>2. \A u, v : OutDegree(rest, u)' = OutDegree(rest, u)
                  /\ Multiplicity(rest, u, v)' = Multiplicity(rest, u, v)
    BY <1>2 DEF OutDegree, Multiplicity
  <2> QED BY <1>2, <1>3, <2>1, <2>2 DEF IInv, RestKept
<1>13. ArraysBuilt'
  BY <1>1, <1>2 DEF IInv, ArraysBuilt
<1> QED BY <1>6, <1>7, <1>8, <1>9, <1>10, <1>11, <1>12, <1>13 DEF IInv

\* All vertices are decided, and the rows are allocated: hybrid.go:60.
LEMMA AllocatedIInv ==
  ASSUME IInv, Promote, [Next]_vars, i = n
  PROVE  IInv'
<1>1. /\ TypeOK /\ n \in Nat /\ Len(edges) \in Nat /\ phase = "promote"
      /\ isHub \subseteq Vertex /\ numHubs \in Nat /\ RowsConsistent
  BY EdgesType DEF IInv, RowsConsistent, Promote, TypeOK
<1>2. /\ n' = n /\ edges' = edges /\ phase' = "split" /\ i' = 0 /\ deg' = deg
      /\ hubRow' = hubRow /\ isHub' = isHub /\ numHubs' = numHubs /\ usedWords' = usedWords
      /\ hubBits' = [w \in 0 .. (numHubs * wordsPerRow - 1) |-> {}] /\ rest' = rest
      /\ offsets' = offsets /\ targets' = targets /\ cursor' = cursor
  BY <1>1 DEF Promote
<1>3. /\ Vertex' = Vertex /\ Len(edges)' = Len(edges) /\ wordsPerRow' = wordsPerRow
      /\ budgetWords' = budgetWords
      /\ \A k, u, v : From(k, u)' = From(k, u) /\ FromTo(k, u, v)' = FromTo(k, u, v)
      /\ \A k : FromHubs(k)' = FromHubs(k)
  BY <1>2, SameArguments
<1>4. \A u \in Vertex \ isHub : hubRow[u] = -1
  BY <1>1 DEF IInv, HubsMarked, Vertex
<1>5. RowsConsistent'
  <2>1. hubBits' \in [0 .. (numHubs * wordsPerRow - 1) -> SUBSET (0 .. (WordBits - 1))]
    BY <1>2
  <2>2. TypeOK'
    BY <1>1, <1>2, <1>3, <2>1 DEF TypeOK
  <2> QED BY <1>1, <1>2, <1>3, <1>4, <2>2 DEF RowsConsistent
<1>6. Loops'
  BY <1>1, <1>2, <1>3 DEF IInv, Loops
<1>7. DegreesCounted'
  BY <1>1, <1>2, <1>3 DEF IInv, DegreesCounted
<1>8. HubsMarked'
  BY <1>2 DEF HubsMarked
<1>9. RoomPaid'
  BY <1>2, <1>3 DEF IInv, RoomPaid
<1>10. Read = 0 /\ Read' = 0
  BY <1>1, <1>2 DEF Read
<1>11. BitsSet'
  <2>1. ASSUME NEW u \in isHub, NEW w \in 0 .. (wordsPerRow - 1)
        PROVE  hubBits'[hubRow[u] * wordsPerRow + w] = {}
    <3>1. hubRow[u] * wordsPerRow + w \in 0 .. (numHubs * wordsPerRow - 1)
      BY <1>1, RowPlaces
    <3> QED BY <1>2, <3>1
  <2> SUFFICES ASSUME NEW u \in isHub', NEW w \in 0 .. (wordsPerRow - 1)',
                      NEW b \in 0 .. (WordBits - 1)
               PROVE  b \in hubBits'[hubRow'[u] * wordsPerRow' + w] <=>
                        \E j \in 1 .. Read' : edges'[j].from = u
                                              /\ edges'[j].to = w * WordBits + b
    BY DEF BitsSet
  <2>2. hubBits'[hubRow'[u] * wordsPerRow' + w] = {}
    BY <1>2, <1>3, <2>1
  <2>3. 1 .. Read' = {}
    BY <1>10
  <2> QED BY <2>2, <2>3
<1>12. RestKept'
  <2>1. rest = <<>>
    BY <1>1 DEF IInv, RestKept
  <2>2. \A u, v : OutDegree(rest, u)' = OutDegree(rest, u)
                  /\ Multiplicity(rest, u, v)' = Multiplicity(rest, u, v)
    BY <1>2 DEF OutDegree, Multiplicity
  <2> QED BY <1>2, <1>3, <1>10, <2>1, <2>2 DEF IInv, RestKept
<1>13. ArraysBuilt'
  BY <1>1, <1>2 DEF IInv, ArraysBuilt
<1> QED BY <1>5, <1>6, <1>7, <1>8, <1>9, <1>11, <1>12, <1>13 DEF IInv

LEMMA PromoteIInv ==
  ASSUME IInv, Promote, [Next]_vars
  PROVE  IInv'
<1>1. i < n \/ i = n
  BY DEF Promote
<1> QED BY <1>1, PromotedIInv, NotPromotedIInv, AllocatedIInv

\* The edge of a hub sets its bit, and no bit of another edge: hybrid.go:64-65.
LEMMA BitSetIInv ==
  ASSUME IInv, Split, [Next]_vars, i < Len(edges), hubRow[edges[i + 1].from] >= 0
  PROVE  IInv'
<1> DEFINE f == edges[i + 1].from
           t == edges[i + 1].to
           w == t \div WordBits
           b == t % WordBits
           c == hubRow[f] * wordsPerRow + w
<1>1. /\ TypeOK /\ n \in Nat /\ Len(edges) \in Nat /\ phase = "split" /\ i \in Nat
      /\ hubRow \in [Vertex -> Nat \cup {-1}] /\ isHub \subseteq Vertex /\ numHubs \in Nat
      /\ hubBits \in [0 .. (numHubs * wordsPerRow - 1) -> SUBSET (0 .. (WordBits - 1))]
      /\ RowsConsistent
  BY EdgesType DEF IInv, RowsConsistent, Split, TypeOK
<1>2. f \in Vertex /\ t \in Vertex /\ i + 1 \in 1 .. Len(edges)
  BY <1>1, EdgesType
<1>3. /\ n' = n /\ edges' = edges /\ phase' = phase /\ i' = i + 1 /\ deg' = deg
      /\ hubRow' = hubRow /\ isHub' = isHub /\ numHubs' = numHubs /\ usedWords' = usedWords
      /\ hubBits' = [hubBits EXCEPT ![c] = @ \cup {b}] /\ rest' = rest
      /\ offsets' = offsets /\ targets' = targets /\ cursor' = cursor
  BY <1>1, <1>2 DEF Split
<1>4. /\ Vertex' = Vertex /\ Len(edges)' = Len(edges) /\ wordsPerRow' = wordsPerRow
      /\ budgetWords' = budgetWords
      /\ \A k, u, v : From(k, u)' = From(k, u) /\ FromTo(k, u, v)' = FromTo(k, u, v)
      /\ \A k : FromHubs(k)' = FromHubs(k)
  BY <1>3, SameArguments
<1>5. f \in isHub
  BY <1>1, <1>2 DEF RowsConsistent
<1>6. /\ w \in 0 .. (wordsPerRow - 1) /\ b \in 0 .. (WordBits - 1) /\ t = w * WordBits + b
  BY <1>1, <1>2, RowWords
<1>7. /\ c \in 0 .. (numHubs * wordsPerRow - 1)
      /\ \A u \in isHub, y \in 0 .. (wordsPerRow - 1) :
           c = hubRow[u] * wordsPerRow + y => u = f /\ y = w
  <2> HIDE DEF f, w
  <2> QED BY <1>1, <1>5, <1>6, RowPlaces DEF c
<1>8. \A u \in isHub, y \in 0 .. (wordsPerRow - 1) :
        hubRow[u] * wordsPerRow + y \in 0 .. (numHubs * wordsPerRow - 1)
  BY <1>1, RowPlaces
<1> HIDE DEF w, b, c
<1>9. RowsConsistent'
  <2> DEFINE D == 0 .. (numHubs * wordsPerRow - 1)
             S == SUBSET (0 .. (WordBits - 1))
  <2>1. hubBits' \in [D -> S]
    <3>1. hubBits \in [D -> S] /\ c \in D /\ \A x \in S : x \cup {b} \in S
      BY <1>1, <1>6, <1>7
    <3> HIDE DEF D, S
    <3> QED BY <1>3, <3>1
  <2>2. TypeOK'
    BY <1>1, <1>3, <1>4, <2>1 DEF TypeOK
  <2> QED BY <1>1, <1>3, <1>4, <2>2 DEF RowsConsistent
<1>10. Loops'
  BY <1>1, <1>3, <1>4 DEF IInv, Loops
<1>11. DegreesCounted'
  BY <1>1, <1>3, <1>4 DEF IInv, DegreesCounted
<1>12. HubsMarked'
  BY <1>1, <1>3 DEF HubsMarked
<1>13. RoomPaid'
  BY <1>3, <1>4 DEF IInv, RoomPaid
<1>14. Read = i /\ Read' = i + 1
  BY <1>1, <1>3 DEF Read
<1>15. BitsSet'
  <2> SUFFICES ASSUME NEW u \in isHub, NEW y \in 0 .. (wordsPerRow - 1),
                      NEW z \in 0 .. (WordBits - 1)
               PROVE  z \in hubBits'[hubRow[u] * wordsPerRow + y] <=>
                        \E j \in 1 .. (i + 1) : edges[j].from = u
                                              /\ edges[j].to = y * WordBits + z
    BY <1>3, <1>4, <1>14 DEF BitsSet
  <2>1. z \in hubBits[hubRow[u] * wordsPerRow + y] <=>
          \E j \in 1 .. i : edges[j].from = u /\ edges[j].to = y * WordBits + z
    BY <1>1, <1>14 DEF IInv, BitsSet
  <2>2. (\E j \in 1 .. (i + 1) : edges[j].from = u /\ edges[j].to = y * WordBits + z)
          <=> \/ \E j \in 1 .. i : edges[j].from = u /\ edges[j].to = y * WordBits + z
              \/ f = u /\ t = y * WordBits + z
    <3>1. \A j : j \in 1 .. (i + 1) <=> j \in 1 .. i \/ j = i + 1
      BY <1>1
    <3> QED BY <3>1
  <2>3. t = y * WordBits + z <=> y = w /\ z = b
    <3>1. PICK W \in Nat \ {0} : W = WordBits
      BY HybridAssumption
    <3>2. w \in Nat /\ y \in Nat /\ b \in 0 .. (W - 1) /\ z \in 0 .. (W - 1)
      BY <1>1, <1>6, <3>1, RowWords
    <3>3. w * W + b = y * W + z => w = y /\ b = z
      BY <3>1, <3>2, PlaceUnique
    <3> QED BY <1>6, <3>1, <3>3
  <2>4. hubBits'[hubRow[u] * wordsPerRow + y]
          = IF u = f /\ y = w THEN hubBits[hubRow[u] * wordsPerRow + y] \cup {b}
            ELSE hubBits[hubRow[u] * wordsPerRow + y]
    <3>1. PICK p \in 0 .. (numHubs * wordsPerRow - 1) : p = hubRow[u] * wordsPerRow + y
      BY <1>8
    <3>2. hubBits'[p] = IF p = c THEN hubBits[p] \cup {b} ELSE hubBits[p]
      BY <1>1, <1>3, <1>7
    <3>3. p = c <=> u = f /\ y = w
      BY <1>7, <3>1 DEF c
    <3> QED BY <3>1, <3>2, <3>3
  <2> QED BY <2>1, <2>2, <2>3, <2>4
<1>16. RestKept'
  <2>1. /\ \A u \in Vertex : u \notin isHub =>
             Cardinality(From(i + 1, u)) = Cardinality(From(i, u))
      /\ \A u \in Vertex, v \in Vertex : u \notin isHub =>
             Cardinality(FromTo(i + 1, u, v)) = Cardinality(FromTo(i, u, v))
    <3>1. ASSUME NEW u \in Vertex, NEW v \in Vertex, u \notin isHub
          PROVE  /\ Cardinality(From(i + 1, u)) = Cardinality(From(i, u))
                 /\ Cardinality(FromTo(i + 1, u, v)) = Cardinality(FromTo(i, u, v))
      <4>1. f # u
        BY <1>5, <3>1
      <4>2. /\ Cardinality(From(i, u)) \in Nat /\ Cardinality(FromTo(i, u, v)) \in Nat
            /\ Cardinality(From(i + 1, u)) = Cardinality(From(i, u))
                 + (IF f = u THEN 1 ELSE 0)
            /\ Cardinality(FromTo(i + 1, u, v))
                 = Cardinality(FromTo(i, u, v)) + (IF f = u /\ t = v THEN 1 ELSE 0)
        BY <1>1, CountsOf
      <4> QED BY <4>1, <4>2
    <3> QED BY <3>1
  <2>2. /\ Cardinality(FromHubs(i)) \in Nat
        /\ Cardinality(FromHubs(i + 1)) = Cardinality(FromHubs(i)) + 1
    BY <1>1, <1>5, CountsOf
  <2>3. \A u, v : OutDegree(rest, u)' = OutDegree(rest, u)
                  /\ Multiplicity(rest, u, v)' = Multiplicity(rest, u, v)
    BY <1>3 DEF OutDegree, Multiplicity
  <2>4. Len(rest) + Cardinality(FromHubs(i + 1)) = i + 1
    <3>1. Len(rest) \in Nat
      BY <1>1, EdgesType
    <3> QED BY <1>1, <1>14, <2>2, <3>1 DEF IInv, RestKept
  <2>5. \A u \in Vertex : u \notin isHub =>
          /\ OutDegree(rest, u) = Cardinality(From(i + 1, u))
          /\ \A v \in Vertex : Multiplicity(rest, u, v) = Cardinality(FromTo(i + 1, u, v))
    BY <1>14, <2>1 DEF IInv, RestKept
  <2> QED BY <1>1, <1>3, <1>4, <1>14, <2>3, <2>4, <2>5 DEF IInv, RestKept
<1>17. ArraysBuilt'
  BY <1>1, <1>3 DEF IInv, ArraysBuilt
<1> QED BY <1>9, <1>10, <1>11, <1>12, <1>13, <1>15, <1>16, <1>17 DEF IInv

\* The edge of another vertex goes to rest: hybrid.go:66-67.
LEMMA EdgeKeptIInv ==
  ASSUME IInv, Split, [Next]_vars, i < Len(edges), hubRow[edges[i + 1].from] < 0
  PROVE  IInv'
<1> DEFINE e == edges[i + 1]
           E == [from : Vertex, to : Vertex]
<1>1. /\ TypeOK /\ n \in Nat /\ Len(edges) \in Nat /\ phase = "split" /\ i \in Nat
      /\ hubRow \in [Vertex -> Nat \cup {-1}] /\ isHub \subseteq Vertex /\ numHubs \in Nat
      /\ rest \in Seq(E) /\ RowsConsistent
  BY EdgesType DEF IInv, RowsConsistent, Split, TypeOK
<1>2. e \in E /\ e.from \in Vertex /\ e.to \in Vertex /\ i + 1 \in 1 .. Len(edges)
  BY <1>1, EdgesType
<1>3. /\ n' = n /\ edges' = edges /\ phase' = phase /\ i' = i + 1 /\ deg' = deg
      /\ hubRow' = hubRow /\ isHub' = isHub /\ numHubs' = numHubs /\ usedWords' = usedWords
      /\ hubBits' = hubBits /\ rest' = Append(rest, e)
      /\ offsets' = offsets /\ targets' = targets /\ cursor' = cursor
  BY <1>1, <1>2 DEF Split
<1>4. /\ Vertex' = Vertex /\ Len(edges)' = Len(edges) /\ wordsPerRow' = wordsPerRow
      /\ budgetWords' = budgetWords
      /\ \A k, u, v : From(k, u)' = From(k, u) /\ FromTo(k, u, v)' = FromTo(k, u, v)
      /\ \A k : FromHubs(k)' = FromHubs(k)
  BY <1>3, SameArguments
<1>5. e.from \notin isHub
  BY <1>1, <1>2 DEF RowsConsistent
<1>6. rest' \in Seq(E) /\ Len(rest)' = Len(rest) + 1 /\ Len(rest) \in Nat
  <2> HIDE DEF E
  <2> QED BY <1>1, <1>2, <1>3
<1>7. RowsConsistent'
  <2>1. TypeOK'
    BY <1>1, <1>3, <1>4, <1>6 DEF TypeOK
  <2> QED BY <1>1, <1>3, <1>4, <2>1 DEF RowsConsistent
<1>8. Loops'
  BY <1>1, <1>3, <1>4 DEF IInv, Loops
<1>9. DegreesCounted'
  BY <1>1, <1>3, <1>4 DEF IInv, DegreesCounted
<1>10. HubsMarked'
  BY <1>1, <1>3 DEF HubsMarked
<1>11. RoomPaid'
  BY <1>3, <1>4 DEF IInv, RoomPaid
<1>12. Read = i /\ Read' = i + 1
  BY <1>1, <1>3 DEF Read
<1>13. BitsSet'
  <2> SUFFICES ASSUME NEW u \in isHub, NEW y \in 0 .. (wordsPerRow - 1),
                      NEW z \in 0 .. (WordBits - 1)
               PROVE  z \in hubBits[hubRow[u] * wordsPerRow + y] <=>
                        \E j \in 1 .. (i + 1) : edges[j].from = u
                                              /\ edges[j].to = y * WordBits + z
    BY <1>3, <1>4, <1>12 DEF BitsSet
  <2>1. z \in hubBits[hubRow[u] * wordsPerRow + y] <=>
          \E j \in 1 .. i : edges[j].from = u /\ edges[j].to = y * WordBits + z
    BY <1>1, <1>12 DEF IInv, BitsSet
  <2>2. \A j : j \in 1 .. (i + 1) <=> j \in 1 .. i \/ j = i + 1
    BY <1>1
  <2> QED BY <1>5, <2>1, <2>2
<1>14. RestKept'
  <2> HIDE DEF E
  <2>1. \A u, v :
          /\ OutDegree(rest', u) = OutDegree(rest, u) + (IF e.from = u THEN 1 ELSE 0)
          /\ Multiplicity(rest', u, v)
               = Multiplicity(rest, u, v) + (IF e.from = u /\ e.to = v THEN 1 ELSE 0)
    BY <1>1, <1>2, <1>3, AppendCounts
  <2>2. ASSUME NEW u, NEW v
        PROVE  /\ Cardinality(From(i + 1, u))
                    = Cardinality(From(i, u)) + (IF e.from = u THEN 1 ELSE 0)
               /\ Cardinality(FromTo(i + 1, u, v))
                    = Cardinality(FromTo(i, u, v))
                        + (IF e.from = u /\ e.to = v THEN 1 ELSE 0)
               /\ Cardinality(FromHubs(i)) \in Nat
               /\ Cardinality(FromHubs(i + 1))
                    = Cardinality(FromHubs(i)) + (IF e.from \in isHub THEN 1 ELSE 0)
    BY <1>1, CountsOf
  <2>6. /\ Cardinality(FromHubs(i)) \in Nat
        /\ Cardinality(FromHubs(i + 1)) = Cardinality(FromHubs(i))
    BY <1>5, <2>2
  <2> HIDE DEF e
  <2>3. \A u \in Vertex : u \notin isHub =>
          /\ OutDegree(rest', u) = Cardinality(From(i + 1, u))
          /\ \A v \in Vertex : Multiplicity(rest', u, v) = Cardinality(FromTo(i + 1, u, v))
    BY <1>12, <2>1, <2>2 DEF IInv, RestKept
  <2>4. Len(rest)' + Cardinality(FromHubs(i + 1)) = i + 1
    BY <1>1, <1>6, <1>12, <2>6 DEF IInv, RestKept
  <2>5. ASSUME NEW j \in DOMAIN rest'
        PROVE  rest'[j].from \notin isHub
    <3>1. (j \in 1 .. Len(rest) /\ rest'[j] = rest[j]) \/ rest'[j] = e
      BY <1>1, <1>2, <1>3 DEF e
    <3>2. DOMAIN rest = 1 .. Len(rest)
      BY <1>1
    <3> QED BY <1>5, <3>1, <3>2 DEF IInv, RestKept
  <2> QED BY <1>1, <1>3, <1>4, <1>12, <2>3, <2>4, <2>5 DEF RestKept
<1>15. ArraysBuilt'
  BY <1>1, <1>3 DEF IInv, ArraysBuilt
<1> QED BY <1>7, <1>8, <1>9, <1>10, <1>11, <1>13, <1>14, <1>15 DEF IInv

\* What buildCSRArrays starts from: hybrid.go:70.
CallReady ==
  /\ n \in Nat /\ rest \in Seq([from : Vertex, to : Vertex])
  /\ phase = "call" /\ i = 0
  /\ offsets = <<>> /\ targets = <<>> /\ cursor = <<>>

LEMMA CallIsReady == CallReady => Rest!Arrays
BY DEF CallReady, Vertex, Rest!Arrays, Rest!TypeOK, Rest!OffsetsCount, Rest!SlotsCounted,
       Rest!BlocksSorted, Rest!Vertex, Rest!m

\* All edges are split: hybrid.go:70.
LEMMA CalledIInv ==
  ASSUME IInv, Split, [Next]_vars, i = Len(edges)
  PROVE  IInv'
<1>1. /\ TypeOK /\ n \in Nat /\ Len(edges) \in Nat /\ phase = "split" /\ i \in Nat
      /\ RowsConsistent /\ rest \in Seq([from : Vertex, to : Vertex])
      /\ offsets = <<>> /\ targets = <<>> /\ cursor = <<>>
  BY EdgesType DEF IInv, RowsConsistent, Split, TypeOK, ArraysBuilt
<1>2. /\ n' = n /\ edges' = edges /\ phase' = "call" /\ i' = 0 /\ deg' = deg
      /\ hubRow' = hubRow /\ isHub' = isHub /\ numHubs' = numHubs /\ usedWords' = usedWords
      /\ hubBits' = hubBits /\ rest' = rest
      /\ offsets' = offsets /\ targets' = targets /\ cursor' = cursor
  BY <1>1 DEF Split
<1>3. /\ Vertex' = Vertex /\ Len(edges)' = Len(edges) /\ wordsPerRow' = wordsPerRow
      /\ budgetWords' = budgetWords
      /\ \A k, u, v : From(k, u)' = From(k, u) /\ FromTo(k, u, v)' = FromTo(k, u, v)
      /\ \A k : FromHubs(k)' = FromHubs(k)
  BY <1>2, SameArguments
<1>4. Read' = Read
  BY <1>1, <1>2, <1>3 DEF Read
<1>5. RowsConsistent'
  <2>1. TypeOK'
    BY <1>1, <1>2, <1>3 DEF TypeOK
  <2> QED BY <1>1, <1>2, <1>3, <2>1 DEF RowsConsistent
<1>6. Loops'
  BY <1>2 DEF IInv, Loops
<1>7. DegreesCounted'
  BY <1>1, <1>2, <1>3 DEF IInv, DegreesCounted
<1>8. HubsMarked'
  BY <1>2 DEF HubsMarked
<1>9. RoomPaid'
  BY <1>2, <1>3 DEF IInv, RoomPaid
<1>10. BitsSet'
  BY <1>1, <1>2, <1>3, <1>4 DEF IInv, BitsSet
<1>11. RestKept'
  <2>1. \A u, v : OutDegree(rest, u)' = OutDegree(rest, u)
                  /\ Multiplicity(rest, u, v)' = Multiplicity(rest, u, v)
    BY <1>2 DEF OutDegree, Multiplicity
  <2> QED BY <1>1, <1>2, <1>3, <1>4, <2>1 DEF IInv, RestKept
<1>12. ArraysBuilt'
  <2>1. CallReady'
    BY <1>1, <1>2, <1>3 DEF CallReady
  <2>2. Rest!Arrays'
    BY <2>1, CallIsReady, PTL
  <2> QED BY <1>2, <2>2 DEF ArraysBuilt
<1> QED BY <1>5, <1>6, <1>7, <1>8, <1>9, <1>10, <1>11, <1>12 DEF IInv

LEMMA SplitIInv ==
  ASSUME IInv, Split, [Next]_vars
  PROVE  IInv'
<1>1. \/ i = Len(edges)
      \/ i < Len(edges) /\ hubRow[edges[i + 1].from] >= 0
      \/ i < Len(edges) /\ hubRow[edges[i + 1].from] < 0
  BY DEF Split
<1> QED BY <1>1, BitSetIInv, EdgeKeptIInv, CalledIInv

\* A step of the call is a step of buildCSRArrays on rest.
LEMMA SameStep == Csr!Build => Rest!Next
<1>1. Csr!Allocate => Rest!Allocate
  BY DEF Csr!Allocate, Rest!Allocate
<1>2. Csr!Count => Rest!Count
  BY DEF Csr!Count, Rest!Count, Csr!m, Rest!m
<1>3. Csr!Prefix => Rest!Prefix
  BY DEF Csr!Prefix, Rest!Prefix, Csr!m, Rest!m, Csr!Vertex, Rest!Vertex
<1>4. Csr!Scatter => Rest!Scatter
  BY DEF Csr!Scatter, Rest!Scatter, Csr!m, Rest!m
<1>5. Csr!Sort => Rest!Sort
  BY DEF Csr!Sort, Rest!Sort, Csr!Vertex, Rest!Vertex, Csr!Block, Rest!Block,
         Csr!Ascending, Rest!Ascending, Csr!Cardinality, Rest!Cardinality
<1> QED BY <1>1, <1>2, <1>3, <1>4, <1>5 DEF Csr!Build, Rest!Next, Rest!Build

\* The arguments of NewHybrid are arguments of buildCSRArrays.
LEMMA ArgumentsFit ==
  \A x \in Inputs :
    /\ x.n \in Nat
    /\ x.edges \in Seq([from : 0 .. (x.n - 1), to : 0 .. (x.n - 1)])
BY HybridAssumption

LEMMA BuildRestIInv ==
  ASSUME IInv, BuildRest, [Next]_vars
  PROVE  IInv'
<1>1. /\ TypeOK /\ RowsConsistent
      /\ phase \in {"call", "count", "prefix", "scatter", "sort"}
      /\ phase' \in {"call", "count", "prefix", "scatter", "sort", "built"}
  BY DEF IInv, RowsConsistent, BuildRest, Csr!Build, Csr!Allocate, Csr!Count, Csr!Prefix,
         Csr!Scatter, Csr!Sort
<1>2. /\ n' = n /\ edges' = edges /\ deg' = deg /\ hubRow' = hubRow /\ isHub' = isHub
      /\ numHubs' = numHubs /\ usedWords' = usedWords /\ hubBits' = hubBits /\ rest' = rest
  BY SameArguments DEF BuildRest, hubVars
<1>3. /\ Vertex' = Vertex /\ Len(edges)' = Len(edges) /\ wordsPerRow' = wordsPerRow
      /\ budgetWords' = budgetWords
      /\ \A k, u, v : From(k, u)' = From(k, u) /\ FromTo(k, u, v)' = FromTo(k, u, v)
      /\ \A k : FromHubs(k)' = FromHubs(k)
  BY <1>2, SameArguments
<1>4. Rest!Arrays'
  <2>1. Rest!Arrays
    BY <1>1 DEF IInv, ArraysBuilt
  <2>2. Rest!Next
    BY SameStep DEF BuildRest
  <2> QED BY <2>1, <2>2, ArgumentsFit, Rest!ArraysStep
<1>5. i' \in Nat
  BY <1>4 DEF Rest!Arrays, Rest!TypeOK
<1>6. Read' = Read
  BY <1>1, <1>2 DEF Read
<1>7. RowsConsistent'
  <2>1. TypeOK'
    BY <1>1, <1>2, <1>3, <1>5 DEF TypeOK
  <2> QED BY <1>1, <1>2, <1>3, <2>1 DEF RowsConsistent
<1>8. Loops'
  BY <1>1, <1>2 DEF IInv, Loops
<1>9. DegreesCounted'
  BY <1>1, <1>2, <1>3 DEF IInv, DegreesCounted
<1>10. HubsMarked'
  BY <1>1 DEF HubsMarked
<1>11. RoomPaid'
  BY <1>2, <1>3 DEF IInv, RoomPaid
<1>12. BitsSet'
  BY <1>1, <1>2, <1>3, <1>6 DEF IInv, BitsSet
<1>13. RestKept'
  <2>1. \A u, v : OutDegree(rest, u)' = OutDegree(rest, u)
                  /\ Multiplicity(rest, u, v)' = Multiplicity(rest, u, v)
    BY <1>2 DEF OutDegree, Multiplicity
  <2> QED BY <1>1, <1>2, <1>3, <1>6, <2>1 DEF IInv, RestKept
<1>14. ArraysBuilt'
  BY <1>1, <1>4 DEF ArraysBuilt
<1> QED BY <1>7, <1>8, <1>9, <1>10, <1>11, <1>12, <1>13, <1>14 DEF IInv

LEMMA StutterIInv ==
  ASSUME IInv, UNCHANGED vars
  PROVE  IInv'
<1>1. /\ n' = n /\ edges' = edges /\ phase' = phase /\ i' = i /\ deg' = deg /\ hubRow' = hubRow
      /\ isHub' = isHub /\ numHubs' = numHubs /\ usedWords' = usedWords /\ hubBits' = hubBits
      /\ rest' = rest /\ offsets' = offsets /\ targets' = targets /\ cursor' = cursor
  BY DEF vars, hubVars
<1>2. /\ Vertex' = Vertex /\ wordsPerRow' = wordsPerRow /\ budgetWords' = budgetWords
      /\ Read' = Read
      /\ \A k, u, v : From(k, u)' = From(k, u) /\ FromTo(k, u, v)' = FromTo(k, u, v)
      /\ \A k : FromHubs(k)' = FromHubs(k)
  BY <1>1 DEF Vertex, wordsPerRow, budgetWords, Read, From, FromTo, FromHubs
<1>3. RowsConsistent'
  BY <1>1, <1>2 DEF IInv, RowsConsistent, TypeOK
<1>4. Loops' /\ DegreesCounted' /\ HubsMarked' /\ RoomPaid'
  BY <1>1, <1>2 DEF IInv, Loops, DegreesCounted, HubsMarked, RoomPaid
<1>5. BitsSet'
  BY <1>1, <1>2 DEF IInv, BitsSet
<1>6. RestKept'
  BY <1>1, <1>2 DEF IInv, RestKept, OutDegree, Multiplicity
<1>7. ArraysBuilt'
  <2>1. CASE phase \in {"degree", "promote", "split"}
    BY <1>1, <2>1 DEF IInv, ArraysBuilt
  <2>2. CASE phase \notin {"degree", "promote", "split"}
    <3>1. Rest!Arrays
      BY <2>2 DEF IInv, ArraysBuilt
    <3>2. [Rest!Next]_(Rest!vars)
      BY <1>1 DEF Rest!vars, Rest!arrays
    <3>3. Rest!Arrays'
      BY <3>1, <3>2, ArgumentsFit, Rest!ArraysStep
    <3> QED BY <1>1, <2>2, <3>3 DEF ArraysBuilt
  <2> QED BY <2>1, <2>2
<1> QED BY <1>3, <1>4, <1>5, <1>6, <1>7 DEF IInv

LEMMA StepIInv == IInv /\ [Next]_vars => IInv'
<1>1. [Next]_vars => CountDegree \/ Promote \/ Split \/ BuildRest \/ UNCHANGED vars
  BY DEF Next, Build, Built
<1> QED BY <1>1, CountDegreeIInv, PromoteIInv, SplitIInv, BuildRestIInv, StutterIInv

-----------------------------------------------------------------------------
(* The rows, and the split of the edges. *)

\* Whatever the degrees and the budget, the bitset and the rows tell the same story: a
\* hub has a row of its own, inside the words that were allocated (hybrid.go:46-58).
THEOREM RowsCorrect == Spec => []RowsConsistent
BY InitIInv, StepIInv, PTL DEF Spec, IInv

\* A row costs at most one target more than the targets it replaces, whatever the size
\* of the graph: the threshold rounds down where the row rounds up (hybrid.go:28-30, 42).
THEOREM OverheadBounded == Spec => []BitmapOverhead
<1>1. IInv => BitmapOverhead
  <2> SUFFICES ASSUME IInv, phase = "built" PROVE BitmapTargets <= Replaced + numHubs
    BY DEF BitmapOverhead
  <2>1. TypeOK /\ usedWords \in Nat /\ numHubs \in Nat
    BY DEF IInv, RowsConsistent, TypeOK
  <2>2. Len(edges) \in Nat /\ Len(rest) \in Nat /\ Cardinality(FromHubs(Len(edges))) \in Nat
    BY <2>1, EdgesType, CountsOf
  <2>3. Len(rest) + Cardinality(FromHubs(Len(edges))) = Len(edges)
    BY DEF IInv, RestKept, Read
  <2>4. 2 * usedWords <= Cardinality(FromHubs(Len(edges))) + numHubs
    BY DEF IInv, RoomPaid
  <2> QED BY <2>1, <2>2, <2>3, <2>4 DEF BitmapTargets, Replaced
<1> QED BY <1>1, InitIInv, StepIInv, PTL DEF Spec

\* The bit of v in the row of u is set when an edge from u to v has been read.
LEMMA BitIsEdge ==
  ASSUME IInv, phase \notin {"degree", "promote"}, NEW u \in isHub, NEW v \in Vertex
  PROVE  BitOf(u, v) <=> \E j \in 1 .. Read : edges[j].from = u /\ edges[j].to = v
<1>1. n \in Nat
  BY DEF IInv, RowsConsistent, TypeOK
<1>2. PICK w \in 0 .. (wordsPerRow - 1), b \in 0 .. (WordBits - 1) :
        w = v \div WordBits /\ b = v % WordBits /\ v = w * WordBits + b
  BY <1>1, RowWords
<1>3. b \in hubBits[hubRow[u] * wordsPerRow + w]
        <=> \E j \in 1 .. Read : edges[j].from = u /\ edges[j].to = w * WordBits + b
  BY DEF IInv, BitsSet
<1> QED BY <1>2, <1>3 DEF BitOf

\* The edges of a vertex without a row are in rest.
LEMMA RestIsEdge ==
  ASSUME IInv, NEW u \in Vertex, u \notin isHub, NEW v \in Vertex
  PROVE  Linked(rest, u, v) <=> \E j \in 1 .. Read : edges[j].from = u /\ edges[j].to = v
<1> DEFINE S == {j \in DOMAIN rest : rest[j].from = u /\ rest[j].to = v}
<1>1. TypeOK /\ Read \in Nat
  BY EdgesType DEF IInv, RowsConsistent, TypeOK, Read
<1>2. IsFiniteSet(S)
  <2>1. IsFiniteSet(DOMAIN rest)
    <3>1. DOMAIN rest = 1 .. Len(rest) /\ Len(rest) \in Nat
      BY <1>1, EdgesType
    <3>2. IsFiniteSet(1 .. Len(rest))
      BY <3>1, FS_Interval
    <3> QED BY <3>1, <3>2
  <2> QED BY <2>1, FS_Subset
<1>3. Linked(rest, u, v) <=> S # {}
  BY DEF Linked
<1>4. S # {} <=> Cardinality(S) # 0
  BY <1>2, FS_EmptySet
<1>5. Cardinality(S) = Cardinality(FromTo(Read, u, v))
  BY DEF IInv, RestKept, Multiplicity
<1>6. FromTo(Read, u, v) # {} <=> Cardinality(FromTo(Read, u, v)) # 0
  BY <1>1, CountsOf, FS_EmptySet
<1>7. FromTo(Read, u, v) # {} <=> \E j \in 1 .. Read : edges[j].from = u /\ edges[j].to = v
  BY DEF FromTo
<1> QED BY <1>3, <1>4, <1>5, <1>6, <1>7

\* At every moment each edge read is in exactly one of the two representations, for every
\* order of the edges (hybrid.go:61-69).
THEOREM SplitCorrect == Spec => []EdgesSplit
<1>1. IInv => EdgesSplit
  <2> SUFFICES ASSUME IInv, NEW u \in Vertex, NEW v \in Vertex
               PROVE  LET linked == \E j \in 1 .. Read : edges[j].from = u /\ edges[j].to = v
                          inRest == Linked(rest, u, v)
                          inBits == /\ phase \notin {"degree", "promote"}
                                    /\ u \in isHub /\ BitOf(u, v)
                      IN /\ linked <=> inRest \/ inBits
                         /\ ~(inRest /\ inBits)
    BY DEF EdgesSplit, Read
  <2>1. CASE u \notin isHub
    BY <2>1, RestIsEdge
  <2>2. CASE u \in isHub
    <3>1. ~ Linked(rest, u, v)
      BY <2>2 DEF IInv, RestKept, Linked
    <3>2. CASE phase \in {"degree", "promote"}
      <4>1. Read = 0
        BY <3>2 DEF Read
      <4> QED BY <3>1, <3>2, <4>1
    <3>3. CASE phase \notin {"degree", "promote"}
      BY <2>2, <3>1, <3>3, BitIsEdge
    <3> QED BY <3>2, <3>3
  <2> QED BY <2>1, <2>2
<1> QED BY <1>1, InitIInv, StepIInv, PTL DEF Spec

-----------------------------------------------------------------------------
(* The contract. *)

\* The members of a finite set of numbers, one after the other from the lowest: what a
\* scan of the set bits of a row yields.
Scan(N) ==
  [p \in 1 .. Cardinality(N) |-> CHOOSE v \in N : Cardinality({x \in N : x < v}) = p - 1]

LEMMA Enumerated ==
  ASSUME NEW N, N \subseteq Nat, IsFiniteSet(N)
  PROVE  /\ Cardinality(N) \in Nat /\ DOMAIN Scan(N) = 1 .. Cardinality(N)
         /\ Ascending(Scan(N))
         /\ \A p \in DOMAIN Scan(N) : Scan(N)[p] \in N
         /\ \A v \in N : Cardinality({p \in DOMAIN Scan(N) : Scan(N)[p] = v}) = 1
<1> DEFINE s == Scan(N)
<1> DEFINE below(v) == {x \in N : x < v}
<1>1. PICK rank : rank = [v \in N |-> Cardinality(below(v))]
  OBVIOUS
<1> DEFINE f == [v \in N |-> rank[v] + 1]
<1>2. PICK K \in Nat : K = Cardinality(N)
  BY FS_CardinalityType
<1>3. \A v \in N : IsFiniteSet(below(v)) /\ rank[v] \in Nat
  <2>1. ASSUME NEW v \in N
        PROVE  IsFiniteSet(below(v))
    BY FS_Subset
  <2> HIDE DEF below
  <2> QED BY <1>1, <2>1, FS_CardinalityType
<1>4. ASSUME NEW v \in N, NEW T \in SUBSET N, IsFiniteSet(T), below(v) \cup {v} \subseteq T
      PROVE  rank[v] + 1 <= Cardinality(T)
  <2>1. v \notin below(v)
    BY <1>4
  <2> HIDE DEF below
  <2>2. Cardinality(below(v) \cup {v}) = rank[v] + 1
    BY <1>3, <1>1, <2>1, FS_AddElement
  <2> QED BY <1>4, <2>2, FS_Subset
<1>5. \A v \in N : rank[v] + 1 <= K
  <2>1. \A v \in N : below(v) \cup {v} \subseteq N
    OBVIOUS
  <2> HIDE DEF below
  <2> QED BY <1>2, <1>4, <2>1
<1>6. \A v, y \in N : v < y => rank[v] + 1 <= rank[y]
  <2>1. \A v, y \in N : v < y => below(v) \cup {v} \subseteq below(y) /\ below(y) \subseteq N
    <3>1. \A v, y, x \in N : x < v /\ v < y => x < y
      OBVIOUS
    <3> QED BY <3>1
  <2> HIDE DEF below
  <2> QED BY <1>3, <1>4, <1>1, <2>1
<1> HIDE DEF below
<1>7. \A v, y \in N : rank[v] = rank[y] => v = y
  <2>1. \A v, y \in N : v < y \/ y < v \/ v = y
    OBVIOUS
  <2>2. \A v, y \in N : rank[v] = rank[y] => ~(v < y) /\ ~(y < v)
    BY <1>3, <1>6
  <2> QED BY <2>1, <2>2
<1>8. f \in Injection(N, 1 .. K)
  <2>1. f \in [N -> 1 .. K]
    BY <1>2, <1>3, <1>5
  <2>2. \A v, y \in N : f[v] = f[y] => v = y
    BY <1>3, <1>7
  <2> HIDE DEF f
  <2> QED BY <2>1, <2>2 DEF Injection, IsInjective
<1>9. IsFiniteSet(1 .. K) /\ Cardinality(1 .. K) = K
  BY <1>2, FS_Interval
<1>10. f \in Surjection(N, 1 .. K)
  <2> HIDE DEF f
  <2> QED BY <1>2, <1>8, <1>9, FS_Injection
<1>11. \A p \in 1 .. K : \E v \in N : rank[v] = p - 1
  <2>1. \A p \in 1 .. K : \E v \in N : f[v] = p
    BY <1>10 DEF Surjection
  <2>2. \A p \in 1 .. K, v \in N : f[v] = p => rank[v] = p - 1
    BY <1>2, <1>3
  <2> QED BY <2>1, <2>2
<1>12. DOMAIN s = 1 .. K /\ \A p \in 1 .. K : s[p] \in N /\ rank[s[p]] = p - 1
  <2>1. DOMAIN s = 1 .. K
    BY <1>2 DEF Scan
  <2>2. ASSUME NEW p \in 1 .. K
        PROVE  s[p] \in N /\ rank[s[p]] = p - 1
    <3>1. s[p] = CHOOSE v \in N : Cardinality({x \in N : x < v}) = p - 1
      BY <1>2 DEF Scan
    <3>2. \E v \in N : Cardinality({x \in N : x < v}) = p - 1
      BY <1>11, <1>1 DEF below
    <3>3. s[p] \in N /\ Cardinality({x \in N : x < s[p]}) = p - 1
      BY <3>1, <3>2
    <3> QED BY <1>1, <3>3 DEF below
  <2> QED BY <2>1, <2>2
<1>13. PICK t : t = s
  OBVIOUS
<1>14. DOMAIN t = 1 .. K /\ \A p \in 1 .. K : t[p] \in N /\ rank[t[p]] = p - 1
  BY <1>12, <1>13
<1>15. Ascending(t)
  <2> SUFFICES ASSUME NEW p \in 1 .. K, NEW q \in 1 .. K, p < q
               PROVE  t[p] <= t[q]
    BY <1>14 DEF Ascending
  <2>1. t[p] \in N /\ t[q] \in N /\ rank[t[p]] = p - 1 /\ rank[t[q]] = q - 1
    BY <1>14
  <2>2. ~(t[q] < t[p])
    <3> SUFFICES ASSUME t[q] < t[p] PROVE FALSE
      OBVIOUS
    <3>1. rank[t[q]] + 1 <= rank[t[p]]
      BY <1>6, <2>1
    <3>2. p \in Int /\ q \in Int
      BY <1>2
    <3> QED BY <2>1, <3>1, <3>2
  <2>3. t[p] \in Nat /\ t[q] \in Nat
    BY <2>1
  <2> QED BY <2>2, <2>3
<1>16. ASSUME NEW v \in N
       PROVE  Cardinality({p \in DOMAIN t : t[p] = v}) = 1
  <2>1. rank[v] + 1 \in 1 .. K
    BY <1>2, <1>3, <1>5
  <2>2. t[rank[v] + 1] = v
    <3>1. t[rank[v] + 1] \in N /\ rank[t[rank[v] + 1]] = rank[v]
      BY <1>2, <1>3, <1>14, <2>1
    <3> QED BY <1>7, <3>1
  <2>3. \A p \in 1 .. K : t[p] = v => p = rank[v] + 1
    BY <1>2, <1>3, <1>14
  <2>4. {p \in DOMAIN t : t[p] = v} = {rank[v] + 1}
    BY <1>14, <2>1, <2>2, <2>3
  <2> QED BY <2>4, FS_Singleton
<1> QED BY <1>2, <1>15, <1>16, <1>13, <1>14

\* The fields make the edge.
LEMMA SameEdge ==
  ASSUME TypeOK, Loops, NEW j \in 1 .. Len(edges), NEW l \in 1 .. Len(edges),
         edges[j].from = edges[l].from, edges[j].to = edges[l].to
  PROVE  j = l
<1>1. /\ edges[j] \in [from : Vertex, to : Vertex] /\ edges[l] \in [from : Vertex, to : Vertex]
      /\ DOMAIN edges = 1 .. Len(edges)
  BY EdgesType
<1>2. edges[j] = edges[l]
  BY <1>1
<1> QED BY <1>1, <1>2 DEF Loops

\* The row of a hub has the targets of its edges.
LEMMA RowIsTargets ==
  ASSUME IInv, phase = "built", NEW u \in isHub
  PROVE  RowBits(u) = {v \in Vertex : Linked(edges, u, v)}
<1>1. /\ TypeOK /\ n \in Nat /\ RowsConsistent /\ Read = Len(edges)
      /\ hubBits \in [0 .. (numHubs * wordsPerRow - 1) -> SUBSET (0 .. (WordBits - 1))]
  BY DEF IInv, RowsConsistent, TypeOK, Read
<1>2. /\ DOMAIN edges = 1 .. Len(edges)
      /\ \A j \in 1 .. Len(edges) : edges[j].from \in Vertex /\ edges[j].to \in Vertex
  BY <1>1, EdgesType
<1> DEFINE word(w) == hubBits[hubRow[u] * wordsPerRow + w]
<1>3. \A w \in 0 .. (wordsPerRow - 1), b \in 0 .. (WordBits - 1) :
        b \in word(w) <=> \E j \in 1 .. Len(edges) : edges[j].from = u
                                                  /\ edges[j].to = w * WordBits + b
  BY <1>1 DEF IInv, BitsSet
<1>4. \A w \in 0 .. (wordsPerRow - 1) : word(w) \subseteq 0 .. (WordBits - 1)
  <2>1. \A w \in 0 .. (wordsPerRow - 1) :
          hubRow[u] * wordsPerRow + w \in 0 .. (numHubs * wordsPerRow - 1)
    BY <1>1, RowPlaces
  <2> QED BY <1>1, <2>1
<1> HIDE DEF word
<1>5. ASSUME NEW v
      PROVE  v \in RowBits(u) <=> \E w \in 0 .. (wordsPerRow - 1) : \E b \in word(w) :
                                    v = w * WordBits + b
  BY DEF RowBits, word
<1>6. ASSUME NEW v \in RowBits(u)
      PROVE  v \in Vertex /\ Linked(edges, u, v)
  <2>1. PICK w \in 0 .. (wordsPerRow - 1) : \E b \in word(w) : v = w * WordBits + b
    BY <1>5
  <2>3. PICK b \in word(w) : v = w * WordBits + b
    BY <2>1
  <2>2. PICK j \in 1 .. Len(edges) : edges[j].from = u /\ edges[j].to = w * WordBits + b
    BY <1>3, <1>4
  <2> QED BY <1>2, <2>3, <2>2 DEF Linked
<1>7. ASSUME NEW v \in Vertex, Linked(edges, u, v)
      PROVE  v \in RowBits(u)
  <2>1. PICK w \in 0 .. (wordsPerRow - 1), b \in 0 .. (WordBits - 1) : v = w * WordBits + b
    BY <1>1, RowWords
  <2>2. b \in word(w)
    BY <1>2, <1>3, <1>7, <2>1 DEF Linked
  <2> QED BY <1>5, <2>1, <2>2
<1> QED BY <1>6, <1>7

\* The answers for a hub.
LEMMA HubContract ==
  ASSUME IInv, phase = "built", NEW u \in isHub
  PROVE  /\ Degree(u) = OutDegree(edges, u)
         /\ Lists(n, edges, u, Neighbors(u))
         /\ \A v \in Vertex : HasEdge(u, v) <=> Linked(edges, u, v)
<1> DEFINE N == {v \in Vertex : Linked(edges, u, v)}
           S == {j \in DOMAIN edges : edges[j].from = u}
           s == Neighbors(u)
<1>1. /\ TypeOK /\ Loops /\ n \in Nat /\ Read = Len(edges) /\ RowBits(u) = N
      /\ Len(edges) \in Nat
  BY RowIsTargets, EdgesType DEF IInv, RowsConsistent, TypeOK, Read
<1>2. /\ DOMAIN edges = 1 .. Len(edges)
      /\ \A j \in 1 .. Len(edges) : edges[j].from \in Vertex /\ edges[j].to \in Vertex
  BY <1>1, EdgesType
<1>3. IsFiniteSet(N) /\ N \subseteq Nat
  <2>1. IsFiniteSet(Vertex) /\ Vertex \subseteq Nat
    BY <1>1, FS_Interval DEF Vertex
  <2> QED BY <2>1, FS_Subset
<1>4. Cardinality(N) = Cardinality(S)
  <2> DEFINE f == [j \in S |-> edges[j].to]
  <2>1. f \in [S -> N]
    BY <1>2 DEF Linked
  <2>2. \A j, l \in S : f[j] = f[l] => j = l
    BY <1>1, <1>2, SameEdge
  <2>3. \A v \in N : \E j \in S : f[j] = v
    BY <1>2 DEF Linked
  <2>4. IsFiniteSet(S)
    <3>1. IsFiniteSet(1 .. Len(edges))
      BY <1>1, FS_Interval
    <3> QED BY <1>2, <3>1, FS_Subset
  <2>5. DOMAIN f = S
    OBVIOUS
  <2> HIDE DEF f, S, N
  <2>6. f \in Injection(S, N) /\ f \in Surjection(S, N)
    BY <2>1, <2>2, <2>3, <2>5 DEF Injection, Surjection, IsInjective
  <2> QED BY <2>4, <2>6, FS_Surjection
<1>5. Degree(u) = OutDegree(edges, u)
  BY <1>1, <1>4 DEF Degree, OutDegree
<1>6. /\ Ascending(s)
      /\ \A p \in DOMAIN s : s[p] \in N
      /\ \A v \in N : Cardinality({p \in DOMAIN s : s[p] = v}) = 1
  <2>1. s = Scan(N)
    BY <1>1 DEF Neighbors, Scan
  <2> HIDE DEF N, s
  <2>2. /\ Ascending(Scan(N))
        /\ \A p \in DOMAIN Scan(N) : Scan(N)[p] \in N
        /\ \A v \in N : Cardinality({p \in DOMAIN Scan(N) : Scan(N)[p] = v}) = 1
    BY <1>3, Enumerated
  <2> QED BY <2>1, <2>2
<1> HIDE DEF s
<1>7. ASSUME NEW v \in Vertex
      PROVE  Cardinality({p \in DOMAIN s : s[p] = v}) = Multiplicity(edges, u, v)
  <2> DEFINE T == {j \in DOMAIN edges : edges[j].from = u /\ edges[j].to = v}
  <2>1. CASE v \in N
    <3>1. PICK j \in DOMAIN edges : edges[j].from = u /\ edges[j].to = v
      BY <2>1 DEF Linked
    <3>2. \A l \in T : l = j
      BY <1>1, <1>2, <3>1, SameEdge
    <3>3. T = {j}
      BY <3>1, <3>2
    <3>4. Cardinality(T) = 1
      BY <3>3, FS_Singleton
    <3> QED BY <1>6, <2>1, <3>4 DEF Multiplicity
  <2>2. CASE v \notin N
    <3>1. T = {} /\ {p \in DOMAIN s : s[p] = v} = {}
      BY <1>6, <2>2 DEF Linked
    <3> QED BY <3>1, FS_EmptySet DEF Multiplicity
  <2> QED BY <2>1, <2>2
<1>8. Lists(n, edges, u, s)
  BY <1>6, <1>7 DEF Lists, Vertex
<1>9. ASSUME NEW v \in Vertex
      PROVE  HasEdge(u, v) <=> Linked(edges, u, v)
  <2>1. BitOf(u, v) <=> \E j \in 1 .. Read : edges[j].from = u /\ edges[j].to = v
    BY BitIsEdge
  <2> QED BY <1>1, <1>2, <2>1 DEF HasEdge, Linked
<1> QED BY <1>5, <1>8, <1>9 DEF s

\* An instance counts as the module does.
LEMMA SameCount == \A S : Rest!Cardinality(S) = Cardinality(S)
BY DEF Rest!Cardinality, Cardinality, Rest!IsFiniteSet, IsFiniteSet

\* The answers for the other vertices are those of the CSR of rest.
LEMMA OtherContract ==
  ASSUME IInv, phase = "built", NEW u \in Vertex, u \notin isHub
  PROVE  /\ Degree(u) = OutDegree(edges, u)
         /\ Lists(n, edges, u, Neighbors(u))
         /\ \A v \in Vertex : HasEdge(u, v) <=> Linked(edges, u, v)
<1>1. /\ TypeOK /\ n \in Nat /\ Read = Len(edges) /\ DOMAIN edges = 1 .. Len(edges)
  BY EdgesType DEF IInv, RowsConsistent, TypeOK, Read
<1>2. /\ Rest!Degree(u) = Rest!OutDegree(rest, u)
      /\ Rest!Lists(n, rest, u, Rest!Neighbors(u))
      /\ \A v \in Vertex : Rest!HasEdge(u, v) <=> Rest!Linked(rest, u, v)
  <2>1. Rest!Arrays
    BY DEF IInv, ArraysBuilt
  <2>2. Rest!ContractHolds
    BY <2>1, ArgumentsFit, Rest!ArraysContract
  <2> QED BY <2>2 DEF Rest!ContractHolds, Rest!Vertex, Vertex
<1>3. /\ OutDegree(rest, u) = OutDegree(edges, u)
      /\ \A v \in Vertex : Multiplicity(rest, u, v) = Multiplicity(edges, u, v)
  BY <1>1 DEF IInv, RestKept, OutDegree, Multiplicity, From, FromTo
<1>4. Csr!Neighbors(u) = Rest!Neighbors(u) /\ Csr!Degree(u) = Rest!Degree(u)
  BY DEF Csr!Neighbors, Rest!Neighbors, Csr!Degree, Rest!Degree
<1>5. Degree(u) = OutDegree(edges, u)
  BY <1>2, <1>3, <1>4, SameCount DEF Degree, Rest!OutDegree, OutDegree
<1>6. Lists(n, edges, u, Neighbors(u))
  <2> DEFINE s == Rest!Neighbors(u)
  <2>1. Neighbors(u) = s
    BY <1>4 DEF Neighbors
  <2> HIDE DEF s
  <2>2. /\ Ascending(s) /\ \A p \in DOMAIN s : s[p] \in Vertex
        /\ \A v \in Vertex : Cardinality({p \in DOMAIN s : s[p] = v}) = Multiplicity(rest, u, v)
    BY <1>2, SameCount DEF Rest!Lists, Rest!Ascending, Ascending, Rest!Multiplicity,
         Multiplicity, Vertex, s
  <2> QED BY <1>3, <2>1, <2>2 DEF Lists, Vertex
<1>7. ASSUME NEW v \in Vertex
      PROVE  HasEdge(u, v) <=> Linked(edges, u, v)
  <2>1. Csr!HasEdge(u, v) <=> Rest!HasEdge(u, v)
    BY <1>4 DEF Csr!HasEdge, Rest!HasEdge, Csr!BinarySearch, Rest!BinarySearch
  <2>2. Rest!Linked(rest, u, v) <=> Linked(rest, u, v)
    BY DEF Rest!Linked, Linked
  <2>3. Linked(rest, u, v) <=> \E j \in 1 .. Read : edges[j].from = u /\ edges[j].to = v
    BY RestIsEdge
  <2> QED BY <1>1, <1>2, <2>1, <2>2, <2>3 DEF HasEdge, Linked
<1> QED BY <1>5, <1>6, <1>7

\* The index answers what the list of edges says, for hubs and for the others, whatever
\* the threshold, the budget and the word size (hybrid.go:93-143).
THEOREM ContractCorrect == Spec => []ContractHolds
<1>1. IInv => ContractHolds
  BY HubContract, OtherContract DEF ContractHolds
<1> QED BY <1>1, InitIInv, StepIInv, PTL DEF Spec
=============================================================================
