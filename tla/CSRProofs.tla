----------------------------- MODULE CSRProofs -----------------------------
(* Proofs about CSRBuild, for every list of edges. *)
EXTENDS CSRBuild, NaturalFacts, FiniteSetTheorems, SequenceTheorems

-----------------------------------------------------------------------------
(* Counting edges. *)

\* The two counts are natural numbers.
LEMMA CountsAreFinite ==
  ASSUME NEW k \in Nat, NEW u
  PROVE  /\ IsFiniteSet(EdgesFrom(k, u)) /\ Cardinality(EdgesFrom(k, u)) \in Nat
         /\ IsFiniteSet(EdgesBelow(k, u)) /\ Cardinality(EdgesBelow(k, u)) \in Nat
<1>1. IsFiniteSet(1 .. k)
  BY FS_Interval
<1>2. EdgesFrom(k, u) \in SUBSET (1 .. k) /\ EdgesBelow(k, u) \in SUBSET (1 .. k)
  BY DEF EdgesFrom, EdgesBelow
<1>3. IsFiniteSet(EdgesFrom(k, u)) /\ IsFiniteSet(EdgesBelow(k, u))
  BY <1>1, <1>2, FS_Subset
<1> QED BY <1>3, FS_CardinalityType

\* Before the first edge nothing is counted (csr.go:8, 17).
LEMMA NothingRead == \A u : Cardinality(EdgesFrom(0, u)) = 0
<1> TAKE u
<1>1. EdgesFrom(0, u) = {}
  BY DEF EdgesFrom
<1> QED BY <1>1, FS_EmptySet

\* One more edge is counted once, at its source (csr.go:10, 20).
LEMMA NextEdge ==
  ASSUME NEW k \in Nat, NEW u
  PROVE  Cardinality(EdgesFrom(k + 1, u))
           = Cardinality(EdgesFrom(k, u)) + (IF edges[k + 1].from = u THEN 1 ELSE 0)
<1>1. IsFiniteSet(EdgesFrom(k, u)) /\ Cardinality(EdgesFrom(k, u)) \in Nat
  BY CountsAreFinite
<1>2. 1 .. (k + 1) = (1 .. k) \cup {k + 1} /\ k + 1 \notin 1 .. k
  OBVIOUS
<1>3. CASE edges[k + 1].from = u
  <2>1. EdgesFrom(k + 1, u) = EdgesFrom(k, u) \cup {k + 1} /\ k + 1 \notin EdgesFrom(k, u)
    BY <1>2, <1>3 DEF EdgesFrom
  <2> QED BY <1>1, <1>3, <2>1, FS_AddElement
<1>4. CASE edges[k + 1].from # u
  <2>1. EdgesFrom(k + 1, u) = EdgesFrom(k, u)
    BY <1>2, <1>4 DEF EdgesFrom
  <2> QED BY <1>1, <1>4, <2>1
<1> QED BY <1>3, <1>4

\* What the type invariant says of the edges.
LEMMA EdgesType ==
  ASSUME TypeOK
  PROVE  /\ n \in Nat /\ m \in Nat /\ DOMAIN edges = 1 .. m
         /\ \A j \in 1 .. m : edges[j].from \in Vertex /\ edges[j].to \in Vertex
<1> DEFINE Edge == [from : Vertex, to : Vertex]
<1>1. n \in Nat /\ edges \in Seq(Edge)
  BY DEF TypeOK
<1>2. ASSUME NEW S, edges \in Seq(S)
      PROVE  /\ Len(edges) \in Nat /\ DOMAIN edges = 1 .. Len(edges)
             /\ \A j \in 1 .. Len(edges) : edges[j] \in S
  BY <1>2
<1>3. m \in Nat /\ DOMAIN edges = 1 .. m /\ \A j \in 1 .. m : edges[j] \in Edge
  BY <1>1, <1>2 DEF m
<1> QED BY <1>1, <1>3

\* The edges below u + 1 are those below u and those of u: the step of the prefix sum
\* (csr.go:13).
LEMMA NextBound ==
  ASSUME TypeOK, NEW u \in Vertex
  PROVE  Cardinality(EdgesBelow(m, u + 1))
           = Cardinality(EdgesBelow(m, u)) + Cardinality(EdgesFrom(m, u))
<1>1. n \in Nat /\ m \in Nat /\ \A j \in 1 .. m : edges[j].from \in Int
  BY EdgesType DEF Vertex
<1>2. u \in Int
  BY <1>1 DEF Vertex
<1>3. \A a \in Int : a < u + 1 <=> (a < u \/ a = u)
  BY <1>2
<1>4. EdgesBelow(m, u + 1) = EdgesBelow(m, u) \cup EdgesFrom(m, u)
  BY <1>1, <1>3 DEF EdgesBelow, EdgesFrom
<1>5. EdgesBelow(m, u) \cap EdgesFrom(m, u) = {}
  BY <1>2 DEF EdgesBelow, EdgesFrom
<1>6. Cardinality(EdgesBelow(m, u) \cap EdgesFrom(m, u)) = 0
  BY <1>5, FS_EmptySet
<1>7. /\ IsFiniteSet(EdgesBelow(m, u)) /\ Cardinality(EdgesBelow(m, u)) \in Nat
      /\ IsFiniteSet(EdgesFrom(m, u)) /\ Cardinality(EdgesFrom(m, u)) \in Nat
  BY <1>1, CountsAreFinite
<1>8. Cardinality(EdgesBelow(m, u) \cup EdgesFrom(m, u))
        = Cardinality(EdgesBelow(m, u)) + Cardinality(EdgesFrom(m, u)) - 0
  BY <1>6, <1>7, FS_Union
<1>9. Cardinality(EdgesBelow(m, u + 1)) = Cardinality(EdgesBelow(m, u) \cup EdgesFrom(m, u))
  BY <1>4, Zenon
<1> QED BY <1>7, <1>8, <1>9

\* The first bound is 0 and the last one is m.
LEMMA OuterBounds ==
  ASSUME TypeOK
  PROVE  Cardinality(EdgesBelow(m, 0)) = 0 /\ Cardinality(EdgesBelow(m, n)) = m
<1>1. n \in Nat /\ m \in Nat /\ \A j \in 1 .. m : edges[j].from \in 0 .. (n - 1)
  BY EdgesType DEF Vertex
<1>2. EdgesBelow(m, 0) = {}
  BY <1>1 DEF EdgesBelow
<1>3. EdgesBelow(m, n) = 1 .. m
  BY <1>1 DEF EdgesBelow
<1>4. Cardinality(1 .. m) = m
  BY <1>1, FS_Interval
<1> QED BY <1>2, <1>3, <1>4, FS_EmptySet

\* The bounds do not decrease.
LEMMA BoundsGrow ==
  ASSUME TypeOK, NEW u \in 0 .. n, NEW w \in 0 .. n, u <= w
  PROVE  Cardinality(EdgesBelow(m, u)) <= Cardinality(EdgesBelow(m, w))
<1>1. n \in Nat /\ m \in Nat /\ \A j \in 1 .. m : edges[j].from \in Int
  BY EdgesType DEF Vertex
<1>2. EdgesBelow(m, u) \in SUBSET EdgesBelow(m, w)
  BY <1>1 DEF EdgesBelow
<1>3. IsFiniteSet(EdgesBelow(m, w))
  BY <1>1, CountsAreFinite
<1> QED BY <1>2, <1>3, FS_Subset

\* No step changes the arguments.
LEMMA SameArguments ==
  ASSUME [Next]_vars
  PROVE  /\ n' = n /\ edges' = edges /\ Vertex' = Vertex /\ m' = m
         /\ \A k, u : EdgesFrom(k, u)' = EdgesFrom(k, u) /\ EdgesBelow(k, u)' = EdgesBelow(k, u)
<1>1. n' = n /\ edges' = edges
  BY DEF Next, Build, Built, Allocate, Count, Prefix, Scatter, Sort, vars, arrays
<1> QED BY <1>1 DEF Vertex, m, EdgesFrom, EdgesBelow

-----------------------------------------------------------------------------
(* The type invariant. *)

\* What the type invariant says in each loop.
LEMMA TypeByLoop ==
  ASSUME TypeOK
  PROVE  /\ phase # "call" => offsets \in [0 .. n -> Nat]
         /\ phase \in {"count", "scatter"} => i \in 0 .. m
         /\ phase \in {"prefix", "sort"} => i \in 0 .. n
         /\ phase \in {"count", "prefix"} => targets = <<>> /\ cursor = <<>>
         /\ phase \in {"scatter", "sort", "built"} =>
              targets \in [0 .. (m - 1) -> Vertex] /\ cursor \in [Vertex -> Nat]
<1>1. n \in Nat /\ m \in Nat
  BY EdgesType
<1> QED BY <1>1 DEF TypeOK

\* TypeOK is inductive by itself.  The targets start at 0 (csr.go:15), which is a vertex
\* as soon as there is an edge.
LEMMA TypeStep == TypeOK /\ [Next]_vars => TypeOK'
<1> SUFFICES ASSUME TypeOK, [Next]_vars PROVE TypeOK'
  OBVIOUS
<1>1. /\ n \in Nat /\ m \in Nat
      /\ \A j \in 1 .. m : edges[j].from \in Vertex /\ edges[j].to \in Vertex
  BY EdgesType
<1>2. n' = n /\ edges' = edges /\ Vertex' = Vertex /\ m' = m
  BY SameArguments
<1>3. n' \in Nat /\ edges' \in Seq([from : Vertex', to : Vertex'])
  <2>1. n \in Nat /\ edges \in Seq([from : Vertex, to : Vertex])
    BY DEF TypeOK
  <2> QED BY <1>2, <2>1
<1>4. CASE Allocate
  <2>1. phase' = "count" /\ i' = 0 /\ targets' = <<>> /\ cursor' = <<>>
    BY <1>4 DEF Allocate, TypeOK
  <2>2. offsets' \in [0 .. n' -> Nat]
    BY <1>2, <1>4 DEF Allocate
  <2> QED BY <1>1, <1>2, <1>3, <2>1, <2>2 DEF TypeOK
<1>5. CASE Count
  <2>1. phase = "count" /\ targets' = <<>> /\ cursor' = <<>>
    BY <1>5, TypeByLoop DEF Count
  <2>2. i \in 0 .. m /\ offsets \in [0 .. n -> Nat]
    BY <2>1, TypeByLoop
  <2>3. CASE i < m
    <3>1. edges[i + 1].from + 1 \in 0 .. n
      BY <1>1, <2>2, <2>3 DEF Vertex
    <3>2. offsets' = [offsets EXCEPT ![edges[i + 1].from + 1] = @ + 1]
          /\ phase' = "count" /\ i' = i + 1
      BY <1>1, <1>5, <2>1, <2>3 DEF Count
    <3>3. offsets' \in [0 .. n' -> Nat]
      BY <1>2, <2>2, <3>1, <3>2
    <3>4. i' \in Nat /\ i' <= m'
      BY <1>1, <1>2, <2>2, <2>3, <3>2
    <3> QED BY <1>3, <2>1, <3>2, <3>3, <3>4 DEF TypeOK
  <2>4. CASE i = m
    <3>1. phase' = "prefix" /\ i' = 0 /\ offsets' = offsets
      BY <1>1, <1>5, <2>4 DEF Count
    <3> QED BY <1>1, <1>2, <1>3, <2>1, <2>2, <3>1 DEF TypeOK
  <2> QED BY <1>5, <2>3, <2>4 DEF Count
<1>6. CASE Prefix
  <2>1. phase = "prefix"
    BY <1>6 DEF Prefix
  <2>2. i \in 0 .. n /\ offsets \in [0 .. n -> Nat] /\ targets = <<>> /\ cursor = <<>>
    BY <2>1, TypeByLoop
  <2>3. CASE i < n
    <3>1. offsets' = [offsets EXCEPT ![i + 1] = @ + offsets[i]]
          /\ phase' = "prefix" /\ i' = i + 1 /\ targets' = <<>> /\ cursor' = <<>>
      BY <1>6, <2>1, <2>2, <2>3 DEF Prefix
    <3>2. offsets' \in [0 .. n' -> Nat]
      BY <1>1, <1>2, <2>2, <2>3, <3>1
    <3> QED BY <1>1, <1>2, <1>3, <2>2, <2>3, <3>1, <3>2 DEF TypeOK
  <2>4. CASE i = n
    <3>1. phase' = "scatter" /\ i' = 0 /\ offsets' = offsets
          /\ targets' = [p \in 0 .. (m - 1) |-> 0] /\ cursor' = [u \in Vertex |-> offsets[u]]
      BY <1>1, <1>6, <2>4 DEF Prefix
    <3>2. m = 0 \/ 0 \in Vertex
      BY <1>1 DEF Vertex
    <3>3. targets' \in [0 .. (m' - 1) -> Vertex']
      BY <1>1, <1>2, <3>1, <3>2
    <3>4. Vertex \subseteq 0 .. n
      BY <1>1 DEF Vertex
    <3>5. cursor' \in [Vertex' -> Nat]
      BY <1>2, <2>2, <3>1, <3>4
    <3> QED BY <1>1, <1>2, <1>3, <2>2, <3>1, <3>3, <3>5 DEF TypeOK
  <2> QED BY <1>6, <2>3, <2>4 DEF Prefix
<1>7. CASE Scatter
  <2>1. phase = "scatter" /\ offsets' = offsets
    BY <1>7 DEF Scatter
  <2>2. /\ i \in 0 .. m /\ offsets \in [0 .. n -> Nat]
        /\ targets \in [0 .. (m - 1) -> Vertex] /\ cursor \in [Vertex -> Nat]
    BY <2>1, TypeByLoop
  <2>3. CASE i < m
    <3> DEFINE e == edges[i + 1]
    <3>1. targets' = [targets EXCEPT ![cursor[e.from]] = e.to]
          /\ cursor' = [cursor EXCEPT ![e.from] = @ + 1]
          /\ phase' = "scatter" /\ i' = i + 1
      BY <1>1, <1>7, <2>1, <2>3 DEF Scatter
    <3>2. e.from \in Vertex /\ e.to \in Vertex
      BY <1>1, <2>2, <2>3
    <3> HIDE DEF e
    <3>3. targets' \in [0 .. (m' - 1) -> Vertex'] /\ cursor' \in [Vertex' -> Nat]
      <4>1. targets' \in [0 .. (m - 1) -> Vertex]
        BY <2>2, <3>1, <3>2
      <4>2. cursor' \in [Vertex -> Nat]
        BY <2>2, <3>1, <3>2
      <4> QED BY <1>2, <4>1, <4>2
    <3>4. i' \in Nat /\ i' <= m' /\ offsets' \in [0 .. n' -> Nat]
      BY <1>1, <1>2, <2>1, <2>2, <2>3, <3>1
    <3> QED BY <1>3, <3>1, <3>3, <3>4 DEF TypeOK
  <2>4. CASE i = m
    <3>1. phase' = "sort" /\ i' = 0 /\ targets' = targets /\ cursor' = cursor
      BY <1>1, <1>7, <2>4 DEF Scatter
    <3> QED BY <1>1, <1>2, <1>3, <2>1, <2>2, <3>1 DEF TypeOK
  <2> QED BY <1>7, <2>3, <2>4 DEF Scatter
<1>8. CASE Sort
  <2>1. phase = "sort" /\ offsets' = offsets /\ cursor' = cursor
    BY <1>8 DEF Sort
  <2>2. /\ i \in 0 .. n /\ offsets \in [0 .. n -> Nat]
        /\ targets \in [0 .. (m - 1) -> Vertex] /\ cursor \in [Vertex -> Nat]
    BY <2>1, TypeByLoop
  <2>3. CASE i < n
    <3>1. phase' = "sort" /\ i' = i + 1
      BY <1>1, <1>8, <2>1, <2>3 DEF Sort
    <3>2. PICK t \in [Block(i) -> Vertex] :
            targets' = [p \in DOMAIN targets |-> IF p \in Block(i) THEN t[p] ELSE targets[p]]
      BY <1>1, <1>8, <2>3 DEF Sort
    <3>3. targets' \in [0 .. (m' - 1) -> Vertex']
      BY <1>2, <2>2, <3>2
    <3> QED BY <1>1, <1>2, <1>3, <2>1, <2>2, <2>3, <3>1, <3>3 DEF TypeOK
  <2>4. CASE i = n
    <3>1. phase' = "built" /\ i' = 0 /\ targets' = targets
      BY <1>1, <1>8, <2>4 DEF Sort
    <3> QED BY <1>1, <1>2, <1>3, <2>1, <2>2, <3>1 DEF TypeOK
  <2> QED BY <1>8, <2>3, <2>4 DEF Sort
<1>9. CASE UNCHANGED vars
  BY <1>2, <1>9 DEF vars, arrays, TypeOK
<1> QED BY <1>4, <1>5, <1>6, <1>7, <1>8, <1>9 DEF Next, Build, Built

\* The initial state is typed.
LEMMA TypeInit == Init => TypeOK
BY InputsAssumption DEF Init, TypeOK, Vertex, m

\* The arrays of the counting sort keep their lengths and ranges, for every n and
\* every list of edges (csr.go:7-29).
THEOREM TypeCorrect == Spec => []TypeOK
BY TypeInit, TypeStep, PTL DEF Spec

-----------------------------------------------------------------------------
(* The bounds of the blocks. *)

\* The first pass counts the edges of each vertex (csr.go:9-11).
LEMMA CountStep ==
  ASSUME TypeOK, OffsetsCount, Count, [Next]_vars
  PROVE  OffsetsCount'
<1>1. /\ n \in Nat /\ m \in Nat
      /\ \A j \in 1 .. m : edges[j].from \in Vertex
  BY EdgesType
<1>2. /\ n' = n /\ edges' = edges /\ Vertex' = Vertex /\ m' = m
      /\ \A k, u : EdgesFrom(k, u)' = EdgesFrom(k, u) /\ EdgesBelow(k, u)' = EdgesBelow(k, u)
  BY SameArguments
<1>3. phase = "count" /\ i \in 0 .. m /\ offsets \in [0 .. n -> Nat]
  BY TypeByLoop DEF Count
<1>4. offsets[0] = 0 /\ \A u \in Vertex : offsets[u + 1] = Cardinality(EdgesFrom(i, u))
  BY <1>3 DEF OffsetsCount
<1>5. CASE i < m
  <2> DEFINE f == edges[i + 1].from
  <2>1. f \in Vertex
    BY <1>1, <1>3, <1>5
  <2>2. phase' = "count" /\ i' = i + 1 /\ offsets' = [offsets EXCEPT ![f + 1] = @ + 1]
    BY <1>1, <1>3, <1>5 DEF Count
  <2>3. \A u \in Vertex :
          Cardinality(EdgesFrom(i + 1, u))
            = Cardinality(EdgesFrom(i, u)) + (IF f = u THEN 1 ELSE 0)
    BY <1>3, NextEdge
  <2> HIDE DEF f
  <2>4. offsets'[0] = 0
    BY <1>1, <1>3, <1>4, <2>1, <2>2 DEF Vertex
  <2>5. ASSUME NEW u \in Vertex
        PROVE  offsets'[u + 1] = Cardinality(EdgesFrom(i + 1, u))
    <3>1. u \in Int /\ f \in Int /\ u + 1 \in 0 .. n /\ f + 1 \in 0 .. n
      BY <1>1, <2>1 DEF Vertex
    <3>2. offsets'[u + 1] = IF u = f THEN offsets[u + 1] + 1 ELSE offsets[u + 1]
      BY <1>3, <2>2, <3>1
    <3>3. Cardinality(EdgesFrom(i, u)) = offsets[u + 1] /\ offsets[u + 1] \in Nat
      BY <1>3, <1>4, <3>1
    <3> QED BY <2>3, <3>2, <3>3
  <2> QED BY <1>2, <2>2, <2>4, <2>5 DEF OffsetsCount
<1>6. CASE i = m
  <2>1. phase' = "prefix" /\ i' = 0 /\ offsets' = offsets
    BY <1>1, <1>6 DEF Count
  <2>2. ASSUME NEW u \in 0 .. n
        PROVE  offsets[u] = IF u <= 0 THEN Cardinality(EdgesBelow(m, u))
                                      ELSE Cardinality(EdgesFrom(m, u - 1))
    <3>1. CASE u = 0
      BY <1>4, <3>1, OuterBounds
    <3>2. CASE u # 0
      <4>1. u - 1 \in Vertex /\ (u - 1) + 1 = u /\ ~(u <= 0)
        BY <1>1, <3>2 DEF Vertex
      <4> QED BY <1>4, <1>6, <4>1
    <3> QED BY <3>1, <3>2
  <2> QED BY <1>2, <2>1, <2>2 DEF OffsetsCount
<1> QED BY <1>5, <1>6 DEF Count

\* The second loop sums them (csr.go:12-14); cursor starts as a copy (csr.go:16-17).
LEMMA PrefixStep ==
  ASSUME TypeOK, OffsetsCount, Prefix, [Next]_vars
  PROVE  OffsetsCount'
<1>1. n \in Nat /\ m \in Nat
  BY EdgesType
<1>2. /\ n' = n /\ Vertex' = Vertex /\ m' = m
      /\ \A k, u : EdgesFrom(k, u)' = EdgesFrom(k, u) /\ EdgesBelow(k, u)' = EdgesBelow(k, u)
  BY SameArguments
<1>3. phase = "prefix" /\ i \in 0 .. n /\ offsets \in [0 .. n -> Nat]
  BY TypeByLoop DEF Prefix
<1>4. \A u \in 0 .. n : offsets[u] = IF u <= i THEN Cardinality(EdgesBelow(m, u))
                                               ELSE Cardinality(EdgesFrom(m, u - 1))
  BY <1>3 DEF OffsetsCount
<1>5. CASE i < n
  <2>1. phase' = "prefix" /\ i' = i + 1 /\ offsets' = [offsets EXCEPT ![i + 1] = @ + offsets[i]]
    BY <1>1, <1>3, <1>5 DEF Prefix
  <2>2. i \in Vertex /\ i + 1 \in 0 .. n
    BY <1>1, <1>3, <1>5 DEF Vertex
  <2>3. ASSUME NEW u \in 0 .. n
        PROVE  offsets'[u] = IF u <= i + 1 THEN Cardinality(EdgesBelow(m, u))
                                           ELSE Cardinality(EdgesFrom(m, u - 1))
    <3>1. CASE u = i + 1
      <4>1. offsets[i] = Cardinality(EdgesBelow(m, i))
        BY <1>3, <1>4
      <4>2. offsets[i + 1] = Cardinality(EdgesFrom(m, i))
        <5>1. ~(i + 1 <= i) /\ (i + 1) - 1 = i
          BY <1>3
        <5> QED BY <1>4, <2>2, <5>1
      <4>3. offsets'[u] = offsets[i + 1] + offsets[i]
        BY <1>3, <2>1, <2>2, <3>1
      <4>4. offsets[i] \in Nat /\ offsets[i + 1] \in Nat
        BY <1>3, <2>2
      <4>5. offsets'[u] = Cardinality(EdgesBelow(m, i + 1))
        BY <2>2, <4>1, <4>2, <4>3, <4>4, NextBound
      <4> QED BY <1>3, <3>1, <4>5
    <3>2. CASE u # i + 1
      <4>1. offsets'[u] = offsets[u] /\ (u <= i + 1 <=> u <= i)
        BY <1>3, <2>1, <3>2
      <4> QED BY <1>4, <4>1
    <3> QED BY <3>1, <3>2
  <2> QED BY <1>2, <2>1, <2>3 DEF OffsetsCount
<1>6. CASE i = n
  <2>1. /\ phase' = "scatter" /\ i' = 0 /\ offsets' = offsets
        /\ cursor' = [u \in Vertex |-> offsets[u]]
    BY <1>1, <1>6 DEF Prefix
  <2>2. \A u \in 0 .. n : offsets[u] = Cardinality(EdgesBelow(m, u))
    BY <1>4, <1>6
  <2>3. ASSUME NEW u \in Vertex
        PROVE  cursor'[u] = offsets'[u] + Cardinality(EdgesFrom(0, u))
    <3>1. offsets[u] \in Nat
      BY <1>1, <1>3 DEF Vertex
    <3> QED BY <2>1, <3>1, NothingRead
  <2> QED BY <1>2, <2>1, <2>2, <2>3 DEF OffsetsCount
<1> QED BY <1>5, <1>6 DEF Prefix

\* The second pass over the edges moves the cursor of the source (csr.go:18-21).
LEMMA ScatterStep ==
  ASSUME TypeOK, OffsetsCount, Scatter, [Next]_vars
  PROVE  OffsetsCount'
<1>1. /\ n \in Nat /\ m \in Nat
      /\ \A j \in 1 .. m : edges[j].from \in Vertex
  BY EdgesType
<1>2. /\ n' = n /\ edges' = edges /\ Vertex' = Vertex /\ m' = m
      /\ \A k, u : EdgesFrom(k, u)' = EdgesFrom(k, u) /\ EdgesBelow(k, u)' = EdgesBelow(k, u)
  BY SameArguments
<1>3. phase = "scatter" /\ offsets' = offsets
  BY DEF Scatter
<1>4. i \in 0 .. m /\ offsets \in [0 .. n -> Nat] /\ cursor \in [Vertex -> Nat]
  BY <1>3, TypeByLoop
<1>5. /\ \A u \in 0 .. n : offsets[u] = Cardinality(EdgesBelow(m, u))
      /\ \A u \in Vertex : cursor[u] = offsets[u] + Cardinality(EdgesFrom(i, u))
  BY <1>3 DEF OffsetsCount
<1>6. CASE i < m
  <2> DEFINE f == edges[i + 1].from
  <2>1. f \in Vertex
    BY <1>1, <1>4, <1>6
  <2>2. phase' = "scatter" /\ i' = i + 1 /\ cursor' = [cursor EXCEPT ![f] = @ + 1]
    BY <1>1, <1>3, <1>6 DEF Scatter
  <2>3. \A u \in Vertex :
          Cardinality(EdgesFrom(i + 1, u))
            = Cardinality(EdgesFrom(i, u)) + (IF f = u THEN 1 ELSE 0)
    BY <1>4, NextEdge
  <2> HIDE DEF f
  <2>4. ASSUME NEW u \in Vertex
        PROVE  cursor'[u] = offsets[u] + Cardinality(EdgesFrom(i + 1, u))
    <3>1. offsets[u] \in Nat /\ cursor[u] \in Nat
      BY <1>1, <1>4 DEF Vertex
    <3>2. Cardinality(EdgesFrom(i, u)) \in Nat
      BY <1>4, CountsAreFinite
    <3>3. cursor'[u] = IF f = u THEN cursor[u] + 1 ELSE cursor[u]
      BY <1>4, <2>2
    <3>4. cursor[u] = offsets[u] + Cardinality(EdgesFrom(i, u))
      BY <1>5
    <3> QED BY <2>3, <3>1, <3>2, <3>3, <3>4
  <2> QED BY <1>2, <1>3, <1>5, <2>2, <2>4 DEF OffsetsCount
<1>7. CASE i = m
  <2>1. phase' = "sort"
    BY <1>1, <1>7 DEF Scatter
  <2> QED BY <1>2, <1>3, <1>5, <2>1 DEF OffsetsCount
<1> QED BY <1>6, <1>7 DEF Scatter

\* Every step keeps the meaning of offsets and cursor.
LEMMA CountsStep == TypeOK /\ OffsetsCount /\ [Next]_vars => OffsetsCount'
<1> SUFFICES ASSUME TypeOK, OffsetsCount, [Next]_vars PROVE OffsetsCount'
  OBVIOUS
<1>1. /\ n' = n /\ Vertex' = Vertex /\ m' = m
      /\ \A k, u : EdgesFrom(k, u)' = EdgesFrom(k, u) /\ EdgesBelow(k, u)' = EdgesBelow(k, u)
  BY SameArguments
<1>2. n \in Nat
  BY EdgesType
<1>3. CASE Allocate
  <2>1. phase' = "count" /\ i' = 0 /\ offsets' = [u \in 0 .. n |-> 0]
    BY <1>3 DEF Allocate
  <2>2. 0 \in 0 .. n /\ \A u \in Vertex : u + 1 \in 0 .. n
    BY <1>2 DEF Vertex
  <2> QED BY <1>1, <2>1, <2>2, NothingRead DEF OffsetsCount
<1>4. CASE Sort
  <2>1. phase = "sort" /\ phase' \in {"sort", "built"} /\ offsets' = offsets
    BY <1>4 DEF Sort
  <2> QED BY <1>1, <2>1 DEF OffsetsCount
<1>5. CASE UNCHANGED vars
  BY <1>1, <1>5 DEF vars, arrays, OffsetsCount
<1> QED BY <1>3, <1>4, <1>5, CountStep, PrefixStep, ScatterStep DEF Next, Build, Built

\* The array offsets counts edges, then sums the counts, and cursor is ahead of it by
\* the edges scattered, for every list of edges (csr.go:8-21).
THEOREM Counts == Spec => []OffsetsCount
<1>1. Init => OffsetsCount
  BY DEF Init, OffsetsCount
<1> QED BY <1>1, CountsStep, TypeCorrect, PTL DEF Spec

\* The blocks follow each other from 0 to m and have the length of the out-degree, for
\* every list of edges: no target is lost or shared (csr.go:8-16).
THEOREM BlocksCorrect == Spec => []BlocksPartition
<1>1. TypeOK /\ OffsetsCount => BlocksPartition
  <2> SUFFICES ASSUME TypeOK, OffsetsCount, phase \in {"scatter", "sort", "built"}
               PROVE  /\ offsets[0] = 0 /\ offsets[n] = m
                      /\ \A u \in Vertex : offsets[u + 1] - offsets[u] = OutDegree(edges, u)
    BY DEF BlocksPartition
  <2>1. n \in Nat /\ m \in Nat /\ DOMAIN edges = 1 .. m
    BY EdgesType
  <2>2. \A u \in 0 .. n : offsets[u] = Cardinality(EdgesBelow(m, u))
    BY DEF OffsetsCount
  <2>3. offsets[0] = 0 /\ offsets[n] = m
    BY <2>1, <2>2, OuterBounds
  <2>4. ASSUME NEW u \in Vertex
        PROVE  offsets[u + 1] - offsets[u] = OutDegree(edges, u)
    <3>1. u \in 0 .. n /\ u + 1 \in 0 .. n
      BY <2>1 DEF Vertex
    <3>2. Cardinality(EdgesFrom(m, u)) \in Nat /\ Cardinality(EdgesBelow(m, u)) \in Nat
      BY <2>1, CountsAreFinite
    <3>3. OutDegree(edges, u) = Cardinality(EdgesFrom(m, u))
      BY <2>1 DEF OutDegree, EdgesFrom
    <3> QED BY <2>2, <3>1, <3>2, <3>3, NextBound
  <2> QED BY <2>3, <2>4
<1> QED BY <1>1, TypeCorrect, Counts, PTL

-----------------------------------------------------------------------------
(* Where scatter writes. *)

\* The cursor of a vertex stays in its block.
LEMMA CursorInBlock ==
  ASSUME TypeOK, OffsetsCount, phase = "scatter", NEW u \in Vertex
  PROVE  /\ offsets[u] \in Nat /\ cursor[u] \in Nat /\ offsets[u + 1] \in Nat
         /\ offsets[u] <= cursor[u] /\ cursor[u] <= offsets[u + 1]
<1>1. n \in Nat /\ m \in Nat /\ i \in 0 .. m /\ offsets \in [0 .. n -> Nat]
      /\ cursor \in [Vertex -> Nat]
  BY EdgesType, TypeByLoop
<1>2. u \in 0 .. n /\ u + 1 \in 0 .. n
  BY <1>1 DEF Vertex
<1>3. /\ cursor[u] = offsets[u] + Cardinality(EdgesFrom(i, u))
      /\ offsets[u] = Cardinality(EdgesBelow(m, u))
      /\ offsets[u + 1] = Cardinality(EdgesBelow(m, u + 1))
  BY <1>2 DEF OffsetsCount
<1>4. EdgesFrom(i, u) \in SUBSET EdgesFrom(m, u)
  BY <1>1 DEF EdgesFrom
<1>5. /\ Cardinality(EdgesFrom(i, u)) \in Nat /\ Cardinality(EdgesFrom(m, u)) \in Nat
      /\ IsFiniteSet(EdgesFrom(m, u))
  BY <1>1, CountsAreFinite
<1>6. Cardinality(EdgesFrom(i, u)) <= Cardinality(EdgesFrom(m, u))
  BY <1>4, <1>5, FS_Subset
<1>7. offsets[u] \in Nat /\ cursor[u] \in Nat /\ offsets[u + 1] \in Nat
  BY <1>1, <1>2
<1>8. offsets[u + 1] = offsets[u] + Cardinality(EdgesFrom(m, u))
  BY <1>3, NextBound
<1> QED BY <1>3, <1>5, <1>6, <1>7, <1>8

\* While an edge is left, its slot is free and in the block of its source: the write
\* targets[cursor[e.From]] = e.To is in bounds (csr.go:19).
LEMMA SlotIsFree ==
  ASSUME TypeOK, OffsetsCount, phase = "scatter", i < m
  PROVE  LET f == edges[i + 1].from IN
           /\ f \in Vertex
           /\ cursor[f] < offsets[f + 1]
           /\ cursor[f] \in 0 .. (m - 1)
           /\ \A u \in Vertex : u # f => cursor[f] \notin offsets[u] .. (cursor[u] - 1)
<1> DEFINE f == edges[i + 1].from
<1>1. /\ n \in Nat /\ m \in Nat /\ i \in 0 .. m /\ offsets \in [0 .. n -> Nat]
      /\ \A j \in 1 .. m : edges[j].from \in Vertex
  BY EdgesType, TypeByLoop
<1>2. f \in Vertex /\ i + 1 \in 1 .. m
  BY <1>1
<1>3. cursor[f] < offsets[f + 1]
  <2>1. EdgesFrom(i + 1, f) \in SUBSET EdgesFrom(m, f)
    BY <1>1 DEF EdgesFrom
  <2>2. /\ Cardinality(EdgesFrom(m, f)) \in Nat /\ IsFiniteSet(EdgesFrom(m, f))
        /\ Cardinality(EdgesFrom(i, f)) \in Nat
    BY <1>1, CountsAreFinite
  <2>3. Cardinality(EdgesFrom(i + 1, f)) <= Cardinality(EdgesFrom(m, f))
    BY <2>1, <2>2, FS_Subset
  <2>4. Cardinality(EdgesFrom(i + 1, f)) = Cardinality(EdgesFrom(i, f)) + 1
    BY <1>1, NextEdge
  <2>5. f \in 0 .. n /\ f + 1 \in 0 .. n
    BY <1>1, <1>2 DEF Vertex
  <2>6. /\ cursor[f] = offsets[f] + Cardinality(EdgesFrom(i, f))
        /\ offsets[f] = Cardinality(EdgesBelow(m, f))
        /\ offsets[f + 1] = Cardinality(EdgesBelow(m, f + 1))
    BY <1>2, <2>5 DEF OffsetsCount
  <2>7. offsets[f] \in Nat /\ offsets[f + 1] = offsets[f] + Cardinality(EdgesFrom(m, f))
    BY <1>1, <1>2, <2>5, <2>6, NextBound
  <2> QED BY <2>2, <2>3, <2>4, <2>6, <2>7
<1>4. \A u, w \in 0 .. n : u <= w => offsets[u] <= offsets[w]
  BY BoundsGrow DEF OffsetsCount
<1>5. \A u \in Vertex : /\ offsets[u] \in Nat /\ cursor[u] \in Nat /\ offsets[u + 1] \in Nat
                        /\ offsets[u] <= cursor[u] /\ cursor[u] <= offsets[u + 1]
  BY CursorInBlock
<1>6. offsets[n] = m
  BY <1>1, OuterBounds DEF OffsetsCount
<1> HIDE DEF f
<1>7. cursor[f] \in 0 .. (m - 1)
  <2>1. f + 1 \in 0 .. n /\ n \in 0 .. n /\ f + 1 <= n
    BY <1>1, <1>2 DEF Vertex
  <2>2. offsets[f + 1] <= m
    BY <1>4, <1>6, <2>1
  <2> QED BY <1>1, <1>2, <1>3, <1>5, <2>2
<1>8. ASSUME NEW u \in Vertex, u # f
      PROVE  cursor[f] \notin offsets[u] .. (cursor[u] - 1)
  <2>1. /\ u \in 0 .. n /\ u + 1 \in 0 .. n /\ f \in 0 .. n /\ f + 1 \in 0 .. n
    BY <1>1, <1>2 DEF Vertex
  <2>2. CASE u < f
    <3>1. offsets[u + 1] <= offsets[f]
      BY <1>4, <2>1, <2>2
    <3> QED BY <1>2, <1>5, <3>1
  <2>3. CASE f < u
    <3>1. offsets[f + 1] <= offsets[u]
      BY <1>4, <2>1, <2>3
    <3> QED BY <1>2, <1>3, <1>5, <3>1
  <2> QED BY <1>8, <2>1, <2>2, <2>3
<1> QED BY <1>2, <1>3, <1>7, <1>8 DEF f

\* Scattering one more edge adds its slot to those of its target in the block of its
\* source, and nothing else (csr.go:19-20).
LEMMA SlotsStep ==
  ASSUME TypeOK, OffsetsCount, Scatter, [Next]_vars, i < m, NEW u \in Vertex, NEW v \in Vertex,
         Cardinality(Slots(u, v)) = Cardinality(Scattered(u, v))
  PROVE  Cardinality(Slots(u, v)') = Cardinality(Scattered(u, v)')
<1> DEFINE f == edges[i + 1].from
           t == edges[i + 1].to
           c == cursor[f]
<1>1. phase = "scatter" /\ offsets' = offsets
  BY DEF Scatter
<1>2. /\ n \in Nat /\ m \in Nat /\ i \in 0 .. m /\ edges' = edges
      /\ targets \in [0 .. (m - 1) -> Vertex] /\ cursor \in [Vertex -> Nat]
  BY <1>1, EdgesType, TypeByLoop, SameArguments
<1>3. /\ i' = i + 1
      /\ targets' = [targets EXCEPT ![c] = t] /\ cursor' = [cursor EXCEPT ![f] = @ + 1]
  BY <1>2 DEF Scatter
<1>4. /\ f \in Vertex /\ c \in 0 .. (m - 1)
      /\ u # f => c \notin offsets[u] .. (cursor[u] - 1)
  BY <1>1, SlotIsFree
<1>5. \A w \in Vertex : /\ offsets[w] \in Nat /\ cursor[w] \in Nat /\ offsets[w] <= cursor[w]
  BY <1>1, CursorInBlock
<1>6. Scattered(u, v)' = {j \in 1 .. (i + 1) : edges[j].from = u /\ edges[j].to = v}
  BY <1>2, <1>3 DEF Scattered
<1>7. 1 .. (i + 1) = (1 .. i) \cup {i + 1} /\ i + 1 \notin 1 .. i
  BY <1>2
<1>8. Slots(u, v)' = {p \in offsets[u] .. (cursor'[u] - 1) : targets'[p] = v}
  BY <1>1 DEF Slots
<1>9. IsFiniteSet(Scattered(u, v)) /\ IsFiniteSet(Slots(u, v))
  <2>1. IsFiniteSet(1 .. i) /\ IsFiniteSet(offsets[u] .. (cursor[u] - 1))
    <3>1. offsets[u] \in Int /\ cursor[u] - 1 \in Int /\ 1 \in Int /\ i \in Int
      BY <1>2, <1>5
    <3> QED BY <3>1, FS_Interval
  <2>2. Scattered(u, v) \in SUBSET (1 .. i)
        /\ Slots(u, v) \in SUBSET (offsets[u] .. (cursor[u] - 1))
    BY DEF Scattered, Slots
  <2> QED BY <2>1, <2>2, FS_Subset
<1>10. c \in Nat /\ c \notin offsets[u] .. (cursor[u] - 1)
  BY <1>4, <1>5
<1>11. c \notin Slots(u, v)
  BY <1>10 DEF Slots
<1>12. \A p \in offsets[u] .. (cursor[u] - 1) : targets'[p] = targets[p]
  BY <1>3, <1>10
<1> DEFINE Added == u = f /\ v = t
<1>13. CASE Added
  <2>1. Scattered(u, v)' = Scattered(u, v) \cup {i + 1} /\ i + 1 \notin Scattered(u, v)
    BY <1>6, <1>7, <1>13 DEF Scattered
  <2>2. cursor'[u] = c + 1 /\ cursor[u] = c /\ offsets[u] \in Nat /\ offsets[u] <= c
    BY <1>2, <1>3, <1>4, <1>5, <1>13
  <2>3. offsets[u] .. (cursor'[u] - 1) = (offsets[u] .. (cursor[u] - 1)) \cup {c}
    BY <1>10, <2>2
  <2>4. targets'[c] = v
    BY <1>2, <1>3, <1>4, <1>13
  <2>5. Slots(u, v)' = Slots(u, v) \cup {c}
    BY <1>8, <1>12, <2>3, <2>4 DEF Slots
  <2>6. Cardinality(Scattered(u, v) \cup {i + 1}) = Cardinality(Scattered(u, v)) + 1
    BY <1>9, <2>1, FS_AddElement
  <2>7. Cardinality(Slots(u, v) \cup {c}) = Cardinality(Slots(u, v)) + 1
    BY <1>9, <1>11, FS_AddElement
  <2> HIDE DEF f, t, c
  <2> QED BY <2>1, <2>5, <2>6, <2>7, Zenon
<1>14. CASE ~Added
  <2>1. Scattered(u, v)' = Scattered(u, v)
    BY <1>6, <1>7, <1>14 DEF Scattered
  <2>2. Slots(u, v)' = Slots(u, v)
    <3>1. CASE u = f
      <4>1. cursor'[u] = c + 1 /\ cursor[u] = c /\ offsets[u] \in Nat /\ offsets[u] <= c
        BY <1>2, <1>3, <1>4, <1>5, <3>1
      <4>2. offsets[u] .. (cursor'[u] - 1) = (offsets[u] .. (cursor[u] - 1)) \cup {c}
        BY <1>10, <4>1
      <4>3. targets'[c] # v
        BY <1>2, <1>3, <1>4, <1>14, <3>1
      <4> QED BY <1>8, <1>12, <4>2, <4>3 DEF Slots
    <3>2. CASE u # f
      <4>1. cursor'[u] = cursor[u]
        BY <1>2, <1>3, <3>2
      <4> QED BY <1>8, <1>12, <4>1 DEF Slots
    <3> QED BY <3>1, <3>2
  <2> QED BY <2>1, <2>2, Zenon
<1> QED BY <1>13, <1>14

\* The part of ScatterInBlock that is proved by induction.
SlotsCounted ==
  phase = "scatter" =>
    \A u, v \in Vertex : Cardinality(Slots(u, v)) = Cardinality(Scattered(u, v))

\* Every step keeps the slots in step with the edges.
LEMMA SlotsCountedStep == TypeOK /\ OffsetsCount /\ SlotsCounted /\ [Next]_vars => SlotsCounted'
<1> SUFFICES ASSUME TypeOK, OffsetsCount, SlotsCounted, [Next]_vars, phase' = "scatter",
                    NEW u \in Vertex, NEW v \in Vertex
             PROVE  Cardinality(Slots(u, v)') = Cardinality(Scattered(u, v)')
  BY SameArguments DEF SlotsCounted
<1>1. n \in Nat /\ m \in Nat /\ n' = n /\ edges' = edges
  BY EdgesType, SameArguments
<1>2. CASE Prefix
  <2>1. i' = 0 /\ offsets' = offsets /\ cursor' = [w \in Vertex |-> offsets[w]]
    BY <1>2 DEF Prefix
  <2>2. phase = "prefix" /\ offsets \in [0 .. n -> Nat]
    BY <1>2, TypeByLoop DEF Prefix
  <2>3. cursor'[u] = offsets'[u] /\ offsets'[u] \in Nat
    BY <1>1, <2>1, <2>2 DEF Vertex
  <2>4. Slots(u, v)' = {} /\ Scattered(u, v)' = {}
    BY <2>1, <2>3 DEF Slots, Scattered
  <2> QED BY <2>4, Zenon
<1>3. CASE Scatter
  <2>1. i < m /\ phase = "scatter"
    BY <1>3 DEF Scatter
  <2> QED BY <1>3, <2>1, SlotsStep DEF SlotsCounted
<1>4. CASE UNCHANGED vars
  <2>1. Slots(u, v)' = Slots(u, v) /\ Scattered(u, v)' = Scattered(u, v) /\ phase = "scatter"
    BY <1>4 DEF vars, arrays, Slots, Scattered
  <2>2. Cardinality(Slots(u, v)) = Cardinality(Scattered(u, v))
    BY <2>1 DEF SlotsCounted
  <2> QED BY <2>1, <2>2, Zenon
<1>5. ~Allocate /\ ~Count /\ ~Sort
  BY DEF Allocate, Count, Sort
<1> QED BY <1>2, <1>3, <1>4, <1>5 DEF Next, Build, Built

\* Scatter fills each block from its start, with one slot for each edge read, and writes
\* in no other block, for every list of edges (csr.go:18-21).
THEOREM ScatterCorrect == Spec => []ScatterInBlock
<1>1. Init => SlotsCounted
  BY DEF Init, SlotsCounted
<1>2. Spec => []SlotsCounted
  BY <1>1, SlotsCountedStep, TypeCorrect, Counts, PTL DEF Spec
<1>3. TypeOK /\ OffsetsCount /\ SlotsCounted => ScatterInBlock
  BY CursorInBlock DEF SlotsCounted, ScatterInBlock
<1> QED BY <1>2, <1>3, TypeCorrect, Counts, PTL

-----------------------------------------------------------------------------
(* The blocks are sorted. *)

\* The copies of v in the block of u.
Copies(u, v) == {p \in Block(u) : targets[p] = v}

\* Once all the edges are scattered, each block holds the targets of its vertex; the
\* blocks before i are sorted.
BlocksSorted ==
  phase \in {"sort", "built"} =>
    \A u \in Vertex :
      /\ \A v \in Vertex : Cardinality(Copies(u, v)) = Multiplicity(edges, u, v)
      /\ phase = "built" \/ u < i =>
           \A p, q \in Block(u) : p < q => targets[p] <= targets[q]

\* The blocks lie in targets, and do not overlap (csr.go:15-16).
LEMMA BlocksApart ==
  ASSUME TypeOK, OffsetsCount, phase \in {"scatter", "sort", "built"}, NEW u \in Vertex
  PROVE  /\ offsets[u] \in Nat /\ offsets[u + 1] \in Nat /\ offsets[u] <= offsets[u + 1]
         /\ Block(u) \subseteq 0 .. (m - 1)
         /\ \A w \in Vertex : w # u => Block(u) \cap Block(w) = {}
<1>1. n \in Nat /\ m \in Nat /\ offsets \in [0 .. n -> Nat]
  BY EdgesType, TypeByLoop
<1>2. \A a, b \in 0 .. n : a <= b => offsets[a] <= offsets[b]
  BY BoundsGrow DEF OffsetsCount
<1>3. offsets[n] = m
  BY <1>1, OuterBounds DEF OffsetsCount
<1>4. \A w \in Vertex : w \in 0 .. n /\ w + 1 \in 0 .. n /\ w <= w + 1 /\ w + 1 <= n
  BY <1>1 DEF Vertex
<1>5. \A w \in Vertex : offsets[w] \in Nat /\ offsets[w + 1] \in Nat /\ offsets[w] <= offsets[w + 1]
  BY <1>1, <1>2, <1>4
<1>6. n \in 0 .. n /\ offsets[u + 1] <= m
  BY <1>1, <1>2, <1>3, <1>4
<1>7. Block(u) \subseteq 0 .. (m - 1)
  BY <1>1, <1>5, <1>6 DEF Block
<1>8. ASSUME NEW w \in Vertex, w # u
      PROVE  Block(u) \cap Block(w) = {}
  <2>1. u \in Int /\ w \in Int
    BY <1>1 DEF Vertex
  <2>2. CASE u < w
    <3>1. offsets[u + 1] <= offsets[w]
      BY <1>2, <1>4, <2>1, <2>2
    <3> QED BY <1>5, <3>1 DEF Block
  <2>3. CASE w < u
    <3>1. offsets[w + 1] <= offsets[u]
      BY <1>2, <1>4, <2>1, <2>3
    <3> QED BY <1>5, <3>1 DEF Block
  <2> QED BY <1>8, <2>1, <2>2, <2>3
<1> QED BY <1>5, <1>7, <1>8

\* When scatter stops every slot of every block is filled.
LEMMA ScatterFills ==
  ASSUME TypeOK, OffsetsCount, SlotsCounted, phase = "scatter", i = m,
         NEW u \in Vertex, NEW v \in Vertex
  PROVE  Cardinality(Copies(u, v)) = Multiplicity(edges, u, v)
<1>1. n \in Nat /\ m \in Nat /\ DOMAIN edges = 1 .. m /\ u \in 0 .. n /\ u + 1 \in 0 .. n
  BY EdgesType DEF Vertex
<1>2. cursor[u] = offsets[u + 1]
  <2>1. /\ cursor[u] = offsets[u] + Cardinality(EdgesFrom(m, u))
        /\ offsets[u] = Cardinality(EdgesBelow(m, u))
        /\ offsets[u + 1] = Cardinality(EdgesBelow(m, u + 1))
    BY <1>1 DEF OffsetsCount
  <2> QED BY <2>1, NextBound
<1>3. Slots(u, v) = Copies(u, v)
  BY <1>2 DEF Slots, Copies, Block
<1>4. Scattered(u, v) = {j \in DOMAIN edges : edges[j].from = u /\ edges[j].to = v}
  BY <1>1 DEF Scattered
<1> QED BY <1>3, <1>4 DEF SlotsCounted, Multiplicity

\* Sorting a block permutes it and leaves the others alone (csr.go:22-25).
LEMMA SortStep ==
  ASSUME TypeOK, OffsetsCount, BlocksSorted, Sort, [Next]_vars
  PROVE  BlocksSorted'
<1>1. /\ n \in Nat /\ m \in Nat /\ i \in 0 .. n /\ phase = "sort"
      /\ offsets' = offsets /\ edges' = edges /\ Vertex' = Vertex
      /\ targets \in [0 .. (m - 1) -> Vertex]
  BY EdgesType, TypeByLoop, SameArguments DEF Sort
<1>2. \A u \in Vertex : Block(u)' = Block(u)
  BY <1>1 DEF Block
<1>3. CASE i = n
  <2>1. phase' = "built" /\ targets' = targets
    BY <1>1, <1>3 DEF Sort
  <2>2. \A u \in Vertex : u < i
    BY <1>1, <1>3 DEF Vertex
  <2>3. \A u, v \in Vertex : Copies(u, v)' = Copies(u, v)
    BY <1>2, <2>1 DEF Copies
  <2> QED BY <1>1, <1>2, <2>1, <2>2, <2>3 DEF BlocksSorted, Multiplicity
<1>4. CASE i < n
  <2>1. i' = i + 1 /\ phase' = "sort"
    BY <1>1, <1>4 DEF Sort
  <2>2. PICK t \in [Block(i) -> Vertex] :
          /\ Ascending(t)
          /\ \A v \in Vertex : Cardinality({p \in Block(i) : t[p] = v})
                                 = Cardinality({p \in Block(i) : targets[p] = v})
          /\ targets' = [p \in DOMAIN targets |-> IF p \in Block(i) THEN t[p] ELSE targets[p]]
    BY <1>1, <1>4 DEF Sort
  <2>3. i \in Vertex
    BY <1>1, <1>4 DEF Vertex
  <2>4. /\ \A u \in Vertex : Block(u) \subseteq DOMAIN targets
        /\ \A u \in Vertex : u # i => Block(u) \cap Block(i) = {}
    BY <1>1, <2>3, BlocksApart
  <2>5. \A p \in Block(i) : targets'[p] = t[p]
    BY <2>2, <2>3, <2>4
  <2>6. \A u \in Vertex : u # i => \A p \in Block(u) : targets'[p] = targets[p]
    BY <2>2, <2>4
  <2>7. ASSUME NEW u \in Vertex, NEW v \in Vertex
        PROVE  Cardinality(Copies(u, v)') = Multiplicity(edges, u, v)
    <3>1. Copies(u, v)' = {p \in Block(u) : targets'[p] = v}
      BY <1>2 DEF Copies
    <3>2. Cardinality(Copies(u, v)) = Multiplicity(edges, u, v)
      BY <1>1 DEF BlocksSorted
    <3>3. CASE u = i
      <4>1. Copies(u, v)' = {p \in Block(i) : t[p] = v}
        BY <2>5, <3>1, <3>3
      <4> QED BY <2>2, <3>2, <3>3, <4>1 DEF Copies
    <3>4. CASE u # i
      <4>1. Copies(u, v)' = Copies(u, v)
        BY <2>6, <3>1, <3>4 DEF Copies
      <4> QED BY <3>2, <4>1
    <3> QED BY <3>3, <3>4
  <2>8. ASSUME NEW u \in Vertex, u < i + 1, NEW p \in Block(u), NEW q \in Block(u), p < q
        PROVE  targets'[p] <= targets'[q]
    <3>1. CASE u = i
      <4>1. p \in DOMAIN t /\ q \in DOMAIN t
        BY <2>2, <2>8, <3>1
      <4>2. t[p] <= t[q]
        BY <2>2, <2>8, <4>1 DEF Ascending
      <4> QED BY <2>5, <2>8, <3>1, <4>2
    <3>2. CASE u # i
      <4>1. u < i
        BY <1>1, <2>8, <3>2 DEF Vertex
      <4>2. targets[p] <= targets[q]
        BY <1>1, <2>8, <4>1 DEF BlocksSorted
      <4> QED BY <2>6, <2>8, <3>2, <4>2
    <3> QED BY <3>1, <3>2
  <2>9. \A u, v \in Vertex : Multiplicity(edges, u, v)' = Multiplicity(edges, u, v)
    BY <1>1 DEF Multiplicity
  <2> QED BY <1>1, <1>2, <2>1, <2>7, <2>8, <2>9 DEF BlocksSorted
<1> QED BY <1>1, <1>3, <1>4

LEMMA BlocksSortedStep ==
  TypeOK /\ OffsetsCount /\ SlotsCounted /\ BlocksSorted /\ [Next]_vars => BlocksSorted'
<1> SUFFICES ASSUME TypeOK, OffsetsCount, SlotsCounted, BlocksSorted, [Next]_vars
             PROVE  BlocksSorted'
  OBVIOUS
<1>1. n \in Nat /\ m \in Nat /\ edges' = edges /\ Vertex' = Vertex
  BY EdgesType, SameArguments
<1>2. CASE Allocate \/ Count \/ Prefix
  BY <1>2 DEF Allocate, Count, Prefix, BlocksSorted
<1>3. CASE Scatter
  <2>1. phase = "scatter" /\ offsets' = offsets /\ i \in 0 .. m
    BY <1>3, TypeByLoop DEF Scatter
  <2>2. CASE i < m
    BY <1>1, <1>3, <2>1, <2>2 DEF Scatter, BlocksSorted
  <2>3. CASE i = m
    <3>1. phase' = "sort" /\ i' = 0 /\ targets' = targets
      BY <1>1, <1>3, <2>3 DEF Scatter
    <3>2. \A u, v \in Vertex : /\ Copies(u, v)' = Copies(u, v)
                               /\ Multiplicity(edges, u, v)' = Multiplicity(edges, u, v)
      BY <1>1, <2>1, <3>1 DEF Copies, Block, Multiplicity
    <3>3. \A u, v \in Vertex : Cardinality(Copies(u, v)) = Multiplicity(edges, u, v)
      BY <2>1, <2>3, ScatterFills
    <3>4. \A u \in Vertex : ~(u < i')
      BY <1>1, <3>1 DEF Vertex
    <3> QED BY <1>1, <3>1, <3>2, <3>3, <3>4 DEF BlocksSorted
  <2> QED BY <1>1, <2>1, <2>2, <2>3
<1>4. CASE Sort
  BY <1>4, SortStep
<1>5. CASE Built \/ UNCHANGED vars
  <2>1. /\ phase' = phase /\ i' = i /\ offsets' = offsets /\ targets' = targets
    BY <1>5 DEF Built, vars, arrays
  <2>2. \A u, v \in Vertex : /\ Copies(u, v)' = Copies(u, v) /\ Block(u)' = Block(u)
                             /\ Multiplicity(edges, u, v)' = Multiplicity(edges, u, v)
    BY <1>1, <2>1 DEF Copies, Block, Multiplicity
  <2> QED BY <1>1, <2>1, <2>2 DEF BlocksSorted
<1> QED BY <1>2, <1>3, <1>4, <1>5 DEF Next, Build

\* Everything that the loops keep.
Arrays == TypeOK /\ OffsetsCount /\ SlotsCounted /\ BlocksSorted

LEMMA ArraysInit == Init => Arrays
BY TypeInit DEF Init, Arrays, OffsetsCount, SlotsCounted, BlocksSorted

LEMMA ArraysStep == Arrays /\ [Next]_vars => Arrays'
BY TypeStep, CountsStep, SlotsCountedStep, BlocksSortedStep DEF Arrays

-----------------------------------------------------------------------------
(* The contract. *)

\* The slice targets[offsets[u]:offsets[u+1]] is the block (csr.go:55-57).
LEMMA NeighborsAreBlock ==
  ASSUME Arrays, phase = "built", NEW u \in Vertex
  PROVE  /\ Neighbors(u) \in Seq(Vertex) /\ Ascending(Neighbors(u))
         /\ \A v \in Vertex :
              Cardinality({p \in DOMAIN Neighbors(u) : Neighbors(u)[p] = v})
                = Multiplicity(edges, u, v)
<1>1. /\ n \in Nat /\ m \in Nat /\ targets \in [0 .. (m - 1) -> Vertex]
      /\ offsets[u] \in Nat /\ offsets[u + 1] \in Nat /\ offsets[u] <= offsets[u + 1]
      /\ Block(u) \subseteq 0 .. (m - 1)
  BY EdgesType, TypeByLoop, BlocksApart DEF Arrays
<1>2. PICK a \in Nat, d \in Nat : a = offsets[u] /\ d = Degree(u)
  BY <1>1 DEF Degree
<1>3. Block(u) = a .. (a + d - 1)
  BY <1>1, <1>2 DEF Block, Degree
<1>4. \A p \in 1 .. d : a + p - 1 \in Block(u)
  BY <1>2, <1>3
<1>5. Neighbors(u) = [p \in 1 .. d |-> targets[a + p - 1]]
  BY <1>2 DEF Neighbors
<1>6. \A p \in 1 .. d : targets[a + p - 1] \in Vertex
  BY <1>1, <1>4
<1>7. Neighbors(u) \in Seq(Vertex) /\ DOMAIN Neighbors(u) = 1 .. d
      /\ \A p \in 1 .. d : Neighbors(u)[p] = targets[a + p - 1]
  BY <1>2, <1>5, <1>6
<1>8. Ascending(Neighbors(u))
  <2> SUFFICES ASSUME NEW p \in 1 .. d, NEW q \in 1 .. d, p < q
               PROVE  targets[a + p - 1] <= targets[a + q - 1]
    BY <1>7 DEF Ascending
  <2>1. a + p - 1 < a + q - 1
    BY <1>2
  <2>2. a + p - 1 \in Block(u) /\ a + q - 1 \in Block(u)
    BY <1>4
  <2> QED BY <2>1, <2>2 DEF Arrays, BlocksSorted
<1>9. ASSUME NEW v \in Vertex
      PROVE  Cardinality({p \in DOMAIN Neighbors(u) : Neighbors(u)[p] = v})
               = Multiplicity(edges, u, v)
  <2> DEFINE A == {p \in 1 .. d : targets[a + p - 1] = v}
             B == Copies(u, v)
             f == [p \in A |-> a + p - 1]
  <2>1. A = {p \in DOMAIN Neighbors(u) : Neighbors(u)[p] = v}
    BY <1>7
  <2>2. \A p \in A : a + p - 1 \in B
    BY <1>4 DEF Copies
  <2>3. f \in Injection(A, B)
    <3>1. f \in [A -> B]
      BY <2>2
    <3>2. \A p, q \in A : a + p - 1 = a + q - 1 => p = q
      BY <1>2
    <3> QED BY <3>1, <3>2 DEF Injection, IsInjective
  <2>4. f \in Surjection(A, B)
    <3>1. ASSUME NEW b \in B
          PROVE  \E p \in A : a + p - 1 = b
      <4>1. b \in a .. (a + d - 1) /\ targets[b] = v
        BY <1>3 DEF Copies
      <4>2. b - a + 1 \in 1 .. d /\ a + (b - a + 1) - 1 = b
        BY <1>2, <4>1
      <4> QED BY <4>1, <4>2
    <3>2. f \in [A -> B]
      BY <2>2
    <3> QED BY <3>1, <3>2 DEF Surjection
  <2>5. IsFiniteSet(A)
    <3>1. IsFiniteSet(1 .. d) /\ A \subseteq 1 .. d
      BY <1>2, FS_Interval
    <3> QED BY <3>1, FS_Subset
  <2>6. Cardinality(A) = Cardinality(B)
    <3>1. f \in Bijection(A, B)
      BY <2>3, <2>4 DEF Bijection
    <3>2. ExistsBijection(A, B)
      <4> HIDE DEF A, B, f
      <4> QED BY <3>1 DEF ExistsBijection
    <3> HIDE DEF A, B, f
    <3> QED BY <2>5, <3>2, FS_Bijection
  <2>7. Cardinality(B) = Multiplicity(edges, u, v)
    BY DEF Arrays, BlocksSorted
  <2> QED BY <2>1, <2>6, <2>7
<1> QED BY <1>7, <1>8, <1>9

\* Something is linked when it is counted at least once.
LEMMA LinkedIsCounted ==
  ASSUME NEW e, NEW L \in Nat, DOMAIN e = 1 .. L, NEW u, NEW v
  PROVE  Linked(e, u, v) <=> Multiplicity(e, u, v) # 0
<1> DEFINE A == {j \in DOMAIN e : e[j].from = u /\ e[j].to = v}
<1>1. IsFiniteSet(1 .. L) /\ A \subseteq 1 .. L
  BY FS_Interval
<1>2. IsFiniteSet(A)
  BY <1>1, FS_Subset
<1>3. Linked(e, u, v) <=> A # {}
  BY DEF Linked
<1>4. Multiplicity(e, u, v) = Cardinality(A)
  BY DEF Multiplicity
<1> HIDE DEF A
<1> QED BY <1>2, <1>3, <1>4, FS_EmptySet

\* What the arrays keep is the contract, once they are built.
LEMMA ArraysContract == Arrays => ContractHolds
<1> SUFFICES ASSUME Arrays, phase = "built", NEW u \in Vertex
             PROVE  /\ Degree(u) = OutDegree(edges, u)
                    /\ Lists(n, edges, u, Neighbors(u))
                    /\ \A v \in Vertex : HasEdge(u, v) <=> Linked(edges, u, v)
  BY DEF ContractHolds
<1>1. n \in Nat /\ m \in Nat /\ DOMAIN edges = 1 .. m
  BY EdgesType DEF Arrays
<1>2. Degree(u) = OutDegree(edges, u)
  <2>1. /\ offsets[u] = Cardinality(EdgesBelow(m, u))
        /\ offsets[u + 1] = Cardinality(EdgesBelow(m, u + 1))
    BY <1>1 DEF Arrays, OffsetsCount, Vertex
  <2>2. EdgesFrom(m, u) = {j \in DOMAIN edges : edges[j].from = u}
    BY <1>1 DEF EdgesFrom
  <2>3. /\ Cardinality(EdgesBelow(m, u)) \in Nat /\ Cardinality(EdgesFrom(m, u)) \in Nat
    BY <1>1, CountsAreFinite
  <2>4. Cardinality(EdgesBelow(m, u + 1))
          = Cardinality(EdgesBelow(m, u)) + Cardinality(EdgesFrom(m, u))
    BY NextBound DEF Arrays
  <2> QED BY <2>1, <2>2, <2>3, <2>4 DEF Degree, OutDegree
<1>3. Lists(n, edges, u, Neighbors(u))
  <2>1. \A p \in DOMAIN Neighbors(u) : Neighbors(u)[p] \in Vertex
    BY NeighborsAreBlock
  <2> QED BY <2>1, NeighborsAreBlock DEF Lists, Vertex
<1>4. ASSUME NEW v \in Vertex
      PROVE  HasEdge(u, v) <=> Linked(edges, u, v)
  <2>1. Neighbors(u) \in Seq(Int) /\ v \in Int
    <3>1. Vertex \subseteq Int
      BY <1>1 DEF Vertex
    <3>2. Neighbors(u) \in Seq(Vertex)
      BY NeighborsAreBlock
    <3>3. \A s \in Seq(Vertex) : s \in Seq(Int)
      <4>1. ASSUME NEW S, S \subseteq Int, NEW s \in Seq(S)
            PROVE  s \in Seq(Int)
        <5>1. PICK N \in Nat : N = Len(s) /\ s \in [1 .. N -> S]
          OBVIOUS
        <5>2. s \in [1 .. N -> Int]
          BY <4>1, <5>1
        <5> QED BY <5>1, <5>2, SeqDef
      <4> QED BY <3>1, <4>1
    <3> QED BY <3>1, <3>2, <3>3
  <2>2. HasEdge(u, v) <=> \E j \in DOMAIN Neighbors(u) : Neighbors(u)[j] = v
    BY <2>1, NeighborsAreBlock, BinarySearchFinds DEF HasEdge
  <2> DEFINE A == {p \in DOMAIN Neighbors(u) : Neighbors(u)[p] = v}
  <2>3. IsFiniteSet(A)
    <3>1. Len(Neighbors(u)) \in Nat /\ DOMAIN Neighbors(u) = 1 .. Len(Neighbors(u))
      BY <2>1
    <3>2. IsFiniteSet(1 .. Len(Neighbors(u))) /\ A \subseteq 1 .. Len(Neighbors(u))
      BY <3>1, FS_Interval
    <3> QED BY <3>2, FS_Subset
  <2>4. Cardinality(A) = Multiplicity(edges, u, v)
    BY NeighborsAreBlock
  <2>5. A = {} <=> ~HasEdge(u, v)
    BY <2>2
  <2>6. Cardinality(A) = 0 <=> A = {}
    <3> HIDE DEF A
    <3> QED BY <2>3, FS_EmptySet
  <2>7. Linked(edges, u, v) <=> Multiplicity(edges, u, v) # 0
    BY <1>1, LinkedIsCounted
  <2> QED BY <2>4, <2>5, <2>6, <2>7
<1> QED BY <1>2, <1>3, <1>4

\* The CSR index answers what the list of edges says, for every list: degrees, sorted
\* neighbours and the binary search (csr.go:48-69).
THEOREM ContractCorrect == Spec => []ContractHolds
BY ArraysInit, ArraysStep, ArraysContract, PTL DEF Spec
=============================================================================
