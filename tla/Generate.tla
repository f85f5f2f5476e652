------------------------------ MODULE Generate ------------------------------
(***************************************************************************)
(* gen.Generate (gen/gen.go) and the two generators of queries             *)
(* (bench/workload.go).  A random draw is any of its possible outcomes.    *)
(*                                                                         *)
(* The list of edges is the set of its edges: module EdgeKeys says what    *)
(* Dedup, the last call of Generate, makes of the list.                    *)
(***************************************************************************)
EXTENDS Integers, Sequences, FiniteSets, FiniteSetsExt, Functions

CONSTANTS
  Specs,    \* records [kind, want, degree, undirected]
  Counts    \* the sizes of the batches of queries

ASSUME SpecsAssumption ==
  /\ \A s \in Specs : /\ s.kind \in {"er", "rmat", "grid", "other"}
                      /\ s.want \in Nat \ {0} /\ s.degree \in Int
  /\ Counts \subseteq Nat

VARIABLES
  spec, n, edges,
  phase,      \* "call", "draw", "mirror", "generated", "sources",
              \* "probes" or "failed"; then "run" (module ParallelTraverse)
  i,          \* draws, or vertices of the grid, so far
  queries     \* records [a, b]

graphVars == <<spec, n, edges, phase, i, queries>>

Vertex == 0 .. (n - 1)
Link(u, v) == [from |-> u, to |-> v]

\* A degree that is not positive means 8.
AvgDegree == IF spec.degree <= 0 THEN 8 ELSE spec.degree

\* 1 << k.
Bit[k \in Nat] == IF k = 0 THEN 1 ELSE 2 * Bit[k - 1]

\* The first scale from 1 on whose bit is not below the wanted size.
Scale(want) == Min({s \in 1 .. (want + 1) : Bit[s] >= want})

\* The square root of the wanted size, rounded, and at least 2.
Side(want) ==
  LET k == CHOOSE k \in 0 .. (want + 1) : (2 * k - 1) * (2 * k - 1) <= 4 * want
                                          /\ 4 * want < (2 * k + 1) * (2 * k + 1)
  IN IF k < 2 THEN 2 ELSE k

Init ==
  /\ spec \in Specs
  /\ n = 0 /\ edges = {} /\ phase = "call" /\ i = 0 /\ queries = <<>>

Unknown ==
  /\ phase = "call" /\ spec.kind = "other"
  /\ phase' = "failed"
  /\ UNCHANGED <<spec, n, edges, i, queries>>

Size ==
  /\ phase = "call" /\ spec.kind # "other"
  /\ n' = CASE spec.kind = "er"   -> spec.want
            [] spec.kind = "rmat" -> Bit[Scale(spec.want)]
            [] spec.kind = "grid" -> Side(spec.want) * Side(spec.want)
  /\ phase' = "draw"
  /\ UNCHANGED <<spec, edges, i, queries>>

Draws == IF spec.kind = "grid" THEN n ELSE n * AvgDegree

\* Two uniform vertices.
Uniform == Vertex \X Vertex

\* Mutant of Placed: the first step sets a bit above the highest one.
PlacedHigh(steps) == MapThenSumSet(LAMBDA step : Bit[Scale(spec.want) - step + 1], steps)

\* The vertex that has the bits of the steps.
Placed(steps) == MapThenSumSet(LAMBDA step : Bit[Scale(spec.want) - step], steps)

\* A quadrant at each step: whether the bit of the step is set in u, and in v.
Quadrants ==
  {<<Placed(U), Placed(V)>> :
     U \in SUBSET (1 .. Scale(spec.want)), V \in SUBSET (1 .. Scale(spec.want))}

\* One draw of erdosRenyi or of rmat; a loop is dropped and not drawn again.
Draw ==
  /\ phase = "draw" /\ spec.kind \in {"er", "rmat"} /\ i < Draws
  /\ \E p \in (IF spec.kind = "er" THEN Uniform ELSE Quadrants) :
       edges' = edges \cup (IF p[1] = p[2] THEN {} ELSE {Link(p[1], p[2])})
  /\ i' = i + 1
  /\ UNCHANGED <<spec, n, phase, queries>>

\* Mutant of Cell: the right neighbour is taken on the last column too.
CellWraps ==
  LET k == Side(spec.want)
      After == {i + 1 : x \in {i} \ {n - 1}} \cup {i + k : y \in {i} \cap 0 .. (n - k - 1)}
  IN {Link(i, v) : v \in After} \cup {Link(v, i) : v \in After}

\* The edges between vertex i of the grid and its neighbours to the right and below.
Cell ==
  LET k == Side(spec.want)
      x == i % k
      y == i \div k
      After == {v \in {y * k + x + 1} : x + 1 < k} \cup {v \in {(y + 1) * k + x} : y + 1 < k}
  IN {Link(i, v) : v \in After} \cup {Link(v, i) : v \in After}

DrawGrid ==
  /\ phase = "draw" /\ spec.kind = "grid" /\ i < Draws
  /\ edges' = edges \cup Cell
  /\ i' = i + 1
  /\ UNCHANGED <<spec, n, phase, queries>>

Drawn ==
  /\ phase = "draw" /\ i = Draws
  /\ phase' = IF spec.undirected THEN "mirror" ELSE "generated"
  /\ UNCHANGED <<spec, n, edges, i, queries>>

Mirror ==
  /\ phase = "mirror" /\ phase' = "generated"
  /\ edges' = edges \cup {Link(e.to, e.from) : e \in edges}
  /\ UNCHANGED <<spec, n, i, queries>>

-----------------------------------------------------------------------------
\* Mutant of Candidates: the vertices that edges lead to.
CandidatesIn == LET some == {e.to : e \in edges} IN IF some = {} THEN {0} ELSE some

\* The vertices with an edge out, or vertex 0 when there is none.
Candidates == LET some == {e.from : e \in edges} IN IF some = {} THEN {0} ELSE some

randomSources ==
  /\ phase = "generated" /\ phase' = "sources"
  /\ \E count \in Counts :
       queries' \in [1 .. count -> [a : Candidates, b : {0}]]
  /\ UNCHANGED <<spec, n, edges, i>>

\* Mutant of Probes: an index counted from 1 decides which half is drawn from the edges.
ProbesOdd(j) ==
  IF j % 2 = 0 /\ edges # {} THEN {[a |-> e.from, b |-> e.to] : e \in edges}
  ELSE [a : Vertex, b : Vertex]

\* What probe j, counted from 1, may be: an edge when it is the first, the third...
Probes(j) ==
  IF (j - 1) % 2 = 0 /\ edges # {} THEN {[a |-> e.from, b |-> e.to] : e \in edges}
  ELSE [a : Vertex, b : Vertex]

edgeProbes ==
  /\ phase = "generated" /\ phase' = "probes"
  /\ \E count \in Counts :
       \E q \in [1 .. count -> [a : Vertex, b : Vertex]] :
         /\ \A j \in 1 .. count : q[j] \in Probes(j)
         /\ queries' = q
  /\ UNCHANGED <<spec, n, edges, i>>

Generate ==
  \/ Unknown \/ Size \/ Draw \/ DrawGrid \/ Drawn \/ Mirror
  \/ randomSources \/ edgeProbes

-----------------------------------------------------------------------------
Generated == phase \notin {"call", "draw", "mirror", "failed"}

\* Structures index arrays by the vertices they are given, without a check: the size that
\* Generate returns, which rmat and grid adjust, bounds every edge and every query.
InRange ==
  /\ \A e \in edges : e.from \in Vertex /\ e.to \in Vertex /\ e.from # e.to
  /\ \A q \in Range(queries) : q.a \in Vertex /\ q.b \in Vertex

\* An undirected graph has each edge in both directions, whatever was drawn twice or in
\* both directions before.
Symmetric ==
  Generated /\ (spec.undirected \/ spec.kind = "grid") =>
    \A e \in edges : Link(e.to, e.from) \in edges

\* The grid links exactly the vertices at distance one: no edge goes from the end of a
\* row to the next row.
GridIsPlanar ==
  Generated /\ spec.kind = "grid" =>
    LET k == Side(spec.want)
        Gap(a, b) == IF a < b THEN b - a ELSE a - b
    IN \A u, v \in Vertex :
         Link(u, v) \in edges <=> Gap(u % k, v % k) + Gap(u \div k, v \div k) = 1

\* What Generate promises of a graph (gen.go:42-65, 89-93, 123-143): nothing checks it, and
\* all the structures would agree on a wrong one.
GraphWellFormed == InRange /\ Symmetric /\ GridIsPlanar

\* The measure is about the structures only if a traversal never starts on a vertex without
\* an edge out while there is one with some, and if half of the probes of hasedge are edges
\* (workload.go:102-104, 126-128).
QueriesFit ==
  edges # {} =>
    /\ phase \in {"sources", "run"} =>
         \A q \in Range(queries) : \E e \in edges : e.from = q.a
    /\ phase = "probes" =>
         2 * Cardinality({j \in DOMAIN queries : Link(queries[j].a, queries[j].b) \in edges})
           >= Len(queries)
=============================================================================
