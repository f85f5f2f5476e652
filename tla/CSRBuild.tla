------------------------------ MODULE CSRBuild ------------------------------
(***************************************************************************)
(* buildCSRArrays (graph/csr.go): a counting sort of the edges by source,  *)
(* then a sort of every block, and the readers of the CSR index.           *)
(*                                                                         *)
(* One step is one iteration of a loop.  The edges come in any order.      *)
(***************************************************************************)
EXTENDS GraphContract

CONSTANT Inputs   \* the arguments: records [n, edges]

ASSUME InputsAssumption ==
  \A x \in Inputs :
    /\ x.n \in Nat
    /\ x.edges \in Seq([from : 0 .. (x.n - 1), to : 0 .. (x.n - 1)])

VARIABLES
  n, edges,   \* arguments
  phase,      \* which loop runs
  i,          \* its index
  offsets,    \* n+1 bounds
  targets,    \* the targets, at indices 0 .. m-1
  cursor      \* for each vertex, the next slot of its block

arrays == <<offsets, targets, cursor>>
vars == <<n, edges, phase, i, arrays>>

Vertex == 0 .. (n - 1)
m == Len(edges)
Block(u) == offsets[u] .. (offsets[u + 1] - 1)

Init ==
  /\ \E x \in Inputs : n = x.n /\ edges = x.edges
  /\ phase = "call"
  /\ i = 0
  /\ offsets = <<>> /\ targets = <<>> /\ cursor = <<>>

\* offsets is allocated, all zero.
Allocate ==
  /\ phase = "call"
  /\ offsets' = [u \in 0 .. n |-> 0]
  /\ phase' = "count" /\ i' = 0
  /\ UNCHANGED <<n, edges, targets, cursor>>

\* Mutant of Count: the counter of the vertex itself, which is the bound of the block
\* before it.
CountOwn ==
  /\ phase = "count"
  /\ \/ /\ i < m
        /\ offsets' = [offsets EXCEPT ![edges[i + 1].from] = @ + 1]
        /\ i' = i + 1
        /\ UNCHANGED phase
     \/ /\ i = m
        /\ phase' = "prefix" /\ i' = 0
        /\ UNCHANGED offsets
  /\ UNCHANGED <<n, edges, targets, cursor>>

\* offsets[e.From+1]++
Count ==
  /\ phase = "count"
  /\ \/ /\ i < m
        /\ offsets' = [offsets EXCEPT ![edges[i + 1].from + 1] = @ + 1]
        /\ i' = i + 1
        /\ UNCHANGED phase
     \/ /\ i = m
        /\ phase' = "prefix" /\ i' = 0
        /\ UNCHANGED offsets
  /\ UNCHANGED <<n, edges, targets, cursor>>

\* Mutant of Prefix: the loop stops one vertex early.
PrefixShort ==
  /\ phase = "prefix"
  /\ \/ /\ i < n - 1
        /\ offsets' = [offsets EXCEPT ![i + 1] = @ + offsets[i]]
        /\ i' = i + 1
        /\ UNCHANGED <<phase, targets, cursor>>
     \/ /\ i = (IF n = 0 THEN 0 ELSE n - 1)
        /\ targets' = [p \in 0 .. (m - 1) |-> 0]
        /\ cursor' = [u \in Vertex |-> offsets[u]]
        /\ phase' = "scatter" /\ i' = 0
        /\ UNCHANGED offsets
  /\ UNCHANGED <<n, edges>>

\* offsets[i+1] += offsets[i]; then targets and cursor are allocated.
Prefix ==
  /\ phase = "prefix"
  /\ \/ /\ i < n
        /\ offsets' = [offsets EXCEPT ![i + 1] = @ + offsets[i]]
        /\ i' = i + 1
        /\ UNCHANGED <<phase, targets, cursor>>
     \/ /\ i = n
        /\ targets' = [p \in 0 .. (m - 1) |-> 0]
        /\ cursor' = [u \in Vertex |-> offsets[u]]
        /\ phase' = "scatter" /\ i' = 0
        /\ UNCHANGED offsets
  /\ UNCHANGED <<n, edges>>

\* Mutant of Scatter: the cursor does not move.
ScatterInPlace ==
  /\ phase = "scatter"
  /\ \/ /\ i < m
        /\ targets' = [targets EXCEPT ![cursor[edges[i + 1].from]] = edges[i + 1].to]
        /\ i' = i + 1
        /\ UNCHANGED <<phase, cursor>>
     \/ /\ i = m
        /\ phase' = "sort" /\ i' = 0
        /\ UNCHANGED <<targets, cursor>>
  /\ UNCHANGED <<n, edges, offsets>>

\* targets[cursor[e.From]] = e.To; cursor[e.From]++
Scatter ==
  /\ phase = "scatter"
  /\ \/ /\ i < m
        /\ LET e == edges[i + 1] IN
             /\ targets' = [targets EXCEPT ![cursor[e.from]] = e.to]
             /\ cursor' = [cursor EXCEPT ![e.from] = @ + 1]
        /\ i' = i + 1
        /\ UNCHANGED phase
     \/ /\ i = m
        /\ phase' = "sort" /\ i' = 0
        /\ UNCHANGED <<targets, cursor>>
  /\ UNCHANGED <<n, edges, offsets>>

\* Mutant of Sort: a block of two is not sorted.
SortLong ==
  /\ phase = "sort"
  /\ \/ /\ i < n
        /\ \E t \in [Block(i) -> Vertex] :
             /\ IF Cardinality(Block(i)) > 2
                THEN /\ Ascending(t)
                     /\ \A v \in Vertex : Cardinality({p \in Block(i) : t[p] = v})
                                            = Cardinality({p \in Block(i) : targets[p] = v})
                ELSE \A p \in Block(i) : t[p] = targets[p]
             /\ targets' = [p \in DOMAIN targets |-> IF p \in Block(i) THEN t[p]
                                                                       ELSE targets[p]]
        /\ i' = i + 1
        /\ UNCHANGED phase
     \/ /\ i = n
        /\ phase' = "built" /\ i' = 0
        /\ UNCHANGED targets
  /\ UNCHANGED <<n, edges, offsets, cursor>>

\* The block of the next vertex is replaced by the ascending arrangement of its
\* elements, which is unique.
Sort ==
  /\ phase = "sort"
  /\ \/ /\ i < n
        /\ \E t \in [Block(i) -> Vertex] :
             /\ Ascending(t)
             /\ \A v \in Vertex : Cardinality({p \in Block(i) : t[p] = v})
                                    = Cardinality({p \in Block(i) : targets[p] = v})
             /\ targets' = [p \in DOMAIN targets |-> IF p \in Block(i) THEN t[p]
                                                                       ELSE targets[p]]
        /\ i' = i + 1
        /\ UNCHANGED phase
     \/ /\ i = n
        /\ phase' = "built" /\ i' = 0
        /\ UNCHANGED targets
  /\ UNCHANGED <<n, edges, offsets, cursor>>

Build == Allocate \/ Count \/ Prefix \/ Scatter \/ Sort

\* The index is immutable once built.
Built == phase = "built" /\ UNCHANGED vars

Next == Build \/ Built

Spec == Init /\ [][Next]_vars

-----------------------------------------------------------------------------
(* The readers of the index. *)

Degree(u) == offsets[u + 1] - offsets[u]

\* targets[offsets[u]:offsets[u+1]]
Neighbors(u) == [p \in 1 .. Degree(u) |-> targets[offsets[u] + p - 1]]

HasEdge(u, v) == BinarySearch(Neighbors(u), v).found

-----------------------------------------------------------------------------
(* Correctness. *)

\* Types and ranges of the arrays.
TypeOK ==
  /\ n \in Nat
  /\ edges \in Seq([from : Vertex, to : Vertex])
  /\ phase \in {"call", "count", "prefix", "scatter", "sort", "built"}
  /\ i \in Nat
  /\ i <= IF phase \in {"count", "scatter"} THEN m
          ELSE IF phase \in {"prefix", "sort"} THEN n ELSE 0
  /\ IF phase = "call" THEN offsets = <<>> ELSE offsets \in [0 .. n -> Nat]
  /\ IF phase \in {"call", "count", "prefix"} THEN targets = <<>> /\ cursor = <<>>
     ELSE /\ targets \in [0 .. (m - 1) -> Vertex]
          /\ cursor \in [Vertex -> Nat]

\* The edges of u, and those of the vertices before u, among the first k edges.
EdgesFrom(k, u)  == {j \in 1 .. k : edges[j].from = u}
EdgesBelow(k, u) == {j \in 1 .. k : edges[j].from < u}

\* What the shared array of counts and bounds means in the middle of each loop: a slot
\* u+1 holds the out-degree of u until prefix reaches it, then the number of edges of
\* the vertices up to u; cursor is ahead of offsets by the edges already scattered
\* (csr.go:8-21).
OffsetsCount ==
  /\ phase = "count" =>
       /\ offsets[0] = 0
       /\ \A u \in Vertex : offsets[u + 1] = Cardinality(EdgesFrom(i, u))
  /\ phase = "prefix" =>
       \A u \in 0 .. n :
         offsets[u] = IF u <= i THEN Cardinality(EdgesBelow(m, u))
                                ELSE Cardinality(EdgesFrom(m, u - 1))
  /\ phase \in {"scatter", "sort", "built"} =>
       \A u \in 0 .. n : offsets[u] = Cardinality(EdgesBelow(m, u))
  /\ phase = "scatter" =>
       \A u \in Vertex : cursor[u] = offsets[u] + Cardinality(EdgesFrom(i, u))

\* The copies of v in the slots of u filled so far, and the edges that they stand for.
Slots(u, v)     == {p \in offsets[u] .. (cursor[u] - 1) : targets[p] = v}
Scattered(u, v) == {j \in 1 .. i : edges[j].from = u /\ edges[j].to = v}

\* The slots of a vertex that scatter has filled are the first ones of its block, one
\* for each of its edges read so far, and it never writes past the block, which
\* the next vertex owns (csr.go:18-21).
ScatterInBlock ==
  phase = "scatter" =>
    \A u \in Vertex :
      /\ offsets[u] <= cursor[u] /\ cursor[u] <= offsets[u + 1]
      /\ \A v \in Vertex : Cardinality(Slots(u, v)) = Cardinality(Scattered(u, v))

\* The blocks partition targets: they follow each other from 0 to m.
BlocksPartition ==
  phase \in {"scatter", "sort", "built"} =>
    /\ offsets[0] = 0 /\ offsets[n] = m
    /\ \A u \in Vertex : offsets[u + 1] - offsets[u] = OutDegree(edges, u)

\* The index answers what the list of edges says, although the edges come in any order
\* and possibly several times: degrees, ascending neighbours, and the binary search of
\* HasEdge, which is only right on ascending blocks (csr.go:48-69).
ContractHolds ==
  phase = "built" =>
    \A u \in Vertex :
      /\ Degree(u) = OutDegree(edges, u)
      /\ Lists(n, edges, u, Neighbors(u))
      /\ \A v \in Vertex : HasEdge(u, v) <=> Linked(edges, u, v)
=============================================================================
