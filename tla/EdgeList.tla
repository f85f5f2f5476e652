------------------------------ MODULE EdgeList ------------------------------
(***************************************************************************)
(* SortedEdgeList (graph/edgelist.go): the packed edges in ascending       *)
(* order, searched for the first key of a source and read from there.      *)
(***************************************************************************)
EXTENDS EdgeKeys, FiniteSetsExt

VARIABLES
  n, edges,                  \* the arguments of the constructor
  keys,
  phase, asked, sent, more,  \* an iteration, as in module Iteration
  at                         \* its index in keys, from 0

vars == <<n, edges, keys, phase, asked, sent, more, at>>

Vertex == 0 .. (n - 1)

Init == keys = <<>> /\ at = 0

NewSortedEdgeList ==
  /\ phase = "build" /\ phase' = "ready"
  /\ keys' = IF Ascending(Packed(edges)) THEN Packed(edges) ELSE SortedSlice(Packed(edges))
  /\ UNCHANGED <<n, edges, asked, sent, more, at>>

\* The index of the first key that is not below that of the edge from u to 0.
lowerBound(u) == BinarySearch(keys, u * Radix).index

\* Mutant of BlockEnd: a second search, for the key after the last one of u, with the
\* width of a key.
BlockEndSearched(u) == BinarySearch(keys, ((u + 1) * Radix) % (Radix * Radix)).index

\* The first index from lowerBound(u) on where the source changes or the keys end.
BlockEnd(u) ==
  Min({hi \in lowerBound(u) .. Len(keys) : hi = Len(keys) \/ Source(keys[hi + 1]) # u})

Degree(u) == BlockEnd(u) - lowerBound(u)

AppendNeighbors(dst, u) ==
  dst \o [j \in 1 .. (BlockEnd(u) - lowerBound(u)) |-> Target(keys[lowerBound(u) + j])]

HasEdge(u, v) == BinarySearch(keys, Pack([from |-> u, to |-> v])).found

\* The key at the index is one of the asked vertex.
InBlock == at < Len(keys) /\ Source(keys[at + 1]) = asked

Ask ==
  /\ phase = "ready" /\ phase' = "running"
  /\ \E u \in Vertex : asked' = u /\ at' = lowerBound(u)
  /\ UNCHANGED <<n, edges, keys, sent, more>>

\* The callback receives the target of the next key and returns true or false.
Visit ==
  /\ phase = "running" /\ InBlock
  /\ sent' = Append(sent, Target(keys[at + 1]))
  /\ \/ more' = TRUE /\ at' = at + 1 /\ UNCHANGED phase
     \/ more' = FALSE /\ phase' = "returned" /\ UNCHANGED at
  /\ UNCHANGED <<n, edges, keys, asked>>

Leave ==
  /\ phase = "running" /\ ~InBlock
  /\ phase' = "returned"
  /\ UNCHANGED <<n, edges, keys, asked, sent, more, at>>

Stay == (phase = "returned" \/ (phase = "ready" /\ n = 0)) /\ UNCHANGED vars

Next == NewSortedEdgeList \/ Ask \/ Visit \/ Leave \/ Stay
=============================================================================
