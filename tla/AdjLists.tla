------------------------------ MODULE AdjLists ------------------------------
(***************************************************************************)
(* The three structures that hold one list per vertex: NewAdjListAppend    *)
(* and NewAdjListExact (graph/adjlist.go), NewAdjMap (graph/adjmap.go).    *)
(* A list is its items and its capacity; an append that does not fit moves *)
(* the items to a larger block, whose size the run-time library chooses.   *)
(***************************************************************************)
EXTENDS GraphContract, FiniteSetsExt, Functions

CONSTANT Slack   \* the most by which an append grows a capacity beyond the length

VARIABLES
  name,                 \* "adjlist", "adjlist-exact" or "adjmap"
  n, edges,
  deg,                  \* the degrees, counted by "adjlist-exact" only
  adj,                  \* the list of each vertex that has one
  moved,                \* how many times a list that had a block was moved
  at,                   \* the edges read so far
  unsorted,             \* vertices whose list the last loop has not come to
  phase, asked, sent, more   \* an iteration, as in module Iteration; "build" has three stages

index == <<name, n, edges, deg, adj, moved>>
vars == <<index, at, unsorted, phase, asked, sent, more>>

Vertex == 0 .. (n - 1)
Nil == [items |-> <<>>, cap |-> 0]

Init ==
  /\ deg = [u \in Vertex |-> 0]
  /\ adj = IF name = "adjmap" THEN <<>> ELSE [u \in Vertex |-> Nil]
  /\ moved = 0 /\ at = 0 /\ unsorted = {}

\* Mutant of Allocate: the edges into a vertex are counted, not those out of it.
AllocateIn ==
  /\ phase = "count" /\ phase' = "append"
  /\ deg' = [u \in Vertex |-> Cardinality({j \in DOMAIN edges : edges[j].to = u})]
  /\ adj' = [u \in Vertex |-> [items |-> <<>>, cap |-> deg'[u]]]
  /\ UNCHANGED <<name, n, edges, moved, at, unsorted, asked, sent, more>>

\* The first two loops of NewAdjListExact: the degrees, and a block of each size.
Allocate ==
  /\ phase = "count" /\ phase' = "append"
  /\ deg' = [u \in Vertex |-> OutDegree(edges, u)]
  /\ adj' = [u \in Vertex |-> [items |-> <<>>, cap |-> deg'[u]]]
  /\ UNCHANGED <<name, n, edges, moved, at, unsorted, asked, sent, more>>

\* A vertex that a map does not hold reads as the nil list.
Entry(u) == IF u \in DOMAIN adj THEN adj[u] ELSE Nil

\* adj[e.From] = append(adj[e.From], e.To)
AppendEdge ==
  /\ phase = "append" /\ at < Len(edges)
  /\ LET e == edges[at + 1]
         old == Entry(e.from)
         items == Append(old.items, e.to)
         fits == Len(old.items) < old.cap
     IN /\ \E cap \in (IF fits THEN {old.cap} ELSE Len(items) .. (Len(items) + Slack)) :
             adj' = [u \in DOMAIN adj \cup {e.from} |->
                       IF u = e.from THEN [items |-> items, cap |-> cap] ELSE adj[u]]
        /\ moved' = IF ~fits /\ old.cap > 0 THEN moved + 1 ELSE moved
  /\ at' = at + 1
  /\ UNCHANGED <<name, n, edges, deg, unsorted, phase, asked, sent, more>>

Appended ==
  /\ phase = "append" /\ at = Len(edges)
  /\ phase' = "sort" /\ unsorted' = DOMAIN adj
  /\ UNCHANGED <<index, at, asked, sent, more>>

\* The vertices the loop may come to next: a map is ranged over in any order.
Upcoming == IF name = "adjmap" THEN unsorted ELSE {u \in unsorted : u = Min(unsorted)}

\* A list of more than one item that is not ascending is sorted in its block.
SortList ==
  /\ phase = "sort"
  /\ \E u \in Upcoming :
       /\ adj' = IF Len(adj[u].items) > 1 /\ ~Ascending(adj[u].items)
                 THEN [adj EXCEPT ![u].items = SortedSlice(@)] ELSE adj
       /\ unsorted' = unsorted \ {u}
  /\ UNCHANGED <<name, n, edges, deg, moved, at, phase, asked, sent, more>>

Done ==
  /\ phase = "sort" /\ unsorted = {}
  /\ phase' = "ready" /\ at' = 0
  /\ UNCHANGED <<index, unsorted, asked, sent, more>>

-----------------------------------------------------------------------------
Neighbors(u) == Entry(u).items

Degree(u) == Len(Neighbors(u))

HasEdge(u, v) ==
  (name = "adjmap" => u \in DOMAIN adj) /\ BinarySearch(Neighbors(u), v).found

Ask ==
  /\ phase = "ready" /\ phase' = "running"
  /\ asked' \in Vertex
  /\ UNCHANGED <<index, at, unsorted, sent, more>>

\* for _, v := range adj[u] { if !fn(v) { return } }
Visit ==
  /\ phase = "running" /\ at < Degree(asked)
  /\ sent' = Append(sent, Neighbors(asked)[at + 1]) /\ at' = at + 1
  /\ more' \in BOOLEAN /\ phase' = IF more' THEN "running" ELSE "returned"
  /\ UNCHANGED <<index, unsorted, asked>>

Leave ==
  /\ phase = "running" /\ at = Degree(asked)
  /\ phase' = "returned"
  /\ UNCHANGED <<index, at, unsorted, asked, sent, more>>

Stay == (phase = "returned" \/ (phase = "ready" /\ n = 0)) /\ UNCHANGED vars

Next == \/ Allocate \/ AppendEdge \/ Appended \/ SortList \/ Done
        \/ Ask \/ Visit \/ Leave \/ Stay
=============================================================================
