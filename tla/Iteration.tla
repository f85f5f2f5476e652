----------------------------- MODULE Iteration -----------------------------
(***************************************************************************)
(* What ForEachNeighbor promises (the interface Graph of graph/graph.go):  *)
(* the callback receives the neighbours of a vertex in ascending order,    *)
(* each one once, until it returns false or there are none left; nothing   *)
(* is delivered after it returned false.  Builders receive lists without   *)
(* duplicates.                                                             *)
(***************************************************************************)
EXTENDS GraphContract, FiniteSetsExt, Functions

VARIABLES
  n, edges,   \* the graph: its vertices are 0 .. n-1
  phase,      \* "build", "ready", "running" or "returned"
  asked,      \* the vertex whose neighbours are listed
  sent,       \* what the callback has received
  more        \* its last answer

vars == <<n, edges, phase, asked, sent, more>>

Left == {v \in 0 .. (n - 1) : Linked(edges, asked, v)} \ Range(sent)

Init ==
  /\ n \in Nat
  /\ edges \in Seq([from : 0 .. (n - 1), to : 0 .. (n - 1)])
  /\ phase = "build" /\ asked = 0 /\ sent = <<>> /\ more = TRUE

Build ==
  /\ phase = "build" /\ phase' = "ready"
  /\ UNCHANGED <<n, edges, asked, sent, more>>

Ask ==
  /\ phase = "ready" /\ phase' = "running"
  /\ asked' \in 0 .. (n - 1)
  /\ UNCHANGED <<n, edges, sent, more>>

\* The callback receives the next neighbour; its answer decides whether the iteration
\* goes on.
Deliver ==
  /\ phase = "running" /\ Left # {}
  /\ sent' = Append(sent, Min(Left))
  /\ more' \in BOOLEAN /\ phase' = IF more' THEN "running" ELSE "returned"
  /\ UNCHANGED <<n, edges, asked>>

Exhausted ==
  /\ phase = "running" /\ Left = {}
  /\ phase' = "returned"
  /\ UNCHANGED <<n, edges, asked, sent, more>>

Next == Build \/ Ask \/ Deliver \/ Exhausted

\* An iteration that has begun returns; the caller need not ask for one.
Spec == Init /\ [][Next]_vars /\ WF_vars(Deliver \/ Exhausted)
=============================================================================
