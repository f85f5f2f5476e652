----------------------------- MODULE GraphQuery -----------------------------
(***************************************************************************)
(* What the traversals of package traverse promise: a call names a query   *)
(* and a vertex, and the reply is a function of the graph alone, whatever  *)
(* the index structure, the order in which it lists the neighbours, and    *)
(* the queries the same buffers served before.                             *)
(*                                                                         *)
(* A graph maps each vertex to the sequence of its neighbours.  A sum of   *)
(* identifiers is a formal sum: for each vertex, how many times it was     *)
(* added.                                                                  *)
(***************************************************************************)
EXTENDS Integers, Sequences, FiniteSets

CONSTANT Graphs

VARIABLES
  graph,    \* the graph that is queried; it never changes
  request,  \* the query being served, or NoRequest
  reply     \* the last reply, or NoReply

vars == <<graph, request, reply>>

Traversals == {"bfs", "bfs-batch", "dfs"}
Lookups    == {"neighbors", "neighbors-batch"}

NoRequest == [op |-> "none"]
NoReply   == [count |-> 0]

\* The sets that contain the neighbours of their vertices.
Closed(g, S) == \A u \in S : \A i \in DOMAIN g[u] : g[u][i] \in S

\* The vertices that can be reached from s: the least closed set that contains it.
Reach(g, s) ==
  {v \in DOMAIN g : \A S \in SUBSET DOMAIN g : s \in S /\ Closed(g, S) => v \in S}

\* A traversal reports the vertices it reached, each one counted and added once.
Traversed(g, s) ==
  [count |-> Cardinality(Reach(g, s)),
   sum |-> [v \in DOMAIN g |-> IF v \in Reach(g, s) THEN 1 ELSE 0]]

\* A lookup adds the neighbours of s; it returns no count.
LookedUp(g, s) ==
  [count |-> 0,
   sum |-> [v \in DOMAIN g |-> Cardinality({i \in DOMAIN g[s] : g[s][i] = v})]]

Init ==
  /\ graph \in Graphs
  /\ request = NoRequest
  /\ reply = NoReply

\* The caller submits a query.
Ask ==
  /\ request = NoRequest
  /\ \E op \in Traversals \cup Lookups, s \in DOMAIN graph :
       request' = [op |-> op, src |-> s]
  /\ reply' = NoReply
  /\ UNCHANGED graph

\* The query is answered.
Reply ==
  /\ request # NoRequest
  /\ reply' = IF request.op \in Traversals THEN Traversed(graph, request.src)
                                           ELSE LookedUp(graph, request.src)
  /\ request' = NoRequest
  /\ UNCHANGED graph

Next == Ask \/ Reply

Spec == Init /\ [][Next]_vars

FairSpec == Spec /\ WF_vars(Reply)
=============================================================================
