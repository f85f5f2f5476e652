--------------------------- MODULE GraphContract ---------------------------
(***************************************************************************)
(* The contract of graph.Graph (graph/graph.go): what every index built    *)
(* from a list of edges must answer.  An edge is a record with a source    *)
(* and a target.                                                           *)
(***************************************************************************)
EXTENDS Slices

\* How often the edge from u to v is in the list.
Multiplicity(edges, u, v) ==
  Cardinality({j \in DOMAIN edges : edges[j].from = u /\ edges[j].to = v})

OutDegree(edges, u) == Cardinality({j \in DOMAIN edges : edges[j].from = u})

Linked(edges, u, v) == \E j \in DOMAIN edges : edges[j].from = u /\ edges[j].to = v

\* s lists the neighbours of u among the vertices 0 .. n-1, in ascending order and with
\* the multiplicity of the edges.
Lists(n, edges, u, s) ==
  /\ Ascending(s)
  /\ \A v \in 0 .. (n - 1) :
       Cardinality({i \in DOMAIN s : s[i] = v}) = Multiplicity(edges, u, v)
  /\ \A i \in DOMAIN s : s[i] \in 0 .. (n - 1)
=============================================================================
