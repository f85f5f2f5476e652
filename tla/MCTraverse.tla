----------------------------- MODULE MCTraverse -----------------------------
(* Instances of Traverse for TLC. *)
EXTENDS Traverse

\* A graph given by the neighbours of 0, 1, 2 ...
Adjacency(s) == [u \in 0 .. (Len(s) - 1) |-> s[u + 1]]

\* The ascending sequences over 0 .. n-1 that the index structures list.
Ascending(n) ==
  {s \in UNION {[1 .. m -> 0 .. (n - 1)] : m \in 0 .. n} :
     \A i, j \in DOMAIN s : i < j => s[i] < s[j]}

\* All the graphs of two vertices, loops included; all those of three vertices in
\* which no vertex is its own neighbour; on four vertices: a diamond with a way back,
\* a vertex pushed twice that must be popped late, two components, and a repeated
\* edge listed in descending order.
MCGraphs ==
  [0 .. 1 -> Ascending(2)]
    \cup {g \in [0 .. 2 -> Ascending(3)] : \A u \in 0 .. 2 : u \notin Elems(g[u])}
    \cup {Adjacency(<< <<1, 2>>, <<3>>, <<1, 3>>, <<0>> >>),
          Adjacency(<< <<1, 2, 3>>, <<>>, <<>>, <<1>> >>),
          Adjacency(<< <<1>>, <<0>>, <<3>>, <<>> >>),
          Adjacency(<< <<3, 2, 2>>, <<0>>, <<1, 2>>, <<>> >>)}

LiveGraphs == {Adjacency(<< <<1, 2>>, <<2>>, <<0>> >>), Adjacency(<< <<1, 1>>, <<1>> >>)}
=============================================================================
