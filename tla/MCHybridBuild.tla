--------------------------- MODULE MCHybridBuild ---------------------------
(* Instances of HybridBuild for TLC. *)
EXTENDS HybridBuild

Before(a, b) == a.from < b.from \/ (a.from = b.from /\ a.to < b.to)

\* The edges of a set, in the order Dedup gives them.
Sorted(E) ==
  [j \in 1 .. Cardinality(E) |-> CHOOSE e \in E : Cardinality({f \in E : Before(f, e)}) = j - 1]

AllEdges(c, sources) == {[from |-> u, to |-> v] : u \in sources, v \in 0 .. (c - 1)}

\* Words of four bits: up to one vertex no hub is possible, two vertices need one word
\* per row, five need two, so that a row has a boundary inside.  Three sources of three
\* edges use up the budget: the last one gets no row.  The last input is not sorted.
MCInputs ==
  {[n |-> 0, edges |-> <<>>], [n |-> 1, edges |-> << [from |-> 0, to |-> 0] >>]}
    \cup {[n |-> 2, edges |-> Sorted(E)] : E \in SUBSET AllEdges(2, 0 .. 1)}
    \cup {[n |-> 3, edges |-> Sorted(E)] : E \in SUBSET AllEdges(3, {0, 2})}
    \cup {[n |-> 5, edges |-> Sorted(E)] : E \in SUBSET AllEdges(5, {1, 4})}
    \cup {[n |-> 5, edges |-> Sorted(UNION {{[from |-> u, to |-> v] : v \in T[u]} : u \in {0, 2, 4}})] :
             T \in [{0, 2, 4} -> {{0, 1, 2}, {1, 3, 4}, {3, 4}}]}
    \cup {[n |-> 5, edges |-> [j \in 1 .. 6 |-> [from |-> (7 - j) % 2, to |-> j % 5]]]}

\* Words of 64 bits, as in the code: 65 vertices, three edges from the same vertex.
RealInputs ==
  {[n |-> 65, edges |-> [j \in 1 .. d |-> [from |-> 0, to |-> j]]] : d \in 2 .. 4}
=============================================================================
