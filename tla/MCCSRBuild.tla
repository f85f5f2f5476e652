----------------------------- MODULE MCCSRBuild -----------------------------
(* Instances of CSRBuild for TLC. *)
EXTENDS CSRBuild

\* All the lists of at most k edges over c vertices, in any order, with repetitions.
EdgeLists(c, k) ==
  UNION {[1 .. l -> [from : 0 .. (c - 1), to : 0 .. (c - 1)]] : l \in 0 .. k}

\* No vertex, one vertex, and all the short lists over two and three vertices: with
\* three vertices a block has a left and a right neighbour and may be empty.  Then a
\* block of four, listed backwards, for the binary search.
MCInputs ==
  {[n |-> 0, edges |-> <<>>]}
    \cup {[n |-> 1, edges |-> e] : e \in EdgeLists(1, 2)}
    \cup {[n |-> 2, edges |-> e] : e \in EdgeLists(2, 4)}
    \cup {[n |-> 3, edges |-> e] : e \in EdgeLists(3, 3)}
    \cup {[n |-> 4, edges |-> [j \in 1 .. 4 |-> [from |-> u, to |-> 4 - j]]] : u \in {0, 3}}
=============================================================================
