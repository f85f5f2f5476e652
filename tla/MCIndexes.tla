----------------------------- MODULE MCIndexes -----------------------------
(* Instance of Indexes for TLC. *)
EXTENDS Indexes

ListsOver(size, sources, targets, max) ==
  {[n |-> size, list |-> l] :
     l \in UNION {[1 .. k -> [from : sources, to : targets]] : k \in 0 .. max}}

From(u, T) == FoldSet(LAMBDA v, l : Append(l, [from |-> u, to |-> v]), <<>>, T)

\* Lists in every order and with repetitions on up to four vertices (rows of one and of two
\* words), a matrix that is refused although its bits would fit (five vertices), the last
\* vertex that half a key can name, and gaps and degrees of one to three digits of base 3.
MCInputs ==
  ListsOver(0, {}, {}, 0) \cup ListsOver(1, {0}, {0}, 1) \cup ListsOver(2, 0 .. 1, 0 .. 1, 3)
    \cup ListsOver(3, {0, 2}, 0 .. 2, 3) \cup ListsOver(4, {1, 3}, {0, 3}, 3) \cup ListsOver(5, {4}, {0}, 1)
    \cup ListsOver(16, {0, 15}, {0, 15}, 2)
    \cup {[n |-> 12, list |-> From(1, S) \o From(10, T)] :
             S \in SUBSET {0, 2, 3, 5, 11}, T \in {{}, {8, 9, 10, 11}}}

\* A vertex with a neighbour after it in the arena, one without neighbours, and the last.
MCAdjacency == << <<2>>, <<>>, <<1, 3>> >>
=============================================================================
