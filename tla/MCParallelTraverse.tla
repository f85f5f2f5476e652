------------------------- MODULE MCParallelTraverse -------------------------
(* Instance of ParallelTraverse for TLC. *)
EXTENDS ParallelTraverse

Graph(kind, want, degree) ==
  [kind : {kind}, want : {want}, degree : {degree}, undirected : BOOLEAN]

\* A single vertex (every draw is a loop), sizes that rmat rounds up and grid rounds up
\* or down, a square that is too small, and the degree that stands for the default.  Two
\* queries and two goroutines: one may answer both, with the Scratch of the first.
MCSpecs ==
  UNION {Graph("er", 1, 1), Graph("er", 3, 1), Graph("er", 2, 0),
         Graph("rmat", 1, 1), Graph("rmat", 3, 1),
         Graph("grid", 1, 1), Graph("grid", 7, 1), Graph("grid", 6, 1),
         Graph("grid", 12, 1), Graph("other", 1, 1)}

MCCounts == {0, 1, 2}
=============================================================================
