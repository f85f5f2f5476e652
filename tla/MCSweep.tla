------------------------------ MODULE MCSweep ------------------------------
(* Instance of Sweep for TLC. *)
EXTENDS Sweep

Builder(name, max, mayFail) == [name |-> name, max |-> max, mayFail |-> mayFail]
Point(wl, q, th) == [workload |-> wl, queries |-> q, threads |-> th]
G(kind, n) == [kind |-> kind, n |-> n, m |-> 3 * n]

Setup(graphs, builders, points, runs, faulty, walls, sizes) ==
  [graphs |-> graphs, builders |-> builders, points |-> points, runs |-> runs,
   faulty |-> faulty, walls |-> walls, sizes |-> sizes]

\* The matrix may be too large or fail, with structures before and after it.
Around == << Builder("csr", 0, FALSE), Builder("bitmatrix", 2, TRUE), Builder("hybrid", 0, FALSE) >>
Pair == << Builder("bitmatrix", 2, FALSE), Builder("csr", 0, FALSE) >>

MCSetups ==
  { \* Three timed passes, and no timed pass asked for.
    Setup(<<G("er", 2)>>, Around, <<Point("bfs", 8, 1)>>, 3, {}, {1, 2}, {1}),
    Setup(<<G("er", 2), G("grid", 4)>>, Around, <<Point("bfs", 8, 1)>>, 0, {}, {1, 2}, {1}),
    \* Wrong answers in the warm-up, in the fastest pass or in a slower one.
    Setup(<<G("er", 2), G("grid", 4)>>, Around, <<Point("bfs", 8, 1)>>, 2, {"hybrid"}, {1, 2}, {1}),
    \* The same queries with one and two threads, then another batch; two structures answer
    \* wrongly, and the kind of the second graph is unknown.
    Setup(<<G("er", 2), G("torus", 4)>>, Around,
          <<Point("bfs", 8, 1), Point("bfs", 8, 2), Point("bfs", 64, 1), Point("bfs", 64, 2)>>, 1,
          {"csr", "hybrid"}, {1}, {1}),
    \* Batches of their own for each workload, a matrix too large for the second graph, a pass
    \* shorter than the clock can tell, and an index whose heap was not seen to grow.
    Setup(<<G("er", 2), G("er", 4)>>, Pair, <<Point("bfs", 8, 1), Point("hasedge", 16, 1)>>, 1,
          {}, {0, 2}, {0, 2}),
    \* The same largest batch for both, two batches for one, threads in descending order.
    Setup(<<G("er", 2)>>, Pair,
          << Point("bfs", 8, 2), Point("bfs", 8, 1), Point("hasedge", 4, 2), Point("hasedge", 4, 1),
             Point("hasedge", 8, 2), Point("hasedge", 8, 1) >>, 1, {}, {1, 2}, {1, 2}) }
=============================================================================
