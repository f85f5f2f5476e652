-------------------------- MODULE ParallelTraverse --------------------------
(***************************************************************************)
(* A measure on a generated graph: Generate draws the graph and the        *)
(* sources, then goroutines of bench.Run answer them with breadth-first    *)
(* searches on one index.  Module Runner leaves the queries abstract and   *)
(* module Traverse has one Scratch; here the steps of the traversals       *)
(* interleave, each on the Scratch of its goroutine.  A chunk is one       *)
(* query, as for "bfs".                                                    *)
(***************************************************************************)
EXTENDS Generate, Slices

CONSTANTS
  Workers,
  Traversed   \* bound: the kinds of the graphs that are traversed

VARIABLES
  next,           \* the shared counter
  pc, query,      \* of each goroutine: where it is, and the query it holds
  visited, list,  \* of each Scratch: the bits that are set, and the queue
  head, sum,      \* local variables of BFS
  replies         \* what BFS returned for each query that was answered

vars == <<graphVars, next, pc, query, visited, list, head, sum, replies>>

InitRun ==
  /\ Init
  /\ next = 0
  /\ pc = [k \in Workers |-> "claim"] /\ query = [k \in Workers |-> 0]
  /\ visited = [k \in Workers |-> {}] /\ list = [k \in Workers |-> <<>>]
  /\ head = [k \in Workers |-> 0] /\ sum = [k \in Workers |-> 0]
  /\ replies = <<>>

\* What the index lists, in ascending order.
Neighbors(u) == {e.to : e \in {f \in edges : f.from = u}}

\* The call of Run.
Start ==
  /\ phase = "sources" /\ spec.kind \in Traversed
  /\ phase' = "run"
  /\ UNCHANGED <<spec, n, edges, i, queries, next, pc, query, visited, list, head, sum, replies>>

\* Mutant of ScratchOf: one Scratch, allocated before the goroutines are started.
ScratchShared(k) == CHOOSE l \in Workers : TRUE

\* The Scratch that the goroutine allocated.
ScratchOf(k) == k

\* Mutant of Claim: the counter is read and not moved.
ClaimWithoutMove(k) ==
  /\ phase = "run" /\ pc[k] = "claim"
  /\ query' = [query EXCEPT ![k] = next + 1]
  /\ pc' = [pc EXCEPT ![k] = IF next < Len(queries) THEN "reset" ELSE "done"]
  /\ UNCHANGED <<graphVars, next, visited, list, head, sum, replies>>

\* next.Add(1): the goroutine leaves its loop when the batch is exhausted.
Claim(k) ==
  /\ phase = "run" /\ pc[k] = "claim"
  /\ next' = next + 1
  /\ query' = [query EXCEPT ![k] = next + 1]
  /\ pc' = [pc EXCEPT ![k] = IF next < Len(queries) THEN "reset" ELSE "done"]
  /\ UNCHANGED <<graphVars, visited, list, head, sum, replies>>

\* reset, which clears the bits of the vertices in the queue, and the mark of the source.
Reset(k) ==
  LET s == ScratchOf(k) IN
  /\ pc[k] = "reset"
  /\ visited' = [visited EXCEPT ![s] = (@ \ Range(list[s])) \cup {queries[query[k]].a}]
  /\ list' = [list EXCEPT ![s] = <<queries[query[k]].a>>]
  /\ head' = [head EXCEPT ![k] = 0] /\ sum' = [sum EXCEPT ![k] = 0]
  /\ pc' = [pc EXCEPT ![k] = "walk"]
  /\ UNCHANGED <<graphVars, next, query, replies>>

\* The next vertex of the queue: its neighbours without a bit are marked and queued.
Walk(k) ==
  LET s == ScratchOf(k)
      u == list[s][head[k] + 1]
  IN /\ pc[k] = "walk" /\ head[k] < Len(list[s])
     /\ sum' = [sum EXCEPT ![k] = @ + u]
     /\ visited' = [visited EXCEPT ![s] = @ \cup Neighbors(u)]
     /\ list' = [list EXCEPT ![s] = @ \o InOrder(Neighbors(u) \ visited[s])]
     /\ head' = [head EXCEPT ![k] = @ + 1]
     /\ UNCHANGED <<graphVars, next, pc, query, replies>>

Reply(k) ==
  LET s == ScratchOf(k)
      q == query[k]
  IN /\ pc[k] = "walk" /\ head[k] >= Len(list[s])
     /\ replies' = [r \in DOMAIN replies \cup {q} |->
                      IF r = q THEN [count |-> Len(list[s]), sum |-> sum[k]] ELSE replies[r]]
     /\ pc' = [pc EXCEPT ![k] = "claim"]
     /\ UNCHANGED <<graphVars, next, query, visited, list, head, sum>>

Step(k) == Claim(k) \/ Reset(k) \/ Walk(k) \/ Reply(k)

Stay ==
  /\ \/ phase \in {"probes", "failed"} \/ (phase = "sources" /\ spec.kind \notin Traversed)
     \/ \A k \in Workers : pc[k] = "done"
  /\ UNCHANGED vars

NextRun ==
  \/ Generate /\ UNCHANGED <<next, pc, query, visited, list, head, sum, replies>>
  \/ Start \/ (\E k \in Workers : Step(k)) \/ Stay

\* Each goroutine that can run is run again.
Spec == InitRun /\ [][NextRun]_vars /\ \A k \in Workers : WF_vars(Step(k))

-----------------------------------------------------------------------------
\* What can be reached from a vertex, in as many steps as there are vertices.
Reach(s) ==
  FoldSet(LAMBDA k, S : S \cup UNION {Neighbors(u) : u \in S}, {s}, 1 .. n)

\* Each reply is the one that the graph determines, whatever the steps of the others
\* between two steps of a traversal and whatever the Scratch was used for before: the
\* sum of the replies then does not depend on the schedule (runner.go:66-68, 124).
RepliesDetermined ==
  \A q \in DOMAIN replies :
    LET reached == Reach(queries[q].a)
    IN replies[q] = [count |-> Cardinality(reached), sum |-> MapThenSumSet(LAMBDA v : v, reached)]

\* Every query of a call is answered and every goroutine ends.
AllAnswered ==
  phase = "run" ~> /\ DOMAIN replies = DOMAIN queries
                   /\ \A k \in Workers : pc[k] = "done"
=============================================================================
