------------------------------ MODULE Traverse ------------------------------
(***************************************************************************)
(* Package traverse: the five queries, run one after the other by a        *)
(* goroutine on its own Scratch.                                           *)
(*                                                                         *)
(* The buffers of the Scratch survive from a query to the next one: a      *)
(* query starts on what its predecessor left.  One step is one iteration   *)
(* of a loop or one call of a closure by ForEachNeighbor.                  *)
(*                                                                         *)
(* The bitset `visited' is the set of the vertices whose bit is set, and a *)
(* sum of identifiers is a formal sum, as in GraphQuery.                   *)
(***************************************************************************)
EXTENDS Integers, Sequences, FiniteSets

CONSTANT Graphs   \* the graphs, each a function from vertices to neighbours

ASSUME GraphsAssumption ==
  \A g \in Graphs : IsFiniteSet(DOMAIN g) /\ g \in [DOMAIN g -> Seq(DOMAIN g)]

VARIABLES
  graph,    \* the index, read-only
  visited,  \* Scratch.visited: the vertices whose bit is set
  list,     \* Scratch.list: the BFS queue, and the bits reset must clear
  stack,    \* Scratch.stack
  buf,      \* Scratch.buf
  acc,      \* Scratch.sum, the accumulator of sumFn
  op, src,  \* the query being served ("none" between two queries) and its vertex
  pc,       \* "idle", "loop" (head of the outer loop) or "each" (over neighbours)
  head,     \* the loop index of BFS
  cur,      \* the vertex whose neighbours are enumerated
  k,        \* index of the next neighbour
  sum,      \* the local sum
  ret       \* what the last query returned

scratch == <<visited, list, stack, buf, acc>>
vars == <<graph, scratch, op, src, pc, head, cur, k, sum, ret>>

Vertex == DOMAIN graph
Elems(s) == {s[i] : i \in DOMAIN s}
Zero == [v \in Vertex |-> 0]
NoReply == [count |-> 0]

\* The sequence that the inner loop of the current query walks over: the buffer that
\* AppendNeighbors filled, or the adjacency itself, one callback at a time.
Batched == op \in {"bfs-batch", "neighbors-batch"}
Neighbours == IF Batched THEN buf ELSE graph[cur]

-----------------------------------------------------------------------------
\* NewScratch; src and cur have no value before the first query.
Init ==
  /\ graph \in Graphs
  /\ visited = {} /\ list = <<>> /\ stack = <<>> /\ buf = <<>>
  /\ acc = Zero /\ sum = Zero
  /\ op = "none" /\ pc = "idle"
  /\ src \in Vertex /\ cur = src
  /\ head = 1 /\ k = 1
  /\ ret = NoReply

\* A query arrives: the first instructions of all of them.
Begin(o, s) ==
  /\ pc = "idle"
  /\ op' = o /\ src' = s
  /\ sum' = Zero
  /\ ret' = NoReply
  /\ UNCHANGED graph

\* Mutant of AfterReset: list is truncated before its bits are cleared.
AfterResetTruncated == visited

\* reset clears the bits of the vertices in list, and only these.
AfterReset == visited \ Elems(list)

\* Mutant of BeginBFS: list is not truncated.
BeginBFSKeepsList(o, s) ==
  /\ o \in {"bfs", "bfs-batch"}
  /\ Begin(o, s)
  /\ visited' = AfterReset \cup {s}
  /\ list' = Append(list, s)
  /\ stack' = <<>>
  /\ head' = 1
  /\ pc' = "loop"
  /\ UNCHANGED <<buf, acc, cur, k>>

\* BFS and BFSBatch: reset, then mark(src).
BeginBFS(o, s) ==
  /\ o \in {"bfs", "bfs-batch"}
  /\ Begin(o, s)
  /\ visited' = AfterReset \cup {s}
  /\ list' = <<s>>
  /\ stack' = <<>>
  /\ head' = 1
  /\ pc' = "loop"
  /\ UNCHANGED <<buf, acc, cur, k>>

\* DFS: reset, then push src.
BeginDFS(s) ==
  /\ Begin("dfs", s)
  /\ visited' = AfterReset
  /\ list' = <<>>
  /\ stack' = <<s>>
  /\ pc' = "loop"
  /\ UNCHANGED <<buf, acc, head, cur, k>>

\* Mutant of BeginNeighbors: the accumulator keeps the sum of an earlier query.
BeginNeighborsDirty(s) ==
  /\ Begin("neighbors", s)
  /\ cur' = s /\ k' = 1
  /\ pc' = "each"
  /\ UNCHANGED <<visited, list, stack, buf, acc, head>>

\* Neighbors: the accumulator of the closure is cleared.
BeginNeighbors(s) ==
  /\ Begin("neighbors", s)
  /\ acc' = Zero
  /\ cur' = s /\ k' = 1
  /\ pc' = "each"
  /\ UNCHANGED <<visited, list, stack, buf, head>>

\* NeighborsBatch: AppendNeighbors into buf[:0].
BeginNeighborsBatch(s) ==
  /\ Begin("neighbors-batch", s)
  /\ buf' = graph[s]
  /\ cur' = s /\ k' = 1
  /\ pc' = "each"
  /\ UNCHANGED <<visited, list, stack, acc, head>>

\* BFS, BFSBatch: the body of the outer loop up to the enumeration.
Dequeue ==
  /\ pc = "loop" /\ op \in {"bfs", "bfs-batch"}
  /\ head <= Len(list)
  /\ cur' = list[head]
  /\ sum' = [sum EXCEPT ![cur'] = @ + 1]
  /\ buf' = IF op = "bfs-batch" THEN graph[cur'] ELSE buf
  /\ k' = 1
  /\ pc' = "each"
  /\ UNCHANGED <<graph, visited, list, stack, acc, op, src, head, ret>>

\* Mutant of Visit: the inner loop does not pass a vertex that is already marked.
VisitStays ==
  /\ pc = "each" /\ op \in {"bfs", "bfs-batch"}
  /\ k <= Len(Neighbours)
  /\ LET v == Neighbours[k] IN
       \/ v \in visited /\ UNCHANGED <<visited, list, k>>
       \/ v \notin visited /\ visited' = visited \cup {v} /\ list' = Append(list, v)
                           /\ k' = k + 1
  /\ UNCHANGED <<graph, stack, buf, acc, op, src, pc, head, cur, sum, ret>>

\* visitFn, and the inner loop of BFSBatch.
Visit ==
  /\ pc = "each" /\ op \in {"bfs", "bfs-batch"}
  /\ k <= Len(Neighbours)
  /\ LET v == Neighbours[k] IN
       \/ v \in visited /\ UNCHANGED <<visited, list>>
       \/ v \notin visited /\ visited' = visited \cup {v} /\ list' = Append(list, v)
  /\ k' = k + 1
  /\ UNCHANGED <<graph, stack, buf, acc, op, src, pc, head, cur, sum, ret>>

\* Popping the vertex at index `at' of the stack, of which `left' remains: it is
\* skipped when `known', and otherwise the bitset becomes `marks'.
PopBy(at, left, known, marks) ==
  /\ pc = "loop" /\ op = "dfs"
  /\ stack # <<>>
  /\ LET u == stack[at] IN
       \/ /\ known
          /\ UNCHANGED <<visited, list, cur, sum, k, pc>>
       \/ /\ ~known
          /\ visited' = marks /\ list' = Append(list, u)
          /\ sum' = [sum EXCEPT ![u] = @ + 1]
          /\ cur' = u /\ k' = 1
          /\ pc' = "each"
  /\ stack' = left
  /\ UNCHANGED <<graph, buf, acc, op, src, head, ret>>

\* Mutants of Pop: the oldest vertex is taken; the vertex is not marked; a marked vertex
\* is expanded again.
PopOldest == PopBy(1, Tail(stack), stack[1] \in visited, visited \cup {stack[1]})
PopUnmarked == PopBy(Len(stack), SubSeq(stack, 1, Len(stack) - 1),
                     stack[Len(stack)] \in visited, visited)
PopAgain == PopBy(Len(stack), SubSeq(stack, 1, Len(stack) - 1),
                  FALSE, visited \cup {stack[Len(stack)]})

\* DFS: a vertex is popped; it is skipped when already marked.
Pop ==
  /\ pc = "loop" /\ op = "dfs"
  /\ stack # <<>>
  /\ LET u == stack[Len(stack)] IN
       \/ /\ u \in visited
          /\ UNCHANGED <<visited, list, cur, sum, k, pc>>
       \/ /\ u \notin visited
          /\ visited' = visited \cup {u} /\ list' = Append(list, u)
          /\ sum' = [sum EXCEPT ![u] = @ + 1]
          /\ cur' = u /\ k' = 1
          /\ pc' = "each"
  /\ stack' = SubSeq(stack, 1, Len(stack) - 1)
  /\ UNCHANGED <<graph, buf, acc, op, src, head, ret>>

\* pushFn
Push ==
  /\ pc = "each" /\ op = "dfs"
  /\ k <= Len(Neighbours)
  /\ stack' = IF Neighbours[k] \in visited THEN stack ELSE Append(stack, Neighbours[k])
  /\ k' = k + 1
  /\ UNCHANGED <<graph, visited, list, buf, acc, op, src, pc, head, cur, sum, ret>>

\* The enumeration is over: back to the head of the outer loop (head++ for BFS).
EndEach ==
  /\ pc = "each" /\ op \in {"bfs", "bfs-batch", "dfs"}
  /\ k > Len(Neighbours)
  /\ head' = IF op = "dfs" THEN head ELSE head + 1
  /\ pc' = "loop"
  /\ UNCHANGED <<graph, scratch, op, src, cur, k, sum, ret>>

\* sumFn
SumInAcc ==
  /\ pc = "each" /\ op = "neighbors"
  /\ k <= Len(Neighbours)
  /\ acc' = [acc EXCEPT ![Neighbours[k]] = @ + 1]
  /\ k' = k + 1
  /\ UNCHANGED <<graph, visited, list, stack, buf, op, src, pc, head, cur, sum, ret>>

\* The loop of NeighborsBatch.
SumBuffer ==
  /\ pc = "each" /\ op = "neighbors-batch"
  /\ k <= Len(Neighbours)
  /\ sum' = [sum EXCEPT ![Neighbours[k]] = @ + 1]
  /\ k' = k + 1
  /\ UNCHANGED <<graph, scratch, op, src, pc, head, cur, ret>>

\* The query returns.
Finish(r) ==
  /\ ret' = r
  /\ op' = "none" /\ pc' = "idle"
  /\ UNCHANGED <<graph, scratch, src, head, cur, k, sum>>

EndTraversal ==
  /\ pc = "loop"
  /\ IF op = "dfs" THEN stack = <<>> ELSE head > Len(list)
  /\ Finish([count |-> Len(list), sum |-> sum])

EndLookup ==
  /\ pc = "each" /\ op \in {"neighbors", "neighbors-batch"}
  /\ k > Len(Neighbours)
  /\ Finish([count |-> 0, sum |-> IF op = "neighbors" THEN acc ELSE sum])

\* The steps of a query that is being served.
Work ==
  \/ Dequeue \/ Visit \/ Pop \/ Push \/ EndEach \/ SumInAcc \/ SumBuffer
  \/ EndTraversal \/ EndLookup

Query(s) ==
  \/ \E o \in {"bfs", "bfs-batch"} : BeginBFS(o, s)
  \/ BeginDFS(s) \/ BeginNeighbors(s) \/ BeginNeighborsBatch(s)

Next == (\E s \in Vertex : Query(s)) \/ Work

Spec == Init /\ [][Next]_vars

\* The goroutine that serves a query is scheduled until it returns.
FairSpec == Spec /\ WF_vars(Work)

-----------------------------------------------------------------------------
(* Correctness. *)

\* Types and ranges of the Scratch and of the local variables.
TypeOK ==
  /\ graph \in Graphs
  /\ visited \in SUBSET Vertex
  /\ list \in Seq(Vertex) /\ stack \in Seq(Vertex) /\ buf \in Seq(Vertex)
  /\ acc \in [Vertex -> Nat] /\ sum \in [Vertex -> Nat]
  /\ op \in {"none", "bfs", "bfs-batch", "dfs", "neighbors", "neighbors-batch"}
  /\ pc \in {"idle", "loop", "each"}
  /\ src \in Vertex /\ cur \in Vertex
  /\ head \in Nat \ {0} /\ k \in Nat \ {0}
  /\ pc = "idle" <=> op = "none"
  /\ pc = "loop" => op \in {"bfs", "bfs-batch", "dfs"}

\* The bits that are set are those of the vertices in list, each listed once: reset,
\* which only visits list, leaves an empty bitset, in whatever state and after
\* whatever query it is called (traverse.go:64-72).
VisitedIsList ==
  /\ visited = Elems(list)
  /\ \A i, j \in DOMAIN list : list[i] = list[j] => i = j

\* The number of edges that leave the vertices of S.
OutEdges(S) == Cardinality(UNION {{u} \X DOMAIN graph[u] : u \in S})

\* The DFS stack may hold a vertex several times, but every edge pushes at most once:
\* the stack stays below one plus the number of edges seen (traverse.go:99-109).
StackBounded == Len(stack) <= 1 + OutEdges(visited)

\* The vertices at most d edges away from src.
Within[d \in Nat] ==
  IF d = 0 THEN {src}
  ELSE Within[d - 1] \cup UNION {Elems(graph[u]) : u \in Within[d - 1]}

Depth(v) == Cardinality({d \in 0 .. Cardinality(Vertex) : v \notin Within[d]})

\* BFS visits the vertices by increasing distance from src, also when the neighbours
\* come in blocks (traverse.go:81, 114).
BreadthFirst ==
  op \in {"bfs", "bfs-batch"} =>
    \A i \in 1 .. (Len(list) - 1) : Depth(list[i]) <= Depth(list[i + 1])

Edge(u, v) == v \in Elems(graph[u])

\* DFS visits in a depth-first order although it marks when it pops: a vertex b that
\* comes between a and a neighbour of a is a neighbour of a, or of a vertex visited
\* between a and b (traverse.go:96).
DepthFirst ==
  op = "dfs" =>
    \A a, c \in DOMAIN list : \A b \in (a + 1) .. (c - 1) :
      Edge(list[a], list[c]) => \E d \in a .. (b - 1) : Edge(list[d], list[b])

-----------------------------------------------------------------------------
(* Traverse implements GraphQuery. *)

Served == INSTANCE GraphQuery WITH
            request <- IF op = "none" THEN [op |-> "none"] ELSE [op |-> op, src |-> src],
            reply <- ret

\* Each query returns what the graph alone determines, although all of them share
\* the buffers of one Scratch.
ImplementsQuery == Served!Spec

\* And it does return it, however many cycles the graph has.
ImplementsFairQuery == Served!FairSpec

-----------------------------------------------------------------------------
(* The inductive invariant behind the refinement, in named parts. *)

BFSOps == {"bfs", "bfs-batch"}

\* The inner loop walks over the neighbours of cur, from the first to the last.
Walking ==
  pc = "each" => Neighbours = graph[cur] /\ k <= Len(graph[cur]) + 1

\* Nothing is marked or pushed that cannot be reached: it lies in every closed set
\* that contains src.
OnlyReachable ==
  op \in BFSOps \cup {"dfs"} =>
    \A S \in SUBSET Vertex :
      src \in S /\ Served!Closed(graph, S) => visited \cup Elems(stack) \subseteq S

\* The neighbours of the vertices before head are marked; in the loop over those of
\* list[head], the first k-1 are.
QueueClosed ==
  op \in BFSOps =>
    /\ src \in visited
    /\ head <= Len(list) + 1
    /\ pc = "each" => head <= Len(list) /\ cur = list[head]
    /\ \A i \in DOMAIN list : i < head => Elems(graph[list[i]]) \subseteq visited
    /\ pc = "each" => \A j \in 1 .. (k - 1) : graph[cur][j] \in visited

\* Every neighbour of a marked vertex is marked or waits on the stack.
StackClosed ==
  op = "dfs" =>
    /\ src \in visited \cup Elems(stack)
    /\ pc = "each" => cur \in visited
    /\ \A u \in visited : \A j \in DOMAIN graph[u] :
         \/ graph[u][j] \in visited \cup Elems(stack)
         \/ pc = "each" /\ u = cur /\ j >= k

\* The vertices added to the sum so far: those dequeued, or popped for the first time.
Summed ==
  /\ op \in BFSOps =>
       \A i \in DOMAIN list :
         sum[list[i]] = IF i < head \/ (pc = "each" /\ i = head) THEN 1 ELSE 0
  /\ op = "dfs" => \A v \in visited : sum[v] = 1
  /\ op \in BFSOps \cup {"dfs"} => \A v \in Vertex \ visited : sum[v] = 0

\* How often v comes among the first j elements of s.
Occurrences(s, j, v) == Cardinality({i \in 1 .. j : s[i] = v})

\* A lookup has added the first k-1 neighbours of src.
LookedUpSoFar ==
  op \in {"neighbors", "neighbors-batch"} =>
    /\ cur = src /\ pc = "each"
    /\ \A v \in Vertex :
         (IF op = "neighbors" THEN acc ELSE sum)[v] = Occurrences(graph[src], k - 1, v)

IInv ==
  /\ TypeOK
  /\ VisitedIsList
  /\ Walking
  /\ OnlyReachable
  /\ QueueClosed
  /\ StackClosed
  /\ Summed
  /\ LookedUpSoFar
=============================================================================
