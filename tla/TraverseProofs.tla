--------------------------- MODULE TraverseProofs ---------------------------
(* Proofs about Traverse, for every finite graph and every sequence of queries. *)
EXTENDS Traverse, NaturalFacts, FiniteSetTheorems, SequenceTheorems

-----------------------------------------------------------------------------
(* The slices of the Scratch. *)

\* append: list in mark (traverse.go:78), stack in pushFn (traverse.go:46).
LEMMA AppendElems ==
  ASSUME NEW S, NEW s \in Seq(S), NEW x \in S
  PROVE  /\ Append(s, x) \in Seq(S)
         /\ Len(Append(s, x)) = Len(s) + 1
         /\ DOMAIN Append(s, x) = 1 .. (Len(s) + 1)
         /\ \A i \in DOMAIN s : Append(s, x)[i] = s[i]
         /\ Append(s, x)[Len(s) + 1] = x
         /\ Elems(Append(s, x)) = Elems(s) \cup {x}
<1>1. /\ Append(s, x) \in Seq(S) /\ Len(Append(s, x)) = Len(s) + 1
      /\ DOMAIN Append(s, x) = 1 .. (Len(s) + 1)
      /\ \A i \in DOMAIN s : Append(s, x)[i] = s[i]
      /\ Append(s, x)[Len(s) + 1] = x
  OBVIOUS
<1>2. DOMAIN s = 1 .. Len(s) /\ Len(s) \in Nat
  OBVIOUS
<1>3. DOMAIN Append(s, x) = DOMAIN s \cup {Len(s) + 1}
  BY <1>1, <1>2
<1>4. Elems(Append(s, x)) = Elems(s) \cup {x}
  BY <1>1, <1>3 DEF Elems
<1> QED BY <1>1, <1>4

\* An empty slice, and a slice of one element (traverse.go:70-71, 86, 99).
LEMMA SmallElems == Elems(<<>>) = {} /\ \A x : Elems(<<x>>) = {x}
BY DEF Elems

\* stack[len-1] and stack[:len-1] (traverse.go:102-103).
LEMMA PopElems ==
  ASSUME NEW S, NEW s \in Seq(S), s # <<>>
  PROVE  /\ s[Len(s)] \in S
         /\ SubSeq(s, 1, Len(s) - 1) \in Seq(S)
         /\ Elems(s) = Elems(SubSeq(s, 1, Len(s) - 1)) \cup {s[Len(s)]}
<1>1. Len(s) \in Nat \ {0} /\ DOMAIN s = 1 .. Len(s) /\ \A i \in 1 .. Len(s) : s[i] \in S
  OBVIOUS
<1>2. Len(s) - 1 \in Nat /\ 1 .. (Len(s) - 1) \subseteq 1 .. Len(s)
  BY <1>1
<1> DEFINE t == SubSeq(s, 1, Len(s) - 1)
<1>3. t \in Seq(S) /\ DOMAIN t = 1 .. (Len(s) - 1) /\ \A i \in DOMAIN t : t[i] = s[i]
  BY <1>1, <1>2
<1>4. DOMAIN s = DOMAIN t \cup {Len(s)}
  BY <1>1, <1>3
<1>5. Elems(s) = Elems(t) \cup {s[Len(s)]}
  BY <1>3, <1>4 DEF Elems
<1> QED BY <1>1, <1>3, <1>5

\* A slice without repetition has as many elements as its length.
LEMMA LengthCounts ==
  ASSUME NEW S, NEW s \in Seq(S), \A i, j \in DOMAIN s : s[i] = s[j] => i = j
  PROVE  Cardinality(Elems(s)) = Len(s)
<1>1. Len(s) \in Nat /\ DOMAIN s = 1 .. Len(s) /\ s \in [1 .. Len(s) -> Elems(s)]
  BY DEF Elems
<1>2. s \in Bijection(1 .. Len(s), Elems(s))
  BY <1>1 DEF Elems, Bijection, Injection, Surjection, IsInjective
<1>3. ExistsBijection(1 .. Len(s), Elems(s))
  BY <1>2 DEF ExistsBijection
<1> QED BY <1>1, <1>3, FS_CountingElements

\* One more neighbour seen by a lookup is counted once, at its own identifier.
LEMMA CountNext ==
  ASSUME NEW S, NEW s \in Seq(S), NEW j \in 1 .. Len(s), NEW v
  PROVE  Occurrences(s, j, v) = Occurrences(s, j - 1, v) + (IF s[j] = v THEN 1 ELSE 0)
<1> DEFINE Before == {i \in 1 .. (j - 1) : s[i] = v}
           Now    == {i \in 1 .. j : s[i] = v}
<1>1. j \in Nat /\ j \notin Before
  OBVIOUS
<1>2. IsFiniteSet(Before)
  <2>1. IsFiniteSet(1 .. (j - 1))
    BY <1>1, FS_Interval
  <2>2. Before \in SUBSET (1 .. (j - 1))
    OBVIOUS
  <2> QED BY <2>1, <2>2, FS_Subset
<1>3. Cardinality(Before) \in Nat
  BY <1>2, FS_CardinalityType
<1>4. CASE s[j] = v
  <2>1. Now = Before \cup {j}
    BY <1>1, <1>4
  <2> HIDE DEF Before, Now
  <2>2. Cardinality(Now) = Cardinality(Before) + 1
    BY <2>1, <1>1, <1>2, FS_AddElement
  <2> QED BY <2>2, <1>4 DEF Before, Now, Occurrences
<1>5. CASE s[j] # v
  <2>1. Now = Before
    BY <1>1, <1>5
  <2> HIDE DEF Before, Now
  <2>2. Cardinality(Now) = Cardinality(Before) + 0
    BY <2>1, <1>3
  <2> QED BY <2>2, <1>5 DEF Before, Now, Occurrences
<1> QED BY <1>4, <1>5

-----------------------------------------------------------------------------
(* Types. *)

\* The graph is one of Graphs, and its neighbours are vertices.
LEMMA GraphType ==
  ASSUME graph \in Graphs
  PROVE  /\ graph \in [Vertex -> Seq(Vertex)] /\ IsFiniteSet(Vertex)
         /\ \A u \in Vertex : /\ graph[u] \in Seq(Vertex) /\ Len(graph[u]) \in Nat
                              /\ DOMAIN graph[u] = 1 .. Len(graph[u])
                              /\ \A i \in DOMAIN graph[u] : graph[u][i] \in Vertex
BY GraphsAssumption DEF Vertex

\* NewScratch: traverse.go:31-37.
LEMMA InitType == Init => TypeOK
BY DEF Init, TypeOK, Zero

\* One more identifier added to a formal sum.
LEMMA AddType ==
  ASSUME NEW f \in [Vertex -> Nat], NEW v \in Vertex
  PROVE  /\ [f EXCEPT ![v] = @ + 1] \in [Vertex -> Nat]
         /\ [f EXCEPT ![v] = @ + 1][v] = f[v] + 1
         /\ \A u \in Vertex \ {v} : [f EXCEPT ![v] = @ + 1][u] = f[u]
OBVIOUS

\* The inner loop only sees vertices.
LEMMA NeighbourType ==
  ASSUME TypeOK, k <= Len(Neighbours)
  PROVE  Neighbours[k] \in Vertex
<1>1. Neighbours \in Seq(Vertex)
  BY GraphType DEF TypeOK, Neighbours
<1>2. k \in 1 .. Len(Neighbours)
  BY <1>1 DEF TypeOK
<1> QED BY <1>1, <1>2

\* Every step keeps the types: traverse.go:84-153.
LEMMA NextType == TypeOK /\ [Next]_vars => TypeOK'
<1> SUFFICES ASSUME TypeOK, [Next]_vars PROVE TypeOK'
  OBVIOUS
<1>0. /\ graph' = graph /\ Vertex' = Vertex
      /\ graph \in Graphs
      /\ visited \in SUBSET Vertex
      /\ list \in Seq(Vertex) /\ stack \in Seq(Vertex) /\ buf \in Seq(Vertex)
      /\ acc \in [Vertex -> Nat] /\ sum \in [Vertex -> Nat]
      /\ src \in Vertex /\ cur \in Vertex
      /\ head \in Nat \ {0} /\ k \in Nat \ {0}
      /\ \A u \in Vertex : graph[u] \in Seq(Vertex)
      /\ Zero \in [Vertex -> Nat] /\ <<>> \in Seq(Vertex)
      /\ \A s \in Vertex : <<s>> \in Seq(Vertex)
  <2>1. graph' = graph
    BY DEF Next, Query, Work, BeginBFS, BeginDFS, BeginNeighbors, BeginNeighborsBatch, Begin,
           Dequeue, Visit, Pop, Push, EndEach, SumInAcc, SumBuffer, EndTraversal, EndLookup,
           Finish, vars
  <2> QED BY <2>1, GraphType DEF TypeOK, Vertex, Zero
<1>1. ASSUME NEW o, NEW s \in Vertex, BeginBFS(o, s)
      PROVE  TypeOK'
  BY <1>0, <1>1 DEF BeginBFS, Begin, AfterReset, TypeOK
<1>2. ASSUME NEW s \in Vertex, BeginDFS(s)
      PROVE  TypeOK'
  BY <1>0, <1>2 DEF BeginDFS, Begin, AfterReset, TypeOK
<1>3. ASSUME NEW s \in Vertex, BeginNeighbors(s)
      PROVE  TypeOK'
  BY <1>0, <1>3 DEF BeginNeighbors, Begin, TypeOK
<1>4. ASSUME NEW s \in Vertex, BeginNeighborsBatch(s)
      PROVE  TypeOK'
  BY <1>0, <1>4 DEF BeginNeighborsBatch, Begin, TypeOK
<1>5. CASE Dequeue
  <2>1. cur' \in Vertex /\ pc' = "each" /\ k' = 1 /\ pc = "loop"
        /\ sum' = [sum EXCEPT ![cur'] = @ + 1]
    BY <1>0, <1>5 DEF Dequeue
  <2>2. sum' \in [Vertex -> Nat]
    BY <2>1, <1>0, AddType
  <2>3. buf' \in Seq(Vertex)
    BY <2>1, <1>0, <1>5 DEF Dequeue
  <2>4. /\ visited' = visited /\ list' = list /\ stack' = stack /\ acc' = acc
        /\ op' = op /\ src' = src /\ head' = head /\ op \in {"bfs", "bfs-batch"}
    BY <1>5 DEF Dequeue
  <2> QED BY <2>1, <2>2, <2>3, <2>4, <1>0 DEF TypeOK
<1>6. CASE Visit
  <2>1. Neighbours[k] \in Vertex
    BY <1>6, NeighbourType DEF Visit
  <2>2. visited' \in SUBSET Vertex /\ list' \in Seq(Vertex)
    <3>1. \/ visited' = visited /\ list' = list
          \/ visited' = visited \cup {Neighbours[k]} /\ list' = Append(list, Neighbours[k])
      BY <1>6 DEF Visit
    <3>2. Append(list, Neighbours[k]) \in Seq(Vertex)
      BY <2>1, <1>0, AppendElems
    <3>3. visited \cup {Neighbours[k]} \in SUBSET Vertex
      BY <2>1, <1>0
    <3> QED BY <3>1, <3>2, <3>3, <1>0
  <2> QED BY <2>2, <1>0, <1>6 DEF Visit, TypeOK
<1>7. CASE Pop
  <2>1. stack' \in Seq(Vertex) /\ stack[Len(stack)] \in Vertex
    BY <1>0, <1>7, PopElems DEF Pop
  <2>2. /\ visited' \in SUBSET Vertex /\ list' \in Seq(Vertex) /\ sum' \in [Vertex -> Nat]
        /\ cur' \in Vertex /\ k' \in Nat \ {0} /\ pc' \in {"loop", "each"}
    <3>1. CASE stack[Len(stack)] \in visited
      BY <3>1, <1>0, <1>7 DEF Pop
    <3>2. CASE stack[Len(stack)] \notin visited
      <4>1. sum' = [sum EXCEPT ![stack[Len(stack)]] = @ + 1]
        BY <3>2, <1>7 DEF Pop
      <4>2. sum' \in [Vertex -> Nat]
        BY <4>1, <2>1, <1>0, AddType
      <4>3. /\ visited' = visited \cup {stack[Len(stack)]}
            /\ list' = Append(list, stack[Len(stack)])
            /\ cur' = stack[Len(stack)] /\ k' = 1 /\ pc' = "each"
        BY <3>2, <1>7 DEF Pop
      <4>4. /\ visited \cup {stack[Len(stack)]} \in SUBSET Vertex
            /\ Append(list, stack[Len(stack)]) \in Seq(Vertex)
        BY <2>1, <1>0
      <4> QED BY <4>2, <4>3, <4>4, <2>1
    <3> QED BY <3>1, <3>2
  <2> QED BY <2>1, <2>2, <1>0, <1>7 DEF Pop, TypeOK
<1>8. CASE Push
  <2>1. Neighbours[k] \in Vertex
    BY <1>8, NeighbourType DEF Push
  <2>2. stack' \in Seq(Vertex)
    BY <2>1, <1>0, <1>8 DEF Push
  <2> QED BY <2>2, <1>0, <1>8 DEF Push, TypeOK
<1>9. CASE EndEach
  BY <1>0, <1>9 DEF EndEach, scratch, TypeOK
<1>10. CASE SumInAcc
  <2>1. Neighbours[k] \in Vertex
    BY <1>10, NeighbourType DEF SumInAcc
  <2>2. acc' \in [Vertex -> Nat]
    BY <2>1, <1>0, <1>10, AddType DEF SumInAcc
  <2> QED BY <2>2, <1>0, <1>10 DEF SumInAcc, TypeOK
<1>11. CASE SumBuffer
  <2>1. Neighbours[k] \in Vertex
    BY <1>11, NeighbourType DEF SumBuffer
  <2>2. sum' \in [Vertex -> Nat]
    BY <2>1, <1>0, <1>11, AddType DEF SumBuffer
  <2> QED BY <2>2, <1>0, <1>11 DEF SumBuffer, scratch, TypeOK
<1>12. CASE EndTraversal \/ EndLookup
  BY <1>0, <1>12 DEF EndTraversal, EndLookup, Finish, scratch, TypeOK
<1>13. CASE UNCHANGED vars
  BY <1>0, <1>13 DEF vars, scratch, TypeOK
<1> QED BY <1>1, <1>2, <1>3, <1>4, <1>5, <1>6, <1>7, <1>8, <1>9, <1>10, <1>11, <1>12, <1>13
        DEF Next, Query, Work

\* The buffers keep their types across queries, for every graph.
THEOREM TypeCorrect == Spec => []TypeOK
BY InitType, NextType, PTL DEF Spec

-----------------------------------------------------------------------------
(* The inductive invariant, one lemma per action. *)

\* The typed facts the lemmas below start from.
LEMMA Typed ==
  ASSUME TypeOK
  PROVE  /\ visited \subseteq Vertex /\ list \in Seq(Vertex) /\ stack \in Seq(Vertex)
         /\ Len(list) \in Nat /\ DOMAIN list = 1 .. Len(list)
         /\ acc \in [Vertex -> Nat] /\ sum \in [Vertex -> Nat]
         /\ src \in Vertex /\ cur \in Vertex
         /\ head \in Nat /\ head >= 1 /\ k \in Nat /\ k >= 1
         /\ \A u \in Vertex : /\ graph[u] \in Seq(Vertex) /\ Len(graph[u]) \in Nat
                              /\ DOMAIN graph[u] = 1 .. Len(graph[u])
                              /\ \A i \in DOMAIN graph[u] : graph[u][i] \in Vertex
<1>1. /\ visited \subseteq Vertex /\ list \in Seq(Vertex) /\ stack \in Seq(Vertex)
      /\ acc \in [Vertex -> Nat] /\ sum \in [Vertex -> Nat]
      /\ src \in Vertex /\ cur \in Vertex
      /\ head \in Nat /\ head >= 1 /\ k \in Nat /\ k >= 1
  BY DEF TypeOK
<1>2. Len(list) \in Nat /\ DOMAIN list = 1 .. Len(list)
  BY <1>1
<1> QED BY <1>1, <1>2, GraphType DEF TypeOK

\* The neighbour that an inner loop reads next (traverse.go:91, 109, 126, 139, 151).
LEMMA NextNeighbour ==
  ASSUME IInv, pc = "each", k <= Len(Neighbours)
  PROVE  /\ Neighbours = graph[cur] /\ k <= Len(graph[cur]) /\ k \in DOMAIN graph[cur]
         /\ graph[cur][k] \in Vertex
<1>1. TypeOK
  BY DEF IInv
<1>2. Neighbours = graph[cur] /\ k <= Len(graph[cur])
  BY DEF IInv, Walking
<1>3. cur \in Vertex /\ k \in Nat /\ k >= 1
  BY <1>1, Typed
<1>4. /\ Len(graph[cur]) \in Nat /\ DOMAIN graph[cur] = 1 .. Len(graph[cur])
      /\ \A i \in DOMAIN graph[cur] : graph[cur][i] \in Vertex
  BY <1>1, <1>3, Typed
<1>5. k \in DOMAIN graph[cur]
  BY <1>2, <1>3, <1>4
<1> QED BY <1>2, <1>4, <1>5

\* A fresh Scratch satisfies the invariant.
LEMMA InitIInv == Init => IInv
<1> SUFFICES ASSUME Init PROVE IInv
  OBVIOUS
<1>1. TypeOK
  BY InitType
<1>2. VisitedIsList
  BY SmallElems DEF Init, VisitedIsList
<1>3. Walking /\ OnlyReachable /\ QueueClosed /\ StackClosed /\ Summed /\ LookedUpSoFar
  BY DEF Init, Walking, OnlyReachable, QueueClosed, StackClosed, Summed, LookedUpSoFar, BFSOps
<1> QED BY <1>1, <1>2, <1>3 DEF IInv

\* reset leaves no bit set, because every bit that is set is in list.
LEMMA ResetClears == VisitedIsList => AfterReset = {}
BY DEF VisitedIsList, AfterReset

\* BFS, BFSBatch: after reset only src is marked.
LEMMA BeginBFSIInv ==
  ASSUME IInv, NEW o, NEW s \in Vertex, BeginBFS(o, s)
  PROVE  IInv'
<1>1. TypeOK /\ TypeOK'
  BY NextType DEF IInv, Next, Query, BeginBFS
<1>2. /\ graph' = graph /\ Vertex' = Vertex /\ visited' = {s} /\ list' = <<s>> /\ stack' = <<>>
      /\ op' \in BFSOps /\ src' = s /\ sum' = Zero /\ head' = 1 /\ pc' = "loop"
  BY ResetClears DEF IInv, BeginBFS, Begin, BFSOps, Vertex
<1>3. Len(<<s>>) = 1 /\ DOMAIN <<s>> = {1} /\ <<s>>[1] = s
  OBVIOUS
<1>4. VisitedIsList'
  BY <1>2, <1>3, SmallElems DEF VisitedIsList
<1>5. OnlyReachable'
  BY <1>2, SmallElems DEF OnlyReachable
<1>6. QueueClosed'
  BY <1>2, <1>3 DEF QueueClosed
<1>7. Summed'
  BY <1>2, <1>3 DEF Summed, BFSOps, Zero
<1>8. Walking' /\ StackClosed' /\ LookedUpSoFar'
  BY <1>2 DEF Walking, StackClosed, LookedUpSoFar, BFSOps
<1> QED BY <1>1, <1>4, <1>5, <1>6, <1>7, <1>8 DEF IInv

\* DFS: after reset nothing is marked and src waits on the stack.
LEMMA BeginDFSIInv ==
  ASSUME IInv, NEW s \in Vertex, BeginDFS(s)
  PROVE  IInv'
<1>1. TypeOK /\ TypeOK'
  BY NextType DEF IInv, Next, Query
<1>2. /\ graph' = graph /\ Vertex' = Vertex /\ visited' = {} /\ list' = <<>> /\ stack' = <<s>>
      /\ op' = "dfs" /\ src' = s /\ sum' = Zero /\ pc' = "loop"
  BY ResetClears DEF IInv, BeginDFS, Begin, Vertex
<1>3. VisitedIsList'
  BY <1>2, SmallElems DEF VisitedIsList
<1>4. OnlyReachable' /\ StackClosed'
  BY <1>2, SmallElems DEF OnlyReachable, StackClosed
<1>5. Summed'
  BY <1>2 DEF Summed, BFSOps, Zero
<1>6. Walking' /\ QueueClosed' /\ LookedUpSoFar'
  BY <1>2 DEF Walking, QueueClosed, LookedUpSoFar, BFSOps
<1> QED BY <1>1, <1>3, <1>4, <1>5, <1>6 DEF IInv

\* Neighbors, NeighborsBatch: nothing is added yet, and the bits stay as they are.
LEMMA BeginLookupIInv ==
  ASSUME IInv, NEW s \in Vertex, BeginNeighbors(s) \/ BeginNeighborsBatch(s)
  PROVE  IInv'
<1>1. TypeOK /\ TypeOK'
  BY NextType DEF IInv, Next, Query
<1>2. /\ graph' = graph /\ Vertex' = Vertex /\ visited' = visited /\ list' = list
      /\ src' = s /\ cur' = s /\ sum' = Zero /\ k' = 1 /\ pc' = "each"
      /\ \/ op' = "neighbors" /\ acc' = Zero
         \/ op' = "neighbors-batch" /\ buf' = graph[s]
  BY DEF BeginNeighbors, BeginNeighborsBatch, Begin, Vertex
<1>3. VisitedIsList'
  BY <1>2 DEF IInv, VisitedIsList
<1>4. Walking'
  <2>1. Len(graph[s]) \in Nat
    BY <1>1, Typed
  <2> QED BY <2>1, <1>2 DEF Walking, Neighbours, Batched
<1>5. LookedUpSoFar'
  <2>1. \A v : {i \in 1 .. (1 - 1) : graph[s][i] = v} = {}
    OBVIOUS
  <2>2. \A v : Occurrences(graph[s], 1 - 1, v) = 0
    BY <2>1, FS_EmptySet DEF Occurrences
  <2>3. \A v \in Vertex : (IF op' = "neighbors" THEN acc' ELSE sum')[v] = 0
    BY <1>2 DEF Zero
  <2> QED BY <2>2, <2>3, <1>2 DEF LookedUpSoFar
<1>6. OnlyReachable' /\ QueueClosed' /\ StackClosed' /\ Summed'
  BY <1>2 DEF OnlyReachable, QueueClosed, StackClosed, Summed, BFSOps
<1> QED BY <1>1, <1>3, <1>4, <1>5, <1>6 DEF IInv

\* Dequeue: the identifier of list[head] is added for the first time.
LEMMA DequeueIInv ==
  ASSUME IInv, Dequeue
  PROVE  IInv'
<1>1. TypeOK /\ TypeOK'
  BY NextType DEF IInv, Next, Work
<1>2. /\ graph' = graph /\ Vertex' = Vertex /\ visited' = visited /\ list' = list
      /\ stack' = stack /\ op' = op /\ src' = src /\ head' = head
      /\ op \in BFSOps /\ pc = "loop" /\ pc' = "each" /\ head <= Len(list)
      /\ cur' = list[head] /\ k' = 1
      /\ sum' = [sum EXCEPT ![list[head]] = @ + 1]
      /\ op = "bfs-batch" => buf' = graph[list[head]]
  BY DEF Dequeue, BFSOps, Vertex
<1>3. head \in DOMAIN list /\ list[head] \in Vertex /\ list[head] \in visited
  BY <1>1, <1>2, Typed DEF IInv, VisitedIsList, Elems
<1>4. VisitedIsList' /\ OnlyReachable'
  BY <1>2 DEF IInv, VisitedIsList, OnlyReachable
<1>5. Walking'
  <2>1. Len(graph[list[head]]) \in Nat
    BY <1>1, <1>3, Typed
  <2> QED BY <2>1, <1>2 DEF Walking, Neighbours, Batched, BFSOps
<1>6. QueueClosed'
  BY <1>2 DEF IInv, QueueClosed
<1>7. Summed'
  <2>1. /\ sum'[list[head]] = sum[list[head]] + 1
        /\ \A u \in Vertex \ {list[head]} : sum'[u] = sum[u]
    BY <1>1, <1>2, <1>3, Typed, AddType
  <2>2. \A i \in DOMAIN list : sum[list[i]] = IF i < head THEN 1 ELSE 0
    BY <1>2 DEF IInv, Summed
  <2>3. sum'[list[head]] = 1
    BY <1>1, <1>3, <2>1, <2>2, Typed
  <2>4. ASSUME NEW i \in DOMAIN list
        PROVE  sum'[list[i]] = IF i < head \/ i = head THEN 1 ELSE 0
    <3>1. CASE i = head
      BY <3>1, <2>3
    <3>2. CASE i # head
      <4>1. list[i] \in Vertex \ {list[head]}
        BY <3>2, <1>1, <1>3, Typed DEF IInv, VisitedIsList
      <4> QED BY <4>1, <3>2, <2>1, <2>2
    <3> QED BY <3>1, <3>2
  <2>5. \A v \in Vertex \ visited : sum'[v] = 0
    BY <1>2, <1>3, <2>1 DEF IInv, Summed
  <2> QED BY <2>4, <2>5, <1>2 DEF Summed, BFSOps
<1>8. StackClosed' /\ LookedUpSoFar'
  BY <1>2 DEF StackClosed, LookedUpSoFar, BFSOps
<1> QED BY <1>1, <1>4, <1>5, <1>6, <1>7, <1>8 DEF IInv

\* Visit: the k-th neighbour of list[head] is marked, now or before.
LEMMA VisitIInv ==
  ASSUME IInv, Visit
  PROVE  IInv'
<1>1. TypeOK /\ TypeOK'
  BY NextType DEF IInv, Next, Work
<1>2. /\ graph' = graph /\ Vertex' = Vertex /\ stack' = stack /\ buf' = buf
      /\ op' = op /\ src' = src /\ head' = head /\ cur' = cur /\ sum' = sum /\ k' = k + 1
      /\ pc = "each" /\ pc' = "each" /\ op \in BFSOps
  BY DEF Visit, BFSOps, Vertex
<1>3. /\ Neighbours = graph[cur] /\ k <= Len(graph[cur]) /\ k \in DOMAIN graph[cur]
      /\ graph[cur][k] \in Vertex
  BY <1>2, NextNeighbour DEF Visit
<1> DEFINE v == graph[cur][k]
<1>4. /\ head <= Len(list) /\ cur = list[head] /\ head \in DOMAIN list /\ cur \in visited
      /\ src \in visited
  BY <1>1, <1>2, Typed DEF IInv, QueueClosed, VisitedIsList, Elems
<1>5. \/ v \in visited /\ visited' = visited /\ list' = list
      \/ v \notin visited /\ visited' = visited \cup {v} /\ list' = Append(list, v)
  BY <1>3 DEF Visit
<1> HIDE DEF v
<1>6. Walking'
  BY <1>1, <1>2, <1>3, Typed DEF Walking, Neighbours, Batched
<1>7. visited' = visited \cup {v} /\ v \in Vertex
  BY <1>3, <1>5 DEF v
<1>8. OnlyReachable'
  <2> SUFFICES ASSUME NEW S \in SUBSET Vertex, src \in S, Served!Closed(graph, S)
               PROVE  visited' \cup Elems(stack) \subseteq S
    BY <1>2 DEF OnlyReachable, Served!Closed
  <2>1. visited \cup Elems(stack) \subseteq S
    BY <1>2 DEF IInv, OnlyReachable
  <2>2. v \in S
    BY <2>1, <1>3, <1>4 DEF Served!Closed, v
  <2> QED BY <2>1, <2>2, <1>7
<1>9. CASE v \in visited
  <2>1. visited' = visited /\ list' = list
    BY <1>5, <1>9
  <2>2. VisitedIsList' /\ Summed'
    BY <2>1, <1>2 DEF IInv, VisitedIsList, Summed
  <2>3. QueueClosed'
    <3>1. \A j \in 1 .. ((k + 1) - 1) : graph[cur][j] \in visited
      <4>1. \A j \in 1 .. ((k + 1) - 1) : j \in 1 .. (k - 1) \/ j = k
        BY <1>1, Typed
      <4> QED BY <4>1, <1>2, <1>9 DEF IInv, QueueClosed, v
    <3> QED BY <3>1, <2>1, <1>2 DEF IInv, QueueClosed
  <2>4. StackClosed' /\ LookedUpSoFar'
    BY <1>2 DEF StackClosed, LookedUpSoFar, BFSOps
  <2> QED BY <1>1, <1>6, <1>8, <2>2, <2>3, <2>4 DEF IInv
<1>10. CASE v \notin visited
  <2>1. /\ list' = Append(list, v) /\ list \in Seq(Vertex)
        /\ Len(list') = Len(list) + 1 /\ DOMAIN list' = 1 .. (Len(list) + 1)
        /\ \A i \in DOMAIN list : list'[i] = list[i]
        /\ list'[Len(list) + 1] = v /\ Elems(list') = Elems(list) \cup {v}
    <3>1. list' = Append(list, v) /\ list \in Seq(Vertex)
      BY <1>1, <1>5, <1>10, Typed
    <3> QED BY <3>1, <1>7, AppendElems
  <2>2. \A i \in DOMAIN list' : i \in DOMAIN list \/ i = Len(list) + 1
    BY <1>1, <2>1, Typed
  <2>3. \A i \in DOMAIN list : list[i] \in visited
    BY DEF IInv, VisitedIsList, Elems
  <2>4. VisitedIsList'
    <3>1. \A i \in DOMAIN list : list[i] # v
      BY <1>10, <2>3
    <3>2. \A i, j \in DOMAIN list' : list'[i] = list'[j] => i = j
      BY <3>1, <2>1, <2>2 DEF IInv, VisitedIsList
    <3> QED BY <3>2, <2>1, <1>7 DEF IInv, VisitedIsList
  <2>5. QueueClosed'
    <3>1. src \in visited' /\ head <= Len(list') /\ head <= Len(list') + 1
      BY <1>1, <1>4, <1>7, <2>1, Typed
    <3>2. list'[head] = cur
      BY <1>4, <2>1
    <3>3. \A i \in DOMAIN list' : i < head => Elems(graph[list'[i]]) \subseteq visited'
      <4> SUFFICES ASSUME NEW i \in DOMAIN list', i < head
                   PROVE  Elems(graph[list'[i]]) \subseteq visited'
        OBVIOUS
      <4>1. i \in DOMAIN list
        BY <2>2, <1>1, <1>4, Typed
      <4> QED BY <4>1, <2>1, <1>2, <1>7 DEF IInv, QueueClosed
    <3>4. \A j \in 1 .. ((k + 1) - 1) : graph[cur][j] \in visited'
      <4>1. \A j \in 1 .. ((k + 1) - 1) : j \in 1 .. (k - 1) \/ j = k
        BY <1>1, Typed
      <4>2. \A j \in 1 .. (k - 1) : graph[cur][j] \in visited
        BY <1>2 DEF IInv, QueueClosed
      <4> QED BY <4>1, <4>2, <1>7 DEF v
    <3> QED BY <3>1, <3>2, <3>3, <3>4, <1>2 DEF QueueClosed
  <2>6. Summed'
    <3>1. sum[v] = 0
      BY <1>2, <1>7, <1>10 DEF IInv, Summed
    <3>2. \A i \in DOMAIN list : sum[list[i]] = IF i < head \/ i = head THEN 1 ELSE 0
      BY <1>2 DEF IInv, Summed
    <3>3. \A i \in DOMAIN list' : sum[list'[i]] = IF i < head \/ i = head THEN 1 ELSE 0
      <4> SUFFICES ASSUME NEW i \in DOMAIN list'
                   PROVE  sum[list'[i]] = IF i < head \/ i = head THEN 1 ELSE 0
        OBVIOUS
      <4>1. CASE i \in DOMAIN list
        BY <4>1, <3>2, <2>1
      <4>2. CASE i = Len(list) + 1
        <5>1. ~(i < head \/ i = head)
          BY <4>2, <1>1, <1>4, Typed
        <5> QED BY <5>1, <4>2, <3>1, <2>1
      <4> QED BY <4>1, <4>2, <2>2
    <3>4. \A u \in Vertex \ visited' : sum[u] = 0
      BY <1>2, <1>7 DEF IInv, Summed
    <3> QED BY <3>3, <3>4, <1>2 DEF Summed, BFSOps
  <2>7. StackClosed' /\ LookedUpSoFar'
    BY <1>2 DEF StackClosed, LookedUpSoFar, BFSOps
  <2> QED BY <1>1, <1>6, <1>8, <2>4, <2>5, <2>6, <2>7 DEF IInv
<1> QED BY <1>9, <1>10

\* EndEach: all the neighbours of cur were seen.
LEMMA EndEachIInv ==
  ASSUME IInv, EndEach
  PROVE  IInv'
<1>1. TypeOK /\ TypeOK'
  BY NextType DEF IInv, Next, Work
<1>2. /\ graph' = graph /\ Vertex' = Vertex /\ visited' = visited /\ list' = list
      /\ stack' = stack /\ buf' = buf /\ op' = op /\ src' = src /\ cur' = cur /\ sum' = sum
      /\ k' = k /\ pc = "each" /\ pc' = "loop" /\ op \in BFSOps \cup {"dfs"}
      /\ head' = IF op = "dfs" THEN head ELSE head + 1
  BY DEF EndEach, scratch, BFSOps, Vertex
<1>3. k > Len(graph[cur]) /\ \A j \in DOMAIN graph[cur] : j \in 1 .. (k - 1) /\ ~(j >= k)
  <2>1. k > Len(graph[cur])
    BY <1>2 DEF EndEach, IInv, Walking
  <2>2. k \in Nat /\ Len(graph[cur]) \in Nat /\ DOMAIN graph[cur] = 1 .. Len(graph[cur])
    BY <1>1, Typed
  <2> QED BY <2>1, <2>2
<1>4. VisitedIsList' /\ OnlyReachable' /\ Walking' /\ LookedUpSoFar'
  BY <1>2 DEF IInv, VisitedIsList, OnlyReachable, Walking, LookedUpSoFar, BFSOps
<1>5. QueueClosed'
  <2> SUFFICES ASSUME op \in BFSOps
               PROVE  /\ src \in visited /\ head + 1 <= Len(list) + 1
                      /\ \A i \in DOMAIN list : i < head + 1 =>
                           Elems(graph[list[i]]) \subseteq visited
    BY <1>2 DEF QueueClosed, BFSOps
  <2>1. src \in visited /\ head <= Len(list) /\ cur = list[head]
    BY <1>2 DEF IInv, QueueClosed
  <2>2. Elems(graph[cur]) \subseteq visited
    BY <1>2, <1>3 DEF IInv, QueueClosed, Elems
  <2>3. ASSUME NEW i \in DOMAIN list, i < head + 1
        PROVE  Elems(graph[list[i]]) \subseteq visited
    <3>1. i < head \/ i = head
      BY <2>3, <1>1, Typed
    <3> QED BY <3>1, <2>1, <2>2 DEF IInv, QueueClosed
  <2> QED BY <2>1, <2>3, <1>1, Typed
<1>6. StackClosed'
  BY <1>2, <1>3 DEF IInv, StackClosed
<1>7. Summed'
  <2>1. CASE op = "dfs"
    BY <2>1, <1>2 DEF IInv, Summed, BFSOps
  <2>2. CASE op \in BFSOps
    <3>1. \A i \in DOMAIN list : i < head + 1 <=> i < head \/ i = head
      <4>1. head \in Nat /\ DOMAIN list = 1 .. Len(list) /\ Len(list) \in Nat
        BY <1>1, Typed
      <4> QED BY <4>1
    <3>2. \A i \in DOMAIN list : sum[list[i]] = IF i < head + 1 THEN 1 ELSE 0
      <4>1. Summed /\ op \in BFSOps /\ pc = "each"
        BY <2>2, <1>2 DEF IInv
      <4>2. \A i \in DOMAIN list : sum[list[i]] = IF i < head \/ i = head THEN 1 ELSE 0
        BY <4>1 DEF Summed
      <4> QED BY <4>2, <3>1
    <3>3. \A v \in Vertex \ visited : sum[v] = 0
      BY <2>2 DEF IInv, Summed
    <3>4. op # "dfs" /\ head' = head + 1
      BY <2>2, <1>2 DEF BFSOps
    <3> QED BY <3>2, <3>3, <3>4, <1>2 DEF Summed
  <2> QED BY <2>1, <2>2, <1>2
<1> QED BY <1>1, <1>4, <1>5, <1>6, <1>7 DEF IInv

\* Pop: the vertex is dropped if it is marked, and marked and added otherwise.
LEMMA PopIInv ==
  ASSUME IInv, Pop
  PROVE  IInv'
<1>1. TypeOK /\ TypeOK'
  BY NextType DEF IInv, Next, Work
<1> DEFINE u == stack[Len(stack)]
<1>2. /\ graph' = graph /\ Vertex' = Vertex /\ buf' = buf
      /\ op' = op /\ src' = src /\ head' = head
      /\ pc = "loop" /\ op = "dfs" /\ stack # <<>>
      /\ stack' = SubSeq(stack, 1, Len(stack) - 1)
  BY DEF Pop, Vertex
<1>3. /\ stack \in Seq(Vertex) /\ list \in Seq(Vertex)
      /\ u \in Vertex /\ Elems(stack) = Elems(stack') \cup {u}
  BY <1>1, <1>2, Typed, PopElems
<1>4. \/ /\ u \in visited /\ visited' = visited /\ list' = list
         /\ sum' = sum /\ pc' = "loop"
      \/ /\ u \notin visited /\ visited' = visited \cup {u} /\ list' = Append(list, u)
         /\ sum' = [sum EXCEPT ![u] = @ + 1] /\ cur' = u /\ k' = 1 /\ pc' = "each"
  BY <1>2 DEF Pop
<1> HIDE DEF u
<1>5. visited' = visited \cup {u}
  BY <1>4
<1>6. visited' \cup Elems(stack') = visited \cup Elems(stack)
  BY <1>3, <1>5
<1>7. OnlyReachable'
  BY <1>2, <1>6 DEF IInv, OnlyReachable, Served!Closed
<1>8. QueueClosed' /\ LookedUpSoFar'
  BY <1>2 DEF QueueClosed, LookedUpSoFar, BFSOps
<1>9. CASE u \in visited
  <2>1. visited' = visited /\ list' = list /\ sum' = sum /\ pc' = "loop"
    BY <1>4, <1>9
  <2>2. VisitedIsList' /\ Summed' /\ Walking'
    BY <2>1, <1>2 DEF IInv, VisitedIsList, Summed, Walking, BFSOps
  <2>3. StackClosed'
    BY <2>1, <1>2, <1>6 DEF IInv, StackClosed
  <2> QED BY <1>1, <1>7, <1>8, <2>2, <2>3 DEF IInv
<1>10. CASE u \notin visited
  <2>1. /\ visited' = visited \cup {u} /\ list' = Append(list, u)
        /\ sum' = [sum EXCEPT ![u] = @ + 1] /\ cur' = u /\ k' = 1 /\ pc' = "each"
    BY <1>4, <1>10
  <2>2. /\ DOMAIN list' = 1 .. (Len(list) + 1)
        /\ \A i \in DOMAIN list : list'[i] = list[i]
        /\ list'[Len(list) + 1] = u /\ Elems(list') = Elems(list) \cup {u}
    BY <2>1, <1>3, AppendElems
  <2>3. VisitedIsList'
    <3>1. \A i \in DOMAIN list' : i \in DOMAIN list \/ i = Len(list) + 1
      <4>1. Len(list) \in Nat /\ DOMAIN list = 1 .. Len(list)
        BY <1>1, Typed
      <4> QED BY <4>1, <2>2
    <3>2. \A i \in DOMAIN list : list[i] # u
      BY <1>10 DEF IInv, VisitedIsList, Elems
    <3>3. \A i, j \in DOMAIN list' : list'[i] = list'[j] => i = j
      BY <3>1, <3>2, <2>2 DEF IInv, VisitedIsList
    <3> QED BY <3>3, <2>1, <2>2 DEF IInv, VisitedIsList
  <2>4. Walking'
    <3>1. Len(graph[u]) \in Nat
      BY <1>1, <1>3, Typed
    <3>2. Neighbours' = graph[u] /\ graph'[cur'] = graph[u]
      BY <2>1, <1>2 DEF Neighbours, Batched
    <3>3. k' <= Len(graph[u]) + 1
      BY <3>1, <2>1
    <3> QED BY <3>2, <3>3 DEF Walking
  <2>5. Summed'
    <3>1. sum \in [Vertex -> Nat] /\ sum[u] = 0
      BY <1>1, <1>2, <1>3, <1>10, Typed DEF IInv, Summed
    <3>2. sum'[u] = 1 /\ \A v \in Vertex \ {u} : sum'[v] = sum[v]
      BY <3>1, <2>1, <1>3, AddType
    <3>3. \A v \in visited : v \in Vertex \ {u}
      BY <1>1, <1>10, Typed
    <3>4. \A v \in visited' : sum'[v] = 1
      BY <3>2, <3>3, <2>1, <1>2 DEF IInv, Summed
    <3>5. \A v \in Vertex \ visited' : sum'[v] = 0
      BY <3>2, <2>1, <1>2 DEF IInv, Summed
    <3> QED BY <3>4, <3>5, <1>2 DEF Summed, BFSOps
  <2>6. StackClosed'
    <3>1. src \in visited' \cup Elems(stack')
      BY <1>2, <1>6 DEF IInv, StackClosed
    <3>2. ASSUME NEW v \in visited', NEW j \in DOMAIN graph[v]
          PROVE  graph[v][j] \in visited' \cup Elems(stack') \/ (v = u /\ j >= 1)
      <4>1. CASE v = u
        BY <4>1, <1>1, <1>3, Typed
      <4>2. CASE v # u
        BY <4>2, <2>1, <1>2, <1>6 DEF IInv, StackClosed
      <4> QED BY <4>1, <4>2
    <3> QED BY <3>1, <3>2, <2>1, <1>2 DEF StackClosed
  <2> QED BY <1>1, <1>7, <1>8, <2>3, <2>4, <2>5, <2>6 DEF IInv
<1> QED BY <1>9, <1>10

\* Push: the k-th neighbour of cur is marked or on the stack.
LEMMA PushIInv ==
  ASSUME IInv, Push
  PROVE  IInv'
<1>1. TypeOK /\ TypeOK'
  BY NextType DEF IInv, Next, Work
<1>2. /\ graph' = graph /\ Vertex' = Vertex /\ visited' = visited /\ list' = list
      /\ buf' = buf /\ op' = op /\ src' = src /\ cur' = cur /\ sum' = sum /\ k' = k + 1
      /\ head' = head /\ pc = "each" /\ pc' = "each" /\ op = "dfs"
  BY DEF Push, Vertex
<1>3. /\ Neighbours = graph[cur] /\ k <= Len(graph[cur]) /\ k \in DOMAIN graph[cur]
      /\ graph[cur][k] \in Vertex
  BY <1>2, NextNeighbour DEF Push
<1> DEFINE v == graph[cur][k]
<1>4. \/ v \in visited /\ stack' = stack
      \/ stack' = Append(stack, v)
  BY <1>3 DEF Push
<1> HIDE DEF v
<1>5. \/ v \in visited /\ Elems(stack') = Elems(stack)
      \/ Elems(stack') = Elems(stack) \cup {v}
  <2>1. v \in Vertex /\ stack \in Seq(Vertex)
    BY <1>1, <1>3, Typed DEF v
  <2>2. Elems(Append(stack, v)) = Elems(stack) \cup {v}
    BY <2>1, AppendElems
  <2> QED BY <2>2, <1>4
<1>6. OnlyReachable'
  <2> SUFFICES ASSUME NEW S \in SUBSET Vertex, src \in S, Served!Closed(graph, S)
               PROVE  visited \cup Elems(stack') \subseteq S
    BY <1>2 DEF OnlyReachable, Served!Closed
  <2>1. visited \cup Elems(stack) \subseteq S
    BY <1>2 DEF IInv, OnlyReachable
  <2>2. cur \in visited
    BY <1>2 DEF IInv, StackClosed
  <2>3. v \in S
    BY <2>1, <2>2, <1>3 DEF Served!Closed, v
  <2> QED BY <2>1, <2>3, <1>5
<1>7. StackClosed'
  <2>1. src \in visited \cup Elems(stack') /\ cur \in visited
    BY <1>2, <1>5 DEF IInv, StackClosed
  <2>2. ASSUME NEW u \in visited, NEW j \in DOMAIN graph[u]
        PROVE  graph[u][j] \in visited \cup Elems(stack') \/ (u = cur /\ j >= k + 1)
    <3>1. u \in Vertex /\ j \in Nat
      BY <1>1, Typed
    <3>2. graph[u][j] \in visited \cup Elems(stack) \/ (u = cur /\ j >= k)
      BY <1>2 DEF IInv, StackClosed
    <3>3. CASE u = cur /\ j = k
      BY <3>3, <1>5 DEF v
    <3>4. CASE ~(u = cur /\ j = k)
      <4>1. Elems(stack) \subseteq Elems(stack')
        BY <1>5
      <4>2. j > k => j >= k + 1
        BY <3>1, <1>1, Typed
      <4>3. j >= k /\ j # k => j > k
        BY <3>1, <1>1, Typed
      <4> QED BY <3>2, <3>4, <4>1, <4>2, <4>3
    <3> QED BY <3>3, <3>4
  <2> QED BY <2>1, <2>2, <1>2 DEF StackClosed
<1>8. Walking'
  BY <1>1, <1>2, <1>3, Typed DEF Walking, Neighbours, Batched
<1>9. VisitedIsList' /\ QueueClosed' /\ Summed' /\ LookedUpSoFar'
  BY <1>2 DEF IInv, VisitedIsList, QueueClosed, Summed, LookedUpSoFar, BFSOps
<1> QED BY <1>1, <1>6, <1>7, <1>8, <1>9 DEF IInv

\* SumInAcc, SumBuffer: the k-th neighbour is added.
LEMMA SumIInv ==
  ASSUME IInv, SumInAcc \/ SumBuffer
  PROVE  IInv'
<1>1. TypeOK /\ TypeOK'
  BY NextType DEF IInv, Next, Work
<1> DEFINE total == IF op = "neighbors" THEN acc ELSE sum
<1>2. /\ graph' = graph /\ Vertex' = Vertex /\ visited' = visited /\ list' = list
      /\ stack' = stack /\ buf' = buf /\ op' = op /\ src' = src /\ cur' = cur /\ k' = k + 1
      /\ head' = head /\ pc = "each" /\ pc' = "each" /\ op \in {"neighbors", "neighbors-batch"}
  BY DEF SumInAcc, SumBuffer, scratch, Vertex
<1>3. /\ Neighbours = graph[cur] /\ k <= Len(graph[cur]) /\ k \in DOMAIN graph[cur]
      /\ graph[cur][k] \in Vertex /\ cur = src
  <2>1. k <= Len(Neighbours)
    BY DEF SumInAcc, SumBuffer
  <2>2. cur = src
    BY <1>2 DEF IInv, LookedUpSoFar
  <2> QED BY <2>1, <2>2, <1>2, NextNeighbour
<1>4. total' = [total EXCEPT ![graph[src][k]] = @ + 1] /\ total \in [Vertex -> Nat]
  <2>1. CASE op = "neighbors"
    BY <2>1, <1>1, <1>2, <1>3, Typed DEF SumInAcc, SumBuffer
  <2>2. CASE op = "neighbors-batch"
    BY <2>2, <1>1, <1>2, <1>3, Typed DEF SumInAcc, SumBuffer
  <2> QED BY <2>1, <2>2, <1>2
<1>5. \A v \in Vertex : total[v] = Occurrences(graph[src], k - 1, v)
  BY <1>2 DEF IInv, LookedUpSoFar
<1> HIDE DEF total
<1>6. \A v \in Vertex : total'[v] = Occurrences(graph[src], k, v)
  <2> TAKE v \in Vertex
  <2>1. total'[v] = total[v] + (IF graph[src][k] = v THEN 1 ELSE 0)
    <3>1. total[v] \in Nat
      BY <1>4
    <3> QED BY <3>1, <1>3, <1>4
  <2>2. graph[src] \in Seq(Vertex) /\ k \in 1 .. Len(graph[src])
    BY <1>1, <1>3, Typed
  <2>3. Occurrences(graph[src], k, v)
          = Occurrences(graph[src], k - 1, v) + (IF graph[src][k] = v THEN 1 ELSE 0)
    BY <2>2, CountNext
  <2> QED BY <2>1, <2>3, <1>5
<1>7. LookedUpSoFar'
  <2>1. (k + 1) - 1 = k
    BY <1>1, Typed
  <2> QED BY <2>1, <1>2, <1>3, <1>6 DEF LookedUpSoFar, total
<1>8. Walking'
  BY <1>1, <1>2, <1>3, Typed DEF Walking, Neighbours, Batched
<1>9. VisitedIsList' /\ OnlyReachable' /\ QueueClosed' /\ StackClosed' /\ Summed'
  BY <1>2 DEF IInv, VisitedIsList, OnlyReachable, QueueClosed, StackClosed, Summed, BFSOps
<1> QED BY <1>1, <1>7, <1>8, <1>9 DEF IInv

\* A query that returns leaves its marks behind, and the list that tells them.
LEMMA EndIInv ==
  ASSUME IInv, EndTraversal \/ EndLookup
  PROVE  IInv'
<1>1. TypeOK'
  BY NextType DEF IInv, Next, Work
<1>2. visited' = visited /\ list' = list /\ op' = "none" /\ pc' = "idle"
  BY DEF EndTraversal, EndLookup, Finish, scratch
<1>3. VisitedIsList'
  BY <1>2 DEF IInv, VisitedIsList
<1>4. /\ Walking' /\ OnlyReachable' /\ QueueClosed' /\ StackClosed' /\ Summed'
      /\ LookedUpSoFar'
  BY <1>2 DEF Walking, OnlyReachable, QueueClosed, StackClosed, Summed, LookedUpSoFar, BFSOps
<1> QED BY <1>1, <1>3, <1>4 DEF IInv

\* A step that changes nothing.
LEMMA StutterIInv ==
  ASSUME IInv, UNCHANGED vars
  PROVE  IInv'
<1>1. TypeOK'
  BY NextType DEF IInv
<1>2. /\ graph' = graph /\ visited' = visited /\ list' = list /\ stack' = stack /\ buf' = buf
      /\ acc' = acc /\ op' = op /\ src' = src /\ pc' = pc /\ head' = head /\ cur' = cur
      /\ k' = k /\ sum' = sum /\ Vertex' = Vertex
  BY DEF vars, scratch, Vertex
<1>3. /\ VisitedIsList' /\ Walking' /\ OnlyReachable' /\ QueueClosed' /\ StackClosed'
      /\ Summed' /\ LookedUpSoFar'
  BY <1>2 DEF IInv, VisitedIsList, Walking, Neighbours, Batched, OnlyReachable, QueueClosed,
              StackClosed, Summed, LookedUpSoFar, Served!Closed
<1> QED BY <1>1, <1>3 DEF IInv

\* Every step keeps the invariant.
LEMMA NextIInv == IInv /\ [Next]_vars => IInv'
<1> SUFFICES ASSUME IInv, [Next]_vars PROVE IInv'
  OBVIOUS
<1>1. ASSUME NEW s \in Vertex, Query(s)
      PROVE  IInv'
  BY <1>1, BeginBFSIInv, BeginDFSIInv, BeginLookupIInv DEF Query
<1>2. CASE Work
  BY <1>2, DequeueIInv, VisitIInv, PopIInv, PushIInv, EndEachIInv, SumIInv, EndIInv DEF Work
<1>3. CASE UNCHANGED vars
  BY <1>3, StutterIInv
<1> QED BY <1>1, <1>2, <1>3 DEF Next

\* The invariant holds in every reachable state.
THEOREM Invariant == Spec => []IInv
BY InitIInv, NextIInv, PTL DEF Spec

\* reset is complete: at every moment the bits set are those of the list, so that the
\* next query starts on an empty bitset (traverse.go:64-72).
THEOREM ResetIsComplete == Spec => []VisitedIsList
<1>1. IInv => VisitedIsList
  BY DEF IInv
<1> QED BY <1>1, Invariant, PTL

-----------------------------------------------------------------------------
(* Traverse implements GraphQuery. *)

\* GraphQuery counts with the same operator.
LEMMA SameCardinality == \A S : Served!Cardinality(S) = Cardinality(S)
BY DEF Served!Cardinality, Cardinality, Served!IsFiniteSet, IsFiniteSet

\* When a traversal has nothing left to expand, its marks are closed under edges.
LEMMA MarksClosed ==
  ASSUME IInv, EndTraversal
  PROVE  src \in visited /\ Served!Closed(graph, visited)
<1>1. TypeOK /\ pc = "loop" /\ op \in BFSOps \cup {"dfs"}
  BY DEF IInv, TypeOK, EndTraversal, BFSOps
<1>2. CASE op = "dfs"
  <2>1. Elems(stack) = {}
    BY <1>2, SmallElems DEF EndTraversal
  <2> QED BY <2>1, <1>1, <1>2 DEF IInv, StackClosed, Served!Closed
<1>3. CASE op \in BFSOps
  <2>1. head > Len(list)
    BY <1>3 DEF EndTraversal, BFSOps
  <2>2. \A i \in DOMAIN list : i < head
    BY <2>1, <1>1, Typed
  <2>3. \A u \in visited : Elems(graph[u]) \subseteq visited
    BY <2>2, <1>3 DEF IInv, QueueClosed, VisitedIsList, Elems
  <2>4. src \in visited
    BY <1>3 DEF IInv, QueueClosed
  <2> QED BY <2>3, <2>4 DEF Served!Closed, Elems
<1> QED BY <1>1, <1>2, <1>3

\* A traversal that returns has marked exactly the vertices that can be reached.
LEMMA MarksAreReach ==
  ASSUME IInv, EndTraversal
  PROVE  visited = Served!Reach(graph, src)
<1>1. visited \in SUBSET DOMAIN graph /\ src \in visited /\ Served!Closed(graph, visited)
  BY MarksClosed DEF IInv, TypeOK, Vertex
<1>2. Served!Reach(graph, src) \subseteq visited
  BY <1>1 DEF Served!Reach
<1>3. op \in BFSOps \cup {"dfs"}
  BY DEF IInv, TypeOK, EndTraversal, BFSOps
<1>4. visited \subseteq Served!Reach(graph, src)
  BY <1>1, <1>3 DEF IInv, OnlyReachable, Served!Reach, Vertex
<1> QED BY <1>2, <1>4

\* The reply of a traversal.
LEMMA TraversalReply ==
  ASSUME IInv, EndTraversal
  PROVE  ret' = Served!Traversed(graph, src)
<1>1. TypeOK /\ pc = "loop" /\ op \in BFSOps \cup {"dfs"}
  BY DEF IInv, TypeOK, EndTraversal, BFSOps
<1>2. visited = Served!Reach(graph, src)
  BY MarksAreReach
<1>3. Len(list) = Cardinality(visited)
  BY <1>1, Typed, LengthCounts DEF IInv, VisitedIsList
<1>4. \A v \in Vertex : sum[v] = IF v \in visited THEN 1 ELSE 0
  <2>1. \A v \in Vertex \ visited : sum[v] = 0
    BY <1>1 DEF IInv, Summed
  <2>2. CASE op = "dfs"
    BY <2>1, <2>2 DEF IInv, Summed
  <2>3. CASE op \in BFSOps
    <3>1. \A i \in DOMAIN list : i < head
      <4>1. head > Len(list)
        BY <2>3 DEF EndTraversal, BFSOps
      <4> QED BY <4>1, <1>1, Typed
    <3>2. \A v \in visited : sum[v] = 1
      BY <3>1, <2>3 DEF IInv, Summed, VisitedIsList, Elems
    <3> QED BY <2>1, <3>2
  <2> QED BY <1>1, <2>2, <2>3
<1>5. sum = [v \in DOMAIN graph |-> IF v \in visited THEN 1 ELSE 0]
  BY <1>1, <1>4, Typed DEF Vertex
<1>6. ret' = [count |-> Len(list), sum |-> sum]
  BY DEF EndTraversal, Finish
<1> QED BY <1>2, <1>3, <1>5, <1>6, SameCardinality DEF Served!Traversed

\* The reply of a lookup.
LEMMA LookupReply ==
  ASSUME IInv, EndLookup
  PROVE  ret' = Served!LookedUp(graph, src)
<1> DEFINE total == IF op = "neighbors" THEN acc ELSE sum
<1>1. /\ TypeOK /\ pc = "each" /\ op \in {"neighbors", "neighbors-batch"} /\ cur = src
      /\ ret' = [count |-> 0, sum |-> total]
  BY DEF IInv, LookedUpSoFar, EndLookup, Finish
<1>2. k - 1 = Len(graph[src]) /\ DOMAIN graph[src] = 1 .. (k - 1)
  <2>1. k > Len(graph[src]) /\ k <= Len(graph[src]) + 1
    BY <1>1 DEF IInv, Walking, EndLookup
  <2>2. k \in Nat /\ Len(graph[src]) \in Nat /\ DOMAIN graph[src] = 1 .. Len(graph[src])
    BY <1>1, Typed
  <2> QED BY <2>1, <2>2
<1>3. total \in [Vertex -> Nat]
  BY <1>1, Typed
<1>4. \A v \in Vertex : total[v] = Occurrences(graph[src], k - 1, v)
  BY <1>1 DEF IInv, LookedUpSoFar
<1> HIDE DEF total
<1>5. \A v \in Vertex : total[v] = Cardinality({i \in DOMAIN graph[src] : graph[src][i] = v})
  BY <1>2, <1>4 DEF Occurrences
<1>6. total = [v \in DOMAIN graph |-> Cardinality({i \in DOMAIN graph[src] : graph[src][i] = v})]
  BY <1>3, <1>5 DEF Vertex
<1> QED BY <1>1, <1>6, SameCardinality DEF Served!LookedUp

\* A fresh Scratch with no query is an initial state of GraphQuery.
LEMMA ServedInit == Init => Served!Init
BY DEF Init, Served!Init, Served!NoRequest, Served!NoReply, NoReply

\* A step of a query is a request, a reply, or invisible to the caller.
LEMMA ServedStep == IInv /\ [Next]_vars => [Served!Next]_(Served!vars)
<1> SUFFICES ASSUME IInv, [Next]_vars PROVE [Served!Next]_(Served!vars)
  OBVIOUS
<1>1. ASSUME NEW s \in Vertex, Query(s)
      PROVE  Served!Ask
  <2>1. /\ op = "none" /\ op' \in {"bfs", "bfs-batch", "dfs", "neighbors", "neighbors-batch"}
        /\ src' = s /\ ret' = NoReply /\ graph' = graph
    BY <1>1 DEF IInv, TypeOK, Query, BeginBFS, BeginDFS, BeginNeighbors, BeginNeighborsBatch,
                Begin
  <2>2. op' \in Served!Traversals \cup Served!Lookups
    BY <2>1 DEF Served!Traversals, Served!Lookups
  <2> QED BY <2>1, <2>2 DEF Served!Ask, Served!NoRequest, Served!NoReply, NoReply, Vertex
<1>2. CASE EndTraversal
  <2>1. op \in {"bfs", "bfs-batch", "dfs"} /\ op' = "none" /\ graph' = graph
    BY <1>2 DEF IInv, TypeOK, EndTraversal, Finish
  <2> QED BY <2>1, <1>2, TraversalReply
          DEF Served!Next, Served!Reply, Served!Traversals, Served!NoRequest
<1>3. CASE EndLookup
  <2>1. op \in {"neighbors", "neighbors-batch"} /\ op' = "none" /\ graph' = graph
    BY <1>3 DEF EndLookup, Finish
  <2> QED BY <2>1, <1>3, LookupReply
          DEF Served!Next, Served!Reply, Served!Traversals, Served!NoRequest
<1>4. CASE Dequeue \/ Visit \/ Pop \/ Push \/ EndEach \/ SumInAcc \/ SumBuffer
  BY <1>4 DEF Dequeue, Visit, Pop, Push, EndEach, SumInAcc, SumBuffer, Served!vars
<1>5. CASE UNCHANGED vars
  BY <1>5 DEF vars, Served!vars
<1> QED BY <1>1, <1>2, <1>3, <1>4, <1>5 DEF Next, Work, Served!Next

\* BFS, BFSBatch and DFS report exactly the vertices that can be reached, and the
\* lookups exactly the neighbours, whatever the graph, the order of its neighbours and
\* the queries the Scratch served before (traverse.go:81-153).
THEOREM TraverseRefinesQuery == Spec => ImplementsQuery
BY Invariant, ServedInit, ServedStep, PTL DEF Spec, ImplementsQuery, Served!Spec

-----------------------------------------------------------------------------
(* The order of the traversals, and the bound on the stack: definitions. *)

\* The room left for what the current vertex has still to push.
StackRoom ==
  /\ op \in BFSOps => stack = <<>>
  /\ Len(stack) <= 1 + OutEdges(visited)
  /\ pc = "each" /\ op = "dfs" =>
       Len(stack) + (Len(graph[cur]) + 1 - k) <= 1 + OutEdges(visited)

\* by[p] is the index in list of the vertex that pushed stack[p], zero for the source:
\* from the bottom to the top of the stack it does not decrease, and an unmarked
\* neighbour of list[a] was pushed by list[a] or by a vertex visited later.
PushedBy(by) ==
  /\ by \in [DOMAIN stack -> 0 .. Len(list)]
  /\ \A p, q \in DOMAIN stack : p <= q => by[p] <= by[q]
  /\ \A p \in DOMAIN stack : IF by[p] = 0 THEN list = <<>> /\ p = 1
                                 ELSE Edge(list[by[p]], stack[p])
  /\ \A a \in DOMAIN list : \A j \in DOMAIN graph[list[a]] :
       \/ graph[list[a]][j] \in visited
       \/ \E p \in DOMAIN stack : stack[p] = graph[list[a]][j] /\ by[p] >= a
       \/ pc = "each" /\ a = Len(list) /\ j >= k

\* What comes after list[a] while a neighbour of list[a] is unmarked was reached from
\* list[a] or from a vertex visited since.
Nested ==
  \A a, b \in DOMAIN list : \A j \in DOMAIN graph[list[a]] :
    a < b /\ graph[list[a]][j] \notin visited =>
      \E d \in a .. (b - 1) : Edge(list[d], list[b])

StackOrder ==
  op = "dfs" =>
    /\ pc = "each" => list # <<>> /\ cur = list[Len(list)]
    /\ \E by \in [DOMAIN stack -> 0 .. Len(list)] : PushedBy(by)
    /\ Nested
    /\ DepthFirst

\* u is not farther from src than v.
NotFarther(u, v) == \A d \in Nat : v \in Within[d] => u \in Within[d]

\* The elements of l come by increasing distance, and none of them is farther than the
\* neighbours of its element h.
ByDistance(l, h) ==
  /\ \A i, j \in DOMAIN l : i <= j => NotFarther(l[i], l[j])
  /\ h \in DOMAIN l =>
       \A i \in DOMAIN l, d \in Nat : l[h] \in Within[d] => l[i] \in Within[d + 1]

QueueOrder ==
  op \in BFSOps => list # <<>> /\ list[1] = src /\ ByDistance(list, head)

-----------------------------------------------------------------------------
(* The bound on the stack. *)

\* The edges of a vertex that joins the set.
LEMMA OutEdgesFacts ==
  ASSUME graph \in Graphs, NEW S \in SUBSET Vertex
  PROVE  /\ OutEdges({}) = 0 /\ OutEdges(S) \in Nat
         /\ \A u \in Vertex \ S : OutEdges(S \cup {u}) = OutEdges(S) + Len(graph[u])
<1> DEFINE Star(u)  == {u} \X DOMAIN graph[u]
           Stars(T) == {Star(u) : u \in T}
<1>1. ASSUME NEW u \in Vertex
      PROVE  IsFiniteSet(Star(u)) /\ Cardinality(Star(u)) = Len(graph[u])
  <2>1. DOMAIN graph[u] = 1 .. Len(graph[u]) /\ Len(graph[u]) \in Nat
    BY GraphType
  <2>2. IsFiniteSet(1 .. Len(graph[u])) /\ Cardinality(1 .. Len(graph[u])) = Len(graph[u])
    BY <2>1, FS_Interval
  <2>3. IsFiniteSet({u}) /\ Cardinality({u}) = 1
    BY FS_Singleton
  <2>4. IsFiniteSet({u} \X (1 .. Len(graph[u])))
        /\ Cardinality({u} \X (1 .. Len(graph[u]))) = 1 * Len(graph[u])
    BY <2>2, <2>3, FS_Product
  <2> QED BY <2>1, <2>4
<1>2. ASSUME NEW T \in SUBSET Vertex
      PROVE  IsFiniteSet(UNION Stars(T))
  <2>1. IsFiniteSet(T)
    BY GraphType, FS_Subset
  <2> DEFINE f == [u \in T |-> Star(u)]
  <2>2. f \in Surjection(T, Stars(T))
    BY DEF Surjection
  <2>3. IsFiniteSet(Stars(T))
    BY <2>1, <2>2, FS_Surjection
  <2>4. \A X \in Stars(T) : IsFiniteSet(X)
    BY <1>1
  <2> HIDE DEF Stars
  <2> QED BY <2>3, <2>4, FS_UNION
<1>3. \A T : OutEdges(T) = Cardinality(UNION Stars(T))
  BY DEF OutEdges
<1>4. OutEdges({}) = 0
  <2>1. UNION Stars({}) = {}
    OBVIOUS
  <2> QED BY <1>3, <2>1, FS_EmptySet
<1>5. OutEdges(S) \in Nat
  BY <1>2, <1>3, FS_CardinalityType
<1>6. ASSUME NEW u \in Vertex \ S
      PROVE  OutEdges(S \cup {u}) = OutEdges(S) + Len(graph[u])
  <2>1. UNION Stars(S \cup {u}) = (UNION Stars(S)) \cup Star(u)
    OBVIOUS
  <2>2. (UNION Stars(S)) \cap Star(u) = {}
    OBVIOUS
  <2> DEFINE A == UNION Stars(S)
             B == Star(u)
  <2>3. IsFiniteSet(A) /\ IsFiniteSet(B) /\ Cardinality(B) = Len(graph[u])
    BY <1>1, <1>2
  <2>4. Cardinality(A) = OutEdges(S) /\ Cardinality(A \cup B) = OutEdges(S \cup {u})
    BY <1>3, <2>1
  <2>5. A \cap B = {}
    BY <2>2
  <2>6. Len(graph[u]) \in Nat
    BY GraphType
  <2> HIDE DEF A, B
  <2>7. Cardinality(A \cup B) = Cardinality(A) + Cardinality(B) - Cardinality({})
    BY <2>3, <2>5, FS_Union
  <2> QED BY <1>5, <2>3, <2>4, <2>6, <2>7, FS_EmptySet
<1> QED BY <1>4, <1>5, <1>6

\* stack[:len-1] keeps the other elements at their places (traverse.go:103).
LEMMA PopIndices ==
  ASSUME NEW S, NEW s \in Seq(S), s # <<>>
  PROVE  LET t == SubSeq(s, 1, Len(s) - 1) IN
         /\ t \in Seq(S) /\ Len(t) = Len(s) - 1 /\ Len(s) \in DOMAIN s
         /\ DOMAIN t = 1 .. (Len(s) - 1)
         /\ \A i \in DOMAIN t : i \in DOMAIN s /\ i < Len(s) /\ t[i] = s[i]
         /\ \A i \in DOMAIN s : i = Len(s) \/ i \in DOMAIN t
<1> DEFINE n == Len(s)
           t == SubSeq(s, 1, n - 1)
<1>1. n \in Nat /\ n # 0 /\ DOMAIN s = 1 .. n /\ \A i \in 1 .. n : s[i] \in S
  OBVIOUS
<1> HIDE DEF n
<1>2. n - 1 \in Int /\ 1 \in Int /\ (\A i \in 1 .. (n - 1) : i \in 1 .. n /\ i < n)
      /\ (\A i \in 1 .. n : i = n \/ i \in 1 .. (n - 1)) /\ n \in 1 .. n
      /\ (IF 1 <= n - 1 THEN (n - 1) - 1 + 1 ELSE 0) = n - 1
      /\ (n - 1) - 1 + 1 = n - 1 /\ \A i \in 1 .. (n - 1) : 1 + i - 1 = i
  BY <1>1
<1>3. /\ t \in Seq(S) /\ Len(t) = n - 1
      /\ \A i \in 1 .. (n - 1) : t[i] = s[1 + i - 1]
  <2>1. \A i \in 1 .. (n - 1) : s[i] \in S
    BY <1>1, <1>2
  <2> QED BY <1>2, <2>1, SubSeqProperties
<1>4. DOMAIN t = 1 .. (n - 1)
  BY <1>3
<1> QED BY <1>1, <1>2, <1>3, <1>4 DEF n

\* Every step keeps room on the stack for the edges still to be seen.
LEMMA NextStackRoom == IInv /\ StackRoom /\ [Next]_vars => StackRoom'
<1> SUFFICES ASSUME IInv, StackRoom, [Next]_vars PROVE StackRoom'
  OBVIOUS
<1>1. /\ TypeOK /\ graph \in Graphs /\ visited \in SUBSET Vertex /\ stack \in Seq(Vertex)
      /\ cur \in Vertex /\ k \in Nat /\ Len(stack) \in Nat
      /\ OutEdges({}) = 0 /\ OutEdges(visited) \in Nat /\ Len(graph[cur]) \in Nat
  <2>1. /\ TypeOK /\ graph \in Graphs /\ visited \in SUBSET Vertex /\ stack \in Seq(Vertex)
        /\ cur \in Vertex /\ k \in Nat
    BY DEF IInv, TypeOK
  <2>2. Len(stack) \in Nat
    BY <2>1
  <2> QED BY <2>1, <2>2, OutEdgesFacts, GraphType
<1>2. graph' = graph
  BY DEF Next, Work, Query, Begin, BeginBFS, BeginDFS, BeginNeighbors, BeginNeighborsBatch,
         Dequeue, Visit, Pop, Push, EndEach, SumInAcc, SumBuffer, EndTraversal, EndLookup,
         Finish, vars
<1>3. \A S : OutEdges(S)' = OutEdges(S')
  BY <1>2 DEF OutEdges
<1>4. Len(stack) <= 1 + OutEdges(visited)
  BY DEF StackRoom
<1>5. ASSUME stack' = <<>>, op' # "dfs", visited' \in SUBSET Vertex
      PROVE  StackRoom'
  <2>1. Len(stack') = 0
    BY <1>5
  <2>2. OutEdges(visited') \in Nat
    BY <1>1, <1>5, OutEdgesFacts
  <2>3. OutEdges(visited)' = OutEdges(visited')
    BY <1>2 DEF OutEdges
  <2> QED BY <1>5, <2>1, <2>2, <2>3 DEF StackRoom
<1>6. ASSUME visited' = visited, stack' = stack, ~(pc' = "each" /\ op' = "dfs"),
             op' \in BFSOps => op \in BFSOps
      PROVE  StackRoom'
  <2>1. OutEdges(visited)' = OutEdges(visited)
    BY <1>2, <1>6 DEF OutEdges
  <2> QED BY <1>4, <1>6, <2>1 DEF StackRoom
<1>7. ASSUME NEW o, NEW s \in Vertex, BeginBFS(o, s)
      PROVE  StackRoom'
  <2>1. visited' \in SUBSET Vertex /\ stack' = <<>> /\ op' # "dfs"
    BY <1>1, <1>7 DEF BeginBFS, Begin, AfterReset
  <2> QED BY <1>5, <2>1
<1>8. ASSUME NEW s \in Vertex, BeginDFS(s)
      PROVE  StackRoom'
  <2>1. visited' = {} /\ stack' = <<s>> /\ pc' = "loop" /\ op' = "dfs"
    BY <1>8, ResetClears DEF BeginDFS, Begin, IInv
  <2>2. OutEdges(visited)' = 0
    <3>1. OutEdges(visited)' = OutEdges({})
      BY <1>2, <2>1 DEF OutEdges
    <3> QED BY <1>1, <3>1
  <2>3. Len(stack') = 1
    BY <2>1
  <2> QED BY <2>1, <2>2, <2>3 DEF StackRoom, BFSOps
<1>9. ASSUME NEW s \in Vertex, BeginNeighbors(s) \/ BeginNeighborsBatch(s)
      PROVE  StackRoom'
  <2>1. visited' = visited /\ stack' = stack /\ op' \in {"neighbors", "neighbors-batch"}
    BY <1>9 DEF BeginNeighbors, BeginNeighborsBatch, Begin
  <2> QED BY <1>6, <2>1 DEF BFSOps
<1>10. CASE Dequeue \/ EndEach \/ SumInAcc \/ SumBuffer \/ EndTraversal \/ EndLookup
  BY <1>6, <1>10 DEF Dequeue, EndEach, SumInAcc, SumBuffer, EndTraversal, EndLookup, Finish,
                     scratch, BFSOps
<1>11. CASE Visit
  <2>1. stack' = stack /\ op' = op /\ op \in BFSOps
    BY <1>11 DEF Visit, BFSOps
  <2>2. visited' \in SUBSET Vertex
    <3>1. TypeOK' /\ Vertex' = Vertex
      BY <1>1, <1>2, NextType DEF Vertex
    <3> QED BY <3>1 DEF TypeOK
  <2> QED BY <1>5, <2>1, <2>2 DEF StackRoom, BFSOps
<1>12. CASE Pop
  <2> DEFINE u == stack[Len(stack)]
  <2>1. /\ op = "dfs" /\ op' = op /\ pc = "loop" /\ stack # <<>>
        /\ stack' = SubSeq(stack, 1, Len(stack) - 1)
    BY <1>12 DEF Pop
  <2>2. u \in Vertex /\ Len(stack') = Len(stack) - 1
    <3>1. u \in Vertex
      BY <1>1, <2>1, PopElems
    <3>2. Len(SubSeq(stack, 1, Len(stack) - 1)) = Len(stack) - 1
      BY <1>1, <2>1, PopIndices
    <3> QED BY <2>1, <3>1, <3>2
  <2>3. \/ u \in visited /\ visited' = visited /\ pc' = "loop"
        \/ u \notin visited /\ visited' = visited \cup {u} /\ cur' = u /\ k' = 1 /\ pc' = "each"
    BY <1>12 DEF Pop
  <2> HIDE DEF u
  <2>4. CASE u \in visited
    <3>1. OutEdges(visited)' = OutEdges(visited)
      BY <1>2, <2>3, <2>4 DEF OutEdges
    <3> QED BY <1>1, <1>4, <2>1, <2>2, <2>3, <2>4, <3>1 DEF StackRoom, BFSOps
  <2>5. CASE u \notin visited
    <3>1. visited' = visited \cup {u} /\ cur' = u /\ k' = 1
      BY <2>3, <2>5
    <3>2. OutEdges(visited)' = OutEdges(visited \cup {u})
      BY <1>2, <3>1 DEF OutEdges
    <3>3. OutEdges(visited)' = OutEdges(visited) + Len(graph[u])
      BY <1>1, <2>2, <2>5, <3>2, OutEdgesFacts
    <3>4. Len(graph'[cur']) = Len(graph[u]) /\ Len(graph[u]) \in Nat
      BY <1>1, <1>2, <2>2, <3>1, GraphType
    <3>5. /\ Len(stack') <= 1 + OutEdges(visited)'
          /\ Len(stack') + (Len(graph[u]) + 1 - 1) <= 1 + OutEdges(visited)'
      BY <1>1, <1>4, <2>2, <3>3, <3>4
    <3>6. op' \notin BFSOps
      BY <2>1 DEF BFSOps
    <3> QED BY <3>1, <3>4, <3>5, <3>6 DEF StackRoom
  <2> QED BY <2>4, <2>5
<1>13. CASE Push
  <2>1. /\ op = "dfs" /\ op' = op /\ pc = "each" /\ pc' = pc /\ visited' = visited /\ cur' = cur
        /\ k' = k + 1 /\ k <= Len(Neighbours)
        /\ stack' = stack \/ stack' = Append(stack, Neighbours[k])
    BY <1>13 DEF Push
  <2>2. OutEdges(visited)' = OutEdges(visited)
    BY <1>2, <2>1 DEF OutEdges
  <2>3. Len(stack') <= Len(stack) + 1 /\ Len(stack') \in Nat
    <3>1. Neighbours[k] \in Vertex
      BY <1>1, <2>1, NeighbourType
    <3> QED BY <1>1, <2>1, <3>1
  <2>4. k <= Len(graph[cur])
    BY <2>1, NextNeighbour
  <2>5. Len(stack) + (Len(graph[cur]) + 1 - k) <= 1 + OutEdges(visited)
    BY <2>1 DEF StackRoom
  <2>6. /\ Len(stack') <= 1 + OutEdges(visited)
        /\ Len(stack') + (Len(graph[cur]) + 1 - (k + 1)) <= 1 + OutEdges(visited)
    <3>1. PICK a \in Nat, b \in Nat, c \in Nat, d \in Nat :
            a = Len(stack) /\ b = Len(stack') /\ c = Len(graph[cur]) /\ d = OutEdges(visited)
      BY <1>1, <2>3
    <3>2. b <= a + 1 /\ k <= c /\ a + (c + 1 - k) <= 1 + d
      BY <2>3, <2>4, <2>5, <3>1
    <3>3. b <= 1 + d /\ b + (c + 1 - (k + 1)) <= 1 + d
      BY <1>1, <3>2
    <3> QED BY <3>1, <3>3
  <2>7. op' \notin BFSOps
    BY <2>1 DEF BFSOps
  <2> QED BY <1>2, <2>1, <2>2, <2>6, <2>7 DEF StackRoom
<1>14. CASE UNCHANGED vars
  <2>1. /\ visited' = visited /\ stack' = stack /\ pc' = pc /\ op' = op /\ cur' = cur /\ k' = k
    BY <1>14 DEF vars, scratch
  <2>2. OutEdges(visited)' = OutEdges(visited)
    BY <1>2, <2>1 DEF OutEdges
  <2> QED BY <1>2, <2>1, <2>2 DEF StackRoom
<1> QED BY <1>7, <1>8, <1>9, <1>10, <1>11, <1>12, <1>13, <1>14 DEF Next, Query, Work

\* Every edge pushes at most once, so the stack of DFS never holds more than one vertex
\* and one per edge seen: traverse.go:99-109.
THEOREM StackIsBounded == Spec => []StackBounded
<1>1. Init => StackRoom
  <2> SUFFICES ASSUME Init PROVE StackRoom
    OBVIOUS
  <2>1. visited = {} /\ stack = <<>> /\ pc = "idle" /\ graph \in Graphs
    BY DEF Init
  <2>2. OutEdges(visited) = 0 /\ Len(stack) = 0
    BY <2>1, OutEdgesFacts
  <2> QED BY <2>1, <2>2 DEF StackRoom
<1>2. StackRoom => StackBounded
  BY DEF StackRoom, StackBounded
<1> QED BY <1>1, <1>2, NextStackRoom, Invariant, PTL DEF Spec

-----------------------------------------------------------------------------
(* The order of DFS. *)

\* DFS: the stack holds the source, pushed by nobody.
LEMMA BeginDFSOrder ==
  ASSUME TypeOK, NEW s \in Vertex, BeginDFS(s)
  PROVE  StackOrder'
<1>1. /\ graph' = graph /\ list' = <<>> /\ stack' = <<s>> /\ pc' = "loop" /\ op' = "dfs"
  BY DEF BeginDFS, Begin
<1>2. DOMAIN list' = {} /\ Len(list') = 0 /\ DOMAIN stack' = {1}
  BY <1>1
<1> DEFINE by == [p \in {1} |-> 0]
<1>3. by \in [DOMAIN stack' -> 0 .. Len(list')]
  BY <1>2
<1>4. \A p \in {1} : by[p] = 0 /\ p = 1
  OBVIOUS
<1> HIDE DEF by
<1>5. PushedBy(by)'
  BY <1>1, <1>2, <1>3, <1>4 DEF PushedBy
<1>6. Nested' /\ DepthFirst'
  BY <1>2 DEF Nested, DepthFirst
<1> QED BY <1>1, <1>3, <1>5, <1>6 DEF StackOrder

\* What the lemmas on the steps of DFS start from.
LEMMA DFSFacts ==
  ASSUME TypeOK, op = "dfs", StackOrder
  PROVE  /\ list \in Seq(Vertex) /\ stack \in Seq(Vertex)
         /\ Len(list) \in Nat /\ DOMAIN list = 1 .. Len(list)
         /\ Len(stack) \in Nat /\ DOMAIN stack = 1 .. Len(stack)
         /\ pc = "each" => list # <<>> /\ cur = list[Len(list)] /\ Len(list) \in DOMAIN list
         /\ Nested /\ DepthFirst
         /\ \E by \in [DOMAIN stack -> 0 .. Len(list)] : PushedBy(by)
<1>1. list \in Seq(Vertex) /\ stack \in Seq(Vertex)
  BY DEF TypeOK
<1>2. /\ Len(list) \in Nat /\ DOMAIN list = 1 .. Len(list)
      /\ Len(stack) \in Nat /\ DOMAIN stack = 1 .. Len(stack)
      /\ list # <<>> => Len(list) \in DOMAIN list
  BY <1>1
<1> QED BY <1>1, <1>2 DEF StackOrder

\* Pop, of a vertex that is marked already.
LEMMA PopMarkedOrder ==
  ASSUME TypeOK, StackOrder, Pop, stack[Len(stack)] \in visited
  PROVE  StackOrder'
<1>1. /\ graph' = graph /\ op' = op /\ op = "dfs" /\ pc' = pc /\ pc = "loop" /\ stack # <<>>
      /\ visited' = visited /\ list' = list /\ stack' = SubSeq(stack, 1, Len(stack) - 1)
  BY DEF Pop
<1>2. /\ list \in Seq(Vertex) /\ stack \in Seq(Vertex) /\ Nested /\ DepthFirst
      /\ DOMAIN list = 1 .. Len(list) /\ Len(list) \in Nat
      /\ Len(stack) \in Nat /\ DOMAIN stack = 1 .. Len(stack)
  BY <1>1, DFSFacts
<1>3. PICK by \in [DOMAIN stack -> 0 .. Len(list)] : PushedBy(by)
  BY <1>1, DFSFacts
<1>4. /\ \A i \in DOMAIN stack' : i \in DOMAIN stack /\ stack'[i] = stack[i]
      /\ \A i \in DOMAIN stack : i = Len(stack) \/ i \in DOMAIN stack'
  BY <1>1, <1>2, PopIndices
<1>5. PICK below \in [DOMAIN stack' -> 0 .. Len(list')] : \A p \in DOMAIN stack' : below[p] = by[p]
  <2> DEFINE f == [p \in DOMAIN stack' |-> by[p]]
  <2>1. f \in [DOMAIN stack' -> 0 .. Len(list')] /\ \A p \in DOMAIN stack' : f[p] = by[p]
    BY <1>1, <1>4
  <2> QED BY <2>1
<1>6. /\ \A p, q \in DOMAIN stack' : p <= q => below[p] <= below[q]
      /\ \A p \in DOMAIN stack' : IF below[p] = 0 THEN list' = <<>> /\ p = 1
                                  ELSE stack'[p] \in Elems(graph'[list'[below[p]]])
  BY <1>1, <1>3, <1>4, <1>5 DEF PushedBy, Edge
<1>7. ASSUME NEW a \in DOMAIN list, NEW j \in DOMAIN graph[list[a]], graph[list[a]][j] \notin visited
      PROVE  \E p \in DOMAIN stack' : stack'[p] = graph[list[a]][j] /\ below[p] >= a
  <2>1. PICK p \in DOMAIN stack : stack[p] = graph[list[a]][j] /\ by[p] >= a
    BY <1>1, <1>3, <1>7 DEF PushedBy
  <2>2. p \in DOMAIN stack'
    BY <1>4, <1>7, <2>1
  <2> QED BY <1>4, <1>5, <2>1, <2>2
<1>8. PushedBy(below)'
  BY <1>1, <1>5, <1>6, <1>7 DEF PushedBy, Edge
<1>9. Nested' /\ DepthFirst'
  BY <1>1, <1>2 DEF Nested, DepthFirst, Edge
<1> QED BY <1>1, <1>5, <1>8, <1>9 DEF StackOrder

\* Pop, of a vertex that is not: it was pushed by the last of the listed vertices that
\* have an unmarked neighbour, or by a later one.
LEMMA PopUnmarkedOrder ==
  ASSUME TypeOK, StackOrder, Pop, stack[Len(stack)] \notin visited
  PROVE  StackOrder'
<1> DEFINE u == stack[Len(stack)]
           n == Len(list)
<1>1. /\ graph' = graph /\ op' = op /\ op = "dfs" /\ pc = "loop" /\ pc' = "each" /\ stack # <<>>
      /\ visited' = visited \cup {u} /\ list' = Append(list, u) /\ cur' = u /\ k' = 1
      /\ stack' = SubSeq(stack, 1, Len(stack) - 1)
  BY DEF Pop
<1>2. /\ list \in Seq(Vertex) /\ stack \in Seq(Vertex) /\ Nested /\ DepthFirst
      /\ DOMAIN list = 1 .. n /\ n \in Nat
      /\ Len(stack) \in Nat /\ DOMAIN stack = 1 .. Len(stack)
  BY <1>1, DFSFacts
<1>3. PICK by \in [DOMAIN stack -> 0 .. n] : PushedBy(by)
  BY <1>1, DFSFacts
<1>4. /\ Len(stack) \in DOMAIN stack /\ u \in Vertex
      /\ \A i \in DOMAIN stack' : i \in DOMAIN stack /\ i < Len(stack) /\ stack'[i] = stack[i]
      /\ \A i \in DOMAIN stack : i = Len(stack) \/ i \in DOMAIN stack'
  BY <1>1, <1>2, PopIndices
<1>5. /\ list' \in Seq(Vertex) /\ Len(list') = n + 1 /\ DOMAIN list' = 1 .. (n + 1)
      /\ \A i \in DOMAIN list : list'[i] = list[i]
      /\ list'[n + 1] = u
  BY <1>1, <1>2, <1>4, AppendElems
<1>6. \A a \in DOMAIN list' : a \in DOMAIN list \/ a = n + 1
  BY <1>2, <1>5
<1>7. DOMAIN list \subseteq DOMAIN list'
  BY <1>2, <1>5
<1>8. u \notin visited
  OBVIOUS
<1>20. /\ \A p, q \in DOMAIN stack : p <= q => by[p] <= by[q]
       /\ \A p \in DOMAIN stack : IF by[p] = 0 THEN list = <<>> /\ p = 1
                                  ELSE Edge(list[by[p]], stack[p])
       /\ \A a \in DOMAIN list : \A j \in DOMAIN graph[list[a]] :
            graph[list[a]][j] \notin visited =>
              \E p \in DOMAIN stack : stack[p] = graph[list[a]][j] /\ by[p] >= a
  BY <1>1, <1>3 DEF PushedBy
<1> DEFINE top == Len(stack)
<1> HIDE DEF u, n
<1>9. PICK below \in [DOMAIN stack' -> 0 .. (n + 1)] : \A p \in DOMAIN stack' : below[p] = by[p]
  <2> DEFINE f == [p \in DOMAIN stack' |-> by[p]]
  <2>1. \A p \in DOMAIN stack' : by[p] \in 0 .. (n + 1)
    BY <1>2, <1>3, <1>4
  <2>2. f \in [DOMAIN stack' -> 0 .. (n + 1)] /\ \A p \in DOMAIN stack' : f[p] = by[p]
    BY <2>1
  <2> QED BY <2>2
<1>10. \A p \in DOMAIN stack' : by[p] # 0
  <2> SUFFICES ASSUME NEW p \in DOMAIN stack', by[p] = 0 PROVE FALSE
    OBVIOUS
  <2>1. list = <<>> /\ p = 1 /\ p \in DOMAIN stack /\ p < Len(stack)
    BY <1>4, <1>20
  <2>2. n = 0 /\ 2 \in DOMAIN stack
    BY <1>2, <2>1 DEF n
  <2>3. by[2] = 0
    BY <1>3, <2>2
  <2> QED BY <1>20, <2>2, <2>3
<1>11. /\ \A p, q \in DOMAIN stack' : p <= q => below[p] <= below[q]
       /\ \A p \in DOMAIN stack' : below[p] # 0 /\ stack'[p] \in Elems(graph'[list'[below[p]]])
  <2>1. \A p \in DOMAIN stack' : by[p] \in DOMAIN list
    BY <1>2, <1>3, <1>4, <1>10
  <2> QED BY <1>1, <1>4, <1>5, <1>9, <1>10, <1>20, <2>1 DEF Edge
<1>12. ASSUME NEW a \in DOMAIN list', NEW j \in DOMAIN graph[list'[a]],
              graph[list'[a]][j] \notin visited', a # n + 1
       PROVE  \E p \in DOMAIN stack' : stack'[p] = graph[list'[a]][j] /\ below[p] >= a
  <2>1. a \in DOMAIN list /\ list'[a] = list[a] /\ graph[list[a]][j] \notin visited
        /\ graph[list[a]][j] # u
    BY <1>1, <1>5, <1>6, <1>12
  <2>2. PICK p \in DOMAIN stack : stack[p] = graph[list[a]][j] /\ by[p] >= a
    BY <1>20, <1>12, <2>1
  <2>3. p \in DOMAIN stack'
    BY <1>4, <2>1, <2>2 DEF u
  <2> QED BY <1>4, <1>9, <2>1, <2>2, <2>3
<1>13. ASSUME NEW a \in DOMAIN list', NEW j \in DOMAIN graph[list'[a]], a = n + 1
       PROVE  j >= 1
  <2>1. DOMAIN graph[u] = 1 .. Len(graph[u]) /\ Len(graph[u]) \in Nat
    BY <1>4, Typed
  <2> QED BY <1>5, <1>13, <2>1
<1>14. PushedBy(below)'
  <2>1. ASSUME NEW a \in DOMAIN list', NEW j \in DOMAIN graph'[list'[a]]
        PROVE  \/ graph'[list'[a]][j] \in visited'
               \/ \E p \in DOMAIN stack' : stack'[p] = graph'[list'[a]][j] /\ below[p] >= a
               \/ pc' = "each" /\ a = Len(list') /\ j >= k'
    <3>1. graph'[list'[a]] = graph[list'[a]]
      BY <1>1
    <3>2. CASE a = n + 1
      BY <1>1, <1>5, <1>13, <3>1, <3>2
    <3>3. CASE a # n + 1
      BY <1>12, <3>1, <3>3
    <3> QED BY <3>2, <3>3
  <2>2. below \in [DOMAIN stack' -> 0 .. Len(list')]
    BY <1>5, <1>9
  <2> QED BY <1>11, <2>1, <2>2 DEF PushedBy, Edge
\* The vertex that pushed u is at least as late as any with an unmarked neighbour.
<1>15. ASSUME NEW a \in DOMAIN list, NEW j \in DOMAIN graph[list[a]], graph[list[a]][j] \notin visited
       PROVE  \E d \in a .. n : Edge(list[d], u)
  <2>1. PICK p \in DOMAIN stack : stack[p] = graph[list[a]][j] /\ by[p] >= a
    BY <1>20, <1>15
  <2>2. p \in Nat /\ p <= top /\ top \in DOMAIN stack
    BY <1>2, <1>4
  <2>3. by[p] <= by[top] /\ by[top] \in 0 .. n /\ by[p] \in 0 .. n
    BY <1>3, <1>20, <2>2
  <2>4. by[top] \in a .. n /\ by[top] # 0
    BY <1>2, <2>1, <2>3
  <2>5. Edge(list[by[top]], stack[top])
    BY <1>20, <2>2, <2>4
  <2> QED BY <2>4, <2>5 DEF u
<1>16. Nested'
  <2> SUFFICES ASSUME NEW a \in DOMAIN list', NEW b \in DOMAIN list', NEW j \in DOMAIN graph[list'[a]],
                      a < b, graph[list'[a]][j] \notin visited'
               PROVE  \E d \in a .. (b - 1) : list'[b] \in Elems(graph'[list'[d]])
    BY <1>1 DEF Nested, Edge
  <2>1. a \in DOMAIN list /\ list'[a] = list[a] /\ graph[list[a]][j] \notin visited
    BY <1>1, <1>2, <1>5, <1>6
  <2>2. CASE b = n + 1
    <3>1. PICK d \in a .. n : Edge(list[d], u)
      BY <1>15, <2>1
    <3>2. d \in DOMAIN list /\ d \in a .. (b - 1)
      BY <1>2, <2>1, <2>2, <3>1
    <3> QED BY <1>1, <1>5, <2>2, <3>1, <3>2 DEF Edge
  <2>3. CASE b # n + 1
    <3>1. b \in DOMAIN list
      BY <1>6, <2>3
    <3>2. PICK d \in a .. (b - 1) : Edge(list[d], list[b])
      BY <1>2, <2>1, <3>1 DEF Nested
    <3>3. d \in DOMAIN list
      BY <1>2, <2>1, <3>1, <3>2
    <3> QED BY <1>1, <1>5, <3>1, <3>2, <3>3 DEF Edge
  <2> QED BY <2>2, <2>3
<1>17. DepthFirst'
  <2> SUFFICES ASSUME NEW a \in DOMAIN list', NEW c \in DOMAIN list', NEW b \in (a + 1) .. (c - 1),
                      list'[c] \in Elems(graph'[list'[a]])
               PROVE  \E d \in a .. (b - 1) : list'[b] \in Elems(graph'[list'[d]])
    BY DEF DepthFirst, Edge
  <2>1. /\ a \in DOMAIN list /\ b \in DOMAIN list /\ list'[a] = list[a] /\ list'[b] = list[b]
        /\ a < b /\ b < c
    <3>1. a \in 1 .. (n + 1) /\ c \in 1 .. (n + 1)
      BY <1>5
    <3>2. a \in 1 .. n /\ b \in 1 .. n /\ a < b /\ b < c
      BY <1>2, <3>1
    <3> QED BY <1>2, <1>5, <3>2
  <2>2. Edge(list[a], list'[c])
    BY <1>1, <2>1 DEF Edge
  <2>3. \E d \in a .. (b - 1) : Edge(list[d], list[b])
    <3>1. CASE c = n + 1
      <4>1. PICK j \in DOMAIN graph[list[a]] : graph[list[a]][j] = u
        BY <1>5, <2>2, <3>1 DEF Edge, Elems
      <4> QED BY <1>2, <1>8, <2>1, <4>1 DEF Nested, u
    <3>2. CASE c # n + 1
      <4>1. c \in DOMAIN list
        BY <1>6, <3>2
      <4> QED BY <1>1, <1>2, <1>5, <2>1, <2>2, <4>1 DEF DepthFirst
    <3> QED BY <3>1, <3>2
  <2>4. PICK d \in a .. (b - 1) : Edge(list[d], list[b])
    BY <2>3
  <2>5. d \in DOMAIN list
    BY <1>2, <2>1, <2>4
  <2> QED BY <1>1, <1>5, <2>1, <2>4, <2>5 DEF Edge
<1>18. list' # <<>> /\ cur' = list'[Len(list')]
  BY <1>1, <1>5
<1>19. below \in [DOMAIN stack' -> 0 .. Len(list')]
  BY <1>5, <1>9
<1> QED BY <1>14, <1>16, <1>17, <1>18, <1>19 DEF StackOrder

\* Push: a vertex that is not marked is pushed by the last one in list.
LEMMA PushOrder ==
  ASSUME IInv, StackOrder, Push
  PROVE  StackOrder'
<1> DEFINE v == graph[cur][k]
           n == Len(list)
<1>1. /\ graph' = graph /\ op' = op /\ op = "dfs" /\ pc = "each" /\ pc' = "each"
      /\ visited' = visited /\ list' = list /\ cur' = cur /\ k' = k + 1
  BY DEF Push
<1>2. /\ TypeOK /\ Neighbours = graph[cur] /\ k \in DOMAIN graph[cur] /\ v \in Vertex /\ k \in Nat
  BY <1>1, NextNeighbour, Typed DEF Push, IInv
<1>3. stack' = IF v \in visited THEN stack ELSE Append(stack, v)
  BY <1>2 DEF Push
<1>4. /\ list \in Seq(Vertex) /\ stack \in Seq(Vertex) /\ Nested /\ DepthFirst
      /\ DOMAIN list = 1 .. n /\ n \in Nat /\ list # <<>> /\ cur = list[n] /\ n \in DOMAIN list
      /\ Len(stack) \in Nat /\ DOMAIN stack = 1 .. Len(stack)
  BY <1>1, <1>2, DFSFacts
<1>5. PICK by \in [DOMAIN stack -> 0 .. n] : PushedBy(by)
  BY <1>1, <1>2, DFSFacts
<1>6. /\ \A p, q \in DOMAIN stack : p <= q => by[p] <= by[q]
      /\ \A p \in DOMAIN stack : by[p] # 0 /\ Edge(list[by[p]], stack[p])
      /\ \A a \in DOMAIN list : \A j \in DOMAIN graph[list[a]] :
           \/ graph[list[a]][j] \in visited
           \/ \E p \in DOMAIN stack : stack[p] = graph[list[a]][j] /\ by[p] >= a
           \/ a = n /\ j >= k
  BY <1>1, <1>4, <1>5 DEF PushedBy
<1>7. Edge(list[n], v)
  BY <1>2, <1>4 DEF Edge, Elems
<1>8. \A a \in DOMAIN list : \A j \in DOMAIN graph[list[a]] :
        j \in Nat /\ (j >= k => j = k \/ j >= k + 1)
  <2>1. ASSUME NEW a \in DOMAIN list, NEW j \in DOMAIN graph[list[a]]
        PROVE  j \in Nat
    <3>1. list[a] \in Vertex
      BY <1>4
    <3>2. DOMAIN graph[list[a]] = 1 .. Len(graph[list[a]]) /\ Len(graph[list[a]]) \in Nat
      BY <1>2, <3>1, Typed
    <3> QED BY <3>2
  <2>2. \A j \in Nat : j >= k => j = k \/ j >= k + 1
    BY <1>2
  <2> QED BY <2>1, <2>2
<1>9. Nested' /\ DepthFirst'
  BY <1>1, <1>4 DEF Nested, DepthFirst, Edge
<1> HIDE DEF n
<1>10. CASE v \in visited
  <2>1. stack' = stack
    BY <1>3, <1>10
  <2>2. ASSUME NEW a \in DOMAIN list, NEW j \in DOMAIN graph[list[a]]
        PROVE  \/ graph[list[a]][j] \in visited
               \/ \E p \in DOMAIN stack : stack[p] = graph[list[a]][j] /\ by[p] >= a
               \/ a = n /\ j >= k + 1
    BY <1>4, <1>6, <1>8, <1>10
  <2>3. PushedBy(by)'
    BY <1>1, <1>5, <1>6, <2>1, <2>2 DEF PushedBy, Edge, n
  <2> QED BY <1>1, <1>4, <1>5, <1>9, <2>1, <2>3 DEF StackOrder, n
<1>11. CASE v \notin visited
  <2> DEFINE t == Len(stack) + 1
  <2>1. /\ stack' \in Seq(Vertex) /\ DOMAIN stack' = 1 .. t /\ stack'[t] = v
        /\ \A p \in DOMAIN stack : stack'[p] = stack[p]
    BY <1>2, <1>3, <1>4, <1>11, AppendElems
  <2>2. /\ t \notin DOMAIN stack /\ t \in DOMAIN stack'
        /\ \A p \in DOMAIN stack : p \in DOMAIN stack' /\ p < t
        /\ \A p \in DOMAIN stack' : p \in DOMAIN stack \/ p = t
    BY <1>4, <2>1
  <2> HIDE DEF t, v
  <2>3. PICK up \in [DOMAIN stack' -> 0 .. n] :
          up[t] = n /\ \A p \in DOMAIN stack : up[p] = by[p]
    <3> DEFINE f == [p \in DOMAIN stack' |-> IF p = t THEN n ELSE by[p]]
    <3>1. \A p \in DOMAIN stack' : (IF p = t THEN n ELSE by[p]) \in 0 .. n
      BY <1>4, <1>5, <2>2
    <3>2. f \in [DOMAIN stack' -> 0 .. n] /\ f[t] = n /\ \A p \in DOMAIN stack : f[p] = by[p]
      BY <2>2, <3>1
    <3> QED BY <3>2
  <2>4. ASSUME NEW p \in DOMAIN stack', NEW q \in DOMAIN stack', p <= q
        PROVE  up[p] <= up[q]
    <3>1. CASE q = t
      BY <1>4, <2>3, <3>1
    <3>2. CASE q # t
      <4>1. q \in DOMAIN stack /\ p \in DOMAIN stack
        BY <1>4, <2>1, <2>2, <2>4, <3>2 DEF t
      <4> QED BY <1>6, <2>3, <2>4, <4>1
    <3> QED BY <3>1, <3>2
  <2>5. \A p \in DOMAIN stack' : up[p] # 0 /\ Edge(list[up[p]], stack'[p])
    BY <1>4, <1>6, <1>7, <2>1, <2>2, <2>3
  <2>6. ASSUME NEW a \in DOMAIN list, NEW j \in DOMAIN graph[list[a]]
        PROVE  \/ graph[list[a]][j] \in visited
               \/ \E p \in DOMAIN stack' : stack'[p] = graph[list[a]][j] /\ up[p] >= a
               \/ a = n /\ j >= k + 1
    <3>1. CASE a = n /\ j = k
      <4>1. stack'[t] = graph[list[a]][j] /\ up[t] >= a
        BY <1>4, <2>1, <2>3, <3>1 DEF v
      <4> QED BY <2>2, <4>1
    <3>2. CASE ~(a = n /\ j = k)
      BY <1>6, <1>8, <2>1, <2>2, <2>3, <3>2
    <3> QED BY <3>1, <3>2
  <2>7. PushedBy(up)'
    BY <1>1, <2>3, <2>4, <2>5, <2>6 DEF PushedBy, Edge, n
  <2> QED BY <1>1, <1>4, <1>9, <2>3, <2>7 DEF StackOrder, n
<1> QED BY <1>10, <1>11

\* EndEach: all the neighbours of cur are marked or on the stack.
LEMMA EndEachOrder ==
  ASSUME IInv, StackOrder, EndEach
  PROVE  StackOrder'
<1>1. /\ graph' = graph /\ op' = op /\ pc = "each" /\ pc' = "loop" /\ cur' = cur /\ k' = k
      /\ visited' = visited /\ list' = list /\ stack' = stack /\ k > Len(Neighbours)
  BY DEF EndEach, scratch
<1> SUFFICES ASSUME op = "dfs" PROVE StackOrder'
  BY <1>1 DEF StackOrder
<1>2. /\ list # <<>> /\ cur = list[Len(list)] /\ Nested /\ DepthFirst
  BY <1>1 DEF StackOrder
<1>3. PICK by \in [DOMAIN stack -> 0 .. Len(list)] : PushedBy(by)
  BY DEF StackOrder
<1>4. \A j \in DOMAIN graph[cur] : ~(j >= k)
  <2>1. Neighbours = graph[cur] /\ TypeOK
    BY <1>1 DEF IInv, Walking
  <2>2. DOMAIN graph[cur] = 1 .. Len(graph[cur]) /\ Len(graph[cur]) \in Nat /\ k \in Nat
    BY <2>1, Typed
  <2> QED BY <1>1, <2>1, <2>2
<1>5. PushedBy(by)'
  BY <1>1, <1>2, <1>3, <1>4 DEF PushedBy, Edge
<1>6. Nested' /\ DepthFirst'
  BY <1>1, <1>2 DEF Nested, DepthFirst, Edge
<1> QED BY <1>1, <1>2, <1>3, <1>5, <1>6 DEF StackOrder

\* Every step keeps the order of DFS.
LEMMA NextStackOrder == IInv /\ StackOrder /\ [Next]_vars => StackOrder'
<1> SUFFICES ASSUME IInv, StackOrder, [Next]_vars PROVE StackOrder'
  OBVIOUS
<1>1. TypeOK
  BY DEF IInv
<1>2. ASSUME NEW s \in Vertex, Query(s)
      PROVE  StackOrder'
  <2>1. CASE BeginDFS(s)
    BY <1>1, <2>1, BeginDFSOrder
  <2>2. CASE ~BeginDFS(s)
    <3>1. op' # "dfs"
      BY <1>2, <2>2 DEF Query, BeginBFS, BeginNeighbors, BeginNeighborsBatch, Begin
    <3> QED BY <3>1 DEF StackOrder
  <2> QED BY <2>1, <2>2
<1>3. CASE Pop \/ Push \/ EndEach
  BY <1>1, <1>3, PopMarkedOrder, PopUnmarkedOrder, PushOrder, EndEachOrder
<1>4. CASE Dequeue \/ Visit \/ SumInAcc \/ SumBuffer \/ EndTraversal \/ EndLookup
  <2>1. op' # "dfs"
    BY <1>4 DEF Dequeue, Visit, SumInAcc, SumBuffer, EndTraversal, EndLookup, Finish
  <2> QED BY <2>1 DEF StackOrder
<1>5. CASE UNCHANGED vars
  <2>1. /\ graph' = graph /\ op' = op /\ pc' = pc /\ cur' = cur /\ k' = k
        /\ visited' = visited /\ list' = list /\ stack' = stack
    BY <1>5 DEF vars, scratch
  <2> QED BY <2>1 DEF StackOrder, PushedBy, Nested, DepthFirst, Edge
<1> QED BY <1>2, <1>3, <1>4, <1>5 DEF Next, Work

\* DFS visits in a depth-first order although it marks when it pops, on every graph and
\* whatever the order of the neighbours: traverse.go:96-110.
THEOREM VisitsDepthFirst == Spec => []DepthFirst
<1>1. Init => StackOrder
  BY DEF Init, StackOrder
<1>2. StackOrder => DepthFirst
  BY DEF StackOrder, DepthFirst
<1> QED BY <1>1, <1>2, NextStackOrder, Invariant, PTL DEF Spec

-----------------------------------------------------------------------------
(* The order of BFS. *)

\* Distances: Within is the function its equations describe.
Layered ==
  /\ Within[0] = {src}
  /\ \A d \in Nat : Within[d + 1] = Within[d] \cup UNION {Elems(graph[u]) : u \in Within[d]}

LEMMA WithinFacts == graph \in Graphs /\ src \in Vertex => Layered
<1> SUFFICES ASSUME graph \in Graphs, src \in Vertex PROVE Layered
  OBVIOUS
<1> DEFINE step == [d \in Nat |-> [X \in SUBSET Vertex |->
                      X \cup UNION {Elems(graph[u]) : u \in X}]]
<1>1. \A u \in Vertex : Elems(graph[u]) \subseteq Vertex
  BY GraphType DEF Elems
<1>2. step \in [Nat -> [SUBSET Vertex -> SUBSET Vertex]]
  <2>1. \A X \in SUBSET Vertex : X \cup UNION {Elems(graph[u]) : u \in X} \in SUBSET Vertex
    BY <1>1
  <2> QED BY <2>1
<1>3. {src} \in SUBSET Vertex
  OBVIOUS
<1>4. PICK f \in [Nat -> SUBSET Vertex] :
        f[0] = {src} /\ \A d \in Nat : f[d + 1] = step[d][f[d]]
  <2>1. Recursion(SUBSET Vertex, {src}, step)
    <3> HIDE DEF step
    <3> QED BY <1>2, <1>3 DEF Recursion
  <2> HIDE DEF step
  <2>2. \E f : Solves(f, SUBSET Vertex, {src}, step)
    BY <2>1, RecursiveFunction
  <2> QED BY <2>2 DEF Solves
<1>5. \A d \in Nat : f[d + 1] = f[d] \cup UNION {Elems(graph[u]) : u \in f[d]}
  BY <1>4
<1>6. f = [d \in Nat |-> IF d = 0 THEN {src}
             ELSE f[d - 1] \cup UNION {Elems(graph[u]) : u \in f[d - 1]}]
  <2>1. ASSUME NEW d \in Nat, d # 0
        PROVE  f[d] = f[d - 1] \cup UNION {Elems(graph[u]) : u \in f[d - 1]}
    <3>1. d - 1 \in Nat /\ (d - 1) + 1 = d
      BY <2>1
    <3> QED BY <1>5, <3>1
  <2> QED BY <1>4, <2>1
<1>7. Within = [d \in Nat |-> IF d = 0 THEN {src}
                  ELSE Within[d - 1] \cup UNION {Elems(graph[u]) : u \in Within[d - 1]}]
  BY <1>6 DEF Within
<1>8. \A d \in Nat : d + 1 \in Nat /\ d + 1 # 0 /\ (d + 1) - 1 = d
  OBVIOUS
<1> HIDE DEF step
<1> QED BY <1>7, <1>8 DEF Layered

LEMMA WithinSame ==
  ASSUME graph' = graph, src' = src
  PROVE  Within' = Within
BY DEF Within

\* No vertex that is still to be expanded is nearer than the head of the queue.
LEMMA HeadNearest ==
  ASSUME TypeOK, VisitedIsList, QueueClosed, QueueOrder, op \in BFSOps, head \in DOMAIN list,
         NEW d \in Nat, NEW u \in Within[d],
         \A i \in DOMAIN list : i < head => list[i] # u
  PROVE  list[head] \in Within[d]
<1> DEFINE Waiting(w) == \A i \in DOMAIN list : i < head => list[i] # w
           S == {e \in Nat : \A w \in Within[e] : Waiting(w) => list[head] \in Within[e]}
<1>1. /\ Within[0] = {src}
      /\ \A e \in Nat :
           Within[e + 1] = Within[e] \cup UNION {Elems(graph[w]) : w \in Within[e]}
  BY WithinFacts DEF TypeOK, Layered
<1>2. /\ list[1] = src /\ \A i, j \in DOMAIN list : i <= j => NotFarther(list[i], list[j])
      /\ list \in Seq(Vertex) /\ head \in Nat \ {0}
  BY DEF QueueOrder, ByDistance, TypeOK
<1>3. 0 \in S
  <2> SUFFICES ASSUME Waiting(src) PROVE list[head] = src
    BY <1>1
  <2>1. 1 \in DOMAIN list /\ ~(1 < head)
    BY <1>2
  <2>2. head = 1
    BY <1>2, <2>1
  <2> QED BY <1>2, <2>2
<1>4. ASSUME NEW e \in Nat, e \in S
      PROVE  e + 1 \in S
  <2> SUFFICES ASSUME NEW w \in Within[e + 1], Waiting(w)
               PROVE  list[head] \in Within[e + 1]
    OBVIOUS
  <2>1. Within[e] \subseteq Within[e + 1]
    BY <1>1
  <2>2. CASE w \in Within[e]
    BY <1>4, <2>1, <2>2
  <2>3. CASE w \notin Within[e]
    <3>1. PICK x \in Within[e] : w \in Elems(graph[x])
      BY <1>1, <2>3
    <3>2. CASE Waiting(x)
      BY <1>4, <2>1, <3>2
    <3>3. CASE ~Waiting(x)
      <4>1. PICK i \in DOMAIN list : i < head /\ list[i] = x
        BY <3>3
      <4>2. w \in visited
        BY <3>1, <4>1 DEF QueueClosed
      <4>3. PICK j \in DOMAIN list : list[j] = w
        BY <4>2 DEF VisitedIsList, Elems
      <4>4. head <= j
        BY <1>2, <4>3
      <4>5. NotFarther(list[head], w)
        BY <1>2, <4>3, <4>4
      <4> QED BY <4>5 DEF NotFarther
    <3> QED BY <3>2, <3>3
  <2> QED BY <2>2, <2>3
<1>5. d \in S
  <2> HIDE DEF S
  <2> QED BY <1>3, <1>4, SetInduction
<1> QED BY <1>5

\* A vertex that is not marked yet is farther than the head, and hence not nearer than
\* anything in the queue.
LEMMA UnmarkedFarther ==
  ASSUME TypeOK, VisitedIsList, QueueClosed, QueueOrder, op \in BFSOps, head \in DOMAIN list,
         NEW v \in Vertex \ visited, NEW i \in DOMAIN list
  PROVE  NotFarther(list[i], v)
<1>1. /\ Within[0] = {src}
      /\ \A e \in Nat :
           Within[e + 1] = Within[e] \cup UNION {Elems(graph[w]) : w \in Within[e]}
  BY WithinFacts DEF TypeOK, Layered
<1>2. visited = Elems(list)
  BY DEF VisitedIsList
<1> SUFFICES ASSUME NEW d \in Nat, v \in Within[d] PROVE list[i] \in Within[d]
  BY DEF NotFarther
<1>3. d # 0
  BY <1>1 DEF QueueClosed
<1>4. PICK e \in Nat : d = e + 1
  <2>1. d - 1 \in Nat /\ d = (d - 1) + 1
    BY <1>3
  <2> QED BY <2>1
<1>5. list[head] \in Within[e]
  <2>1. CASE v \in Within[e]
    <3>1. \A j \in DOMAIN list : list[j] # v
      BY <1>2 DEF Elems
    <3> QED BY <2>1, <3>1, HeadNearest
  <2>2. CASE v \notin Within[e]
    <3>1. PICK w \in Within[e] : v \in Elems(graph[w])
      BY <1>1, <1>4, <2>2
    <3>2. \A j \in DOMAIN list : j < head => list[j] # w
      BY <3>1 DEF QueueClosed
    <3> QED BY <3>1, <3>2, HeadNearest
  <2> QED BY <2>1, <2>2
<1> QED BY <1>4, <1>5 DEF QueueOrder, ByDistance

\* The queue grows, or its head advances, while the graph and the source stay.
LEMMA KeepsOrder ==
  ASSUME graph' = graph, src' = src, op' = op, list' # <<>>, list'[1] = list[1],
         QueueOrder, op \in BFSOps => ByDistance(list', head')
  PROVE  QueueOrder'
<1> SUFFICES ASSUME op \in BFSOps PROVE QueueOrder'
  BY DEF QueueOrder, BFSOps
<1>1. PICK l, h : l = list' /\ h = head'
  OBVIOUS
<1>2. ByDistance(l, h)
  BY <1>1
<1>3. ByDistance(l, h)'
  BY <1>2, WithinSame DEF ByDistance, NotFarther
<1>4. ByDistance(list, head)'
  BY <1>1, <1>3
<1> QED BY <1>4 DEF QueueOrder

LEMMA BeginBFSOrder ==
  ASSUME IInv, NEW o, NEW s \in Vertex, BeginBFS(o, s)
  PROVE  QueueOrder'
<1>1. list' = <<s>> /\ src' = s /\ graph' = graph /\ head' = 1
  BY DEF BeginBFS, Begin
<1>2. /\ Within'[0] = {src'}
      /\ \A e \in Nat :
           Within'[e + 1] = Within'[e] \cup UNION {Elems(graph'[w]) : w \in Within'[e]}
  <2>1. (graph \in Graphs /\ src \in Vertex => Layered)'
    BY WithinFacts, PTL
  <2>2. graph' \in Graphs /\ src' \in Vertex'
    BY <1>1 DEF IInv, TypeOK, Vertex
  <2> QED BY <2>1, <2>2 DEF Layered, Elems
<1>3. DOMAIN list' = {1} /\ list'[1] = s /\ list' # <<>>
  BY <1>1
<1>4. \A e \in Nat : s \in Within'[e] => s \in Within'[e + 1]
  BY <1>2
<1> QED BY <1>1, <1>3, <1>4 DEF QueueOrder, ByDistance, NotFarther

LEMMA VisitOrder ==
  ASSUME IInv, QueueOrder, Visit
  PROVE  QueueOrder'
<1> DEFINE v == Neighbours[k]
<1>1. /\ TypeOK /\ VisitedIsList /\ QueueClosed /\ Walking
      /\ list \in Seq(Vertex) /\ op \in BFSOps
      /\ graph' = graph /\ src' = src /\ op' = op /\ head' = head
  BY DEF IInv, TypeOK, Visit, BFSOps
<1>2. head \in DOMAIN list /\ cur = list[head]
  BY <1>1 DEF QueueClosed, TypeOK, Visit
<1>3. v \in Elems(graph[list[head]]) /\ v \in Vertex
  <2>1. k <= Len(graph[cur]) /\ Neighbours = graph[cur] /\ k \in Nat \ {0} /\ cur \in Vertex
    BY <1>1 DEF Visit, Walking, TypeOK
  <2>2. graph[cur] \in Seq(Vertex)
    BY <1>1, <2>1, GraphType DEF TypeOK
  <2>3. k \in DOMAIN graph[cur] /\ graph[cur][k] \in Vertex
    BY <2>1, <2>2
  <2> QED BY <1>2, <2>1, <2>3 DEF Elems
<1>4. \/ list' = list
      \/ v \notin visited /\ list' = Append(list, v)
  BY DEF Visit
<1> HIDE DEF v
<1>5. CASE list' = list
  BY <1>1, <1>5, KeepsOrder DEF QueueOrder
<1>6. CASE v \notin visited /\ list' = Append(list, v)
  <2>1. PICK n \in Nat : n = Len(list)
    BY <1>1
  <2>2. /\ DOMAIN list = 1 .. n /\ DOMAIN list' = 1 .. (n + 1) /\ list'[n + 1] = v
        /\ \A i \in 1 .. n : list'[i] = list[i]
    BY <1>1, <1>3, <1>6, <2>1
  <2>3. \A i \in DOMAIN list : NotFarther(list[i], v)
    BY <1>1, <1>2, <1>3, <1>6, UnmarkedFarther
  <2>4. \A d \in Nat : list[head] \in Within[d] => v \in Within[d + 1]
    <3>1. \A d \in Nat :
            Within[d + 1] = Within[d] \cup UNION {Elems(graph[w]) : w \in Within[d]}
      BY <1>1, WithinFacts DEF TypeOK, Layered
    <3> SUFFICES ASSUME NEW d \in Nat, list[head] \in Within[d] PROVE v \in Within[d + 1]
      OBVIOUS
    <3>2. v \in UNION {Elems(graph[w]) : w \in Within[d]}
      BY <1>3
    <3> QED BY <3>1, <3>2
  <2>5. ByDistance(list, head)
    BY <1>1 DEF QueueOrder
  <2>6. /\ \A i \in 1 .. (n + 1) : i \in 1 .. n \/ i = n + 1
        /\ \A i \in 1 .. n : ~(n + 1 <= i)
    OBVIOUS
  <2>7. \A i, j \in DOMAIN list' : i <= j => NotFarther(list'[i], list'[j])
    <3>1. NotFarther(v, v)
      BY DEF NotFarther
    <3> QED BY <2>2, <2>3, <2>5, <2>6, <3>1 DEF ByDistance
  <2>8. \A i \in DOMAIN list', d \in Nat : list'[head] \in Within[d] => list'[i] \in Within[d + 1]
    BY <1>2, <2>2, <2>4, <2>5, <2>6 DEF ByDistance
  <2>9. list' # <<>> /\ list'[1] = list[1]
    BY <1>2, <2>2
  <2>10. ByDistance(list', head')
    BY <1>1, <2>7, <2>8 DEF ByDistance
  <2> QED BY <1>1, <2>9, <2>10, KeepsOrder
<1> QED BY <1>4, <1>5, <1>6

LEMMA NextQueueOrder == IInv /\ QueueOrder /\ [Next]_vars => QueueOrder'
<1> SUFFICES ASSUME IInv, QueueOrder, [Next]_vars PROVE QueueOrder'
  OBVIOUS
<1>1. ASSUME op' \notin BFSOps
      PROVE  QueueOrder'
  BY <1>1 DEF QueueOrder, BFSOps
<1>2. ASSUME graph' = graph, src' = src, op' = op, list' = list, head' = head
      PROVE  QueueOrder'
  <2>1. CASE op \in BFSOps
    BY <1>2, <2>1, KeepsOrder DEF QueueOrder
  <2>2. CASE op \notin BFSOps
    BY <1>1, <1>2, <2>2
  <2> QED BY <2>1, <2>2
<1>3. ASSUME NEW s \in Vertex, Query(s)
      PROVE  QueueOrder'
  <2>1. ASSUME NEW o, BeginBFS(o, s)
        PROVE  QueueOrder'
    BY <2>1, BeginBFSOrder
  <2>2. CASE BeginDFS(s) \/ BeginNeighbors(s) \/ BeginNeighborsBatch(s)
    BY <1>1, <2>2 DEF BeginDFS, BeginNeighbors, BeginNeighborsBatch, Begin, BFSOps
  <2> QED BY <1>3, <2>1, <2>2 DEF Query
<1>4. CASE Dequeue \/ SumInAcc \/ SumBuffer \/ UNCHANGED vars
  BY <1>2, <1>4 DEF Dequeue, SumInAcc, SumBuffer, vars, scratch
<1>5. CASE Pop \/ Push
  BY <1>1, <1>5 DEF Pop, Push, BFSOps
<1>6. CASE EndTraversal \/ EndLookup
  BY <1>1, <1>6 DEF EndTraversal, EndLookup, Finish, BFSOps
<1>7. CASE EndEach
  <2>1. graph' = graph /\ src' = src /\ op' = op /\ list' = list
    BY <1>7 DEF EndEach, scratch
  <2>2. CASE op \notin BFSOps
    BY <1>1, <2>1, <2>2
  <2>3. CASE op \in BFSOps
    <3>1. head' = head + 1 /\ head \in DOMAIN list /\ head \in Nat
      BY <1>7, <2>3 DEF EndEach, IInv, QueueClosed, TypeOK, BFSOps
    <3>2. ByDistance(list, head) /\ list # <<>>
      BY <2>3 DEF QueueOrder
    <3>3. ByDistance(list, head + 1)
      BY <3>1, <3>2 DEF ByDistance, NotFarther
    <3> QED BY <2>1, <3>1, <3>2, <3>3, KeepsOrder
  <2> QED BY <2>2, <2>3
<1> QED BY <1>3, <1>4, <1>5, <1>6, <1>7, VisitOrder DEF Next, Work

\* What is not farther is not deeper.
LEMMA NotDeeper ==
  ASSUME TypeOK, NEW u, NEW v, NotFarther(u, v)
  PROVE  Depth(u) <= Depth(v)
<1> DEFINE N == Cardinality(Vertex)
           A(w) == {d \in 0 .. N : w \notin Within[d]}
<1>1. N \in Nat
  BY GraphType, FS_CardinalityType DEF TypeOK
<1>2. IsFiniteSet(0 .. N)
  BY <1>1, FS_Interval
<1>3. A(u) \subseteq A(v) /\ A(v) \subseteq 0 .. N
  BY <1>1 DEF NotFarther
<1>4. IsFiniteSet(A(v))
  BY <1>2, <1>3, FS_Subset
<1>5. Cardinality(A(u)) <= Cardinality(A(v))
  <2> HIDE DEF A
  <2> QED BY <1>3, <1>4, FS_Subset
<1> QED BY <1>5 DEF Depth

\* BFS and BFSBatch visit by increasing distance whatever the graph, the source and the
\* queries served before: traverse.go:74-94, 116-134.
THEOREM VisitsBreadthFirst == Spec => []BreadthFirst
<1>1. Init => QueueOrder
  BY DEF Init, QueueOrder, BFSOps
<1>2. IInv /\ QueueOrder => BreadthFirst
  <2> SUFFICES ASSUME IInv, QueueOrder, op \in BFSOps, NEW i \in 1 .. (Len(list) - 1)
               PROVE  Depth(list[i]) <= Depth(list[i + 1])
    BY DEF BreadthFirst, BFSOps
  <2>1. TypeOK /\ list \in Seq(Vertex)
    BY DEF IInv, TypeOK
  <2>2. i \in DOMAIN list /\ i + 1 \in DOMAIN list /\ i <= i + 1
    BY <2>1
  <2>3. NotFarther(list[i], list[i + 1])
    BY <2>2 DEF QueueOrder, ByDistance
  <2> QED BY <2>1, <2>3, NotDeeper
<1> QED BY <1>1, <1>2, NextQueueOrder, Invariant, PTL DEF Spec
=============================================================================
