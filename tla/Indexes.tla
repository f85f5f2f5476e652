------------------------------ MODULE Indexes ------------------------------
(***************************************************************************)
(* The structures of package graph behind their common interface: one of   *)
(* them is built from a list of edges, then asked.  Each structure is a    *)
(* module with variables of its own; n, edges and the iteration are shared.*)
(* csr and hybrid have modules and runs of their own.                      *)
(*                                                                         *)
(* Under the name "slices", callers hold slices that an index handed out.  *)
(***************************************************************************)
EXTENDS EdgeKeys, FiniteSetsExt

CONSTANTS
  Inputs,              \* records [n, list]; the list may hold an edge several times
  Base,                \* of the digits of varint-csr
  WordBits, MaxWords,  \* of bitmatrix
  Slack,               \* bound on what an append adds to a capacity
  Adjacency, Callers,  \* the index whose slices are handed out, and who holds them
  MaxLen, MaxNew       \* bounds of SharedSlices

ASSUME IndexesAssumption ==
  /\ \A x \in Inputs : /\ x.n \in 0 .. Radix
                       /\ x.list \in Seq([from : 0 .. (x.n - 1), to : 0 .. (x.n - 1)])
  /\ Base \in Nat \ {0, 1} /\ WordBits \in Nat \ {0} /\ {MaxWords, Slack} \subseteq Nat
  /\ Adjacency \in Seq(Seq(Nat))

VARIABLES
  name,                                       \* the structure
  list, n, edges,                             \* before Dedup; what the constructor gets
  phase, asked, sent, more,                   \* the iteration, as in module Iteration
  at,                                         \* a cursor of edgelist and of the lists
  keys,                                       \* edgelist
  offsets, data, block, left, cur,            \* varint-csr
  m, bits, i, w,                              \* bitmatrix
  deg, adj, moved, unsorted,                  \* adjlist, adjlist-exact, adjmap
  owner, mem, slices, held, copied, wrote     \* the slices handed out

byteVars == <<offsets, data, block, left, cur>>
bitVars == <<m, bits, i, w>>
listVars == <<deg, adj, moved, unsorted>>
sliceVars == <<owner, mem, slices, held, copied, wrote>>
shared == <<n, edges, phase, asked, sent, more, at>>
vars == <<name, list, shared, keys, byteVars, bitVars, listVars, sliceVars>>

EL == INSTANCE EdgeList
VC == INSTANCE VarintCSR
BM == INSTANCE BitMatrix
AL == INSTANCE AdjLists
SL == INSTANCE SharedSlices

Lists3 == {"adjlist", "adjlist-exact", "adjmap"}
Builders == {"edgelist", "varint-csr", "bitmatrix"} \cup Lists3
Vertex == 0 .. (n - 1)

Init ==
  /\ \/ /\ name \in Builders
        /\ \E x \in Inputs : n = x.n /\ list = x.list
        /\ edges \in Arguments(list)
        /\ phase = (CASE name = "adjlist-exact" -> "count"
                      [] name \in {"adjlist", "adjmap"} -> "append"
                      [] OTHER -> "build")
        /\ owner = "" /\ mem = <<>> /\ slices = <<>> /\ held = <<>> /\ copied = <<>>
        /\ wrote = <<>>
     \/ /\ name = "slices" /\ n = 0 /\ list = <<>> /\ edges = <<>> /\ phase = "build"
        /\ SL!Init
  /\ asked = 0 /\ sent = <<>> /\ more = TRUE
  /\ EL!Init /\ VC!Init /\ BM!Init /\ AL!Init

Next ==
  \/ /\ name = "edgelist" /\ EL!Next
     /\ UNCHANGED <<name, list, byteVars, bitVars, listVars, sliceVars>>
  \/ /\ name = "varint-csr" /\ VC!Next
     /\ UNCHANGED <<name, list, at, keys, bitVars, listVars, sliceVars>>
  \/ /\ name = "bitmatrix" /\ BM!Next
     /\ UNCHANGED <<name, list, at, keys, byteVars, listVars, sliceVars>>
  \/ /\ name \in Lists3 /\ AL!Next
     /\ UNCHANGED <<list, keys, byteVars, bitVars, sliceVars>>
  \/ /\ name = "slices" /\ SL!Next
     /\ UNCHANGED <<name, list, shared, keys, byteVars, bitVars, listVars>>

\* An iteration that has begun goes on: it is a loop of one goroutine, without a lock.
Spec == Init /\ [][Next]_vars /\ WF_vars(phase = "running" /\ Next)

-----------------------------------------------------------------------------
(* The interface Graph: each method as the structure has it. *)

Degree(u) ==
  CASE name = "edgelist"   -> EL!Degree(u)
    [] name = "varint-csr" -> VC!Degree(u)
    [] name = "bitmatrix"  -> BM!Degree(u)
    [] name \in Lists3     -> AL!Degree(u)

AppendNeighbors(u) ==
  CASE name = "edgelist"   -> EL!AppendNeighbors(<<>>, u)
    [] name = "varint-csr" -> VC!AppendNeighbors(<<>>, u)
    [] name = "bitmatrix"  -> BM!AppendNeighbors(<<>>, u)
    [] name \in Lists3     -> AL!Neighbors(u)

HasEdge(u, v) ==
  CASE name = "edgelist"   -> EL!HasEdge(u, v)
    [] name = "varint-csr" -> VC!HasEdge(u, v)
    [] name = "bitmatrix"  -> BM!HasEdge(u, v)
    [] name \in Lists3     -> AL!HasEdge(u, v)

-----------------------------------------------------------------------------
\* The structures answer the same: degrees, neighbours and HasEdge are those of the list as
\* it was before Dedup, each edge once (graph.go:16-21, 41-62), for the last vertex that a
\* key or a row can name as for the others, whatever the order of the edges.
ContractHolds ==
  phase = "ready" =>
    \A u \in Vertex :
      LET Neighbors == {v \in Vertex : Linked(list, u, v)}
      IN /\ Degree(u) = Cardinality(Neighbors)
         /\ Ascending(AppendNeighbors(u)) /\ Len(AppendNeighbors(u)) = Degree(u)
         /\ ToSet(AppendNeighbors(u)) = Neighbors
         /\ \A v \in Vertex : HasEdge(u, v) <=> v \in Neighbors

\* The callback of ForEachNeighbor receives the neighbours in order, each one once, and
\* nothing after it returned false, also in the middle of a word, of a block of gaps or of
\* a list (edgelist.go:54-64, varintcsr.go:58-75, bitmatrix.go:51-61, adjlist.go:61-67).
Iter == INSTANCE Iteration WITH
          phase <- IF phase \in {"ready", "running", "returned"} THEN phase ELSE "build"
ImplementsIteration == Iter!Spec

\* The sizes that the benchmark compares have no slack: a block of varint-csr ends where
\* the next one starts (varintcsr.go:31-45); bitmatrix refuses exactly the matrices above
\* its limit, and sets one bit per edge (bitmatrix.go:22-31); a list of adjlist-exact is
\* never moved and is full (adjlist.go:30-50).
BlocksExact == \A u \in Vertex : VC!Decode(u)[Degree(u)].rest = <<>>

MatrixExact ==
  LET size == n * ((n \div WordBits) + IF n % WordBits = 0 THEN 0 ELSE 1)
  IN /\ phase = "refused" => size > MaxWords
     /\ Cardinality(DOMAIN bits) = (IF phase \in {"build", "refused"} THEN 0 ELSE size)
     /\ Cardinality(DOMAIN bits) <= MaxWords
     /\ phase = "ready" => MapThenSumSet(Degree, Vertex) = m

ListsExact ==
  /\ moved = 0
  /\ phase = "ready" => \A u \in Vertex : adj[u].cap = Len(adj[u].items)

SizesExact ==
  /\ name = "varint-csr" /\ phase = "ready" => BlocksExact
  /\ name = "bitmatrix" => MatrixExact
  /\ name = "adjlist-exact" => ListsExact

\* Whatever callers append to the slices they hold, the index still lists its neighbours,
\* thanks to the third index of csr-slices (csr.go:86-90), and with exact capacities the
\* callers never see each other's appends.
SlicesSafe == name = "slices" => SL!IndexIntact /\ SL!CallersIndependent
=============================================================================
