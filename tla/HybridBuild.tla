---------------------------- MODULE HybridBuild ----------------------------
(***************************************************************************)
(* NewHybrid (graph/hybrid.go): the vertices of high degree get a bitmap   *)
(* row, within a budget; the edges of the others go to a CSR, built by     *)
(* the same buildCSRArrays as the CSR index.                               *)
(*                                                                         *)
(* A machine word is the set of its bits that are set.  WordBits is 64 in  *)
(* the code, where a target takes half a word.                             *)
(***************************************************************************)
EXTENDS GraphContract

CONSTANTS
  Inputs,     \* the arguments: records [n, edges], without duplicate edges
  WordBits    \* bits in a word

ASSUME HybridAssumption ==
  /\ WordBits \in Nat \ {0} /\ WordBits % 2 = 0
  /\ \A x \in Inputs :
       /\ x.n \in Nat
       /\ x.edges \in Seq([from : 0 .. (x.n - 1), to : 0 .. (x.n - 1)])
       /\ \A j, l \in DOMAIN x.edges : x.edges[j] = x.edges[l] => j = l

VARIABLES
  n, edges,                  \* arguments
  phase, i,                  \* which loop runs, and its index
  deg,                       \* degree of each vertex
  hubRow,                    \* row of each hub; -1 for the other vertices
  isHub,                     \* bitset of the hubs
  numHubs, usedWords,
  hubBits,                   \* the words of all the rows
  rest,                      \* the edges that leave no hub
  offsets, targets, cursor   \* the CSR of rest

hubVars == <<deg, hubRow, isHub, numHubs, usedWords, hubBits, rest>>
vars == <<n, edges, phase, i, hubVars, offsets, targets, cursor>>

Csr == INSTANCE CSRBuild WITH edges <- rest

Vertex == 0 .. (n - 1)
Tiny == 1073741824   \* 1 << 30

hubThreshold == n \div (WordBits \div 2)
thr          == IF hubThreshold < 1 THEN Tiny ELSE hubThreshold
wordsPerRow  == (n + WordBits - 1) \div WordBits
budgetWords  == Len(edges) \div 2 + 1

-----------------------------------------------------------------------------
Init ==
  /\ \E x \in Inputs : n = x.n /\ edges = x.edges
  /\ phase = "degree" /\ i = 0
  /\ deg = [u \in Vertex |-> 0]
  /\ hubRow = [u \in Vertex |-> 0]
  /\ isHub = {} /\ numHubs = 0 /\ usedWords = 0
  /\ hubBits = <<>> /\ rest = <<>>
  /\ offsets = <<>> /\ targets = <<>> /\ cursor = <<>>

\* deg[e.From]++
CountDegree ==
  /\ phase = "degree"
  /\ \/ /\ i < Len(edges)
        /\ deg' = [deg EXCEPT ![edges[i + 1].from] = @ + 1]
        /\ i' = i + 1
        /\ UNCHANGED phase
     \/ /\ i = Len(edges)
        /\ phase' = "promote" /\ i' = 0
        /\ UNCHANGED deg
  /\ UNCHANGED <<n, edges, hubRow, isHub, numHubs, usedWords, hubBits, rest,
                 offsets, targets, cursor>>

\* Promotion of the vertices that `qualify'.
PromoteIf(qualify) ==
  /\ phase = "promote"
  /\ \/ /\ i < n
        /\ IF qualify
           THEN /\ hubRow' = [hubRow EXCEPT ![i] = numHubs]
                /\ isHub' = isHub \cup {i}
                /\ numHubs' = numHubs + 1
                /\ usedWords' = usedWords + wordsPerRow
           ELSE /\ hubRow' = [hubRow EXCEPT ![i] = -1]
                /\ UNCHANGED <<isHub, numHubs, usedWords>>
        /\ i' = i + 1
        /\ UNCHANGED <<phase, hubBits>>
     \/ /\ i = n
        /\ hubBits' = [w \in 0 .. (numHubs * wordsPerRow - 1) |-> {}]
        /\ phase' = "split" /\ i' = 0
        /\ UNCHANGED <<hubRow, isHub, numHubs, usedWords>>
  /\ UNCHANGED <<n, edges, deg, rest, offsets, targets, cursor>>

\* Mutants of Promote: no budget; a degree at the threshold is enough.
PromoteFreely  == PromoteIf(deg[i] > thr)
PromoteAtLimit == PromoteIf(deg[i] >= thr /\ usedWords + wordsPerRow <= budgetWords)

\* The next vertex gets a row when its degree is above the threshold and the budget
\* still has room for one; after the last vertex the rows are allocated.
Promote ==
  /\ phase = "promote"
  /\ \/ /\ i < n
        /\ IF deg[i] > thr /\ usedWords + wordsPerRow <= budgetWords
           THEN /\ hubRow' = [hubRow EXCEPT ![i] = numHubs]
                /\ isHub' = isHub \cup {i}
                /\ numHubs' = numHubs + 1
                /\ usedWords' = usedWords + wordsPerRow
           ELSE /\ hubRow' = [hubRow EXCEPT ![i] = -1]
                /\ UNCHANGED <<isHub, numHubs, usedWords>>
        /\ i' = i + 1
        /\ UNCHANGED <<phase, hubBits>>
     \/ /\ i = n
        /\ hubBits' = [w \in 0 .. (numHubs * wordsPerRow - 1) |-> {}]
        /\ phase' = "split" /\ i' = 0
        /\ UNCHANGED <<hubRow, isHub, numHubs, usedWords>>
  /\ UNCHANGED <<n, edges, deg, rest, offsets, targets, cursor>>

\* Mutant of Split: the rows are one word apart.
SplitOverlaps ==
  /\ phase = "split"
  /\ \/ /\ i < Len(edges)
        /\ LET e == edges[i + 1]
               w == hubRow[e.from] + e.to \div WordBits
           IN \/ /\ hubRow[e.from] >= 0
                 /\ hubBits' = [hubBits EXCEPT ![w] = @ \cup {e.to % WordBits}]
                 /\ UNCHANGED rest
              \/ /\ hubRow[e.from] < 0
                 /\ rest' = Append(rest, e)
                 /\ UNCHANGED hubBits
        /\ i' = i + 1
        /\ UNCHANGED phase
     \/ /\ i = Len(edges)
        /\ phase' = "call" /\ i' = 0
        /\ UNCHANGED <<hubBits, rest>>
  /\ UNCHANGED <<n, edges, deg, hubRow, isHub, numHubs, usedWords,
                 offsets, targets, cursor>>

\* The next edge sets a bit in the row of its source, or goes to rest.
Split ==
  /\ phase = "split"
  /\ \/ /\ i < Len(edges)
        /\ LET e == edges[i + 1]
               w == hubRow[e.from] * wordsPerRow + e.to \div WordBits
           IN \/ /\ hubRow[e.from] >= 0
                 /\ hubBits' = [hubBits EXCEPT ![w] = @ \cup {e.to % WordBits}]
                 /\ UNCHANGED rest
              \/ /\ hubRow[e.from] < 0
                 /\ rest' = Append(rest, e)
                 /\ UNCHANGED hubBits
        /\ i' = i + 1
        /\ UNCHANGED phase
     \/ /\ i = Len(edges)
        /\ phase' = "call" /\ i' = 0
        /\ UNCHANGED <<hubBits, rest>>
  /\ UNCHANGED <<n, edges, deg, hubRow, isHub, numHubs, usedWords,
                 offsets, targets, cursor>>

\* buildCSRArrays(n, rest)
BuildRest == Csr!Build /\ UNCHANGED <<edges, hubVars>>

Build == CountDegree \/ Promote \/ Split \/ BuildRest

Built == phase = "built" /\ UNCHANGED vars

Next == Build \/ Built

Spec == Init /\ [][Next]_vars

-----------------------------------------------------------------------------
(* The readers of the index. *)

\* The bit of v in the row of u, at the word and bit HasEdge computes.
BitOf(u, v) == v % WordBits \in hubBits[hubRow[u] * wordsPerRow + v \div WordBits]

\* Mutant of RowBits: the last word of the row is not scanned.
RowBitsShort(u) ==
  UNION {{w * WordBits + b : b \in hubBits[hubRow[u] * wordsPerRow + w]} :
           w \in 0 .. (wordsPerRow - 2)}

\* The words of the row of u, scanned from the lowest bit of the first to the highest
\* bit of the last: the set bits, as vertices.
RowBits(u) ==
  UNION {{w * WordBits + b : b \in hubBits[hubRow[u] * wordsPerRow + w]} :
           w \in 0 .. (wordsPerRow - 1)}

Degree(u) == IF u \in isHub THEN Cardinality(RowBits(u)) ELSE Csr!Degree(u)

\* TrailingZeros64 yields the bits in ascending order.
Neighbors(u) ==
  IF u \in isHub
  THEN [p \in 1 .. Cardinality(RowBits(u)) |->
          CHOOSE v \in RowBits(u) : Cardinality({x \in RowBits(u) : x < v}) = p - 1]
  ELSE Csr!Neighbors(u)

HasEdge(u, v) == IF u \in isHub THEN BitOf(u, v) ELSE Csr!HasEdge(u, v)

-----------------------------------------------------------------------------
(* Correctness. *)

\* Types and ranges.
TypeOK ==
  /\ n \in Nat
  /\ edges \in Seq([from : Vertex, to : Vertex])
  /\ phase \in {"degree", "promote", "split", "call", "count", "prefix", "scatter", "sort",
                "built"}
  /\ i \in Nat
  /\ deg \in [Vertex -> Nat]
  /\ hubRow \in [Vertex -> Nat \cup {-1}]
  /\ isHub \subseteq Vertex
  /\ numHubs \in Nat /\ usedWords \in Nat
  /\ IF phase \in {"degree", "promote"} THEN hubBits = <<>>
     ELSE hubBits \in [0 .. (numHubs * wordsPerRow - 1) -> SUBSET (0 .. (WordBits - 1))]
  /\ rest \in Seq([from : Vertex, to : Vertex])

\* The bitset and the rows tell the same story: a vertex is a hub when it has a row, two
\* hubs never share one, and all the rows fit in the budget (hybrid.go:46-58).
RowsConsistent ==
  /\ TypeOK
  /\ Cardinality(isHub) = numHubs /\ usedWords = numHubs * wordsPerRow
  /\ usedWords <= budgetWords
  /\ \A u, v \in isHub : hubRow[u] = hubRow[v] => u = v
  /\ \A u \in isHub : hubRow[u] \in 0 .. (numHubs - 1)
  /\ phase \notin {"degree", "promote"} => \A u \in Vertex \ isHub : hubRow[u] = -1

\* Each edge read so far is in exactly one of the two representations.
EdgesSplit ==
  LET read == IF phase \in {"degree", "promote"} THEN 0
              ELSE IF phase = "split" THEN i ELSE Len(edges)
  IN \A u, v \in Vertex :
       LET linked == \E j \in 1 .. read : edges[j].from = u /\ edges[j].to = v
           inRest == Linked(rest, u, v)
           inBits == /\ phase \notin {"degree", "promote"}
                     /\ u \in isHub /\ BitOf(u, v)
       IN /\ linked <=> inRest \/ inBits
          /\ ~(inRest /\ inBits)

\* The index answers what the list of edges says, for hubs and for the others.
ContractHolds ==
  phase = "built" =>
    \A u \in Vertex :
      /\ Degree(u) = OutDegree(edges, u)
      /\ Lists(n, edges, u, Neighbors(u))
      /\ \A v \in Vertex : HasEdge(u, v) <=> Linked(edges, u, v)

\* In units of one target (half a word): the room the rows take, and the targets that
\* the CSR no longer holds.
BitmapTargets == 2 * usedWords
Replaced == Len(edges) - Len(rest)

\* A row costs at most one target more than the targets it replaces.
BitmapOverhead == phase = "built" => BitmapTargets <= Replaced + numHubs

\* "les bitmaps ne doivent jamais dépasser la taille du tableau de cibles qu'ils
\* remplacent" (hybrid.go:46-47; hybrid_test.go:100-104 says that the threshold implies
\* it): the words of the rows take no more room than the targets they replace.
BitmapsNeverCostMore == phase = "built" => BitmapTargets <= Replaced
=============================================================================
