----------------------------- MODULE BitMatrix -----------------------------
(***************************************************************************)
(* BitMatrix (graph/bitmatrix.go): one bit for each pair of vertices, in   *)
(* rows of whole words; a constructor that refuses large matrices; and     *)
(* readers that take the bits of a word from the lowest one up.            *)
(*                                                                         *)
(* A word is the set of its bits that are set.  WordBits is 64 in the      *)
(* code, MaxWords the number of words in 1 GiB.                            *)
(***************************************************************************)
EXTENDS EdgeKeys, FiniteSetsExt

CONSTANTS WordBits, MaxWords

VARIABLES
  n, edges,                  \* the arguments of the constructor
  m, bits,                   \* number of edges; the words of all the rows
  phase, asked, sent, more,  \* an iteration, as in module Iteration; or "refused"
  i, w                       \* its word in the row, and what is left of the word

index == <<n, edges, m, bits>>
vars == <<index, phase, asked, sent, more, i, w>>

Vertex == 0 .. (n - 1)
wordsPerRow == (n + WordBits - 1) \div WordBits

Init == m = 0 /\ bits = <<>> /\ i = 0 /\ w = {}

\* The matrix would be too large: an error, and nothing is allocated.
Refuse ==
  /\ phase = "build" /\ n * wordsPerRow > MaxWords
  /\ phase' = "refused"
  /\ UNCHANGED <<index, asked, sent, more, i, w>>

\* Mutant of At: the rows are not rounded up to whole words.
AtPacked(u, v) == (u * n + v) \div WordBits

\* The word and the bit of the edge from u to v.
At(u, v)  == u * wordsPerRow + v \div WordBits
Bit(v) == v % WordBits

\* The words are allocated, and each edge sets its bit in its word.
NewBitMatrix ==
  /\ phase = "build" /\ ~(n * wordsPerRow > MaxWords)
  /\ phase' = "ready"
  /\ m' = Len(edges)
  /\ bits' = [p \in 0 .. (n * wordsPerRow - 1) |->
                {Bit(e.to) : e \in {f \in Range(edges) : At(f.from, f.to) = p}}]
  /\ UNCHANGED <<n, edges, asked, sent, more, i, w>>

Degree(u) ==
  MapThenSumSet(LAMBDA k : Cardinality(bits[u * wordsPerRow + k]), 0 .. (wordsPerRow - 1))

HasEdge(u, v) == Bit(v) \in bits[At(u, v)]

\* Words from the first to the last, bits from the lowest to the highest.
AppendNeighbors(dst, u) ==
  LET row == {k * WordBits + b : k \in 0 .. (wordsPerRow - 1), b \in 0 .. (WordBits - 1)}
      set == {v \in row : Bit(v) \in bits[At(u, v)]}
  IN dst \o InOrder(set)

Ask ==
  /\ phase = "ready" /\ phase' = "running"
  /\ \E u \in Vertex : asked' = u /\ w' = bits[u * wordsPerRow]
  /\ UNCHANGED <<index, sent, more, i>>

\* Mutant of Visit: returning false only leaves the inner loop.
VisitBreaks ==
  /\ phase = "running" /\ w # {}
  /\ sent' = Append(sent, i * WordBits + Min(w))
  /\ more' \in BOOLEAN /\ w' = IF more' THEN w \ {Min(w)} ELSE {}
  /\ UNCHANGED <<index, phase, asked, i>>

\* The callback receives the lowest bit of the word: it returns false, which ends both
\* loops, or the bit is cleared.
Visit ==
  /\ phase = "running" /\ w # {}
  /\ sent' = Append(sent, i * WordBits + Min(w))
  /\ \/ more' = TRUE /\ w' = w \ {Min(w)} /\ UNCHANGED phase
     \/ more' = FALSE /\ phase' = "returned" /\ UNCHANGED w
  /\ UNCHANGED <<index, asked, i>>

NextWord ==
  /\ phase = "running" /\ w = {} /\ i + 1 < wordsPerRow
  /\ i' = i + 1 /\ w' = bits[asked * wordsPerRow + i + 1]
  /\ UNCHANGED <<index, phase, asked, sent, more>>

Leave ==
  /\ phase = "running" /\ w = {} /\ i + 1 = wordsPerRow
  /\ phase' = "returned"
  /\ UNCHANGED <<index, asked, sent, more, i, w>>

Stay ==
  /\ phase \in {"returned", "refused"} \/ (phase = "ready" /\ n = 0)
  /\ UNCHANGED vars

Next == Refuse \/ NewBitMatrix \/ Ask \/ Visit \/ NextWord \/ Leave \/ Stay
=============================================================================
