----------------------------- MODULE VarintCSR -----------------------------
(***************************************************************************)
(* VarintCSR (graph/varintcsr.go): the sorted neighbours of a vertex as    *)
(* their number, the first one and the gaps, in LEB128.  A byte holds a    *)
(* digit of base Base, plus Base when another digit follows; Base is 128   *)
(* in the code.                                                            *)
(***************************************************************************)
EXTENDS GraphContract, SequencesExt, FiniteSetsExt

CONSTANT Base

VARIABLES
  n, edges,
  offsets, data,             \* the bounds written so far; the bytes
  phase, asked, sent, more,  \* an iteration, as in module Iteration
  block, left, cur           \* its bytes not decoded yet, how many neighbours, the last one

index == <<n, edges, offsets, data>>
vars == <<index, phase, asked, sent, more, block, left, cur>>

Vertex == 0 .. (n - 1)

-----------------------------------------------------------------------------
(* The codec. *)

\* Mutant of PutUvarint: a value equal to the base is taken for a single digit.
PutUvarintOff(x) ==
  LET digits[y \in Nat] ==
        IF y <= Base THEN <<y>> ELSE <<Base + (y % Base)>> \o digits[y \div Base]
  IN digits[x]

PutUvarint(x) ==
  LET digits[y \in Nat] ==
        IF y < Base THEN <<y>> ELSE <<Base + (y % Base)>> \o digits[y \div Base]
  IN digits[x]

\* The value at the start of the bytes, and the bytes after it; 0 and all of them when the
\* last digit is missing.
Uvarint(bytes) ==
  LET final == {j \in DOMAIN bytes : bytes[j] < Base}
      k == IF final = {} THEN 0 ELSE Min(final)
      from[j \in 1 .. (k + 1)] == IF j > k THEN 0 ELSE (bytes[j] % Base) + Base * from[j + 1]
  IN [value |-> from[1], rest |-> SubSeq(bytes, k + 1, Len(bytes))]

\* The block of u that buildCSRArrays returns (CSRBuild): its targets in order.
Sorted(u) == InOrder({v \in Vertex : Linked(edges, u, v)})

Encoded(targets) ==
  PutUvarint(Len(targets))
    \o FlattenSeq([i \in DOMAIN targets |->
         PutUvarint(IF i = 1 THEN targets[1] ELSE targets[i] - targets[i - 1])])

-----------------------------------------------------------------------------
(* The constructor. *)

Init ==
  /\ offsets = <<>> /\ data = <<>>
  /\ block = <<>> /\ left = 0 /\ cur = 0

\* Mutant of Encode: the offset is taken after the degree is written.
EncodeLate ==
  /\ phase = "build" /\ Len(offsets) < n
  /\ LET u == Len(offsets)
     IN /\ offsets' = Append(offsets, Len(data \o PutUvarint(Len(Sorted(u)))))
        /\ data' = data \o Encoded(Sorted(u))
  /\ UNCHANGED <<n, edges, phase, asked, sent, more, block, left, cur>>

\* The next vertex: its offset is the length of the buffer, which then grows.
Encode ==
  /\ phase = "build" /\ Len(offsets) < n
  /\ offsets' = Append(offsets, Len(data))
  /\ data' = data \o Encoded(Sorted(Len(offsets)))
  /\ UNCHANGED <<n, edges, phase, asked, sent, more, block, left, cur>>

\* offsets[n] = len(buf)
Close ==
  /\ phase = "build" /\ Len(offsets) = n
  /\ offsets' = Append(offsets, Len(data))
  /\ phase' = "ready"
  /\ UNCHANGED <<n, edges, data, asked, sent, more, block, left, cur>>

-----------------------------------------------------------------------------
(* The readers. *)

Bytes(u) == SubSeq(data, offsets[u + 1] + 1, offsets[u + 2])

Degree(u) == Uvarint(Bytes(u)).value

\* What the decoding loop holds after i neighbours of u.
Decode(u) ==
  LET after[i \in 0 .. Degree(u)] ==
        IF i = 0 THEN [cur |-> 0, rest |-> Uvarint(Bytes(u)).rest]
        ELSE LET d == Uvarint(after[i - 1].rest)
             IN [cur |-> after[i - 1].cur + d.value, rest |-> d.rest]
  IN after

AppendNeighbors(dst, u) == dst \o [i \in 1 .. Degree(u) |-> Decode(u)[i].cur]

\* The loop stops at the first neighbour that is not below v.
HasEdge(u, v) ==
  LET notBelow == {i \in 1 .. Degree(u) : Decode(u)[i].cur >= v}
  IN notBelow # {} /\ Decode(u)[Min(notBelow)].cur = v

Ask ==
  /\ phase = "ready" /\ phase' = "running"
  /\ \E u \in Vertex :
       LET d == Uvarint(Bytes(u)) IN asked' = u /\ block' = d.rest /\ left' = d.value
  /\ UNCHANGED <<index, sent, more, cur>>

\* The next number is decoded; the callback receives the neighbour and goes on or not.
Visit ==
  /\ phase = "running" /\ left > 0
  /\ LET d == Uvarint(block)
     IN /\ cur' = IF sent = <<>> THEN d.value ELSE cur + d.value
        /\ sent' = Append(sent, cur') /\ block' = d.rest
  /\ left' = left - 1
  /\ more' \in BOOLEAN /\ phase' = IF more' THEN "running" ELSE "returned"
  /\ UNCHANGED <<index, asked>>

Leave ==
  /\ phase = "running" /\ left = 0
  /\ phase' = "returned"
  /\ UNCHANGED <<index, asked, sent, more, block, left, cur>>

Stay == (phase = "returned" \/ (phase = "ready" /\ n = 0)) /\ UNCHANGED vars

Next == Encode \/ Close \/ Ask \/ Visit \/ Leave \/ Stay
=============================================================================
