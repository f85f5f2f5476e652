---------------------------- MODULE SharedSlices ----------------------------
(***************************************************************************)
(* The slices that the structures hand out: Neighbors (SliceGraph) returns *)
(* memory of the index, AppendNeighbors copies into a buffer of the caller.*)
(* A slice is a window of a block of memory; append writes in the block    *)
(* while the capacity allows and moves to a new block afterwards.          *)
(*                                                                         *)
(* Several callers hold slices of one index at a time and append to them.  *)
(***************************************************************************)
EXTENDS Integers, Sequences, FiniteSets, SequencesExt

CONSTANTS
  Adjacency,   \* the neighbours of each vertex, in order
  Callers,     \* a set of numbers: the value that each caller appends
  MaxLen,      \* bound on the slices that callers extend
  MaxNew       \* bound on the blocks that callers allocate

VARIABLES
  owner,   \* the structure
  mem,     \* the blocks; the length of a block is its capacity
  slices,  \* the slice of each vertex
  held,    \* the slice that each caller has
  copied,  \* whether it is in a block of the caller's own
  wrote    \* what the caller has put or read in it

vars == <<owner, mem, slices, held, copied, wrote>>

Vertices == DOMAIN Adjacency
Kinds == {"adjlist", "adjlist-exact", "csr", "csr-slices"}

Contents(s) == SubSeq(mem[s.block], s.from + 1, s.from + s.len)

\* The bounds of the block of u in the arena (buildCSRArrays).
Low(u)  == Len(FlattenSeq([w \in 1 .. (u - 1) |-> Adjacency[w]]))
High(u) == Low(u) + Len(Adjacency[u])
Arena   == FlattenSeq(Adjacency)

NewBlocks == Len(mem) - (IF owner \in {"csr", "csr-slices"} THEN 1 ELSE Len(Adjacency))

Slice(b, from, len, cap) == [block |-> b, from |-> from, len |-> len, cap |-> cap]

\* Mutant of ThreeIndex: tgt[lo:hi], whose capacity reaches to the end of the arena.
TwoIndex(u) == Slice(1, Low(u), High(u) - Low(u), Len(Arena) - Low(u))

\* tgt[lo:hi:hi]
ThreeIndex(u) == Slice(1, Low(u), High(u) - Low(u), High(u) - Low(u))

\* CSR.Neighbors: g.targets[g.offsets[u]:g.offsets[u+1]]
Window(u) == Slice(1, Low(u), High(u) - Low(u), Len(Arena) - Low(u))

\* A list with one free slot that append left, or of its exact size.
OwnBlock(u, free) == Slice(u, 0, Len(Adjacency[u]), Len(Adjacency[u]) + free)

Init ==
  /\ owner \in Kinds
  /\ slices = [u \in Vertices |->
              CASE owner = "csr"           -> Window(u)
                [] owner = "csr-slices"    -> ThreeIndex(u)
                [] owner = "adjlist"       -> OwnBlock(u, 1)
                [] owner = "adjlist-exact" -> OwnBlock(u, 0)]
  /\ mem = CASE owner \in {"csr", "csr-slices"} -> <<Arena>>
             [] owner = "adjlist"       -> [u \in Vertices |-> Append(Adjacency[u], 0)]
             [] owner = "adjlist-exact" -> Adjacency
  /\ held = [c \in Callers |-> Slice(1, 0, 0, 0)]
  /\ copied = [c \in Callers |-> FALSE]
  /\ wrote = [c \in Callers |-> <<>>]

\* The caller takes the neighbours without a copy.
Neighbors(c, u) ==
  /\ held' = [held EXCEPT ![c] = slices[u]]
  /\ copied' = [copied EXCEPT ![c] = FALSE]
  /\ wrote' = [wrote EXCEPT ![c] = Contents(slices[u])]
  /\ UNCHANGED <<owner, mem, slices>>

\* append(dst, items...) by a caller; dst is a slice it holds.
Extend(c, dst, items) ==
  LET fits == dst.len + Len(items) <= dst.cap
      size == dst.len + Len(items)
  IN IF fits
     THEN /\ mem' = [mem EXCEPT ![dst.block] =
                       [i \in DOMAIN @ |-> IF i \in (dst.from + dst.len + 1) .. (dst.from + size)
                                           THEN items[i - dst.from - dst.len] ELSE @[i]]]
          /\ held' = [held EXCEPT ![c] = [dst EXCEPT !.len = size]]
          /\ UNCHANGED copied
     ELSE /\ NewBlocks < MaxNew
          /\ mem' = Append(mem, Contents(dst) \o items)
          /\ held' = [held EXCEPT ![c] = Slice(Len(mem) + 1, 0, size, size)]
          /\ copied' = [copied EXCEPT ![c] = TRUE]

\* The caller appends a value of its own to what it holds.
AppendTo(c) ==
  /\ held[c].len < MaxLen
  /\ Extend(c, held[c], <<c>>)
  /\ wrote' = [wrote EXCEPT ![c] = Append(@, c)]
  /\ UNCHANGED <<owner, slices>>

\* AppendNeighbors(dst[:0], u), with a buffer of the caller's own or none.
AppendNeighbors(c, u) ==
  /\ LET dst == IF copied[c] THEN [held[c] EXCEPT !.len = 0] ELSE Slice(1, 0, 0, 0)
     IN Extend(c, dst, Contents(slices[u]))
  /\ wrote' = [wrote EXCEPT ![c] = Contents(slices[u])]
  /\ UNCHANGED <<owner, slices>>

Next ==
  \E c \in Callers :
    \/ AppendTo(c)
    \/ \E u \in Vertices : Neighbors(c, u) \/ AppendNeighbors(c, u)

-----------------------------------------------------------------------------
\* Whatever callers append to, in whatever order, the index still lists its neighbours.
\* It is the third index of csr-slices that makes this true of an arena (csr.go:86-90);
\* the plain windows of csr do not have it, and must only be read.
IndexIntact == owner # "csr" => \A u \in Vertices : Contents(slices[u]) = Adjacency[u]

\* With exact capacities, two callers that hold the same list never see each other's
\* appends, and a reused buffer never changes under another caller.
CallersIndependent ==
  owner \in {"csr-slices", "adjlist-exact"} =>
    \A c \in Callers : Contents(held[c]) = wrote[c]
=============================================================================
