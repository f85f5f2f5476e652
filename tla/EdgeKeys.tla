------------------------------ MODULE EdgeKeys ------------------------------
(***************************************************************************)
(* Edges packed in one word, source above target, and Dedup (graph.go),    *)
(* which every list of edges goes through before a structure is built.     *)
(* Radix is the number of values that half a word can hold, 2^32 in the    *)
(* code; a word holds its square.                                          *)
(***************************************************************************)
EXTENDS GraphContract, SequencesExt

CONSTANT Radix

ASSUME RadixAssumption == Radix \in Nat \ {0}

\* Mutant of Pack: the source is not shifted far enough.
PackClose(e) == e.from * (Radix \div 2) + e.to

\* uint64(e.From)<<32 | uint64(e.To)
Pack(e) == (e.from * Radix + e.to) % (Radix * Radix)

Source(k) == k \div Radix
Target(k) == k % Radix

Packed(edges) == [j \in DOMAIN edges |-> Pack(edges[j])]

\* Mutant of Compact: the duplicates stay.
CompactNothing(keys) == keys

\* Of equal keys in a row, the first one.
Compact(keys) ==
  LET kept == InOrder({j \in DOMAIN keys : j = 1 \/ keys[j] # keys[j - 1]})
  IN [j \in DOMAIN kept |-> keys[kept[j]]]

Dedup(edges) ==
  LET keys == Compact(SortedSlice(Packed(edges)))
  IN [j \in DOMAIN keys |-> [from |-> Source(keys[j]), to |-> Target(keys[j])]]

\* What a constructor may receive for a list: the list as Dedup leaves it, or, when it has
\* no duplicates, in the order it has.
Arguments(list) == {Dedup(list)} \cup {l \in {list} : IsInjective(l)}
=============================================================================
