------------------------------- MODULE Slices -------------------------------
(***************************************************************************)
(* What the structures use of the package slices of the library: ascending *)
(* slices of numbers, sorting and binary search.                           *)
(***************************************************************************)
EXTENDS Integers, Sequences, FiniteSets

\* slices.IsSorted(s)
Ascending(s) == \A i, j \in DOMAIN s : i < j => s[i] <= s[j]

\* The elements of a finite set of numbers, in ascending order.
InOrder(S) ==
  [j \in 1 .. Cardinality(S) |-> CHOOSE v \in S : Cardinality({w \in S : w < v}) = j - 1]

\* slices.Sort(s): at j, the value that less than j positions are below and at least j
\* positions are not above.
SortedSlice(s) ==
  [j \in DOMAIN s |-> CHOOSE x \in {s[k] : k \in DOMAIN s} :
                        /\ Cardinality({k \in DOMAIN s : s[k] < x}) < j
                        /\ Cardinality({k \in DOMAIN s : s[k] <= x}) >= j]

\* slices.BinarySearch(s, v): the smallest index i of the ascending slice s (counted
\* from 0) such that s[i] >= v, and whether s[i] = v.
BinarySearch(s, v) ==
  LET lowest[b \in {c \in (0 .. Len(s)) \X (0 .. Len(s)) : c[1] <= c[2]}] ==
        LET mid == (b[1] + b[2]) \div 2 IN
        IF b[1] = b[2] THEN b[1]
        ELSE IF s[mid + 1] < v THEN lowest[<<mid + 1, b[2]>>] ELSE lowest[<<b[1], mid>>]
      at == lowest[<<0, Len(s)>>]
  IN [index |-> at, found |-> at < Len(s) /\ s[at + 1] = v]
=============================================================================
