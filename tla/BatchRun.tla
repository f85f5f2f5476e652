------------------------------ MODULE BatchRun ------------------------------
(***************************************************************************)
(* What bench.Run promises its caller, whatever the number of goroutines   *)
(* and the way they share the work: every query of the batch is answered,  *)
(* no query is answered twice, and the call returns the combination of     *)
(* exactly these answers.                                                  *)
(*                                                                         *)
(* A checksum is a formal sum: for each query, how many times its answer   *)
(* was added.  The uint64 the code returns is the image of this formal sum *)
(* under addition modulo 2^64, which is commutative and associative.       *)
(***************************************************************************)
EXTENDS Integers

CONSTANT BatchSizes     \* the numbers of queries a caller may pass

VARIABLES
  size,       \* number of queries in the batch, numbered 0 .. size-1
  answered,   \* the queries answered so far
  status,     \* "serving" or "returned"
  result      \* the formal checksum handed to the caller

vars == <<size, answered, status, result>>

Batch == 0 .. (size - 1)

Init ==
  /\ size \in BatchSizes
  /\ answered = {}
  /\ status = "serving"
  /\ result = [q \in Batch |-> 0]

\* One more query of the batch is answered.
Answer ==
  /\ status = "serving"
  /\ \E q \in Batch \ answered : answered' = answered \cup {q}
  /\ UNCHANGED <<size, status, result>>

\* The call returns once nothing is left to answer.
Return ==
  /\ status = "serving"
  /\ answered = Batch
  /\ status' = "returned"
  /\ result' = [q \in Batch |-> 1]
  /\ UNCHANGED <<size, answered>>

Next == Answer \/ Return

Spec == Init /\ [][Next]_vars

FairSpec == Spec /\ WF_vars(Next)
=============================================================================
