------------------------------ MODULE MCRunner ------------------------------
(* Instances of Runner for TLC. *)
EXTENDS Runner

\* Zero exercises the normalisation of the arguments; three goroutines are enough
\* for one to be ahead, one behind and one not started.
MCThreadArgs == {0, 2, 3}
MCChunkArgs  == {0, 2, 3}
MCBatchSizes == {0, 1, 5, 6}

\* For liveness, one size at which the last chunk is short.
LiveThreadArgs == {0, 1, 2}
LiveChunkArgs  == {0, 2}
LiveBatchSizes == {0, 3}
=============================================================================
