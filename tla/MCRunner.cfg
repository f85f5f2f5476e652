SPECIFICATION Spec
CONSTANTS
  ThreadArgs <- MCThreadArgs
  ChunkArgs <- MCChunkArgs
  BatchSizes <- MCBatchSizes
  HostProcs = 8
INVARIANTS
  IInv
  ClaimsDisjoint
  EveryQueryOnce
  MergeAfterPublish
  ChunksTimedOnce
  CounterOvershoot
  ProcsRestored
PROPERTIES
  ImplementsBatch
