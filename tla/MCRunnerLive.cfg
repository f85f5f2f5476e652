SPECIFICATION FairSpec
CONSTANTS
  ThreadArgs <- LiveThreadArgs
  ChunkArgs <- LiveChunkArgs
  BatchSizes <- LiveBatchSizes
  HostProcs = 8
PROPERTY ImplementsFairBatch
