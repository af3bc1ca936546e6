CONSTANTS
  FrameLength = 3
  FrameShift = 2
  ChunkSizes = {1, 2, 5}
  ReadSizes = {1, 2}
  MaxSamples = 9
  MaxResets = 1

SPECIFICATION FairSpec

INVARIANT IInv
PROPERTY StreamSpec
PROPERTY FinishReachesReader

CHECK_DEADLOCK FALSE
