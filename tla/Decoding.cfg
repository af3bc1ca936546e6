CONSTANTS
  subsampling_rate_ = 4
  right_context_ = 6
  FrameShift = 10
  TimeStampGap = 100
  Silence1 = 160
  Silence2 = 80
  Length3 = 240
  ChunkSizes <- StreamingOrNot
  Models <- MCModels
  Lengths <- Pieces
  MaxFrames = 30

SPECIFICATION FairSpec

INVARIANT EveryFrameDecoded
INVARIANT EndpointsByRule
INVARIANT WordsInOrder
INVARIANT ModelKeepsTheSegment
PROPERTY ClientFinishes

CHECK_DEADLOCK FALSE
