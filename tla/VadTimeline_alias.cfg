CONSTANTS
  CHUNK_SIZE = 2
  TrailingSilenceChunks = 1
  SlotChoices <- OneSlot
  MayResize = FALSE
  Lengths <- BufferLengths
  MaxFed = 10
  SamplesPerMs = 1
  SilencePad = 7
  TimeStampGap = 3
  MaxWords = 2
  MaxSegments = 3

SPECIFICATION MCSpec

INVARIANT ForwardsTheAudio
