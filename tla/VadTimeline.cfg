CONSTANTS
  CHUNK_SIZE = 2
  TrailingSilenceChunks = 1
  SlotChoices <- Settings
  MayResize = FALSE
  Lengths <- BufferLengths
  MaxFed = 13
  SamplesPerMs = 2
  SilencePad = 7
  TimeStampGap = 1
  MaxWords = 2
  MaxSegments = 3

SPECIFICATION MCSpec

INVARIANT EverySampleInPlace
INVARIANT TimesAreRecordingTimes
INVARIANT ResultsAreComplete
