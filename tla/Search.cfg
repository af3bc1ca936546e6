SPECIFICATION MCSpec
CONSTANTS
    Units <- MCUnits
    Loglikes <- MCLoglikes
    SURELY_BLANK <- MCSurelyBlank
    DecodingGraphs <- MCDecodingGraphs
    DecoderConfigs <- MCDecoderConfigs
    LogProbs <- MCLogProbs
    BeamSizes <- MCBeamSizes
    ContextSets <- MCContextSets
    MaxSearched = 4
    MemoryCheckEvery = 2
    MaxNumIters = 3
    context_score = 1
    incremental_context_score = 1

INVARIANT ScoresAndTimesOfAlignments
INVARIANT RewardsBelongToPrefix
INVARIANT FramesAreMapped
INVARIANT LatticeIsRight
INVARIANT NbestIsRight

CHECK_DEADLOCK FALSE
