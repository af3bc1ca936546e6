SPECIFICATION MCSpec
CONSTANTS
    Threads = {1, 2, 3, 4}
    Values = {1, 2}
    Capacity = 2
    MaxCalls = 5
    PopSizes = {0, 1, 3}
    Workers = {1, 2}
    WaveCounts = {1, 2, 3}
    Warmups = {0, 2}
    Groups <- MCGroups
    Batches <- MCBatches
    WaveDur <- MCWaveDur

INVARIANT FirstInFirstOut
INVARIANT NobodyStranded
INVARIANT EveryWaveCountedOnce
PROPERTY MainEnds

CHECK_DEADLOCK FALSE
