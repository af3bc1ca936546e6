SPECIFICATION MCSpec
CONSTANTS
    Chunks = 3
    SeekTargets = {0, 2}
    QUEUE_CAPACITY = 2
    TotalSamples = 5
    WINDOW_SAMPLES = 3
    OUTPUT_SAMPLE_RATE = 1
    FFT_SIZE = 2
    Width = 2
    Workers = {1, 2}
    Offsets = {2, 3}
    MaxEvents = 2

INVARIANT ShownIsHeard
INVARIANT PictureIsTheRecording
PROPERTY HeardToTheEnd
PROPERTY PlayingGoesOn
PROPERTY PictureAppears

CHECK_DEADLOCK FALSE
