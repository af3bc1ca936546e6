SPECIFICATION MCSpec
CONSTANTS
    InputBuffers = 1
    MaxRecordings = 2
    MaxReads = 5
    RecordingLengths = {0, 1, 4, 7, 13}
    FRAME = 3
    PACKET = 4
    Decimation = 2
    MAX_BARS = 2
    MinSamplesPerBar = 3

INVARIANT FilesAreTheRecording
PROPERTY EncoderIsClosed

CHECK_DEADLOCK FALSE
