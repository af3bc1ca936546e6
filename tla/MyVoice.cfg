SPECIFICATION Spec
CONSTANTS
    NEW_SAMPLES_PER_CHUNK = 2
    HANGOVER_FRAMES = 1
    MaxAudio = 7
    WordLists <- MCWordLists
    StampLength = 2
    MaxTime = 7
    NoSegments = NoSegments
    Names = {n1, n2, n3}
    Old = {n1, n2}
    NoFile = NoFile
    MaxActions = 5

INVARIANT VoiceFromAudioToText
INVARIANT RecordingsStayWhole
INVARIANT ScreensFollowDisk
PROPERTY TextAndSoundAgree

CHECK_DEADLOCK FALSE
