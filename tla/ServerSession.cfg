SPECIFICATION FairSpec
CONSTANT MaxAudio = 3

INVARIANT MessagesCoverAudioInOrder
PROPERTY BothEndsFinish

CHECK_DEADLOCK FALSE
