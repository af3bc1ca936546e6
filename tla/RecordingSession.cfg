CONSTANTS
  QueueCapacity = 2
  Failures = {"init", "start"}
  MaxSessions = 1
  MaxChunks = 3
  MaxPosted = 2

SPECIFICATION FairSpec

INVARIANT Conserved
INVARIANT SavedCoversAccepted
INVARIANT FinishNeverAborts
PROPERTY StopSavesUnlessStuck

CHECK_DEADLOCK FALSE
