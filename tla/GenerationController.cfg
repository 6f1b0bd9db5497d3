SPECIFICATION FairSpec
CONSTANTS
  MaxGen = 1
  MaxSessions = 2
  MaxTurns = 2
INVARIANTS
  RetiredBeforeTransition
  LeaseHasReleaser
  PausedIsQuiet
  TranscriptKept

  
