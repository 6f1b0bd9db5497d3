SPECIFICATION FairSpec
CONSTANTS
  Timeout = 1
  ReceiveLimit = 2
  WriteStall = 1
  MaxQueued = 2
  Chunks = 2
  MaxID = 1
  MaxExchanges = 2
  MaxGuestFrames = 2
INVARIANTS
  ResponseIsOwn
PROPERTIES
  TimeoutAfterSilence
  FailureIsFinal
  
CHECK_DEADLOCK FALSE
