SPECIFICATION FairSpec
CONSTANTS
  MaxGen = 2
  Reasons <- PlainAndEscapedReasons
  MaxAbortReasonBytes = 8
  FeedbackEnvelope = 1
  FeedbackLimit = 9
  Capacities = {1, 2}
  CrossRun = TRUE
  SyncMayFail = FALSE
INVARIANTS
  HistoryValid
  GateHoldsLatestArchive
  LeasePinsGate
  AbortReasonReachesNext
  
PROPERTIES
  RecordsNeverRewritten
  ImplementsGate
  CloseReturns
