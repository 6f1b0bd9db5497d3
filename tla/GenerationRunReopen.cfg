SPECIFICATION Spec
CONSTANTS
  MaxGen = 2
  Reasons <- PlainAndEscapedReasons
  MaxAbortReasonBytes = 8
  FeedbackEnvelope = 1
  FeedbackLimit = 9
  Capacities = {1}
  CrossRun = FALSE
  SyncMayFail = FALSE
INVARIANTS
  ValidGateReopens
