SPECIFICATION Spec
CONSTANTS
    Snapshots <- TwoSources
    MaxAttempts = 2
    MaxRequests = 2
INVARIANTS
  SuccessIsProven
  AnswerMatchesEvidence
PROPERTIES
  RetiredIsQuiet
  
CHECK_DEADLOCK FALSE
