SPECIFICATION Spec
CONSTANTS
    Tools <- MutationAndReview
    MaxCalls = 2
    MaxTurns = 3
INVARIANTS
  MutationFollowsPlan
  PlanSawItsResults
  ReviewSeesQuietSource
  ContinuationFollowsReview
PROPERTIES
  InterruptLeavesQuiet
