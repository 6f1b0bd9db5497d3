SPECIFICATION Spec
CONSTANTS
    Tools <- InspectionAndReview
    MaxCalls = 1
    MaxTurns = 3
INVARIANTS
  ReviewIsNotLost
