SPECIFICATION Spec
CONSTANTS
  Identities = {"a", "b"}
  MaxGen = 2
  MaxTransitions = 3
INVARIANTS
  AcceptedBuildRuns
  RecordsAgree
