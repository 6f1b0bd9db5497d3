SPECIFICATION Spec
CONSTANTS
  MaxGen <- ThreeAndTwo
  MaxJob = 3
  JobLimit = 2
INVARIANTS
  ReferencedJobsExist
  RetainedJobsBounded
  ArchivesFollowLineage
CHECK_DEADLOCK FALSE
