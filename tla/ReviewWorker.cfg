SPECIFICATION Spec
CONSTANTS
    Clients <- Reviewer
    Calls <- OneCall
    Notes <- TurnNotifications
    QueueLimit = 2
    MaxNotes = 2
    MaxRequests = 1
INVARIANTS
  EvidenceIsFinal
  NoServerLeft
  NoStandstill
CHECK_DEADLOCK FALSE
