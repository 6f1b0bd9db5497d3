SPECIFICATION ServerSpec
CONSTANTS
    Clients <- TurnAndInterrupt
    Calls <- OneCall
    Notes <- OneNote
    QueueLimit = 1
    MaxNotes = 1
    MaxRequests = 2
INVARIANTS
  NoWaiterForgotten
PROPERTIES
  ShutdownReleases
CHECK_DEADLOCK FALSE
