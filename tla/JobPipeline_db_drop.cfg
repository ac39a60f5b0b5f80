SPECIFICATION FairSpec
CONSTANTS
    j1 = j1
    j2 = j2
    c1 = c1
    NoNote = NoNote
    Jobs <- MC_Jobs
    Cancels <- MC_NoCancels
    FaultKinds <- MC_DbDrop
    MaxFaults = 1
PROPERTIES
    NotificationsShown
CHECK_DEADLOCK FALSE
