SPECIFICATION FairSpec
CONSTANTS
    j1 = j1
    j2 = j2
    c1 = c1
    NoNote = NoNote
    Jobs <- MC_OneJob
    Cancels <- MC_Cancels
    FaultKinds <- MC_AllFaults
    MaxFaults = 2
INVARIANTS
    RowInv
    HandledMeansShown
PROPERTIES
    ImplementsFeed
    CreatedFinishes
    ShownWhileConnected
CHECK_DEADLOCK FALSE
