SPECIFICATION Spec
CONSTANTS
    j1 = j1
    j2 = j2
    c1 = c1
    NoNote = NoNote
    Jobs <- MC_OneJob
    Cancels <- MC_Cancels
    FaultKinds <- MC_NoFaults
    MaxFaults = 0
PROPERTIES
    CancelsOnlyQueued
CHECK_DEADLOCK FALSE
