SPECIFICATION StorageSpec
CONSTANTS
    f1 = f1
    f2 = f2
    d1 = d1
    d2 = d2
    g1 = g1
    NoFile = NoFile
    Files <- MC_Files
    Deletes <- MC_Deletes
    Downloads <- MC_Downloads
INVARIANTS
    ActiveIsReadable
    OrphansHaveCause
    FailedReadsHaveCause
CHECK_DEADLOCK FALSE
