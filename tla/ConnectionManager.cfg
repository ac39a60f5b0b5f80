SPECIFICATION FairSpec
CONSTANTS
    s1 = s1
    s2 = s2
    p1 = p1
    p2 = p2
    NoProject = NoProject
    Sockets <- MC_Two
    Projects <- MC_Projects
    ProjectOf <- MC_AllOnOne
    MaxWrites = 2
INVARIANTS
    RegistryInv
    ConnectedKnowsAnnounced
PROPERTY DeadAreDropped
CHECK_DEADLOCK FALSE
