CONSTANTS
    Reqs = {r1, r2, r3}
    adm = adm
    bob = bob
    eve = eve
    p0 = p0
    p1 = p1
    Users = {adm, bob, eve}
    Projects = {p0, p1}
    Seeded = p0
    SeedUsers = {adm, bob}
    SeedRole <- MCSeedRole
    Inputs <- MCInputs
    Provider = "s3"
    MaxFaults = 1
SPECIFICATION Spec
SYMMETRY Symm
INVARIANTS
    ProjectsAreReachable
    StrayAccessHasCause
    GrantsAreKept
    RevokedStayOut
    LastSaveIsShown
    ReadsAgree
    ListedHaveObjects
    OrphansHaveCause
CHECK_DEADLOCK FALSE
