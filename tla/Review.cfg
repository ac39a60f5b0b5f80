SPECIFICATION Spec
CONSTANTS
    Reqs = {r1, r2, r3}
    Projects = {"p", "q"}
    Users = {"ann", "bob"}
    Mappings <- MCMappings
    ProjectOf <- MCProjectOf
    Created <- MCCreated
    FirstTypes <- MCFirstTypes
    Inputs <- MCInputs
    MaxFaults = 1
SYMMETRY Symmetry
INVARIANTS
    EditsAreKept
    RevokedCannotWrite
    PagesMissNothing
    LastReplaceIsShown
CHECK_DEADLOCK FALSE
