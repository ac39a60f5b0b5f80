SPECIFICATION Spec
CONSTANTS
    Reqs = {r1, r2, r3}
    Replicas = {one, two}
    p0 = p0
    gone = gone
    Seeded = p0
    Inputs <- MCInputs
    Matchings <- MCMatchings
    MaxFaults = 1
SYMMETRY Symmetry
INVARIANTS
    AnsweredStays
    LostSessionHasCause
    AnswersAreBest
CHECK_DEADLOCK FALSE
