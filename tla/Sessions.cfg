SPECIFICATION Spec
CONSTANTS
    r1 = r1
    r2 = r2
    r3 = r3
    r4 = r4
    r5 = r5
    Requests <- MC_Requests
    Signup = Signup
    NoToken = NoToken
SYMMETRY MC_Symmetry
CHECK_DEADLOCK FALSE
INVARIANTS LinksAreUsedOnce DeadTokensStayDead OneSessionPerLogin
PROPERTIES LinksAreLostToOverlap
