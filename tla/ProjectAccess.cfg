SPECIFICATION TrailSpec
CONSTANTS
    ann = ann
    bob = bob
    i1 = i1
    a1 = a1
    a2 = a2
    c1 = c1
    r1 = r1
    g1 = g1
    g2 = g2
    Nobody = Nobody
    Org = Org
    Founder = ann
    Users <- MC_Users
    Managers <- MC_Managers
    Invites <- MC_Invites
    Accepts <- MC_Accepts
    Cancels <- MC_Cancels
    Removals <- MC_Removals
    Changes <- MC_Changes
    Permissions <- MC_Permissions
SYMMETRY Interchangeable
INVARIANTS
    AcceptedAreMembers
    GrantedAreMembers
PROPERTIES
    CancelledNeverJoins
    BornWithAdmin
    ImplementsPolicy
CHECK_DEADLOCK FALSE
