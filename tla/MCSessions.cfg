CONSTANTS
    u1 = u1
    u2 = u2
    t1 = t1
    t2 = t2
    r1 = r1
    r2 = r2
    NoUser = NoUser
    NoToken = NoToken
    User <- MCUser
    Token <- MCToken
    Request <- MCRequest
    Name <- MCName
    TTL = 2
    SeenInterval = 1
    MaxTime = 3
    MaxPassword = 1
    MaxOrganizations = 3

SPECIFICATION Spec

SYMMETRY MCSymmetry

CHECK_DEADLOCK FALSE

INVARIANTS
    SessionsVerified
    SlugsInOrder

PROPERTIES
    EndsForCause
