CONSTANTS
    r1 = r1
    r2 = r2
    u1 = u1
    u2 = u2
    i1 = i1
    i2 = i2
    e1 = e1
    NoUser = NoUser
    NoInvitation = NoInvitation
    Request <- MCRequest
    User <- MCUser
    Founder = u1
    Invitation <- MCInvitation
    EmailOf <- MCEmailOf
    Offer <- MCOffer

SPECIFICATION Spec

SYMMETRY MCSymmetry

CHECK_DEADLOCK FALSE

INVARIANTS
    OwnerRemains
    InvitationsAccounted

PROPERTIES
    OwnersByOwners
    JoinsByInvitation
