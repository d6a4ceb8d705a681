CONSTANTS
    r1 = r1
    r2 = r2
    u1 = u1
    u2 = u2
    i1 = i1
    i2 = i2
    e1 = e1
    NoUser = NoUser
    NoInvitation = NoInvitation
    Request <- MCRequest
    User <- MCUser
    Founder = u1
    Invitation <- OneInvitation
    EmailOf <- MCEmailOf
    Offer <- OneOffer

SPECIFICATION Spec

CHECK_DEADLOCK FALSE

INVARIANT NeverOwnerless
