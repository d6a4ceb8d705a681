CONSTANTS
    r1 = r1
    r2 = r2
    s1 = s1
    s2 = s2
    c1 = c1
    monthly = monthly
    yearly = yearly
    once = once
    NoPrice = NoPrice
    NoTime = NoTime
    Request <- MCRequest
    Subscription <- MCSubscription
    CustomerOf <- MCCustomerOf
    Price <- MCPrice
    Interval <- MCInterval
    Offer <- MCOffer
    Served <- MCServed
    MaxRenewals = 2
    MaxCrashes = 1

SPECIFICATION Spec

SYMMETRY MCSymmetry

CHECK_DEADLOCK FALSE

INVARIANTS
    DatesAgree
    PeriodsBilled
    NoTimeBilledTwice
    LiveUnique

PROPERTIES
    CanceledIsFinal
