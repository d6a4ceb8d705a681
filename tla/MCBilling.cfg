CONSTANTS
    r1 = r1
    r2 = r2
    d1 = d1
    d2 = d2
    d3 = d3
    d4 = d4
    p1 = p1
    s1 = s1
    NoSubscription = NoSubscription
    NoNumber = NoNumber
    Request <- MCRequest
    Invoice <- MCInvoice
    Subscription <- MCSubscription
    SubscriptionOf <- MCSubscriptionOf
    Total <- MCTotal
    Base = 10
    Width = 1
    Amount = {0, 1}
    MaxReceived = 2

SPECIFICATION Spec

SYMMETRY MCSymmetry

CHECK_DEADLOCK FALSE

INVARIANTS
    NumbersSequential
    MoneyAgrees
    PastDueExplained

PROPERTIES
    MovesAllowed
