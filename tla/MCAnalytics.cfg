CONSTANTS
    s1 = s1
    s2 = s2
    e1 = e1
    c1 = c1
    r1 = r1
    r2 = r2
    Subscribed <- MCSubscribed
    PriceOf <- MCPriceOf
    Status <- MCStatus
    Entry <- MCEntry
    Call <- MCCall
    Summary <- MCSummary
    Days <- MCDays
    DaysPerMonth = 2
    MaxDay = 2
    MaxChanges = 2
    MaxSnapshots = 2

SPECIFICATION AnalyticsSpec

SYMMETRY MCSymmetry

CHECK_DEADLOCK FALSE

INVARIANTS
    SpendRecorded
    MarginsRight

PROPERTY SnapshotWitnessed
