CONSTANTS
    t1 = t1
    t2 = t2
    e1 = e1
    f1 = f1
    f2 = f2
    NoCron = NoCron
    NoTime = NoTime
    Keep = Keep
    Ticker <- MCTicker
    Editor <- MCEditor
    Workflow <- OneWorkflow
    Creation <- MCCreation
    Edit <- MCEdit
    Period = {1, 2}
    MaxTime = 4
    MaxCrashes = 1

SPECIFICATION Spec

SYMMETRY MCSymmetry

CHECK_DEADLOCK FALSE

INVARIANTS
    ScheduleIsSet
    EnqueuedOnce

PROPERTIES
    PassedOverIsServed
