CONSTANTS
    t1 = t1
    t2 = t2
    e1 = e1
    f1 = f1
    f2 = f2
    NoCron = NoCron
    NoTime = NoTime
    Keep = Keep
    Ticker <- MCTicker
    Editor <- MCEditor
    Workflow <- MCWorkflow
    Creation <- TwoCreation
    Edit <- TwoEdit
    Period = {2}
    MaxTime = 3
    MaxCrashes = 1

SPECIFICATION FairSpec

CHECK_DEADLOCK FALSE

PROPERTY DueIsServed
