CONSTANTS
    w1 = w1
    w2 = w2
    c1 = c1
    f1 = f1
    j1 = j1
    r1 = r1
    r2 = r2
    NoJob = NoJob
    NoLock = NoLock
    NoRun = NoRun
    Worker <- MCWorker
    Caller <- MCCaller
    Workflow <- MCWorkflow
    Job <- MCJob
    WorkflowOf <- MCWorkflowOf
    Run <- MCRun
    Steps = 2
    Paid = {0}
    MaxAttempts = 2
    LockTimeout = 0
    BaseBackoff = 1
    MaxCrashes = 1
    MaxFaults = 1

SPECIFICATION RunnerSpec

SYMMETRY MCSymmetry

INVARIANTS
    StuckAccounted
    SpendAccounted
    PaidPerAttempt
    DoneMeansRan

PROPERTY RunsAreLogs
