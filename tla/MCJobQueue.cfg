CONSTANTS
    w1 = w1
    w2 = w2
    c1 = c1
    f1 = f1
    j1 = j1
    j2 = j2
    NoJob = NoJob
    NoLock = NoLock
    Worker <- MCWorker
    Caller <- MCCaller
    Workflow <- MCWorkflow
    Job <- MCJob
    WorkflowOf <- MCWorkflowOf
    MaxAttempts = 2
    LockTimeout = 1
    BaseBackoff = 1
    MaxCrashes = 1

SPECIFICATION FairSpec

INVARIANTS
    OneWorkerUnlessStolen
    AttemptsBounded

PROPERTIES
    TurnsKept
    EveryJobSettles
