SPECIFICATION Spec
CONSTANTS
    Executors = {e1, e2}
    NoOwner = NoOwner
    LockTimeout = 5
    AfterSuccess = 3
    RefreshInterval = 2
    MaxDelay = 1
    MaxRedisErrors = 1
INVARIANTS
    LeaseMargins ExclusiveRun
PROPERTIES
    ImplementsLock
SYMMETRY ExecutorSymmetry
