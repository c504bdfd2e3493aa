SPECIFICATION FairSpec
CONSTANTS
    Executors = {e1, e2}
    NoOwner = NoOwner
    LockTimeout = 2
    AfterSuccess = 1
    RefreshInterval = 1
    MaxDelay = 0
    MaxRedisErrors = 1
PROPERTIES
    CrashFreesLock JobKeepsRunning DisposalFreesLock
