SPECIFICATION FairSpec
CONSTANTS
    Processors = {p1, p2}
    Workers = {w1, w2}
    NoWorker = NoWorker
    Hooks = {h1, h2, h3}
    Concurrency = 2
    IsTest = FALSE
INVARIANTS
    OneWorkerPerQueue
PROPERTIES
    DisposeDrains DisposeEnds
