SPECIFICATION Spec
CONSTANTS
    Processors = {p1}
    Workers = {w1, w2}
    NoWorker = NoWorker
    Hooks = {h1}
    Concurrency = 1
    IsTest = FALSE
INVARIANT
    DisposeStops
