SPECIFICATION MCSpec
CONSTANTS
    Slots = {s1, s2, s3}
    MaxJobs = 3
    Fanout = 2
    Workers = {w1, w2, w3}
    NoWorker = NoWorker
    Attempts = 3
    MaxStalled = 1
    Retries = 1
    Deaths = 1
    Jobs = {j1, j2}
    Waiters = {w1, w2, w3}
    Processors = {p1}
CHECK_DEADLOCK FALSE
INVARIANTS
    BoundedOverflow HooksTellState ListedIsUnanswered StartedListens
PROPERTIES
    LossNeedsTwoMatches
