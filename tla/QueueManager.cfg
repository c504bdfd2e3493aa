SPECIFICATION MCSpec
CONSTANTS
    Queues = {q1, q2}
    Calls = {c1, c2, c3}
    Starts = {{q1, q2}, {q1}, {}}
    LazyInitEnabled = TRUE
INVARIANTS
    NoLeakedQueue
PROPERTIES
    CallsEnd ExplicitFindsQueue
