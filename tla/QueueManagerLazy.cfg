SPECIFICATION Spec
CONSTANTS
    Queues = {q1, q2}
    Calls = {c1, c2}
    Starts = {{q1, q2}}
    LazyInitEnabled = TRUE
PROPERTIES
    LazyStartsQueue
