SPECIFICATION Spec
CONSTANTS
    Jobs = {j1, j2}
    Waiters = {w1, w2, w3}
INVARIANTS
    NoMissedJob
