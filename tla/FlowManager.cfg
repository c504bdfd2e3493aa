SPECIFICATION MCSpec
CONSTANTS
    Calls = {c1, c2, c3}
    Disposals = {d1, d2}
    Producers = {p1, p2}
    NoProducer = NoProducer
    LazyInitEnabled = TRUE
INVARIANTS
    NoLeakedProducer DisposeIsFinal
PROPERTIES
    CallsEnd
