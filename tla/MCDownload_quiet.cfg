SPECIFICATION QuietSpec
CONSTANTS
    Hosts = {h1}
    Workers = {w1, w2, w3}
    Uint16Max = 65535
    SegmentsCount = 3
    Int8Half = 2
    TIMEOUT_COUNTER_LIMIT = 1
    StartCounters = {0}
SYMMETRY Symmetry
CHECK_DEADLOCK FALSE
INVARIANTS
    ExclusiveHolder
    CounterExact
    StoredIsComplete
PROPERTY ImplementsTransfer
