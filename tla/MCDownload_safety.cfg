SPECIFICATION Spec
CONSTANTS
    Hosts = {h1, h2}
    Workers = {w1, w2}
    Uint16Max = 65535
    SegmentsCount = 2
    Int8Half = 2
    TIMEOUT_COUNTER_LIMIT = 1
    StartCounters = {0}
SYMMETRY Symmetry
INVARIANTS
    TypeOK
    NoLeakedSegment
    CompletedHasData
    AwakeForFree
