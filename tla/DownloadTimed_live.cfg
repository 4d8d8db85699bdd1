SPECIFICATION LiveSpec
CONSTANTS
    Hosts = {h1}
    Workers = {w1, w2}
    Uint16Max = 65535
    SegmentsCount = 1
    Int8Half = 5
    TIMEOUT_COUNTER_LIMIT = 1
    StartCounters = {3}
PROPERTIES
    OneHostEnds
    JoinedUnlessAsleep
