SPECIFICATION LiveSpec
CONSTANTS
    Hosts = {h1}
    Workers = {w1, w2}
    Uint16Max = 65535
    SegmentsCount = 1
    Int8Half = 2
    TIMEOUT_COUNTER_LIMIT = 1
    StartCounters = {0}
PROPERTY CompletedJoins
