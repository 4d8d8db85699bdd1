SPECIFICATION SilentSpec
CONSTANTS
    Hosts = {h1, h2}
    Workers = {w1, w2}
    Uint16Max = 65535
    SegmentsCount = 1
    Int8Half = 6
    TIMEOUT_COUNTER_LIMIT = 4
    StartCounters = {0, 5}
CHECK_DEADLOCK FALSE
PROPERTY DownloadEnds
