SPECIFICATION LiveSpec
CONSTANTS
    MaxLines = 2
    MaxPackets = 2
    MaxBeacon = 2
INVARIANTS
    TypeOK
    SentInOrder
PROPERTIES
    PacketsLeave
    LinesComeOut
