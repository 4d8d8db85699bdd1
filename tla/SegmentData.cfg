SPECIFICATION Spec
CONSTANTS
    SEGMENT_SIZE = 2
    Uint16Max = 2
    Uint32Max = 3
    FILE_NAME_LENGHT = 2
    NUL = nul
    Char = char
    Hosts = {h1, h2}
    MaxSize = 7
INVARIANTS
    TypeOK
    HeaderFaithful
    StoredFaithful
    WholeFileServed
