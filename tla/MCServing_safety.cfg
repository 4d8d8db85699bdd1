SPECIFICATION Spec
CONSTANTS
    Files = {f1, f2}
    Conns = {c1, c2}
    Downloads = {d1, d2}
    Server = server
    None = none
SYMMETRY ServingSymmetry
INVARIANTS
    TypeOK
    NoHandlerOfDeleted
    WriterStaysLocked
