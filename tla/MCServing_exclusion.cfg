SPECIFICATION Spec
CONSTANTS
    Files = {f1}
    Conns = {c1}
    Downloads = {d1}
    Server = server
    None = none
INVARIANT ReadersExcludeWriters
