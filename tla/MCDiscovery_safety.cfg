SPECIFICATION Spec
CONSTANTS
    Nodes = {n1, n2}
    Files = {xd, f1}
    LEFT_MARGIN = 20
    XD = xd
    BEACON_MAX_COUNT = 1
    MaxDatagrams = 3
SYMMETRY DiscoverySymmetry
INVARIANTS
    TypeOK
    GraphConsistent
    OnlyOwnersCredited
