SPECIFICATION ContainersSpec
CONSTANTS
    NodeIds = {1, 2, 3, 4}
    Items = {1, 2, 3}
    Keys = {k1, k2, k3, k4}
SYMMETRY Exchangeable
INVARIANTS
    LinksInverse
    RingWhole
PROPERTIES
    Refines
    
CHECK_DEADLOCK FALSE
