CONSTANTS
    Clients = {p1, p2, p3}
    Rude = {}
    Width = 8
    PoolBegin = 2
    PoolEnd = 4
    MaxQueue = 1
SPECIFICATION Spec
SYMMETRY Symmetry
INVARIANT
    PoolRespected
