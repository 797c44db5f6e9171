CONSTANTS
    Clients = {p1, p2, rude1}
    Rude = {rude1}
    Width = 5
    PoolBegin = 2
    PoolEnd = 4
    MaxQueue = 2
SPECIFICATION Spec
SYMMETRY Symmetry
INVARIANTS
    TypeOK
    LeasesUnique
    QueueServed
    ExclusiveAddress
    BoundIsLeased
