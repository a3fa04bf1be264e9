SPECIFICATION Spec
CONSTANTS
    a = a
    b = b
    d = d
    x = x
    y = y
    Node = {a, b, d}
    Origin = {a, b, d}
    Line = {x, y}
    Conn = {c1, c2}
    OriginOf <- OwnOrigin
    Transcript <- OneCollector
    Reachable <- FullMesh
    BucketSize = 2
    BatchSize = 1
    LocalLimit = 1
    Window = 1
    MaxFaults = 0
SYMMETRY LineAndConnSymmetry
INVARIANTS
    TypeOK
    GapFree
    Authentic
    NoFalseFork
    CaughtUp
