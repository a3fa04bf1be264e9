SPECIFICATION FairSpec
CONSTANTS
    orig = orig
    clone = clone
    relay = relay
    shared = shared
    own = own
    x = x
    y = y
    z = z
    Node = {orig, clone, relay}
    Origin = {shared, own}
    Line = {x, y, z}
    Conn = {c1}
    OriginOf <- ClonedOrigin
    Transcript <- OwnLines
    Reachable <- FullMesh
    BucketSize = 2
    BatchSize = 1
    LocalLimit = 1
    Window = 1
    MaxFaults = 0
INVARIANTS
    UniqueKeys
    ForkSurfaced
PROPERTY
    ForkNoticed
