SPECIFICATION DisorderlySpec
CONSTANTS
    a = a
    b = b
    x = x
    y = y
    z = z
    share = share
    copy = copy
    Node = {a, b}
    Origin = {a, b}
    Line = {x, y, z}
    OriginOf <- OwnOrigin
    Transcript <- Writers
    BucketSize = 2
    BundleSize = 2
    LocalLimit = 3
    Place = {share, copy}
    Folder <- Synced
    Meshed = {}
    MaxFaults = 0
INVARIANT
    GapFree
