SPECIFICATION FairSpec
CONSTANTS
    a = a
    b = b
    d = d
    x = x
    y = y
    Node = {a, b, d}
    Origin = {a, b, d}
    Line = {x, y}
    Conn = {c1}
    OriginOf <- OwnOrigin
    Transcript <- OneCollector
    Reachable <- Chain
    BucketSize = 2
    BatchSize = 1
    LocalLimit = 1
    Window = 1
    MaxFaults = 1
INVARIANTS
    Inductive
PROPERTIES
    Replication
    ExchangesEnd
    ImplementsReplicas
