SPECIFICATION FairSpec
CONSTANTS
    unix = unix
    other = other
    Gone = Gone
    Stream = {unix, other}
    HasIdentity = {unix}
    FingerprintSize = 2
    MaxRead = 3
    BatchSize = 1
    Reused = FALSE
    MaxLines = 3
    MaxFiles = 2
    MaxFaults = 1
INVARIANTS
    TypeOK
    NothingSkipped
    ResumesAtLine
PROPERTY
    Collected
