SPECIFICATION Spec
CONSTANTS
    unix = unix
    other = other
    Gone = Gone
    Stream = {unix, other}
    HasIdentity = {unix}
    FingerprintSize = 2
    MaxRead = 3
    BatchSize = 1
    Reused = TRUE
    MaxLines = 3
    MaxFiles = 2
    MaxFaults = 0
INVARIANT
    NothingSkipped
