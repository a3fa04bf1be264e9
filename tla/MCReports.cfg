SPECIFICATION Spec
CONSTANTS
    s1 = s1
    s2 = s2
    s3 = s3
    s4 = s4
    q1 = q1
    q2 = q2
    q3 = q3
    q4 = q4
    q5 = q5
    main = main
    d1 = d1
    d2 = d2
    Origin = {1, 2, 3}
    Self = 2
    Sealed = {1}
    Length <- Lengths
    Older <- FromOlderBuilds
    BatchSize = 2
    MaxFaults = 1
    Lower <- LowerCase
    Numeral <- Digits
    Drive <- Drives
    Directory <- Paths
    Price <- Rates
    Whole = 2
    MaxSegments = 1
    KeyOrder <- Order
    None = None
    Detached = Detached
    Synthetic = Synthetic
    OtherKey = OtherKey
    NoneKey = NoneKey
    Line <- Lines
INVARIANTS
    TypeOK
    MarkHonest
    Balanced
    Contained
PROPERTY
    Healed
