SPECIFICATION Spec
CONSTANTS
    self = self
    near = near
    nobody = nobody
    lan = lan
    port = port
    bridge = bridge
    Self <- self
    Peer = {near}
    Nobody <- nobody
    Addr <- MCAddr
    Host <- MCHost
    Owner <- MCOwner
    Advertised <- MCAdvertised
    Source <- MCSource
    Ephemeral <- MCEphemeral
    Skew <- MCSkew
    StaticPeers = {bridge}
    Order <- MCOrder
    MaxBackoff = 15
    MaxInbound = 1
    MaxSuspends = 1
INVARIANTS
    TypeOK
    NudgeKept
    WakeForgets
    HealthHonest
PROPERTY
    Reached
