SPECIFICATION Spec
CONSTANTS
    None = None
    NotHex = NotHex
    NET_VERSION = 0
    PROTOCOL_VERSION = 1
    MaxFrame = 3
    HeaderSize = 2
    BodySize = 2
    Worlds <- MCWorlds
    Names = {"a0", "a1"}
    MaxPublished = 2
CHECK_DEADLOCK FALSE
INVARIANT TypeOK
INVARIANT NodeIsConfigured
INVARIANT HandshakeAgrees
INVARIANT DoctorForesees
