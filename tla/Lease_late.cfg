SPECIFICATION FairSpec
CONSTANTS
    c1 = c1
    c2 = c2
    s1 = s1
    NoClient = NoClient
    Clients = {c1}
    Slots = {s1}
    MaxIds = 7
    TTL = 3
    ClampMin = 1
    ClampMax = 4
    IoTimeout = 1
    ConnectTimeout = 1
    Backoff = 1
    LockTimeout = 1
    JoinTimeout = 1
    MaxPause = 1
    MaxPipe = 1
    Faults = {"crash", "stall", "break", "refuse", "restart"}
INVARIANT GoneMeansGone
PROPERTY DropReturns
PROPERTY DisplacedOnlyByExpiry
