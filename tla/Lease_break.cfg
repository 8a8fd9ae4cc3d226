SPECIFICATION Spec
CONSTANTS
    c1 = c1
    c2 = c2
    s1 = s1
    NoClient = NoClient
    Clients = {c1, c2}
    Slots = {s1}
    MaxIds = 7
    TTL = 6
    ClampMin = 1
    ClampMax = 7
    IoTimeout = 1
    ConnectTimeout = 1
    Backoff = 1
    LockTimeout = 2
    JoinTimeout = 2
    MaxPause = 0
    MaxPipe = 1
    Faults = {"break"}
SYMMETRY Symmetry
INVARIANT Exclusive
