SPECIFICATION ObserveSpec
CONSTANTS
    k1 = k1
    k2 = k2
    NoCapture = NoCapture
    Captures = {k1, k2}
    MaxQueue = 2
    Uses = {"flash"}
    Watched = k1
    MaxChan = 0
    Budget = 1
    Newline = "n"
    Spaces = {"n"}
    Alphabet = {"n"}
    ReadSize = 0
    MaxLine = 1
CHECK_DEADLOCK FALSE
INVARIANT SilenceIsHonest
