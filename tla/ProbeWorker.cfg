SPECIFICATION FairObserveSpec
CONSTANTS
    k1 = k1
    k2 = k2
    NoCapture = NoCapture
    Captures = {k1, k2}
    MaxQueue = 2
    Uses = {"flash", "again", "close", "cancel"}
    Watched = k1
    MaxChan = 2
    Budget = 2
    Newline = "n"
    Spaces = {"n", "s"}
    Alphabet = {"m", "n", "s"}
    ReadSize = 2
    MaxLine = 2
CHECK_DEADLOCK FALSE
INVARIANT TypeOK
PROPERTY LinesAreTheText
PROPERTY SilenceIsWatched
PROPERTY SilencedByCommandOnly
PROPERTY DroppedCaptureStops
PROPERTY WorkerEnds
PROPERTY CallsReturn
