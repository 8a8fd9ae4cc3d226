SPECIFICATION FairSpec
CONSTANTS
    p1 = p1
    BadPin = BadPin
    NoPin = NoPin
    Pins = {p1}
    Headroom = 2
    Modes = {"input", "output"}
    Levels = {"low", "high"}
INVARIANT TypeOK
INVARIANT PinInOnePlace
INVARIANT StopSignalIsExact
INVARIANT HeadroomSuffices
PROPERTY QuietAfterDisable
PROPERTY DisableFreesPin
