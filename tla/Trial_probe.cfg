SPECIFICATION Spec
CONSTANTS
    Trials = 2
    MaxAttempts = 1
    MaxChildren = 1
    SafeChars = {"a", "_"}
    Names <- MCNames
    MaxLines = 0
    MaxEntries = 3
    Faults = FALSE
    Bodies = {}
INVARIANT NoBusyProbe
