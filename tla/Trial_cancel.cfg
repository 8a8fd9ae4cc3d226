SPECIFICATION Spec
CONSTANTS
    Trials = 2
    MaxAttempts = 2
    MaxChildren = 2
    SafeChars = {"a", "_"}
    Names <- MCNames
    MaxLines = 0
    MaxEntries = 3
    Faults = FALSE
    Bodies = {"cancel"}
INVARIANT StartedIsRemembered
