SPECIFICATION FairSpec
CONSTANTS
    Trials = 2
    MaxAttempts = 2
    MaxChildren = 2
    SafeChars = {"a", "_"}
    Names <- MCNames
    MaxLines = 2
    MaxEntries = 3
    Faults = TRUE
    Bodies = {"cancel", "panic"}
INVARIANT TypeOK
INVARIANT PassNeedsDevice
INVARIANT LinePerTrial
INVARIANT EvidenceTells
PROPERTY SuiteEnds
