SPECIFICATION FairSpec
CONSTANTS
    SequenceModulus = 2
    RestartInitializes = TRUE
    ReadModes = {"SkipIfBusy", "WaitForStableSnapshot", "Opportunistic"}
    MaxValidationAttempts = 2
    ReadRequests = {}
INVARIANTS
    ValidationInv
PROPERTIES
    ReadIntoReturns
    StopEndsRun
    CallsWindDown
