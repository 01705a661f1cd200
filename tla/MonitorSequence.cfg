SPECIFICATION Spec
CONSTANTS
    SequenceModulus = 4
    RestartInitializes = TRUE
    ReadModes = {"WaitForStableSnapshot"}
    MaxValidationAttempts = 8
    ReadRequests = {}
INVARIANTS
    SequenceMatches
