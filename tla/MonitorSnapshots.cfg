SPECIFICATION Spec
CONSTANTS
    SequenceModulus = 3
    RestartInitializes = FALSE
    ReadModes = {"Opportunistic"}
    MaxValidationAttempts = 2
    ReadRequests = {1}
INVARIANTS
    MonitoringTypeOK
    ValidationInv
    AcceptedIsWhole
    WrongNumberMeansOverwritten
PROPERTIES
    ReadsAreAtomic
