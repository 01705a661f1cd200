SPECIFICATION Spec
CONSTANTS
    SequenceModulus = 2
    RestartInitializes = FALSE
    ConsumerCalls = {"Run"}
    RetriesUnserved = TRUE
INVARIANTS
    NeverTorn
