SPECIFICATION FairSpec
CONSTANTS
    SequenceModulus = 1
    RestartInitializes = FALSE
    ConsumerCalls = {"ConsumeSingle"}
    RetriesUnserved = TRUE
PROPERTIES
    ConsumeSingleReturns
