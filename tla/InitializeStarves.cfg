SPECIFICATION FairSpec
CONSTANTS
    SequenceModulus = 1
    RestartInitializes = TRUE
    ConsumerCalls = {"Run"}
    RetriesUnserved = FALSE
PROPERTIES
    StreamKeepsFlowing
