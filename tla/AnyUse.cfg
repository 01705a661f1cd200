SPECIFICATION CountedFairSpec
CONSTANTS
    SequenceModulus = 1
    RestartInitializes = TRUE
    ConsumerCalls = {"Run", "ConsumeSingle"}
    RetriesUnserved = TRUE
INVARIANTS
    ConsumesAwaitedSlot
    AnsweredInTime
PROPERTIES
    HandshakeCompletes
