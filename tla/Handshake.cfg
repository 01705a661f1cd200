SPECIFICATION CountedFairSpec
CONSTANTS
    SequenceModulus = 1
    RestartInitializes = FALSE
    ConsumerCalls = {"Run"}
    RetriesUnserved = FALSE
INVARIANTS
    TypeOK
    HandshakeInv
    NeverTorn
    AnsweredInTime
PROPERTIES
    FreshDelivery
    HandedOverSlotIsFrozen
    ImplementsHandoff
    StreamKeepsFlowing
