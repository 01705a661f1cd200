SPECIFICATION FairSpec
CONSTANTS
    Thread = {"main"}
    Main = "main"
    Signal = {"INT", "TERM"}
    Catchable = {"INT", "TERM"}
    Configurations <- MCConfigurations
    Defaults <- MCDefaultConfiguration
    MaxSignals = 1
    Programs = {"interrupted_consumer"}
PROPERTIES
    HandledSignalEndsConsumer
CHECK_DEADLOCK FALSE
