SPECIFICATION FedSpec
CONSTANTS
    Thread = {"main", "worker"}
    Main = "main"
    Signal = {"INT", "KILL"}
    Catchable = {"INT"}
    Configurations <- MCConfigurations
    Defaults <- MCDefaults
    MaxSignals = 2
    Programs = {"application", "camera_consumer", "interrupted_consumer"}
INVARIANTS
    TypeOK
    DispositionsRestored
    ChainReachesApplication
    OnlySignalsEndIt
    StopIsKept
PROPERTIES
    StopEndsEveryLoop
    HandlersReturn
    StoppedLoopsWindDown
    HandlersWindDown
CHECK_DEADLOCK FALSE
