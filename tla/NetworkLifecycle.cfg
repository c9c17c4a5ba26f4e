SPECIFICATION FairSpec
CONSTANTS
    Main = main
    Thread = {main, t1, t2, t3}
    Version = {v1, v2}
    Default = v1
    Supported = {v1}
    MaxCalls = 1
    None = None
INVARIANTS StateTellsClient StoppedAtExit
PROPERTIES StopIsTerminal CallsReturn
CHECK_DEADLOCK FALSE
