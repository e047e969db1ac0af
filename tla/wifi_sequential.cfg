SPECIFICATION FairSpec
CONSTANTS
    c1 = c1
    c2 = c2
    ConfigCalls = {c1}
    TxConfigs = {c1}
    None = None
    MaxTries = 2
    Sequential = TRUE
    MaxSockets = 1
    MaxOpening = 1
    MaxFrames = 1
    MaxRx = 2
    MaxFaults = 1
INVARIANTS FramesSurviveConfig 
PROPERTIES Settles
CHECK_DEADLOCK FALSE
