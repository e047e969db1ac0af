SPECIFICATION Spec
CONSTANTS
    c1 = c1
    c2 = c2
    ConfigCalls = {c1, c2}
    TxConfigs = {}
    None = None
    MaxTries = 2
    Sequential = FALSE
    MaxSockets = 2
    MaxOpening = 1
    MaxFrames = 0
    MaxRx = 1
    MaxFaults = 0
VIEW WiFiView
SYMMETRY ExchangeConfigs
INVARIANTS WaiterIsTimed OnlyCurrentSocketListens EmitsOnce
CHECK_DEADLOCK FALSE
