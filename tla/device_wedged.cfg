SPECIFICATION Spec
CONSTANTS
    c1 = c1
    c2 = c2
    i1 = i1
    ConfigCalls = {c1}
    TxConfigs = {c1}
    InfoCalls = {}
    None = None
    Unchecked = Unchecked
    MaxTries = 2
    InfoFlush = 1
    Keepalive = FALSE
    Sequential = TRUE
    MaxChunk = 2
    MaxFrames = 0
    MaxRx = 0
    MaxOpening = 1
    MaxCloses = 1
    MaxFaults = 0
VIEW DeviceView
INVARIANTS AlreadyOpenMeansOpen
CHECK_DEADLOCK FALSE
