SPECIFICATION Spec
CONSTANTS
    c1 = c1
    c2 = c2
    i1 = i1
    ConfigCalls = {c1, c2}
    TxConfigs = {c1, c2}
    InfoCalls = {}
    None = None
    Unchecked = Unchecked
    MaxTries = 2
    InfoFlush = 1
    Keepalive = FALSE
    Sequential = TRUE
    MaxChunk = 2
    MaxFrames = 0
    MaxRx = 0
    MaxOpening = 1
    MaxCloses = 0
    MaxFaults = 0
VIEW DeviceView
SYMMETRY ExchangeConfigs
INVARIANTS OkMeansApplied
CHECK_DEADLOCK FALSE
