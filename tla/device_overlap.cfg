SPECIFICATION Spec
CONSTANTS
    c1 = c1
    c2 = c2
    i1 = i1
    ConfigCalls = {c1, c2}
    TxConfigs = {}
    InfoCalls = {i1}
    None = None
    Unchecked = Unchecked
    MaxTries = 2
    InfoFlush = 1
    Keepalive = FALSE
    Sequential = FALSE
    MaxChunk = 2
    MaxFrames = 0
    MaxRx = 2
    MaxOpening = 1
    MaxCloses = 1
    MaxFaults = 0
VIEW DeviceView
SYMMETRY ExchangeConfigs
INVARIANTS TypeOK WaiterMatchesMode WaiterHasTimer DeliveredInOrder
CHECK_DEADLOCK FALSE
