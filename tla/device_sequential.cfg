SPECIFICATION FairSpec
CONSTANTS
    c1 = c1
    c2 = c2
    i1 = i1
    ConfigCalls = {c1}
    TxConfigs = {c1}
    InfoCalls = {i1}
    None = None
    Unchecked = Unchecked
    MaxTries = 2
    InfoFlush = 1
    Keepalive = TRUE
    Sequential = TRUE
    MaxChunk = 2
    MaxFrames = 1
    MaxRx = 1
    MaxOpening = 1
    MaxCloses = 1
    MaxFaults = 1
INVARIANTS NoFrameLost FirstTryOkMeansApplied FrameKeepsItsConfig
PROPERTIES Settles
CHECK_DEADLOCK FALSE
