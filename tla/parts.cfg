SPECIFICATION PartsSpec
CONSTANTS
    Duplex = TRUE
    Freqs = {0, 1, 9, 10}
    Mods = {0, 1}
    Powers = {0, 1}
    Refusable = {}
    SingleRefusable = {"mod", "power"}
    Base = 4
    BodyCommands = {1}
    InfoCommand = 3
    InBufSize = 2
    Bodies <- CodeBodies
    MaxLen = 3
    Sources = {"usb", "udp"}
    MaxValue = 9
    MaxBody = 2
    MaxItems = 3
    MaxResets = 1
    MaxAttempts = 2
    MaxText = 3
    MaxCred = 2
    BodySize = 12
    Texts <- ShortTexts
    TextLen = 3
    RawBodies <- ShortBodies
    RawLen = 6
    Channels = {0, 1}
    TxPowers = {2, 14}
    Preambles = {0, 8}
    Keys = {"k1", "k2"}
    NoKey = "none"
VIEW PartsView
INVARIANTS
    ListensWithRx NoSelfEcho NoPacketForgotten SingleChipRetunes
     OnlyWhatWasSent StoredIsExpected RunsAsTold
    AlignedFrameComesOut OnlyReceivedFrames 
    OnlySentIsWritten AgreeingEndsDeliver
CHECK_DEADLOCK FALSE
