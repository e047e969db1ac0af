SPECIFICATION Spec
CONSTANTS
    p1 = p1
    p2 = p2
    Peers = {p1, p2}
    Offsets = {0, 2, 6}
    W = 3
    NonceMod = 8
    MaxFrames = 3
    MaxStarts = 1
    MaxDamaged = 1
SYMMETRY ExchangePeers
INVARIANTS TypeOK WindowIsHistory RejectsOnlyOldAlone
PROPERTIES DeliversOnce
CHECK_DEADLOCK FALSE
