SPECIFICATION Spec
CONSTANTS
    p1 = p1
    p2 = p2
    Peers = {p1, p2}
    Offsets = {0, 4}
    W = 3
    NonceMod = 8
    MaxFrames = 3
    MaxStarts = 0
    MaxDamaged = 0
INVARIANTS RejectsOnlyPerPeer
CHECK_DEADLOCK FALSE
