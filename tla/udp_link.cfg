SPECIFICATION Spec
CONSTANTS
    W = 3
    SeqMod = 5
    MaxSends = 6
    MaxStarts = 1
    MaxReceivers = 1
INVARIANTS TypeOK WindowIsHistory DropsOnlyOldOrSeen
PROPERTIES HandsOverOnce
CHECK_DEADLOCK FALSE
