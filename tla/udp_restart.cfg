SPECIFICATION Spec
CONSTANTS
    W = 3
    SeqMod = 5
    MaxSends = 3
    MaxStarts = 1
    MaxReceivers = 0

PROPERTIES AcceptsEachSeqOnce
CHECK_DEADLOCK FALSE
