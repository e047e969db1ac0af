SPECIFICATION Spec
CONSTANTS
    here = here
    other = other
    Addrs = {here, other}
    Local = here
    MinFrame = 2
    MaxLen = 3
    SegmentSize = 2
    Shapes <- FewShapes
    MaxFrames = 3
    MaxStops = 1
INVARIANTS TypeOK WholeFramesGetThrough AlignedLosesNothing ChunksDoNotMatter
PROPERTIES DeliversOnce
CHECK_DEADLOCK FALSE
