SPECIFICATION FairSpec
CONSTANTS
    Frames = 2
    None = None
INVARIANTS FramesArriveInOrder NoDeadlineWhileCopying NothingLeftOpen
PROPERTY TunnelEnds
CHECK_DEADLOCK FALSE
