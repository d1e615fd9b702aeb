SPECIFICATION Spec
CONSTANTS
    NItems = 2
    MaxDeltas = 2
PROPERTY FrameOrder
INVARIANT ContentOnce
INVARIANT ToldAsSent
PROPERTY StreamReleased
CHECK_DEADLOCK FALSE
