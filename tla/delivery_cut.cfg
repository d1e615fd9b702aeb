SPECIFICATION Spec
CONSTANTS
    NItems = 1
    MaxDeltas = 1
INVARIANT NoForgedSuccess
CHECK_DEADLOCK FALSE
