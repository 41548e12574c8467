SPECIFICATION Spec
CONSTANTS
    IdWords = 3
    Sizes = {1, 2, 3}
    MaxFrame = 4
    MaxPackets = 3
INVARIANTS FramesArePackets
CHECK_DEADLOCK FALSE
