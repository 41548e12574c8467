SPECIFICATION Spec
CONSTANTS
    IdWords = 3
    Sizes = {1, 2, 3}
    MaxFrame = 4
    MaxPackets = 4
PROPERTIES FirstFrameIsPacket IsInOrderDelivery
CHECK_DEADLOCK FALSE
