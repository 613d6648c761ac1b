SPECIFICATION Spec
CONSTANTS
    PacketSize = 2
    BufferSize = 3
    MaxPackets = 4
INVARIANT DelayedCloseSends
CHECK_DEADLOCK FALSE
