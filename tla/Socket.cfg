SPECIFICATION FairSpec
CONSTANTS
    PacketSize = 2
    BufferSize = 3
    MaxPackets = 4
  
PROPERTIES OpenSocketDelivers ClosedSocketIsReleased
CHECK_DEADLOCK FALSE
