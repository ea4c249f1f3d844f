SPECIFICATION Spec
CONSTANTS
    AuthSize = 3
    HeaderSize = 3
    MaxPacketSize = 3
    Packets <- MCPackets
    MaxPackets = 3
INVARIANTS
    DeliveredInOrder
PROPERTIES
    AllDelivered
CHECK_DEADLOCK FALSE
