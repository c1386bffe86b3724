CONSTANTS
    BUFFSIZE = 4
    PACKET_TOO_OLD = 2
    Packet = {p1, p2}
    NoPacket = NoPacket
SPECIFICATION BufSpec
INVARIANTS
    BufTypeOK
    ListIntegrity
PROPERTIES
    ImplementsQueue
CHECK_DEADLOCK FALSE
