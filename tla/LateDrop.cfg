CONSTANTS
    LAN_SIZE = 2
    ARP_TTL = 1
    ARP_CHECK_EVERY = 1
    ARP_MAX_TRIES = 2
    TRIES_MOD = 3
    Address <- MCAddress
    Mac = {"m1", "m2"}
    Iface <- MCIface
    NoMac = NoMac
    NoIface = NoIface
    Absent = Absent
    BUFFSIZE = 2
    PACKET_TOO_OLD = 1
    Packet <- MCPacket
    NoPacket = NoPacket
    Ip <- MCIp
    Routes = 2
    RouteOf <- MCRouteOf
    Gateway <- MCGateway
    Interface <- MCInterface
    OwnIp <- MCOwnIp
    OurSubnet <- MCOurSubnet
    Flow <- MCTwoWay
    Reply <- MCReply
SPECIFICATION RouterFairSpec
PROPERTIES
    DroppedWhenOld
CHECK_DEADLOCK FALSE
