CONSTANTS
    LAN_SIZE = 1
    ARP_TTL = 600
    ARP_CHECK_EVERY = 10
    ARP_MAX_TRIES = 5
    TRIES_MOD = 256
    Address = {1}
    Mac = {m1}
    Iface = {e1}
    NoMac = NoMac
    NoIface = NoIface
    Absent = Absent
SPECIFICATION ArpFairSpec
PROPERTIES
    DeadUntilAnswered
CHECK_DEADLOCK FALSE
