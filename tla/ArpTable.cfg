CONSTANTS
    LAN_SIZE = 3
    ARP_TTL = 1
    ARP_CHECK_EVERY = 1
    ARP_MAX_TRIES = 2
    TRIES_MOD = 3
    Address <- Colliding
    Mac = {m1}
    Iface = {e1}
    NoMac = NoMac
    NoIface = NoIface
    Absent = Absent
SPECIFICATION ArpSpec
INVARIANTS
    ArpTypeOK
    LookupIntegrity
    EntryKinds
PROPERTIES
    ImplementsMap
    StandingChanges
CHECK_DEADLOCK FALSE
