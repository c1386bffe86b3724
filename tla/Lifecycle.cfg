CONSTANTS
    Name <- MCName
    NumberOf <- MCNumberOf
    LAN_SIZE = 2
    Ip <- MCIp
    LowByte <- MCLowByte
    NoIp = NoIp
    Table <- MCTable
    File <- MCFile
    HwInfo <- MCHwInfo
    Sent <- MCSent
    HEADER = 2
    WHOLE = 4
    MaxPending = 1
    BadLine = BadLine
    NoFile = NoFile
    DefaultFile = "rtable"
    TemplateFile = "rtable.vrhost"
SPECIFICATION LifeFairSpec
INVARIANTS
    LifeTypeOK
    NumbersAgree
    AddressesFound
    HandshakeInOrder
    RoutesAreReceived
    PacketsVerified
    OverrunReadsNull
PROPERTIES
    EndsWhenTold
CHECK_DEADLOCK FALSE
