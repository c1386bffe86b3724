CONSTANTS
    Bit <- MCBit
    Rank <- MCRank
    Dest <- MCDest
    Mask <- MCMask
    Name = {0, 1}
    LAN_SIZE = 1
    Ip <- MCIp
    MaxRoutes = 3
SPECIFICATION RtSpec
INVARIANTS
    RtTypeOK
    LongestPrefix
    DefaultIsLastResort
    
CHECK_DEADLOCK FALSE
