CONSTANTS
    B = 4
    MaxLen = 6
    Byte = {0, 1, 3}
SPECIFICATION ChecksumSpec
INVARIANTS
    ChecksumTypeOK
    IsRfc1071
    OddSwapsBytes
    UnchangedAccepted
    ChangeRefused
PROPERTIES
    FoldShrinks
CHECK_DEADLOCK FALSE
