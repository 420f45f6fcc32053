\* Two lamps, one packet with the magic byte 0xA4, one level and one byte more,
\* one queued command.
CONSTANTS
    a = a
    b = b
    c = c
    Ids = {a, b, c}
    IgnoredIds = {c}
    NoId = NoId
    ZeroId = ZeroId
    None = None
    MaxLevel = 0
    OffLevel = 0
    MaxByte = 1
    QueueLen = 1
SPECIFICATION FairSpec
INVARIANTS
    TypeOK
    PairingStored
    TxToStoredLamp
PROPERTIES
    NoSilentRepairing
    PairingCompletes
