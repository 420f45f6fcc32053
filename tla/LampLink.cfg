\* Two levels, a byte beyond them and 255; one unread packet.
CONSTANTS
    a = a
    c = c
    Ids = {a, c}
    IgnoredIds = {c}
    LampId = a
    NoId = NoId
    ZeroId = ZeroId
    None = None
    MaxLevel = 1
    OffLevel = 1
    MaxByte = 3
    QueueLen = 1
    RxLen = 1
SPECIFICATION LinkSpec
INVARIANTS
    LinkTypeOK
    MirrorsLamp
    OnPacketCarriesSettings
PROPERTY
    RangeKept
VIEW LinkView
CONSTRAINT HueInRange
