\* One lamp, one network.
CONSTANTS
    a = a
    x = x
    Ids = {a}
    IgnoredIds = {}
    NoId = NoId
    ZeroId = ZeroId
    None = None
    MaxLevel = 0
    OffLevel = 0
    MaxByte = 1
    QueueLen = 2
    Empty = Empty
    Values = {x}
    ScanResults <- NoApFound
    SwitchQueueLen = 2
    LedQueueLen = 5
    MaxForms = 1
SPECIFICATION StatusSpec
INVARIANT
    ClientMeansConnected
VIEW StatusView
