\* One lamp: the remote switches it on, button A follows.
CONSTANTS
    a = a
    b = b
    c = c
    Ids = {a}
    IgnoredIds = {}
    NoId = NoId
    ZeroId = ZeroId
    None = None
    MaxLevel = 1
    OffLevel = 1
    MaxByte = 2
    QueueLen = 1
SPECIFICATION Spec
PROPERTY
    IncreaseIsSentAsOn
