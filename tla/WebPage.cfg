\* One lamp, one level and 255, queues of one.
CONSTANTS
    a = a
    Ids = {a}
    IgnoredIds = {}
    NoId = NoId
    ZeroId = ZeroId
    None = None
    MaxLevel = 0
    OffLevel = 0
    MaxByte = 1
    QueueLen = 1
    WebQueueLen = 1
SPECIFICATION PageSpec
INVARIANTS
    PageTypeOK
    PageAgrees
VIEW PageView
ACTION_CONSTRAINT OneMishap
CONSTRAINT BrightnessOnly
