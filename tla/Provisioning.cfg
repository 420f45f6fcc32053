\* Two networks, three forms, one access point in sight.
CONSTANTS
    x = x
    y = y
    ap1 = ap1
    ap2 = ap2
    ap3 = ap3
    Empty = Empty
    Values = {x, y}
    Forms <- TwoNetworks
    ScanResults <- OneApFound
    SwitchQueueLen = 2
    WebQueueLen = 2
    MaxForms = 3
    MaxInFlight = 2
    MaxMissed = 1
SPECIFICATION FairProvSpec
INVARIANTS
    ProvTypeOK
    SettledOnStored
PROPERTY
    Settles
ACTION_CONSTRAINTS OthersSucceed FewerForms
