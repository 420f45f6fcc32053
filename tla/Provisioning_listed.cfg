\* The list of access points on the Setting page.
CONSTANTS
    x = x
    y = y
    ap1 = ap1
    ap2 = ap2
    ap3 = ap3
    Empty = Empty
    Values = {x, y}
    Forms <- TwoNetworks
    ScanResults <- ThreeApsFound
    SwitchQueueLen = 2
    WebQueueLen = 2
    MaxForms = 1
    MaxInFlight = 1
    MaxMissed = 1
SPECIFICATION ProvSpec
INVARIANT
    ListsLastScan
