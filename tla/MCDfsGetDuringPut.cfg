CONSTANTS
    a = a
    b = b
    x = x
    xy = xy
    Clients = {a, b}
    Names = {x}
    IntSpan = 64
    LongMax = 511
    Contents <- FiveBytes
    Local <- AllLocal
    Within <- NoOverlap
    Hashes = {1}
    ConnSets <- TwoUp
    Preloads <- Nothing
    MaxLine = 2
    ListCap = 6
    MaxPuts = 1
    MaxGets = 1
    MaxLists = 0
SPECIFICATION Spec
INVARIANT GotIntact
