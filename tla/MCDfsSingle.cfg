CONSTANTS
    a = a
    b = b
    x = x
    xy = xy
    Clients = {a}
    Names = {x, xy}
    IntSpan = 64
    LongMax = 511
    Contents <- FiveBytes
    Local <- AllLocal
    Within <- XInXY
    Hashes = {1}
    ConnSets <- SomeUp
    Preloads <- SomeRest
    MaxLine = 2
    ListCap = 10
    MaxPuts = 1
    MaxGets = 1
    MaxLists = 1
SPECIFICATION Spec
INVARIANTS
    TypeOK
    StoredExactly
    GetIffDue
PROPERTIES
    ListTruthful
    CommandReturns
    PutDurable
