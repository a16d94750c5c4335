CONSTANTS
    a = a
    b = b
    x = x
    xy = xy
    Clients = {a, b}
    Names = {x}
    IntSpan = 64
    LongMax = 511
    Contents <- SecondIsNo
    Local <- BHasAll
    Within <- NoOverlap
    Hashes = {1}
    ConnSets <- TwoUp
    Preloads <- Whole
    MaxLine = 2
    ListCap = 6
    MaxPuts = 2
    MaxGets = 1
    MaxLists = 0
SPECIFICATION Spec
INVARIANTS
    InStep
    
PROPERTY PiecesGrow
CHECK_DEADLOCK FALSE
