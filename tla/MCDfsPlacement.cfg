CONSTANTS
    IntSpan = 64
    LongMax = 511
    MaxDigest = 700
    MaxFile = 25
SPECIFICATION Spec
INVARIANTS
    LayoutIsRing
    CoverIffNoAdjacentDown
    SplitLossless
