SPECIFICATION BuildSpec
CONSTANTS
    Writers = {w1, w2}
    Fold <- Folding
    Unsafe = {dots}
    INDEX = INDEX
    MANIFEST = MANIFEST
    Names <- SomeNames
    Nothing = Nothing
    Foreign = Foreign
    Requests <- SomeRequests
    MaxRenders = 3
    fig = fig
    FIG = FIG
    MANIFESTJSON = MANIFESTJSON
    dots = dots
SYMMETRY WriterSymmetry
INVARIANTS
    UnrelatedIsKept
    InputsAreKept
PROPERTIES
    PublishesAtomically
CHECK_DEADLOCK FALSE
