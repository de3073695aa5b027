\* Two workers with one tensor each save two checkpoints; a worker crashes and calls fail.
SPECIFICATION Spec
CONSTANTS
    w1 = w1
    w2 = w2
    bias = bias
    weight = weight
    x = x
    y = y
    Workers <- TwoWorkers
    Names <- OneName
    Contents <- TwoContents
    Dims <- SomeDims
    Last = 2
    MaxCrashes = 1
    MaxFailures = 1
SYMMETRY Symmetric
CHECK_DEADLOCK FALSE
INVARIANTS TypeOK PointerNamesMeta ReportedHasPointer StoredOnce
