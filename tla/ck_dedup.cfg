\* A call fails between the Create and the Close of a tensor.
SPECIFICATION LiveSpec
CONSTANTS
    w1 = w1
    w2 = w2
    bias = bias
    weight = weight
    x = x
    y = y
    Workers <- OneWorker
    Names <- OneName
    Contents <- TwoContents
    Dims <- SomeDims
    Last = 2
    MaxCrashes = 0
    MaxFailures = 1
CHECK_DEADLOCK FALSE
PROPERTIES DedupedIsStored
