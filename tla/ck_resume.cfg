\* A worker that has saved a checkpoint crashes.
SPECIFICATION LiveSpec
CONSTANTS
    w1 = w1
    w2 = w2
    bias = bias
    weight = weight
    x = x
    y = y
    Workers <- OneWorker
    Names <- OneName
    Contents <- TwoContents
    Dims <- SomeDims
    Last = 2
    MaxCrashes = 1
    MaxFailures = 0
CHECK_DEADLOCK FALSE
PROPERTIES ResumesFromLatest
