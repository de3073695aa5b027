\* Two clients save numbers in one file, and give up on requests.
SPECIFICATION Spec
CONSTANTS
    c1 = c1
    c2 = c2
    f1 = f1
    t1 = t1
    t2 = t2
    n1 = n1
    n2 = n2
    Clients <- TwoClients
    Files <- OneFile
    Numbers <- TwoNumbers
    Threads <- TwoThreads
    MaxOpenFiles = 3
    MaxFailures = 1
    MaxRestarts = 0
    NoThread = NoThread
    MaxTries = 2
    Hasty <- Impatient
    MaxTimeouts = 1
    Plan <- MakeAndAdd
SYMMETRY Symmetric
CHECK_DEADLOCK FALSE
INVARIANTS TypeOK OneWriterPerFile AckedNumbersStay PrimesAreStored UnsavedIsCaptured
PROPERTIES VersionedUpdates
