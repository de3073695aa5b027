\* Two requests at a time share an index: a backup drops one and acknowledges it.
SPECIFICATION Spec
CONSTANTS
    p = p
    b1 = b1
    b2 = b2
    a = a
    b = b
    h1 = h1
    h2 = h2
    Leader = p
    Followers <- Backups
    Files <- TwoFiles
    Handlers <- TwoHandlers
    Kinds <- CloseOnly
    Starting <- Nobody
    MarkedDead <- Nobody
    Restartable <- Nobody
    Deletes = FALSE
    DiskErrors = FALSE
    MaxOps = 2
    MaxCrashes = 0
SYMMETRY Symmetric
CHECK_DEADLOCK FALSE
INVARIANTS CommittedOnMajority
