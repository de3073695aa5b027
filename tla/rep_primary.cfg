\* One request at a time; the primary may crash and restart, twice.
SPECIFICATION Spec
CONSTANTS
    p = p
    b1 = b1
    b2 = b2
    a = a
    b = b
    h1 = h1
    h2 = h2
    Leader = p
    Followers <- Backups
    Files <- OneFile
    Handlers <- OneHandler
    Kinds <- CloseOnly
    Starting <- Nobody
    MarkedDead <- Nobody
    Restartable <- PrimaryOnly
    Deletes = FALSE
    DiskErrors = FALSE
    MaxOps = 3
    MaxCrashes = 2
SYMMETRY Symmetric
CHECK_DEADLOCK FALSE
INVARIANTS TypeOK DurabilityInv VisibilityInv CommittedOnMajority AckedVisible IndexNamesEntry AckedIsPersisted
PROPERTIES ImplementsDurableFiles
