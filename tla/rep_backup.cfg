\* One backup: it recovers at its start; both servers crash and restart, disks fail, files are deleted.
SPECIFICATION LiveSpec
CONSTANTS
    p = p
    b1 = b1
    b2 = b2
    a = a
    b = b
    h1 = h1
    h2 = h2
    Leader = p
    Followers <- FirstBackup
    Files <- OneFile
    Handlers <- OneHandler
    Kinds <- Both
    Starting <- FirstBackup
    MarkedDead <- Nobody
    Restartable <- Everyone
    Deletes = TRUE
    DiskErrors = TRUE
    MaxOps = 2
    MaxCrashes = 2
CHECK_DEADLOCK FALSE
PROPERTIES RequestEnds RecoveryEnds
