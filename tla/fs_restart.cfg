\* A client saves twice, and the server restarts between.
SPECIFICATION Spec
CONSTANTS
    c1 = c1
    c2 = c2
    f1 = f1
    t1 = t1
    t2 = t2
    n1 = n1
    n2 = n2
    Clients <- TwoClients
    Files <- OneFile
    Numbers <- TwoNumbers
    Threads <- TwoThreads
    MaxOpenFiles = 4
    MaxFailures = 0
    MaxRestarts = 1
    NoThread = NoThread
    MaxTries = 2
    Hasty <- Patient
    MaxTimeouts = 0
    Plan <- MakeAndAdd
CHECK_DEADLOCK FALSE
INVARIANTS AckedNumbersStay
