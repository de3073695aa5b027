\* Every operation, a delete and a restart included, with nobody giving up on a request.
SPECIFICATION LiveSpec
CONSTANTS
    c1 = c1
    c2 = c2
    f1 = f1
    t1 = t1
    t2 = t2
    n1 = n1
    n2 = n2
    Clients <- TwoClients
    Files <- OneFile
    Numbers <- OneNumber
    Threads <- TwoThreads
    MaxOpenFiles = 3
    MaxFailures = 1
    MaxRestarts = 1
    NoThread = NoThread
    MaxTries = 1
    Hasty <- Patient
    MaxTimeouts = 0
    Plan <- Mixed
CHECK_DEADLOCK FALSE
PROPERTIES CallsEnd
