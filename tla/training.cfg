\* The coordinator over a training with crashes, and snapshots that run at the same time.
SPECIFICATION LiveSpec
CONSTANTS
    p = p
    b1 = b1
    b2 = b2
    w1 = w1
    w2 = w2
    Primary = p
    Backups <- Both
    MarkedDead <- Nobody
    Workers <- OneWorker
    Last = 2
    MaxSnapshots = 2
    MaxIds = 1
    Budgets <- EachBudget
CHECK_DEADLOCK FALSE
INVARIANTS TypeOK CompleteIsRecorded RecordedFirst RecordedIsSaved
PROPERTIES SnapshotEnds LostIsDead
