\* Three servers; a crash and restarts, or a heartbeat given up on, and an early timeout.
SPECIFICATION LiveSpec
CONSTANTS
    Ids = {1, 2, 3}
    MaxFaults = 1
    MaxSpurious = 1
CHECK_DEADLOCK FALSE
INVARIANTS TypeOK FollowsNoHigher
PROPERTIES LeaderOnlyRisesByTimeout LowestLeads
