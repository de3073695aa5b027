\* A leader that stepped down is followed again and serves nobody.
SPECIFICATION LiveSpec
CONSTANTS
    Ids = {1, 2, 3}
    MaxFaults = 1
    MaxSpurious = 0
CHECK_DEADLOCK FALSE
PROPERTIES SomePrimary
