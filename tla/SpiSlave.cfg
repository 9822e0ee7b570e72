SPECIFICATION SlaveFairSpec
CONSTANTS
    Work <- MCWork
    Depth = 7
    MaxHasty = 2
PROPERTIES TookPlace OnlyData Resynchronises
CHECK_DEADLOCK FALSE
