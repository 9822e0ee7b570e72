SPECIFICATION FairSpec
CONSTANTS
    Harts = {0}
    Channels = {"ch"}
    Ids = {1, 2, 3}
    None = None
    Jobs <- MCJobs
    Burst = 2
INVARIANT ResultRight
PROPERTY ImplementsAccelerator
CHECK_DEADLOCK FALSE
