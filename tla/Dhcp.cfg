SPECIFICATION FairSpec
CONSTANTS
    Servers = {1, 2}
    Lease <- MCLease
    WaitTime = 2
    MaxRetry = 1
    Delay = 0
    MaxFlight = 2
    MaxTick = 16
INVARIANTS LeaseHeld Paced
PROPERTY LeasedAgain
