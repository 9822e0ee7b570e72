SPECIFICATION FairSpec
CONSTANTS
    Harts = {0, 1}
    Channels = {"tx", "rx"}
    MaxTransfers = 3
    Ids <- MCIds
    None = None
    Uses <- MCUses
INVARIANTS OneTransfer Delivered BuffersFreed CallbackOnce
PROPERTY CallbackComes
CHECK_DEADLOCK FALSE
