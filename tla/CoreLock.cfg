SPECIFICATION FairSpec
CONSTANTS
    h1 = h1
    h2 = h2
    h3 = h3
    Harts = {h1, h2, h3}
    NoHart = NoHart
    Trying = {h1, h2, h3}
    Careless = {h1, h2, h3}
    MaxDepth = 2
INVARIANTS TypeOK MutualExclusion
PROPERTIES ImplementsRecMutex UnlockReturns SomeoneGetsIt
CHECK_DEADLOCK FALSE
