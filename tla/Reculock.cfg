SPECIFICATION FairSpec
CONSTANTS
    la = la
    lb = lb
    Harts = {0, 1}
    Locks = {la, lb}
    NoLock = NoLock
    NSlots = 2
    MaxDepth <- MCDepth
    Careless = {0}
 
PROPERTIES SomeoneGetsIt 
CHECK_DEADLOCK FALSE
