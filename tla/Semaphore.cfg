SPECIFICATION SemFairSpec
CONSTANTS
    h1 = h1
    h2 = h2
    h3 = h3
    Cores = {h1, h2, h3}
    Amounts = {1, 2}
    Start = 1
    MaxPut = 3
INVARIANT Conservation
PROPERTY EnoughIsServed
