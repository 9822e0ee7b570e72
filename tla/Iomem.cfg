SPECIFICATION Spec
CONSTANTS
    t0 = t0
    t1 = t1
    i0 = i0
    i1 = i1
    Threads = {t0, t1}
    Isrs = {i0, i1}
    HartOf <- MCHartOf
    NoHart = NoHart
    Priority <- MCPriority
    Top = 7
    BlockSize = 2
    TableCost = 1
    Sizes = {0, 1, 4}
    Breaks = {4}
INVARIANTS Disjoint TagsExact HeapBelowBlocks FailsOnlyWhenFull
CHECK_DEADLOCK FALSE
CONSTRAINT BeforeWindows
