SPECIFICATION FairSpec
CONSTANTS
    Harts = {0, 1}
    Sources = {1, 2}
    MaxPriority = 2
    Priority <- MCPriority
    Enabled <- Split
    CallbackOps = {"send"}
    ThreadOps <- Timers
    MaxDepth = 6
INVARIANTS StackBounded GateReopens
PROPERTIES IpiSeen Served
