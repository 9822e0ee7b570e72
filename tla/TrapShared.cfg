SPECIFICATION Spec
CONSTANTS
    Harts = {0, 1}
    Sources = {1, 2}
    MaxPriority = 2
    Priority <- MCPriority
    Enabled <- Shared
    CallbackOps = {"disable"}
    ThreadOps <- Enables
    MaxDepth = 3
INVARIANTS NoReentry Restored
CHECK_DEADLOCK FALSE
