SPECIFICATION FairSpec
CONSTANTS
    Used <- MCUsed
    Single <- MCSingle
    Priority <- MCPriority
    ThreadOps = {"start", "register", "unregister"}
    CallbackOps = {"start", "stop", "unregister"}
    None = None
INVARIANTS SingleShotOnce AsAsked
PROPERTIES Served KeepsSibling
CHECK_DEADLOCK FALSE
