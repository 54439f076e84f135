SPECIFICATION Spec
CONSTANTS
    Parts = {"owners", "layouts", "recovery", "visual", "picker", "retries", "chat", "channels"}
    k1 = k1  k2 = k2
    None = None  Failed = Failed  Closed = Closed
INVARIANTS
    OneOwner
    ResetsAreSafe
    NothingForgotten
    ChatInOrder
PROPERTIES
    RetryKept
CHECK_DEADLOCK FALSE
