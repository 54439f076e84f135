CONSTANTS
    SessionIds = {1, 2}
    Topics = {1}
    SnapshotTopics = {1}
    EventTopics = {}
    Payloads = {v1}
    Builds = {None}
    Reasons = {}
    MaxSequence = 12
    MaxGeneration = 2
    MaxEpoch = 2
    MaxSubscription = 1
    QueueBudget = 3
    InitialBudget = 6
    RetainedBudget = 1
    MaxPushes = 1
    EnumerationMayFail = FALSE
    Targets = {p1, p2}
    None = None
    Keep = Keep
SPECIFICATION Spec
INVARIANTS
    WithinBudgets
SYMMETRY TargetSymmetry
