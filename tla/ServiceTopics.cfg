CONSTANTS
    SessionIds = {1}
    Topics = {1, 2}
    SnapshotTopics = {1}
    EventTopics = {2}
    Payloads = {v1}
    Builds = {None, b1}
    Reasons = {r1}
    MaxSequence = 9
    MaxGeneration = 3
    MaxEpoch = 3
    MaxSubscription = 1
    QueueBudget = 2
    InitialBudget = 5
    RetainedBudget = 1
    MaxPushes = 1
    EnumerationMayFail = TRUE
    Targets = {p1}
    None = None
    Keep = Keep
SPECIFICATION Spec
INVARIANTS
    Freshness
PROPERTIES
    NoLateOutput
