CONSTANTS
    SessionIds = {1}
    Topics = {1}
    SnapshotTopics = {1}
    EventTopics = {1}
    Payloads = {v1}
    Builds = {None}
    Reasons = {}
    MaxSequence = 7
    MaxGeneration = 3
    MaxEpoch = 3
    MaxSubscription = 2
    QueueBudget = 3
    InitialBudget = 4
    RetainedBudget = 2
    MaxPushes = 1
    EnumerationMayFail = TRUE
    Targets = {p1}
    None = None
    Keep = Keep
SPECIFICATION StreamSpec
INVARIANTS
    CatchesUp
