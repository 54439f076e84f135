CONSTANTS
    SessionIds = {1}
    Topics = {1}
    SnapshotTopics = {1}
    EventTopics = {1}
    Payloads = {v1}
    Builds = {None, b1}
    Reasons = {r1}
    MaxSequence = 9
    MaxGeneration = 3
    MaxEpoch = 3
    MaxSubscription = 1
    QueueBudget = 3
    InitialBudget = 4
    RetainedBudget = 2
    MaxPushes = 2
    EnumerationMayFail = FALSE
    Targets = {p1}
    None = None
    Keep = Keep
SPECIFICATION StreamSpec
INVARIANTS
    SdkAccepts
    ClosesProperly
