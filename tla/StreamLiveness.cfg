CONSTANTS
    SessionIds = {1}
    Topics = {1}
    SnapshotTopics = {1}
    EventTopics = {1}
    Payloads = {v1}
    Builds = {None}
    Reasons = {r1}
    MaxSequence = 8
    MaxGeneration = 4
    MaxEpoch = 4
    MaxSubscription = 1
    QueueBudget = 3
    InitialBudget = 4
    RetainedBudget = 2
    MaxPushes = 1
    EnumerationMayFail = TRUE
    Targets = {p1}
    None = None
    Keep = Keep
SPECIFICATION FairStreamSpec
PROPERTIES
    ForgottenIsTold
    InitializingEnds
