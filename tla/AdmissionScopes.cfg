\* One reader and the limits of SubscriptionLimits::default.
SPECIFICATION PartSpec
CONSTANTS
    Parts = {"scopes"}
    m1 = m1  m2 = m2  stranger = stranger
    None = None  Corrupt = Corrupt  NoTicket = NoTicket
    Topics <- Pair
    MaxGeneration = 2  MaxEpoch = 3
INVARIANTS
    ScopesFit
CHECK_DEADLOCK FALSE
