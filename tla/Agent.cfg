SPECIFICATION PartSpec
CONSTANTS
    Parts = {"host", "commands", "retries", "kills", "access", "identity", "limits", "shared", "lifecycle"}
    m1 = m1  m2 = m2  stranger = stranger
    None = None  Corrupt = Corrupt  NoTicket = NoTicket
    Topics <- Pair
    MaxGeneration = 2  MaxEpoch = 3
SYMMETRY Symmetry
INVARIANTS
    PartsTypeOK
    BaselineCurrent
    NoSleepThroughDemand
    CommandsTookEffect
    LimitsKept
    SettledBeforeSleep
PROPERTIES
    NeverBegunTwice
    NeverOverwritten
CHECK_DEADLOCK FALSE
