SPECIFICATION PartSpec
CONSTANTS
    Parts = {"inventory", "mastery", "intrinsics", "star_chart", "currencies", "squad",
             "choices", "flags", "movies", "name", "history", "message", "account",
             "identifier", "profiles", "vector", "data", "world", "pool", "records",
             "reader", "attachment"}
    w1 = w1  w2 = w2  c1 = c1  c2 = c2  o1 = o1  o2 = o2
    b1 = b1  b2 = b2  b3 = b3  a1 = a1  a2 = a2
    NullPointer = NullPointer
    AddressBits = 3  OffsetBits = 2  MinAddress = 1  MaxAddress = 6
    ByteBudget = 4  ReadBudget = 2  Lengths = {0, 3}  Word = 2  RecordBytes = 2
    MinUser = 2  MaxVector = 3  DosBytes = 1  MaxHeader = 2
INVARIANTS
    AcceptedWasTrue
    DecodedExactly
    WithinLimits
PROPERTIES
    CauseIsTrue
CHECK_DEADLOCK FALSE
