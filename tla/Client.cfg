SPECIFICATION PartSpec
CONSTANTS
    Parts = {"delivery", "events", "selections", "restarts", "snapshots", "queue", "executed", "read", "status", "runs", "close"}
    s1 = s1  t1 = t1  t2 = t2  p1 = p1  p2 = p2
    l1 = l1  l2 = l2  m1 = m1  m2 = m2
    Nothing = Nothing  None = None  Closer = Closer
    Waiting = Waiting  Unavailable = Unavailable  Bad = Bad  Absent = Absent
    Sessions = {s1}  Topics = {t1, t2}  DeltaTopics = {t1, t2}
    Payloads <- MCPayloads  Hash <- MCHash  Cap <- MCCap
    MaxSequence = 4
SYMMETRY Symmetry
INVARIANTS
    PartsTypeOK
    DeltasApply
    ToldIsTrue
    EndsAreReported
PROPERTIES
    ImplementsPlainStream
    NothingAfterClose
CHECK_DEADLOCK FALSE
