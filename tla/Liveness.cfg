SPECIFICATION Spec
CONSTANTS
    Parts = {"host", "timed", "feeds", "closing", "chat", "agent", "lifecycle",
             "admission", "read", "shutdown", "requests"}
    t1 = t1  t2 = t2  l1 = l1  l2 = l2  tty = tty
    None = None  Closer = Closer  NoTicket = NoTicket
    Waiting = Waiting  Unavailable = Unavailable  Bad = Bad  Absent = Absent
PROPERTIES
    DemandIsServed
    CallsReturn
    StopsEnd
CHECK_DEADLOCK FALSE
