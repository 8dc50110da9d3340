SPECIFICATION Spec
CONSTANTS
    c1 = c1
    k1 = k1
    Calls = {c1}
    Writes = {}
    Kills = {k1}
    Requests = {r1}
    r1 = r1
    Answers = {"result", "transportClosed"}
    CmdCap = 1
    NotifyCap = 1
    MaxNotes = 2
    MaxStalls = 0
    None = None
SYMMETRY Symmetry
INVARIANTS NotificationsInOrder ReverseRequestsKept
CHECK_DEADLOCK FALSE
