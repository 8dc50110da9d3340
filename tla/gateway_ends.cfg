SPECIFICATION FairSpec
CONSTANTS
    c1 = c1
    w1 = w1
    Calls = {c1}
    Writes = {w1}
    Kills = {k1}
    k1 = k1
    Requests = {}
    Answers = {"result"}
    CmdCap = 1
    NotifyCap = 1
    MaxNotes = 0
    MaxStalls = 1
    None = None
PROPERTIES ExitIsReported RegisteredWaiterCompletes KillEndsChild
CHECK_DEADLOCK FALSE
