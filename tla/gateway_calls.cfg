SPECIFICATION Spec
CONSTANTS
    c1 = c1
    c2 = c2
    Calls = {c1, c2}
    Writes = {}
    Kills = {}
    Requests = {}
    Answers = {"result", "rpcError"}
    CmdCap = 2
    NotifyCap = 1
    MaxNotes = 0
    MaxStalls = 0
    None = None
SYMMETRY Symmetry
INVARIANTS TypeOK WaiterAccounted
PROPERTIES ReplyOnce ImplementsContract
CHECK_DEADLOCK FALSE
