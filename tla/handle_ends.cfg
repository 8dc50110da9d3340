SPECIFICATION FairSpec
CONSTANTS
    Prompts = {}
    Gates = {g1}
    g1 = g1
    MaxConns = 3
    MaxLosses = 2
    MaxAttempts = 2
    CanStop = TRUE
    None = None
CHECK_DEADLOCK FALSE
PROPERTY ReconnectEnds
