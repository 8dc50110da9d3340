SPECIFICATION Spec
CONSTANTS
    Prompts = {p1}
    p1 = p1
    Gates = {}
    MaxConns = 3
    MaxLosses = 2
    MaxAttempts = 2
    CanStop = TRUE
    None = None
CHECK_DEADLOCK FALSE
INVARIANTS HandleOwnsClient ReconnectHasWorker OneReconnect OneProcess
