SPECIFICATION Spec
CONSTANTS
    Prompts = {p1, p2}
    p1 = p1
    p2 = p2
    Gates = {g1, g2}
    g1 = g1
    g2 = g2
    MaxConns = 1
    MaxLosses = 0
    MaxAttempts = 1
    CanStop = TRUE
    None = None
SYMMETRY Symmetry
CHECK_DEADLOCK FALSE
INVARIANTS TypeOK NeedsInputIffOpen
