SPECIFICATION Spec
CONSTANTS
    Requests = {r1, r2}
    r1 = r1
    r2 = r2
    MaxNotes = 3
SYMMETRY Symmetry
CHECK_DEADLOCK FALSE
INVARIANTS NothingLost EndedTurnNotAdopted
