CONSTANTS
    p1 = p1
    p2 = p2
    p3 = p3
    Participants = {p1, p2, p3}
    Order <- OneOrder
    MaxLosses = 1
    Refusals = TRUE
SPECIFICATION Spec
INVARIANTS
    TypeOK
    CommitBeforeReveal
CHECK_DEADLOCK FALSE
