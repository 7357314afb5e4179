CONSTANTS
    p1 = p1
    p2 = p2
    p3 = p3
    Participants = {p1, p2}
    Order <- TwoOrder
    MaxLosses = 1
    Refusals = FALSE
SPECIFICATION Spec
INVARIANT FundedIsRefundable
CHECK_DEADLOCK FALSE
