CONSTANTS
    p1 = p1
    p2 = p2
    p3 = p3
    Participants = {p1, p2, p3}
    Order <- TwoOrder
    MaxLosses = 0
    Refusals = FALSE
SPECIFICATION FairSpec
INVARIANTS
    AdaptorPointGuard
    FundedMeansAllSign
    FundedIsRefundable
    NoPanic
PROPERTY AllFund
CHECK_DEADLOCK FALSE
