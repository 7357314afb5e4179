CONSTANTS
    p1 = p1
    p2 = p2
    p3 = p3
    Participants = {p1, p2}
    Leader = p1
    Target <- TwoCycle
    Faults = {"lose", "reject", "noack", "crash"}
    Slack = 2
    MaxStale = 2
SPECIFICATION Spec
INVARIANTS
    TypeOK
    LockBarrier
    SettlementInv
PROPERTY SwapOnLedger
CHECK_DEADLOCK FALSE
