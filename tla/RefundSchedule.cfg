CONSTANTS
    p1 = p1
    p2 = p2
    p3 = p3
    Participants = {p1, p2, p3}
    Leader = p1
    Target <- ThreeCycle
    Blockchain <- Mixed
    refund_window_secs = 12
    BlockSecs = 3
    start_block = 7
    start_slot = 5
    system_start_secs = 40
    MaxDrift = 2
    MaxLag = 1
    Horizon = 42
SPECIFICATION Spec
INVARIANTS
    TypeOK
    ClaimBeforeTargetRefunds
    RefundNotRejected
    NoRefundBeforeDeadline
    WindowsInOrder
CHECK_DEADLOCK FALSE
