CONSTANTS
    p1 = p1
    p2 = p2
    p3 = p3
    Participants = {p1, p2, p3}
    Leader = p1
    Target <- ThreeCycle
    Faults = {}
    Slack = 3
    MaxStale = 0
SPECIFICATION Spec
INVARIANT StillClaims
CHECK_DEADLOCK FALSE
