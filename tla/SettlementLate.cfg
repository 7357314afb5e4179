CONSTANTS
    p1 = p1
    p2 = p2
    p3 = p3
    Participants = {p1, p2, p3}
    Leader = p1
    Target <- ThreeCycle
    Faults = {"lose", "noack", "crash"}
    Slack = 1
    MaxStale = 0
SPECIFICATION Spec
INVARIANTS
    LeaderSecretOnlyOnChain
    
    
PROPERTY SwapOnLedger
CHECK_DEADLOCK FALSE
