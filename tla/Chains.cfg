CONSTANTS
    p1 = p1
    p2 = p2
    p3 = p3
    Participants = {p1, p2, p3}
    Leader = p1
    Target <- ThreeCycle
    SpendFee = 8
    WidthSteps = {24, 256}
    WitnessBytes = 2
    ExecUnits <- Exec
    Swaps <- MixedSwaps
    Terms <- SomeTerms
    Fallback <- ParamsNow
    Raised <- ParamsNext
    MaxReorgs = 1
SPECIFICATION FairSpec
INVARIANTS
    TypeOK
    FundedOnSameTerms
    
    SecretFromLeaderSpend
    
    
PROPERTIES
    
    SwapOnLedgers
CHECK_DEADLOCK FALSE
