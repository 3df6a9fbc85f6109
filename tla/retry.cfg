SPECIFICATION FairSpec
CHECK_DEADLOCK FALSE
CONSTANTS
    MaxAttempts = 8
    BaseDelay = 5
    MaxDelay = 15
    Multiplier = 2
    JitterPercent = 20
    RetryAfters <- HeaderValues
INVARIANTS
    TypeOK
    OneLateCall
    ResultIsHonest
    BackoffIsBounded
PROPERTIES
    BackoffGrows
    Returns
