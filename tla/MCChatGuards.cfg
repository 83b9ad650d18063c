SPECIFICATION Spec
CONSTANTS
    Players = {alice}
    hello = hello
    hehe = hehe
    swear = swear
    stars = stars
    Texts = {hello, hehe, swear, stars}
    TooLong = {stars}
    Stuttering = {hehe}
    AlikePairs <- MCAlike
    Filtered <- MCFiltered
    Blanked <- MCBlanked
    Configurations <- MCConfigurations
    SimilarPeriod = 2
    FrequencyPeriod = 2
    NoMessage = NoMessage
    MaxTime = 3
    MaxAttempts = 4
    MaxOrders = 1
INVARIANTS
    LimitsKept
    RefusedForCause
CHECK_DEADLOCK FALSE
