\* An even steady: the first churn op finds `steady` orders resting.
CONSTANTS
    Cap = 4
    Levels = 1
    PriceMin = 5
    TickSize = 2
    GroupMax = 3
    SteadyMax = 3
    MaxOps = 8
SPECIFICATION ChurnSpec
INVARIANT LiveSetConstant
CHECK_DEADLOCK FALSE
