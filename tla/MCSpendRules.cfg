SPECIFICATION Spec
CONSTANTS
    Day = 2
    Costs = {1, 3}
    Configs <- MCConfigs
    MultNum = 3
    MultDen = 2
    BaselineDays = 4
    DefaultFloor = 2
    None = None
    Backfills = {b1, b2}
    MaxTime = 8
    MaxEvents = 3
INVARIANTS
    DaysPartition
    SilenceNeverFires
    HalfTheDays
    ResumedUsageFires
PROPERTIES
    BudgetHolds
CHECK_DEADLOCK FALSE
