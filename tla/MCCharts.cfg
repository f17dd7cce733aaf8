SPECIFICATION Spec
CONSTANTS
    day = day
    provider = provider
    all = all
    some = some
    k1 = k1
    k2 = k2
    k3 = k3
    None = None
    Ids = {day, provider}
    Kind <- MCKind
    Filters = {all, some}
    Calls = {k1, k2, k3}
    Matches <- MCMatches
    Label <- MCLabel
    CostOf <- MCCost
    Unit = 5
    Cap = 2
    Start <- MCStart
    MaxPages = 3
INVARIANTS
    OwnFreshData
    OneLiveChart
    BlankExplained
    FiguresHonest
CHECK_DEADLOCK FALSE
