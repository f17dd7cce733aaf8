SPECIFICATION ReportSpec
CONSTANTS
    c1 = c1
    c2 = c2
    c3 = c3
    p = p
    A = A
    B = B
    s1 = s1
    b1 = b1
    i1 = i1
    None = None
    Calls = {c1, c2, c3}
    Processes = {p}
    ProcessOf <- MCProcessOf
    Keys = {A, B}
    KeyOf <- MCKeyOf
    Buckets <- MCBuckets
    Tokens <- MCTokens
    Setters = {s1}
    SetKey <- MCSetKey
    Asked <- MCAsked
    Backfills = {b1}
    Inits = {i1}
    Seed <- MCSeed
    Scale = 4
    ProjectOf <- MCProjectOf
    FeatureOf <- MCFeatureOf
    HashOf <- MCHashOf
    Input = "input"
    CacheRead = "cache"
    PctNum = 1
    PctDen = 2
    MinRepeats = 2
    GroupLimit = 1
INVARIANTS
    CountedOnce
    CandidatesCheaper
    FewHeavy
    SavingsConservative
CHECK_DEADLOCK FALSE
