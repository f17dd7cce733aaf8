SPECIFICATION Spec
CONSTANTS
    c1 = c1
    c2 = c2
    c3 = c3
    c4 = c4
    pA = pA
    pB = pB
    A = A
    B = B
    s1 = s1
    s2 = s2
    b1 = b1
    b2 = b2
    i1 = i1
    None = None
    Calls = {c1}
    Processes = {pA, pB}
    ProcessOf <- MCProcessOf
    Keys = {A, B}
    KeyOf <- MCKeyOf
    Buckets <- MCBuckets
    Tokens <- MCTokens
    Setters = {s1, s2}
    SetKey <- MCSetKey
    Asked <- MCAsked
    Backfills = {b1, b2}
    Inits = {}
    Seed <- MCSeed
    Scale = 4
PROPERTIES
    HistoryFixed
CHECK_DEADLOCK FALSE
