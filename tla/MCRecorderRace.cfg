SPECIFICATION Spec
CONSTANTS
    c1 = c1
    c2 = c2
    c3 = c3
    r1 = r1
    r2 = r2
    p1 = p1
    p2 = p2
    None = None
    Calls = {c1, c3}
    Recorders = {r1, r2}
    Processes = {p1}
    RecorderOf <- MCOwnRecorder
    ProcessOf <- MCOneProcess
    Priced = {c1, c3}
    Migratable = {r1, r2}
    Faulty = {}
    Crashable = {}
    StartDbs <- MCEmptyDb
    WarnInterval = 1
    MaxTime = 1
INVARIANTS
    NeverDropped
