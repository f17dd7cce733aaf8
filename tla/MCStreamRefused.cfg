SPECIFICATION Spec
CONSTANTS
    None = None
    Kinds <- MCSyncKinds
    MaxTime = 1
INVARIANT
    FailuresRecorded
