SPECIFICATION Spec
CONSTANTS
    None = None
    Kinds <- MCKinds
    MaxTime = 2
INVARIANTS
    OneEventPerCall
    CallerStreamUntouched
    UsageFaithful
    FirstTokenFaithful
    StatusFaithful
PROPERTIES
    StreamsRecorded
