SPECIFICATION FairSpec
CONSTANTS
    Keys = {k1, k2}
    Overridable = {k1}
    Local = Local
    MaxEvents = 3
INVARIANTS
    NeverLeaks
    SettledIsCurrent
    NoEditUndone
    FailsForAReason
    TearRecoverable
PROPERTIES
    Settles
CHECK_DEADLOCK FALSE
