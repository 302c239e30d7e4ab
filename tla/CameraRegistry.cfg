SPECIFICATION Spec
CONSTANTS
    Writers = {w1, w2}
    Cams = {c1, c2}
    Inodes = {i1, i2, i3}
    None = None
    MaxUpdates = 3
    MaxFaults = 2
SYMMETRY Symmetry
INVARIANTS
    LoneUpdatePublishes
    NeverTorn
    OthersSurvive
    Recoverable
CHECK_DEADLOCK FALSE
