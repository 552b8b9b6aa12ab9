SPECIFICATION Spec
CONSTANTS
    Shifts = {s1, s2, s3}
    Ventures = {v1, v2}
    Memories = {r1, r2}
    Requests = {p1}
    Sweep = sweep
    None = none
    MaxTime = 3
    MaxQuarter = 1
SYMMETRY Symmetry
INVARIANTS FlushedIsGone
PROPERTY NoSwitchOverSurvivors
CHECK_DEADLOCK FALSE
