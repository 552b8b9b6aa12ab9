SPECIFICATION FairSpec
CONSTANTS
    Shifts = {s1, s2}
    Ventures = {v1, v2}
    Memories = {r1}
    Requests = {p1, p2}
    Sweep = sweep
    None = none
    MaxTime = 2
    MaxQuarter = 0
INVARIANTS OneVenturePerQuarter
PROPERTIES EndedShiftIsFlushed
CHECK_DEADLOCK FALSE
