SPECIFICATION Spec
CONSTANTS
    Runs = {r1, r2}
    Passes = {p1, p2}
    Humans = {h1}
    Versions = {va, vb}
    Grants = {g1}
    Content <- SamePlan
    None = none
SYMMETRY Symmetry
INVARIANTS OneActiveRun NoGateSkipped
PROPERTY ActivationIsEarned
CHECK_DEADLOCK FALSE
