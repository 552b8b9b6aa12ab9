SPECIFICATION Spec
CONSTANTS
    Writers = {w1, w2, w3}
    RepeatableRead = {w3}
    Nobody = nobody
    MaxId = 4
SYMMETRY Symmetry
INVARIANTS DamageShows NoAlarmWithoutCause
CHECK_DEADLOCK FALSE
