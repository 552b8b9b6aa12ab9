SPECIFICATION FairSpec
CONSTANTS
    Agents = {a1}
    Modules = {m1}
    Calls = {c1, c2}
    Pool = 2
    Token = 2
    Rate = 3
    Burst = 2
    FRate = 1
    FBurst = 2
    Throttle = 2
    MaxClock = 3
    Nobody = nobody
INVARIANTS ForgeCeiling ThrottleSlows
PROPERTIES PassMeansDispositioned EveryCallEnds
