\* Two requests race, and any one fault happens.
CONSTANTS
    Jobs     = {j1, j2}
    Keys     = {k1}
    MaxGen   = 2
    Requests = {p1, p2}
    Workers  = {w1}
    Faults   = {"refused", "reset", "lost", "killed", "crash", "slow",
                "expired", "aws", "deadline"}
    MaxFaults = 1
SPECIFICATION Spec
SYMMETRY Symmetry
INVARIANTS LeaseAtHighWater
CHECK_DEADLOCK FALSE
