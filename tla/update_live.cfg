\* Clients poll; a worker may be killed, a request may die, an AWS call may fail.
CONSTANTS
    Jobs     = {j1, j2}
    Keys     = {k1}
    MaxGen   = 1
    Requests = {p1}
    Workers  = {w1, w2, w3}
    Faults   = {"killed", "crash", "aws"}
    MaxFaults = 1
SPECIFICATION FairSpec
PROPERTIES LeasedJobFinishes NeverBlockedForever MutatesAsHolder
           TerminalStaysTerminal SucceededMeansTarget RecoveredMeansRestored
CHECK_DEADLOCK FALSE
