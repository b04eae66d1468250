CONSTANTS
    p1 = p1
    p2 = p2
    egress = egress
    mount = mount
    a1 = a1
    None = None
    Procs = {p1, p2}
    Apps = {a1}
    Grants = {egress, mount}
    Optional = {mount}
    Manifests <- OnlyAll
    MaxCalls = 2
    MaxAttempts = 2
    MaxDeaths = 1
    MaxRestores = 1
    Overdue = FALSE
SPECIFICATION FairSpec
INVARIANTS
    AcceptedNeverGoesBack
    ReturnedMutationsStay
    RefusalsHaveACause
    NothingGrantedUnasked
PROPERTIES
    EveryCallReturns
CHECK_DEADLOCK FALSE
