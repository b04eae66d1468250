CONSTANTS
    Clis = {c1, c2}
    Engines = {e1}
    Desktops = {d1}
    Accounts = {}
    Ids = {local, other}
    DefaultId = other
    VmId = local
    MaxDeaths = 1
    BeyondOrder = FALSE
    Old = Old
    None = None
SPECIFICATION Spec
INVARIANTS NeverHalfWrittenInOrder MirrorFollowsActive
PROPERTIES EveryWriteIsOneUpdate
SYMMETRY Symmetry
CHECK_DEADLOCK FALSE
