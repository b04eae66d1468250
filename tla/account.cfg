CONSTANTS
    Clis = {c1}
    Engines = {e1}
    Desktops = {}
    Accounts = {a1, a2}
    Ids = {local, other}
    DefaultId = other
    VmId = local
    MaxDeaths = 1
    BeyondOrder = FALSE
    Old = Old
    None = None
SPECIFICATION Spec
INVARIANTS ReplacedTokenIsNotSent SignOutCancelsUnlessWiped
PROPERTIES AccountSurvivesTheCli
SYMMETRY Symmetry
CHECK_DEADLOCK FALSE
