CONSTANTS
    Keys = {k1, k2, k3}
    Invites = {i1}
    Requests = {r1, r2}
    Touches = {u1}
    Asked = {"member"}
    None = None
SYMMETRY Symmetry
SPECIFICATION Spec
INVARIANTS NoneLostByRotation
           GateOutwaitsTheKeysItMet LateRedeemGetsNoKey
CHECK_DEADLOCK FALSE
