\* One API invocation at a time, cooperative cancels, one crash.
CONSTANTS
    Deployments = {d1, d2}
    EdgeDeployments = {}
    Environments = {e1}
    Handlers = {h1}
    Cancellers = {c1}
    Actions = {"Deploy", "Destroy", "Refresh"}
    Backend = "cloud"
    Faults = {"refused", "lost"}
    Forces = {FALSE}
    MaxPasses = 1
    MaxCrashes = 1
SPECIFICATION Spec
SYMMETRY ApiSymmetry
INVARIANTS NoOverlappingRuns BusyWhileActing
\* The ids run out: a behaviour may really end.
CHECK_DEADLOCK FALSE
