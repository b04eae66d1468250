\* An edge deployment that racing invocations carry on, and one of another kind;
\* no crash, no cancel.
CONSTANTS
    Deployments = {d1, d2}
    EdgeDeployments = {d1}
    Environments = {e1}
    Handlers = {h1, h2}
    Cancellers = {}
    Actions = {"Deploy", "Refresh"}
    Backend = "cloud"
    Faults = {"refused"}
    Forces = {FALSE}
    MaxPasses = 3
    MaxCrashes = 0
SPECIFICATION FairSpec
INVARIANTS OnePassAtATime
PROPERTIES EveryDeploymentSettles EveryEnvironmentReleased
\* The ids run out: a behaviour may really end.
CHECK_DEADLOCK FALSE
