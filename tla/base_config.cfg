\* Two tasks of one process, each a request or an edge deployment, and the installer.
CONSTANTS
    p1 = p1
    t1 = t1
    t2 = t2
    Processes = {p1}
    Tasks = {t1, t2}
    Installers = {i1}
    Home <- MCHome
    Edges = {e1}
    Boundaries = {b1, b2}
    NoEdge = NoEdge
    None = None
    MaxAttempts = 3
    Faults = {"error", "retried"}
SPECIFICATION Spec
PROPERTIES FieldsHaveOneWriter AnswersAreRecent
CHECK_DEADLOCK FALSE
