SPECIFICATION Spec
CONSTANTS
    c1 = c1  c2 = c2  d1 = d1  d2 = d2  t1 = t1  t2 = t2
    none = none  noctx = noctx
    Callers = {c1}
    Deployments = {d1, d2}
    Tenants = {t1, t2}
    Handlers <- MCHandlers
    InverseOf <- MCInverseOf
    NoAction = none
    NoContext = noctx
    Probed <- MCProbed
    Requests <- SequentialRequests
    Capacity = 4
    Hysteresis = 3
    PollInterval = 1
    ReadinessProbe <- MCReadinessProbe
    RevisionAges = {0, 600, 1000}
    StartReplicas = {1, 2}
    Faults = {"act", "verify"}
    MaxTime = 4
    MaxIssued = 2
INVARIANTS
    TypeOK
    WritesWereGated
    ScaleRollbackUndoes
    NoActionStorm
PROPERTIES
    OnlyOpenActionsMutate
CHECK_DEADLOCK FALSE
