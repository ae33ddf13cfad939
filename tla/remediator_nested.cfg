SPECIFICATION FairSpec
CONSTANTS
    c1 = c1  c2 = c2  d1 = d1  d2 = d2  t1 = t1  t2 = t2
    none = none  noctx = noctx
    Callers = {c1}
    Deployments = {d1, d2}
    Tenants = {t1, t2}
    Handlers <- ChainHandlers
    InverseOf <- ChainInverseOf
    NoAction = none
    NoContext = noctx
    Probed <- ChainProbed
    Requests <- ChainRequests
    Capacity = 6
    Hysteresis = 2
    PollInterval = 1
    ReadinessProbe <- MCReadinessProbe
    RevisionAges = {0}
    StartReplicas = {1}
    Faults = {"inspect", "act", "verify", "audit"}
    MaxTime = 3
    MaxIssued = 3
INVARIANTS
    StackOK
    ScaleDwellHonoured
PROPERTIES
    EveryCallEnds
CHECK_DEADLOCK FALSE
