SPECIFICATION Spec
CONSTANTS
    c1 = c1  c2 = c2  d1 = d1  d2 = d2  t1 = t1  t2 = t2
    none = none  noctx = noctx
    Callers = {c1, c2}
    Deployments = {d1, d2}
    Tenants = {t1, t2}
    Handlers <- MCHandlers
    InverseOf <- MCInverseOf
    NoAction = none
    NoContext = noctx
    Probed <- MCProbed
    Requests <- OverlapRequests
    Capacity = 2
    Hysteresis = 3
    PollInterval = 1
    ReadinessProbe <- MCReadinessProbe
    RevisionAges = {0}
    StartReplicas = {1}
    Faults = {"act", "verify", "audit"}
    MaxTime = 2
    MaxIssued = 1
INVARIANTS
    EveryCallAccounted
    LedgerMatchesAudit
    AuditTellsTheTruth
    InFlightIsFindable
    RollbackNeverVerified
PROPERTIES
    HistoryIsFinal
    ImplementsClosedLoop
SYMMETRY CallerSymmetry
CHECK_DEADLOCK FALSE
