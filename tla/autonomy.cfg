SPECIFICATION PolSpec
CONSTANTS
    d1 = d1  none = none  noctx = noctx  noclaim = noclaim
    Callers = {c1}
    Deployments = {d1}
    Tenants = {"tenant-a"}
    Handlers <- MCHandlers
    InverseOf <- MCInverseOf
    NoAction = none
    NoContext = noctx
    Probed <- MCProbed
    Requests <- MCRequests
    Capacity = 4
    Hysteresis = 3
    PollInterval = 1
    ReadinessProbe <- MCReadinessProbe
    RevisionAges = {0}
    StartReplicas = {1}
    Faults = {}
    MaxTime = 2
    MaxIssued = 2
    Operators = {alice, bob}
    Never = never
    Untils = {1}
    MaxOps = 2
    LocalTimes <- MCLocalTimes
    Claims <- MCClaims
    NoClaim = noclaim
    MaxCalls = 1
INVARIANTS
    PolTypeOK
    TripsAreHonoured
    WritesWereGranted
PROPERTIES
    RunnerUnchanged
SYMMETRY OperatorSymmetry
CHECK_DEADLOCK FALSE
