SPECIFICATION Spec
CONSTANTS
    ops = ops  alice = alice  k1 = k1  k2 = k2  txt = txt  writer = writer
    none = none  None = none
    a1 = a1  a2 = a2  a3 = a3
    Calls = {a1, a2, a3}
    Tenants = {ops}
    Subjects = {alice}
    Roles = {writer}
    SigningKeys = {k1, k2}
    FirstKey = k1
    Texts = {txt}
    Keys = {}
    Requests <- MCRequests
    Policies <- MCPolicies
    Limit <- MCLimit
    Window = 3
    KeyTTL = 1
    FetchTime = 1
    MaxLag = 1
    MaxTime = 3
INVARIANTS
    GTypeOK
    RateLimitIsExact
    TrailMatchesRows
PROPERTIES
    RetiredKeysLapse
    ImplementsAtMostOnce
SYMMETRY CallSymmetry
CHECK_DEADLOCK FALSE
