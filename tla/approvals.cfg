SPECIFICATION FairSpec
CONSTANTS
    r1 = r1  r2 = r2  alice = alice  bob = bob
    Requests <- MCRequests
    Approvers <- MCApprovers
    Decisions = {"approve", "deny", "pending"}
    TTL = 2
    MaxTime = 3
INVARIANTS
    QTypeOK
    HiddenRequestsExpire
    DefaultDeny
PROPERTIES
    
    NoRequestWaitsForever
CHECK_DEADLOCK FALSE
