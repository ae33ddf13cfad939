SPECIFICATION FairSpec
CONSTANTS
    e1 = e1  e2 = e2
    none = none  None = none
    Requests = {e1, e2}
    MaxAlerts = 3
    FailMax = 3
    ResetTimeout = 3
INVARIANTS
    ETypeOK
    PagesAreFaithful
PROPERTIES
    ProviderGetsARest
    EveryAlertLeaves
    Recovers
