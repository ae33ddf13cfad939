SPECIFICATION Spec
CONSTANTS
    s1 = s1  s2 = s2
    inc = inc
    none = none  None = none
    Incidents = {inc}
    Tasks = {s1, s2}
    Messages <- MCMessages
    NudgeMax = 2
    NudgeMin = 2
    HypothesisAfter = 1
    RecentMax = 2
    MaxEntries = 3
    MaxUnreadable = 1
    MaxDrafts = 1
    MaxTime = 2
INVARIANTS
    NudgeBudgetKept
    EveryActionAudited
SYMMETRY TaskSymmetry
CHECK_DEADLOCK FALSE
