SPECIFICATION FairSpec
CONSTANTS
    i1 = i1  i2 = i2
    none = none  None = none
    Investigations = {i1, i2}
    ReadTools = {"runbooks.search", "deploys.recent"}
    QueuedWriteTools = {"pr.draft"}
    OtherTools = {"pod.restart"}
    Plans <- MCPlans
    SubtaskIds = {"r0", "r1", "r2"}
    MaxSubtasks = 2
INVARIANTS
    ToolsStayWithinTheLine
    EvidenceIsHonest
    TraceIsComplete
PROPERTIES
    EveryInvestigationEnds
CHECK_DEADLOCK FALSE
