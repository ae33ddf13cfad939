--------------------------- MODULE MCInvestigation ---------------------------
(***************************************************************************)
(* Instance of Investigation for TLC.                                      *)
(***************************************************************************)
EXTENDS Investigation, TLC

CONSTANTS i1, i2, none

Task(id, tool) == [id |-> id, tool |-> tool]

(* Two good plans, and one for each way of breaking a bound: a forbidden   *)
(* tool, a queued write, a duplicate id, too many subtasks, none, over     *)
(* budget.                                                                 *)
Runbooks == Task("r0", "runbooks.search")
Deploys  == Task("r1", "deploys.recent")

MCPlans ==
    {[subtasks |-> s, withinBudget |-> TRUE] :
        s \in {<<>>, <<Runbooks>>, <<Runbooks, Deploys>>, <<Runbooks, Runbooks>>,
               <<Runbooks, Task("r1", "pod.restart")>>, <<Deploys, Task("r0", "pr.draft")>>,
               <<Runbooks, Deploys, Task("r2", "runbooks.search")>>}}
    \cup {[subtasks |-> <<Deploys>>, withinBudget |-> FALSE]}
=============================================================================
