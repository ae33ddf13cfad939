---------------------------- MODULE Investigation ----------------------------
(***************************************************************************)
(* The investigation agent of chapter 7 (sre_agent): a supervisor has a    *)
(* model write a plan and holds it to its bounds, a scheduler runs the     *)
(* retrieval workers of the plan in parallel and one diagnosis on whatever *)
(* they found, and the result is rendered for the engineer on call.        *)
(* Investigations overlap; they share the tool gateway, which only the     *)
(* allowlist stands before, and one trace.  Nothing in the package calls   *)
(* plan and then execute: the caller who does is part of the model, and so *)
(* is one who runs a plan that plan did not return, and one who gives up.  *)
(***************************************************************************)
EXTENDS Integers, Sequences, FiniteSets

CONSTANTS
    Investigations,
    ReadTools, QueuedWriteTools, OtherTools,    \* the allowlist, and the rest
    Plans,              \* what a plan may say: subtasks, and whether it keeps
                        \* to the deadline and the cost ceiling
    SubtaskIds,
    MaxSubtasks,        \* MAX_RETRIEVAL_SUBTASKS
    None

Tools == ReadTools \cup QueuedWriteTools \cup OtherTools

SubtaskType == [id : SubtaskIds, tool : Tools]
PlanType    == [subtasks : Seq(SubtaskType), withinBudget : BOOLEAN]

ASSUME InvestigationAssumption ==
    /\ Plans \subseteq PlanType
    /\ None \notin Plans
    /\ MaxSubtasks \in Nat
    /\ ReadTools \cap OtherTools = {} /\ QueuedWriteTools \cap OtherTools = {}
    /\ ReadTools \cap QueuedWriteTools = {}

VARIABLES
    inv,        \* per investigation: its plan, workers and result
    gateway,    \* the tool calls that reached the gateway
    trace       \* TRACE: how often each step was recorded, by its outcome

vars == <<inv, gateway, trace>>

(* classify_tool and is_permitted.                                         *)
IsRead(tool)      == tool \in ReadTools
IsPermitted(tool) == tool \in ReadTools \cup QueuedWriteTools

Points == {"new", "planning", "running", "diagnosing", "rendered", "failed", "cancelled"}
WorkerStates == {"todo", "calling", "ok", "failed", "cancelled"}
Steps == {"plan", "retrieval", "diagnosis"}

(* worker: one state per subtask; results: the positions of the subtasks   *)
(* whose results the diagnosis has, which it has in the plan's order;      *)
(* planned: plan returned the plan.  asked and diagnosed are history: how  *)
(* the two model calls ended.                                              *)
InvType ==
    [pc : Points, plan : Plans \cup {None}, planned : BOOLEAN,
     worker : Seq(WorkerStates), results : SUBSET Nat, partial : BOOLEAN,
     asked : {"no", "ok", "failed"}, diagnosed : {"no", "ok", "failed"}]

Fresh == [pc |-> "new", plan |-> None, planned |-> FALSE, worker |-> <<>>,
          results |-> {}, partial |-> FALSE, asked |-> "no", diagnosed |-> "no"]

Init ==
    /\ inv = [i \in Investigations |-> Fresh]
    /\ gateway = {}
    /\ trace = [s \in Steps \X BOOLEAN |-> 0]

-----------------------------------------------------------------------------
At(i, p) == inv[i].pc = p
Subtasks(i) == inv[i].plan.subtasks

(* trace_step: a step that returned or raised.                             *)
Trace(step, ok) == trace' = [trace EXCEPT ![<<step, ok>>] = @ + 1]

(* What a model's answer must satisfy to become an InvestigationPlan: at   *)
(* least one subtask, and only tools of the allowlist.                     *)
Parses(p) ==
    /\ p.subtasks # <<>>
    /\ \A k \in DOMAIN p.subtasks : IsPermitted(p.subtasks[k].tool)

(* Mutant: validate_plan leaves the tools to the schema.                   *)
Valid_AnyTool(p) ==
    /\ Len(p.subtasks) <= MaxSubtasks
    /\ \A j, k \in DOMAIN p.subtasks : p.subtasks[j].id = p.subtasks[k].id => j = k
    /\ p.withinBudget

(* validate_plan.                                                          *)
Valid(p) ==
    /\ Len(p.subtasks) <= MaxSubtasks
    /\ \A j, k \in DOMAIN p.subtasks : p.subtasks[j].id = p.subtasks[k].id => j = k
    /\ \A k \in DOMAIN p.subtasks : IsRead(p.subtasks[k].tool)
    /\ p.withinBudget

(* execute, given a plan: one task per subtask.                            *)
Dispatch(r, p) ==
    [r EXCEPT !.pc = "running", !.plan = p, !.worker = [k \in DOMAIN p.subtasks |-> "todo"]]

(* The caller asks for a plan.                                             *)
AskForPlan(i) ==
    /\ At(i, "new")
    /\ inv' = [inv EXCEPT ![i].pc = "planning"]
    /\ UNCHANGED <<gateway, trace>>

(* The preflight refuses, the model call fails, or its answer is no plan or*)
(* not within the bounds: the on-call has the raw alert.                   *)
PlanFails(i) ==
    /\ At(i, "planning")
    /\ inv' = [inv EXCEPT ![i].pc = "failed", ![i].asked = "failed"]
    /\ Trace("plan", FALSE)
    /\ UNCHANGED gateway

PlanReturned(i) ==
    /\ At(i, "planning")
    /\ \E p \in Plans :
        /\ Parses(p) /\ Valid(p)
        /\ inv' = [inv EXCEPT ![i] = Dispatch([@ EXCEPT !.planned = TRUE, !.asked = "ok"], p)]
    /\ Trace("plan", TRUE)
    /\ UNCHANGED gateway

(* A plan "constructed some other way" (mcp_client.py:21-23) is executed.  *)
RunOtherPlan(i) ==
    /\ At(i, "new")
    /\ \E p \in Plans : inv' = [inv EXCEPT ![i] = Dispatch(@, p)]
    /\ UNCHANGED <<gateway, trace>>

-----------------------------------------------------------------------------
(* A retrieval worker.                                                     *)
Worker(i, k, s) == inv[i].worker[k] = s
SetWorker(i, k, s) == inv' = [inv EXCEPT ![i].worker[k] = s]

(* Session.call: the second enforcement point; a refusal is the worker's   *)
(* failure.                                                                *)
CallTool(i, k) ==
    /\ At(i, "running") /\ Worker(i, k, "todo")
    /\ IF IsPermitted(Subtasks(i)[k].tool)
       THEN /\ gateway' = gateway \cup {[by |-> i, tool |-> Subtasks(i)[k].tool]}
            /\ SetWorker(i, k, "calling")
            /\ UNCHANGED trace
       ELSE /\ SetWorker(i, k, "failed")
            /\ Trace("retrieval", FALSE)
            /\ UNCHANGED gateway

(* Mutant: the decorator records a step only when it succeeds.             *)
WorkerEnds_TracedIfOk(i, k) ==
    /\ At(i, "running") /\ Worker(i, k, "calling")
    /\ \E ok \in BOOLEAN :
        /\ SetWorker(i, k, IF ok THEN "ok" ELSE "failed")
        /\ IF ok THEN Trace("retrieval", ok) ELSE UNCHANGED trace
    /\ UNCHANGED gateway

(* The gateway answers; or it refuses, fails, times out, or answers what is*)
(* no RetrievalResult.                                                     *)
WorkerEnds(i, k) ==
    /\ At(i, "running") /\ Worker(i, k, "calling")
    /\ \E ok \in BOOLEAN :
        /\ SetWorker(i, k, IF ok THEN "ok" ELSE "failed")
        /\ Trace("retrieval", ok)
    /\ UNCHANGED gateway

-----------------------------------------------------------------------------
(* The positions of the workers in state s.                                *)
Those(i, s) == {k \in DOMAIN inv[i].worker : Worker(i, k, s)}

(* Mutant: the scheduler goes on with the first result.                    *)
Gathered_First(i) == \E k \in DOMAIN inv[i].worker : Worker(i, k, "ok")

(* gather with return_exceptions: every task has returned or raised.       *)
Gathered(i) ==
    \A k \in DOMAIN inv[i].worker : Worker(i, k, "ok") \/ Worker(i, k, "failed")

(* Mutant: no result at all is no reason to give up.                       *)
Collect_Waits(i) ==
    /\ At(i, "running")
    /\ Gathered(i)
    /\ Those(i, "ok") # {}
    /\ inv' = [inv EXCEPT ![i].pc = "diagnosing", ![i].results = Those(i, "ok"),
                          ![i].partial = Those(i, "failed") # {}]
    /\ UNCHANGED <<gateway, trace>>

(* Total failure is the only fatal case.                                   *)
Collect(i) ==
    /\ At(i, "running")
    /\ Gathered(i)
    /\ IF Those(i, "ok") = {}
       THEN inv' = [inv EXCEPT ![i].pc = "failed"]      \* InvestigationFailed
       ELSE inv' = [inv EXCEPT ![i].pc = "diagnosing", ![i].results = Those(i, "ok"),
                               ![i].partial = Those(i, "failed") # {}]
    /\ UNCHANGED <<gateway, trace>>

(* render_for_oncall: what lies under the brief, and whether it carries the*)
(* note on partial evidence.                                               *)
Rendered(r) == [raw |-> r.results, note |-> r.partial]

(* diagnosis.run answers with a Hypothesis, or raises.                     *)
Diagnose(i) ==
    /\ At(i, "diagnosing")
    /\ \E ok \in BOOLEAN :
        /\ inv' = [inv EXCEPT ![i].pc = IF ok THEN "rendered" ELSE "failed",
                              ![i].diagnosed = IF ok THEN "ok" ELSE "failed"]
        /\ Trace("diagnosis", ok)
    /\ UNCHANGED gateway

(* The caller's own timeout cancels what is running.  A CancelledError is  *)
(* no Exception, so the trace does not see it; a tool call stays made.     *)
Cancel(i) ==
    /\ inv[i].pc \in {"planning", "running", "diagnosing"}
    /\ inv' = [inv EXCEPT ![i].pc = "cancelled",
                          ![i].worker = [k \in DOMAIN @ |->
                              IF @[k] \in {"ok", "failed"} THEN @[k] ELSE "cancelled"]]
    /\ UNCHANGED <<gateway, trace>>

Work(i) ==
    \/ PlanFails(i) \/ PlanReturned(i)
    \/ \E k \in DOMAIN inv[i].worker : CallTool(i, k) \/ WorkerEnds(i, k)
    \/ Collect(i) \/ Diagnose(i)

Next ==
    \E i \in Investigations : AskForPlan(i) \/ RunOtherPlan(i) \/ Work(i) \/ Cancel(i)

Spec == Init /\ [][Next]_vars

(* The model's and the gateway's clients have timeouts, so every call ends.*)
FairSpec == Spec /\ \A i \in Investigations : WF_vars(Work(i))

-----------------------------------------------------------------------------
(* The type of every variable.                                             *)
ITypeOK ==
    /\ inv \in [Investigations -> InvType]
    /\ gateway \subseteq [by : Investigations, tool : Tools]
    /\ trace \in [Steps \X BOOLEAN -> Nat]

(* The bright line (README.md:8): whoever built the plan, no call that     *)
(* executes, pages or mutates production reaches the gateway; and behind   *)
(* the supervisor nothing that writes does.                                *)
ToolsStayWithinTheLine ==
    \A call \in gateway :
        /\ call.tool \notin OtherTools
        /\ inv[call.by].planned => call.tool \in ReadTools

(* What the diagnosis, and then the engineer, is given is what the workers *)
(* found: the results of those that succeeded, all of them, at least one;  *)
(* and it carries the note exactly if a subtask of the plan is missing.    *)
EvidenceIsHonest ==
    \A i \in Investigations :
        inv[i].pc \in {"diagnosing", "rendered"} =>
            LET found == Rendered(inv[i])
            IN  /\ found.raw # {}
                /\ found.raw = Those(i, "ok")
                /\ found.note <=> found.raw # DOMAIN Subtasks(i)

(* Every step of every investigation that returned or raised is in the     *)
(* trace, once, with its outcome, however the investigations overlap and   *)
(* whichever of them is cancelled.                                         *)
Asked(o)     == Cardinality({i \in Investigations : inv[i].asked = o})
Diagnosed(o) == Cardinality({i \in Investigations : inv[i].diagnosed = o})

Retrieved(s) == UNION {{<<i, k>> : k \in Those(i, s)} : i \in Investigations}

TraceIsComplete ==
    /\ trace[<<"plan", TRUE>>] = Asked("ok")
    /\ trace[<<"plan", FALSE>>] = Asked("failed")
    /\ trace[<<"retrieval", TRUE>>] = Cardinality(Retrieved("ok"))
    /\ trace[<<"retrieval", FALSE>>] = Cardinality(Retrieved("failed"))
    /\ trace[<<"diagnosis", TRUE>>] = Diagnosed("ok")
    /\ trace[<<"diagnosis", FALSE>>] = Diagnosed("failed")

(* Whatever fails, the caller gets an answer or an error.                  *)
EveryInvestigationEnds ==
    \A i \in Investigations :
        inv[i].pc \in {"planning", "running"} ~>
            inv[i].pc \in {"rendered", "failed", "cancelled"}
=============================================================================
