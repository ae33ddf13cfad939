----------------------------- MODULE Remediator -----------------------------
(***************************************************************************)
(* The closed-loop runner of chapter 8 (remediator/runner.py) and what it  *)
(* drives: the ledger, the gate, the four handlers, the post-action        *)
(* verifier and the audit sink.  Several callers share one Runner, hence   *)
(* one ledger and one audit sink; nothing in the runner takes a lock.      *)
(*                                                                         *)
(* One call of Runner.execute is a frame.  The rollback step calls execute *)
(* again, so a caller owns one frame per rollback depth, and only the      *)
(* deepest runs.  A frame yields at every call that leaves the process     *)
(* (the Kubernetes client, the probe, the audit sink, sleep) and at every  *)
(* write to the ledger; the two ledger reads of the safety bounds are one  *)
(* step.                                                                   *)
(***************************************************************************)
EXTENDS Integers, Sequences, FiniteSets, Reversibility, Ledger

CONSTANTS
    Callers,            \* threads that call Runner.execute
    Deployments,        \* the (namespace, deployment) keys
    Tenants,
    Handlers,           \* registry: action name -> handler class
    InverseOf,          \* registry.get(name + "_inverse"), or NoAction
    NoAction,
    Probed,             \* the actions with a registered probe
    Requests,           \* the arguments callers may pass
    Hysteresis,         \* HYSTERESIS_SECONDS, in ticks
    PollInterval,       \* interval_seconds of poll_until, in ticks
    ReadinessProbe,     \* which deployments have a readiness probe
    RevisionAges,       \* ages of the last rollout, in seconds
    StartReplicas,      \* replica counts a deployment may start with
    Faults,             \* outside calls that may raise
    NoContext,
    MaxTime,            \* bound: the clock stops here
    MaxIssued           \* bound: no new request after this many event ids

Actions  == DOMAIN Handlers
Classes  == {"RestartHandler", "ScaleHandler", "ScaleInverseHandler",
             "RollbackHandler"}
FaultPoints == {"inspect", "act", "verify", "audit"}

(* The longest chain of rollbacks the runner allows.                       *)
MaxRollbackDepth == 1
Depths           == 0 .. MaxRollbackDepth + 1

(* No diagnosis timestamp in the context.                                  *)
NoDiagnosis == -1

(* A request is the action name, the parameters and the context of one     *)
(* call: deadline and diagnosis are given relative to the call.            *)
RequestType ==
    [action : Actions, tenant : Tenants, dep : Deployments,
     delta : Int, cap : Nat, maxAge : Nat,
     dryRun : BOOLEAN, ceiling : Tiers,
     window : Nat, budget : Nat, diagnosisAge : Nat \cup {NoDiagnosis}]

ASSUME RegistryAssumption ==
    /\ Handlers \in [Actions -> Classes]
    /\ NoAction \notin Actions
    /\ InverseOf \in [Actions -> Actions \cup {NoAction}]
    /\ Probed \subseteq Actions

ASSUME RequestsAssumption == Requests \subseteq RequestType

ASSUME ParametersAssumption ==
    /\ Hysteresis \in Nat
    /\ PollInterval \in Nat \ {0}
    /\ ReadinessProbe \in [Deployments -> BOOLEAN]
    /\ RevisionAges \subseteq Nat
    /\ StartReplicas \subseteq Nat
    /\ Faults \subseteq FaultPoints
    /\ MaxTime \in Nat
    /\ MaxIssued \in Nat

ASSUME NoContextAssumption == NoContext \notin [req : Requests, started : Nat]

VARIABLES
    now,        \* time.time(), in ticks
    ledger,     \* Ledger._entries
    replicas,   \* spec.replicas of every deployment
    audit,      \* the records the audit sink has accepted, in order
    ctx,        \* per caller: the request it is serving
    top,        \* per caller: the depth of its running frame, -1 when idle
    frame,      \* per caller and depth: the local state of one execute call
    issued,     \* per caller: event ids drawn so far
    writes,     \* history: the mutations applied to the cluster
    raised      \* history: event ids of the calls that ended in an exception

vars == <<now, ledger, replicas, audit, ctx, top, frame, issued, writes, raised>>

-----------------------------------------------------------------------------
(* Outcomes and program points.                                            *)

Untouched == {"refused", "refused_human_required", "dry_run_ok"}
Executed  == {"ok", "rolled_back", "action_failed"}
Outcomes  == Untouched \cup Executed

Points == {"idle", "bounds", "inspect", "gate", "act", "write", "poll",
           "sleep", "rollback", "nested", "close", "emit"}

(* Between ledger.record and the mark that ends the action.                *)
OpenPoints == {"act", "write", "poll", "sleep", "rollback", "nested", "close"}

Ids == Callers \X (Nat \ {0})

IdleFrame ==
    [pc |-> "idle", n |-> 0, action |-> NoAction, tier |-> IRREVERSIBLE,
     age |-> 0, from |-> 0, target |-> 0, wake |-> 0, outcome |-> "pending"]

FrameType ==
    [pc : Points, n : Nat, action : Actions \cup {NoAction}, tier : Tiers,
     age : Nat, from : Nat, target : Nat, wake : Nat,
     outcome : Outcomes \cup {"pending"}]

EntryType ==
    [id : Ids, action : Actions, tenant : Tenants, dep : Deployments,
     delta : Int, ts : Nat, depth : Depths,
     rolledBack : BOOLEAN, terminal : BOOLEAN]

EventType ==
    [id : Ids, action : Actions, tenant : Tenants, depth : Depths,
     outcome : Outcomes]

WriteType ==
    [id : Ids, action : Actions, dep : Deployments, depth : Depths,
     from : Nat, to : Nat, age : Nat, req : Requests]

ContextType == [req : Requests, started : Nat]

-----------------------------------------------------------------------------
(* Helper state formulae.  F(c) is the running frame of caller c.          *)

F(c)        == frame[c][top[c]]
At(c, p)    == top[c] >= 0 /\ F(c).pc = p
Id(c, d)    == <<c, frame[c][d].n>>
Req(c)      == ctx[c].req

(* Mutant: the rollback gets a deadline of its own.                        *)
Deadline_Fresh(c) ==
    IF top[c] = 0 THEN ctx[c].started + Req(c).window ELSE now + 1

Deadline(c) == ctx[c].started + Req(c).window
Class(c)    == Handlers[F(c).action]

(* The running frame takes the values of the record r; the others stay.    *)
Step(c, r) == frame' = [frame EXCEPT ![c][top[c]] = r]

Goto(c, p) == Step(c, [F(c) EXCEPT !.pc = p])

(* The frame settles on an outcome and continues at point p.               *)
Settle(c, p, outcome) == Step(c, [F(c) EXCEPT !.pc = p, !.outcome = outcome])

NewFrame(c, a) ==
    [IdleFrame EXCEPT !.pc = "bounds", !.n = issued[c] + 1, !.action = a]

NoFrames == [d \in Depths |-> IdleFrame]

(* An exception nobody catches unwinds every frame of the call, the        *)
(* rollback frames included: no event, and the ledger stays as it is.      *)
Raise(c) ==
    /\ raised' = raised \cup {Id(c, d) : d \in 0 .. top[c]}
    /\ frame' = [frame EXCEPT ![c] = NoFrames]
    /\ top' = [top EXCEPT ![c] = -1]
    /\ ctx' = [ctx EXCEPT ![c] = NoContext]

(* execute returns: to the rollback step of the frame above it, which      *)
(* ignores the event it gets, or to the caller.                            *)
Return(c) ==
    /\ top' = [top EXCEPT ![c] = @ - 1]
    /\ IF top[c] = 0
       THEN /\ frame' = [frame EXCEPT ![c] = NoFrames]
            /\ ctx' = [ctx EXCEPT ![c] = NoContext]
       ELSE /\ frame' = [frame EXCEPT
                            ![c][top[c]] = IdleFrame,
                            ![c][top[c] - 1] =
                                [@ EXCEPT !.pc = "close", !.outcome = "rolled_back"]]
            /\ UNCHANGED ctx

-----------------------------------------------------------------------------
(* _check_safety_bounds.                                                   *)

Stale(c) ==
    /\ Req(c).diagnosisAge # NoDiagnosis
    /\ now - ctx[c].started + Req(c).diagnosisAge > Req(c).budget

InFlight(c) == HasOpen(ledger, Req(c).tenant, F(c).action, Req(c).dep)

(* Mutant: only one of the two directions.                                 *)
IsScaleInverse_OneWay(prevDelta, newDelta) == prevDelta < 0 /\ newDelta > 0

IsScaleInverse(prevDelta, newDelta) ==
    \/ prevDelta > 0 /\ newDelta < 0
    \/ prevDelta < 0 /\ newDelta > 0

Oscillates(c) ==
    \E i \in DOMAIN ledger :
        /\ IsLastAgainst(ledger, i, Req(c).tenant, Req(c).dep)
        /\ ledger[i].terminal
        /\ ledger[i].action = "scale" /\ F(c).action = "scale"
        /\ IsScaleInverse(ledger[i].delta, Req(c).delta)
        /\ now - ledger[i].ts < Hysteresis

(* Mutant: one rollback too many.                                          *)
TooDeep_OffByOne(c) == top[c] > MaxRollbackDepth + 1

TooDeep(c) == top[c] > MaxRollbackDepth

(* Mutant: the in-flight check is dropped.                                 *)
BoundsRefuse_NoStormCheck(c) == Stale(c) \/ Oscillates(c) \/ TooDeep(c)

BoundsRefuse(c) == Stale(c) \/ InFlight(c) \/ Oscillates(c) \/ TooDeep(c)

(* The tier a handler's execute is decorated with.                         *)
Baseline(class) ==
    CASE class = "RestartHandler"      -> REVERSIBLE
      [] class = "ScaleHandler"        -> REVERSIBLE
      [] class = "ScaleInverseHandler" -> RECOVERABLE
      [] class = "RollbackHandler"     -> RECOVERABLE

(* inspect() of the four handlers: what they read and what they claim.     *)
(* Only the rollback handler looks at the age of the last rollout, and     *)
(* reports it only when it exceeds the request's max_age_seconds.          *)
Site(c, age) ==
    [replicas       |-> replicas[Req(c).dep],
     readinessProbe |-> Class(c) = "RestartHandler" => ReadinessProbe[Req(c).dep],
     stateful       |-> FALSE,
     maxAge         |-> IF Class(c) = "RollbackHandler" /\ age > Req(c).maxAge
                        THEN age ELSE 0]

(* The ceiling of a rollback call is RECOVERABLE whatever the first call's.*)
Ceiling(c) == IF top[c] = 0 THEN Req(c).ceiling ELSE RECOVERABLE

NewEntry(c) ==
    [id |-> Id(c, top[c]), action |-> F(c).action, tenant |-> Req(c).tenant,
     dep |-> Req(c).dep, delta |-> Req(c).delta, ts |-> now, depth |-> top[c],
     rolledBack |-> FALSE, terminal |-> FALSE]

NewEvent(c) ==
    [id |-> Id(c, top[c]), action |-> F(c).action, tenant |-> Req(c).tenant,
     depth |-> top[c], outcome |-> F(c).outcome]

(* One mutation reaches the cluster: replicas of the deployment go from    *)
(* the count the handler read to the count it asks for.                    *)
NewWrite(c, from, to) ==
    [id |-> Id(c, top[c]), action |-> F(c).action, dep |-> Req(c).dep,
     depth |-> top[c], from |-> from, to |-> to, age |-> F(c).age,
     req |-> Req(c)]

-----------------------------------------------------------------------------
Init ==
    /\ now = 0
    /\ ledger = << >>
    /\ replicas \in [Deployments -> StartReplicas]
    /\ audit = << >>
    /\ ctx = [c \in Callers |-> NoContext]
    /\ top = [c \in Callers |-> -1]
    /\ frame = [c \in Callers |-> NoFrames]
    /\ issued = [c \in Callers |-> 0]
    /\ writes = {}
    /\ raised = {}

(* A caller enters Runner.execute at depth 0.  The clock must be able to   *)
(* reach the call's deadline.                                              *)
Call(c, r) ==
    /\ top[c] = -1
    /\ issued[c] < MaxIssued
    /\ now + r.window + PollInterval <= MaxTime
    /\ ctx' = [ctx EXCEPT ![c] = [req |-> r, started |-> now]]
    /\ frame' = [frame EXCEPT ![c][0] = NewFrame(c, r.action)]
    /\ top' = [top EXCEPT ![c] = 0]
    /\ issued' = [issued EXCEPT ![c] = @ + 1]
    /\ UNCHANGED <<now, ledger, replicas, audit, writes, raised>>

Start(c) == \E r \in Requests : Call(c, r)

(* Mutant: a refusal returns without an event.                             *)
CheckBounds_NoEvent(c) ==
    /\ At(c, "bounds")
    /\ IF BoundsRefuse(c) THEN Return(c) ELSE Goto(c, "inspect") /\ UNCHANGED <<ctx, top>>
    /\ UNCHANGED <<now, ledger, replicas, audit, issued, writes, raised>>

(* Step 0: the cross-cutting safety bounds.                                *)
CheckBounds(c) ==
    /\ At(c, "bounds")
    /\ IF BoundsRefuse(c) THEN Settle(c, "emit", "refused") ELSE Goto(c, "inspect")
    /\ UNCHANGED <<now, ledger, replicas, audit, ctx, top, issued, writes, raised>>

(* Step 1: the handler inspects the call site and the adjuster sets the    *)
(* realized tier.                                                          *)
Inspect(c) ==
    /\ At(c, "inspect")
    /\ \E age \in RevisionAges :
        /\ Class(c) # "RollbackHandler" => age = 0
        /\ Step(c, [F(c) EXCEPT
                        !.pc = "gate",
                        !.age = age,
                        !.tier = Adjust(Baseline(Class(c)), Site(c, age))])
    /\ UNCHANGED <<now, ledger, replicas, audit, ctx, top, issued, writes, raised>>

(* Mutant: the action is executed without being recorded.                  *)
Gate_NoRecord(c) ==
    /\ At(c, "gate")
    /\ IF ~ Proceeds(F(c).tier, Ceiling(c))
       THEN Settle(c, "emit", "refused_human_required")
       ELSE IF Req(c).dryRun THEN Settle(c, "emit", "dry_run_ok") ELSE Goto(c, "act")
    /\ UNCHANGED <<now, ledger, replicas, audit, ctx, top, issued, writes, raised>>

(* Steps 1 to 3: refuse, stop at the dry run, or record the action.        *)
Gate(c) ==
    /\ At(c, "gate")
    /\ IF ~ Proceeds(F(c).tier, Ceiling(c))
       THEN Settle(c, "emit", "refused_human_required") /\ UNCHANGED ledger
       ELSE IF Req(c).dryRun
            THEN Settle(c, "emit", "dry_run_ok") /\ UNCHANGED ledger
            ELSE Goto(c, "act") /\ ledger' = Record(ledger, NewEntry(c))
    /\ UNCHANGED <<now, replicas, audit, ctx, top, issued, writes, raised>>

(* Step 3, restart and rollback: one patch of the deployment.              *)
Patch(c) ==
    /\ At(c, "act")
    /\ Class(c) \in {"RestartHandler", "RollbackHandler"}
    /\ LET r == replicas[Req(c).dep] IN
        writes' = writes \cup {NewWrite(c, r, r)}
    /\ Goto(c, "poll")
    /\ UNCHANGED <<now, ledger, replicas, audit, ctx, top, issued, raised>>

(* Step 3, scale handlers: read the replica count and compute the target.  *)
ScaleOutTarget(r, req) == IF r + req.delta < req.cap THEN r + req.delta ELSE req.cap

(* Mutants: no floor; always one pod.                                      *)
ScaleInTarget_NoFloor(r, req) == IF req.delta < 0 THEN r + req.delta ELSE r - req.delta
ScaleInTarget_OnePod(r, req)  == IF r > 2 THEN r - 1 ELSE 1

ScaleInTarget(r, req) ==
    LET contract == IF req.delta = 0 THEN 1
                    ELSE IF req.delta < 0 THEN - req.delta ELSE req.delta
    IN  IF r - contract > 1 THEN r - contract ELSE 1

ReadReplicas(c) ==
    /\ At(c, "act")
    /\ LET r == replicas[Req(c).dep] IN
        \/ /\ Class(c) = "ScaleHandler"
           /\ IF Req(c).delta <= 0 \/ ScaleOutTarget(r, Req(c)) = r
              THEN Settle(c, "close", "action_failed")
              ELSE Step(c, [F(c) EXCEPT !.pc = "write", !.from = r,
                                        !.target = ScaleOutTarget(r, Req(c))])
        \/ /\ Class(c) = "ScaleInverseHandler"
           /\ Step(c, [F(c) EXCEPT !.pc = "write", !.from = r,
                                   !.target = ScaleInTarget(r, Req(c))])
    /\ UNCHANGED <<now, ledger, replicas, audit, ctx, top, issued, writes, raised>>

(* ... and write it, whatever the count is by now.                         *)
WriteReplicas(c) ==
    /\ At(c, "write")
    /\ replicas' = [replicas EXCEPT ![Req(c).dep] = F(c).target]
    /\ writes' = writes \cup {NewWrite(c, F(c).from, F(c).target)}
    /\ Goto(c, "poll")
    /\ UNCHANGED <<now, ledger, audit, ctx, top, issued, raised>>

(* Mutant: the exception is swallowed and verification goes on.            *)
HandlerRaises_Swallowed(c) ==
    /\ "act" \in Faults
    /\ At(c, "act") \/ At(c, "write")
    /\ Goto(c, "poll")
    /\ UNCHANGED <<now, ledger, replicas, audit, ctx, top, issued, writes, raised>>

(* The Kubernetes client raises inside handler.execute; the call may have  *)
(* reached the API server before the error did.  The runner catches it.    *)
HandlerRaises(c) ==
    /\ "act" \in Faults
    /\ \/ At(c, "act")
       \/ At(c, "write")
    /\ \/ UNCHANGED <<replicas, writes>>
       \/ /\ At(c, "act")
          /\ Class(c) \in {"RestartHandler", "RollbackHandler"}
          /\ LET r == replicas[Req(c).dep] IN
                writes' = writes \cup {NewWrite(c, r, r)}
          /\ UNCHANGED replicas
       \/ /\ At(c, "write")
          /\ replicas' = [replicas EXCEPT ![Req(c).dep] = F(c).target]
          /\ writes' = writes \cup {NewWrite(c, F(c).from, F(c).target)}
    /\ Settle(c, "close", "action_failed")
    /\ UNCHANGED <<now, ledger, audit, ctx, top, issued, raised>>

(* Mutant: polls until the probe passes.                                   *)
Poll_NoDeadline(c) ==
    /\ At(c, "poll")
    /\ IF F(c).action \in Probed
       THEN \/ Settle(c, "close", "ok")
            \/ Step(c, [F(c) EXCEPT !.pc = "sleep", !.wake = now + PollInterval])
       ELSE Goto(c, "rollback")
    /\ UNCHANGED <<now, ledger, replicas, audit, ctx, top, issued, writes, raised>>

(* Step 4: poll the probe until it passes or the deadline does.  An action *)
(* without a probe fails verification at once.  The probe's answer comes   *)
(* from the cluster and the metrics, so it is not constrained.             *)
Poll(c) ==
    /\ At(c, "poll")
    /\ IF F(c).action \in Probed /\ now < Deadline(c)
       THEN \/ Settle(c, "close", "ok")
            \/ Step(c, [F(c) EXCEPT !.pc = "sleep", !.wake = now + PollInterval])
       ELSE Goto(c, "rollback")
    /\ UNCHANGED <<now, ledger, replicas, audit, ctx, top, issued, writes, raised>>

Wake(c) ==
    /\ At(c, "sleep")
    /\ now >= F(c).wake
    /\ Goto(c, "poll")
    /\ UNCHANGED <<now, ledger, replicas, audit, ctx, top, issued, writes, raised>>

(* Mutant: the entry is marked before the inverse has run.                 *)
Rollback_MarksFirst(c) ==
    /\ At(c, "rollback")
    /\ ledger' = MarkRolledBack(ledger, Id(c, top[c]))
    /\ LET inverse == InverseOf[F(c).action] IN
        IF inverse = NoAction
        THEN Settle(c, "close", "rolled_back") /\ UNCHANGED <<top, issued>>
        ELSE /\ frame' = [frame EXCEPT ![c][top[c]].pc = "nested",
                                       ![c][top[c] + 1] = NewFrame(c, inverse)]
             /\ top' = [top EXCEPT ![c] = @ + 1]
             /\ issued' = [issued EXCEPT ![c] = @ + 1]
    /\ UNCHANGED <<now, replicas, audit, ctx, writes, raised>>

(* Step 5: call the inverse handler through execute, one level deeper and  *)
(* with the same parameters and context; without one, do nothing.          *)
Rollback(c) ==
    /\ At(c, "rollback")
    /\ LET inverse == InverseOf[F(c).action] IN
        IF inverse = NoAction
        THEN /\ Settle(c, "close", "rolled_back")
             /\ UNCHANGED <<top, issued>>
        ELSE /\ frame' = [frame EXCEPT
                              ![c][top[c]].pc = "nested",
                              ![c][top[c] + 1] = NewFrame(c, inverse)]
             /\ top' = [top EXCEPT ![c] = @ + 1]
             /\ issued' = [issued EXCEPT ![c] = @ + 1]
    /\ UNCHANGED <<now, ledger, replicas, audit, ctx, writes, raised>>

(* Mutant: a rolled-back action is only marked terminal.                   *)
Close_NeverRolledBack(c) ==
    /\ At(c, "close")
    /\ ledger' = MarkTerminal(ledger, Id(c, top[c]))
    /\ Goto(c, "emit")
    /\ UNCHANGED <<now, replicas, audit, ctx, top, issued, writes, raised>>

(* mark_terminal or mark_rolled_back, after act, verify or rollback.       *)
Close(c) ==
    /\ At(c, "close")
    /\ ledger' = IF F(c).outcome = "rolled_back"
                 THEN MarkRolledBack(ledger, Id(c, top[c]))
                 ELSE MarkTerminal(ledger, Id(c, top[c]))
    /\ Goto(c, "emit")
    /\ UNCHANGED <<now, replicas, audit, ctx, top, issued, writes, raised>>

(* _emit, and the return that follows it.                                  *)
Emit(c) ==
    /\ At(c, "emit")
    /\ audit' = Append(audit, NewEvent(c))
    /\ Return(c)
    /\ UNCHANGED <<now, ledger, replicas, issued, writes, raised>>

(* inspect, a probe and the audit sink are called outside any try: what    *)
(* they raise escapes Runner.execute.                                      *)
CallRaises(c) ==
    /\ \/ "inspect" \in Faults /\ At(c, "inspect")
       \/ "verify" \in Faults /\ At(c, "poll")
             /\ F(c).action \in Probed /\ now < Deadline(c)
       \/ "audit" \in Faults /\ At(c, "emit")
    /\ Raise(c)
    /\ UNCHANGED <<now, ledger, replicas, audit, issued, writes>>

Tick ==
    /\ now < MaxTime
    /\ now' = now + 1
    /\ UNCHANGED <<ledger, replicas, audit, ctx, top, frame, issued, writes, raised>>

(* What a caller does once it has entered execute.                         *)
Run(c) ==
    \/ CheckBounds(c) \/ Inspect(c) \/ Gate(c)
    \/ Patch(c) \/ ReadReplicas(c) \/ WriteReplicas(c) \/ HandlerRaises(c)
    \/ Poll(c) \/ Wake(c) \/ Rollback(c)
    \/ Close(c) \/ Emit(c) \/ CallRaises(c)

Next == Tick \/ \E c \in Callers : Start(c) \/ Run(c)

Spec == Init /\ [][Next]_vars

(* A thread inside execute keeps running, and time passes.                 *)
Fairness == WF_vars(Tick) /\ \A c \in Callers : WF_vars(Run(c))

FairSpec == Spec /\ Fairness

-----------------------------------------------------------------------------
(* Properties.                                                             *)

LiveIds    == {Id(c, d) : c \in Callers, d \in Depths} \ {<<c, 0>> : c \in Callers}
AuditedIds == {audit[i].id : i \in DOMAIN audit}
Drawn(id)  == id[2] <= issued[id[1]]

(* The type of every variable.                                             *)
TypeOK ==
    /\ now \in Nat
    /\ ledger \in Seq(EntryType)
    /\ replicas \in [Deployments -> Nat]
    /\ audit \in Seq(EventType)
    /\ ctx \in [Callers -> ContextType \cup {NoContext}]
    /\ top \in [Callers -> Depths \cup {-1}]
    /\ frame \in [Callers -> [Depths -> FrameType]]
    /\ issued \in [Callers -> Nat]
    /\ writes \subseteq WriteType
    /\ raised \subseteq Ids

(* The discipline of nested calls, on which every other argument rests:    *)
(* the frames above the running one wait for it, the ones below are idle,  *)
(* event ids grow with the depth, a frame knows its outcome before it      *)
(* closes, and nothing past the depth limit gets beyond the bounds check.  *)
FrameOK(c, d) ==
    LET f == frame[c][d] IN
        /\ f.pc = "idle" <=> d > top[c]
        /\ f.pc = "nested" <=> d < top[c]
        /\ d > top[c] => f.n = 0
        /\ d <= top[c] => f.action \in Actions /\ f.n \in 1 .. issued[c]
        /\ f.pc = "close" => f.outcome \in Executed
        /\ f.pc = "emit" => f.outcome \in Outcomes
        /\ d > MaxRollbackDepth => f.pc \in {"idle", "bounds", "emit"}
        /\ \A e \in Depths : d < e /\ e <= top[c] => f.n < frame[c][e].n

StackOK ==
    \A c \in Callers :
        /\ \A d \in Depths : FrameOK(c, d)
        /\ top[c] >= 0 => ctx[c] \in ContextType

(* Every event id execute draws (runner.py:61) is, at every moment, either *)
(* still running, or the id of a call that ended in an exception, or the   *)
(* id of exactly one audit record; never two of these, never none.         *)
EveryCallAccounted ==
    /\ \A i, j \in DOMAIN audit : audit[i].id = audit[j].id => i = j
    /\ \A c \in Callers : \A n \in 1 .. issued[c] :
        LET id == <<c, n>> IN
            /\ id \in LiveIds \cup raised \cup AuditedIds
            /\ id \in LiveIds => id \notin raised \cup AuditedIds
            /\ id \notin raised \cap AuditedIds

(* The ledger and the audit trail agree: an entry is closed only when its  *)
(* record is written, being written, or lost with an exception of the      *)
(* sink; it is flagged as rolled back exactly when the record says so; and *)
(* no record exists for an entry that still blocks the resource.           *)
LedgerMatchesAudit ==
    \A i \in DOMAIN ledger :
        LET e == ledger[i]
            Emitting == \E c \in Callers, d \in Depths :
                            /\ frame[c][d].pc = "emit"
                            /\ Id(c, d) = e.id
                            /\ e.rolledBack <=> frame[c][d].outcome = "rolled_back"
            Audited  == \E k \in DOMAIN audit :
                            /\ audit[k].id = e.id
                            /\ audit[k].outcome \in Executed
                            /\ e.rolledBack <=> audit[k].outcome = "rolled_back"
        IN  /\ e.terminal => Emitting \/ Audited \/ e.id \in raised
            /\ ~ e.terminal => e.id \notin AuditedIds /\ ~ e.rolledBack

(* The audit trail tells the truth about the cluster: a refusal or a dry   *)
(* run touched nothing, an action reported as ok or rolled back did mutate *)
(* its deployment, and no action mutates it twice.                         *)
Mutated(id) == \E w \in writes : w.id = id

AuditTellsTheTruth ==
    /\ \A k \in DOMAIN audit :
        /\ audit[k].outcome \in Untouched => ~ Mutated(audit[k].id)
        /\ audit[k].outcome \in {"ok", "rolled_back"} => Mutated(audit[k].id)
    /\ \A v, w \in writes : v.id = w.id => v = w

(* No mutation without the gate: at the moment of a write the deployment   *)
(* is still one this call may touch without a human.  Only a restart or a  *)
(* scale-out of two or more replicas behind a readiness probe passes under *)
(* the lowest ceiling; a rollback past both age limits needs the highest;  *)
(* a dry run never writes.  Holds for callers that do not overlap: the     *)
(* site is inspected well before it is written.                            *)
WritesWereGated ==
    \A w \in writes :
        LET class   == Handlers[w.action]
            ceiling == IF w.depth = 0 THEN w.req.ceiling ELSE RECOVERABLE
        IN  /\ ~ w.req.dryRun
            /\ ceiling = REVERSIBLE =>
                    /\ class \in {"RestartHandler", "ScaleHandler"}
                    /\ w.from >= 2
                    /\ class = "RestartHandler" => ReadinessProbe[w.dep]
            /\ class = "RollbackHandler" /\ w.age > w.req.maxAge /\ w.age > AutonomyAge
                    => ceiling = IRREVERSIBLE

(* The entry of the action that caller c has in flight at depth d has      *)
(* fallen out of the deque: Capacity others were recorded after it, all of *)
(* them since the call began.                                              *)
CrowdedOut(c, d) ==
    /\ Len(ledger) = Capacity
    /\ \A i \in DOMAIN ledger :
            ledger[i].id # Id(c, d) /\ ledger[i].ts >= ctx[c].started

(* While an action is in flight the ledger can name it: its entry is there *)
(* and open, and nothing but Capacity later actions, recorded while the    *)
(* call was under way, takes it out (ledger.py:33-48).                     *)
InFlightIsFindable ==
    \A c \in Callers, d \in Depths :
        frame[c][d].pc \in OpenPoints =>
            \/ \E i \in DOMAIN ledger :
                    /\ ledger[i].id = Id(c, d)
                    /\ ~ ledger[i].terminal
            \/ CrowdedOut(c, d)

(* The rollback-chain limit: nothing is recorded, and so nothing is        *)
(* executed, below MAX_ROLLBACK_DEPTH; and while a rollback is open, so is *)
(* the action it undoes, recorded before it (its caller is waiting, or an  *)
(* exception took both), unless a full ledger has dropped that entry.      *)
RollbackChainBounded ==
    \A i \in DOMAIN ledger :
        LET parent == <<ledger[i].id[1], ledger[i].id[2] - 1>> IN
            /\ ledger[i].depth <= MaxRollbackDepth
            /\ ledger[i].depth > 0 /\ ~ ledger[i].terminal =>
                \/ \E j \in DOMAIN ledger :
                        /\ j < i
                        /\ ledger[j].id = parent
                        /\ ~ ledger[j].terminal
                        /\ ledger[j].depth = ledger[i].depth - 1
                        /\ InverseOf[ledger[j].action] = ledger[i].action
                \/ /\ Len(ledger) = Capacity
                   /\ \A j \in DOMAIN ledger : ledger[j].id # parent

(* The verifier shares one deadline between an action and its rollback, so *)
(* by the time a rollback runs the deadline has passed and its own record  *)
(* never says "ok" (verifier.py:33-47 with the context passed on at        *)
(* runner.py:193-199).  The one exception is the rollback of an action     *)
(* without a probe, which fails verification before its deadline.          *)
RollbackNeverVerified ==
    \A k \in DOMAIN audit :
        audit[k].depth > 0 /\ audit[k].outcome = "ok" =>
            \E a \in Actions \ Probed : InverseOf[a] = audit[k].action

(* What a rolled-back scale-out leaves: the inverse brings the deployment  *)
(* back to the count it had, and below it when the ceiling clamped the     *)
(* scale-out, but never above it and never to zero.  Holds for callers     *)
(* that do not overlap.                                                    *)
ScaleRollbackUndoes ==
    \A w, v \in writes :
        /\ w.action = "scale" /\ w.from >= 1
        /\ v.action = "scale_inverse" /\ v.depth = w.depth + 1
        /\ v.id = <<w.id[1], w.id[2] + 1>>
        => /\ 1 <= v.to /\ v.to <= w.from
           /\ w.to = w.from + w.req.delta => v.to = w.from

(* No action storm: two actions of the same kind are never in flight for   *)
(* one tenant against one deployment (ledger.find_open, runner.py:146).    *)
(* Holds for callers that do not overlap.                                  *)
NoActionStorm ==
    \A i, j \in DOMAIN ledger :
        /\ ~ ledger[i].terminal /\ ~ ledger[j].terminal
        /\ ledger[i].tenant = ledger[j].tenant
        /\ ledger[i].dep = ledger[j].dep
        /\ ledger[i].action = ledger[j].action
        => i = j

(* No flapping: two scale actions of opposite sign against the same        *)
(* deployment, however many actions apart, are separated by the dwell      *)
(* window, unless an action that is not a scale, or a scale by nothing,    *)
(* was recorded between them: only that hides the earlier one from the     *)
(* runner, which looks at the last action alone (runner.py:153-166).       *)
(* Holds for callers that do not overlap.                                  *)
Hides(entry, tenant, dep) ==
    IsAgainst(entry, tenant, dep) /\ (entry.action # "scale" \/ entry.delta = 0)

ScaleDwellHonoured ==
    \A i, j \in DOMAIN ledger :
        /\ i < j
        /\ ledger[i].tenant = ledger[j].tenant /\ ledger[i].dep = ledger[j].dep
        /\ ledger[i].action = "scale" /\ ledger[j].action = "scale"
        /\ ledger[i].delta * ledger[j].delta < 0
        => \/ ledger[j].ts - ledger[i].ts >= Hysteresis
           \/ \E k \in i + 1 .. j - 1 :
                    Hides(ledger[k], ledger[i].tenant, ledger[i].dep)

(* The trail is append-only, and an entry, once closed, never reopens and  *)
(* never changes its mind about having been rolled back.                   *)
HistoryIsFinal ==
    [][ /\ Len(audit') >= Len(audit)
        /\ \A k \in DOMAIN audit : audit'[k] = audit[k]
        /\ \A i \in DOMAIN ledger, j \in DOMAIN ledger' :
                ledger[i].id = ledger'[j].id /\ ledger[i].terminal
                    => ledger'[j] = ledger[i] ]_vars

(* A replica count changes only by a call that is writing it, and whose    *)
(* own entry against that deployment is open in the ledger at that moment, *)
(* or was crowded out of it by later actions.                              *)
OnlyOpenActionsMutate ==
    [][ \A dep \in Deployments :
            replicas'[dep] # replicas[dep] =>
                \E c \in Callers :
                    /\ top[c] >= 0 /\ Req(c).dep = dep
                    /\ \E w \in writes' \ writes : w.id = Id(c, top[c])
                    /\ \/ \E i \in DOMAIN ledger :
                                /\ ledger[i].id = Id(c, top[c])
                                /\ ledger[i].dep = dep
                                /\ ~ ledger[i].terminal
                       \/ CrowdedOut(c, top[c]) ]_vars

(* Every call of execute ends, and the poll loop with it: by a return or   *)
(* by an exception.                                                        *)
EveryCallEnds == \A c \in Callers : top[c] >= 0 ~> top[c] = -1

(* The runner implements the abstract closed loop: the calls still running *)
(* are the open ones, the writes are the effects, the audit sink's records *)
(* are the trail.                                                          *)
CL == INSTANCE ClosedLoop WITH
    EventIds <- Callers \X (1 .. MaxIssued + MaxRollbackDepth + 1),
    open     <- LiveIds,
    effects  <- {w.id : w \in writes},
    trail    <- [k \in DOMAIN audit |->
                    [id |-> audit[k].id, outcome |-> audit[k].outcome]],
    lost     <- raised

ImplementsClosedLoop == CL!Spec

-----------------------------------------------------------------------------
(* What the repository's texts and tests say, and the code does not do.    *)

(* runner.py:4-5: every action emits exactly one AuditEvent with a         *)
(* terminal outcome.                                                       *)
MutationsAreAudited ==
    \A w \in writes : w.id \in LiveIds \cup AuditedIds

(* README of chapter 8: rolled_back means the action was executed, the     *)
(* verifier failed and the inverse handler ran.                            *)
RolledBackMeansInverseRan ==
    \A k \in DOMAIN audit :
        audit[k].outcome = "rolled_back" /\ audit[k].depth = 0 =>
            \E v \in writes :
                /\ v.depth = 1
                /\ v.id = <<audit[k].id[1], audit[k].id[2] + 1>>

(* scale.py:33: the scale handler is scale-out only.                       *)
ScaleOnlyGrows ==
    \A w \in writes : Handlers[w.action] = "ScaleHandler" => w.to > w.from

(* runner.py:28-29: min dwell between an action and its inverse.           *)
InverseDwells ==
    \A i, j \in DOMAIN ledger :
        /\ i < j
        /\ ledger[i].tenant = ledger[j].tenant /\ ledger[i].dep = ledger[j].dep
        /\ ledger[i].action = "scale" /\ ledger[j].action = "scale"
        /\ ledger[i].delta * ledger[j].delta < 0
        => ledger[j].ts - ledger[i].ts >= Hysteresis
=============================================================================
