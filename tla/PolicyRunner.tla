----------------------------- MODULE PolicyRunner -----------------------------
(***************************************************************************)
(* The policy runner of chapter 9 (autonomy/policy_runner.py): the kill    *)
(* switch, then the policy, then the runner of chapter 8.  The Remediator  *)
(* module is the runner, with all its state; here a caller reaches it only *)
(* through PolicyRunner.execute, while operators trip and reset switches.  *)
(* A call yields at every Redis command and at the request to OPA.         *)
(***************************************************************************)
EXTENDS Remediator, Policy

CONSTANTS
    Operators, Never, Untils, MaxOps,       \* see KillSwitch
    LocalTimes,     \* the wall-clock times at which OPA may be asked
    Claims,         \* arguments of PolicyRunner.execute
    NoClaim,
    MaxCalls        \* bound: calls of PolicyRunner.execute per caller

VARIABLES
    keys, busy, trail, ops,     \* see KillSwitch
    pol,        \* per caller: the local state of PolicyRunner.execute
    queued,     \* the requests handed to ApprovalQueue.enqueue
    armed,      \* history: switches that have been on since the call began
    grants      \* history: the delegated calls and what allowed them

swVars == <<keys, busy, trail, ops>>
ownVars == <<pol, queued, armed, grants>>
allVars == <<vars, swVars, ownVars>>

KillScopes ==
    {<<"global">>} \cup {<<"tenant", t>> : t \in Tenants}
                   \cup {<<"action", a>> : a \in Actions}

K == INSTANCE KillSwitch WITH Scopes <- KillScopes, Global <- <<"global">>

(* The context and parameters of the call, the tier its caller claims for  *)
(* the action, and the pods it says are at stake.                          *)
ClaimType == [req : RequestType, tier : TierNames, pods : Nat]

(* The context is built when the call begins; by the time the runner is    *)
(* reached the deadline is nearer and the diagnosis older.                 *)
Aged(r, elapsed) ==
    [r EXCEPT !.window = IF @ > elapsed THEN @ - elapsed ELSE 0,
              !.diagnosisAge = IF @ = NoDiagnosis THEN @ ELSE @ + elapsed]

(* Mutant: the policy's cap replaces the caller's even when it is larger.  *)
Constrain_Replaces(r, decision) ==
    IF decision.cap = NoCap THEN r ELSE [r EXCEPT !.cap = decision.cap]

(* _apply_constraints.                                                     *)
Constrain(r, decision) ==
    IF decision.cap # NoCap /\ decision.cap < r.cap
    THEN [r EXCEPT !.cap = decision.cap] ELSE r

(* What the runner is called with: its default autonomy ceiling.           *)
Delegated(claim, decision, elapsed) ==
    [Constrain(Aged(claim.req, elapsed), decision) EXCEPT !.ceiling = RECOVERABLE]

(* An instance must list as Requests what delegation can produce.          *)
ASSUME ClaimsAssumption ==
    /\ Claims \subseteq ClaimType
    /\ NoClaim \notin Claims
    /\ \A claim \in Claims, cap \in {NoCap, MaxReplicas}, t \in 0 .. MaxTime :
            Delegated(claim, Decision("allow", "any", cap), t) \in Requests

ASSUME SwitchAssumption ==
    /\ Never \notin Nat
    /\ Untils \subseteq Nat
    /\ MaxOps \in Nat
    /\ MaxCalls \in Nat

Pending == [pc |-> "idle", claim |-> NoClaim, began |-> 0, calls |-> 0,
            decision |-> DefaultDeny]

PolInit ==
    /\ Init
    /\ K!SwInit
    /\ pol = [c \in Callers |-> Pending]
    /\ queued = {}
    /\ armed = [c \in Callers |-> {}]
    /\ grants = {}

-----------------------------------------------------------------------------
P(c)     == pol[c]
Claim(c) == pol[c].claim.req

PolGoto(c, p) == pol' = [pol EXCEPT ![c].pc = p]

(* The three switches, in the order they are looked at.                    *)
ScopeAt(c, p) ==
    CASE p = "global" -> <<"global">>
      [] p = "tenant" -> <<"tenant", Claim(c).tenant>>
      [] p = "action" -> <<"action", Claim(c).action>>

NextPoint == [global |-> "tenant", tenant |-> "action", action |-> "policy"]

Consulted(c) == {ScopeAt(c, p) : p \in DOMAIN NextPoint}

(* A call of PolicyRunner.execute.                                         *)
Enter(c) ==
    /\ P(c).pc = "idle" /\ P(c).calls < MaxCalls
    /\ \E claim \in Claims :
        /\ now + claim.req.window + PollInterval <= MaxTime
        /\ pol' = [pol EXCEPT ![c].pc = "global", ![c].claim = claim,
                               ![c].began = now, ![c].calls = @ + 1]
    /\ UNCHANGED <<vars, swVars, queued, grants>>

(* Mutant: the tenant's switch is never looked at.                         *)
CheckSwitch_NoTenant(c) ==
    /\ P(c).pc \in DOMAIN NextPoint
    /\ IF P(c).pc # "tenant" /\ K!IsTripped(ScopeAt(c, P(c).pc))
       THEN PolGoto(c, "idle")
       ELSE PolGoto(c, NextPoint[P(c).pc])
    /\ UNCHANGED <<vars, swVars, queued, grants>>

(* Step 1: one EXISTS per scope; the first tripped one refuses the call.   *)
CheckSwitch(c) ==
    /\ P(c).pc \in DOMAIN NextPoint
    /\ IF K!IsTripped(ScopeAt(c, P(c).pc))
       THEN PolGoto(c, "idle")
       ELSE PolGoto(c, NextPoint[P(c).pc])
    /\ UNCHANGED <<vars, swVars, queued, grants>>

(* The tenant's actions, from the runner's ledger, whatever day they are   *)
(* from.                                                                   *)
ActionsToday(tenant) ==
    LET mine == SelectSeq(ledger, LAMBDA e : e.tenant = tenant)
    IN  [k \in DOMAIN mine |-> mine[k].action]

PolicyInput(c, time) ==
    [tier |-> P(c).claim.tier, action |-> Claim(c).action,
     tenant |-> Claim(c).tenant, time |-> time, pods |-> P(c).claim.pods,
     history |-> ActionsToday(Claim(c).tenant)]

(* Step 2: build the input and ask OPA, which may not answer.              *)
AskPolicy(c) ==
    /\ P(c).pc = "policy"
    /\ \/ \E time \in LocalTimes :
            pol' = [pol EXCEPT ![c].pc = "route",
                               ![c].decision = Decide(PolicyInput(c, time))]
       \/ pol' = [pol EXCEPT ![c].pc = "route", ![c].decision = Unreachable]
    /\ UNCHANGED <<vars, swVars, queued, grants>>

(* Step 3: a denial ends the call.                                         *)
Deny(c) ==
    /\ P(c).pc = "route" /\ P(c).decision.effect = "deny"
    /\ PolGoto(c, "idle")
    /\ UNCHANGED <<vars, swVars, queued, grants>>

(* Mutant: the queued action is booked in the runner's ledger.             *)
Queue_Books(c) ==
    /\ P(c).pc = "route" /\ P(c).decision.effect = "require_approval"
    /\ queued' = queued \cup {[by |-> c, call |-> P(c).calls, claim |-> P(c).claim]}
    /\ ledger' = Record(ledger,
            [id |-> <<c, issued[c] + 1>>, action |-> Claim(c).action,
             tenant |-> Claim(c).tenant, dep |-> Claim(c).dep,
             delta |-> Claim(c).delta, ts |-> now, depth |-> 0,
             rolledBack |-> FALSE, terminal |-> TRUE])
    /\ PolGoto(c, "idle")
    /\ UNCHANGED <<now, replicas, audit, ctx, top, frame, issued, writes, raised>>
    /\ UNCHANGED <<swVars, grants>>

(* A request for approval ends the call too; nothing in the code takes it  *)
(* up again once it is approved.                                           *)
Queue(c) ==
    /\ P(c).pc = "route" /\ P(c).decision.effect = "require_approval"
    /\ queued' = queued \cup {[by |-> c, call |-> P(c).calls, claim |-> P(c).claim]}
    /\ PolGoto(c, "idle")
    /\ UNCHANGED <<vars, swVars, grants>>

(* Step 4: apply the constraints and call the runner.                      *)
Delegate(c) ==
    /\ P(c).pc = "route" /\ P(c).decision.effect = "allow"
    /\ Call(c, Delegated(P(c).claim, P(c).decision, now - P(c).began))
    /\ grants' = grants \cup {[id |-> <<c, issued[c] + 1>>, claim |-> P(c).claim,
                               decision |-> P(c).decision]}
    /\ PolGoto(c, "delegated")
    /\ UNCHANGED <<swVars, queued>>

(* The runner has returned, or raised.                                     *)
Leave(c) ==
    /\ P(c).pc = "delegated" /\ top[c] = -1
    /\ PolGoto(c, "idle")
    /\ UNCHANGED <<vars, swVars, queued, grants>>

(* armed is recomputed after every step: it starts as the switches that    *)
(* are on when the call begins and loses those that go off.                *)
Remember ==
    armed' = [c \in Callers |->
                IF pol'[c].pc = "idle" THEN {}
                ELSE IF pol[c].pc = "idle" THEN K!Tripped
                ELSE armed[c] \cap {s \in KillScopes : keys'[s] # 0}]

PolicyStep(c) ==
    \/ Enter(c) \/ CheckSwitch(c) \/ AskPolicy(c)
    \/ Deny(c) \/ Queue(c) \/ Delegate(c) \/ Leave(c)

PolNext ==
    /\ \/ \E c \in Callers : PolicyStep(c)
       \/ \E c \in Callers : Run(c) /\ UNCHANGED <<swVars, pol, queued, grants>>
       \/ Tick /\ K!Expire(now + 1) /\ UNCHANGED <<pol, queued, grants>>
       \/ K!Operate /\ UNCHANGED <<vars, pol, queued, grants>>
    /\ Remember

PolSpec == PolInit /\ [][PolNext]_allVars

-----------------------------------------------------------------------------
(* The type of every variable this module adds.                            *)
PolTypeOK ==
    /\ K!SwTypeOK
    /\ pol \in [Callers ->
                [pc : DOMAIN NextPoint \cup {"idle", "policy", "route", "delegated"},
                 claim : Claims \cup {NoClaim}, began : Nat, calls : 0 .. MaxCalls,
                 decision : [effect : Effects, rule : Rules, cap : {NoCap, MaxReplicas}]]]
    /\ armed \in [Callers -> SUBSET KillScopes]

(* A switch that was on before the call began, and has stayed on since,    *)
(* keeps the call from reaching the policy or the runner, whatever else    *)
(* operators, the clock and other callers do in between.                   *)
TripsAreHonoured ==
    \A c \in Callers :
        P(c).pc \in {"policy", "route", "delegated"} =>
            armed[c] \cap Consulted(c) = {}

(* Nothing is mutated on behalf of a caller except inside a call the       *)
(* policy allowed, and a scale-out, however it is retried or rolled back,  *)
(* stays within both the caller's ceiling and the policy's.                *)
WritesWereGranted ==
    \A w \in writes : \E g \in grants :
        /\ g.id = <<w.id[1], w.id[2] - w.depth>>
        /\ g.decision.effect = "allow"
        /\ Handlers[w.action] = "ScaleHandler" =>
            /\ w.to <= g.claim.req.cap
            /\ g.decision.cap # NoCap => w.to <= g.decision.cap

(* The runner's contract did not change: whatever the policy runner does,  *)
(* the runner's own state behaves as the Remediator module says.           *)
RunnerUnchanged == Spec

-----------------------------------------------------------------------------
(* What the repository's texts say, and the code does not do.              *)

(* kill_switch.py:4-6: the runner consults the switch before every action. *)
(* An action whose switch has been on since before the call began is not   *)
(* executed.                                                               *)
TrippedActionsDoNotRun ==
    \A c \in Callers : \A d \in Depths :
        frame[c][d].pc \in OpenPoints =>
            <<"action", frame[c][d].action>> \notin armed[c]

(* autonomy.rego:62-72: the budget denies once it is exhausted.  A call    *)
(* that a rule allows is not denied while the budget lasts.                *)
BudgetLeavesRoom ==
    \A c \in Callers :
        P(c).pc = "route" /\ P(c).decision = Failed =>
            ConsumedToday(ActionsToday(Claim(c).tenant)) >= BudgetTotal
=============================================================================
