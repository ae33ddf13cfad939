-------------------------- MODULE PolicyRunnerProofs --------------------------
(***************************************************************************)
(* Proofs about PolicyRunner, for every set of callers, operators, tenants *)
(* and claims: its types, the kill switch, and that it leaves the contract *)
(* of the runner of chapter 8 intact.                                      *)
(***************************************************************************)
EXTENDS PolicyRunner, LedgerProofs

(* Whatever the input, the decision is one of the bundle's or a denial.    *)
DecisionType == [effect : Effects, rule : Rules, cap : {NoCap, MaxReplicas}]

LEMMA DecideType == ASSUME NEW in PROVE Decide(in) \in DecisionType
  <1>1. Derived(in) \subseteq DecisionType
    BY SMT DEF Derived, DecisionType, Decision, Effects, Rules
  <1>2. Failed \in DecisionType /\ DefaultDeny \in DecisionType
    BY DEF Failed, DefaultDeny, DecisionType, Decision, Effects, Rules
  <1>3. CASE Conflicts(in.history) \/ Cardinality(Derived(in)) > 1
    BY <1>2, <1>3 DEF Decide
  <1>4. CASE /\ ~ (Conflicts(in.history) \/ Cardinality(Derived(in)) > 1)
             /\ Derived(in) = {}
    BY <1>2, <1>4 DEF Decide
  <1>5. CASE /\ ~ (Conflicts(in.history) \/ Cardinality(Derived(in)) > 1)
             /\ Derived(in) # {}
    <2>1. (CHOOSE d \in Derived(in) : TRUE) \in Derived(in)
      BY <1>5
    <2> QED BY <1>1, <1>5, <2>1 DEF Decide
  <1> QED BY <1>3, <1>4, <1>5

PolRecord ==
    [pc : DOMAIN NextPoint \cup {"idle", "policy", "route", "delegated"},
     claim : Claims \cup {NoClaim}, began : Nat, calls : 0 .. MaxCalls,
     decision : DecisionType]

(* A call under way has a claim and began in the past; the clock is within *)
(* its bound.                                                              *)
Underway ==
    /\ now \in 0 .. MaxTime
    /\ \A c \in Callers :
        pol[c].pc # "idle" => pol[c].claim \in Claims /\ pol[c].began <= now

PolInv == PolTypeOK /\ Underway

LEMMA PointFacts ==
    /\ DOMAIN NextPoint = {"global", "tenant", "action"}
    /\ \A p \in DOMAIN NextPoint : NextPoint[p] \in {"tenant", "action", "policy"}
  BY DEF NextPoint

LEMMA PolTypeEquiv ==
    PolTypeOK <=> /\ K!SwTypeOK
                  /\ pol \in [Callers -> PolRecord]
                  /\ armed \in [Callers -> SUBSET KillScopes]
  BY DEF PolTypeOK, PolRecord, DecisionType

(* The operators' commands and the clock keep the switches well typed.     *)
LEMMA OperateType == PolInv /\ K!Operate => K!SwTypeOK'
  <1> SUFFICES ASSUME PolInv, K!Operate PROVE K!SwTypeOK'
    OBVIOUS
  <1> USE DEF PolInv, PolTypeOK, K!SwTypeOK, K!RecordType, K!NoRecord
  <1>0. ops \in 0 .. MaxOps /\ MaxOps \in Nat
    BY SwitchAssumption
  <1>1. PICK o \in Operators :
            \/ \E s \in KillScopes, u \in Untils \cup {Never} : K!Trip(o, s, u)
            \/ \E s \in KillScopes : K!Reset(o, s)
            \/ K!Audit(o)
            \/ K!AuditFails(o)
    BY DEF K!Operate
  <1>2. ASSUME NEW s \in KillScopes, NEW u \in Untils \cup {Never}, K!Trip(o, s, u)
        PROVE  K!SwTypeOK'
    <2>1. (IF u = Never THEN Never ELSE now + K!Later(1, u - now)) \in Nat \cup {Never}
      <3>1. now \in Nat
        BY DEF Underway
      <3>2. CASE u = Never
        BY <3>2
      <3>3. CASE u # Never
        <4>1. u \in Nat
          BY <3>3, SwitchAssumption
        <4>2. K!Later(1, u - now) \in Nat
          BY <3>1, <4>1 DEF K!Later
        <4> QED BY <3>1, <3>3, <4>2
      <3> QED BY <3>2, <3>3
    <2>2. keys' \in [KillScopes -> Nat \cup {Never}]
      BY <1>2, <2>1 DEF K!Trip
    <2> QED BY <1>0, <1>2, <2>2 DEF K!Trip, K!Begin
  <1>3. ASSUME NEW s \in KillScopes, K!Reset(o, s) PROVE K!SwTypeOK'
    BY <1>0, <1>3 DEF K!Reset, K!Begin
  <1>4. CASE K!Audit(o)
    BY <1>4 DEF K!Audit
  <1>5. CASE K!AuditFails(o)
    BY <1>5 DEF K!AuditFails
  <1> QED BY <1>1, <1>2, <1>3, <1>4, <1>5

LEMMA ExpireType == ASSUME PolInv, NEW t, K!Expire(t) PROVE K!SwTypeOK'
  BY DEF PolInv, PolTypeOK, K!SwTypeOK, K!Expire

(* armed only ever holds scopes.                                           *)
LEMMA ArmedType == PolInv /\ Remember => armed' \in [Callers -> SUBSET KillScopes]
  BY DEF PolInv, PolTypeOK, Remember, K!Tripped

(* What one step of PolicyRunner.execute does to its local state.          *)
LEMMA PolicyStepType ==
    ASSUME PolInv, NEW c \in Callers, PolicyStep(c)
    PROVE  /\ pol' \in [Callers -> PolRecord]
           /\ now' = now
           /\ UNCHANGED swVars
           /\ \A b \in Callers : b # c => pol'[b] = pol[b]
           /\ pol'[c].pc # "idle" =>
                pol'[c].claim \in Claims /\ pol'[c].began <= now
  <1>0. /\ pol \in [Callers -> PolRecord] /\ pol[c] \in PolRecord
        /\ now \in Nat
        /\ pol[c].pc # "idle" => pol[c].claim \in Claims /\ pol[c].began <= now
    BY PolTypeEquiv DEF PolInv, Underway
  <1> USE DEF P, PolGoto, PolRecord
  <1>1. CASE Enter(c)
    <2>1. PICK claim \in Claims :
            pol' = [pol EXCEPT ![c].pc = "global", ![c].claim = claim,
                               ![c].began = now, ![c].calls = @ + 1]
      BY <1>1 DEF Enter
    <2>2. pol[c].calls + 1 \in 0 .. MaxCalls
      BY <1>0, <1>1, SwitchAssumption DEF Enter
    <2>3. pol' \in [Callers -> PolRecord]
      BY <1>0, <2>1, <2>2, PointFacts
    <2>4. pol'[c].claim = claim /\ pol'[c].began = now
      BY <1>0, <2>1
    <2>5. \A b \in Callers : b # c => pol'[b] = pol[b]
      BY <1>0, <2>1
    <2> QED BY <1>0, <1>1, <2>3, <2>4, <2>5 DEF Enter, vars
  <1>2. CASE CheckSwitch(c)
    <2>1. pol' = [pol EXCEPT ![c].pc = "idle"] \/ pol' = [pol EXCEPT ![c].pc = NextPoint[pol[c].pc]]
      BY <1>2 DEF CheckSwitch
    <2> QED BY <1>0, <1>2, <2>1, PointFacts DEF CheckSwitch, vars
  <1>3. CASE AskPolicy(c)
    <2>1. PICK d \in DecisionType :
            pol' = [pol EXCEPT ![c].pc = "route", ![c].decision = d]
      <3>1. Unreachable \in DecisionType
        BY DEF Unreachable, DecisionType, Decision, Effects, Rules
      <3> QED BY <1>3, <3>1, DecideType DEF AskPolicy
    <2> QED BY <1>0, <1>3, <2>1 DEF AskPolicy, vars
  <1>4. CASE Deny(c)
    BY <1>0, <1>4 DEF Deny, vars
  <1>5. CASE Queue(c)
    BY <1>0, <1>5 DEF Queue, vars
  <1>6. CASE Delegate(c)
    BY <1>0, <1>6 DEF Delegate, Call
  <1>7. CASE Leave(c)
    BY <1>0, <1>7 DEF Leave, vars
  <1> QED BY <1>1, <1>2, <1>3, <1>4, <1>5, <1>6, <1>7 DEF PolicyStep

(* The runner's own steps do not move the clock.                           *)
LEMMA RunKeepsTime == ASSUME NEW c, Run(c) PROVE now' = now
  BY DEF Run, CheckBounds, Inspect, Gate, Patch, ReadReplicas, WriteReplicas,
         HandlerRaises, Poll, Wake, Rollback, Close, Emit, CallRaises

LEMMA PolInitInv == PolInit => PolInv
  <1> SUFFICES ASSUME PolInit PROVE PolInv
    OBVIOUS
  <1>1. K!SwTypeOK
    BY SwitchAssumption DEF PolInit, K!SwInit, K!SwTypeOK, K!NoRecord
  <1>2. pol \in [Callers -> PolRecord] /\ armed \in [Callers -> SUBSET KillScopes]
    BY SwitchAssumption DEF PolInit, Pending, PolRecord, DefaultDeny, DecisionType, Decision, Effects, Rules
  <1>3. Underway
    BY ParametersAssumption DEF PolInit, Init, Pending, Underway
  <1> QED BY <1>1, <1>2, <1>3, PolTypeEquiv DEF PolInv

LEMMA PolNextInv == PolInv /\ [PolNext]_allVars => PolInv'
  <1> SUFFICES ASSUME PolInv, [PolNext]_allVars PROVE PolInv'
    OBVIOUS
  <1>0. /\ K!SwTypeOK /\ pol \in [Callers -> PolRecord]
        /\ armed \in [Callers -> SUBSET KillScopes] /\ Underway
    BY PolTypeEquiv DEF PolInv
  <1>1. ASSUME NEW c \in Callers, PolicyStep(c), Remember PROVE PolInv'
    <2>1. K!SwTypeOK'
      BY <1>0, <1>1, PolicyStepType DEF swVars, K!SwTypeOK
    <2>2. Underway'
      BY <1>0, <1>1, PolicyStepType DEF Underway
    <2> QED BY <1>1, <2>1, <2>2, PolicyStepType, ArmedType, PolTypeEquiv DEF PolInv, PolTypeOK, PolRecord, DecisionType
  <1>2. ASSUME NEW c \in Callers, Run(c), UNCHANGED <<swVars, pol, queued, grants>>, Remember
        PROVE  PolInv'
    <2>1. K!SwTypeOK' /\ Underway'
      BY <1>0, <1>2, RunKeepsTime DEF swVars, K!SwTypeOK, Underway
    <2> QED BY <1>0, <1>2, <2>1, ArmedType DEF PolInv, PolTypeOK, PolRecord, DecisionType
  <1>3. CASE Tick /\ K!Expire(now + 1) /\ UNCHANGED <<pol, queued, grants>> /\ Remember
    <2>1. Underway'
      BY <1>0, <1>3, ParametersAssumption, PolTypeEquiv DEF Underway, Tick, PolRecord
    <2> QED BY <1>0, <1>3, <2>1, ArmedType, ExpireType DEF PolInv, PolTypeOK, PolRecord, DecisionType
  <1>4. CASE K!Operate /\ UNCHANGED <<vars, pol, queued, grants>> /\ Remember
    <2>1. Underway'
      BY <1>0, <1>4 DEF Underway, vars
    <2> QED BY <1>0, <1>4, <2>1, ArmedType, OperateType DEF PolInv, PolTypeOK, PolRecord, DecisionType
  <1>5. CASE UNCHANGED allVars
    BY <1>0, <1>5 DEF allVars, vars, swVars, ownVars, PolInv, PolTypeOK, Underway, K!SwTypeOK, PolRecord, DecisionType
  <1> QED BY <1>1, <1>2, <1>3, <1>4, <1>5 DEF PolNext

(* Every variable the policy runner adds keeps its type, so a decision is  *)
(* always one the runner knows how to route (policy_runner.py:74-105).     *)
THEOREM PolicyRunnerTyped == PolSpec => []PolTypeOK
  <1>1. PolInv => PolTypeOK
    BY DEF PolInv
  <1> QED BY <1>1, PolInitInv, PolNextInv, PTL DEF PolSpec

-----------------------------------------------------------------------------
(* What delegation passes on is one of the runner's requests: a decision   *)
(* enters only through its cap, and the time since the call began is       *)
(* within the clock's bound.                                               *)
LEMMA DelegatedRequest ==
    ASSUME PolInv, NEW c \in Callers, P(c).pc = "route"
    PROVE  Delegated(P(c).claim, P(c).decision, now - P(c).began) \in Requests
  <1> DEFINE cap == P(c).decision.cap
             t   == now - P(c).began
             d   == Decision("allow", "any", cap)
  <1>1. /\ P(c).claim \in Claims
        /\ P(c).began \in Nat /\ P(c).began <= now
        /\ now \in 0 .. MaxTime
        /\ cap \in {NoCap, MaxReplicas}
    BY PolTypeEquiv DEF PolInv, Underway, P, PolRecord, DecisionType
  <1>2. t \in 0 .. MaxTime
    BY <1>1, ParametersAssumption
  <1>3. Delegated(P(c).claim, d, t) \in Requests
    <2> HIDE DEF cap, t
    <2> QED BY <1>1, <1>2, ClaimsAssumption
  <1>4. Delegated(P(c).claim, P(c).decision, t) = Delegated(P(c).claim, d, t)
    BY DEF Delegated, Constrain, Decision
  <1> QED BY <1>3, <1>4

(* Every step is a step of the runner or leaves its state alone.           *)
LEMMA PolicyStepRefines == PolInv /\ [PolNext]_allVars => [Next]_vars
  <1> SUFFICES ASSUME PolInv, [PolNext]_allVars PROVE [Next]_vars
    OBVIOUS
  <1>1. ASSUME NEW c \in Callers, PolicyStep(c) PROVE [Next]_vars
    <2>1. CASE Delegate(c)
      <3>1. \E r \in Requests : Call(c, r)
        BY <2>1, DelegatedRequest DEF Delegate
      <3> QED BY <3>1 DEF Next, Start
    <2>2. CASE ~ Delegate(c)
      BY <1>1, <2>2 DEF PolicyStep, Enter, CheckSwitch, AskPolicy, Deny, Queue, Leave
    <2> QED BY <2>1, <2>2
  <1>2. ASSUME NEW c \in Callers, Run(c) PROVE [Next]_vars
    BY <1>2 DEF Next
  <1>3. CASE Tick
    BY <1>3 DEF Next
  <1>4. CASE UNCHANGED vars
    BY <1>4
  <1>5. CASE UNCHANGED allVars
    BY <1>5 DEF allVars
  <1> QED BY <1>1, <1>2, <1>3, <1>4, <1>5 DEF PolNext

(* The policy runner refines the runner it wraps (policy_runner.py:103):   *)
(* switches, policy and approvals choose which calls are made and with     *)
(* which parameters, and add nothing to what the runner may do.            *)
THEOREM RunnerContractKept == PolSpec => RunnerUnchanged
  <1>1. PolInit => Init
    BY DEF PolInit
  <1> QED BY <1>1, PolInitInv, PolNextInv, PolicyStepRefines, PTL
          DEF PolSpec, RunnerUnchanged, Spec

(* So what is proved of the runner holds of it behind the policy: every    *)
(* event id is accounted for, the audit trail tells the truth, the ledger  *)
(* agrees with it and never changes its mind, and the closed loop is the   *)
(* abstract one.                                                           *)
COROLLARY TrailBehindPolicy ==
    PolSpec => /\ [](EveryCallAccounted /\ AuditTellsTheTruth /\ LedgerMatchesAudit)
               /\ HistoryIsFinal
               /\ ImplementsClosedLoop
  BY RunnerContractKept, EveryCallIsAccounted, AuditIsTruthful, LedgerAgreesWithTrail,
     HistoryStands, RefinesClosedLoop, PTL
     DEF RunnerUnchanged

(* And as long as calls under way are against different deployments, so    *)
(* that no two of them race, what the safety bounds and the gate promise   *)
(* holds behind the policy as well.                                        *)
COROLLARY BoundsBehindPolicy ==
    PolSpec /\ []Apart => [](NoActionStorm /\ ScaleDwellHonoured /\ WritesWereGated)
  BY RunnerContractKept, NoStormWhenApart, DwellWhenApart, GatedWhenApart, PTL
     DEF RunnerUnchanged

-----------------------------------------------------------------------------
(* The switches a call has already passed are no longer among those that   *)
(* have been on since it began.                                            *)
Passed(c) ==
    CASE P(c).pc = "global" -> {}
      [] P(c).pc = "tenant" -> {<<"global">>}
      [] P(c).pc = "action" -> {<<"global">>, ScopeAt(c, "tenant")}
      [] OTHER              -> Consulted(c)

PassedOK ==
    \A c \in Callers : P(c).pc # "idle" => armed[c] \cap Passed(c) = {}

(* A step never arms a switch for a call under way.                        *)
LEMMA ArmedShrinks ==
    ASSUME PolInv, Remember, NEW c \in Callers, pol[c].pc # "idle"
    PROVE  armed'[c] \subseteq armed[c]
  BY DEF Remember

LEMMA PassedInv == PolInv /\ PassedOK /\ [PolNext]_allVars => PassedOK'
  <1> SUFFICES ASSUME PolInv, PassedOK, [PolNext]_allVars, NEW b \in Callers,
                      pol'[b].pc # "idle"
               PROVE  (armed[b] \cap Passed(b) = {})'
    BY DEF PassedOK, P
  <1>0. CASE UNCHANGED allVars
    <2>1. armed' = armed /\ pol' = pol
      BY <1>0 DEF allVars, ownVars
    <2>2. Passed(b)' = Passed(b)
      BY <2>1 DEF Passed, P, Consulted, ScopeAt, Claim
    <2> QED BY <2>1, <2>2 DEF PassedOK, P
  <1>1. ASSUME Remember, pol'[b] = pol[b] PROVE (armed[b] \cap Passed(b) = {})'
    <2>1. Passed(b)' = Passed(b)
      BY <1>1 DEF Passed, P, Consulted, ScopeAt, Claim
    <2> QED BY <1>1, <2>1, ArmedShrinks DEF PassedOK, P
  <1>2. ASSUME PolicyStep(b), Remember PROVE (armed[b] \cap Passed(b) = {})'
    <2>0. pol \in [Callers -> PolRecord]
      BY PolTypeEquiv DEF PolInv
    <2>1. CASE Enter(b)
      <3>1. pol'[b].pc = "global"
        BY <2>0, <2>1 DEF Enter
      <3> QED BY <3>1 DEF Passed, P
    <2>2. CASE CheckSwitch(b)
      <3>1. /\ pol[b].pc \in DOMAIN NextPoint
            /\ ~ K!IsTripped(ScopeAt(b, pol[b].pc))
            /\ pol'[b] = [pol[b] EXCEPT !.pc = NextPoint[pol[b].pc]]
            /\ keys' = keys
        <4>1. pol' # [pol EXCEPT ![b].pc = "idle"]
          BY <2>0 DEF PolRecord
        <4>2. /\ P(b).pc \in DOMAIN NextPoint
              /\ ~ K!IsTripped(ScopeAt(b, P(b).pc))
              /\ PolGoto(b, NextPoint[P(b).pc])
          BY <2>2, <4>1 DEF CheckSwitch, PolGoto
        <4> QED BY <2>0, <2>2, <4>2 DEF CheckSwitch, PolGoto, P, swVars
      <3>2. ScopeAt(b, pol[b].pc) \notin armed'[b]
        BY <1>2, <3>1, PointFacts DEF Remember, K!IsTripped
      <3>3. armed'[b] \subseteq armed[b]
        BY <1>2, <3>1, PointFacts, ArmedShrinks
      <3>4. armed[b] \cap Passed(b) = {}
        BY <3>1, PointFacts DEF PassedOK, P
      <3>5. Passed(b)' = Passed(b) \cup {ScopeAt(b, pol[b].pc)}
        BY <2>0, <3>1, PointFacts
           DEF Passed, P, NextPoint, ScopeAt, Claim, Consulted, PolRecord
      <3> QED BY <3>2, <3>3, <3>4, <3>5
    <2>3. CASE AskPolicy(b) \/ Delegate(b)
      <3>1. /\ pol[b].pc \in {"policy", "route"}
            /\ pol'[b].pc \in {"route", "delegated"}
            /\ pol'[b].claim = pol[b].claim
        BY <2>0, <2>3 DEF AskPolicy, Delegate, PolGoto, P, PolRecord
      <3>2. Passed(b)' = Passed(b)
        BY <3>1 DEF Passed, P, Consulted, ScopeAt, Claim
      <3> QED BY <1>2, <3>1, <3>2, ArmedShrinks DEF PassedOK, P
    <2>4. CASE Deny(b) \/ Queue(b) \/ Leave(b)
      <3>1. pol'[b].pc = "idle"
        BY <2>0, <2>4 DEF Deny, Queue, Leave, PolGoto, PolRecord
      <3> QED BY <3>1
    <2> QED BY <1>2, <2>1, <2>2, <2>3, <2>4 DEF PolicyStep
  <1>3. ASSUME NEW c \in Callers, c # b, PolicyStep(c), Remember
        PROVE  (armed[b] \cap Passed(b) = {})'
    BY <1>1, <1>3, PolicyStepType
  <1> QED BY <1>0, <1>1, <1>2, <1>3 DEF PolNext

(* A switch that was on before a call began and stays on keeps the call    *)
(* from the policy and the runner, whatever operators and the clock do     *)
(* between the three lookups (policy_runner.py:56-70).                     *)
THEOREM KillSwitchHolds == PolSpec => []TripsAreHonoured
  <1>1. PolInit => PassedOK
    BY DEF PolInit, PassedOK, P, Pending
  <1>2. PolInv /\ PassedOK => TripsAreHonoured
    BY DEF PassedOK, TripsAreHonoured, Passed, P
  <1> QED BY <1>1, <1>2, PolInitInv, PolNextInv, PassedInv, PTL DEF PolSpec
-----------------------------------------------------------------------------
(* Every mutation was granted.  The call a caller is in was delegated: its *)
(* ceiling on replicas is the claim's or the policy's, the smaller, for    *)
(* the rollback as for the action, and a scale-out about to be written     *)
(* stays within it.                                                        *)
GrantHeld(g, id, cap) ==
    /\ g.id = id
    /\ g.decision.effect = "allow"
    /\ g.claim.req.cap \in Nat /\ g.decision.cap \in Int
    /\ cap <= g.claim.req.cap
    /\ g.decision.cap # NoCap => cap <= g.decision.cap

Granted(c) ==
    top[c] >= 0 => \E g \in grants : GrantHeld(g, Id(c, 0), Req(c).cap)

AimsWithin(c) ==
    At(c, "write") /\ Class(c) = "ScaleHandler" => F(c).target <= Req(c).cap

GrantsOK == \A c \in Callers : Granted(c) /\ AimsWithin(c)

(* The frame about to be written runs below the call that was delegated:   *)
(* its id and depth lead back to it.                                       *)
LEMMA RootOfFrame ==
    ASSUME IInv, ChainsOK, NEW c \in Callers, At(c, "act") \/ At(c, "write"),
           NEW m, NEW t, NEW w, w = NewWrite(c, m, t)
    PROVE  /\ <<w.id[1], w.id[2] - w.depth>> = Id(c, 0)
           /\ w.to = t /\ Handlers[w.action] = Class(c)
  <1>1. top[c] >= 0 /\ top[c] \in Depths /\ ~ (top[c] > MaxRollbackDepth)
    BY NotTooDeep, RunningFacts DEF At
  <1>2. top[c] = 0 \/ top[c] = 1
    BY <1>1, DepthFacts
  <1>3. /\ w.id[1] = c /\ w.id[2] = F(c).n /\ w.depth = top[c]
        /\ w.to = t /\ Handlers[w.action] = Class(c)
    BY DEF NewWrite, Id, F, Class
  <1>4. \A d \in Depths : frame[c][d].n \in Nat
    BY DEF IInv, TypeOK, FrameType
  <1>5. F(c).n - top[c] = frame[c][0].n
    <2>1. CASE top[c] = 0
      BY <1>4, <2>1, DepthFacts DEF F
    <2>2. CASE top[c] = 1
      <3>1. frame[c][1].n = frame[c][0].n + 1
        BY <2>2, DepthFacts DEF ChainsOK, ChainOK
      <3> QED BY <1>4, <2>2, <3>1, DepthFacts DEF F
    <2> QED BY <1>2, <2>1, <2>2
  <1> QED BY <1>3, <1>5 DEF Id

(* The cap delegation leaves is at most the claim's and the decision's.    *)
LEMMA DelegatedCap ==
    ASSUME NEW claim \in Claims, NEW decision \in DecisionType, NEW t
    PROVE  /\ Delegated(claim, decision, t).cap <= claim.req.cap
           /\ decision.cap # NoCap => Delegated(claim, decision, t).cap <= decision.cap
           /\ claim.req.cap \in Nat /\ decision.cap \in Int
  <1>1. claim.req \in RequestType
    BY ClaimsAssumption DEF ClaimType
  <1>2. claim.req.cap \in Nat /\ decision.cap \in Int
    BY <1>1 DEF RequestType, DecisionType, NoCap, MaxReplicas
  <1> DEFINE aged == Aged(claim.req, t)
             held == Constrain(aged, decision)
  <1>3. aged.cap = claim.req.cap
    BY <1>1 DEF Aged, RequestType
  <1>4. aged = [claim.req EXCEPT !.window = aged.window,
                                 !.diagnosisAge = aged.diagnosisAge]
    BY <1>1 DEF Aged, RequestType
  <1>5. held.cap = IF decision.cap # NoCap /\ decision.cap < aged.cap
                   THEN decision.cap ELSE aged.cap
    BY <1>1, <1>4 DEF Constrain, RequestType
  <1>6. Delegated(claim, decision, t).cap = held.cap
    BY <1>1, <1>4 DEF Delegated, Constrain, RequestType
  <1> HIDE DEF aged, held
  <1> QED BY <1>2, <1>3, <1>5, <1>6
(* A delegated call is granted, and no other call is disturbed by it.      *)
LEMMA DelegateGrants ==
    ASSUME IInv, PolInv, GrantsOK, NEW c \in Callers, Delegate(c)
    PROVE  GrantsOK' /\ grants \subseteq grants' /\ UNCHANGED writes
  <1> DEFINE t == now - P(c).began
             r == Delegated(P(c).claim, P(c).decision, t)
             g == [id |-> <<c, issued[c] + 1>>, claim |-> P(c).claim,
                   decision |-> P(c).decision]
  <1>1. /\ P(c).pc = "route" /\ P(c).decision.effect = "allow"
        /\ Call(c, r) /\ grants' = grants \cup {g} /\ UNCHANGED writes
    BY DEF Delegate, Call
  <1>2. P(c).claim \in Claims /\ P(c).decision \in DecisionType
    BY <1>1, PolTypeEquiv DEF PolInv, Underway, P, PolRecord
  <1>3. Start(c)
    BY <1>1, DelegatedRequest DEF Start
  <1>4. /\ r.cap <= P(c).claim.req.cap
        /\ P(c).decision.cap # NoCap => r.cap <= P(c).decision.cap
        /\ P(c).claim.req.cap \in Nat /\ P(c).decision.cap \in Int
    BY <1>2, DelegatedCap
  <1>5. /\ top' = [top EXCEPT ![c] = 0]
        /\ ctx' = [ctx EXCEPT ![c] = [req |-> r, started |-> now]]
    BY <1>1 DEF Call
  <1>6. top'[c] = 0 /\ Req(c)' = r
    BY <1>5 DEF Req, IInv, TypeOK
  <1>7. Id(c, 0)' = <<c, issued[c] + 1>> /\ F(c)'.pc = "bounds"
    <2>1. frame'[c][0].n = issued[c] + 1 /\ frame'[c][0].pc = "bounds"
      BY <1>3, StartPush
    <2> QED BY <1>6, <2>1 DEF Id, F
  <1>8. GrantHeld(g, <<c, issued[c] + 1>>, r.cap)
    BY <1>1, <1>4 DEF GrantHeld
  <1> HIDE DEF g, r
  <1>9. Granted(c)' /\ AimsWithin(c)'
    <2>1. \E x \in grants' : GrantHeld(x, Id(c, 0)', Req(c)'.cap)
      BY <1>1, <1>6, <1>7, <1>8
    <2> QED BY <1>7, <2>1 DEF Granted, AimsWithin, At, GrantHeld
  <1>10. ASSUME NEW b \in Callers, b # c PROVE Granted(b)' /\ AimsWithin(b)'
    <2>1. top'[b] = top[b] /\ ctx'[b] = ctx[b]
      BY <1>5, <1>10 DEF IInv, TypeOK
    <2>2. \A d \in Depths : frame'[b][d] = frame[b][d]
      BY <1>3, <1>10, StartPush
    <2>3. Granted(b) /\ AimsWithin(b)
      BY DEF GrantsOK
    <2>4. Id(b, 0)' = Id(b, 0) /\ Req(b)' = Req(b)
      BY <2>1, <2>2, DepthFacts DEF Id, Req
    <2>5. Granted(b)'
      BY <1>1, <2>1, <2>3, <2>4 DEF Granted, GrantHeld
    <2>6. top[b] >= 0 => F(b)' = F(b)
      BY <2>1, <2>2, RunningFacts DEF F
    <2> QED BY <2>1, <2>3, <2>4, <2>5, <2>6 DEF AimsWithin, At, Class
  <1> QED BY <1>1, <1>9, <1>10 DEF GrantsOK

(* Inside execute the grant stands, and the target of a scale-out is       *)
(* computed from the ceiling it was called with.                           *)
LEMMA RunStaysGranted ==
    ASSUME IInv, GrantsOK, NEW c \in Callers, Run(c), UNCHANGED grants
    PROVE  GrantsOK'
  <1>1. ASSUME NEW b \in Callers PROVE Granted(b)'
    <2>1. Granted(b)
      BY DEF GrantsOK
    <2>2. top'[b] >= 0 => top[b] >= 0 /\ Id(b, 0)' = Id(b, 0) /\ Req(b)' = Req(b)
      BY RunKeepsCall DEF Id, Req
    <2> QED BY <2>1, <2>2 DEF Granted, GrantHeld
  <1>2. ASSUME NEW b \in Callers, b # c PROVE AimsWithin(b)'
    <2>1. /\ top'[b] = top[b] /\ ctx'[b] = ctx[b] /\ AimsWithin(b)
          /\ \A d \in Depths : frame'[b][d] = frame[b][d]
      BY <1>2, RunKeepsCall DEF GrantsOK
    <2>2. top[b] >= 0 => F(b)' = F(b)
      BY <2>1, RunningFacts DEF F
    <2> QED BY <2>1, <2>2 DEF AimsWithin, At, Class, Req
  <1>3. AimsWithin(c)'
    <2>1. CASE top'[c] >= 0 /\ F(c)'.pc = "write"
      <3>1. ReadReplicas(c)
        BY <2>1, Arrivals
      <3>2. UNCHANGED <<replicas, ctx, top>> /\ At(c, "act") /\ top[c] >= 0
        BY <3>1 DEF ReadReplicas, At
      <3>3. /\ F(c)'.action = F(c).action /\ F(c)'.from = replicas[Req(c).dep]
            /\ Aim(Class(c), F(c)'.from, F(c)'.target, Req(c))
        BY <2>1, <3>1, ReadFrame
      <3>4. PICK m, t : m = replicas[Req(c).dep] /\ t = F(c)'.target
        OBVIOUS
      <3>5. Aim(Class(c), m, t, Req(c)) /\ m \in Nat
        BY <3>2, <3>3, <3>4, ReplicasTyped
      <3>6. Req(c).delta \in Int /\ Req(c).cap \in Nat
        BY <3>2, RunningFacts, RequestFacts
      <3>7. Class(c) = "ScaleHandler" => t <= Req(c).cap
        BY <3>5, <3>6 DEF Aim, ScaleOutTarget
      <3>8. Class(c)' = Class(c) /\ Req(c)' = Req(c)
        BY <3>2, <3>3 DEF Class, Req
      <3> QED BY <3>4, <3>7, <3>8 DEF AimsWithin
    <2> QED BY <2>1 DEF AimsWithin, At
  <1> QED BY <1>1, <1>2, <1>3 DEF GrantsOK

(* What a step of the runner writes was granted.                           *)
WriteGranted(w) ==
    \E g \in grants :
        /\ g.id = <<w.id[1], w.id[2] - w.depth>>
        /\ g.decision.effect = "allow"
        /\ Handlers[w.action] = "ScaleHandler" =>
            /\ w.to <= g.claim.req.cap
            /\ g.decision.cap # NoCap => w.to <= g.decision.cap

LEMMA RunWritesGranted ==
    ASSUME IInv, ChainsOK, GrantsOK, WritesWereGranted, NEW c \in Callers, Run(c),
           UNCHANGED grants
    PROVE  WritesWereGranted'
  <1>1. CASE UNCHANGED writes
    BY <1>1 DEF WritesWereGranted
  <1>2. CASE ~ UNCHANGED writes
    <2>1. \/ /\ At(c, "act") /\ Class(c) # "ScaleHandler"
             /\ \E m : writes' = writes \cup {NewWrite(c, m, m)}
          \/ /\ At(c, "write")
             /\ writes' = writes \cup {NewWrite(c, F(c).from, F(c).target)}
      BY <1>2 DEF Run, CheckBounds, Inspect, Gate, Patch, ReadReplicas, WriteReplicas,
         HandlerRaises, Poll, Wake, Close, Rollback, Emit, CallRaises
    <2>2. PICK m, t : /\ writes' = writes \cup {NewWrite(c, m, t)}
                      /\ \/ At(c, "act") /\ Class(c) # "ScaleHandler"
                         \/ At(c, "write") /\ t = F(c).target
      BY <2>1
    <2>3. PICK w : w = NewWrite(c, m, t)
      OBVIOUS
    <2>4. /\ <<w.id[1], w.id[2] - w.depth>> = Id(c, 0)
          /\ w.to = t /\ Handlers[w.action] = Class(c)
      BY <2>2, <2>3, RootOfFrame
    <2>5. top[c] >= 0 /\ Req(c).cap \in Nat /\ F(c).target \in Nat
      <3>1. top[c] >= 0
        BY <2>2 DEF At
      <3> QED BY <3>1, RunningFacts, RequestFacts DEF FrameType
    <2>6. PICK g \in grants : GrantHeld(g, Id(c, 0), Req(c).cap)
      BY <2>5 DEF GrantsOK, Granted
    <2>7. Class(c) = "ScaleHandler" => t \in Nat /\ t <= Req(c).cap
      BY <2>2, <2>5 DEF GrantsOK, AimsWithin
    <2>8. /\ g.id = Id(c, 0) /\ g.decision.effect = "allow"
          /\ g.claim.req.cap \in Nat /\ g.decision.cap \in Int
          /\ Req(c).cap <= g.claim.req.cap
          /\ g.decision.cap # NoCap => Req(c).cap <= g.decision.cap
      BY <2>6 DEF GrantHeld
    <2>9. Class(c) = "ScaleHandler" =>
                /\ t <= g.claim.req.cap
                /\ g.decision.cap # NoCap => t <= g.decision.cap
      BY <2>5, <2>7, <2>8
    <2>10. WriteGranted(w)
      BY <2>4, <2>8, <2>9 DEF WriteGranted
    <2>11. \A x \in writes : WriteGranted(x)
      BY DEF WritesWereGranted, WriteGranted
    <2>12. \A x \in writes' : WriteGranted(x)
      BY <2>2, <2>3, <2>10, <2>11
    <2> QED BY <2>12 DEF WritesWereGranted, WriteGranted
  <1> QED BY <1>1, <1>2

LEMMA GrantsInv ==
    IInv /\ PolInv /\ ChainsOK /\ GrantsOK /\ WritesWereGranted /\ [PolNext]_allVars
        => GrantsOK' /\ WritesWereGranted'
  <1> SUFFICES ASSUME IInv, PolInv, ChainsOK, GrantsOK, WritesWereGranted,
                      [PolNext]_allVars
               PROVE  GrantsOK' /\ WritesWereGranted'
    OBVIOUS
  <1>1. ASSUME UNCHANGED <<top, ctx, frame, writes, grants>>
        PROVE  GrantsOK' /\ WritesWereGranted'
    BY <1>1 DEF GrantsOK, Granted, GrantHeld, AimsWithin, At, F, Id, Req, Class,
       WritesWereGranted
  <1>2. ASSUME NEW c \in Callers, PolicyStep(c) PROVE GrantsOK' /\ WritesWereGranted'
    <2>1. CASE Delegate(c)
      <3>1. GrantsOK' /\ grants \subseteq grants' /\ UNCHANGED writes
        BY <2>1, DelegateGrants
      <3> QED BY <3>1 DEF WritesWereGranted
    <2>2. CASE ~ Delegate(c)
      <3>1. UNCHANGED <<top, ctx, frame, writes, grants>>
        BY <1>2, <2>2
           DEF PolicyStep, Enter, CheckSwitch, AskPolicy, Deny, Queue, Leave, vars
      <3> QED BY <1>1, <3>1
    <2> QED BY <2>1, <2>2
  <1>3. ASSUME NEW c \in Callers, Run(c), UNCHANGED grants
        PROVE  GrantsOK' /\ WritesWereGranted'
    BY <1>3, RunStaysGranted, RunWritesGranted
  <1>4. CASE Tick /\ UNCHANGED grants
    BY <1>1, <1>4 DEF Tick
  <1>5. CASE UNCHANGED <<vars, grants>>
    BY <1>1, <1>5 DEF vars
  <1>6. CASE UNCHANGED allVars
    BY <1>1, <1>6 DEF allVars, vars, ownVars
  <1> QED BY <1>2, <1>3, <1>4, <1>5, <1>6 DEF PolNext

(* Nothing is mutated on behalf of a caller except inside a call the       *)
(* policy has allowed, its rollback included, and a scale-out stays within *)
(* the caller's ceiling and the policy's, whatever operators and the other *)
(* callers do meanwhile (policy_runner.py:74-105, scale.py:36-41).         *)
THEOREM MutationsWereGranted == PolSpec => []WritesWereGranted
  <1>1. PolInit => GrantsOK /\ WritesWereGranted
    BY DEF PolInit, Init, GrantsOK, Granted, AimsWithin, At, WritesWereGranted
  <1> QED BY <1>1, GrantsInv, PolInitInv, PolNextInv, RunnerContractKept,
             NestingInvariant, ChainsInvariant, PTL DEF PolSpec, RunnerUnchanged
=============================================================================
