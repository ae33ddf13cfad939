-------------------------- MODULE InvestigationProofs --------------------------
(***************************************************************************)
(* Proofs about Investigation, for every number of investigations and every*)
(* set of plans, of any length, over any allowlist.                        *)
(***************************************************************************)
EXTENDS Investigation, FiniteSetTheorems, TLAPS

(* What an investigation is at each point.                                 *)
Consistent(r) ==
    /\ r.pc \in {"new", "planning"} =>
           r.worker = <<>> /\ ~ r.planned /\ r.asked = "no" /\ r.diagnosed = "no"
    /\ r.pc \in {"running", "diagnosing", "rendered"} =>
           /\ r.plan \in Plans
           /\ DOMAIN r.worker = DOMAIN r.plan.subtasks
    /\ r.pc \in {"running", "diagnosing"} => r.diagnosed = "no"
    /\ r.planned => r.plan \in Plans /\ Valid(r.plan)

(* What the scheduler has made of the workers when the diagnosis starts.   *)
Positions(r, s) == {k \in DOMAIN r.worker : r.worker[k] = s}

Gleaned(r) ==
    r.pc \in {"diagnosing", "rendered"} =>
        /\ r.results = Positions(r, "ok") /\ r.results # {}
        /\ r.partial <=> Positions(r, "failed") # {}
        /\ \A k \in DOMAIN r.worker : r.worker[k] \in {"ok", "failed"}

GatewayInv ==
    \A call \in gateway :
        /\ IsPermitted(call.tool)
        /\ inv[call.by].pc \notin {"new", "planning"}
        /\ inv[call.by].planned => IsRead(call.tool)

IInv ==
    /\ ITypeOK
    /\ \A i \in Investigations : Consistent(inv[i]) /\ Gleaned(inv[i])
    /\ GatewayInv

LEMMA PlanFacts ==
    ASSUME NEW p \in Plans
    PROVE  /\ p \in PlanType /\ p # None
           /\ p.subtasks \in Seq(SubtaskType)
           /\ \A k \in DOMAIN p.subtasks : p.subtasks[k].tool \in Tools
  <1>1. p \in PlanType /\ p # None
    BY InvestigationAssumption
  <1>2. p.subtasks \in Seq(SubtaskType)
    BY <1>1 DEF PlanType
  <1>3. \A k \in DOMAIN p.subtasks : p.subtasks[k] \in SubtaskType
    BY <1>2
  <1> QED BY <1>1, <1>2, <1>3 DEF SubtaskType

LEMMA IInit == Init => IInv
  BY DEF Init, Fresh, IInv, ITypeOK, InvType, Points, GatewayInv, Consistent, Gleaned, Positions,
     Steps

(* A plan given to the scheduler.                                          *)
LEMMA DispatchKeeps ==
    ASSUME NEW r \in InvType, r.pc \in {"new", "planning"}, r.diagnosed = "no",
           NEW p \in Plans, r.planned => Valid(p)
    PROVE  /\ Dispatch(r, p) \in InvType /\ Consistent(Dispatch(r, p)) /\ Gleaned(Dispatch(r, p))
           /\ Dispatch(r, p).asked = r.asked /\ Dispatch(r, p).diagnosed = "no"
           /\ \A s \in {"ok", "failed"} : Positions(Dispatch(r, p), s) = {}
  <1> DEFINE d == Dispatch(r, p)
  <1>1. p.subtasks \in Seq(SubtaskType)
    BY PlanFacts
  <1>2. [k \in DOMAIN p.subtasks |-> "todo"] \in Seq(WorkerStates)
    BY <1>1 DEF WorkerStates
  <1>3. d = [r EXCEPT !.pc = "running", !.plan = p,
                      !.worker = [k \in DOMAIN p.subtasks |-> "todo"]]
    BY DEF Dispatch, InvType
  <1>4. d \in InvType
    BY <1>2, <1>3 DEF InvType, Points
  <1>5. /\ d.pc = "running" /\ d.plan = p /\ d.planned = r.planned /\ d.asked = r.asked
        /\ d.worker = [k \in DOMAIN p.subtasks |-> "todo"] /\ d.diagnosed = "no"
    BY <1>3 DEF InvType
  <1> HIDE DEF d
  <1>6. Consistent(d) /\ Gleaned(d) /\ \A s \in {"ok", "failed"} : Positions(d, s) = {}
    BY <1>5 DEF Consistent, Gleaned, Positions
  <1> QED BY <1>4, <1>5, <1>6 DEF d

(* The record of an investigation whose plan was returned.                 *)
LEMMA PlannedKeeps ==
    ASSUME NEW r \in InvType, Consistent(r), r.pc = "planning",
           NEW q, q = [r EXCEPT !.planned = TRUE, !.asked = "ok"]
    PROVE  q \in InvType /\ q.pc = "planning" /\ q.diagnosed = "no" /\ q.asked = "ok"
  BY DEF InvType, Points, Consistent

(* One investigation moves; the others, and what they may ask of the       *)
(* gateway, stay as they are.                                              *)
LEMMA OneInvMoves ==
    ASSUME IInv, NEW i \in Investigations, NEW r \in InvType, Consistent(r), Gleaned(r),
           r.pc \notin {"new", "planning"}, inv[i].pc \notin {"new", "planning"},
           r.planned = inv[i].planned,
           inv' = [inv EXCEPT ![i] = r], UNCHANGED gateway,
           trace' \in [Steps \X BOOLEAN -> Nat]
    PROVE  IInv'
  BY DEF IInv, ITypeOK, GatewayInv

LEMMA TraceType ==
    ASSUME IInv, NEW step \in Steps, NEW ok \in BOOLEAN, Trace(step, ok)
    PROVE  trace' \in [Steps \X BOOLEAN -> Nat]
  BY DEF IInv, ITypeOK, Trace

(* A worker's next state.                                                  *)
LEMMA WorkerMoves ==
    ASSUME IInv, NEW i \in Investigations, At(i, "running"), NEW k \in DOMAIN inv[i].worker,
           NEW s \in WorkerStates, SetWorker(i, k, s)
    PROVE  \E r \in InvType :
               /\ Consistent(r) /\ Gleaned(r) /\ r.pc = "running"
               /\ r.planned = inv[i].planned /\ r.asked = inv[i].asked
               /\ r.diagnosed = inv[i].diagnosed
               /\ r.worker = [inv[i].worker EXCEPT ![k] = s]
               /\ inv' = [inv EXCEPT ![i] = r]
  <1> DEFINE old == inv[i]
             r == [old EXCEPT !.worker = [old.worker EXCEPT ![k] = s]]
  <1>1. old \in InvType /\ Consistent(old) /\ old.pc = "running"
    BY DEF IInv, ITypeOK, At
  <1>2. old.worker \in Seq(WorkerStates)
    BY <1>1 DEF InvType
  <1>3. [old.worker EXCEPT ![k] = s] \in Seq(WorkerStates)
    BY <1>2
  <1>4. r \in InvType
    BY <1>1, <1>3 DEF InvType
  <1>5. /\ r.pc = "running" /\ r.plan = old.plan /\ r.planned = old.planned
        /\ r.asked = old.asked /\ r.diagnosed = old.diagnosed
        /\ r.worker = [old.worker EXCEPT ![k] = s]
        /\ DOMAIN r.worker = DOMAIN old.worker
    BY <1>1 DEF InvType
  <1>6. Consistent(r) /\ Gleaned(r)
    BY <1>1, <1>5 DEF Consistent, Gleaned
  <1>7. inv' = [inv EXCEPT ![i] = r]
    BY DEF SetWorker
  <1> HIDE DEF r
  <1> QED BY <1>4, <1>5, <1>6, <1>7

LEMMA ICallTool ==
    ASSUME IInv, NEW i \in Investigations, NEW k \in DOMAIN inv[i].worker, CallTool(i, k)
    PROVE  IInv'
  <1> DEFINE tool == Subtasks(i)[k].tool
  <1>1. At(i, "running") /\ Consistent(inv[i])
    BY DEF CallTool, IInv
  <1>2. inv[i].plan \in Plans /\ k \in DOMAIN Subtasks(i)
    BY <1>1 DEF Consistent, At, Subtasks
  <1>3. tool \in Tools
    BY <1>2, PlanFacts DEF Subtasks
  <1>4. inv[i].planned => IsRead(tool)
    BY <1>1, <1>2 DEF Consistent, Valid, Subtasks
  <1>5. CASE IsPermitted(tool)
    <2>1. PICK r \in InvType :
              /\ Consistent(r) /\ Gleaned(r) /\ r.pc = "running"
              /\ r.planned = inv[i].planned
              /\ inv' = [inv EXCEPT ![i] = r]
      BY <1>1, <1>5, WorkerMoves DEF CallTool, WorkerStates
    <2>2. gateway' = gateway \cup {[by |-> i, tool |-> tool]} /\ UNCHANGED trace
      BY <1>5 DEF CallTool
    <2>3. inv'[i] = r /\ \A j \in Investigations \ {i} : inv'[j] = inv[j]
      BY <2>1 DEF IInv, ITypeOK
    <2>4. ITypeOK'
      BY <1>3, <2>1, <2>2 DEF IInv, ITypeOK
    <2>5. GatewayInv'
      <3>1. \A call \in gateway : call.by \in Investigations
        BY DEF IInv, ITypeOK
      <3> QED BY <1>1, <1>4, <1>5, <2>1, <2>2, <2>3, <3>1 DEF IInv, GatewayInv, At
    <2> QED BY <2>1, <2>3, <2>4, <2>5 DEF IInv
  <1>6. CASE ~ IsPermitted(tool)
    <2>1. PICK r \in InvType :
              /\ Consistent(r) /\ Gleaned(r) /\ r.pc = "running"
              /\ r.planned = inv[i].planned
              /\ inv' = [inv EXCEPT ![i] = r]
      BY <1>1, <1>6, WorkerMoves DEF CallTool, WorkerStates
    <2>2. trace' \in [Steps \X BOOLEAN -> Nat]
      BY <1>6, TraceType DEF CallTool, Steps
    <2> QED BY <1>1, <1>6, <2>1, <2>2, OneInvMoves DEF CallTool, At
  <1> QED BY <1>5, <1>6

LEMMA IStep ==
    ASSUME IInv, NEW i \in Investigations,
           AskForPlan(i) \/ RunOtherPlan(i) \/ Work(i) \/ Cancel(i)
    PROVE  IInv'
  <1> DEFINE old == inv[i]
  <1>0. old \in InvType /\ Consistent(old) /\ Gleaned(old)
    BY DEF IInv, ITypeOK
  <1>n. ASSUME old.pc \in {"new", "planning"},
               NEW r \in InvType, Consistent(r), Gleaned(r),
               inv' = [inv EXCEPT ![i] = r], UNCHANGED gateway,
               trace' \in [Steps \X BOOLEAN -> Nat]
        PROVE  IInv'
    <2>1. \A call \in gateway : call.by \in Investigations \ {i}
      BY <1>n DEF IInv, ITypeOK, GatewayInv
    <2> QED BY <1>n, <2>1 DEF IInv, ITypeOK, GatewayInv
  <1>1. CASE AskForPlan(i)
    <2> DEFINE r == [old EXCEPT !.pc = "planning"]
    <2>1. r \in InvType /\ Consistent(r) /\ Gleaned(r)
      BY <1>0, <1>1 DEF AskForPlan, At, InvType, Points, Consistent, Gleaned
    <2> QED BY <1>1, <1>n, <2>1 DEF AskForPlan, At, IInv, ITypeOK
  <1>2. CASE PlanFails(i)
    <2> DEFINE r == [old EXCEPT !.pc = "failed", !.asked = "failed"]
    <2>1. r \in InvType /\ Consistent(r) /\ Gleaned(r)
      BY <1>0, <1>2 DEF PlanFails, At, InvType, Points, Consistent, Gleaned
    <2>2. trace' \in [Steps \X BOOLEAN -> Nat]
      BY <1>2, TraceType DEF PlanFails, Steps
    <2> QED BY <1>2, <1>n, <2>1, <2>2 DEF PlanFails, At
  <1>3. CASE PlanReturned(i)
    <2>1. PICK p \in Plans :
              /\ Valid(p)
              /\ inv' = [inv EXCEPT ![i] =
                             Dispatch([old EXCEPT !.planned = TRUE, !.asked = "ok"], p)]
      BY <1>3 DEF PlanReturned
    <2>2. trace' \in [Steps \X BOOLEAN -> Nat]
      BY <1>3, TraceType DEF PlanReturned, Steps
    <2> DEFINE q == [old EXCEPT !.planned = TRUE, !.asked = "ok"]
    <2>3. q \in InvType /\ q.pc = "planning" /\ q.diagnosed = "no"
      BY <1>0, <1>3, PlannedKeeps DEF PlanReturned, At
    <2> HIDE DEF q
    <2>4. /\ Dispatch(q, p) \in InvType /\ Consistent(Dispatch(q, p))
          /\ Gleaned(Dispatch(q, p))
      BY <2>1, <2>3, DispatchKeeps
    <2>5. inv' = [inv EXCEPT ![i] = Dispatch(q, p)]
      BY <2>1 DEF q
    <2> QED BY <1>3, <1>n, <2>2, <2>4, <2>5 DEF PlanReturned, At
  <1>4. CASE RunOtherPlan(i)
    <2>1. PICK p \in Plans : inv' = [inv EXCEPT ![i] = Dispatch(old, p)]
      BY <1>4 DEF RunOtherPlan
    <2>2. old.pc = "new" /\ old.diagnosed = "no" /\ ~ old.planned
      BY <1>0, <1>4 DEF RunOtherPlan, At, Consistent
    <2> QED BY <1>0, <1>4, <1>n, <2>1, <2>2, DispatchKeeps DEF RunOtherPlan, IInv, ITypeOK
  <1>5. ASSUME NEW k \in DOMAIN old.worker, WorkerEnds(i, k) PROVE IInv'
    <2>1. PICK ok \in BOOLEAN :
              SetWorker(i, k, IF ok THEN "ok" ELSE "failed") /\ Trace("retrieval", ok)
      BY <1>5 DEF WorkerEnds
    <2>2. PICK r \in InvType :
              /\ Consistent(r) /\ Gleaned(r) /\ r.pc = "running"
              /\ r.planned = inv[i].planned
              /\ inv' = [inv EXCEPT ![i] = r]
      BY <1>5, <2>1, WorkerMoves DEF WorkerEnds, WorkerStates
    <2>3. trace' \in [Steps \X BOOLEAN -> Nat]
      BY <2>1, TraceType DEF Steps
    <2> QED BY <1>5, <2>2, <2>3, OneInvMoves DEF WorkerEnds, At
  <1>6. CASE Collect(i)
    <2> DEFINE lost == [old EXCEPT !.pc = "failed"]
               r == [old EXCEPT !.pc = "diagnosing", !.results = Those(i, "ok"),
                                !.partial = Those(i, "failed") # {}]
    <2>1. Those(i, "ok") = Positions(old, "ok") /\ Those(i, "failed") = Positions(old, "failed")
      BY DEF Those, Worker, Positions
    <2>2. lost \in InvType /\ Consistent(lost) /\ Gleaned(lost) /\ lost.planned = old.planned
          /\ lost.pc = "failed"
      BY <1>0 DEF InvType, Points, Consistent, Gleaned
    <2>3. Positions(old, "ok") \in SUBSET Nat
      <3>1. old.worker \in Seq(WorkerStates)
        BY <1>0 DEF InvType
      <3> QED BY <3>1 DEF Positions
    <2>4. r \in InvType /\ r.planned = old.planned /\ r.pc = "diagnosing"
      BY <1>0, <2>1, <2>3 DEF InvType, Points
    <2>5. /\ r.plan = old.plan /\ r.worker = old.worker /\ r.diagnosed = old.diagnosed
          /\ r.results = Positions(old, "ok") /\ (r.partial <=> Positions(old, "failed") # {})
      BY <1>0, <2>1 DEF InvType
    <2>6. Positions(old, "ok") # {} => Consistent(r) /\ Gleaned(r)
      BY <1>0, <1>6, <2>4, <2>5 DEF Collect, At, Gathered, Worker, Consistent, Gleaned, Positions
    <2>7. CASE Those(i, "ok") = {}
      BY <1>6, <2>2, <2>7, OneInvMoves DEF Collect, At, IInv, ITypeOK
    <2>8. CASE Those(i, "ok") # {}
      <3>1. inv' = [inv EXCEPT ![i] = r] /\ UNCHANGED <<gateway, trace>> /\ old.pc = "running"
        BY <1>6, <2>8 DEF Collect, At
      <3>2. Consistent(r) /\ Gleaned(r)
        BY <2>1, <2>6, <2>8
      <3> HIDE DEF r
      <3> QED BY <2>4, <3>1, <3>2, OneInvMoves DEF IInv, ITypeOK
    <2> QED BY <2>7, <2>8
  <1>7. CASE Diagnose(i)
    <2>1. PICK ok \in BOOLEAN :
              /\ inv' = [inv EXCEPT ![i].pc = IF ok THEN "rendered" ELSE "failed",
                                    ![i].diagnosed = IF ok THEN "ok" ELSE "failed"]
              /\ Trace("diagnosis", ok)
      BY <1>7 DEF Diagnose
    <2> DEFINE r == [old EXCEPT !.pc = IF ok THEN "rendered" ELSE "failed",
                                !.diagnosed = IF ok THEN "ok" ELSE "failed"]
    <2>2. r \in InvType
      BY <1>0 DEF InvType, Points
    <2>3. /\ r.pc \in {"rendered", "failed"} /\ r.plan = old.plan /\ r.planned = old.planned
          /\ r.worker = old.worker /\ r.results = old.results /\ r.partial = old.partial
      BY <1>0 DEF InvType
    <2>4. Consistent(r) /\ Gleaned(r)
      BY <1>0, <1>7, <2>3 DEF Diagnose, At, Consistent, Gleaned, Positions
    <2>5. trace' \in [Steps \X BOOLEAN -> Nat]
      BY <2>1, TraceType DEF Steps
    <2>6. inv' = [inv EXCEPT ![i] = r]
      BY <2>1
    <2> HIDE DEF r
    <2> QED BY <1>7, <2>2, <2>3, <2>4, <2>5, <2>6, OneInvMoves DEF Diagnose, At
  <1>8. CASE Cancel(i)
    <2> DEFINE w == [k \in DOMAIN old.worker |->
                        IF old.worker[k] \in {"ok", "failed"} THEN old.worker[k] ELSE "cancelled"]
               r == [old EXCEPT !.pc = "cancelled", !.worker = w]
    <2>1. w \in Seq(WorkerStates)
      <3>1. old.worker \in Seq(WorkerStates)
        BY <1>0 DEF InvType
      <3> QED BY <3>1 DEF WorkerStates
    <2>2. r \in InvType /\ Consistent(r) /\ Gleaned(r)
      BY <1>0, <2>1 DEF InvType, Points, Consistent, Gleaned
    <2>3. inv' = [inv EXCEPT ![i] = r] /\ UNCHANGED <<gateway, trace>>
      BY <1>8 DEF Cancel
    <2>4. r.pc = "cancelled" /\ r.planned = old.planned
      BY <1>0 DEF InvType
    <2> HIDE DEF r
    <2>5. CASE old.pc \in {"new", "planning"}
      BY <1>n, <2>2, <2>3, <2>5 DEF IInv, ITypeOK
    <2>6. CASE old.pc \notin {"new", "planning"}
      BY <2>2, <2>3, <2>4, <2>6, OneInvMoves DEF IInv, ITypeOK
    <2> QED BY <2>5, <2>6
  <1> QED BY <1>1, <1>2, <1>3, <1>4, <1>5, <1>6, <1>7, <1>8, ICallTool DEF Work

LEMMA INext == IInv /\ [Next]_vars => IInv'
  <1>1. IInv /\ UNCHANGED vars => IInv'
    BY DEF vars, IInv, ITypeOK, GatewayInv, Consistent, Gleaned, Positions
  <1> QED BY <1>1, IStep DEF Next

(* The types of Investigation (ITypeOK).                                   *)
THEOREM InvestigationTypes == Spec => []ITypeOK
  <1>1. IInv => ITypeOK
    BY DEF IInv
  <1> QED BY <1>1, IInit, INext, PTL DEF Spec

(* The bright line (ToolsStayWithinTheLine), for every allowlist and every *)
(* plan, whoever wrote it.                                                 *)
THEOREM LineIsKept == Spec => []ToolsStayWithinTheLine
  <1>1. IInv => ToolsStayWithinTheLine
    BY InvestigationAssumption DEF IInv, GatewayInv, ToolsStayWithinTheLine, IsPermitted, IsRead
  <1> QED BY <1>1, IInit, INext, PTL DEF Spec

(* The evidence under a diagnosis is all that was found, and is marked     *)
(* when some of it is missing (EvidenceIsHonest).                          *)
THEOREM EvidenceHolds == Spec => []EvidenceIsHonest
  <1>1. ASSUME IInv, NEW i \in Investigations, inv[i].pc \in {"diagnosing", "rendered"}
        PROVE  LET found == Rendered(inv[i])
               IN  /\ found.raw # {}
                   /\ found.raw = Those(i, "ok")
                   /\ found.note <=> found.raw # DOMAIN Subtasks(i)
    <2>1. Consistent(inv[i]) /\ Gleaned(inv[i])
      BY <1>1 DEF IInv
    <2>2. Those(i, "ok") = Positions(inv[i], "ok")
      BY DEF Those, Worker, Positions
    <2>3. DOMAIN Subtasks(i) = DOMAIN inv[i].worker
      BY <1>1, <2>1 DEF Consistent, Subtasks
    <2>4. inv[i].partial <=> Positions(inv[i], "ok") # DOMAIN inv[i].worker
      BY <1>1, <2>1 DEF Gleaned, Positions
    <2> QED BY <1>1, <2>1, <2>2, <2>3, <2>4 DEF Gleaned, Rendered
  <1>2. IInv => EvidenceIsHonest
    BY <1>1 DEF EvidenceIsHonest
  <1> QED BY <1>2, IInit, INext, PTL DEF Spec
-----------------------------------------------------------------------------
(* The trace: what was recorded of a step, counted, is a set of the state. *)
Outcomes == {"ok", "failed"}

Done(step, o) ==
    CASE step = "plan"      -> {i \in Investigations : inv[i].asked = o}
      [] step = "retrieval" -> Retrieved(o)
      [] step = "diagnosis" -> {i \in Investigations : inv[i].diagnosed = o}

TraceInv ==
    \A step \in Steps, o \in Outcomes :
        /\ IsFiniteSet(Done(step, o))
        /\ Cardinality(Done(step, o)) = trace[<<step, o = "ok">>]

LEMMA RetrievedIs ==
    ASSUME NEW s, NEW x
    PROVE  x \in Retrieved(s) <=>
               \E i \in Investigations : \E k \in Positions(inv[i], s) : x = <<i, k>>
  BY DEF Retrieved, Those, Worker, Positions

LEMMA RetrievedNext ==
    ASSUME NEW s, NEW x
    PROVE  x \in Retrieved(s)' <=>
               \E i \in Investigations : \E k \in Positions(inv'[i], s) : x = <<i, k>>
  BY DEF Retrieved, Those, Worker, Positions

(* Sets and trace do not change.                                           *)
LEMMA NotRecorded ==
    ASSUME TraceInv, UNCHANGED trace,
           \A step \in Steps, o \in Outcomes : Done(step, o)' = Done(step, o)
    PROVE  TraceInv'
  BY DEF TraceInv

(* One step more, in the set and in the trace.                             *)
LEMMA Recorded ==
    ASSUME ITypeOK, TraceInv, NEW st \in Steps, NEW out \in Outcomes, NEW x,
           Trace(st, out = "ok"), x \notin Done(st, out),
           Done(st, out)' = Done(st, out) \cup {x},
           \A step \in Steps, o \in Outcomes :
               step # st \/ o # out => Done(step, o)' = Done(step, o)
    PROVE  TraceInv'
  <1> SUFFICES ASSUME NEW step \in Steps, NEW o \in Outcomes
               PROVE  /\ IsFiniteSet(Done(step, o)')
                      /\ Cardinality(Done(step, o)') = trace'[<<step, o = "ok">>]
    BY DEF TraceInv
  <1>1. IsFiniteSet(Done(step, o)) /\ Cardinality(Done(step, o)) = trace[<<step, o = "ok">>]
    BY DEF TraceInv
  <1>2. <<step, o = "ok">> \in Steps \X BOOLEAN /\ <<st, out = "ok">> \in Steps \X BOOLEAN
    OBVIOUS
  <1>3. trace' = [trace EXCEPT ![<<st, out = "ok">>] = @ + 1]
    BY DEF Trace
  <1>4. CASE step = st /\ o = out
    <2>1. trace'[<<step, o = "ok">>] = trace[<<step, o = "ok">>] + 1
      BY <1>2, <1>3, <1>4 DEF ITypeOK
    <2>2. IsFiniteSet(Done(st, out) \cup {x})
          /\ Cardinality(Done(st, out) \cup {x}) = Cardinality(Done(st, out)) + 1
      BY <1>1, <1>4, FS_AddElement
    <2> QED BY <1>1, <1>4, <2>1, <2>2
  <1>5. CASE ~ (step = st /\ o = out)
    <2>1. Done(step, o)' = Done(step, o)
      BY <1>5
    <2>2. (step = st /\ (o = "ok") = (out = "ok")) => FALSE
      BY <1>5 DEF Outcomes
    <2>3. <<step, o = "ok">> # <<st, out = "ok">>
      BY <2>2
    <2>4. trace'[<<step, o = "ok">>] = trace[<<step, o = "ok">>]
      BY <1>2, <1>3, <2>3 DEF ITypeOK
    <2> QED BY <1>1, <2>1, <2>4
  <1> QED BY <1>4, <1>5

(* What the sets of the trace depend on.                                   *)
Shown(r) == <<r.asked, r.diagnosed, Positions(r, "ok"), Positions(r, "failed")>>

LEMMA DoneLasts ==
    ASSUME \A i \in Investigations : Shown(inv[i])' = Shown(inv[i])
    PROVE  \A step \in Steps, o \in Outcomes : Done(step, o)' = Done(step, o)
  <1>1. \A i \in Investigations :
            /\ inv'[i].asked = inv[i].asked /\ inv'[i].diagnosed = inv[i].diagnosed
            /\ Positions(inv'[i], "ok") = Positions(inv[i], "ok")
            /\ Positions(inv'[i], "failed") = Positions(inv[i], "failed")
    BY DEF Shown, Positions
  <1>2. ASSUME NEW o \in Outcomes PROVE Retrieved(o)' = Retrieved(o)
    <2>1. \A i \in Investigations : Positions(inv'[i], o) = Positions(inv[i], o)
      BY <1>1 DEF Outcomes
    <2>2. \A x : x \in Retrieved(o)' <=> x \in Retrieved(o)
      BY <2>1, RetrievedIs, RetrievedNext
    <2> QED BY <2>2 DEF Retrieved
  <1> QED BY <1>1, <1>2 DEF Done, Steps

(* An investigation moves without anything to record; or its plan, its     *)
(* diagnosis or one of its workers has ended.                              *)
LEMMA MovesUnrecorded ==
    ASSUME IInv, TraceInv, NEW i \in Investigations, NEW r, inv' = [inv EXCEPT ![i] = r],
           Shown(r) = Shown(inv[i]), UNCHANGED trace
    PROVE  TraceInv'
  <1>1. \A j \in Investigations : Shown(inv[j])' = Shown(inv[j])
    <2>1. \A j \in Investigations : inv'[j] = IF j = i THEN r ELSE inv[j]
      BY DEF IInv, ITypeOK
    <2>2. \A j \in Investigations : Shown(inv'[j]) = Shown(inv[j])
      BY <2>1
    <2> QED BY <2>2 DEF Shown, Positions
  <1> QED BY <1>1, DoneLasts, NotRecorded

LEMMA PlanRecorded ==
    ASSUME IInv, TraceInv, NEW i \in Investigations, NEW r, inv' = [inv EXCEPT ![i] = r],
           NEW o \in Outcomes, inv[i].asked = "no", r.asked = o,
           r.diagnosed = inv[i].diagnosed,
           \A s \in Outcomes : Positions(r, s) = Positions(inv[i], s),
           Trace("plan", o = "ok")
    PROVE  TraceInv'
  <1>1. \A j \in Investigations : inv'[j] = IF j = i THEN r ELSE inv[j]
    BY DEF IInv, ITypeOK
  <1>2. \A s \in Outcomes : Retrieved(s)' = Retrieved(s)
    <2>1. \A j \in Investigations, s \in Outcomes : Positions(inv'[j], s) = Positions(inv[j], s)
      BY <1>1
    <2>2. ASSUME NEW s \in Outcomes PROVE \A x : x \in Retrieved(s)' <=> x \in Retrieved(s)
      BY <2>1, RetrievedIs, RetrievedNext
    <2> QED BY <2>2 DEF Retrieved
  <1>3. /\ i \notin Done("plan", o) /\ Done("plan", o)' = Done("plan", o) \cup {i}
        /\ \A step \in Steps, out \in Outcomes :
               step # "plan" \/ out # o => Done(step, out)' = Done(step, out)
    BY <1>1, <1>2 DEF Done, Steps, Outcomes
  <1> QED BY <1>3, Recorded DEF Steps, IInv

LEMMA DiagnosisRecorded ==
    ASSUME IInv, TraceInv, NEW i \in Investigations, NEW r, inv' = [inv EXCEPT ![i] = r],
           NEW o \in Outcomes, inv[i].diagnosed = "no", r.diagnosed = o,
           r.asked = inv[i].asked, r.worker = inv[i].worker,
           Trace("diagnosis", o = "ok")
    PROVE  TraceInv'
  <1>1. \A j \in Investigations : inv'[j] = IF j = i THEN r ELSE inv[j]
    BY DEF IInv, ITypeOK
  <1>2. \A s \in Outcomes : Retrieved(s)' = Retrieved(s)
    <2>1. \A j \in Investigations, s \in Outcomes : Positions(inv'[j], s) = Positions(inv[j], s)
      BY <1>1 DEF Positions
    <2>2. ASSUME NEW s \in Outcomes PROVE \A x : x \in Retrieved(s)' <=> x \in Retrieved(s)
      BY <2>1, RetrievedIs, RetrievedNext
    <2> QED BY <2>2 DEF Retrieved
  <1>3. /\ i \notin Done("diagnosis", o) /\ Done("diagnosis", o)' = Done("diagnosis", o) \cup {i}
        /\ \A step \in Steps, out \in Outcomes :
               step # "diagnosis" \/ out # o => Done(step, out)' = Done(step, out)
    BY <1>1, <1>2 DEF Done, Steps, Outcomes
  <1> QED BY <1>3, Recorded DEF Steps, IInv

LEMMA RetrievalRecorded ==
    ASSUME IInv, TraceInv, NEW i \in Investigations, NEW r, inv' = [inv EXCEPT ![i] = r],
           NEW o \in Outcomes, NEW k \in DOMAIN inv[i].worker, inv[i].worker[k] \notin Outcomes,
           r.worker = [inv[i].worker EXCEPT ![k] = o],
           r.asked = inv[i].asked, r.diagnosed = inv[i].diagnosed,
           Trace("retrieval", o = "ok")
    PROVE  TraceInv'
  <1>1. \A j \in Investigations : inv'[j] = IF j = i THEN r ELSE inv[j]
    BY DEF IInv, ITypeOK
  <1>2. Positions(r, o) = Positions(inv[i], o) \cup {k} /\ k \notin Positions(inv[i], o)
    BY DEF Positions
  <1>3. \A s \in Outcomes \ {o} : Positions(r, s) = Positions(inv[i], s)
    BY DEF Positions
  <1>4. ASSUME NEW x PROVE x \in Retrieved(o)' <=> x \in Retrieved(o) \cup {<<i, k>>}
    <2>1. x \in Retrieved(o)' <=>
              \E j \in Investigations : \E n \in Positions(inv'[j], o) : x = <<j, n>>
      BY RetrievedNext
    <2>2. x \in Retrieved(o) <=>
              \E j \in Investigations : \E n \in Positions(inv[j], o) : x = <<j, n>>
      BY RetrievedIs
    <2> QED BY <1>1, <1>2, <2>1, <2>2
  <1>5. <<i, k>> \notin Retrieved(o)
    BY <1>2, RetrievedIs
  <1>6. ASSUME NEW s \in Outcomes \ {o} PROVE \A x : x \in Retrieved(s)' <=> x \in Retrieved(s)
    <2>1. \A j \in Investigations : Positions(inv'[j], s) = Positions(inv[j], s)
      BY <1>1, <1>3
    <2> QED BY <2>1, RetrievedIs, RetrievedNext
  <1>7. Retrieved(o)' = Retrieved(o) \cup {<<i, k>>}
    BY <1>4 DEF Retrieved
  <1>8. \A s \in Outcomes \ {o} : Retrieved(s)' = Retrieved(s)
    BY <1>6 DEF Retrieved
  <1>9. \A j \in Investigations : inv'[j].asked = inv[j].asked /\ inv'[j].diagnosed = inv[j].diagnosed
    BY <1>1
  <1>10. /\ <<i, k>> \notin Done("retrieval", o)
         /\ Done("retrieval", o)' = Done("retrieval", o) \cup {<<i, k>>}
    BY <1>5, <1>7 DEF Done
  <1>11. \A step \in Steps, out \in Outcomes :
             step # "retrieval" \/ out # o => Done(step, out)' = Done(step, out)
    BY <1>8, <1>9 DEF Done, Steps
  <1> QED BY <1>10, <1>11, Recorded DEF Steps, IInv

LEMMA TStep ==
    ASSUME IInv, TraceInv, NEW i \in Investigations,
           AskForPlan(i) \/ RunOtherPlan(i) \/ Work(i) \/ Cancel(i)
    PROVE  TraceInv'
  <1> DEFINE old == inv[i]
  <1>0. old \in InvType /\ Consistent(old) /\ Gleaned(old)
    BY DEF IInv, ITypeOK
  <1>1. CASE AskForPlan(i)
    <2>1. Shown([old EXCEPT !.pc = "planning"]) = Shown(old)
      BY <1>0 DEF Shown, Positions, InvType
    <2> QED BY <1>1, <2>1, MovesUnrecorded DEF AskForPlan
  <1>2. CASE PlanFails(i)
    <2> DEFINE r == [old EXCEPT !.pc = "failed", !.asked = "failed"]
    <2>1. /\ old.asked = "no" /\ r.asked = "failed" /\ r.diagnosed = old.diagnosed
          /\ \A s \in Outcomes : Positions(r, s) = Positions(old, s)
      BY <1>0, <1>2 DEF PlanFails, At, Consistent, Positions, InvType
    <2>2. inv' = [inv EXCEPT ![i] = r] /\ Trace("plan", "failed" = "ok")
      BY <1>2 DEF PlanFails, Trace
    <2> QED BY <2>1, <2>2, PlanRecorded DEF Outcomes
  <1>3. CASE PlanReturned(i)
    <2>1. PICK p \in Plans :
              /\ Valid(p)
              /\ inv' = [inv EXCEPT ![i] =
                             Dispatch([old EXCEPT !.planned = TRUE, !.asked = "ok"], p)]
      BY <1>3 DEF PlanReturned
    <2> DEFINE q == [old EXCEPT !.planned = TRUE, !.asked = "ok"]
    <2>2. q \in InvType /\ q.pc = "planning" /\ q.diagnosed = "no" /\ q.asked = "ok"
      BY <1>0, <1>3, PlannedKeeps DEF PlanReturned, At
    <2>3. /\ old.asked = "no" /\ old.diagnosed = "no"
          /\ \A s \in Outcomes : Positions(old, s) = {}
      BY <1>0, <1>3 DEF PlanReturned, At, Consistent, Positions
    <2>4. Trace("plan", "ok" = "ok")
      BY <1>3 DEF PlanReturned, Trace
    <2>5. inv' = [inv EXCEPT ![i] = Dispatch(q, p)]
      BY <2>1
    <2> HIDE DEF q
    <2>6. /\ Dispatch(q, p).asked = "ok" /\ Dispatch(q, p).diagnosed = "no"
          /\ \A s \in Outcomes : Positions(Dispatch(q, p), s) = {}
      BY <2>1, <2>2, DispatchKeeps DEF Outcomes
    <2> QED BY <2>3, <2>4, <2>5, <2>6, PlanRecorded DEF Outcomes
  <1>4. CASE RunOtherPlan(i)
    <2>1. PICK p \in Plans : inv' = [inv EXCEPT ![i] = Dispatch(old, p)]
      BY <1>4 DEF RunOtherPlan
    <2>2. /\ old.asked = "no" /\ old.diagnosed = "no" /\ ~ old.planned /\ old.pc = "new"
          /\ \A s \in Outcomes : Positions(old, s) = {}
      BY <1>0, <1>4 DEF RunOtherPlan, At, Consistent, Positions
    <2>3. /\ Dispatch(old, p).asked = "no" /\ Dispatch(old, p).diagnosed = "no"
          /\ \A s \in Outcomes : Positions(Dispatch(old, p), s) = {}
      BY <1>0, <2>2, DispatchKeeps DEF Outcomes
    <2>4. Shown(Dispatch(old, p)) = Shown(old)
      BY <2>2, <2>3 DEF Shown, Outcomes
    <2> QED BY <1>4, <2>1, <2>4, MovesUnrecorded DEF RunOtherPlan
  <1>5. ASSUME NEW k \in DOMAIN old.worker, CallTool(i, k) PROVE TraceInv'
    <2>1. At(i, "running") /\ old.worker[k] = "todo"
      BY <1>5 DEF CallTool, Worker
    <2>2. CASE IsPermitted(Subtasks(i)[k].tool)
      <3>0. SetWorker(i, k, "calling") /\ "calling" \in WorkerStates
        BY <1>5, <2>2 DEF CallTool, WorkerStates
      <3>1. PICK r \in InvType :
                /\ r.asked = old.asked /\ r.diagnosed = old.diagnosed
                /\ r.worker = [old.worker EXCEPT ![k] = "calling"]
                /\ inv' = [inv EXCEPT ![i] = r]
        BY <1>5, <2>1, <3>0, WorkerMoves
      <3>2. Shown(r) = Shown(old)
        BY <2>1, <3>1 DEF Shown, Positions
      <3> QED BY <1>5, <2>2, <3>1, <3>2, MovesUnrecorded DEF CallTool
    <2>3. CASE ~ IsPermitted(Subtasks(i)[k].tool)
      <3>0. SetWorker(i, k, "failed") /\ "failed" \in WorkerStates
        BY <1>5, <2>3 DEF CallTool, WorkerStates
      <3>1. PICK r \in InvType :
                /\ r.asked = old.asked /\ r.diagnosed = old.diagnosed
                /\ r.worker = [old.worker EXCEPT ![k] = "failed"]
                /\ inv' = [inv EXCEPT ![i] = r]
        BY <1>5, <2>1, <3>0, WorkerMoves
      <3>2. Trace("retrieval", "failed" = "ok")
        BY <1>5, <2>3 DEF CallTool, Trace
      <3> QED BY <2>1, <3>1, <3>2, RetrievalRecorded DEF Outcomes
    <2> QED BY <2>2, <2>3
  <1>6. ASSUME NEW k \in DOMAIN old.worker, WorkerEnds(i, k) PROVE TraceInv'
    <2>1. PICK ok \in BOOLEAN :
              SetWorker(i, k, IF ok THEN "ok" ELSE "failed") /\ Trace("retrieval", ok)
      BY <1>6 DEF WorkerEnds
    <2> DEFINE o == IF ok THEN "ok" ELSE "failed"
    <2>2. At(i, "running") /\ old.worker[k] = "calling"
      BY <1>6 DEF WorkerEnds, Worker
    <2>3. o \in WorkerStates /\ o \in Outcomes /\ (o = "ok") = ok
      BY DEF WorkerStates, Outcomes
    <2>4. PICK r \in InvType :
              /\ r.asked = old.asked /\ r.diagnosed = old.diagnosed
              /\ r.worker = [old.worker EXCEPT ![k] = o]
              /\ inv' = [inv EXCEPT ![i] = r]
      BY <2>1, <2>2, <2>3, WorkerMoves
    <2>5. Trace("retrieval", o = "ok")
      BY <2>1, <2>3 DEF Trace
    <2> HIDE DEF o
    <2> QED BY <2>2, <2>3, <2>4, <2>5, RetrievalRecorded DEF Outcomes
  <1>7. CASE Collect(i)
    <2>1. Shown([old EXCEPT !.pc = "failed"]) = Shown(old)
      BY <1>0 DEF Shown, Positions, InvType
    <2> DEFINE r == [old EXCEPT !.pc = "diagnosing", !.results = Those(i, "ok"),
                                !.partial = Those(i, "failed") # {}]
    <2>2. Shown(r) = Shown(old)
      BY <1>0 DEF Shown, Positions, InvType
    <2>3. \/ inv' = [inv EXCEPT ![i] = [old EXCEPT !.pc = "failed"]]
          \/ inv' = [inv EXCEPT ![i] = r]
      BY <1>7 DEF Collect
    <2>4. UNCHANGED trace
      BY <1>7 DEF Collect
    <2> HIDE DEF r
    <2> QED BY <2>1, <2>2, <2>3, <2>4, MovesUnrecorded
  <1>8. CASE Diagnose(i)
    <2>1. PICK ok \in BOOLEAN :
              /\ inv' = [inv EXCEPT ![i].pc = IF ok THEN "rendered" ELSE "failed",
                                    ![i].diagnosed = IF ok THEN "ok" ELSE "failed"]
              /\ Trace("diagnosis", ok)
      BY <1>8 DEF Diagnose
    <2> DEFINE o == IF ok THEN "ok" ELSE "failed"
               r == [old EXCEPT !.pc = IF ok THEN "rendered" ELSE "failed", !.diagnosed = o]
    <2>2. o \in Outcomes /\ (o = "ok") = ok
      BY DEF Outcomes
    <2>3. /\ r.diagnosed = o /\ r.asked = old.asked /\ r.worker = old.worker
          /\ old.diagnosed = "no"
      BY <1>0, <1>8 DEF Diagnose, At, Consistent, InvType
    <2>4. inv' = [inv EXCEPT ![i] = r] /\ Trace("diagnosis", o = "ok")
      BY <2>1, <2>2 DEF Trace
    <2> HIDE DEF o, r
    <2> QED BY <2>2, <2>3, <2>4, DiagnosisRecorded
  <1>9. CASE Cancel(i)
    <2> DEFINE w == [k \in DOMAIN old.worker |->
                        IF old.worker[k] \in {"ok", "failed"} THEN old.worker[k] ELSE "cancelled"]
               r == [old EXCEPT !.pc = "cancelled", !.worker = w]
    <2>1. r.asked = old.asked /\ r.diagnosed = old.diagnosed /\ r.worker = w
      BY <1>0 DEF InvType
    <2>2. Shown(r) = Shown(old)
      BY <2>1 DEF Shown, Positions
    <2>3. inv' = [inv EXCEPT ![i] = r] /\ UNCHANGED trace
      BY <1>9 DEF Cancel
    <2> HIDE DEF r
    <2> QED BY <2>2, <2>3, MovesUnrecorded
  <1> QED BY <1>1, <1>2, <1>3, <1>4, <1>5, <1>6, <1>7, <1>8, <1>9 DEF Work

LEMMA TInit == Init => TraceInv
  <1> SUFFICES ASSUME Init, NEW step \in Steps, NEW o \in Outcomes
               PROVE  /\ IsFiniteSet(Done(step, o))
                      /\ Cardinality(Done(step, o)) = trace[<<step, o = "ok">>]
    BY DEF TraceInv
  <1>1. \A i \in Investigations :
            inv[i].asked = "no" /\ inv[i].diagnosed = "no" /\ Positions(inv[i], o) = {}
    BY DEF Init, Fresh, Positions
  <1>2. Retrieved(o) = {}
    BY <1>1, RetrievedIs
  <1>3. Done(step, o) = {}
    BY <1>1, <1>2 DEF Done, Steps, Outcomes
  <1>4. trace[<<step, o = "ok">>] = 0
    BY DEF Init
  <1> QED BY <1>3, <1>4, FS_EmptySet

LEMMA TNext == IInv /\ TraceInv /\ [Next]_vars => TraceInv'
  <1> SUFFICES ASSUME IInv, TraceInv, [Next]_vars PROVE TraceInv'
    OBVIOUS
  <1>1. CASE UNCHANGED vars
    <2>1. \A i \in Investigations : Shown(inv[i])' = Shown(inv[i])
      BY <1>1 DEF vars, Shown, Positions
    <2> QED BY <1>1, <2>1, DoneLasts, NotRecorded DEF vars
  <1> QED BY <1>1, TStep DEF Next

(* Every planning, retrieval and diagnosis that ended is in the trace once,*)
(* with its outcome (TraceIsComplete), for every number of investigations. *)
THEOREM TraceHolds == Spec => []TraceIsComplete
  <1>1. TraceInv => TraceIsComplete
    <2> SUFFICES ASSUME TraceInv PROVE TraceIsComplete
      OBVIOUS
    <2>1. \A step \in Steps, o \in Outcomes :
              Cardinality(Done(step, o)) = trace[<<step, o = "ok">>]
      BY DEF TraceInv
    <2>2. \A step \in Steps :
              /\ Cardinality(Done(step, "ok")) = trace[<<step, TRUE>>]
              /\ Cardinality(Done(step, "failed")) = trace[<<step, FALSE>>]
      BY <2>1 DEF Outcomes
    <2>3. /\ Cardinality(Done("plan", "ok")) = trace[<<"plan", TRUE>>]
          /\ Cardinality(Done("plan", "failed")) = trace[<<"plan", FALSE>>]
          /\ Cardinality(Done("retrieval", "ok")) = trace[<<"retrieval", TRUE>>]
          /\ Cardinality(Done("retrieval", "failed")) = trace[<<"retrieval", FALSE>>]
          /\ Cardinality(Done("diagnosis", "ok")) = trace[<<"diagnosis", TRUE>>]
          /\ Cardinality(Done("diagnosis", "failed")) = trace[<<"diagnosis", FALSE>>]
      BY <2>2 DEF Steps
    <2> QED BY <2>3 DEF Done, TraceIsComplete, Asked, Diagnosed
  <1> QED BY <1>1, IInit, INext, TInit, TNext, PTL DEF Spec
=============================================================================
