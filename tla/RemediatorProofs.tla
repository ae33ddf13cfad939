-------------------------- MODULE RemediatorProofs --------------------------
(***************************************************************************)
(* Proofs about Remediator, for every set of callers, every registry and   *)
(* every set of requests.                                                  *)
(***************************************************************************)
EXTENDS Remediator, TLAPS

(* Appending to the ledger and marking an entry keep it a sequence of      *)
(* entries, whatever is evicted.                                           *)
LEMMA RecordType ==
    ASSUME NEW S, NEW q \in Seq(S), NEW e \in S
    PROVE  Record(q, e) \in Seq(S)
  <1>1. CASE Len(q) < Capacity
    BY <1>1 DEF Record
  <1>2. CASE ~ Len(q) < Capacity
    <2>1. q # << >>
      BY <1>2, CapacityAssumption
    <2>2. Tail(q) \in Seq(S)
      BY <2>1
    <2> QED BY <1>2, <2>2 DEF Record
  <1> QED BY <1>1, <1>2

LEMMA MarkType ==
    ASSUME NEW q \in Seq(EntryType), NEW id
    PROVE  /\ MarkTerminal(q, id) \in Seq(EntryType)
           /\ MarkRolledBack(q, id) \in Seq(EntryType)
  <1>1. \A i \in 1 .. Len(q) : q[i] \in EntryType
    OBVIOUS
  <1>2. DOMAIN q = 1 .. Len(q) /\ Len(q) \in Nat
    OBVIOUS
  <1>3. MarkTerminal(q, id) \in [1 .. Len(q) -> EntryType]
    BY <1>1, <1>2 DEF MarkTerminal, EntryType
  <1>4. MarkRolledBack(q, id) \in [1 .. Len(q) -> EntryType]
    BY <1>1, <1>2 DEF MarkRolledBack, EntryType
  <1> QED BY <1>2, <1>3, <1>4

-----------------------------------------------------------------------------
(* Type correctness needs the nesting discipline: the fields of a ledger   *)
(* entry come from the running frame and its context.                      *)
IInv == TypeOK /\ StackOK

LEMMA DepthFacts ==
    /\ Depths = {0, 1, 2}
    /\ MaxRollbackDepth = 1
  BY DEF Depths, MaxRollbackDepth

LEMMA IdleFrameType == IdleFrame \in FrameType
  BY DEF IdleFrame, FrameType, Points, Tiers, REVERSIBLE, IRREVERSIBLE

LEMMA RequestFacts ==
    ASSUME NEW r \in Requests
    PROVE  /\ r \in RequestType
           /\ r.action \in Actions /\ r.tenant \in Tenants
           /\ r.dep \in Deployments /\ r.delta \in Int /\ r.cap \in Nat
           /\ r.maxAge \in Nat /\ r.window \in Nat
  BY RequestsAssumption DEF RequestType

(* The initial states satisfy the invariant.                               *)
LEMMA InitInv == Init => IInv
  <1> SUFFICES ASSUME Init PROVE IInv
    OBVIOUS
  <1>1. NoFrames \in [Depths -> FrameType]
    BY IdleFrameType DEF NoFrames
  <1>2. TypeOK
    <2>1. replicas \in [Deployments -> Nat]
      BY ParametersAssumption DEF Init
    <2>2. ledger \in Seq(EntryType) /\ audit \in Seq(EventType)
      BY DEF Init
    <2>3. frame \in [Callers -> [Depths -> FrameType]]
      BY <1>1 DEF Init
    <2>4. /\ now \in Nat
          /\ ctx \in [Callers -> ContextType \cup {NoContext}]
          /\ top \in [Callers -> Depths \cup {-1}]
          /\ issued \in [Callers -> Nat]
          /\ writes \subseteq WriteType /\ raised \subseteq Ids
      BY DEF Init
    <2> QED BY <2>1, <2>2, <2>3, <2>4 DEF TypeOK
  <1>3. StackOK
    BY DEF Init, StackOK, FrameOK, NoFrames, IdleFrame, Depths, MaxRollbackDepth
  <1> QED BY <1>2, <1>3 DEF IInv

(* The running frame moves on and keeps its identity.                      *)
LEMMA StepInv ==
    ASSUME IInv,
           NEW c \in Callers, top[c] >= 0,
           NEW r \in FrameType, Step(c, r),
           UNCHANGED <<ctx, top, issued>>,
           r.n = F(c).n, r.action = F(c).action,
           r.pc \notin {"idle", "nested"},
           r.pc = "close" => r.outcome \in Executed,
           r.pc = "emit" => r.outcome \in Outcomes,
           top[c] > MaxRollbackDepth => r.pc \in {"bounds", "emit"}
    PROVE  /\ frame' \in [Callers -> [Depths -> FrameType]]
           /\ StackOK'
  <1>1. top[c] \in Depths
    BY DEF IInv, TypeOK
  <1>2. frame' \in [Callers -> [Depths -> FrameType]]
    BY <1>1 DEF IInv, TypeOK, Step
  <1>3. ASSUME NEW b \in Callers, NEW d \in Depths
        PROVE  frame'[b][d] = IF b = c /\ d = top[c] THEN r ELSE frame[b][d]
    BY <1>1 DEF IInv, TypeOK, Step
  <1>4. ASSUME NEW b \in Callers, NEW d \in Depths
        PROVE  FrameOK(b, d)'
    <2>1. FrameOK(b, d)
      BY DEF IInv, StackOK
    <2> QED BY <1>1, <1>3, <2>1, DepthFacts DEF IInv, TypeOK, FrameOK, F
  <1>5. ASSUME NEW b \in Callers
        PROVE  (top[b] >= 0 => ctx[b] \in ContextType)'
    BY DEF IInv, StackOK
  <1> QED BY <1>2, <1>4, <1>5 DEF StackOK

(* What is known of the running frame.                                     *)
LEMMA RunningFacts ==
    ASSUME IInv, NEW c \in Callers, top[c] >= 0
    PROVE  /\ top[c] \in Depths
           /\ F(c) \in FrameType
           /\ F(c).action \in Actions
           /\ F(c).n \in 1 .. issued[c]
           /\ Id(c, top[c]) \in Ids
           /\ ctx[c] \in ContextType
           /\ Req(c) \in Requests
           /\ F(c).pc \notin {"idle", "nested"}
           /\ F(c).pc = "close" => F(c).outcome \in Executed
           /\ F(c).pc = "emit" => F(c).outcome \in Outcomes
           /\ top[c] > MaxRollbackDepth => F(c).pc \in {"bounds", "emit"}
           /\ Class(c) \in Classes
  <1>1. top[c] \in Depths /\ F(c) \in FrameType /\ issued[c] \in Nat
    <2>1. top[c] \in Depths \cup {-1} /\ issued[c] \in Nat
      BY DEF IInv, TypeOK
    <2>2. top[c] \in Depths
      BY <2>1
    <2>3. frame[c][top[c]] \in FrameType
      BY <2>2 DEF IInv, TypeOK
    <2> QED BY <2>1, <2>2, <2>3 DEF F
  <1>2. FrameOK(c, top[c])
    BY <1>1 DEF IInv, StackOK
  <1>3. F(c).action \in Actions /\ F(c).n \in 1 .. issued[c]
    BY <1>1, <1>2, DepthFacts DEF FrameOK, F
  <1>4. F(c).n \in Nat \ {0}
    BY <1>1, <1>3
  <1>5. Id(c, top[c]) \in Ids
    BY <1>4 DEF Id, Ids, F
  <1>6. ctx[c] \in ContextType /\ Req(c) \in Requests
    BY DEF IInv, StackOK, Req, ContextType
  <1>7. Class(c) \in Classes
    BY <1>3, RegistryAssumption DEF Class
  <1> QED BY <1>1, <1>2, <1>3, <1>5, <1>6, <1>7, DepthFacts DEF FrameOK, F

(* A frame that only changes its program point.                            *)
LEMMA GotoInv ==
    ASSUME IInv, NEW c \in Callers, top[c] >= 0,
           NEW p \in Points \ {"idle", "nested", "close"}, Goto(c, p),
           p = "emit" => F(c).outcome \in Outcomes,
           UNCHANGED <<ctx, top, issued>>,
           top[c] <= MaxRollbackDepth
    PROVE  /\ frame' \in [Callers -> [Depths -> FrameType]]
           /\ StackOK'
  <1> DEFINE r == [F(c) EXCEPT !.pc = p]
  <1>1. F(c) \in FrameType
    BY RunningFacts
  <1>2. r \in FrameType
    BY <1>1 DEF FrameType
  <1>3. r.n = F(c).n /\ r.action = F(c).action /\ r.pc = p /\ r.outcome = F(c).outcome
    BY <1>1 DEF FrameType
  <1>4. Step(c, r)
    BY DEF Goto
  <1>5. ~ (top[c] > MaxRollbackDepth)
    BY RunningFacts, DepthFacts
  <1> HIDE DEF r
  <1> QED BY <1>2, <1>3, <1>4, <1>5, StepInv

(* A frame that settles on an outcome.                                     *)
LEMMA SettleInv ==
    ASSUME IInv, NEW c \in Callers, top[c] >= 0,
           NEW p \in {"close", "emit"}, NEW o \in Outcomes, Settle(c, p, o),
           p = "close" => o \in Executed,
           UNCHANGED <<ctx, top, issued>>,
           top[c] > MaxRollbackDepth => p = "emit"
    PROVE  /\ frame' \in [Callers -> [Depths -> FrameType]]
           /\ StackOK'
  <1> DEFINE r == [F(c) EXCEPT !.pc = p, !.outcome = o]
  <1>1. F(c) \in FrameType
    BY RunningFacts
  <1>2. r \in FrameType
    BY <1>1 DEF FrameType, Points
  <1>3. r.n = F(c).n /\ r.action = F(c).action /\ r.pc = p /\ r.outcome = o
    BY <1>1 DEF FrameType
  <1>4. Step(c, r)
    BY DEF Settle
  <1> HIDE DEF r
  <1> QED BY <1>2, <1>3, <1>4, StepInv

(* A new frame is pushed, at depth 0 or below a frame that waits for it.   *)
LEMMA PushInv ==
    ASSUME IInv, NEW c \in Callers, NEW a \in Actions,
           top[c] <= MaxRollbackDepth,
           top' = [top EXCEPT ![c] = @ + 1],
           issued' = [issued EXCEPT ![c] = @ + 1],
           \A b \in Callers : (top[b] >= 0 => ctx[b] \in ContextType)',
           \A d \in Depths : d = top[c] + 1 => frame'[c][d] = NewFrame(c, a),
           \A d \in Depths : d = top[c] =>
                /\ frame'[c][d].pc = "nested"
                /\ frame'[c][d].n = frame[c][d].n
                /\ frame'[c][d].action = frame[c][d].action,
           \A b \in Callers, d \in Depths :
                b # c \/ (d # top[c] /\ d # top[c] + 1) => frame'[b][d] = frame[b][d]
    PROVE  StackOK'
  <1>1. top[c] \in Depths \cup {-1} /\ issued[c] \in Nat
    BY DEF IInv, TypeOK
  <1>2. \A b \in Callers : /\ top'[b] = IF b = c THEN top[c] + 1 ELSE top[b]
                           /\ issued'[b] = IF b = c THEN issued[c] + 1 ELSE issued[b]
    BY DEF IInv, TypeOK
  <1>3. /\ NewFrame(c, a).pc = "bounds" /\ NewFrame(c, a).n = issued[c] + 1
        /\ NewFrame(c, a).action = a
    BY DEF NewFrame, IdleFrame
  <1>4. ASSUME NEW b \in Callers, NEW d \in Depths PROVE FrameOK(b, d)'
    <2>1. \A e \in Depths : FrameOK(b, e) /\ frame[b][e] \in FrameType
      BY DEF IInv, StackOK, TypeOK
    <2>2. top[b] \in Depths \cup {-1} /\ issued[b] \in Nat
      BY DEF IInv, TypeOK
    <2>3. CASE b # c
      BY <1>2, <2>1, <2>2, <2>3 DEF FrameOK
    <2>4. CASE b = c /\ d = top[c] + 1
      BY <1>1, <1>2, <1>3, <2>4, DepthFacts DEF FrameOK
    <2>5. CASE b = c /\ d = top[c]
      <3>2. /\ frame'[b][d].pc = "nested"
            /\ frame'[b][d].n = frame[b][d].n
            /\ frame'[b][d].action = frame[b][d].action
        BY <2>5
      <3> QED BY <1>1, <1>2, <1>3, <2>1, <2>5, <3>2, DepthFacts DEF FrameOK
    <2>6. CASE b = c /\ d # top[c] /\ d # top[c] + 1
      <3>1. frame'[b][d] = frame[b][d]
        BY <2>6
      <3>2. \A e \in Depths : frame[b][d].n < frame[b][e].n \/ ~ (d < e /\ e <= top[c])
        BY <2>1, <2>6 DEF FrameOK
      <3>3. d < top[c] => frame[b][d].n < issued[c] + 1
        BY <1>1, <2>1, <2>6, DepthFacts DEF FrameOK
      <3>4. ASSUME NEW e \in Depths, d < e, e <= top[c] + 1
            PROVE  frame'[b][d].n < frame'[b][e].n
        <4>1. CASE e = top[c] + 1
          <5>1. frame'[b][e].n = issued[c] + 1
            BY <4>1, <1>3, <2>6
          <5>2. d < top[c]
            BY <4>1, <1>1, <2>6, <3>4, DepthFacts
          <5>3. frame[b][d].n < issued[c] + 1
            BY <5>2, <3>3
          <5>4. frame'[b][d].n = frame[b][d].n
            BY <3>1
          <5> HIDE <3>3
          <5> QED BY <5>1, <5>3, <5>4, SMT
        <4>2. CASE e = top[c]
          <5>1. frame'[b][e].n = frame[b][e].n
            BY <4>2, <2>6
          <5>2. e <= top[c]
            BY <4>2, DepthFacts
          <5>3. frame[b][d].n < frame[b][e].n
            BY <5>2, <3>2, <3>4
          <5> QED BY <5>1, <5>3, <3>1
        <4>3. CASE e < top[c]
          BY <4>3, <2>6, <3>1, <3>2, <3>4, <1>1, DepthFacts
        <4> QED BY <4>1, <4>2, <4>3, <3>4, <1>1, DepthFacts
      <3> QED BY <1>1, <1>2, <2>1, <2>6, <3>1, <3>4, DepthFacts DEF FrameOK
    <2> QED BY <2>3, <2>4, <2>5, <2>6
  <1> QED BY <1>4 DEF StackOK

(* A call ends: its whole stack is cleared.                                *)
LEMMA ClearInv ==
    ASSUME IInv, NEW c \in Callers,
           top' = [top EXCEPT ![c] = -1],
           frame' = [frame EXCEPT ![c] = NoFrames],
           ctx' = [ctx EXCEPT ![c] = NoContext],
           UNCHANGED issued
    PROVE  /\ frame' \in [Callers -> [Depths -> FrameType]]
           /\ top' \in [Callers -> Depths \cup {-1}]
           /\ ctx' \in [Callers -> ContextType \cup {NoContext}]
           /\ StackOK'
  <1>1. NoFrames \in [Depths -> FrameType]
    BY IdleFrameType DEF NoFrames
  <1>2. \A d \in Depths : NoFrames[d].pc = "idle" /\ NoFrames[d].n = 0
    BY DEF NoFrames, IdleFrame
  <1>3. /\ frame' \in [Callers -> [Depths -> FrameType]]
        /\ top' \in [Callers -> Depths \cup {-1}]
        /\ ctx' \in [Callers -> ContextType \cup {NoContext}]
    BY <1>1 DEF IInv, TypeOK
  <1>4. ASSUME NEW b \in Callers, NEW d \in Depths PROVE FrameOK(b, d)'
    <2>1. FrameOK(b, d)
      BY DEF IInv, StackOK
    <2>2. CASE b = c
      BY <1>2, <2>2, DepthFacts DEF FrameOK, IInv, TypeOK
    <2>3. CASE b # c
      BY <2>1, <2>3 DEF FrameOK, IInv, TypeOK
    <2> QED BY <2>2, <2>3
  <1>5. \A b \in Callers : (top[b] >= 0 => ctx[b] \in ContextType)'
    BY DEF IInv, TypeOK, StackOK
  <1> QED BY <1>3, <1>4, <1>5 DEF StackOK

-----------------------------------------------------------------------------
(* One lemma per action of the running frame, for what it leaves to show.  *)

(* What most actions leave alone.                                          *)
Quiet == UNCHANGED <<now, ledger, replicas, audit, writes, raised>>

LEMMA QuietInv ==
    ASSUME IInv, Quiet, StackOK',
           frame' \in [Callers -> [Depths -> FrameType]],
           top' \in [Callers -> Depths \cup {-1}],
           ctx' \in [Callers -> ContextType \cup {NoContext}],
           issued' \in [Callers -> Nat]
    PROVE  IInv'
  BY DEF IInv, TypeOK, Quiet

LEMMA NewFrameType ==
    ASSUME IInv, NEW c \in Callers, NEW a \in Actions
    PROVE  NewFrame(c, a) \in FrameType
  <1>1. issued[c] + 1 \in Nat
    BY DEF IInv, TypeOK
  <1> QED BY <1>1, IdleFrameType DEF NewFrame, FrameType, Points

LEMMA StartInv ==
    ASSUME IInv, NEW c \in Callers, Start(c)
    PROVE  IInv'
  <1>1. PICK r \in Requests :
            /\ ctx' = [ctx EXCEPT ![c] = [req |-> r, started |-> now]]
            /\ frame' = [frame EXCEPT ![c][0] = NewFrame(c, r.action)]
    BY DEF Start, Call
  <1>2. /\ top[c] = -1 /\ top' = [top EXCEPT ![c] = 0]
        /\ issued' = [issued EXCEPT ![c] = @ + 1]
        /\ Quiet
    BY DEF Start, Call, Quiet
  <1>3. [req |-> r, started |-> now] \in ContextType /\ r.action \in Actions
    BY RequestFacts DEF ContextType, IInv, TypeOK
  <1>4. NewFrame(c, r.action) \in FrameType
    BY <1>3, NewFrameType
  <1>5. /\ frame' \in [Callers -> [Depths -> FrameType]]
        /\ top' \in [Callers -> Depths \cup {-1}]
        /\ ctx' \in [Callers -> ContextType \cup {NoContext}]
        /\ issued' \in [Callers -> Nat]
    BY <1>1, <1>2, <1>3, <1>4, DepthFacts DEF IInv, TypeOK
  <1>6. StackOK'
    <2>1. \A b \in Callers, d \in Depths :
            frame'[b][d] = IF b = c /\ d = 0 THEN NewFrame(c, r.action) ELSE frame[b][d]
      BY <1>1, DepthFacts DEF IInv, TypeOK
    <2>2. \A b \in Callers : (top[b] >= 0 => ctx[b] \in ContextType)'
      BY <1>1, <1>2, <1>3 DEF IInv, TypeOK, StackOK
    <2>3. top' = [top EXCEPT ![c] = @ + 1]
      BY <1>2 DEF IInv, TypeOK
    <2>4. top[c] + 1 = 0 /\ top[c] <= MaxRollbackDepth /\ top[c] \notin Depths
      BY <1>2, DepthFacts
    <2>5. issued' = [issued EXCEPT ![c] = @ + 1]
      BY <1>2
    <2>6. /\ \A d \in Depths : d = top[c] + 1 => frame'[c][d] = NewFrame(c, r.action)
          /\ \A b \in Callers, d \in Depths :
                b # c \/ (d # top[c] /\ d # top[c] + 1) => frame'[b][d] = frame[b][d]
      BY <2>1, <2>4
    <2> HIDE <1>1
    <2> QED BY <1>3, <2>2, <2>3, <2>4, <2>5, <2>6, PushInv
  <1> QED BY <1>2, <1>5, <1>6, QuietInv

LEMMA CheckBoundsInv ==
    ASSUME IInv, NEW c \in Callers, CheckBounds(c)
    PROVE  IInv'
  <1>1. /\ top[c] >= 0 /\ Quiet /\ UNCHANGED <<ctx, top, issued>>
        /\ top' \in [Callers -> Depths \cup {-1}]
        /\ ctx' \in [Callers -> ContextType \cup {NoContext}]
        /\ issued' \in [Callers -> Nat]
    BY DEF CheckBounds, At, Quiet, IInv, TypeOK
  <1>2. StackOK' /\ frame' \in [Callers -> [Depths -> FrameType]]
    <2>1. CASE BoundsRefuse(c)
      BY <1>1, <2>1, SettleInv DEF CheckBounds, Outcomes, Untouched
    <2>2. CASE ~ BoundsRefuse(c)
      <3>1. top[c] <= MaxRollbackDepth
        BY <1>1, <2>2, RunningFacts, DepthFacts DEF BoundsRefuse, TooDeep
      <3> QED BY <1>1, <2>2, <3>1, GotoInv DEF CheckBounds, Points
    <2> QED BY <2>1, <2>2
  <1> QED BY <1>1, <1>2, QuietInv

LEMMA InspectInv ==
    ASSUME IInv, NEW c \in Callers, Inspect(c)
    PROVE  IInv'
  <1>1. /\ top[c] >= 0 /\ Quiet /\ UNCHANGED <<ctx, top, issued>>
        /\ top' \in [Callers -> Depths \cup {-1}]
        /\ ctx' \in [Callers -> ContextType \cup {NoContext}]
        /\ issued' \in [Callers -> Nat]
    BY DEF Inspect, At, Quiet, IInv, TypeOK
  <1>2. PICK age \in RevisionAges :
            Step(c, [F(c) EXCEPT !.pc = "gate", !.age = age,
                        !.tier = Adjust(Baseline(Class(c)), Site(c, age))])
    BY DEF Inspect
  <1> DEFINE t == Adjust(Baseline(Class(c)), Site(c, age))
             r == [F(c) EXCEPT !.pc = "gate", !.age = age, !.tier = t]
  <1>3. t \in Tiers
    <2>1. Baseline(Class(c)) \in Tiers
      BY <1>1, RunningFacts
      DEF Baseline, Classes, Tiers, REVERSIBLE, RECOVERABLE, IRREVERSIBLE
    <2> QED BY <2>1
         DEF Adjust, HigherTier, Tiers, REVERSIBLE, RECOVERABLE, IRREVERSIBLE
  <1>4. F(c) \in FrameType /\ age \in Nat
    BY <1>1, RunningFacts, ParametersAssumption
  <1> HIDE DEF t
  <1>5. /\ r \in FrameType
        /\ r.n = F(c).n /\ r.action = F(c).action /\ r.pc = "gate"
    BY <1>3, <1>4 DEF FrameType, Points
  <1>6. Step(c, r)
    BY <1>2 DEF t
  <1>7. top[c] <= MaxRollbackDepth
    BY <1>1, RunningFacts, DepthFacts DEF Inspect, At
  <1>8. ~ (top[c] > MaxRollbackDepth)
    BY <1>1, <1>7, RunningFacts, DepthFacts
  <1> HIDE DEF r
  <1>9. StackOK' /\ frame' \in [Callers -> [Depths -> FrameType]]
    BY <1>1, <1>5, <1>6, <1>8, StepInv
  <1> QED BY <1>1, <1>9, QuietInv

LEMMA EntryTyped ==
    ASSUME IInv, NEW c \in Callers, top[c] >= 0
    PROVE  NewEntry(c) \in EntryType
  BY RunningFacts, RequestFacts DEF NewEntry, EntryType, IInv, TypeOK

LEMMA WriteTyped ==
    ASSUME IInv, NEW c \in Callers, top[c] >= 0, NEW m \in Nat, NEW n \in Nat
    PROVE  NewWrite(c, m, n) \in WriteType
  <1>1. F(c).age \in Nat
    BY RunningFacts DEF FrameType
  <1> QED BY <1>1, RunningFacts, RequestFacts DEF NewWrite, WriteType

(* Below the depth limit, for every action past the bounds check.          *)
LEMMA NotTooDeep ==
    ASSUME IInv, NEW c \in Callers, top[c] >= 0, F(c).pc \notin {"bounds", "emit"}
    PROVE  top[c] <= MaxRollbackDepth /\ ~ (top[c] > MaxRollbackDepth)
  BY RunningFacts, DepthFacts

LEMMA GateInv ==
    ASSUME IInv, NEW c \in Callers, Gate(c)
    PROVE  IInv'
  <1>1. /\ top[c] >= 0 /\ F(c).pc = "gate"
        /\ UNCHANGED <<now, replicas, audit, writes, raised, ctx, top, issued>>
    BY DEF Gate, At
  <1>2. top[c] <= MaxRollbackDepth
    BY <1>1, NotTooDeep
  <1>3. CASE ~ Proceeds(F(c).tier, Ceiling(c))
    <2>1. Settle(c, "emit", "refused_human_required") /\ UNCHANGED ledger
      BY <1>3 DEF Gate
    <2>2. StackOK' /\ frame' \in [Callers -> [Depths -> FrameType]]
      BY <1>1, <2>1, SettleInv DEF Outcomes, Untouched
    <2> QED BY <1>1, <2>1, <2>2 DEF IInv, TypeOK
  <1>4. CASE Proceeds(F(c).tier, Ceiling(c)) /\ Req(c).dryRun
    <2>1. Settle(c, "emit", "dry_run_ok") /\ UNCHANGED ledger
      BY <1>4 DEF Gate
    <2>2. StackOK' /\ frame' \in [Callers -> [Depths -> FrameType]]
      BY <1>1, <2>1, SettleInv DEF Outcomes, Untouched
    <2> QED BY <1>1, <2>1, <2>2 DEF IInv, TypeOK
  <1>5. CASE Proceeds(F(c).tier, Ceiling(c)) /\ ~ Req(c).dryRun
    <2>1. Goto(c, "act") /\ ledger' = Record(ledger, NewEntry(c))
      BY <1>5 DEF Gate
    <2>2. StackOK' /\ frame' \in [Callers -> [Depths -> FrameType]]
      BY <1>1, <1>2, <2>1, GotoInv DEF Points
    <2>3. ledger' \in Seq(EntryType)
      BY <1>1, <2>1, EntryTyped, RecordType DEF IInv, TypeOK
    <2> QED BY <1>1, <2>2, <2>3 DEF IInv, TypeOK
  <1> QED BY <1>3, <1>4, <1>5

LEMMA ReplicasTyped ==
    ASSUME IInv, NEW c \in Callers, top[c] >= 0
    PROVE  Req(c).dep \in Deployments /\ replicas[Req(c).dep] \in Nat
  BY RunningFacts, RequestFacts DEF IInv, TypeOK

LEMMA PatchInv ==
    ASSUME IInv, NEW c \in Callers, Patch(c)
    PROVE  IInv'
  <1> DEFINE r == replicas[Req(c).dep]
  <1>1. /\ top[c] >= 0 /\ F(c).pc = "act" /\ Goto(c, "poll")
        /\ writes' = writes \cup {NewWrite(c, r, r)}
        /\ UNCHANGED <<now, ledger, replicas, audit, raised, ctx, top, issued>>
    BY DEF Patch, At
  <1>2. StackOK' /\ frame' \in [Callers -> [Depths -> FrameType]]
    BY <1>1, NotTooDeep, GotoInv DEF Points
  <1>3. writes' \subseteq WriteType
    BY <1>1, ReplicasTyped, WriteTyped DEF IInv, TypeOK
  <1> QED BY <1>1, <1>2, <1>3 DEF IInv, TypeOK

LEMMA ReadReplicasInv ==
    ASSUME IInv, NEW c \in Callers, ReadReplicas(c)
    PROVE  IInv'
  <1> DEFINE r == replicas[Req(c).dep]
  <1>1. /\ top[c] >= 0 /\ F(c).pc = "act" /\ Quiet
        /\ UNCHANGED <<ctx, top, issued>>
        /\ top' \in [Callers -> Depths \cup {-1}]
        /\ ctx' \in [Callers -> ContextType \cup {NoContext}]
        /\ issued' \in [Callers -> Nat]
    BY DEF ReadReplicas, At, Quiet, IInv, TypeOK
  <1>2. /\ r \in Nat /\ Req(c).delta \in Int /\ Req(c).cap \in Nat
        /\ F(c) \in FrameType
    BY <1>1, ReplicasTyped, RunningFacts, RequestFacts
  <1>3. ASSUME NEW t \in Nat,
               Step(c, [F(c) EXCEPT !.pc = "write", !.from = r, !.target = t])
        PROVE  StackOK' /\ frame' \in [Callers -> [Depths -> FrameType]]
    <2> DEFINE f == [F(c) EXCEPT !.pc = "write", !.from = r, !.target = t]
    <2>1. /\ f \in FrameType
          /\ f.n = F(c).n /\ f.action = F(c).action /\ f.pc = "write"
      BY <1>2 DEF FrameType, Points
    <2>2. Step(c, f)
      BY <1>3
    <2>3. ~ (top[c] > MaxRollbackDepth)
      BY <1>1, NotTooDeep
    <2> HIDE DEF f
    <2> QED BY <1>1, <2>1, <2>2, <2>3, StepInv
  <1>4. CASE Settle(c, "close", "action_failed")
    <2>1. StackOK' /\ frame' \in [Callers -> [Depths -> FrameType]]
      BY <1>1, <1>4, NotTooDeep, SettleInv DEF Outcomes, Executed
    <2> QED BY <1>1, <2>1, QuietInv
  <1>5. CASE /\ ~ (Req(c).delta <= 0)
             /\ Step(c, [F(c) EXCEPT !.pc = "write", !.from = r,
                                     !.target = ScaleOutTarget(r, Req(c))])
    <2>1. ScaleOutTarget(r, Req(c)) \in Nat
      BY <1>2, <1>5 DEF ScaleOutTarget
    <2> QED BY <1>1, <1>3, <1>5, <2>1, QuietInv
  <1>6. CASE Step(c, [F(c) EXCEPT !.pc = "write", !.from = r,
                                  !.target = ScaleInTarget(r, Req(c))])
    <2>1. ScaleInTarget(r, Req(c)) \in Nat
      BY <1>2 DEF ScaleInTarget
    <2> QED BY <1>1, <1>3, <1>6, <2>1, QuietInv
  <1> QED BY <1>4, <1>5, <1>6 DEF ReadReplicas

LEMMA WriteReplicasInv ==
    ASSUME IInv, NEW c \in Callers, WriteReplicas(c)
    PROVE  IInv'
  <1>1. /\ top[c] >= 0 /\ F(c).pc = "write" /\ Goto(c, "poll")
        /\ replicas' = [replicas EXCEPT ![Req(c).dep] = F(c).target]
        /\ writes' = writes \cup {NewWrite(c, F(c).from, F(c).target)}
        /\ UNCHANGED <<now, ledger, audit, raised, ctx, top, issued>>
    BY DEF WriteReplicas, At
  <1>2. StackOK' /\ frame' \in [Callers -> [Depths -> FrameType]]
    BY <1>1, NotTooDeep, GotoInv DEF Points
  <1>3. F(c).from \in Nat /\ F(c).target \in Nat
    BY <1>1, RunningFacts DEF FrameType
  <1>4. writes' \subseteq WriteType /\ replicas' \in [Deployments -> Nat]
    BY <1>1, <1>3, ReplicasTyped, WriteTyped DEF IInv, TypeOK
  <1> QED BY <1>1, <1>2, <1>4 DEF IInv, TypeOK

LEMMA HandlerRaisesInv ==
    ASSUME IInv, NEW c \in Callers, HandlerRaises(c)
    PROVE  IInv'
  <1> DEFINE r == replicas[Req(c).dep]
  <1>1. /\ top[c] >= 0 /\ F(c).pc \in {"act", "write"}
        /\ Settle(c, "close", "action_failed")
        /\ UNCHANGED <<now, ledger, audit, raised, ctx, top, issued>>
    BY DEF HandlerRaises, At
  <1>2. StackOK' /\ frame' \in [Callers -> [Depths -> FrameType]]
    BY <1>1, NotTooDeep, SettleInv DEF Outcomes, Executed
  <1>3. r \in Nat /\ F(c).from \in Nat /\ F(c).target \in Nat
    BY <1>1, RunningFacts, ReplicasTyped DEF FrameType
  <1>4. writes' \subseteq WriteType /\ replicas' \in [Deployments -> Nat]
    <2>1. CASE UNCHANGED <<replicas, writes>>
      BY <2>1 DEF IInv, TypeOK
    <2>2. CASE writes' = writes \cup {NewWrite(c, r, r)} /\ UNCHANGED replicas
      BY <1>1, <1>3, <2>2, WriteTyped DEF IInv, TypeOK
    <2>3. CASE /\ replicas' = [replicas EXCEPT ![Req(c).dep] = F(c).target]
               /\ writes' = writes \cup {NewWrite(c, F(c).from, F(c).target)}
      BY <1>1, <1>3, <2>3, WriteTyped, ReplicasTyped DEF IInv, TypeOK
    <2> QED BY <2>1, <2>2, <2>3 DEF HandlerRaises
  <1> QED BY <1>1, <1>2, <1>4 DEF IInv, TypeOK

LEMMA PollInv ==
    ASSUME IInv, NEW c \in Callers, Poll(c)
    PROVE  IInv'
  <1>1. /\ top[c] >= 0 /\ F(c).pc = "poll" /\ Quiet
        /\ UNCHANGED <<ctx, top, issued>>
        /\ top' \in [Callers -> Depths \cup {-1}]
        /\ ctx' \in [Callers -> ContextType \cup {NoContext}]
        /\ issued' \in [Callers -> Nat]
    BY DEF Poll, At, Quiet, IInv, TypeOK
  <1>2. CASE Settle(c, "close", "ok")
    <2>1. StackOK' /\ frame' \in [Callers -> [Depths -> FrameType]]
      BY <1>1, <1>2, NotTooDeep, SettleInv DEF Outcomes, Executed
    <2> QED BY <1>1, <2>1, QuietInv
  <1>3. CASE Step(c, [F(c) EXCEPT !.pc = "sleep", !.wake = now + PollInterval])
    <2> DEFINE f == [F(c) EXCEPT !.pc = "sleep", !.wake = now + PollInterval]
    <2>1. now + PollInterval \in Nat /\ F(c) \in FrameType
      BY <1>1, RunningFacts, ParametersAssumption DEF IInv, TypeOK
    <2>2. /\ f \in FrameType
          /\ f.n = F(c).n /\ f.action = F(c).action /\ f.pc = "sleep"
      BY <2>1 DEF FrameType, Points
    <2>3. Step(c, f) /\ ~ (top[c] > MaxRollbackDepth)
      BY <1>1, <1>3, NotTooDeep
    <2> HIDE DEF f
    <2>4. StackOK' /\ frame' \in [Callers -> [Depths -> FrameType]]
      BY <1>1, <2>2, <2>3, StepInv
    <2> QED BY <1>1, <2>4, QuietInv
  <1>4. CASE Goto(c, "rollback")
    <2>1. StackOK' /\ frame' \in [Callers -> [Depths -> FrameType]]
      BY <1>1, <1>4, NotTooDeep, GotoInv DEF Points
    <2> QED BY <1>1, <2>1, QuietInv
  <1> QED BY <1>2, <1>3, <1>4 DEF Poll

LEMMA WakeInv ==
    ASSUME IInv, NEW c \in Callers, Wake(c)
    PROVE  IInv'
  <1>1. /\ top[c] >= 0 /\ F(c).pc = "sleep" /\ Quiet /\ Goto(c, "poll")
        /\ UNCHANGED <<ctx, top, issued>>
        /\ top' \in [Callers -> Depths \cup {-1}]
        /\ ctx' \in [Callers -> ContextType \cup {NoContext}]
        /\ issued' \in [Callers -> Nat]
    BY DEF Wake, At, Quiet, IInv, TypeOK
  <1>2. StackOK' /\ frame' \in [Callers -> [Depths -> FrameType]]
    BY <1>1, NotTooDeep, GotoInv DEF Points
  <1> QED BY <1>1, <1>2, QuietInv

LEMMA CloseInv ==
    ASSUME IInv, NEW c \in Callers, Close(c)
    PROVE  IInv'
  <1>1. /\ top[c] >= 0 /\ F(c).pc = "close" /\ Goto(c, "emit")
        /\ UNCHANGED <<now, replicas, audit, writes, raised, ctx, top, issued>>
    BY DEF Close, At
  <1>2. F(c).outcome \in Outcomes
    BY <1>1, RunningFacts DEF Outcomes
  <1>3. StackOK' /\ frame' \in [Callers -> [Depths -> FrameType]]
    BY <1>1, <1>2, NotTooDeep, GotoInv DEF Points
  <1>4. ledger' \in Seq(EntryType)
    BY MarkType DEF Close, IInv, TypeOK
  <1> QED BY <1>1, <1>3, <1>4 DEF IInv, TypeOK

LEMMA RollbackInv ==
    ASSUME IInv, NEW c \in Callers, Rollback(c)
    PROVE  IInv'
  <1> DEFINE inverse == InverseOf[F(c).action]
  <1>1. /\ top[c] >= 0 /\ F(c).pc = "rollback"
        /\ UNCHANGED <<now, ledger, replicas, audit, writes, raised, ctx>>
    BY DEF Rollback, At
  <1>2. top[c] \in {0, 1} /\ top[c] <= MaxRollbackDepth /\ ~ (top[c] > MaxRollbackDepth)
    BY <1>1, NotTooDeep, RunningFacts, DepthFacts
  <1>3. inverse \in Actions \cup {NoAction}
    BY <1>1, RunningFacts, RegistryAssumption
  <1>4. CASE inverse = NoAction
    <2>1. Settle(c, "close", "rolled_back") /\ UNCHANGED <<top, issued>>
      BY <1>4 DEF Rollback
    <2>2. StackOK' /\ frame' \in [Callers -> [Depths -> FrameType]]
      BY <1>1, <1>2, <2>1, SettleInv DEF Outcomes, Executed
    <2> QED BY <1>1, <2>1, <2>2 DEF IInv, TypeOK
  <1>5. CASE inverse # NoAction
    <2>1. /\ frame' = [frame EXCEPT ![c][top[c]].pc = "nested",
                                    ![c][top[c] + 1] = NewFrame(c, inverse)]
          /\ top' = [top EXCEPT ![c] = @ + 1]
          /\ issued' = [issued EXCEPT ![c] = @ + 1]
      BY <1>5 DEF Rollback
    <2>2. NewFrame(c, inverse) \in FrameType
      BY <1>3, <1>5, NewFrameType
    <2>3. top[c] \in Depths /\ top[c] + 1 \in Depths
      BY <1>2, DepthFacts
    <2> DEFINE g == [frame[c][top[c]] EXCEPT !.pc = "nested"]
    <2>4. /\ g \in FrameType /\ g.pc = "nested"
          /\ g.n = frame[c][top[c]].n /\ g.action = frame[c][top[c]].action
      <3>1. frame[c][top[c]] \in FrameType
        BY <2>3 DEF IInv, TypeOK
      <3> QED BY <3>1 DEF FrameType, Points
    <2>5. frame' = [frame EXCEPT ![c] = [[@ EXCEPT ![top[c]] = g]
                                            EXCEPT ![top[c] + 1] = NewFrame(c, inverse)]]
      BY <2>1, <2>3 DEF IInv, TypeOK
    <2> HIDE DEF g
    <2>6. frame' \in [Callers -> [Depths -> FrameType]]
      BY <2>2, <2>3, <2>4, <2>5 DEF IInv, TypeOK
    <2>7. \A b \in Callers, d \in Depths :
            frame'[b][d] = IF b = c /\ d = top[c] + 1 THEN NewFrame(c, inverse)
                           ELSE IF b = c /\ d = top[c] THEN g ELSE frame[b][d]
      BY <2>3, <2>5 DEF IInv, TypeOK
    <2>8. /\ \A d \in Depths : d = top[c] + 1 => frame'[c][d] = NewFrame(c, inverse)
          /\ \A d \in Depths : d = top[c] =>
                /\ frame'[c][d].pc = "nested"
                /\ frame'[c][d].n = frame[c][d].n
                /\ frame'[c][d].action = frame[c][d].action
          /\ \A b \in Callers, d \in Depths :
                b # c \/ (d # top[c] /\ d # top[c] + 1) => frame'[b][d] = frame[b][d]
      BY <1>2, <2>4, <2>7
    <2>9. \A b \in Callers : (top[b] >= 0 => ctx[b] \in ContextType)'
      BY <1>1, <1>2, <2>1 DEF IInv, TypeOK, StackOK
    <2>10. StackOK'
      <3> HIDE <2>5, <2>7
      <3> QED BY <1>2, <1>3, <1>5, <2>1, <2>8, <2>9, PushInv
    <2>11. top' \in [Callers -> Depths \cup {-1}] /\ issued' \in [Callers -> Nat]
      BY <2>1, <2>3 DEF IInv, TypeOK
    <2> QED BY <1>1, <2>6, <2>10, <2>11 DEF IInv, TypeOK
  <1> QED BY <1>4, <1>5

LEMMA EmitInv ==
    ASSUME IInv, NEW c \in Callers, Emit(c)
    PROVE  IInv'
  <1>1. /\ top[c] >= 0 /\ F(c).pc = "emit" /\ Return(c)
        /\ audit' = Append(audit, NewEvent(c))
        /\ top' = [top EXCEPT ![c] = @ - 1]
        /\ UNCHANGED <<now, ledger, replicas, issued, writes, raised>>
    BY DEF Emit, At, Return
  <1>2. audit' \in Seq(EventType)
    <2>1. NewEvent(c) \in EventType
      BY <1>1, RunningFacts, RequestFacts DEF NewEvent, EventType
    <2> QED BY <1>1, <2>1 DEF IInv, TypeOK
  <1>3. top[c] \in {0, 1, 2}
    BY <1>1, RunningFacts, DepthFacts
  <1>4. CASE top[c] = 0
    <2>1. /\ frame' = [frame EXCEPT ![c] = NoFrames]
          /\ ctx' = [ctx EXCEPT ![c] = NoContext]
      BY <1>1, <1>4 DEF Return
    <2>2. top' = [top EXCEPT ![c] = -1]
      BY <1>1, <1>4
    <2>3. /\ frame' \in [Callers -> [Depths -> FrameType]]
          /\ top' \in [Callers -> Depths \cup {-1}]
          /\ ctx' \in [Callers -> ContextType \cup {NoContext}]
          /\ StackOK'
      BY <1>1, <2>1, <2>2, ClearInv
    <2> QED BY <1>1, <1>2, <2>3 DEF IInv, TypeOK
  <1>5. CASE top[c] # 0
    <2>1. /\ frame' = [frame EXCEPT ![c][top[c]] = IdleFrame,
                                    ![c][top[c] - 1] =
                                        [@ EXCEPT !.pc = "close", !.outcome = "rolled_back"]]
          /\ UNCHANGED ctx
      BY <1>1, <1>5 DEF Return
    <2>2. top[c] \in Depths /\ top[c] - 1 \in Depths /\ top[c] \in {1, 2}
      BY <1>3, <1>5, DepthFacts
    <2> DEFINE g == [frame[c][top[c] - 1] EXCEPT !.pc = "close", !.outcome = "rolled_back"]
    <2>3. /\ g \in FrameType /\ g.pc = "close" /\ g.outcome = "rolled_back"
          /\ g.n = frame[c][top[c] - 1].n /\ g.action = frame[c][top[c] - 1].action
      <3>1. frame[c][top[c] - 1] \in FrameType
        BY <2>2 DEF IInv, TypeOK
      <3> QED BY <3>1 DEF FrameType, Points, Outcomes, Executed
    <2>4. frame' = [frame EXCEPT ![c] = [[@ EXCEPT ![top[c]] = IdleFrame]
                                            EXCEPT ![top[c] - 1] = g]]
      BY <2>1, <2>2 DEF IInv, TypeOK
    <2> HIDE DEF g
    <2>5. frame' \in [Callers -> [Depths -> FrameType]]
      BY <2>2, <2>3, <2>4, IdleFrameType DEF IInv, TypeOK
    <2>6. \A b \in Callers, d \in Depths :
            frame'[b][d] = IF b = c /\ d = top[c] THEN IdleFrame
                           ELSE IF b = c /\ d = top[c] - 1 THEN g ELSE frame[b][d]
      BY <2>2, <2>4 DEF IInv, TypeOK
    <2>7. /\ top' \in [Callers -> Depths \cup {-1}]
          /\ \A b \in Callers : top'[b] = IF b = c THEN top[c] - 1 ELSE top[b]
      BY <1>1, <2>2 DEF IInv, TypeOK
    <2>8. ASSUME NEW b \in Callers, NEW d \in Depths PROVE FrameOK(b, d)'
      <3>1. \A e \in Depths : FrameOK(b, e)
        BY DEF IInv, StackOK
      <3>2. issued' = issued /\ top[b] \in Depths \cup {-1}
        BY <1>1 DEF IInv, TypeOK
      <3>3. CASE b # c
        BY <2>6, <2>7, <3>1, <3>2, <3>3 DEF FrameOK
      <3>4. CASE b = c /\ d = top[c]
        <4>1. frame'[b][d].pc = "idle" /\ frame'[b][d].n = 0
          BY <2>6, <3>4 DEF IdleFrame
        <4> QED BY <2>2, <2>7, <3>4, <4>1, DepthFacts DEF FrameOK
      <3>5. CASE b = c /\ d = top[c] - 1
        <4>1. /\ frame'[b][d] = g /\ g.pc = "close" /\ g.outcome \in Executed
              /\ g.n = frame[b][d].n /\ g.action = frame[b][d].action
          BY <2>2, <2>3, <2>6, <3>5 DEF Executed
        <4> QED BY <2>2, <2>7, <3>1, <3>2, <3>5, <4>1, DepthFacts DEF FrameOK
      <3>6. CASE b = c /\ d # top[c] /\ d # top[c] - 1
        <4>1. /\ frame'[b][d] = frame[b][d]
              /\ \A e \in Depths : e < top[c] => frame'[b][e].n = frame[b][e].n
          BY <2>2, <2>3, <2>6, <3>6
        <4> QED BY <2>2, <2>7, <3>1, <3>2, <3>6, <4>1, DepthFacts DEF FrameOK
      <3> QED BY <3>3, <3>4, <3>5, <3>6
    <2>9. \A b \in Callers : (top[b] >= 0 => ctx[b] \in ContextType)'
      BY <2>1, <2>2, <2>7 DEF IInv, StackOK
    <2>10. StackOK'
      BY <2>8, <2>9 DEF StackOK
    <2> QED BY <1>1, <1>2, <2>1, <2>5, <2>7, <2>10 DEF IInv, TypeOK
  <1> QED BY <1>4, <1>5

LEMMA CallRaisesInv ==
    ASSUME IInv, NEW c \in Callers, CallRaises(c)
    PROVE  IInv'
  <1>1. /\ top[c] >= 0
        /\ raised' = raised \cup {Id(c, d) : d \in 0 .. top[c]}
        /\ frame' = [frame EXCEPT ![c] = NoFrames]
        /\ top' = [top EXCEPT ![c] = -1]
        /\ ctx' = [ctx EXCEPT ![c] = NoContext]
        /\ UNCHANGED <<now, ledger, replicas, audit, issued, writes>>
    BY DEF CallRaises, At, Raise
  <1>2. \A d \in 0 .. top[c] : Id(c, d) \in Ids
    <2>1. top[c] \in {0, 1, 2} /\ issued[c] \in Nat
      BY <1>1, RunningFacts, DepthFacts DEF IInv, TypeOK
    <2>2. \A d \in 0 .. top[c] : d \in Depths /\ d <= top[c]
      BY <2>1, DepthFacts
    <2>3. \A d \in 0 .. top[c] : frame[c][d].n \in 1 .. issued[c]
      BY <2>2 DEF IInv, StackOK, FrameOK
    <2> QED BY <2>1, <2>3 DEF Id, Ids
  <1>3. raised' \subseteq Ids
    BY <1>1, <1>2 DEF IInv, TypeOK
  <1>4. /\ frame' \in [Callers -> [Depths -> FrameType]]
        /\ top' \in [Callers -> Depths \cup {-1}]
        /\ ctx' \in [Callers -> ContextType \cup {NoContext}]
        /\ StackOK'
    BY <1>1, ClearInv
  <1> QED BY <1>1, <1>3, <1>4 DEF IInv, TypeOK

LEMMA TickInv == IInv /\ Tick => IInv'
  <1> SUFFICES ASSUME IInv, Tick PROVE IInv'
    OBVIOUS
  <1>1. StackOK'
    BY DEF Tick, IInv, StackOK, FrameOK
  <1>2. TypeOK'
    BY DEF Tick, IInv, TypeOK
  <1> QED BY <1>1, <1>2 DEF IInv

LEMMA StutterInv == IInv /\ UNCHANGED vars => IInv'
  BY DEF vars, IInv, TypeOK, StackOK, FrameOK

(* Every step keeps the invariant.                                         *)
LEMMA NextInv == IInv /\ [Next]_vars => IInv'
  <1> SUFFICES ASSUME IInv, [Next]_vars PROVE IInv'
    OBVIOUS
  <1>1. ASSUME NEW c \in Callers, Run(c) PROVE IInv'
    BY <1>1, CheckBoundsInv, InspectInv, GateInv, PatchInv, ReadReplicasInv,
       WriteReplicasInv, HandlerRaisesInv, PollInv, WakeInv, RollbackInv,
       CloseInv, EmitInv, CallRaisesInv
    DEF Run
  <1> QED BY <1>1, StartInv, TickInv, StutterInv DEF Next

(* The nesting discipline and the types hold in every reachable state, for *)
(* every registry, every number of callers and every set of requests.      *)
THEOREM NestingInvariant == Spec => []IInv
  <1>1. Init => IInv
    BY InitInv
  <1>2. IInv /\ [Next]_vars => IInv'
    BY NextInv
  <1> QED BY <1>1, <1>2, PTL DEF Spec

(* The discipline of nested calls on its own (runner.py:180-199).          *)
THEOREM NestingDiscipline == Spec => []StackOK
  <1>1. IInv => StackOK
    BY DEF IInv
  <1> QED BY <1>1, NestingInvariant, PTL

(* Every variable keeps its type.                                          *)
THEOREM TypeCorrect == Spec => []TypeOK
  <1>1. IInv => TypeOK
    BY DEF IInv
  <1> QED BY <1>1, NestingInvariant, PTL

-----------------------------------------------------------------------------
(* Every event id is accounted for.  The invariant adds to the property    *)
(* that no id is recorded or lost before it is drawn.                      *)
AccountsOK ==
    /\ \A id \in AuditedIds \cup raised : Drawn(id)
    /\ \A i, j \in DOMAIN audit : audit[i].id = audit[j].id => i = j
    /\ LiveIds \cap (raised \cup AuditedIds) = {}
    /\ raised \cap AuditedIds = {}
    /\ \A c \in Callers : \A n \in 1 .. issued[c] :
            <<c, n>> \in LiveIds \cup raised \cup AuditedIds

(* The live ids are those of the frames down to the running one.           *)
LEMMA LiveIdsFacts ==
    ASSUME IInv
    PROVE  /\ LiveIds = UNION {{Id(c, d) : d \in {e \in Depths : e <= top[c]}} : c \in Callers}
           /\ \A c \in Callers, d \in Depths : d <= top[c] => Drawn(Id(c, d))
  <1>1. ASSUME NEW c \in Callers, NEW d \in Depths
        PROVE  /\ d <= top[c] => frame[c][d].n \in 1 .. issued[c]
               /\ d > top[c] => frame[c][d].n = 0
               /\ top[c] \in Depths \cup {-1} /\ issued[c] \in Nat
    BY DEF IInv, StackOK, FrameOK, TypeOK
  <1>2. \A c \in Callers, d \in Depths : d <= top[c] <=> frame[c][d].n # 0
    BY <1>1, DepthFacts
  <1> QED BY <1>1, <1>2 DEF LiveIds, Id, Drawn

LEMMA IdsTyped ==
    ASSUME IInv
    PROVE  AuditedIds \cup raised \subseteq Ids
  <1>1. \A i \in DOMAIN audit : audit[i] \in EventType
    BY DEF IInv, TypeOK
  <1>2. \A i \in DOMAIN audit : audit[i].id \in Ids
    BY <1>1 DEF EventType
  <1> QED BY <1>2 DEF AuditedIds, IInv, TypeOK

(* Appending one event adds one id.                                        *)
LEMMA AppendIds ==
    ASSUME IInv, NEW e, audit' = Append(audit, e)
    PROVE  /\ AuditedIds' = AuditedIds \cup {e.id}
           /\ e.id \notin AuditedIds /\ (\A i, j \in DOMAIN audit : audit[i].id = audit[j].id => i = j)
              => \A i, j \in DOMAIN audit' : audit'[i].id = audit'[j].id => i = j
  <1>1. /\ Len(audit) \in Nat /\ DOMAIN audit = 1 .. Len(audit)
        /\ DOMAIN audit' = 1 .. Len(audit) + 1
        /\ audit'[Len(audit) + 1] = e
        /\ \A i \in 1 .. Len(audit) : audit'[i] = audit[i]
    BY DEF IInv, TypeOK
  <1>2. AuditedIds' = {audit'[i].id : i \in DOMAIN audit'}
    BY DEF AuditedIds
  <1> QED BY <1>1, <1>2 DEF AuditedIds

(* A step that draws no id, ends no call and records nothing.              *)
LEMMA LocalAccounts ==
    ASSUME IInv, AccountsOK, UNCHANGED <<audit, raised, issued>>,
           \A b \in Callers, d \in Depths : frame'[b][d].n = frame[b][d].n
    PROVE  AccountsOK'
  <1>1. LiveIds' = LiveIds
    BY DEF LiveIds, Id
  <1>2. AuditedIds' = AuditedIds
    BY DEF AuditedIds
  <1> QED BY <1>1, <1>2 DEF AccountsOK, Drawn

(* A new frame draws the next id.                                          *)
LEMMA PushAccounts ==
    ASSUME IInv, AccountsOK, NEW c \in Callers, UNCHANGED <<audit, raised>>,
           issued' = [issued EXCEPT ![c] = @ + 1],
           NEW t \in Depths, frame[c][t].n = 0,
           \A b \in Callers, d \in Depths :
               frame'[b][d].n = IF b = c /\ d = t THEN issued[c] + 1 ELSE frame[b][d].n
    PROVE  AccountsOK'
  <1> DEFINE new == <<c, issued[c] + 1>>
  <1>1. issued \in [Callers -> Nat] /\ issued[c] \in Nat
    BY DEF IInv, TypeOK
  <1>2. LiveIds' = LiveIds \cup {new}
    <2>1. \A b \in Callers, d \in Depths :
            Id(b, d)' = IF b = c /\ d = t THEN new ELSE Id(b, d)
      BY DEF Id
    <2>2. Id(c, t) = <<c, 0>>
      BY DEF Id
    <2>3. LiveIds' = {Id(b, d)' : b \in Callers, d \in Depths} \ {<<b, 0>> : b \in Callers}
      BY DEF LiveIds
    <2> QED BY <1>1, <2>1, <2>2, <2>3 DEF LiveIds
  <1>3. AuditedIds' = AuditedIds
    BY DEF AuditedIds
  <1>4. ~ Drawn(new) /\ \A id \in Ids : Drawn(id) => Drawn(id)'
    BY <1>1 DEF Drawn, Ids
  <1>5. AuditedIds \cup raised \subseteq Ids
    BY IdsTyped
  <1>6. new \notin AuditedIds \cup raised
    BY <1>4 DEF AccountsOK
  <1>7. \A b \in Callers : \A n \in 1 .. issued'[b] :
            n \in 1 .. issued[b] \/ <<b, n>> = new
    BY <1>1
  <1> QED BY <1>2, <1>3, <1>4, <1>5, <1>6, <1>7 DEF AccountsOK

(* What a step of the running frame that neither calls nor returns leaves. *)
Local(c) ==
    \/ CheckBounds(c) \/ Inspect(c) \/ Gate(c)
    \/ Patch(c) \/ ReadReplicas(c) \/ WriteReplicas(c) \/ HandlerRaises(c)
    \/ Poll(c) \/ Wake(c) \/ Close(c)
    \/ Rollback(c) /\ InverseOf[F(c).action] = NoAction

Moved(c) ==
    \A b \in Callers, d \in Depths :
        /\ b # c \/ d # top[c] => frame'[b][d] = frame[b][d]
        /\ frame'[b][d].n = frame[b][d].n
        /\ frame'[b][d].action = frame[b][d].action

LEMMA MovedBy ==
    ASSUME IInv, NEW c \in Callers, top[c] >= 0, NEW r, Step(c, r),
           r.n = F(c).n, r.action = F(c).action
    PROVE  Moved(c)
  <1>1. top[c] \in Depths
    BY RunningFacts
  <1>2. \A b \in Callers, d \in Depths :
            frame'[b][d] = IF b = c /\ d = top[c] THEN r ELSE frame[b][d]
    BY <1>1 DEF IInv, TypeOK, Step
  <1> QED BY <1>1, <1>2 DEF F, Moved

LEMMA GotoMoves ==
    ASSUME IInv, NEW c \in Callers, top[c] >= 0, NEW p, NEW o,
           Goto(c, p) \/ Settle(c, p, o)
    PROVE  Moved(c)
  <1>1. F(c) \in FrameType
    BY RunningFacts
  <1>2. /\ [F(c) EXCEPT !.pc = p].n = F(c).n
        /\ [F(c) EXCEPT !.pc = p].action = F(c).action
        /\ [F(c) EXCEPT !.pc = p, !.outcome = o].n = F(c).n
        /\ [F(c) EXCEPT !.pc = p, !.outcome = o].action = F(c).action
    BY <1>1 DEF FrameType
  <1> QED BY <1>2, MovedBy DEF Goto, Settle

LEMMA LocalStep ==
    ASSUME IInv, NEW c \in Callers, Local(c)
    PROVE  /\ top[c] >= 0 /\ top[c] \in Depths
           /\ UNCHANGED <<audit, raised, issued, top, ctx>>
           /\ Moved(c)
  <1>1. /\ top[c] >= 0
        /\ UNCHANGED <<audit, raised, issued, top, ctx>>
    BY DEF Local, CheckBounds, Inspect, Gate, Patch, ReadReplicas, WriteReplicas,
       HandlerRaises, Poll, Wake, Close, Rollback, At
  <1>2. F(c) \in FrameType /\ top[c] \in Depths
    BY <1>1, RunningFacts
  <1>3. ASSUME \E p, o : Goto(c, p) \/ Settle(c, p, o) PROVE Moved(c)
    BY <1>1, <1>2, <1>3, GotoMoves
  <1>4. ASSUME Inspect(c) PROVE Moved(c)
    <2>1. PICK age \in RevisionAges :
            Step(c, [F(c) EXCEPT !.pc = "gate", !.age = age,
                        !.tier = Adjust(Baseline(Class(c)), Site(c, age))])
      BY <1>4 DEF Inspect
    <2> DEFINE r == [F(c) EXCEPT !.pc = "gate", !.age = age,
                        !.tier = Adjust(Baseline(Class(c)), Site(c, age))]
    <2>2. r.n = F(c).n /\ r.action = F(c).action
      BY <1>2 DEF FrameType
    <2> HIDE DEF r
    <2> QED BY <1>1, <1>2, <2>1, <2>2, MovedBy DEF r
  <1>5. ASSUME NEW a, NEW t, Step(c, [F(c) EXCEPT !.pc = "write", !.from = a, !.target = t])
        PROVE  Moved(c)
    <2> DEFINE r == [F(c) EXCEPT !.pc = "write", !.from = a, !.target = t]
    <2>1. r.n = F(c).n /\ r.action = F(c).action
      BY <1>2 DEF FrameType
    <2> HIDE DEF r
    <2> QED BY <1>1, <1>5, <2>1, MovedBy DEF r
  <1>6. ASSUME NEW w, Step(c, [F(c) EXCEPT !.pc = "sleep", !.wake = w])
        PROVE  Moved(c)
    <2> DEFINE r == [F(c) EXCEPT !.pc = "sleep", !.wake = w]
    <2>1. r.n = F(c).n /\ r.action = F(c).action
      BY <1>2 DEF FrameType
    <2> HIDE DEF r
    <2> QED BY <1>1, <1>6, <2>1, MovedBy DEF r
  <1>7. ASSUME ReadReplicas(c) PROVE Moved(c)
    <2>1. CASE Settle(c, "close", "action_failed")
      BY <1>1, <2>1, GotoMoves, <1>2
    <2>2. CASE ~ Settle(c, "close", "action_failed")
      BY <1>1, <1>2, <1>5, <1>7, <2>2 DEF ReadReplicas
    <2> QED BY <2>1, <2>2
  <1>8. ASSUME Poll(c) PROVE Moved(c)
    <2>1. CASE Settle(c, "close", "ok")
      BY <1>1, <2>1, GotoMoves, <1>2
    <2>2. CASE Goto(c, "rollback")
      BY <1>1, <2>2, GotoMoves, <1>2
    <2>3. CASE Step(c, [F(c) EXCEPT !.pc = "sleep", !.wake = now + PollInterval])
      BY <1>1, <1>2, <1>6, <2>3
    <2> QED BY <1>8, <2>1, <2>2, <2>3 DEF Poll
  <1>9. ASSUME \/ CheckBounds(c) \/ Gate(c) \/ Patch(c) \/ WriteReplicas(c)
               \/ HandlerRaises(c) \/ Wake(c) \/ Close(c)
               \/ (Rollback(c) /\ InverseOf[F(c).action] = NoAction)
        PROVE  Moved(c)
    <2>1. \E p, o : Goto(c, p) \/ Settle(c, p, o)
      BY <1>9 DEF CheckBounds, Gate, Patch, WriteReplicas, HandlerRaises, Wake,
         Close, Rollback
    <2> QED BY <1>3, <2>1
  <1>10. Moved(c)
    BY <1>4, <1>7, <1>8, <1>9 DEF Local
  <1> QED BY <1>1, <1>2, <1>10

(* A rollback with an inverse pushes a frame.                              *)
LEMMA RollbackPush ==
    ASSUME IInv, NEW c \in Callers, Rollback(c), InverseOf[F(c).action] # NoAction
    PROVE  /\ UNCHANGED <<now, ledger, replicas, audit, ctx, writes, raised>>
           /\ issued' = [issued EXCEPT ![c] = @ + 1]
           /\ top[c] + 1 \in Depths /\ top[c] \in Depths
           /\ F(c).pc = "rollback"
           /\ \A b \in Callers, d \in Depths :
                /\ b = c /\ d = top[c] + 1 =>
                        /\ frame'[b][d].n = issued[c] + 1
                        /\ frame'[b][d].pc = "bounds"
                        /\ frame'[b][d].action = InverseOf[F(c).action]
                /\ b = c /\ d = top[c] =>
                        /\ frame'[b][d].n = frame[b][d].n
                        /\ frame'[b][d].pc = "nested"
                        /\ frame'[b][d].action = frame[b][d].action
                /\ b # c \/ (d # top[c] /\ d # top[c] + 1) =>
                        frame'[b][d] = frame[b][d]
  <1> DEFINE inverse == InverseOf[F(c).action]
  <1>1. /\ top[c] >= 0 /\ F(c).pc = "rollback"
        /\ UNCHANGED <<now, ledger, replicas, audit, ctx, writes, raised>>
        /\ issued' = [issued EXCEPT ![c] = @ + 1]
        /\ frame' = [frame EXCEPT ![c][top[c]].pc = "nested",
                                  ![c][top[c] + 1] = NewFrame(c, inverse)]
    BY DEF Rollback, At
  <1>2. top[c] \in {0, 1} /\ top[c] \in Depths /\ top[c] + 1 \in Depths
    BY <1>1, NotTooDeep, RunningFacts, DepthFacts
  <1> DEFINE g == [frame[c][top[c]] EXCEPT !.pc = "nested"]
  <1>3. /\ g.n = frame[c][top[c]].n /\ g.pc = "nested"
        /\ g.action = frame[c][top[c]].action
    <2>1. frame[c][top[c]] \in FrameType
      BY <1>2 DEF IInv, TypeOK
    <2> QED BY <2>1 DEF FrameType
  <1>4. frame' = [frame EXCEPT ![c] = [[@ EXCEPT ![top[c]] = g]
                                          EXCEPT ![top[c] + 1] = NewFrame(c, inverse)]]
    BY <1>1, <1>2 DEF IInv, TypeOK
  <1> HIDE DEF g
  <1>5. \A b \in Callers, d \in Depths :
          frame'[b][d] = IF b = c /\ d = top[c] + 1 THEN NewFrame(c, inverse)
                         ELSE IF b = c /\ d = top[c] THEN g ELSE frame[b][d]
    BY <1>2, <1>4 DEF IInv, TypeOK
  <1>6. /\ NewFrame(c, inverse).n = issued[c] + 1 /\ NewFrame(c, inverse).pc = "bounds"
        /\ NewFrame(c, inverse).action = inverse
    BY DEF NewFrame, IdleFrame
  <1>7. \A b \in Callers, d \in Depths :
          /\ b = c /\ d = top[c] + 1 =>
                  /\ frame'[b][d].n = issued[c] + 1
                  /\ frame'[b][d].pc = "bounds"
                  /\ frame'[b][d].action = inverse
          /\ b = c /\ d = top[c] =>
                  /\ frame'[b][d].n = frame[b][d].n
                  /\ frame'[b][d].pc = "nested"
                  /\ frame'[b][d].action = frame[b][d].action
          /\ b # c \/ (d # top[c] /\ d # top[c] + 1) =>
                  frame'[b][d] = frame[b][d]
    <2> HIDE <1>1 DEF inverse
    <2> QED BY <1>2, <1>3, <1>5, <1>6
  <1> QED BY <1>1, <1>2, <1>7

(* An event is emitted and its frame popped: one live id becomes audited.  *)
LEMMA EmitIds ==
    ASSUME IInv, NEW c \in Callers, Emit(c)
    PROVE  /\ top[c] \in Depths /\ F(c).pc = "emit"
           /\ audit' = Append(audit, NewEvent(c))
           /\ UNCHANGED <<raised, issued, writes, ledger>>
           /\ LiveIds' = LiveIds \ {Id(c, top[c])}
           /\ Id(c, top[c]) \in LiveIds
           /\ AuditedIds' = AuditedIds \cup {Id(c, top[c])}
           /\ \A b \in Callers, d \in Depths :
                /\ b = c /\ d >= top[c] => frame'[b][d].n = 0 /\ frame'[b][d].pc = "idle"
                /\ b = c /\ d < top[c] =>
                        /\ frame'[b][d].n = frame[b][d].n
                        /\ frame'[b][d].action = frame[b][d].action
                /\ b = c /\ d + 1 = top[c] =>
                        frame'[b][d].pc = "close" /\ frame'[b][d].outcome = "rolled_back"
                /\ b # c \/ d + 1 < top[c] => frame'[b][d] = frame[b][d]
  <1>1. /\ top[c] \in Depths /\ F(c).pc = "emit" /\ Return(c)
        /\ audit' = Append(audit, NewEvent(c))
        /\ UNCHANGED <<raised, issued, writes, ledger>>
    BY RunningFacts DEF Emit, At
  <1>2. \A b \in Callers, d \in Depths :
          /\ b = c /\ d >= top[c] => frame'[b][d].n = 0 /\ frame'[b][d].pc = "idle"
          /\ b = c /\ d < top[c] =>
                  /\ frame'[b][d].n = frame[b][d].n
                  /\ frame'[b][d].action = frame[b][d].action
          /\ b = c /\ d + 1 = top[c] =>
                  frame'[b][d].pc = "close" /\ frame'[b][d].outcome = "rolled_back"
          /\ b # c \/ d + 1 < top[c] => frame'[b][d] = frame[b][d]
    <2>1. CASE top[c] = 0
      <3>1. frame' = [frame EXCEPT ![c] = NoFrames]
        BY <1>1, <2>1 DEF Return
      <3>2. \A d \in Depths : NoFrames[d].pc = "idle" /\ NoFrames[d].n = 0
        BY DEF NoFrames, IdleFrame
      <3> QED BY <2>1, <3>1, <3>2, DepthFacts DEF IInv, TypeOK
    <2>2. CASE top[c] # 0
      <3>1. frame' = [frame EXCEPT
                            ![c][top[c]] = IdleFrame,
                            ![c][top[c] - 1] =
                                [@ EXCEPT !.pc = "close", !.outcome = "rolled_back"]]
        BY <1>1, <2>2 DEF Return
      <3>2. top[c] \in {1, 2} /\ top[c] - 1 \in Depths
        BY <1>1, <2>2, DepthFacts
      <3> DEFINE g == [frame[c][top[c] - 1] EXCEPT !.pc = "close", !.outcome = "rolled_back"]
      <3>3. /\ g.pc = "close" /\ g.outcome = "rolled_back"
            /\ g.n = frame[c][top[c] - 1].n /\ g.action = frame[c][top[c] - 1].action
        <4>1. frame[c][top[c] - 1] \in FrameType
          BY <3>2 DEF IInv, TypeOK
        <4> QED BY <4>1 DEF FrameType
      <3>4. frame' = [frame EXCEPT ![c] = [[@ EXCEPT ![top[c]] = IdleFrame]
                                              EXCEPT ![top[c] - 1] = g]]
        BY <1>1, <3>1, <3>2 DEF IInv, TypeOK
      <3> HIDE DEF g
      <3>5. \A b \in Callers, d \in Depths :
              frame'[b][d] = IF b = c /\ d = top[c] THEN IdleFrame
                             ELSE IF b = c /\ d = top[c] - 1 THEN g ELSE frame[b][d]
        BY <1>1, <3>2, <3>4 DEF IInv, TypeOK
      <3>6. \A d \in Depths : d > top[c] => frame[c][d].n = 0 /\ frame[c][d].pc = "idle"
        BY DEF IInv, StackOK, FrameOK
      <3>7. IdleFrame.n = 0 /\ IdleFrame.pc = "idle"
        BY DEF IdleFrame
      <3> QED BY <1>1, <3>2, <3>3, <3>5, <3>6, <3>7, DepthFacts
    <2> QED BY <2>1, <2>2
  <1>3. /\ Id(c, top[c]) \in LiveIds
        /\ frame[c][top[c]].n # 0
        /\ \A d \in Depths : d < top[c] => frame[c][d].n < frame[c][top[c]].n
        /\ \A d \in Depths : d > top[c] => frame[c][d].n = 0
    <2>1. \A d \in Depths : FrameOK(c, d)
      BY DEF IInv, StackOK
    <2>2. frame[c][top[c]].n \in 1 .. issued[c] /\ issued[c] \in Nat
      BY <1>1, RunningFacts, DepthFacts DEF F, IInv, TypeOK
    <2>3. frame[c][top[c]].n # 0
      BY <2>2
    <2>4. Id(c, top[c]) \in LiveIds
      BY <1>1, <2>3 DEF LiveIds, Id
    <2> QED BY <1>1, <2>1, <2>3, <2>4, DepthFacts DEF FrameOK
  <1>4. \A b \in Callers, d \in Depths :
            Id(b, d)' = IF b = c /\ d >= top[c] THEN <<c, 0>> ELSE Id(b, d)
    BY <1>1, <1>2, DepthFacts DEF Id
  <1>5. \A b \in Callers, d \in Depths :
            Id(b, d) = Id(c, top[c]) => b = c /\ d = top[c]
    <2>1. \A d \in Depths : frame[c][d].n \in Nat
      BY DEF IInv, TypeOK, FrameType
    <2> QED BY <1>1, <1>3, <2>1, DepthFacts DEF Id
  <1>6. LiveIds' = {Id(b, d)' : b \in Callers, d \in Depths} \ {<<b, 0>> : b \in Callers}
    BY DEF LiveIds
  <1>7. LiveIds' = LiveIds \ {Id(c, top[c])}
    <2>1. \A d \in Depths : d > top[c] => Id(c, d) = <<c, 0>>
      BY <1>3 DEF Id
    <2>2. ASSUME NEW x \in LiveIds' PROVE x \in LiveIds \ {Id(c, top[c])}
      BY <1>1, <1>4, <1>5, <1>6, <2>2, DepthFacts DEF LiveIds
    <2>3. ASSUME NEW x \in LiveIds, x # Id(c, top[c]) PROVE x \in LiveIds'
      <3>1. PICK b \in Callers, d \in Depths : x = Id(b, d)
        BY DEF LiveIds
      <3>2. ~ (b = c /\ d >= top[c])
        BY <1>1, <2>1, <2>3, <3>1, DepthFacts DEF LiveIds
      <3> QED BY <1>4, <1>6, <3>1, <3>2 DEF LiveIds
    <2> QED BY <2>2, <2>3
  <1>8. AuditedIds' = AuditedIds \cup {Id(c, top[c])}
    BY <1>1, AppendIds DEF NewEvent
  <1> QED BY <1>1, <1>2, <1>3, <1>7, <1>8

LEMMA EmitAccounts ==
    ASSUME IInv, AccountsOK, NEW c \in Callers, Emit(c)
    PROVE  AccountsOK'
  <1> DEFINE id == Id(c, top[c])
  <1>1. /\ UNCHANGED <<raised, issued>>
        /\ LiveIds' = LiveIds \ {id} /\ id \in LiveIds
        /\ AuditedIds' = AuditedIds \cup {id}
    BY EmitIds
  <1>2. id \notin raised \cup AuditedIds
    BY <1>1 DEF AccountsOK
  <1>3. \A i, j \in DOMAIN audit' : audit'[i].id = audit'[j].id => i = j
    <2>1. audit' = Append(audit, NewEvent(c)) /\ NewEvent(c).id = id
      BY EmitIds DEF NewEvent
    <2>2. \A i, j \in DOMAIN audit : audit[i].id = audit[j].id => i = j
      BY DEF AccountsOK
    <2> HIDE DEF id
    <2> QED BY <1>2, <2>1, <2>2, AppendIds
  <1>4. Drawn(id)
    BY EmitIds, LiveIdsFacts, DepthFacts
  <1> HIDE DEF id
  <1>5. \A x \in AuditedIds' \cup raised' : Drawn(x)'
    BY <1>1, <1>4 DEF AccountsOK, Drawn
  <1> QED BY <1>1, <1>2, <1>3, <1>5 DEF AccountsOK

(* An exception unwinds the whole stack: its live ids are lost.            *)
LEMMA RaiseIds ==
    ASSUME IInv, NEW c \in Callers, CallRaises(c)
    PROVE  /\ top[c] \in Depths
           /\ raised' = raised \cup {Id(c, d) : d \in 0 .. top[c]}
           /\ LiveIds' = LiveIds \ {Id(c, d) : d \in 0 .. top[c]}
           /\ {Id(c, d) : d \in 0 .. top[c]} \subseteq LiveIds
           /\ UNCHANGED <<audit, issued, writes>>
  <1> DEFINE mine == {Id(c, d) : d \in {e \in Depths : e <= top[c]}}
  <1>1. /\ top[c] \in Depths
        /\ raised' = raised \cup {Id(c, d) : d \in 0 .. top[c]}
        /\ frame' = [frame EXCEPT ![c] = NoFrames]
        /\ UNCHANGED <<audit, issued, writes>>
        /\ top' = [top EXCEPT ![c] = -1]
    BY RunningFacts DEF CallRaises, At, Raise
  <1>2. 0 .. top[c] = {e \in Depths : e <= top[c]}
    BY <1>1, DepthFacts
  <1>3. raised' = raised \cup mine
    BY <1>1, <1>2
  <1>4. LiveIds' = LiveIds \ mine /\ mine \subseteq LiveIds
    <2>1. \A b \in Callers, d \in Depths :
            Id(b, d)' = IF b = c THEN <<c, 0>> ELSE Id(b, d)
      <3>1. \A d \in Depths : NoFrames[d].n = 0
        BY DEF NoFrames, IdleFrame
      <3> QED BY <1>1, <3>1 DEF Id, IInv, TypeOK
    <2>2. LiveIds' = {Id(b, d)' : b \in Callers, d \in Depths} \ {<<b, 0>> : b \in Callers}
      BY DEF LiveIds
    <2>3. \A d \in Depths : /\ d <= top[c] => frame[c][d].n # 0
                            /\ ~ (d <= top[c]) => frame[c][d].n = 0
      <3>1. \A d \in Depths : FrameOK(c, d)
        BY DEF IInv, StackOK
      <3>2. issued[c] \in Nat
        BY DEF IInv, TypeOK
      <3> QED BY <1>1, <3>1, <3>2, DepthFacts DEF FrameOK
    <2>4. mine \subseteq LiveIds
      BY <2>3 DEF LiveIds, Id
    <2>5. ASSUME NEW x \in LiveIds' PROVE x \in LiveIds \ mine
      <3>1. PICK b \in Callers, d \in Depths : x = Id(b, d)' /\ x \notin {<<e, 0>> : e \in Callers}
        BY <2>2, <2>5
      <3>2. b # c /\ x = Id(b, d)
        BY <2>1, <3>1
      <3>3. x \in LiveIds
        BY <3>1, <3>2 DEF LiveIds
      <3>4. x \notin mine
        BY <3>2 DEF Id
      <3> QED BY <3>3, <3>4
    <2>6. ASSUME NEW x \in LiveIds, x \notin mine PROVE x \in LiveIds'
      <3>1. PICK b \in Callers, d \in Depths : x = Id(b, d) /\ frame[b][d].n # 0
        BY DEF LiveIds, Id
      <3>2. b # c
        BY <2>3, <2>6, <3>1
      <3>3. x = Id(b, d)'
        BY <2>1, <3>1, <3>2
      <3> HIDE DEF mine
      <3> QED BY <2>2, <3>1, <3>3 DEF LiveIds
    <2> QED BY <2>4, <2>5, <2>6
  <1> QED BY <1>1, <1>2, <1>4

LEMMA RaiseAccounts ==
    ASSUME IInv, AccountsOK, NEW c \in Callers, CallRaises(c)
    PROVE  AccountsOK'
  <1> DEFINE mine == {Id(c, d) : d \in 0 .. top[c]}
  <1>1. /\ top[c] \in Depths /\ raised' = raised \cup mine
        /\ LiveIds' = LiveIds \ mine /\ mine \subseteq LiveIds
        /\ UNCHANGED <<audit, issued>>
    BY RaiseIds
  <1>2. AuditedIds' = AuditedIds
    BY <1>1 DEF AuditedIds
  <1>3. \A x \in mine : Drawn(x)
    <2>1. \A d \in 0 .. top[c] : d \in Depths /\ d <= top[c]
      BY <1>1, DepthFacts
    <2> QED BY <2>1, LiveIdsFacts
  <1> HIDE DEF mine
  <1>4. \A x \in AuditedIds' \cup raised' : Drawn(x)'
    BY <1>1, <1>2, <1>3 DEF AccountsOK, Drawn
  <1> QED BY <1>1, <1>2, <1>4 DEF AccountsOK

LEMMA StartPush ==
    ASSUME IInv, NEW c \in Callers, Start(c)
    PROVE  /\ UNCHANGED <<now, replicas, audit, raised, writes, ledger>>
           /\ issued' = [issued EXCEPT ![c] = @ + 1]
           /\ top[c] = -1 /\ issued[c] < MaxIssued
           /\ 0 \in Depths /\ frame[c][0].n = 0
           /\ \A b \in Callers, d \in Depths :
                /\ b = c /\ d = 0 =>
                        frame'[b][d].n = issued[c] + 1 /\ frame'[b][d].pc = "bounds"
                /\ b # c \/ d # 0 => frame'[b][d] = frame[b][d]
  <1>1. PICK r \in Requests : frame' = [frame EXCEPT ![c][0] = NewFrame(c, r.action)]
    BY DEF Start, Call
  <1>2. NewFrame(c, r.action).n = issued[c] + 1 /\ NewFrame(c, r.action).pc = "bounds"
    BY DEF NewFrame, IdleFrame
  <1>3. \A b \in Callers, d \in Depths :
          frame'[b][d] = IF b = c /\ d = 0 THEN NewFrame(c, r.action) ELSE frame[b][d]
    BY <1>1, DepthFacts DEF IInv, TypeOK
  <1>4. frame[c][0].n = 0
    BY DepthFacts DEF Start, Call, IInv, StackOK, FrameOK
  <1> QED BY <1>2, <1>3, <1>4, DepthFacts DEF Start, Call

LEMMA AccountsInv == IInv /\ AccountsOK /\ [Next]_vars => AccountsOK'
  <1> SUFFICES ASSUME IInv, AccountsOK, [Next]_vars PROVE AccountsOK'
    OBVIOUS
  <1>1. ASSUME NEW c \in Callers, Start(c) PROVE AccountsOK'
    <2>1. \A b \in Callers, d \in Depths :
            frame'[b][d].n = IF b = c /\ d = 0 THEN issued[c] + 1 ELSE frame[b][d].n
      BY <1>1, StartPush
    <2> QED BY <1>1, <2>1, StartPush, PushAccounts
  <1>2. ASSUME NEW c \in Callers, Local(c) PROVE AccountsOK'
    BY <1>2, LocalStep, LocalAccounts DEF Moved
  <1>3. ASSUME NEW c \in Callers, Rollback(c), InverseOf[F(c).action] # NoAction
        PROVE  AccountsOK'
    <2>1. \A b \in Callers, d \in Depths :
            frame'[b][d].n =
                IF b = c /\ d = top[c] + 1 THEN issued[c] + 1 ELSE frame[b][d].n
      BY <1>3, RollbackPush
    <2>2. frame[c][top[c] + 1].n = 0
      BY <1>3, RollbackPush, DepthFacts DEF IInv, StackOK, FrameOK
    <2> QED BY <1>3, <2>1, <2>2, RollbackPush, PushAccounts
  <1>4. ASSUME NEW c \in Callers, Emit(c) PROVE AccountsOK'
    BY <1>4, EmitAccounts
  <1>5. ASSUME NEW c \in Callers, CallRaises(c) PROVE AccountsOK'
    BY <1>5, RaiseAccounts
  <1>6. CASE Tick \/ UNCHANGED vars
    BY <1>6, LocalAccounts DEF Tick, vars
  <1>7. ASSUME NEW c \in Callers, Run(c) PROVE AccountsOK'
    BY <1>2, <1>3, <1>4, <1>5, <1>7 DEF Run, Local
  <1> QED BY <1>1, <1>6, <1>7 DEF Next

(* Every event id is running, lost to an exception, or recorded exactly    *)
(* once: no refusal, failure or rollback path forgets its audit record or  *)
(* writes it twice (runner.py:53-122).                                     *)
THEOREM EveryCallIsAccounted == Spec => []EveryCallAccounted
  <1>1. Init => AccountsOK
    BY DEF Init, AccountsOK, AuditedIds, LiveIds, Id, Drawn, NoFrames, IdleFrame
  <1>2. AccountsOK => EveryCallAccounted
    BY DEF AccountsOK, EveryCallAccounted
  <1> QED BY <1>1, <1>2, AccountsInv, NestingInvariant, PTL DEF Spec

-----------------------------------------------------------------------------
(* The audit trail tells the truth.  The invariant says, for every point   *)
(* of execute, whether the frame has mutated the cluster by then.          *)
BeforeWrite == {"bounds", "inspect", "gate", "act", "write"}
AfterWrite  == {"poll", "sleep", "rollback", "nested"}
Settled     == {"close", "emit"}

EffectOK(c, d) ==
    LET f == frame[c][d] IN
        /\ f.pc \in BeforeWrite => ~ Mutated(Id(c, d))
        /\ f.pc \in AfterWrite => Mutated(Id(c, d))
        /\ f.pc \in Settled /\ f.outcome \in Untouched => ~ Mutated(Id(c, d))
        /\ f.pc \in Settled /\ f.outcome \in {"ok", "rolled_back"} => Mutated(Id(c, d))

EffectsOK ==
    /\ AuditTellsTheTruth
    /\ \A w \in writes : Drawn(w.id)
    /\ \A c \in Callers, d \in Depths : EffectOK(c, d)

LEMMA GotoResult ==
    ASSUME IInv, NEW c \in Callers, top[c] >= 0, NEW p, Goto(c, p)
    PROVE  /\ frame'[c][top[c]].pc = p
           /\ frame'[c][top[c]].outcome = F(c).outcome
  <1>1. top[c] \in Depths /\ F(c) \in FrameType
    BY RunningFacts
  <1>2. frame'[c][top[c]] = [F(c) EXCEPT !.pc = p]
    BY <1>1 DEF Goto, Step, IInv, TypeOK
  <1> QED BY <1>1, <1>2 DEF FrameType

LEMMA SettleResult ==
    ASSUME IInv, NEW c \in Callers, top[c] >= 0, NEW p, NEW o, Settle(c, p, o)
    PROVE  frame'[c][top[c]].pc = p /\ frame'[c][top[c]].outcome = o
  <1>1. top[c] \in Depths /\ F(c) \in FrameType
    BY RunningFacts
  <1>2. frame'[c][top[c]] = [F(c) EXCEPT !.pc = p, !.outcome = o]
    BY <1>1 DEF Settle, Step, IInv, TypeOK
  <1> QED BY <1>1, <1>2 DEF FrameType

(* Two live frames have different event ids.                               *)
LEMMA SameId ==
    ASSUME IInv, NEW b \in Callers, NEW c \in Callers,
           NEW d \in Depths, NEW e \in Depths,
           ~ (d > top[b]), ~ (e > top[c]), Id(b, d) = Id(c, e)
    PROVE  b = c /\ d = e
  <1>1. b = c /\ frame[b][d].n = frame[b][e].n
    BY DEF Id
  <1>2. FrameOK(b, d) /\ FrameOK(b, e)
    BY DEF IInv, StackOK
  <1>3. frame[b][d].n \in Nat /\ frame[b][e].n \in Nat /\ top[b] \in Depths \cup {-1}
    BY DEF IInv, TypeOK, FrameType
  <1>4. d < e => frame[b][d].n < frame[b][e].n
    BY <1>1, <1>2, <1>3, DepthFacts DEF FrameOK
  <1>5. e < d => frame[b][e].n < frame[b][d].n
    BY <1>1, <1>2, <1>3, DepthFacts DEF FrameOK
  <1> QED BY <1>1, <1>3, <1>4, <1>5, DepthFacts

(* A local step that writes nothing.                                       *)
LEMMA SilentEffects ==
    ASSUME IInv, EffectsOK, NEW c \in Callers, Local(c), UNCHANGED writes,
           EffectOK(c, top[c])'
    PROVE  EffectsOK'
  <1>1. UNCHANGED <<audit, raised, issued, top, ctx>> /\ Moved(c) /\ top[c] \in Depths
    BY LocalStep
  <1>2. ASSUME NEW b \in Callers, NEW d \in Depths PROVE EffectOK(b, d)'
    <2>1. CASE b = c /\ d = top[c]
      BY <2>1, <1>1
    <2>2. CASE ~ (b = c /\ d = top[c])
      <3>1. EffectOK(b, d) /\ frame'[b][d] = frame[b][d]
        BY <1>1, <2>2 DEF EffectsOK, Moved
      <3> QED BY <3>1 DEF EffectOK, Mutated, Id
    <2> QED BY <2>1, <2>2
  <1>3. AuditTellsTheTruth' /\ \A w \in writes' : Drawn(w.id)'
    BY <1>1 DEF EffectsOK, AuditTellsTheTruth, Mutated, Drawn
  <1> QED BY <1>2, <1>3 DEF EffectsOK

(* A local step that applies the frame's one mutation.                     *)
LEMMA WriteEffects ==
    ASSUME IInv, AccountsOK, EffectsOK, NEW c \in Callers, Local(c),
           F(c).pc \in BeforeWrite,
           NEW w, w.id = Id(c, top[c]), writes' = writes \cup {w},
           \/ frame'[c][top[c]].pc = "poll"
           \/ frame'[c][top[c]].pc = "close" /\ frame'[c][top[c]].outcome = "action_failed"
    PROVE  EffectsOK'
  <1>1. UNCHANGED <<audit, raised, issued, top, ctx>> /\ Moved(c) /\ top[c] \in Depths
    BY LocalStep
  <1>2. ~ Mutated(Id(c, top[c]))
    BY <1>1 DEF EffectsOK, EffectOK, F
  <1>3. Drawn(Id(c, top[c])) /\ Id(c, top[c]) \in LiveIds
    BY <1>1, LiveIdsFacts, DepthFacts
  <1>4. \A id : Mutated(id)' <=> Mutated(id) \/ id = Id(c, top[c])
    BY DEF Mutated
  <1>5. ASSUME NEW b \in Callers, NEW d \in Depths PROVE EffectOK(b, d)'
    <2>1. Id(b, d)' = Id(b, d)
      BY <1>1 DEF Moved, Id
    <2>2. CASE b = c /\ d = top[c]
      BY <1>1, <1>4, <2>1, <2>2
      DEF EffectOK, BeforeWrite, AfterWrite, Settled, Untouched
    <2>3. CASE ~ (b = c /\ d = top[c])
      <3>1. EffectOK(b, d) /\ frame'[b][d] = frame[b][d]
        BY <1>1, <2>3 DEF EffectsOK, Moved
      <3>2. CASE d > top[b]
        <4>1. frame[b][d].pc = "idle"
          BY <3>2 DEF IInv, StackOK, FrameOK
        <4> QED BY <3>1, <4>1 DEF EffectOK, BeforeWrite, AfterWrite, Settled
      <3>3. CASE ~ (d > top[b])
        <4>1. Id(b, d) # Id(c, top[c])
          <5>1. ~ (top[c] > top[c])
            BY <1>1, DepthFacts
          <5> QED BY <1>1, <2>3, <3>3, <5>1, SameId
        <4> QED BY <1>4, <2>1, <3>1, <4>1 DEF EffectOK
      <3> QED BY <3>2, <3>3
    <2> QED BY <2>2, <2>3
  <1>6. AuditTellsTheTruth'
    <2>1. \A k \in DOMAIN audit : audit[k].id # Id(c, top[c])
      BY <1>3 DEF AccountsOK, AuditedIds
    <2>2. \A u \in writes : u.id # w.id
      BY <1>2 DEF Mutated
    <2>3. \A u, v \in writes' : u.id = v.id => u = v
      BY <2>2 DEF EffectsOK, AuditTellsTheTruth
    <2>4. \A k \in DOMAIN audit' :
            /\ audit'[k].outcome \in Untouched => ~ Mutated(audit[k].id)'
            /\ audit'[k].outcome \in {"ok", "rolled_back"} => Mutated(audit[k].id)'
      BY <1>1, <1>4, <2>1 DEF EffectsOK, AuditTellsTheTruth
    <2> QED BY <1>1, <2>3, <2>4 DEF AuditTellsTheTruth, Mutated
  <1>7. \A u \in writes' : Drawn(u.id)'
    BY <1>1, <1>3 DEF EffectsOK, Drawn
  <1> QED BY <1>5, <1>6, <1>7 DEF EffectsOK

LEMMA LocalEffects ==
    ASSUME IInv, AccountsOK, EffectsOK, NEW c \in Callers, Local(c)
    PROVE  EffectsOK'
  <1> USE DEF BeforeWrite, AfterWrite, Settled, Untouched
  <1>1. /\ top[c] >= 0 /\ top[c] \in Depths /\ Moved(c)
        /\ EffectOK(c, top[c]) /\ F(c) \in FrameType
    BY LocalStep, RunningFacts DEF EffectsOK
  <1>2. Id(c, top[c])' = Id(c, top[c])
    BY <1>1, LocalStep DEF Moved, Id
  <1>3. ASSUME UNCHANGED writes,
               F(c).pc \in BeforeWrite, frame'[c][top[c]].pc \in BeforeWrite
        PROVE  EffectsOK'
    <2>1. EffectOK(c, top[c])'
      BY <1>1, <1>2, <1>3, LocalStep DEF EffectOK, F, Mutated
    <2> QED BY <1>3, <2>1, SilentEffects
  <1>4. ASSUME UNCHANGED writes,
               F(c).pc \in BeforeWrite, frame'[c][top[c]].pc \in Settled,
               frame'[c][top[c]].outcome \notin {"ok", "rolled_back"}
        PROVE  EffectsOK'
    <2>1. EffectOK(c, top[c])'
      BY <1>1, <1>2, <1>4, LocalStep DEF EffectOK, F, Mutated
    <2> QED BY <1>4, <2>1, SilentEffects
  <1>5. ASSUME UNCHANGED writes,
               F(c).pc \in AfterWrite,
               \/ frame'[c][top[c]].pc \in AfterWrite
               \/ /\ frame'[c][top[c]].pc \in Settled
                  /\ frame'[c][top[c]].outcome \notin Untouched
        PROVE  EffectsOK'
    <2>1. EffectOK(c, top[c])'
      BY <1>1, <1>2, <1>5, LocalStep DEF EffectOK, F, Mutated
    <2> QED BY <1>5, <2>1, SilentEffects
  <1>6. CASE CheckBounds(c)
    <2>1. F(c).pc = "bounds" /\ UNCHANGED writes
      BY <1>6 DEF CheckBounds, At
    <2>2. CASE Settle(c, "emit", "refused")
      BY <1>1, <1>4, <2>1, <2>2, SettleResult
    <2>3. CASE Goto(c, "inspect")
      BY <1>1, <1>3, <2>1, <2>3, GotoResult
    <2> QED BY <1>6, <2>2, <2>3 DEF CheckBounds
  <1>7. CASE Inspect(c)
    <2>1. F(c).pc = "inspect" /\ UNCHANGED writes
      BY <1>7 DEF Inspect, At
    <2>2. PICK age \in RevisionAges :
            Step(c, [F(c) EXCEPT !.pc = "gate", !.age = age,
                        !.tier = Adjust(Baseline(Class(c)), Site(c, age))])
      BY <1>7 DEF Inspect
    <2> DEFINE r == [F(c) EXCEPT !.pc = "gate", !.age = age,
                        !.tier = Adjust(Baseline(Class(c)), Site(c, age))]
    <2>3. r.pc = "gate"
      BY <1>1 DEF FrameType
    <2> HIDE DEF r
    <2>4. frame'[c][top[c]] = r
      BY <1>1, <2>2 DEF Step, IInv, TypeOK, r
    <2> QED BY <1>3, <2>1, <2>3, <2>4
  <1>8. CASE Gate(c)
    <2>1. F(c).pc = "gate" /\ UNCHANGED writes
      BY <1>8 DEF Gate, At
    <2>2. CASE Settle(c, "emit", "refused_human_required")
      BY <1>1, <1>4, <2>1, <2>2, SettleResult
    <2>3. CASE Settle(c, "emit", "dry_run_ok")
      BY <1>1, <1>4, <2>1, <2>3, SettleResult
    <2>4. CASE Goto(c, "act")
      BY <1>1, <1>3, <2>1, <2>4, GotoResult
    <2> QED BY <1>8, <2>2, <2>3, <2>4 DEF Gate
  <1>9. CASE Patch(c)
    <2> DEFINE w == NewWrite(c, replicas[Req(c).dep], replicas[Req(c).dep])
    <2>1. /\ F(c).pc = "act" /\ Goto(c, "poll")
          /\ writes' = writes \cup {w}
      BY <1>9 DEF Patch, At
    <2>2. w.id = Id(c, top[c])
      BY DEF NewWrite
    <2>3. frame'[c][top[c]].pc = "poll"
      BY <1>1, <2>1, GotoResult
    <2> HIDE DEF w
    <2> QED BY <2>1, <2>2, <2>3, WriteEffects
  <1>10. CASE ReadReplicas(c)
    <2>1. F(c).pc = "act" /\ UNCHANGED writes
      BY <1>10 DEF ReadReplicas, At
    <2>2. CASE Settle(c, "close", "action_failed")
      BY <1>1, <1>4, <2>1, <2>2, SettleResult
    <2>3. ASSUME NEW m, NEW t, Step(c, [F(c) EXCEPT !.pc = "write", !.from = m, !.target = t])
          PROVE  EffectsOK'
      <3> DEFINE r == [F(c) EXCEPT !.pc = "write", !.from = m, !.target = t]
      <3>1. r.pc = "write"
        BY <1>1 DEF FrameType
      <3> HIDE DEF r
      <3>2. frame'[c][top[c]] = r
        BY <1>1, <2>3 DEF Step, IInv, TypeOK, r
      <3> QED BY <1>3, <2>1, <3>1, <3>2
    <2> QED BY <1>10, <2>2, <2>3 DEF ReadReplicas
  <1>11. CASE WriteReplicas(c)
    <2> DEFINE w == NewWrite(c, F(c).from, F(c).target)
    <2>1. /\ F(c).pc = "write" /\ Goto(c, "poll")
          /\ writes' = writes \cup {w}
      BY <1>11 DEF WriteReplicas, At
    <2>2. w.id = Id(c, top[c])
      BY DEF NewWrite
    <2>3. frame'[c][top[c]].pc = "poll"
      BY <1>1, <2>1, GotoResult
    <2> HIDE DEF w
    <2> QED BY <2>1, <2>2, <2>3, WriteEffects
  <1>12. CASE HandlerRaises(c)
    <2>1. F(c).pc \in {"act", "write"} /\ Settle(c, "close", "action_failed")
      BY <1>12 DEF HandlerRaises, At
    <2>2. frame'[c][top[c]].pc = "close" /\ frame'[c][top[c]].outcome = "action_failed"
      BY <1>1, <2>1, SettleResult
    <2>3. CASE UNCHANGED writes
      BY <1>4, <2>1, <2>2, <2>3
    <2>4. ASSUME NEW m, NEW n, writes' = writes \cup {NewWrite(c, m, n)}
          PROVE  EffectsOK'
      <3> DEFINE w == NewWrite(c, m, n)
      <3>1. w.id = Id(c, top[c])
        BY DEF NewWrite
      <3> HIDE DEF w
      <3>2. writes' = writes \cup {w}
        BY <2>4 DEF w
      <3> QED BY <2>1, <2>2, <3>1, <3>2, WriteEffects
    <2> QED BY <1>12, <2>3, <2>4 DEF HandlerRaises
  <1>13. CASE Poll(c)
    <2>1. F(c).pc = "poll" /\ UNCHANGED writes
      BY <1>13 DEF Poll, At
    <2>2. CASE Settle(c, "close", "ok")
      BY <1>1, <1>5, <2>1, <2>2, SettleResult
    <2>3. CASE Goto(c, "rollback")
      BY <1>1, <1>5, <2>1, <2>3, GotoResult
    <2>4. CASE Step(c, [F(c) EXCEPT !.pc = "sleep", !.wake = now + PollInterval])
      <3> DEFINE r == [F(c) EXCEPT !.pc = "sleep", !.wake = now + PollInterval]
      <3>1. r.pc = "sleep"
        BY <1>1 DEF FrameType
      <3> HIDE DEF r
      <3>2. frame'[c][top[c]] = r
        BY <1>1, <2>4 DEF Step, IInv, TypeOK, r
      <3> QED BY <1>5, <2>1, <3>1, <3>2
    <2> QED BY <1>13, <2>2, <2>3, <2>4 DEF Poll
  <1>14. CASE Wake(c)
    <2>1. F(c).pc = "sleep" /\ UNCHANGED writes /\ Goto(c, "poll")
      BY <1>14 DEF Wake, At
    <2> QED BY <1>1, <1>5, <2>1, GotoResult
  <1>15. CASE Close(c)
    <2>1. F(c).pc = "close" /\ UNCHANGED writes /\ Goto(c, "emit")
      BY <1>15 DEF Close, At
    <2>2. /\ frame'[c][top[c]].pc = "emit"
          /\ frame'[c][top[c]].outcome = F(c).outcome
      BY <1>1, <2>1, GotoResult
    <2>3. EffectOK(c, top[c])'
      BY <1>1, <1>2, <2>1, <2>2, LocalStep DEF EffectOK, F, Mutated
    <2> QED BY <2>1, <2>3, SilentEffects
  <1>16. CASE Rollback(c) /\ InverseOf[F(c).action] = NoAction
    <2>1. /\ F(c).pc = "rollback" /\ UNCHANGED writes
          /\ Settle(c, "close", "rolled_back")
      BY <1>16 DEF Rollback, At
    <2> QED BY <1>1, <1>5, <2>1, SettleResult
  <1> QED BY <1>6, <1>7, <1>8, <1>9, <1>10, <1>11, <1>12, <1>13, <1>14, <1>15, <1>16
       DEF Local

(* A frame that has just drawn its id has written nothing under it.        *)
LEMMA FreshUnmutated ==
    ASSUME IInv, EffectsOK, NEW c \in Callers
    PROVE  ~ Mutated(<<c, issued[c] + 1>>)
  <1>1. issued[c] \in Nat
    BY DEF IInv, TypeOK
  <1>2. ~ Drawn(<<c, issued[c] + 1>>)
    BY <1>1 DEF Drawn
  <1> QED BY <1>2 DEF EffectsOK, Mutated

LEMMA PushEffects ==
    ASSUME IInv, EffectsOK, NEW c \in Callers, NEW t \in Depths,
           UNCHANGED <<audit, writes>>,
           issued' = [issued EXCEPT ![c] = @ + 1],
           \A b \in Callers, d \in Depths :
                /\ b = c /\ d = t =>
                        frame'[b][d].n = issued[c] + 1 /\ frame'[b][d].pc = "bounds"
                /\ b # c \/ d # t =>
                        \/ frame'[b][d] = frame[b][d]
                        \/ /\ frame'[b][d].n = frame[b][d].n
                           /\ frame[b][d].pc = "rollback" /\ frame'[b][d].pc = "nested"
    PROVE  EffectsOK'
  <1>1. ASSUME NEW b \in Callers, NEW d \in Depths PROVE EffectOK(b, d)'
    <2>1. CASE b = c /\ d = t
      <3>1. ~ \E w \in writes' : w.id = <<c, issued[c] + 1>>
        BY FreshUnmutated DEF Mutated
      <3>2. frame'[b][d].n = issued[c] + 1 /\ frame'[b][d].pc = "bounds"
        BY <2>1
      <3>3. ~ Mutated(Id(b, d))'
        BY <2>1, <3>1, <3>2 DEF Mutated, Id
      <3> QED BY <3>2, <3>3 DEF EffectOK, AfterWrite, Settled
    <2>2. CASE ~ (b = c /\ d = t)
      <3>1. EffectOK(b, d)
        BY DEF EffectsOK
      <3>2. CASE frame'[b][d] = frame[b][d]
        BY <3>1, <3>2 DEF EffectOK, Id, Mutated
      <3>3. CASE /\ frame'[b][d].n = frame[b][d].n
                 /\ frame[b][d].pc = "rollback" /\ frame'[b][d].pc = "nested"
        BY <3>1, <3>3
        DEF EffectOK, Id, Mutated, BeforeWrite, AfterWrite, Settled
      <3> QED BY <2>2, <3>2, <3>3
    <2> QED BY <2>1, <2>2
  <1>2. AuditTellsTheTruth'
    BY DEF EffectsOK, AuditTellsTheTruth, Mutated
  <1>3. \A w \in writes' : Drawn(w.id)'
    <2>1. ASSUME NEW w \in writes PROVE Drawn(w.id)'
      <3>1. w.id \in Ids /\ Drawn(w.id)
        BY DEF IInv, TypeOK, WriteType, EffectsOK
      <3> QED BY <3>1 DEF Drawn, Ids, IInv, TypeOK
    <2> QED BY <2>1
  <1> QED BY <1>1, <1>2, <1>3 DEF EffectsOK

LEMMA EmitEffects ==
    ASSUME IInv, EffectsOK, NEW c \in Callers, Emit(c)
    PROVE  EffectsOK'
  <1>1. /\ top[c] \in Depths /\ F(c).pc = "emit"
        /\ audit' = Append(audit, NewEvent(c))
        /\ UNCHANGED <<raised, issued, writes, ledger>>
        /\ \A b \in Callers, d \in Depths :
                /\ b = c /\ d >= top[c] => frame'[b][d].n = 0 /\ frame'[b][d].pc = "idle"
                /\ b = c /\ d < top[c] => frame'[b][d].n = frame[b][d].n
                /\ b = c /\ d + 1 = top[c] =>
                        frame'[b][d].pc = "close" /\ frame'[b][d].outcome = "rolled_back"
                /\ b # c \/ d + 1 < top[c] => frame'[b][d] = frame[b][d]
    BY EmitIds
  <1>2. ASSUME NEW b \in Callers, NEW d \in Depths PROVE EffectOK(b, d)'
    <2>1. EffectOK(b, d) /\ FrameOK(b, d)
      BY DEF EffectsOK, IInv, StackOK
    <2>2. CASE b = c /\ d >= top[c]
      BY <1>1, <2>2 DEF EffectOK, BeforeWrite, AfterWrite, Settled
    <2>3. CASE b = c /\ d + 1 = top[c]
      <3>1. frame[b][d].pc = "nested" /\ d < top[c]
        BY <2>1, <2>3, <1>1, DepthFacts DEF FrameOK
      <3>2. Mutated(Id(b, d))
        BY <2>1, <3>1 DEF EffectOK, AfterWrite
      <3>3. Mutated(Id(b, d))'
        BY <1>1, <2>3, <3>1, <3>2 DEF Mutated, Id
      <3> QED BY <1>1, <2>3, <3>3 DEF EffectOK, BeforeWrite, AfterWrite, Untouched
    <2>4. CASE b # c \/ d + 1 < top[c]
      BY <1>1, <2>1, <2>4 DEF EffectOK, Id, Mutated
    <2> QED BY <1>1, <2>2, <2>3, <2>4, DepthFacts
  <1>3. AuditTellsTheTruth'
    <2>1. /\ Len(audit) \in Nat /\ DOMAIN audit = 1 .. Len(audit)
          /\ DOMAIN audit' = 1 .. Len(audit) + 1
          /\ audit'[Len(audit) + 1] = NewEvent(c)
          /\ \A k \in 1 .. Len(audit) : audit'[k] = audit[k]
      BY <1>1 DEF IInv, TypeOK
    <2>2. NewEvent(c).id = Id(c, top[c]) /\ NewEvent(c).outcome = F(c).outcome
      BY DEF NewEvent
    <2>3. /\ NewEvent(c).outcome \in Untouched => ~ Mutated(NewEvent(c).id)
          /\ NewEvent(c).outcome \in {"ok", "rolled_back"} => Mutated(NewEvent(c).id)
      BY <1>1, <2>2 DEF EffectsOK, EffectOK, F, Settled
    <2>4. \A k \in DOMAIN audit' :
            /\ audit'[k].outcome \in Untouched => ~ Mutated(audit'[k].id)
            /\ audit'[k].outcome \in {"ok", "rolled_back"} => Mutated(audit'[k].id)
      BY <2>1, <2>3 DEF EffectsOK, AuditTellsTheTruth
    <2> QED BY <1>1, <2>4 DEF EffectsOK, AuditTellsTheTruth, Mutated
  <1>4. \A w \in writes' : Drawn(w.id)'
    BY <1>1 DEF EffectsOK, Drawn
  <1> QED BY <1>2, <1>3, <1>4 DEF EffectsOK

LEMMA EffectsInv == IInv /\ AccountsOK /\ EffectsOK /\ [Next]_vars => EffectsOK'
  <1> SUFFICES ASSUME IInv, AccountsOK, EffectsOK, [Next]_vars PROVE EffectsOK'
    OBVIOUS
  <1>1. ASSUME NEW c \in Callers, Start(c) PROVE EffectsOK'
    BY <1>1, StartPush, PushEffects
  <1>2. ASSUME NEW c \in Callers, Rollback(c), InverseOf[F(c).action] # NoAction
        PROVE  EffectsOK'
    <2>1. \A b \in Callers, d \in Depths :
            /\ b = c /\ d = top[c] + 1 =>
                    frame'[b][d].n = issued[c] + 1 /\ frame'[b][d].pc = "bounds"
            /\ b # c \/ d # top[c] + 1 =>
                    \/ frame'[b][d] = frame[b][d]
                    \/ /\ frame'[b][d].n = frame[b][d].n
                       /\ frame[b][d].pc = "rollback" /\ frame'[b][d].pc = "nested"
      BY <1>2, RollbackPush DEF F
    <2> QED BY <1>2, <2>1, RollbackPush, PushEffects
  <1>3. ASSUME NEW c \in Callers, CallRaises(c) PROVE EffectsOK'
    <2>1. /\ frame' = [frame EXCEPT ![c] = NoFrames]
          /\ UNCHANGED <<audit, writes, issued>>
      BY <1>3 DEF CallRaises, Raise
    <2>2. \A d \in Depths : NoFrames[d].pc = "idle"
      BY DEF NoFrames, IdleFrame
    <2>3. ASSUME NEW b \in Callers, NEW d \in Depths PROVE EffectOK(b, d)'
      <3>1. CASE b = c
        BY <2>1, <2>2, <3>1
        DEF EffectOK, BeforeWrite, AfterWrite, Settled, IInv, TypeOK
      <3>2. CASE b # c
        BY <2>1, <3>2 DEF EffectsOK, EffectOK, Id, Mutated, IInv, TypeOK
      <3> QED BY <3>1, <3>2
    <2> QED BY <2>1, <2>3 DEF EffectsOK, AuditTellsTheTruth, Mutated, Drawn
  <1>4. CASE Tick \/ UNCHANGED vars
    BY <1>4 DEF Tick, vars, EffectsOK, AuditTellsTheTruth, EffectOK, Mutated, Drawn, Id
  <1>5. ASSUME NEW c \in Callers, Run(c) PROVE EffectsOK'
    BY <1>2, <1>3, <1>5, LocalEffects, EmitEffects DEF Run, Local
  <1> QED BY <1>1, <1>4, <1>5 DEF Next

(* An audit record that says refused or dry run is never followed or       *)
(* preceded by a mutation of its call, one that says ok or rolled back     *)
(* always is, and no call mutates the cluster twice (runner.py:53-122).    *)
THEOREM AuditIsTruthful == Spec => []AuditTellsTheTruth
  <1>1. Init => AccountsOK
    BY DEF Init, AccountsOK, AuditedIds, LiveIds, Id, Drawn, NoFrames, IdleFrame
  <1>2. Init => EffectsOK
    BY DEF Init, EffectsOK, AuditTellsTheTruth, EffectOK, NoFrames, IdleFrame,
       BeforeWrite, AfterWrite, Settled
  <1>3. EffectsOK => AuditTellsTheTruth
    BY DEF EffectsOK
  <1> QED BY <1>1, <1>2, <1>3, AccountsInv, EffectsInv, NestingInvariant, PTL DEF Spec
=============================================================================
