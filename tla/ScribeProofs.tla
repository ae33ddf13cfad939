----------------------------- MODULE ScribeProofs -----------------------------
(***************************************************************************)
(* Proofs about Scribe, for every finite number of tasks, every set of     *)
(* messages, both sinks and every setting of the nudges.                   *)
(***************************************************************************)
EXTENDS Scribe, FiniteSetTheorems, TLAPS

(* The tasks whose event is on its way.                                    *)
InFlight(i, a) ==
    {t \in Tasks : /\ task[t].pc = "auditing"
                   /\ task[t].event.incident = i
                   /\ task[t].event.action = a}

Pairs == Incidents \X Actions

Balanced ==
    \A i \in Incidents, a \in Actions :
        /\ trail[<<i, a>>] + missed[<<i, a>>] + Cardinality(InFlight(i, a)) = Due(i, a)
        /\ sink = "stdout" => missed[<<i, a>>] = 0 /\ InFlight(i, a) = {}

(* A timeline and the nudge count are what was done to them, and on        *)
(* standard output every nudge that was counted has been handed back.      *)
Kept ==
    \A i \in Incidents :
        /\ Len(timeline[i]) = happened[<<i, "stored">>]
        /\ nudges[i] = happened[<<i, "nudged">>]

HandedBack == sink = "stdout" => \A i \in Incidents : posted[i] = nudges[i]

Budget ==
    \A i \in Incidents :
        /\ posted[i] + Cardinality(InFlight(i, "nudge_posted")) <= nudges[i]
        /\ nudges[i] <= NudgeMax

(* What a task that drafts holds is the event of the draft.                *)
Drafts ==
    \A t \in Tasks : task[t].pc = "drafting" => task[t].event.action = "draft_generated"

SInv == STypeOK /\ Balanced /\ Kept /\ HandedBack /\ Budget /\ Drafts

LEMMA InFlightFinite ==
    ASSUME NEW i, NEW a
    PROVE  /\ IsFiniteSet(InFlight(i, a)) /\ Cardinality(InFlight(i, a)) \in Nat
           /\ IsFiniteSet(InFlight(i, a)') /\ Cardinality(InFlight(i, a)') \in Nat
  <1>1. InFlight(i, a) \subseteq Tasks /\ InFlight(i, a)' \subseteq Tasks
    BY DEF InFlight
  <1> QED BY <1>1, ScribeAssumption, FS_Subset, FS_CardinalityType

LEMMA IdleType == Idle \in TaskType /\ Idle.pc = "idle"
  BY DEF Idle, TaskType

LEMMA EventFacts ==
    ASSUME NEW i \in Incidents, NEW a \in Actions
    PROVE  Event(i, a) \in EventType /\ Event(i, a).incident = i /\ Event(i, a).action = a
  BY DEF Event, EventType

LEMMA AuditingTask ==
    ASSUME STypeOK, NEW t \in Tasks, task[t].pc # "idle"
    PROVE  task[t].event \in EventType /\ task[t].pc \in {"drafting", "auditing"}
  BY DEF STypeOK, TaskType

-----------------------------------------------------------------------------
(* A task that has nothing on its way, before and after.                   *)
LEMMA NothingOnItsWay ==
    ASSUME STypeOK, NEW t \in Tasks, NEW new, new.pc # "auditing", task[t].pc # "auditing",
           task' = [task EXCEPT ![t] = new], NEW i, NEW a
    PROVE  InFlight(i, a)' = InFlight(i, a)
  BY DEF STypeOK, InFlight

(* One more for the incident and action of an event, nothing for another.  *)
One(e, i, a) == IF i = e.incident /\ a = e.action THEN 1 ELSE 0

LEMMA OneFacts == ASSUME NEW e, NEW i, NEW a PROVE One(e, i, a) \in Nat
  BY DEF One

Counted(i, a) == trail[<<i, a>>] + Cardinality(InFlight(i, a))

(* An event leaves the task, and is at the sink or on its way.             *)
LEMMA EmitTypes ==
    ASSUME STypeOK, NEW t \in Tasks, NEW e \in EventType, Emit(t, e)
    PROVE  /\ task' \in [Tasks -> TaskType]
           /\ trail' \in [Pairs -> Nat] /\ posted' \in [Incidents -> Nat]
  <1> USE DEF STypeOK, Pairs
  <1>1. e.incident \in Incidents /\ e.action \in Actions
    BY DEF EventType
  <1>2. Idle \in TaskType /\ [pc |-> "auditing", event |-> e] \in TaskType
    BY IdleType DEF TaskType
  <1>3. CASE sink = "stdout"
    <2>1. /\ trail' = [trail EXCEPT ![<<e.incident, e.action>>] = @ + 1]
          /\ task' = [task EXCEPT ![t] = Idle]
          /\ HandBack(e)
      BY <1>3 DEF Emit
    <2>2. posted' \in [Incidents -> Nat]
      <3>1. CASE e.action = "nudge_posted"
        BY <1>1, <2>1, <3>1 DEF HandBack
      <3>2. CASE e.action # "nudge_posted"
        BY <2>1, <3>2 DEF HandBack
      <3> QED BY <3>1, <3>2
    <2>3. trail' \in [Pairs -> Nat]
      BY <1>1, <2>1
    <2>4. task' \in [Tasks -> TaskType]
      BY <1>2, <2>1
    <2> QED BY <2>2, <2>3, <2>4
  <1>4. CASE sink # "stdout"
    BY <1>2, <1>4 DEF Emit
  <1> QED BY <1>3, <1>4

LEMMA EmitAdds ==
    ASSUME SInv, NEW t \in Tasks, task[t].pc # "auditing",
           NEW e \in EventType, Emit(t, e), NEW i \in Incidents, NEW a \in Actions
    PROVE  /\ Counted(i, a)' = Counted(i, a) + One(e, i, a)
           /\ sink = "stdout" => InFlight(i, a)' = {}
           /\ a = "nudge_posted" =>
                  posted'[i] + Cardinality(InFlight(i, a)')
                    = posted[i] + Cardinality(InFlight(i, a)) + One(e, i, a)
  <1> USE DEF SInv, STypeOK, Pairs
  <1>0. /\ e.incident \in Incidents /\ e.action \in Actions
        /\ trail[<<i, a>>] \in Nat /\ posted[i] \in Nat
        /\ Cardinality(InFlight(i, a)) \in Nat /\ One(e, i, a) \in Nat
    BY InFlightFinite, OneFacts DEF EventType
  <1>1. CASE sink = "stdout"
    <2>1. /\ trail' = [trail EXCEPT ![<<e.incident, e.action>>] = @ + 1]
          /\ task' = [task EXCEPT ![t] = Idle]
          /\ HandBack(e)
      BY <1>1 DEF Emit
    <2>2. InFlight(i, a)' = InFlight(i, a) /\ InFlight(i, a) = {}
      BY <1>1, <2>1, IdleType, NothingOnItsWay DEF Balanced
    <2>3. CASE i = e.incident /\ a = e.action
      <3>1. trail'[<<i, a>>] = trail[<<i, a>>] + 1 /\ One(e, i, a) = 1
        BY <1>0, <2>1, <2>3 DEF One
      <3>2. a = "nudge_posted" => posted'[i] = posted[i] + 1
        BY <1>0, <2>1, <2>3 DEF HandBack
      <3>3. Counted(i, a)' = Counted(i, a) + One(e, i, a)
        BY ONLY <1>0, <2>2, <3>1 DEF Counted
      <3> QED BY ONLY <1>0, <2>2, <3>1, <3>2, <3>3
    <2>4. CASE ~ (i = e.incident /\ a = e.action)
      <3>1. <<i, a>> # <<e.incident, e.action>>
        BY <2>4
      <3>2. trail'[<<i, a>>] = trail[<<i, a>>] /\ One(e, i, a) = 0
        BY <1>0, <2>1, <2>4, <3>1 DEF One
      <3>3. a = "nudge_posted" => posted'[i] = posted[i]
        BY <1>0, <2>1, <2>4 DEF HandBack
      <3> QED BY <1>0, <2>2, <3>2, <3>3 DEF Counted
    <2> QED BY <2>3, <2>4
  <1>2. CASE sink # "stdout"
    <2> DEFINE new == [pc |-> "auditing", event |-> e]
    <2>1. task' = [task EXCEPT ![t] = new] /\ UNCHANGED <<trail, posted>>
      BY <1>2 DEF Emit
    <2>2. \A u \in Tasks : task'[u] = IF u = t THEN new ELSE task[u]
      BY <2>1
    <2>3. CASE i = e.incident /\ a = e.action
      <3>1. InFlight(i, a)' = InFlight(i, a) \cup {t} /\ t \notin InFlight(i, a)
        BY <2>2, <2>3 DEF InFlight
      <3>2. Cardinality(InFlight(i, a)') = Cardinality(InFlight(i, a)) + 1
        BY <3>1, InFlightFinite, FS_AddElement
      <3>3. One(e, i, a) = 1
        BY <2>3 DEF One
      <3>4. Counted(i, a)' = Counted(i, a) + One(e, i, a)
        BY ONLY <1>0, <2>1, <3>2, <3>3 DEF Counted
      <3> QED BY ONLY <1>0, <1>2, <2>1, <3>2, <3>3, <3>4
    <2>4. CASE ~ (i = e.incident /\ a = e.action)
      <3>1. t \notin InFlight(i, a)' /\ t \notin InFlight(i, a)
        BY <2>2, <2>4 DEF InFlight
      <3>5. \A u \in Tasks : u # t => (u \in InFlight(i, a)' <=> u \in InFlight(i, a))
        BY <2>2 DEF InFlight
      <3>6. InFlight(i, a) \subseteq Tasks /\ InFlight(i, a)' \subseteq Tasks
        BY DEF InFlight
      <3>7. InFlight(i, a)' = InFlight(i, a)
        BY ONLY <3>1, <3>5, <3>6
      <3>2. One(e, i, a) = 0
        BY <2>4 DEF One
      <3> QED BY <1>0, <1>2, <2>1, <3>7, <3>2 DEF Counted
    <2> QED BY <2>3, <2>4
  <1> QED BY <1>1, <1>2

(* An event arrives, or is lost, and is no longer on its way.              *)
LEMMA ArrivalRemoves ==
    ASSUME SInv, NEW t \in Tasks, task[t].pc = "auditing", task' = [task EXCEPT ![t] = Idle],
           NEW i \in Incidents, NEW a \in Actions
    PROVE  /\ Cardinality(InFlight(i, a)) =
                  Cardinality(InFlight(i, a)') + One(task[t].event, i, a)
           /\ sink = "stdout" => FALSE
  <1> USE DEF SInv, STypeOK
  <1> DEFINE e == task[t].event
  <1>0. e.incident \in Incidents /\ e.action \in Actions
    BY AuditingTask DEF EventType
  <1>1. sink # "stdout"
    <2>1. t \in InFlight(e.incident, e.action)
      BY DEF InFlight
    <2> QED BY <1>0, <2>1 DEF Balanced
  <1>2. \A u \in Tasks : task'[u] = IF u = t THEN Idle ELSE task[u]
    OBVIOUS
  <1>3. CASE i = e.incident /\ a = e.action
    <2>1. InFlight(i, a)' = InFlight(i, a) \ {t} /\ t \in InFlight(i, a)
      BY <1>2, <1>3, IdleType DEF InFlight
    <2>2. Cardinality(InFlight(i, a)') = Cardinality(InFlight(i, a)) - 1
      BY <2>1, InFlightFinite, FS_RemoveElement
    <2>3. One(e, i, a) = 1
      BY <1>3 DEF One
    <2> QED BY <1>1, <2>2, <2>3, InFlightFinite
  <1>4. CASE ~ (i = e.incident /\ a = e.action)
    <2>1. InFlight(i, a)' = InFlight(i, a)
      BY <1>2, <1>4, IdleType DEF InFlight
    <2>2. One(e, i, a) = 0
      BY <1>4 DEF One
    <2> QED BY <1>1, <2>1, <2>2, InFlightFinite
  <1> QED BY <1>3, <1>4

-----------------------------------------------------------------------------
LEMMA DueFacts ==
    ASSUME NEW i
    PROVE  /\ Due(i, "message_classified") = happened[<<i, "stored">>]
           /\ Due(i, "nudge_posted") = happened[<<i, "nudged">>]
           /\ Due(i, "draft_generated") = happened[<<i, "drafted">>]
           /\ Due(i, "message_classified")' = happened'[<<i, "stored">>]
           /\ Due(i, "nudge_posted")' = happened'[<<i, "nudged">>]
           /\ Due(i, "draft_generated")' = happened'[<<i, "drafted">>]
  BY DEF Due

LEMMA DeedCount ==
    ASSUME STypeOK, NEW i \in Incidents, NEW x \in Deeds
    PROVE  happened[<<i, x>>] \in Nat
  <1>1. <<i, x>> \in Incidents \X Deeds
    OBVIOUS
  <1> QED BY <1>1 DEF STypeOK

(* One deed more, and no other.                                            *)
LEMMA DoneFacts ==
    ASSUME STypeOK, NEW i0 \in Incidents, NEW deed \in Deeds, Done(i0, deed)
    PROVE  /\ happened' \in [Incidents \X Deeds -> Nat]
           /\ happened'[<<i0, deed>>] = happened[<<i0, deed>>] + 1
           /\ \A i \in Incidents, x \in Deeds :
                i # i0 \/ x # deed => happened'[<<i, x>>] = happened[<<i, x>>]
  <1> DEFINE P == Incidents \X Deeds
             q == <<i0, deed>>
  <1>1. happened \in [P -> Nat] /\ q \in P /\ happened' = [happened EXCEPT ![q] = @ + 1]
    BY DEF STypeOK, Done
  <1>2. /\ happened' \in [P -> Nat] /\ happened'[q] = happened[q] + 1
        /\ \A r \in P : r # q => happened'[r] = happened[r]
    <2> HIDE DEF P, q
    <2> QED BY <1>1
  <1>3. \A i \in Incidents, x \in Deeds : i # i0 \/ x # deed =>
            <<i, x>> \in P /\ <<i, x>> # q
    OBVIOUS
  <1> HIDE DEF P
  <1>4. \A i \in Incidents, x \in Deeds :
            i # i0 \/ x # deed => happened'[<<i, x>>] = happened[<<i, x>>]
    BY <1>2, <1>3
  <1> QED BY <1>2, <1>4 DEF P

(* The deed that each event tells of.                                      *)
DeedOf == [a \in Actions |->
    CASE a = "message_classified" -> "stored"
      [] a = "nudge_posted"       -> "nudged"
      [] a = "draft_generated"    -> "drafted"]

LEMMA DeedFacts ==
    ASSUME NEW i, NEW a \in Actions
    PROVE  /\ DeedOf[a] \in Deeds
           /\ Due(i, a) = happened[<<i, DeedOf[a]>>]
           /\ Due(i, a)' = happened'[<<i, DeedOf[a]>>]
           /\ \A b \in Actions : DeedOf[a] = DeedOf[b] => a = b
           /\ DeedOf[a] \notin {"unreadable", "drafted nothing"}
  BY DueFacts DEF Actions, Deeds, DeedOf

LEMMA DueType ==
    ASSUME STypeOK, NEW i \in Incidents, NEW a \in Actions
    PROVE  Due(i, a) \in Nat
  BY DeedFacts, DeedCount

(* The deed of an event makes it due.                                      *)
LEMMA DoneIsDue ==
    ASSUME STypeOK, NEW e \in EventType, Done(e.incident, DeedOf[e.action])
    PROVE  /\ happened' \in [Incidents \X Deeds -> Nat]
           /\ \A i \in Incidents, a \in Actions : Due(i, a)' = Due(i, a) + One(e, i, a)
  <1>1. e.incident \in Incidents /\ e.action \in Actions /\ DeedOf[e.action] \in Deeds
    BY DeedFacts DEF EventType
  <1>2. ASSUME NEW i \in Incidents, NEW a \in Actions
        PROVE  Due(i, a)' = Due(i, a) + One(e, i, a)
    <2>0. /\ Due(i, a) \in Nat /\ DeedOf[a] \in Deeds
          /\ Due(i, a) = happened[<<i, DeedOf[a]>>]
          /\ Due(i, a)' = happened'[<<i, DeedOf[a]>>]
      BY DueType, DeedFacts
    <2>1. CASE i = e.incident /\ a = e.action
      <3>1. One(e, i, a) = 1
        BY <2>1 DEF One
      <3>2. happened'[<<i, DeedOf[a]>>] = happened[<<i, DeedOf[a]>>] + 1
        BY <1>1, <2>1, DoneFacts
      <3> QED BY <2>0, <3>1, <3>2
    <2>2. CASE ~ (i = e.incident /\ a = e.action)
      <3>1. One(e, i, a) = 0
        BY <2>2 DEF One
      <3>2. i # e.incident \/ DeedOf[a] # DeedOf[e.action]
        BY <1>1, <2>2, DeedFacts
      <3>3. happened'[<<i, DeedOf[a]>>] = happened[<<i, DeedOf[a]>>]
        BY <1>1, <2>0, <3>2, DoneFacts
      <3> QED BY <2>0, <3>1, <3>3
    <2> QED BY <2>1, <2>2
  <1> QED BY <1>1, <1>2, DoneFacts

(* Something happens that is due the event e, and e is emitted.            *)
LEMMA EmittedStep ==
    ASSUME SInv, STypeOK', NEW t \in Tasks, task[t].pc # "auditing",
           NEW e \in EventType, Emit(t, e), missed' = missed,
           \A i \in Incidents, a \in Actions : Due(i, a)' = Due(i, a) + One(e, i, a),
           \A i \in Incidents : nudges'[i] <= NudgeMax, sink' = sink, Kept'
    PROVE  SInv'
  <1>1. Balanced'
    <2> SUFFICES ASSUME NEW i \in Incidents, NEW a \in Actions
                 PROVE  /\ trail'[<<i, a>>] + missed'[<<i, a>>] + Cardinality(InFlight(i, a)')
                              = Due(i, a)'
                        /\ sink = "stdout" => missed'[<<i, a>>] = 0 /\ InFlight(i, a)' = {}
      BY DEF Balanced
    <2>1. /\ trail[<<i, a>>] + missed[<<i, a>>] + Cardinality(InFlight(i, a)) = Due(i, a)
          /\ sink = "stdout" => missed[<<i, a>>] = 0
      BY DEF SInv, Balanced
    <2>2. /\ trail[<<i, a>>] \in Nat /\ trail'[<<i, a>>] \in Nat /\ missed[<<i, a>>] \in Nat
          /\ Cardinality(InFlight(i, a)) \in Nat /\ Cardinality(InFlight(i, a)') \in Nat
          /\ One(e, i, a) \in Nat
      BY InFlightFinite, OneFacts DEF SInv, STypeOK
    <2>3. /\ Counted(i, a)' = Counted(i, a) + One(e, i, a)
          /\ sink = "stdout" => InFlight(i, a)' = {}
      BY EmitAdds
    <2>4. trail'[<<i, a>>] + Cardinality(InFlight(i, a)')
            = trail[<<i, a>>] + Cardinality(InFlight(i, a)) + One(e, i, a)
      BY ONLY <2>3 DEF Counted
    <2>5. Due(i, a)' = Due(i, a) + One(e, i, a) /\ missed' = missed
      OBVIOUS
    <2> QED BY <2>1, <2>2, <2>3, <2>4, <2>5
  <1>2. Budget' /\ HandedBack'
    <2> SUFFICES ASSUME NEW i \in Incidents
                 PROVE  /\ posted'[i] + Cardinality(InFlight(i, "nudge_posted")') <= nudges'[i]
                        /\ sink = "stdout" => posted'[i] = nudges'[i]
      BY DEF Budget, HandedBack
    <2>0. "nudge_posted" \in Actions
      BY DEF Actions
    <2>1. posted[i] + Cardinality(InFlight(i, "nudge_posted")) <= nudges[i]
      BY DEF SInv, Budget
    <2>2. /\ posted[i] \in Nat /\ posted'[i] \in Nat /\ nudges[i] \in Nat
          /\ Cardinality(InFlight(i, "nudge_posted")) \in Nat
          /\ Cardinality(InFlight(i, "nudge_posted")') \in Nat
          /\ One(e, i, "nudge_posted") \in Nat
      BY InFlightFinite, OneFacts DEF SInv, STypeOK
    <2>3. posted'[i] + Cardinality(InFlight(i, "nudge_posted")')
            = posted[i] + Cardinality(InFlight(i, "nudge_posted")) + One(e, i, "nudge_posted")
      BY <2>0, EmitAdds
    <2>4. nudges'[i] = nudges[i] + One(e, i, "nudge_posted")
      <3>1. Due(i, "nudge_posted")' = Due(i, "nudge_posted") + One(e, i, "nudge_posted")
        BY <2>0
      <3>2. nudges[i] = happened[<<i, "nudged">>] /\ nudges'[i] = happened'[<<i, "nudged">>]
        BY DEF SInv, Kept
      <3> QED BY <3>1, <3>2, DueFacts
    <2>5. ASSUME sink = "stdout" PROVE posted'[i] = nudges'[i]
      <3>1. InFlight(i, "nudge_posted") = {} /\ InFlight(i, "nudge_posted")' = {}
        BY <2>0, <2>5, EmitAdds DEF SInv, Balanced
      <3>2. posted[i] = nudges[i]
        BY <2>5 DEF SInv, HandedBack
      <3> QED BY <2>2, <2>3, <2>4, <3>1, <3>2, FS_EmptySet
    <2> QED BY <2>1, <2>2, <2>3, <2>4, <2>5
  <1>3. Drafts'
    <2>1. \E new : /\ task' = [task EXCEPT ![t] = new] /\ new.pc # "drafting"
      <3>1. CASE sink = "stdout"
        BY <3>1, IdleType DEF Emit
      <3>2. CASE sink # "stdout"
        <4> DEFINE new == [pc |-> "auditing", event |-> e]
        <4>1. task' = [task EXCEPT ![t] = new] /\ new.pc = "auditing"
          BY <3>2 DEF Emit
        <4> HIDE DEF new
        <4> QED BY <4>1
      <3> QED BY <3>1, <3>2
    <2>2. PICK new : task' = [task EXCEPT ![t] = new] /\ new.pc # "drafting"
      BY <2>1
    <2>3. \A u \in Tasks : task'[u] = IF u = t THEN new ELSE task[u]
      BY <2>2 DEF SInv, STypeOK
    <2> QED BY <2>2, <2>3 DEF SInv, Drafts
  <1> QED BY <1>1, <1>2, <1>3 DEF SInv

(* Nothing is emitted and nothing is due.                                  *)
LEMMA QuietStep ==
    ASSUME SInv, STypeOK', Kept', UNCHANGED <<sink, trail, missed, posted, nudges>>,
           \A i \in Incidents, a \in Actions :
              Due(i, a)' = Due(i, a) /\ InFlight(i, a)' = InFlight(i, a),
           Drafts'
    PROVE  SInv'
  <1>1. Balanced'
    BY DEF SInv, Balanced
  <1>2. Budget'
    BY DEF SInv, Budget, Actions
  <1>3. HandedBack'
    BY DEF SInv, HandedBack
  <1> QED BY <1>1, <1>2, <1>3 DEF SInv

-----------------------------------------------------------------------------
LEMMA InitStarts == ASSUME Init PROVE SInv
  <1>1. STypeOK
    BY IdleType DEF Init, STypeOK
  <1>8. \A i \in Incidents, x \in Deeds : happened[<<i, x>>] = 0
    BY DEF Init
  <1>2. ASSUME NEW i \in Incidents, NEW a \in Actions
        PROVE  InFlight(i, a) = {} /\ Cardinality(InFlight(i, a)) = 0
    <2>1. InFlight(i, a) = {}
      BY IdleType DEF Init, InFlight
    <2> QED BY <2>1, FS_EmptySet
  <1>3. \A i \in Incidents, a \in Actions : Due(i, a) = 0
    BY <1>8, DeedFacts
  <1>4. \A i \in Incidents, a \in Actions : trail[<<i, a>>] = 0 /\ missed[<<i, a>>] = 0
    BY DEF Init
  <1>5. Balanced
    <2> SUFFICES ASSUME NEW i \in Incidents, NEW a \in Actions
                 PROVE  /\ trail[<<i, a>>] + missed[<<i, a>>] + Cardinality(InFlight(i, a))
                              = Due(i, a)
                        /\ missed[<<i, a>>] = 0 /\ InFlight(i, a) = {}
      BY DEF Balanced
    <2> QED BY <1>2, <1>3, <1>4
  <1>6. Budget
    <2>1. "nudge_posted" \in Actions /\ NudgeMax \in Nat
      BY ScribeAssumption DEF Actions
    <2>2. \A i \in Incidents : posted[i] = 0 /\ nudges[i] = 0
      BY DEF Init
    <2> QED BY <1>2, <2>1, <2>2 DEF Budget
  <1>7. Drafts
    BY IdleType DEF Drafts, Init
  <1>9. Kept /\ HandedBack
    BY <1>8 DEF Init, Kept, HandedBack, Deeds
  <1> QED BY <1>1, <1>5, <1>6, <1>7, <1>9 DEF SInv

LEMMA IngestStep ==
    ASSUME SInv, NEW t \in Tasks, NEW m \in Messages, Ingest(t, m)
    PROVE  SInv'
  <1> DEFINE i0 == m.incident
             x == [category |-> m.category, at |-> m.at, says |-> m.says]
             e == Event(i0, "message_classified")
  <1>1. /\ i0 \in Incidents /\ x \in EntryType
        /\ "message_classified" \in Actions
    BY ScribeAssumption DEF Ingest, MessageType, EntryType, Actions
  <1>2. e \in EventType /\ e.incident = i0 /\ e.action = "message_classified"
    BY <1>1, EventFacts
  <1>3. /\ Emit(t, e) /\ missed' = missed /\ nudges' = nudges /\ sink' = sink
        /\ now' = now /\ task[t].pc = "idle" /\ Done(i0, "stored")
        /\ timeline' = [timeline EXCEPT ![i0] = Append(@, x)]
    BY DEF Ingest, Free
  <1> HIDE DEF e, x, i0
  <1>4. \A i \in Incidents : timeline[i] \in Seq(EntryType)
    BY DEF SInv, STypeOK
  <1>5. timeline' \in [Incidents -> Seq(EntryType)]
    BY <1>1, <1>3, <1>4 DEF SInv, STypeOK
  <1>6. DeedOf[e.action] = "stored" /\ Done(e.incident, DeedOf[e.action])
    BY <1>2, <1>3 DEF DeedOf, Actions
  <1>7. /\ STypeOK'
        /\ \A i \in Incidents, a \in Actions : Due(i, a)' = Due(i, a) + One(e, i, a)
    <2>1. happened' \in [Incidents \X Deeds -> Nat]
          /\ \A i \in Incidents, a \in Actions : Due(i, a)' = Due(i, a) + One(e, i, a)
      BY <1>2, <1>6, DoneIsDue DEF SInv
    <2> QED BY <1>2, <1>3, <1>5, <2>1, EmitTypes DEF SInv, STypeOK, Pairs
  <1>9. Kept'
    <2> SUFFICES ASSUME NEW i \in Incidents
                 PROVE  /\ Len(timeline'[i]) = happened'[<<i, "stored">>]
                        /\ nudges'[i] = happened'[<<i, "nudged">>]
      BY DEF Kept
    <2>1. Len(timeline'[i]) = Len(timeline[i]) + (IF i = i0 THEN 1 ELSE 0)
      BY <1>1, <1>3, <1>4 DEF SInv, STypeOK
    <2>2. happened'[<<i, "nudged">>] = happened[<<i, "nudged">>]
      BY <1>1, <1>3, DoneFacts DEF SInv, Deeds
    <2>3. CASE i = i0
      <3>1. happened'[<<i, "stored">>] = happened[<<i, "stored">>] + 1
        BY <1>1, <1>3, <2>3, DoneFacts DEF SInv, Deeds
      <3>2. Len(timeline'[i]) = Len(timeline[i]) + 1
        BY <2>1, <2>3
      <3> QED BY <1>3, <2>2, <3>1, <3>2 DEF SInv, Kept
    <2>4. CASE i # i0
      <3>1. happened'[<<i, "stored">>] = happened[<<i, "stored">>]
        BY <1>1, <1>3, <2>4, DoneFacts DEF SInv, Deeds
      <3>2. timeline'[i] = timeline[i]
        BY <1>1, <1>3, <2>4 DEF SInv, STypeOK
      <3> QED BY <1>3, <2>2, <3>1, <3>2 DEF SInv, Kept
    <2> QED BY <2>3, <2>4
  <1>8. \A i \in Incidents : nudges'[i] <= NudgeMax
    BY <1>3 DEF SInv, Budget
  <1> QED BY <1>2, <1>3, <1>7, <1>8, <1>9, EmittedStep

LEMMA CheckStep ==
    ASSUME SInv, NEW t \in Tasks, NEW i0 \in Incidents, Check(t, i0)
    PROVE  SInv'
  <1> DEFINE e == [Event(i0, "nudge_posted") EXCEPT
                      !.kind = Nudge(timeline[i0]), !.because = Recent(timeline[i0])]
  <1>1. Nudge(timeline[i0]) \in {"none", "hypothesis", "contradiction"}
    BY DEF Nudge
  <1>2. Recent(timeline[i0]) \subseteq Nat
    <2>1. timeline[i0] \in Seq(EntryType)
      BY DEF SInv, STypeOK
    <2> QED BY <2>1 DEF Recent
  <1>3. e \in EventType /\ e.incident = i0 /\ e.action = "nudge_posted"
    BY <1>1, <1>2 DEF Event, EventType, Actions
  <1>4. /\ Emit(t, e) /\ missed' = missed /\ timeline' = timeline /\ sink' = sink
        /\ Done(i0, "nudged") /\ now' = now /\ task[t].pc = "idle" /\ nudges[i0] < NudgeMax
        /\ nudges' = [nudges EXCEPT ![i0] = @ + 1]
    BY DEF Check, Free, MayNudge
  <1> HIDE DEF e
  <1>5. STypeOK'
    <2>1. nudges' \in [Incidents -> Nat]
      BY <1>4 DEF SInv, STypeOK
    <2>2. /\ task' \in [Tasks -> TaskType]
          /\ trail' \in [Pairs -> Nat] /\ posted' \in [Incidents -> Nat]
      BY <1>3, <1>4, EmitTypes DEF SInv
    <2>3. happened' \in [Incidents \X Deeds -> Nat]
      BY <1>4, DoneFacts DEF SInv, Deeds
    <2> QED BY <1>4, <2>1, <2>2, <2>3 DEF SInv, STypeOK, Pairs
  <1>6. \A i \in Incidents, a \in Actions : Due(i, a)' = Due(i, a) + One(e, i, a)
    <2>1. Done(e.incident, DeedOf[e.action])
      BY <1>3, <1>4 DEF DeedOf, Actions
    <2> QED BY <1>3, <2>1, DoneIsDue DEF SInv
  <1>8. Kept'
    <2> SUFFICES ASSUME NEW i \in Incidents
                 PROVE  /\ Len(timeline'[i]) = happened'[<<i, "stored">>]
                        /\ nudges'[i] = happened'[<<i, "nudged">>]
      BY DEF Kept
    <2>1. happened'[<<i, "stored">>] = happened[<<i, "stored">>]
      BY <1>4, DoneFacts DEF SInv, Deeds
    <2>2. CASE i = i0
      <3>1. happened'[<<i, "nudged">>] = happened[<<i, "nudged">>] + 1
        BY <1>4, <2>2, DoneFacts DEF SInv, Deeds
      <3>2. nudges'[i] = nudges[i] + 1
        BY <1>4, <2>2 DEF SInv, STypeOK
      <3> QED BY <1>4, <2>1, <3>1, <3>2 DEF SInv, Kept
    <2>3. CASE i # i0
      <3>1. happened'[<<i, "nudged">>] = happened[<<i, "nudged">>]
        BY <1>4, <2>3, DoneFacts DEF SInv, Deeds
      <3>2. nudges'[i] = nudges[i]
        BY <1>4, <2>3 DEF SInv, STypeOK
      <3> QED BY <1>4, <2>1, <3>1, <3>2 DEF SInv, Kept
    <2> QED BY <2>2, <2>3
  <1>7. \A i \in Incidents : nudges'[i] <= NudgeMax
    BY <1>4, ScribeAssumption DEF SInv, Budget, STypeOK
  <1> QED BY <1>3, <1>4, <1>5, <1>6, <1>7, <1>8, EmittedStep

LEMMA SameDue ==
    ASSUME \A i \in Incidents, x \in {"stored", "nudged", "drafted"} :
                happened'[<<i, x>>] = happened[<<i, x>>],
           NEW i \in Incidents, NEW a \in Actions
    PROVE  Due(i, a)' = Due(i, a)
  <1>1. CASE a = "message_classified"
    BY <1>1, DueFacts
  <1>2. CASE a = "nudge_posted"
    BY <1>2, DueFacts
  <1>3. CASE a = "draft_generated"
    BY <1>3, DueFacts
  <1> QED BY <1>1, <1>2, <1>3 DEF Actions

(* A task moves between idle and drafting, and nothing is done that an     *)
(* event tells of.                                                         *)
LEMMA DraftingStep ==
    ASSUME SInv, NEW t \in Tasks, NEW new \in TaskType,
           new.pc # "auditing", task[t].pc # "auditing",
           new.pc = "drafting" => new.event.action = "draft_generated",
           task' = [task EXCEPT ![t] = new],
           UNCHANGED <<now, sink, timeline, nudges, trail, missed, posted>>,
           happened' \in [Incidents \X Deeds -> Nat],
           \A i \in Incidents, x \in {"stored", "nudged", "drafted"} :
                happened'[<<i, x>>] = happened[<<i, x>>]
    PROVE  SInv'
  <1>1. STypeOK'
    BY DEF SInv, STypeOK
  <1>2. \A i \in Incidents, a \in Actions : InFlight(i, a)' = InFlight(i, a)
    BY NothingOnItsWay DEF SInv
  <1>3. \A i \in Incidents, a \in Actions : Due(i, a)' = Due(i, a)
    BY SameDue
  <1>4. Drafts'
    BY DEF SInv, STypeOK, Drafts
  <1>5. Kept'
    BY DEF SInv, Kept
  <1> QED BY <1>1, <1>2, <1>3, <1>4, <1>5, QuietStep

LEMMA DraftStep ==
    ASSUME SInv, NEW t \in Tasks, NEW i \in Incidents, Draft(t, i)
    PROVE  SInv'
  <1> DEFINE e == [Event(i, "draft_generated") EXCEPT !.entries = Len(timeline[i])]
             new == [pc |-> "drafting", event |-> e]
  <1>1. timeline[i] \in Seq(EntryType)
    BY DEF SInv, STypeOK
  <1>2. e \in EventType
    BY <1>1 DEF Event, EventType, Actions
  <1>3. new \in TaskType /\ new.pc = "drafting" /\ new.event.action = "draft_generated"
    BY <1>2 DEF TaskType, Event
  <1>4. /\ task' = [task EXCEPT ![t] = new] /\ task[t].pc = "idle"
        /\ UNCHANGED <<now, sink, timeline, nudges, trail, missed, posted, happened>>
    BY DEF Draft, Free
  <1>5. happened' \in [Incidents \X Deeds -> Nat]
    BY <1>4 DEF SInv, STypeOK
  <1> HIDE DEF new
  <1> QED BY <1>3, <1>4, <1>5, DraftingStep

LEMMA DraftReturnedStep ==
    ASSUME SInv, NEW t \in Tasks, DraftReturned(t)
    PROVE  SInv'
  <1> DEFINE e == task[t].event
  <1>1. task[t].pc = "drafting" /\ e \in EventType
    BY AuditingTask DEF DraftReturned, SInv
  <1>2. e.incident \in Incidents
    BY <1>1 DEF EventType
  <1>3. CASE e.entries = 0
    <2>1. /\ task' = [task EXCEPT ![t] = Idle] /\ Done(e.incident, "drafted nothing")
          /\ UNCHANGED <<now, sink, timeline, nudges, trail, missed, posted>>
      BY <1>3 DEF DraftReturned
    <2>2. /\ happened' \in [Incidents \X Deeds -> Nat]
          /\ \A i \in Incidents, x \in Deeds : x # "drafted nothing" =>
                happened'[<<i, x>>] = happened[<<i, x>>]
      <3>1. STypeOK /\ "drafted nothing" \in Deeds
        BY DEF SInv, Deeds
      <3>2. happened' \in [Incidents \X Deeds -> Nat]
        BY <1>2, <2>1, <3>1, DoneFacts
      <3>3. \A i \in Incidents, x \in Deeds : x # "drafted nothing" =>
                happened'[<<i, x>>] = happened[<<i, x>>]
        BY <1>2, <2>1, <3>1, DoneFacts
      <3> QED BY <3>2, <3>3
    <2>3. \A i \in Incidents, x \in {"stored", "nudged", "drafted"} :
                happened'[<<i, x>>] = happened[<<i, x>>]
      <3>1. \A x \in {"stored", "nudged", "drafted"} : x \in Deeds /\ x # "drafted nothing"
        BY DEF Deeds
      <3> QED BY <2>2, <3>1
    <2> QED BY <1>1, <2>1, <2>2, <2>3, IdleType, DraftingStep
  <1>4. CASE e.entries # 0
    (* The event a drafting task holds is one of a draft.                  *)
    <2>1. /\ Done(e.incident, "drafted") /\ Emit(t, e)
          /\ UNCHANGED <<now, sink, timeline, nudges, missed>>
      BY <1>4 DEF DraftReturned
    <2>2. e.action = "draft_generated"
      BY <1>1 DEF SInv, Drafts
    <2> HIDE DEF e
    <2>3. Done(e.incident, DeedOf[e.action])
      BY <2>1, <2>2 DEF DeedOf, Actions
    <2>4. /\ STypeOK'
          /\ \A i \in Incidents, a \in Actions : Due(i, a)' = Due(i, a) + One(e, i, a)
      <3>1. happened' \in [Incidents \X Deeds -> Nat]
            /\ \A i \in Incidents, a \in Actions : Due(i, a)' = Due(i, a) + One(e, i, a)
        BY <1>1, <2>3, DoneIsDue DEF SInv
      <3> QED BY <1>1, <2>1, <3>1, EmitTypes DEF SInv, STypeOK, Pairs
    <2>6. Kept'
      <3>1. \A x \in {"stored", "nudged"} : x \in Deeds /\ x # "drafted"
        BY DEF Deeds
      <3>2. \A i \in Incidents, x \in {"stored", "nudged"} :
                happened'[<<i, x>>] = happened[<<i, x>>]
        <4>1. STypeOK /\ "drafted" \in Deeds
          BY DEF SInv, Deeds
        <4>2. \A i \in Incidents, x \in Deeds : x # "drafted" =>
                    happened'[<<i, x>>] = happened[<<i, x>>]
          BY <1>2, <2>1, <4>1, DoneFacts
        <4> QED BY <3>1, <4>2
      <3> QED BY <2>1, <3>2 DEF SInv, Kept
    <2>5. \A i \in Incidents : nudges'[i] <= NudgeMax
      BY <2>1 DEF SInv, Budget
    <2> QED BY <1>1, <2>1, <2>4, <2>5, <2>6, EmittedStep
  <1> QED BY <1>3, <1>4

(* The answer of the sink, or none.                                        *)
LEMMA AuditEndsStep ==
    ASSUME SInv, NEW t \in Tasks, AuditEnds(t)
    PROVE  SInv'
  <1> DEFINE e == task[t].event
  <1>1. task[t].pc = "auditing" /\ e \in EventType
    BY AuditingTask DEF AuditEnds, SInv
  <1>2. e.incident \in Incidents /\ e.action \in Actions
    BY <1>1 DEF EventType
  <1>3. /\ task' = [task EXCEPT ![t] = Idle]
        /\ UNCHANGED <<now, sink, timeline, nudges, happened>>
        /\ \/ /\ trail' = [trail EXCEPT ![<<e.incident, e.action>>] = @ + 1]
              /\ UNCHANGED missed
           \/ /\ missed' = [missed EXCEPT ![<<e.incident, e.action>>] = @ + 1]
              /\ UNCHANGED trail
        /\ HandBack(e) \/ UNCHANGED posted
    BY DEF AuditEnds
  <1>4. ASSUME NEW i \in Incidents, NEW a \in Actions
        PROVE  /\ Cardinality(InFlight(i, a)) = Cardinality(InFlight(i, a)') + One(e, i, a)
               /\ sink # "stdout"
               /\ Cardinality(InFlight(i, a)) \in Nat /\ Cardinality(InFlight(i, a)') \in Nat
               /\ One(e, i, a) \in Nat
    BY <1>1, <1>3, ArrivalRemoves, InFlightFinite, OneFacts
  <1> HIDE DEF e
  <1>5. trail' \in [Pairs -> Nat] /\ missed' \in [Pairs -> Nat]
    <2>0. trail \in [Pairs -> Nat] /\ missed \in [Pairs -> Nat]
      BY DEF SInv, STypeOK, Pairs
    <2> DEFINE p == <<e.incident, e.action>>
    <2>1. p \in Pairs
      BY <1>2 DEF Pairs
    <2>2. \/ trail' = [trail EXCEPT ![p] = @ + 1] /\ missed' = missed
          \/ missed' = [missed EXCEPT ![p] = @ + 1] /\ trail' = trail
      BY <1>3
    <2> HIDE DEF p
    <2>3. CASE trail' = [trail EXCEPT ![p] = @ + 1] /\ missed' = missed
      BY ONLY <2>0, <2>1, <2>3
    <2>4. CASE missed' = [missed EXCEPT ![p] = @ + 1] /\ trail' = trail
      BY ONLY <2>0, <2>1, <2>4
    <2> QED BY <2>2, <2>3, <2>4
  <1>6. posted' \in [Incidents -> Nat]
        /\ \A i \in Incidents : posted'[i] <= posted[i] + One(e, i, "nudge_posted")
    <2>0. posted \in [Incidents -> Nat]
      BY DEF SInv, STypeOK
    <2>1. CASE UNCHANGED posted
      BY <2>0, <2>1 DEF One
    <2>2. CASE HandBack(e) /\ e.action = "nudge_posted"
      BY <1>2, <2>0, <2>2 DEF One, HandBack
    <2>3. CASE HandBack(e) /\ e.action # "nudge_posted"
      BY <2>1, <2>3 DEF HandBack
    <2> QED BY <1>3, <2>1, <2>2, <2>3
  <1>7. STypeOK'
    BY <1>3, <1>5, <1>6, IdleType DEF SInv, STypeOK, Pairs
  <1>8. Balanced'
    <2> SUFFICES ASSUME NEW i \in Incidents, NEW a \in Actions
                 PROVE  trail'[<<i, a>>] + missed'[<<i, a>>] + Cardinality(InFlight(i, a)')
                              = Due(i, a)'
      <3>1. \A i \in Incidents, a \in Actions : sink' # "stdout"
        BY <1>3, <1>4
      <3> QED BY <3>1 DEF Balanced
    <2>1. trail[<<i, a>>] + missed[<<i, a>>] + Cardinality(InFlight(i, a)) = Due(i, a)
      BY DEF SInv, Balanced
    <2>2. trail[<<i, a>>] \in Nat /\ missed[<<i, a>>] \in Nat
      BY DEF SInv, STypeOK
    <2>3. Due(i, a)' = Due(i, a)
      BY <1>3, DeedFacts
    <2>4. trail'[<<i, a>>] + missed'[<<i, a>>]
            = trail[<<i, a>>] + missed[<<i, a>>] + One(e, i, a)
      <3>1. CASE i = e.incident /\ a = e.action
        <4>1. One(e, i, a) = 1
          BY <3>1 DEF One
        <4>2. \/ trail'[<<i, a>>] = trail[<<i, a>>] + 1 /\ missed'[<<i, a>>] = missed[<<i, a>>]
              \/ missed'[<<i, a>>] = missed[<<i, a>>] + 1 /\ trail'[<<i, a>>] = trail[<<i, a>>]
          BY <1>3, <3>1 DEF SInv, STypeOK
        <4> QED BY ONLY <2>2, <4>1, <4>2
      <3>2. CASE ~ (i = e.incident /\ a = e.action)
        <4>1. <<i, a>> # <<e.incident, e.action>>
          BY <3>2
        <4>2. trail'[<<i, a>>] = trail[<<i, a>>] /\ missed'[<<i, a>>] = missed[<<i, a>>]
          BY <1>3, <4>1 DEF SInv, STypeOK
        <4>3. One(e, i, a) = 0
          BY <3>2 DEF One
        <4> QED BY ONLY <2>2, <4>2, <4>3
      <3> QED BY <3>1, <3>2
    <2> QED BY ONLY <1>4, <2>1, <2>2, <2>3, <2>4
  <1>9. Budget'
    <2> SUFFICES ASSUME NEW i \in Incidents
                 PROVE  posted'[i] + Cardinality(InFlight(i, "nudge_posted")') <= nudges[i]
      BY <1>3 DEF SInv, Budget
    <2>0. "nudge_posted" \in Actions
      BY DEF Actions
    <2>1. posted[i] + Cardinality(InFlight(i, "nudge_posted")) <= nudges[i]
      BY DEF SInv, Budget
    <2>2. posted[i] \in Nat /\ nudges[i] \in Nat /\ posted'[i] \in Nat
      BY <1>6 DEF SInv, STypeOK
    <2>3. /\ Cardinality(InFlight(i, "nudge_posted"))
               = Cardinality(InFlight(i, "nudge_posted")') + One(e, i, "nudge_posted")
          /\ Cardinality(InFlight(i, "nudge_posted")) \in Nat
          /\ Cardinality(InFlight(i, "nudge_posted")') \in Nat
          /\ One(e, i, "nudge_posted") \in Nat
      BY <1>4, <2>0
    <2>4. posted'[i] <= posted[i] + One(e, i, "nudge_posted")
      BY <1>6
    <2> QED BY ONLY <2>1, <2>2, <2>3, <2>4
  <1>10. Drafts'
    BY <1>3, IdleType DEF SInv, STypeOK, Drafts
  <1>11. Kept' /\ HandedBack'
    <2>1. sink' # "stdout"
      BY <1>2, <1>3, <1>4
    <2> QED BY <1>3, <2>1 DEF SInv, Kept, HandedBack
  <1> QED BY <1>7, <1>8, <1>9, <1>10, <1>11 DEF SInv

(* The clock moves, or a message is classified and lost, or nothing.       *)
LEMMA ElsewhereStep ==
    ASSUME SInv, now' \in Nat,
           UNCHANGED <<sink, timeline, nudges, trail, missed, posted, task>>,
           happened' \in [Incidents \X Deeds -> Nat],
           \A i \in Incidents, x \in {"stored", "nudged", "drafted"} :
                happened'[<<i, x>>] = happened[<<i, x>>]
    PROVE  SInv'
  <1>1. STypeOK'
    BY DEF SInv, STypeOK
  <1>2. \A i \in Incidents, a \in Actions : Due(i, a)' = Due(i, a)
    BY SameDue
  <1>3. \A i \in Incidents, a \in Actions : InFlight(i, a)' = InFlight(i, a)
    BY DEF InFlight
  <1>4. Drafts' /\ Kept'
    BY DEF SInv, Drafts, Kept
  <1> QED BY <1>1, <1>2, <1>3, <1>4, QuietStep

LEMMA UnreadableStep ==
    ASSUME SInv, NEW m \in Messages, IngestUnreadable(m)
    PROVE  SInv'
  <1>1. /\ m.incident \in Incidents /\ Done(m.incident, "unreadable")
        /\ UNCHANGED <<now, sink, timeline, nudges, trail, missed, posted, task>>
    BY ScribeAssumption DEF IngestUnreadable, MessageType
  <1>2. /\ happened' \in [Incidents \X Deeds -> Nat]
        /\ \A i \in Incidents, x \in Deeds : x # "unreadable" =>
                happened'[<<i, x>>] = happened[<<i, x>>]
    <2>1. STypeOK /\ "unreadable" \in Deeds
      BY DEF SInv, Deeds
    <2>2. happened' \in [Incidents \X Deeds -> Nat]
      BY <1>1, <2>1, DoneFacts
    <2>3. \A i \in Incidents, x \in Deeds : x # "unreadable" =>
                happened'[<<i, x>>] = happened[<<i, x>>]
      BY <1>1, <2>1, DoneFacts
    <2> QED BY <2>2, <2>3
  <1>3. \A i \in Incidents, x \in {"stored", "nudged", "drafted"} :
            happened'[<<i, x>>] = happened[<<i, x>>]
    <2>1. \A x \in {"stored", "nudged", "drafted"} : x \in Deeds /\ x # "unreadable"
      BY DEF Deeds
    <2> QED BY <1>2, <2>1
  <1>4. now' \in Nat
    BY <1>1 DEF SInv, STypeOK
  <1> QED BY <1>1, <1>2, <1>3, <1>4, ElsewhereStep

LEMMA StepKeeps == ASSUME SInv, [Next]_vars PROVE SInv'
  <1>1. ASSUME NEW t \in Tasks, NEW m \in Messages, Ingest(t, m) PROVE SInv'
    BY <1>1, IngestStep
  <1>2. ASSUME NEW t \in Tasks, NEW i \in Incidents, Check(t, i) PROVE SInv'
    BY <1>2, CheckStep
  <1>3. ASSUME NEW t \in Tasks, NEW i \in Incidents, Draft(t, i) PROVE SInv'
    BY <1>3, DraftStep
  <1>0. now \in Nat /\ happened \in [Incidents \X Deeds -> Nat]
    BY DEF SInv, STypeOK
  <1>4. ASSUME NEW t \in Tasks, DraftFails(t) PROVE SInv'
    <2>1. /\ task[t].pc # "auditing" /\ task' = [task EXCEPT ![t] = Idle]
          /\ UNCHANGED <<now, sink, timeline, nudges, trail, missed, posted, happened>>
      BY <1>4 DEF DraftFails
    <2> QED BY <1>0, <2>1, IdleType, DraftingStep
  <1>5. ASSUME NEW t \in Tasks, DraftReturned(t) PROVE SInv'
    BY <1>5, DraftReturnedStep
  <1>6. ASSUME NEW t \in Tasks, AuditEnds(t) PROVE SInv'
    BY <1>6, AuditEndsStep
  <1>7. ASSUME NEW m \in Messages, IngestUnreadable(m) PROVE SInv'
    BY <1>7, UnreadableStep
  <1>8. ASSUME NEW m \in Messages, IngestNothing(m) PROVE SInv'
    BY <1>0, <1>8, ElsewhereStep DEF IngestNothing, vars
  <1>9. CASE Tick
    BY <1>0, <1>9, ElsewhereStep DEF Tick
  <1>10. CASE UNCHANGED vars
    BY <1>0, <1>10, ElsewhereStep DEF vars
  <1> QED BY <1>1, <1>2, <1>3, <1>4, <1>5, <1>6, <1>7, <1>8, <1>9, <1>10 DEF Next

LEMMA ScribeKeeps == Spec => []SInv
  <1>1. Init => SInv
    BY InitStarts
  <1>2. SInv /\ [Next]_vars => SInv'
    BY StepKeeps
  <1> QED BY <1>1, <1>2, PTL DEF Spec

-----------------------------------------------------------------------------
LEMMA WaitingIsInFlight ==
    ASSUME NEW i, NEW a PROVE Waiting(i, a) = Cardinality(InFlight(i, a))
  BY DEF Waiting, InFlight

(* Every variable keeps its type.                                          *)
THEOREM ScribeTypes == Spec => []STypeOK
  <1>1. SInv => STypeOK
    BY DEF SInv
  <1> QED BY <1>1, ScribeKeeps, PTL

(* However many checks overlap, an incident is never posted more nudges    *)
(* than NUDGE_MAX_PER_INCIDENT (Store.record_nudge and maybe_nudge).       *)
THEOREM BudgetHolds == Spec => []NudgeBudgetKept
  <1>1. SInv => NudgeBudgetKept
    BY WaitingIsInFlight DEF SInv, Budget, NudgeBudgetKept
  <1> QED BY <1>1, ScribeKeeps, PTL

(* Each entry of a timeline, each nudge of the budget and each draft of a  *)
(* timeline has its own audit event: recorded, on its way, or posted to a  *)
(* gateway that did not record it; and on standard output recorded at      *)
(* once, with every counted nudge handed back (emit_audit and its three    *)
(* callers).                                                               *)
THEOREM AuditHolds == Spec => []EveryActionAudited
  <1>1. SInv => EveryActionAudited
    <2> SUFFICES ASSUME SInv, NEW i \in Incidents
                 PROVE  /\ Len(timeline[i]) = happened[<<i, "stored">>]
                        /\ nudges[i] = happened[<<i, "nudged">>]
                        /\ \A a \in Actions :
                              trail[<<i, a>>] + missed[<<i, a>>] + Waiting(i, a) = Due(i, a)
                        /\ sink = "stdout" =>
                              /\ posted[i] = nudges[i]
                              /\ \A a \in Actions : trail[<<i, a>>] = Due(i, a)
      BY DEF EveryActionAudited
    <2>1. Len(timeline[i]) = happened[<<i, "stored">>] /\ nudges[i] = happened[<<i, "nudged">>]
      BY DEF SInv, Kept
    <2>2. sink = "stdout" => posted[i] = nudges[i]
      BY DEF SInv, HandedBack
    <2>3. ASSUME NEW a \in Actions
          PROVE  /\ trail[<<i, a>>] + missed[<<i, a>>] + Waiting(i, a) = Due(i, a)
                 /\ sink = "stdout" => trail[<<i, a>>] = Due(i, a)
      <3>1. /\ trail[<<i, a>>] + missed[<<i, a>>] + Cardinality(InFlight(i, a)) = Due(i, a)
            /\ sink = "stdout" => missed[<<i, a>>] = 0 /\ InFlight(i, a) = {}
        BY DEF SInv, Balanced
      <3>2. trail[<<i, a>>] \in Nat
        BY DEF SInv, STypeOK
      <3>3. missed[<<i, a>>] \in Nat
        BY DEF SInv, STypeOK
      <3>4. Waiting(i, a) = Cardinality(InFlight(i, a))
        BY WaitingIsInFlight
      <3>5. sink = "stdout" => Cardinality(InFlight(i, a)) = 0
        BY <3>1, FS_EmptySet
      <3> QED BY <3>1, <3>2, <3>3, <3>4, <3>5
    <2> QED BY <2>1, <2>2, <2>3
  <1> QED BY <1>1, ScribeKeeps, PTL
===============================================================================
