-------------------------- MODULE ApprovalQueueProofs --------------------------
(***************************************************************************)
(* Proofs about ApprovalQueue, for every set of requests and approvers.    *)
(***************************************************************************)
EXTENDS ApprovalQueue, TLAPS

(* What nobody has decided yet expires at its deadline, which is still     *)
(* ahead; what a decide call has written stays as written last, and it is  *)
(* "pending" only when a call that read it in time made it so.             *)
RecordsOK ==
    \A i \in Requests :
        /\ record[i] = "pending" /\ last[i] = "absent" =>
                expires[i] = deadline[i] /\ now < deadline[i]
        /\ last[i] # "absent" => record[i] = last[i] /\ expires[i] = 0
        /\ last[i] = "pending" => i \in kept
        /\ i \in late => i \in kept
        /\ enqueue[i] = "new" => record[i] = "absent" /\ last[i] = "absent"

(* A decide call serves a request whose enqueue has returned; it read it   *)
(* in time, or after someone had lifted the timeout; what it has written   *)
(* is on record.                                                           *)
DesksOK ==
    \A a \in Approvers :
        desk[a] # Idle =>
            /\ enqueue[desk[a].id] = "done"
            /\ desk[a].readAt < deadline[desk[a].id] \/ desk[a].id \in kept
            /\ desk[a].pc = "zrem" => last[desk[a].id] # "absent"

(* A request that was enqueued and that nobody decided is in the index.    *)
IndexOK ==
    \A i \in Requests :
        record[i] = "pending" /\ last[i] = "absent" /\ enqueue[i] = "done" => i \in index

QInv == QTypeOK /\ RecordsOK /\ DesksOK /\ IndexOK

LEMMA QInitInv == Init => QInv
  BY QueueAssumption
     DEF Init, QInv, QTypeOK, RecordsOK, DesksOK, IndexOK, Statuses, DeskType

(* The desk of an approver who is serving a call.                          *)
LEMMA DeskFacts ==
    ASSUME QTypeOK, NEW a \in Approvers, desk[a] # Idle
    PROVE  /\ desk[a].id \in Requests /\ desk[a].decision \in Decisions
           /\ desk[a].readAt \in Nat /\ desk[a].pc \in {"set", "zrem"}
           /\ desk[a].decision # "absent"
  <1>1. desk[a] \in [pc : {"set", "zrem"}, id : Requests, decision : Decisions, readAt : Nat]
    BY DEF QTypeOK, DeskType
  <1> QED BY <1>1, QueueAssumption

LEMMA EnqueueInv ==
    ASSUME QInv, NEW i \in Requests,
           EnqueueSet(i) \/ EnqueueIndex(i) \/ EnqueueCrash(i)
    PROVE  QInv'
  <1> USE QueueAssumption DEF QInv, QTypeOK, Statuses, history
  <1>1. CASE EnqueueSet(i)
    <2>1. QTypeOK'
      BY <1>1 DEF EnqueueSet
    <2>2. RecordsOK'
      BY <1>1 DEF EnqueueSet, RecordsOK
    <2>3. DesksOK'
      BY <1>1, DeskFacts DEF EnqueueSet, DesksOK, history
    <2>4. IndexOK'
      BY <1>1 DEF EnqueueSet, IndexOK
    <2> QED BY <2>1, <2>2, <2>3, <2>4
  <1>2. CASE EnqueueIndex(i) \/ EnqueueCrash(i)
    <2>1. QTypeOK'
      BY <1>2 DEF EnqueueIndex, EnqueueCrash
    <2>2. RecordsOK'
      BY <1>2 DEF EnqueueIndex, EnqueueCrash, RecordsOK
    <2>3. DesksOK'
      BY <1>2, DeskFacts DEF EnqueueIndex, EnqueueCrash, DesksOK, history
    <2>4. IndexOK'
      BY <1>2 DEF EnqueueIndex, EnqueueCrash, IndexOK
    <2> QED BY <2>1, <2>2, <2>3, <2>4
  <1> QED BY <1>1, <1>2

LEMMA DecideGetInv ==
    ASSUME QInv, NEW a \in Approvers, NEW i \in Requests, NEW d \in Decisions,
           DecideGet(a, i, d)
    PROVE  QInv'
  <1> DEFINE r == [pc |-> "set", id |-> i, decision |-> d, readAt |-> now]
  <1>0. r \in DeskType /\ r # Idle
    BY DEF DeskType, Idle, QInv, QTypeOK
  <1>1. desk' = [desk EXCEPT ![a] = r]
    BY DEF DecideGet
  <1>2. QTypeOK'
    <2> HIDE DEF r
    <2> QED BY <1>0, <1>1 DEF QInv, QTypeOK, DecideGet, history
  <1>3. DesksOK'
    <2>1. now < deadline[i] \/ i \in kept
      BY DEF QInv, QTypeOK, RecordsOK, DecideGet
    <2>2. desk'[a] = r /\ \A b \in Approvers : b # a => desk'[b] = desk[b]
      BY <1>1 DEF QInv, QTypeOK
    <2> QED BY <2>1, <2>2 DEF QInv, QTypeOK, DesksOK, DecideGet, history
  <1>4. RecordsOK' /\ IndexOK'
    BY DEF QInv, RecordsOK, IndexOK, DecideGet, history
  <1> QED BY <1>2, <1>3, <1>4 DEF QInv

LEMMA DecideSetInv ==
    ASSUME QInv, NEW a \in Approvers, DecideSet(a)
    PROVE  QInv'
  <1>0. /\ desk[a] # Idle /\ desk[a].pc = "set" /\ QTypeOK
    BY DEF DecideSet, QInv, Idle
  <1>a. PICK i, d : i = desk[a].id /\ d = desk[a].decision
    OBVIOUS
  <1>1. /\ i \in Requests /\ d \in Decisions /\ d # "absent"
        /\ desk[a].readAt \in Nat /\ enqueue[i] = "done"
        /\ desk[a].readAt < deadline[i] \/ i \in kept
    BY <1>0, <1>a, DeskFacts DEF QInv, DesksOK
  <1>2. /\ desk' = [desk EXCEPT ![a].pc = "zrem"]
        /\ record' = [record EXCEPT ![i] = d]
        /\ expires' = [expires EXCEPT ![i] = 0]
        /\ last' = [last EXCEPT ![i] = d]
        /\ UNCHANGED <<now, index, enqueue, deadline>>
    BY <1>a DEF DecideSet
  <1>3. /\ kept \subseteq kept' /\ kept' \subseteq kept \cup {i}
        /\ late' \subseteq late \cup {i}
        /\ d = "pending" => i \in kept'
        /\ i \in late' => i \in kept' \/ i \in late
    BY <1>a, <1>1 DEF DecideSet
  <1>4. desk'[a] \in DeskType
    BY <1>0, <1>2 DEF QTypeOK, DeskType, Idle
  <1>5. QTypeOK'
    BY <1>0, <1>1, <1>2, <1>3, <1>4 DEF QTypeOK, Statuses
  <1>6. RecordsOK'
    BY <1>0, <1>1, <1>2, <1>3 DEF QInv, QTypeOK, RecordsOK
  <1>7. DesksOK'
    <2>1. SUFFICES ASSUME NEW b \in Approvers, desk'[b] # Idle
                   PROVE  /\ enqueue[desk'[b].id] = "done"
                          /\ desk'[b].readAt < deadline[desk'[b].id] \/ desk'[b].id \in kept'
                          /\ desk'[b].pc = "zrem" => last'[desk'[b].id] # "absent"
      BY <1>2 DEF DesksOK
    <2>2. CASE b = a
      <3>1. desk'[a].id = i /\ desk'[a].readAt = desk[a].readAt
        BY <1>0, <1>a, <1>2 DEF QTypeOK, DeskType, Idle
      <3> QED BY <1>0, <1>1, <1>2, <1>3, <2>2, <3>1 DEF QTypeOK
    <2>3. CASE b # a
      BY <1>0, <1>1, <1>2, <1>3, <2>1, <2>3, DeskFacts DEF QInv, DesksOK, QTypeOK
    <2> QED BY <2>2, <2>3
  <1>8. IndexOK'
    BY <1>0, <1>1, <1>2 DEF QInv, IndexOK, QTypeOK
  <1> QED BY <1>5, <1>6, <1>7, <1>8 DEF QInv

LEMMA DecideEndInv ==
    ASSUME QInv, NEW a \in Approvers, DecideUnindex(a) \/ DecideCrash(a)
    PROVE  QInv'
  <1>0. desk[a] # Idle /\ QTypeOK
    BY DEF DecideUnindex, DecideCrash, QInv, Idle
  <1>1. /\ desk' = [desk EXCEPT ![a] = Idle]
        /\ UNCHANGED <<now, record, expires, enqueue, deadline, last, kept, late>>
    BY DEF DecideUnindex, DecideCrash, history
  <1>2. index' = index \/ (index' = index \ {desk[a].id} /\ last[desk[a].id] # "absent")
    BY <1>0 DEF DecideUnindex, DecideCrash, QInv, DesksOK
  <1>3. QTypeOK'
    BY <1>0, <1>1, <1>2 DEF QTypeOK, DeskType
  <1>4. RecordsOK'
    BY <1>1 DEF QInv, RecordsOK
  <1>5. DesksOK'
    BY <1>0, <1>1 DEF QInv, DesksOK, QTypeOK
  <1>6. IndexOK'
    BY <1>1, <1>2 DEF QInv, IndexOK
  <1> QED BY <1>3, <1>4, <1>5, <1>6 DEF QInv

LEMMA ClockInv == QInv /\ Tick => QInv'
  <1> SUFFICES ASSUME QInv, Tick PROVE QInv'
    OBVIOUS
  <1> USE QueueAssumption DEF QInv, QTypeOK, Statuses, history
  <1>1. QTypeOK'
    BY DEF Tick
  <1>2. RecordsOK'
    BY DEF Tick, RecordsOK
  <1>3. DesksOK'
    BY DeskFacts DEF Tick, DesksOK
  <1>4. \A i \in Requests : record'[i] = "pending" => record[i] = "pending"
    BY DEF Tick
  <1>5. IndexOK'
    BY <1>4 DEF Tick, IndexOK
  <1> QED BY <1>1, <1>2, <1>3, <1>5

LEMMA QNextInv == QInv /\ [Next]_vars => QInv'
  <1> SUFFICES ASSUME QInv, [Next]_vars PROVE QInv'
    OBVIOUS
  <1>1. CASE UNCHANGED vars
    BY <1>1 DEF vars, history, QInv, QTypeOK, RecordsOK, DesksOK, IndexOK
  <1> QED BY <1>1, EnqueueInv, DecideGetInv, DecideSetInv, DecideEndInv, ClockInv
          DEF Next

(* Records, deadlines, index and desks keep their types: a record holds a  *)
(* string some caller sent, or "pending" (approval.py:38-85).              *)
THEOREM QueueTyped == Spec => []QTypeOK
  BY QInitInv, QNextInv, PTL DEF Spec, QInv

(* A waiting request missing from GET /pending still carries its TTL after *)
(* an enqueue cut short, or was answered "pending"; wherever a decide call *)
(* died, it hides no other (approval.py:46-51, 62-71, 81-85).              *)
THEOREM HiddenOnesExpire == Spec => []HiddenRequestsExpire
  <1>1. QInv => HiddenRequestsExpire
    BY DEF QInv, RecordsOK, IndexOK, HiddenRequestsExpire
  <1> QED BY <1>1, QInitInv, QNextInv, PTL DEF Spec

(* Nothing is pending at its deadline, and nothing read then is written,   *)
(* unless a call that had read in time wrote "pending", whatever strings   *)
(* callers send (approval.py:30, 38-47, 73-85).                            *)
THEOREM DeniedByDefault == Spec => []DefaultDeny
  <1>1. QInv => DefaultDeny
    BY DEF QInv, QTypeOK, RecordsOK, DefaultDeny
  <1> QED BY <1>1, QInitInv, QNextInv, PTL DEF Spec

(* What a decide call wrote stays on record, and unless it is "pending" no *)
(* call begins on that request again (approval.py:76-77, 83), whatever     *)
(* happened to the call that wrote.                                        *)
THEOREM AnswersAreKept == Spec => AnswersStand
  <1> DEFINE A == \A i \in Requests : last[i] \notin {"absent", "pending"} =>
                    /\ \A a \in Approvers :
                            desk[a] = Idle /\ desk'[a] # Idle => desk'[a].id # i
                    /\ record'[i] = last'[i]
  <1>1. ASSUME QInv, Next, NEW a \in Approvers, desk[a] = Idle, desk'[a] # Idle
        PROVE  record[desk'[a].id] = "pending"
    <2>1. PICK b \in Approvers, i \in Requests, d \in Decisions : DecideGet(b, i, d)
      <3>1. desk' # desk
        BY <1>1
      <3>2. ASSUME NEW b \in Approvers, DecideSet(b) \/ DecideUnindex(b) \/ DecideCrash(b)
            PROVE  FALSE
        BY <1>1, <3>2 DEF DecideSet, DecideUnindex, DecideCrash, QInv, QTypeOK, Idle
      <3> QED BY <1>1, <3>1, <3>2
              DEF Next, Tick, EnqueueSet, EnqueueIndex, EnqueueCrash
    <2>2. a = b
      BY <1>1, <2>1 DEF DecideGet, QInv, QTypeOK
    <2> QED BY <1>1, <2>1, <2>2 DEF DecideGet, QInv, QTypeOK
  <1>2. ASSUME QInv, Next, NEW i \in Requests, last[i] \notin {"absent", "pending"}
        PROVE  last'[i] # "absent"
    <2>1. ASSUME NEW a \in Approvers, DecideSet(a) PROVE last'[i] # "absent"
      <3>1. desk[a] # Idle /\ desk[a].decision # "absent"
        BY <2>1, <1>2, DeskFacts DEF DecideSet, Idle, QInv
      <3>2. last' = [last EXCEPT ![desk[a].id] = desk[a].decision]
        BY <2>1 DEF DecideSet
      <3> QED BY <1>2, <3>1, <3>2 DEF QInv, QTypeOK
    <2> QED BY <1>2, <2>1 DEF Next, Tick, EnqueueSet, EnqueueIndex, EnqueueCrash,
            DecideGet, DecideUnindex, DecideCrash, history
  <1>3. ASSUME QInv, Next PROVE A
    <2>1. RecordsOK'
      BY <1>3, QNextInv DEF QInv
    <2> SUFFICES ASSUME NEW i \in Requests, last[i] \notin {"absent", "pending"}
                 PROVE  /\ \A a \in Approvers :
                                desk[a] = Idle /\ desk'[a] # Idle => desk'[a].id # i
                        /\ record'[i] = last'[i]
      OBVIOUS
    <2>2. record[i] # "pending"
      BY <1>3 DEF QInv, RecordsOK
    <2> QED BY <1>1, <1>2, <1>3, <2>1, <2>2 DEF RecordsOK
  <1>4. QInv /\ [Next]_vars => [A]_vars
    BY <1>3
  <1> QED BY <1>4, QInitInv, QNextInv, PTL DEF Spec, AnswersStand
=============================================================================
