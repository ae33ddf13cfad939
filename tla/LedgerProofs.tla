---------------------------- MODULE LedgerProofs ----------------------------
(***************************************************************************)
(* Proofs about the ledger of Remediator and what the runner reads in it:  *)
(* that it agrees with the audit trail and never changes its mind.         *)
(***************************************************************************)
EXTENDS RemediatorProofs, FiniteSetTheorems

(* The entry that a frame records says what the frame is doing: it is open *)
(* from the record to the mark, and closed while the event is written.     *)
Matches(e, outcome) ==
    outcome \in Executed /\ (e.rolledBack <=> outcome = "rolled_back")

FrameEntry(e, c, d) ==
    LET f == frame[c][d] IN
        /\ e.action = f.action
        /\ e.tenant = Req(c).tenant /\ e.dep = Req(c).dep
        /\ \/ f.pc \in OpenPoints /\ ~ e.terminal
           \/ f.pc = "emit" /\ e.terminal /\ Matches(e, f.outcome)

EntryOK(e) ==
    /\ Drawn(e.id)
    /\ \A c \in Callers, d \in Depths : e.id = Id(c, d) => FrameEntry(e, c, d)
    /\ e.terminal =>
            \/ e.id \in LiveIds \cup raised
            \/ \E k \in DOMAIN audit :
                    audit[k].id = e.id /\ Matches(e, audit[k].outcome)
    /\ ~ e.terminal => ~ e.rolledBack /\ e.id \notin AuditedIds

Entries == {ledger[i] : i \in DOMAIN ledger}

LedgerOK ==
    /\ \A i, j \in DOMAIN ledger : ledger[i].id = ledger[j].id => i = j
    /\ \A e \in Entries : EntryOK(e)

LEMMA LedgerTyped ==
    ASSUME IInv
    PROVE  /\ ledger \in Seq(EntryType)
           /\ Len(ledger) \in Nat /\ DOMAIN ledger = 1 .. Len(ledger)
           /\ \A e \in Entries : e \in EntryType /\ e.id \in Ids
  <1>1. ledger \in Seq(EntryType)
    BY DEF IInv, TypeOK
  <1>2. \A e \in Entries : e \in EntryType
    BY <1>1 DEF Entries
  <1>3. \A e \in Entries : e.id \in Ids
    BY <1>2 DEF EntryType
  <1> QED BY <1>1, <1>2, <1>3

(* An id that is not zero and belongs to a frame belongs to a live one.    *)
LEMMA FrameOfId ==
    ASSUME IInv, NEW c \in Callers, NEW d \in Depths, Id(c, d) \in Ids
    PROVE  ~ (d > top[c]) /\ d <= top[c] /\ Id(c, d) \in LiveIds
  <1>1. FrameOK(c, d) /\ top[c] \in Depths \cup {-1}
    BY DEF IInv, StackOK, TypeOK
  <1>2. frame[c][d].n # 0
    BY DEF Id, Ids
  <1>3. ~ (d > top[c])
    BY <1>1, <1>2 DEF FrameOK
  <1>4. d <= top[c]
    BY <1>1, <1>3, DepthFacts
  <1>5. Id(c, d) \in LiveIds
    BY <1>2 DEF LiveIds, Id
  <1> QED BY <1>3, <1>4, <1>5

(* A step that leaves the ledger and the trail alone: what an entry needs  *)
(* is that the frames it may belong to still agree with it.                *)
LEMMA KeepLedger ==
    ASSUME IInv, LedgerOK, UNCHANGED <<ledger, audit>>,
           \A id \in Ids : Drawn(id) => Drawn(id)',
           LiveIds \cup raised \subseteq (LiveIds \cup raised)',
           \A e \in Entries, b \in Callers, d \in Depths :
                e.id = Id(b, d)' => FrameEntry(e, b, d)'
    PROVE  LedgerOK'
  <1>1. AuditedIds' = AuditedIds /\ Entries' = Entries
    BY DEF AuditedIds, Entries
  <1>2. ASSUME NEW e \in Entries PROVE EntryOK(e)'
    <2>1. EntryOK(e) /\ e.id \in Ids
      BY LedgerTyped DEF LedgerOK
    <2> QED BY <1>1, <2>1 DEF EntryOK, Matches
  <1> QED BY <1>1, <1>2 DEF LedgerOK

(* What a local step leaves of the frames' identities.                     *)
LEMMA LocalIds ==
    ASSUME IInv, NEW c \in Callers, Local(c)
    PROVE  /\ UNCHANGED <<audit, raised, issued, top, ctx>> /\ Moved(c)
           /\ top[c] \in Depths
           /\ F(c).pc # "emit" /\ F(c).pc # "nested"
           /\ LiveIds' = LiveIds /\ AuditedIds' = AuditedIds
           /\ \A b \in Callers, d \in Depths : Id(b, d)' = Id(b, d)
  <1>1. UNCHANGED <<audit, raised, issued, top, ctx>> /\ Moved(c) /\ top[c] \in Depths
    BY LocalStep
  <1>2. F(c).pc # "emit" /\ F(c).pc # "nested"
    BY DEF Local, CheckBounds, Inspect, Gate, Patch, ReadReplicas, WriteReplicas,
       HandlerRaises, Poll, Wake, Close, Rollback, At
  <1>3. LiveIds' = LiveIds /\ \A b \in Callers, d \in Depths : Id(b, d)' = Id(b, d)
    BY <1>1 DEF Moved, LiveIds, Id
  <1>4. AuditedIds' = AuditedIds
    BY <1>1 DEF AuditedIds
  <1> QED BY <1>1, <1>2, <1>3, <1>4

(* A local step only touches the running frame: an entry of another frame  *)
(* still agrees with it.                                                   *)
LEMMA OtherFrame ==
    ASSUME IInv, NEW c \in Callers, Local(c), NEW e,
           NEW b \in Callers, NEW d \in Depths, ~ (b = c /\ d = top[c]),
           FrameEntry(e, b, d)
    PROVE  FrameEntry(e, b, d)'
  <1>1. ctx' = ctx /\ frame'[b][d] = frame[b][d]
    BY LocalIds DEF Moved
  <1> QED BY <1>1 DEF FrameEntry, Req, Matches

LEMMA LocalLedger ==
    ASSUME IInv, LedgerOK, NEW c \in Callers, Local(c), UNCHANGED ledger,
           F(c).pc \in OpenPoints => frame'[c][top[c]].pc \in OpenPoints
    PROVE  LedgerOK'
  <1>1. ASSUME NEW e \in Entries, NEW b \in Callers, NEW d \in Depths,
               e.id = Id(b, d)'
        PROVE  FrameEntry(e, b, d)'
    <2>1. FrameEntry(e, b, d)
      BY <1>1, LocalIds DEF LedgerOK, EntryOK
    <2>2. CASE b = c /\ d = top[c]
      BY <2>1, <2>2, LocalIds DEF FrameEntry, Req, F, Moved
    <2>3. CASE ~ (b = c /\ d = top[c])
      BY <2>1, <2>3, OtherFrame
    <2> QED BY <2>2, <2>3
  <1> QED BY <1>1, LocalIds, KeepLedger DEF Drawn

(* What the ledger holds after a record: the entries that were not         *)
(* evicted, in the same order, and the new one.                            *)
Evicted == IF Len(ledger) < Capacity THEN 0 ELSE 1

LEMMA RecordEntries ==
    ASSUME IInv, NEW e, ledger' = Record(ledger, e)
    PROVE  /\ Evicted \in {0, 1} /\ Evicted <= Len(ledger)
           /\ DOMAIN ledger' = 1 .. Len(ledger')
           /\ Len(ledger') = Len(ledger) + 1 - Evicted
           /\ ledger'[Len(ledger')] = e
           /\ \A i \in 1 .. Len(ledger) - Evicted : ledger'[i] = ledger[i + Evicted]
  <1>1. ledger \in Seq(EntryType) /\ Len(ledger) \in Nat
    BY LedgerTyped
  <1>2. CASE Len(ledger) < Capacity
    <2>1. ledger' = Append(ledger, e) /\ Evicted = 0
      BY <1>2 DEF Record, Evicted
    <2> QED BY <1>1, <2>1
  <1>3. CASE ~ (Len(ledger) < Capacity)
    <2>1. ledger' = Append(Tail(ledger), e) /\ Evicted = 1 /\ Len(ledger) > 0
      BY <1>1, <1>3, CapacityAssumption DEF Record, Evicted
    <2>2. /\ Tail(ledger) \in Seq(EntryType) /\ Len(Tail(ledger)) = Len(ledger) - 1
          /\ \A i \in 1 .. Len(ledger) - 1 : Tail(ledger)[i] = ledger[i + 1]
      BY <1>1, <2>1
    <2>3. /\ Len(ledger') = Len(ledger) /\ DOMAIN ledger' = 1 .. Len(ledger')
          /\ ledger'[Len(ledger')] = e
          /\ \A i \in 1 .. Len(ledger) - 1 : ledger'[i] = Tail(ledger)[i]
      BY <1>1, <2>1, <2>2
    <2> QED BY <1>1, <2>1, <2>2, <2>3
  <1> QED BY <1>2, <1>3

(* The entries of the new ledger: the recorded one, last, or an old one.   *)
LEMMA RecordedOrOld ==
    ASSUME IInv, NEW e, ledger' = Record(ledger, e)
    PROVE  /\ Entries' \subseteq Entries \cup {e}
           /\ \A i \in DOMAIN ledger' :
                \/ i = Len(ledger') /\ ledger'[i] = e
                \/ /\ i < Len(ledger')
                   /\ i + Evicted \in DOMAIN ledger /\ ledger'[i] = ledger[i + Evicted]
  <1>1. ASSUME NEW i \in DOMAIN ledger'
        PROVE  \/ i = Len(ledger') /\ ledger'[i] = e
               \/ /\ i < Len(ledger')
                  /\ i + Evicted \in DOMAIN ledger /\ ledger'[i] = ledger[i + Evicted]
    BY LedgerTyped, RecordEntries
  <1> QED BY <1>1 DEF Entries

(* Gate records an entry of its own for the running frame.                 *)
LEMMA RecordLedger ==
    ASSUME IInv, AccountsOK, LedgerOK, NEW c \in Callers, Local(c), F(c).pc = "gate",
           NEW new, new = NewEntry(c), ledger' = Record(ledger, new),
           frame'[c][top[c]].pc = "act"
    PROVE  /\ \A e \in Entries : e.id # new.id
           /\ LedgerOK'
  <1>1. /\ new.id = Id(c, top[c]) /\ new.action = F(c).action
        /\ new.tenant = Req(c).tenant /\ new.dep = Req(c).dep
        /\ new.terminal = FALSE /\ new.rolledBack = FALSE
    BY DEF NewEntry
  <1>2. Drawn(new.id) /\ new.id \in LiveIds /\ ~ (top[c] > top[c])
    BY <1>1, LocalIds, LiveIdsFacts, DepthFacts
  <1>3. \A e \in Entries : e.id # new.id
    BY <1>1, LocalIds DEF LedgerOK, EntryOK, FrameEntry, F, OpenPoints
  <1>4. EntryOK(new)'
    <2>1. ASSUME NEW b \in Callers, NEW d \in Depths, new.id = Id(b, d)'
          PROVE  FrameEntry(new, b, d)'
      <3>1. Id(b, d) = Id(c, top[c]) /\ Id(b, d) \in Ids
        BY <1>1, <2>1, LocalIds, LocalStep, RunningFacts
      <3>2. b = c /\ d = top[c]
        BY <1>2, <3>1, LocalIds, FrameOfId, SameId
      <3> QED BY <1>1, <3>2, LocalIds DEF FrameEntry, Moved, Req, F, OpenPoints
    <2>2. new.id \notin AuditedIds
      BY <1>2 DEF AccountsOK
    <2> QED BY <1>1, <1>2, <2>1, <2>2, LocalIds DEF EntryOK, Drawn
  <1>5. ASSUME NEW e \in Entries PROVE EntryOK(e)'
    <2>1. EntryOK(e)
      BY DEF LedgerOK
    <2>2. ASSUME NEW b \in Callers, NEW d \in Depths, e.id = Id(b, d)'
          PROVE  FrameEntry(e, b, d)'
      <3>1. ~ (b = c /\ d = top[c])
        BY <1>1, <1>3, <2>2, LocalIds
      <3>2. FrameEntry(e, b, d)
        BY <2>1, <2>2, LocalIds DEF EntryOK
      <3> QED BY <3>1, <3>2, OtherFrame
    <2> QED BY <2>1, <2>2, LocalIds DEF EntryOK, Drawn, Matches
  <1>6. \A e \in Entries' : EntryOK(e)'
    BY <1>4, <1>5, RecordedOrOld
  <1>7. \A i, j \in DOMAIN ledger' : ledger'[i].id = ledger'[j].id => i = j
    <2> SUFFICES ASSUME NEW i \in DOMAIN ledger', NEW j \in DOMAIN ledger',
                        ledger'[i].id = ledger'[j].id
                 PROVE  i = j
      OBVIOUS
    <2>1. i \in Int /\ j \in Int /\ Evicted \in Int
      BY RecordEntries, LedgerTyped
    <2>2. \A k \in DOMAIN ledger : ledger[k].id # new.id
      BY <1>3 DEF Entries
    <2>3. \A k, m \in DOMAIN ledger : ledger[k].id = ledger[m].id => k = m
      BY DEF LedgerOK
    <2> QED BY <2>1, <2>2, <2>3, RecordedOrOld
  <1> QED BY <1>3, <1>6, <1>7 DEF LedgerOK

(* What a mark does to the ledger: the entry of the frame, if it is still  *)
(* there, is closed; every other entry stays as it is.                     *)
LEMMA CloseMarks ==
    ASSUME IInv, NEW c \in Callers, Close(c)
    PROVE  /\ DOMAIN ledger' = DOMAIN ledger
           /\ \A i \in DOMAIN ledger :
                /\ ledger[i].id # Id(c, top[c]) => ledger'[i] = ledger[i]
                /\ ledger[i].id = Id(c, top[c]) =>
                        ledger'[i] = [ledger[i] EXCEPT !.terminal = TRUE,
                            !.rolledBack = @ \/ F(c).outcome = "rolled_back"]
  <1>1. \A i \in DOMAIN ledger : ledger[i] \in EntryType
    BY LedgerTyped
  <1>2. CASE F(c).outcome = "rolled_back"
    <2>1. ledger' = MarkRolledBack(ledger, Id(c, top[c]))
      BY <1>2 DEF Close
    <2>2. \A x \in EntryType :
            [x EXCEPT !.rolledBack = TRUE, !.terminal = TRUE]
                = [x EXCEPT !.terminal = TRUE, !.rolledBack = @ \/ F(c).outcome = "rolled_back"]
      BY <1>2 DEF EntryType
    <2> QED BY <1>1, <2>1, <2>2 DEF MarkRolledBack
  <1>3. CASE F(c).outcome # "rolled_back"
    <2>1. ledger' = MarkTerminal(ledger, Id(c, top[c]))
      BY <1>3 DEF Close
    <2>2. \A x \in EntryType :
            [x EXCEPT !.terminal = TRUE]
                = [x EXCEPT !.terminal = TRUE, !.rolledBack = @ \/ F(c).outcome = "rolled_back"]
      BY <1>3 DEF EntryType
    <2> QED BY <1>1, <2>1, <2>2 DEF MarkTerminal
  <1> QED BY <1>2, <1>3

LEMMA CloseFields ==
    ASSUME IInv, NEW c \in Callers, Close(c), NEW i \in DOMAIN ledger
    PROVE  /\ ledger'[i].id = ledger[i].id /\ ledger'[i].action = ledger[i].action
           /\ ledger'[i].tenant = ledger[i].tenant /\ ledger'[i].dep = ledger[i].dep
           /\ ledger'[i].delta = ledger[i].delta /\ ledger'[i].ts = ledger[i].ts
           /\ ledger[i].id = Id(c, top[c]) =>
                /\ ledger'[i].terminal = TRUE
                /\ ledger'[i].rolledBack
                        = (ledger[i].rolledBack \/ F(c).outcome = "rolled_back")
           /\ ledger[i].id # Id(c, top[c]) => ledger'[i] = ledger[i]
  <1>1. CASE ledger[i].id # Id(c, top[c])
    BY <1>1, CloseMarks
  <1>2. CASE ledger[i].id = Id(c, top[c])
    <2> DEFINE o == F(c).outcome = "rolled_back"
               x == ledger[i]
    <2>1. x \in EntryType
      BY LedgerTyped
    <2>2. ledger'[i] = [x EXCEPT !.terminal = TRUE, !.rolledBack = @ \/ o]
      BY <1>2, CloseMarks
    <2> HIDE DEF o, x
    <2>3. /\ ledger'[i].id = x.id /\ ledger'[i].action = x.action
          /\ ledger'[i].tenant = x.tenant /\ ledger'[i].dep = x.dep
          /\ ledger'[i].delta = x.delta /\ ledger'[i].ts = x.ts
          /\ ledger'[i].terminal = TRUE /\ ledger'[i].rolledBack = (x.rolledBack \/ o)
      BY <2>1, <2>2 DEF EntryType
    <2> QED BY <1>2, <2>3 DEF o, x
  <1> QED BY <1>1, <1>2

LEMMA CloseLength ==
    ASSUME IInv, NEW c \in Callers, Close(c), DOMAIN ledger' = DOMAIN ledger
    PROVE  Len(ledger') = Len(ledger)
  <1>1. Len(ledger) \in Nat /\ DOMAIN ledger = 1 .. Len(ledger)
    BY LedgerTyped
  <1>2. ledger' = [i \in DOMAIN ledger |-> ledger'[i]]
    BY DEF Close, MarkTerminal, MarkRolledBack
  <1>3. ledger' = [i \in 1 .. Len(ledger) |-> ledger'[i]]
    BY <1>1, <1>2
  <1> QED BY <1>1, <1>3

LEMMA CloseDepth ==
    ASSUME IInv, NEW c \in Callers, Close(c), NEW i \in DOMAIN ledger
    PROVE  /\ ledger'[i].depth = ledger[i].depth
           /\ ledger[i].terminal \in BOOLEAN
  <1> DEFINE o == F(c).outcome = "rolled_back"
             x == ledger[i]
  <1>1. x \in EntryType
    BY LedgerTyped
  <1>2. \/ ledger'[i] = x
        \/ ledger'[i] = [x EXCEPT !.terminal = TRUE, !.rolledBack = @ \/ o]
    BY CloseMarks
  <1> HIDE DEF o, x
  <1>3. ledger'[i].depth = x.depth /\ x.terminal \in BOOLEAN
    BY <1>1, <1>2 DEF EntryType
  <1> QED BY <1>3 DEF x

LEMMA CloseLedger ==
    ASSUME IInv, AccountsOK, LedgerOK, NEW c \in Callers, Close(c)
    PROVE  LedgerOK'
  <1>1. /\ Local(c) /\ F(c).pc = "close" /\ F(c).outcome \in Executed
        /\ frame'[c][top[c]].pc = "emit" /\ frame'[c][top[c]].outcome = F(c).outcome
    <2>1. Local(c) /\ top[c] >= 0 /\ F(c).pc = "close" /\ Goto(c, "emit")
      BY DEF Local, Close, At
    <2> QED BY <2>1, RunningFacts, GotoResult
  <1> DEFINE id == Id(c, top[c])
  <1>3. \A i \in DOMAIN ledger :
            /\ ledger'[i].id = ledger[i].id /\ ledger'[i].action = ledger[i].action
            /\ ledger'[i].tenant = ledger[i].tenant /\ ledger'[i].dep = ledger[i].dep
            /\ ledger[i].id = id =>
                    /\ ledger'[i].terminal = TRUE
                    /\ ledger'[i].rolledBack
                            = (ledger[i].rolledBack \/ F(c).outcome = "rolled_back")
            /\ ledger[i].id # id => ledger'[i] = ledger[i]
    BY CloseFields
  <1>4. ASSUME NEW i \in DOMAIN ledger, NEW e, e = ledger'[i] PROVE EntryOK(e)'
    <2>1. EntryOK(ledger[i])
      BY DEF LedgerOK, Entries
    <2>2. CASE ledger[i].id # id
      <3>1. EntryOK(e) /\ e.id # id
        BY <1>3, <1>4, <2>1, <2>2
      <3>2. ASSUME NEW b \in Callers, NEW d \in Depths, e.id = Id(b, d)'
            PROVE  FrameEntry(e, b, d)'
        BY <1>1, <3>1, <3>2, LocalIds, OtherFrame DEF EntryOK
      <3> HIDE DEF id
      <3> QED BY <1>1, <3>1, <3>2, LocalIds DEF EntryOK, Drawn, Matches
    <2>3. CASE ledger[i].id = id
      <3>1. /\ FrameEntry(ledger[i], c, top[c]) /\ ~ ledger[i].terminal
            /\ ~ ledger[i].rolledBack
        BY <1>1, <2>1, <2>3, LocalIds DEF EntryOK, FrameEntry, F
      <3>2. /\ e.id = id /\ e.action = ledger[i].action
            /\ e.tenant = ledger[i].tenant /\ e.dep = ledger[i].dep
            /\ e.terminal = TRUE
            /\ e.rolledBack <=> F(c).outcome = "rolled_back"
        BY <1>3, <1>4, <2>3, <3>1
      <3>3. e.id \in LiveIds /\ Drawn(e.id) /\ e.id \in Ids /\ ~ (top[c] > top[c])
        BY <1>1, <3>2, LocalIds, LocalStep, RunningFacts, LiveIdsFacts, DepthFacts
      <3>4. ASSUME NEW b \in Callers, NEW d \in Depths, e.id = Id(b, d)'
            PROVE  FrameEntry(e, b, d)'
        <4>1. b = c /\ d = top[c]
          <5>1. Id(b, d) = Id(c, top[c]) /\ Id(b, d) \in Ids
            BY <1>1, <3>2, <3>3, <3>4, LocalIds
          <5> QED BY <1>1, <3>3, <5>1, LocalIds, FrameOfId, SameId
        <4> QED BY <1>1, <3>1, <3>2, <4>1, LocalIds
             DEF FrameEntry, Moved, Req, F, Matches
      <3> QED BY <1>1, <3>2, <3>3, <3>4, LocalIds DEF EntryOK, Drawn
    <2> QED BY <2>2, <2>3
  <1>5. \A e \in Entries' : EntryOK(e)'
    BY <1>4, CloseMarks DEF Entries
  <1>6. \A i, j \in DOMAIN ledger' : ledger'[i].id = ledger'[j].id => i = j
    BY <1>3, CloseMarks DEF LedgerOK
  <1> QED BY <1>5, <1>6 DEF LedgerOK

(* A new frame is pushed; the frame above it, if any, waits.               *)
LEMMA PushLedger ==
    ASSUME IInv, LedgerOK, NEW c \in Callers, NEW t \in Depths, frame[c][t].n = 0,
           UNCHANGED <<ledger, audit, raised>>,
           issued' = [issued EXCEPT ![c] = @ + 1],
           \A b \in Callers, d \in Depths : Id(b, d) \in LiveIds => Req(b)' = Req(b),
           \A b \in Callers, d \in Depths :
                /\ b = c /\ d = t => frame'[b][d].n = issued[c] + 1
                /\ b # c \/ d # t =>
                        \/ frame'[b][d] = frame[b][d]
                        \/ /\ frame'[b][d].n = frame[b][d].n
                           /\ frame'[b][d].action = frame[b][d].action
                           /\ frame[b][d].pc = "rollback" /\ frame'[b][d].pc = "nested"
    PROVE  LedgerOK'
  <1>1. issued \in [Callers -> Nat] /\ \A id \in Ids : Drawn(id) => Drawn(id)'
    <2>1. issued \in [Callers -> Nat]
      BY DEF IInv, TypeOK
    <2> QED BY <2>1 DEF Drawn, Ids
  <1>2. \A b \in Callers, d \in Depths :
            Id(b, d)' = IF b = c /\ d = t THEN <<c, issued[c] + 1>> ELSE Id(b, d)
    BY DEF Id
  <1>3. LiveIds \subseteq LiveIds'
    <2>1. \A x \in LiveIds : \E b \in Callers, d \in Depths :
            x = Id(b, d) /\ ~ (b = c /\ d = t)
      BY DEF LiveIds, Id
    <2>2. LiveIds' = {Id(b, d)' : b \in Callers, d \in Depths} \ {<<b, 0>> : b \in Callers}
      BY DEF LiveIds
    <2> QED BY <1>2, <2>1, <2>2 DEF LiveIds
  <1>4. ASSUME NEW e \in Entries, NEW b \in Callers, NEW d \in Depths,
               e.id = Id(b, d)'
        PROVE  FrameEntry(e, b, d)'
    <2>1. EntryOK(e) /\ e.id \in Ids
      BY LedgerTyped DEF LedgerOK
    <2>2. ~ (b = c /\ d = t)
      BY <1>1, <1>2, <1>4, <2>1 DEF EntryOK, Drawn
    <2>3. FrameEntry(e, b, d) /\ e.id = Id(b, d) /\ Req(b)' = Req(b)
      BY <1>2, <1>4, <2>1, <2>2, FrameOfId DEF EntryOK
    <2>4. CASE frame'[b][d] = frame[b][d]
      BY <2>3, <2>4 DEF FrameEntry, Matches
    <2>5. CASE /\ frame'[b][d].action = frame[b][d].action
               /\ frame[b][d].pc = "rollback" /\ frame'[b][d].pc = "nested"
      BY <2>3, <2>5 DEF FrameEntry, OpenPoints
    <2> QED BY <2>2, <2>4, <2>5
  <1> QED BY <1>1, <1>3, <1>4, KeepLedger

(* The event of a frame is written and the frame popped.                   *)
LEMMA EmitLedger ==
    ASSUME IInv, AccountsOK, LedgerOK, NEW c \in Callers, Emit(c)
    PROVE  LedgerOK'
  <1> DEFINE id == Id(c, top[c])
             event == NewEvent(c)
  <1>1. /\ top[c] \in Depths /\ F(c).pc = "emit" /\ UNCHANGED <<raised, issued, ledger>>
        /\ LiveIds' = LiveIds \ {id} /\ id \in LiveIds
        /\ AuditedIds' = AuditedIds \cup {id}
    BY EmitIds
  <1>2. /\ \A k \in DOMAIN audit : k \in DOMAIN audit' /\ audit'[k] = audit[k]
        /\ \E k \in DOMAIN audit' : audit'[k].id = id /\ audit'[k].outcome = F(c).outcome
    <2>1. audit' = Append(audit, event) /\ audit \in Seq(EventType)
      BY EmitIds DEF IInv, TypeOK
    <2>2. event.id = id /\ event.outcome = F(c).outcome
      BY DEF NewEvent
    <2> HIDE DEF event, id
    <2>3. /\ Len(audit) + 1 \in DOMAIN audit' /\ audit'[Len(audit) + 1] = event
          /\ \A k \in DOMAIN audit : k \in DOMAIN audit' /\ audit'[k] = audit[k]
      BY <2>1
    <2> QED BY <2>2, <2>3
  <1>3. Entries' = Entries
    BY <1>1 DEF Entries
  <1>4. ASSUME NEW e \in Entries PROVE EntryOK(e)'
    <2>1. EntryOK(e) /\ e.id \in Ids
      BY LedgerTyped DEF LedgerOK
    <2>2. e.id = id => FrameEntry(e, c, top[c])
      BY <1>1, <2>1 DEF EntryOK
    <2>3. e.id = id => e.terminal /\ Matches(e, F(c).outcome)
      BY <1>1, <2>2 DEF FrameEntry, F, OpenPoints
    <2>4. e.terminal =>
            \/ e.id \in LiveIds' \cup raised'
            \/ \E k \in DOMAIN audit' :
                    audit'[k].id = e.id /\ Matches(e, audit'[k].outcome)
      BY <1>1, <1>2, <2>1, <2>3 DEF EntryOK
    <2>5. ~ e.terminal => ~ e.rolledBack /\ e.id \notin AuditedIds'
      BY <1>1, <2>1, <2>3 DEF EntryOK
    <2>6. ASSUME NEW b \in Callers, NEW d \in Depths, e.id = Id(b, d)'
          PROVE  FrameEntry(e, b, d)'
      <3>1. /\ b = c /\ d >= top[c] => frame'[b][d].n = 0
            /\ b = c /\ d < top[c] => frame'[b][d].n = frame[b][d].n
                                      /\ frame'[b][d].action = frame[b][d].action
            /\ b = c /\ d + 1 = top[c] => frame'[b][d].pc = "close"
            /\ b # c \/ d + 1 < top[c] => frame'[b][d] = frame[b][d]
        BY EmitIds
      <3>2. ~ (b = c /\ d >= top[c])
        BY <2>1, <2>6, <3>1 DEF Id, Ids
      <3>3. e.id = Id(b, d)
        BY <1>1, <2>6, <3>1, <3>2, DepthFacts DEF Id
      <3>4. FrameEntry(e, b, d)
        BY <2>1, <3>3 DEF EntryOK
      <3>5. CASE b # c \/ d + 1 < top[c]
        <4>1. Req(b)' = Req(b)
          BY <1>1, <3>5, DepthFacts DEF Emit, Return, Req, IInv, TypeOK
        <4> QED BY <3>1, <3>4, <3>5, <4>1 DEF FrameEntry, Matches
      <3>6. CASE b = c /\ d + 1 = top[c]
        <4>1. Req(b)' = Req(b)
          BY <1>1, <3>6, DepthFacts DEF Emit, Return, Req, IInv, TypeOK
        <4>2. FrameOK(b, d) /\ d < top[b]
          BY <1>1, <3>6, DepthFacts DEF IInv, StackOK
        <4>3. frame[b][d].pc = "nested"
          BY <4>2 DEF FrameOK
        <4> QED BY <1>1, <3>1, <3>4, <3>6, <4>1, <4>3, DepthFacts
             DEF FrameEntry, OpenPoints
      <3> QED BY <1>1, <3>2, <3>5, <3>6, DepthFacts
    <2> HIDE DEF id, event
    <2> QED BY <1>1, <2>1, <2>4, <2>5, <2>6 DEF EntryOK, Drawn
  <1> QED BY <1>1, <1>3, <1>4 DEF LedgerOK

(* An exception unwinds the stack and leaves the ledger as it is.          *)
LEMMA RaiseLedger ==
    ASSUME IInv, LedgerOK, NEW c \in Callers, CallRaises(c)
    PROVE  LedgerOK'
  <1>1. /\ top[c] \in Depths
        /\ raised' = raised \cup {Id(c, d) : d \in 0 .. top[c]}
        /\ frame' = [frame EXCEPT ![c] = NoFrames]
        /\ ctx' = [ctx EXCEPT ![c] = NoContext]
        /\ UNCHANGED <<ledger, audit, issued>>
    BY RunningFacts DEF CallRaises, At, Raise
  <1>2. \A b \in Callers, d \in Depths :
            /\ b = c => Id(b, d)' = <<c, 0>>
            /\ b # c => frame'[b][d] = frame[b][d] /\ Id(b, d)' = Id(b, d) /\ Req(b)' = Req(b)
    BY <1>1 DEF Id, NoFrames, IdleFrame, Req, IInv, TypeOK
  <1>3. LiveIds \cup raised \subseteq (LiveIds \cup raised)'
    <2>1. ASSUME NEW x \in LiveIds PROVE x \in LiveIds' \cup raised'
      <3>1. PICK b \in Callers, d \in Depths : x = Id(b, d) /\ frame[b][d].n # 0
        BY DEF LiveIds, Id
      <3>2. CASE b = c
        <4>1. d <= top[c]
          <5>1. FrameOK(c, d)
            BY DEF IInv, StackOK
          <5> QED BY <1>1, <3>1, <3>2, <5>1, DepthFacts DEF FrameOK
        <4>2. d \in 0 .. top[c]
          BY <1>1, <4>1, DepthFacts
        <4> QED BY <1>1, <3>1, <3>2, <4>2
      <3>3. CASE b # c
        <4>1. x = Id(b, d)' /\ frame'[b][d].n # 0
          BY <1>2, <3>1, <3>3
        <4> QED BY <4>1 DEF LiveIds, Id
      <3> QED BY <3>2, <3>3
    <2> QED BY <1>1, <2>1
  <1>4. ASSUME NEW e \in Entries, NEW b \in Callers, NEW d \in Depths,
               e.id = Id(b, d)'
        PROVE  FrameEntry(e, b, d)'
    <2>1. EntryOK(e) /\ e.id \in Ids
      BY LedgerTyped DEF LedgerOK
    <2>2. b # c
      BY <1>2, <1>4, <2>1 DEF Ids
    <2> QED BY <1>2, <1>4, <2>1, <2>2 DEF EntryOK, FrameEntry, Matches
  <1>5. \A id \in Ids : Drawn(id) => Drawn(id)'
    BY <1>1 DEF Drawn
  <1> QED BY <1>1, <1>3, <1>4, <1>5, KeepLedger

LEMMA LedgerStep ==
    ASSUME IInv, AccountsOK, LedgerOK, NEW c \in Callers, Local(c)
    PROVE  LedgerOK'
  <1>1. /\ top[c] >= 0 /\ top[c] \in Depths /\ F(c) \in FrameType
    BY LocalStep, RunningFacts
  <1>2. ASSUME UNCHANGED ledger, F(c).pc \notin OpenPoints PROVE LedgerOK'
    BY <1>2, LocalLedger
  <1>3. ASSUME UNCHANGED ledger, frame'[c][top[c]].pc \in OpenPoints PROVE LedgerOK'
    BY <1>3, LocalLedger
  <1>4. ASSUME NEW p \in OpenPoints, NEW o, Goto(c, p) \/ Settle(c, p, o), UNCHANGED ledger
        PROVE  LedgerOK'
    BY <1>1, <1>3, <1>4, GotoResult, SettleResult
  <1> USE DEF OpenPoints
  <1>5. CASE CheckBounds(c) \/ Inspect(c)
    BY <1>2, <1>5 DEF CheckBounds, Inspect, At
  <1>6. CASE Gate(c)
    <2>1. F(c).pc = "gate"
      BY <1>6 DEF Gate, At
    <2>2. CASE UNCHANGED ledger
      BY <1>2, <2>1, <2>2
    <2>3. CASE Goto(c, "act") /\ ledger' = Record(ledger, NewEntry(c))
      BY <1>1, <2>1, <2>3, GotoResult, RecordLedger
    <2> QED BY <1>6, <2>2, <2>3 DEF Gate
  <1>7. CASE Patch(c) \/ WriteReplicas(c) \/ Wake(c)
    BY <1>4, <1>7 DEF Patch, WriteReplicas, Wake
  <1>8. CASE ReadReplicas(c)
    <2>1. ASSUME NEW m, NEW t, Step(c, [F(c) EXCEPT !.pc = "write", !.from = m, !.target = t])
          PROVE  frame'[c][top[c]].pc = "write"
      <3> DEFINE r == [F(c) EXCEPT !.pc = "write", !.from = m, !.target = t]
      <3>1. r.pc = "write"
        BY <1>1 DEF FrameType
      <3> HIDE DEF r
      <3>2. frame'[c][top[c]] = r
        BY <1>1, <2>1 DEF Step, IInv, TypeOK, r
      <3> QED BY <3>1, <3>2
    <2> QED BY <1>3, <1>4, <1>8, <2>1 DEF ReadReplicas
  <1>9. CASE HandlerRaises(c)
    BY <1>4, <1>9 DEF HandlerRaises
  <1>10. CASE Poll(c)
    <2>1. ASSUME NEW w, Step(c, [F(c) EXCEPT !.pc = "sleep", !.wake = w])
          PROVE  frame'[c][top[c]].pc = "sleep"
      <3> DEFINE r == [F(c) EXCEPT !.pc = "sleep", !.wake = w]
      <3>1. r.pc = "sleep"
        BY <1>1 DEF FrameType
      <3> HIDE DEF r
      <3>2. frame'[c][top[c]] = r
        BY <1>1, <2>1 DEF Step, IInv, TypeOK, r
      <3> QED BY <3>1, <3>2
    <2> QED BY <1>3, <1>4, <1>10, <2>1 DEF Poll
  <1>11. CASE Close(c)
    BY <1>11, CloseLedger
  <1>12. CASE Rollback(c) /\ InverseOf[F(c).action] = NoAction
    BY <1>4, <1>12 DEF Rollback
  <1> QED BY <1>5, <1>6, <1>7, <1>8, <1>9, <1>10, <1>11, <1>12 DEF Local

LEMMA LedgerInv == IInv /\ AccountsOK /\ LedgerOK /\ [Next]_vars => LedgerOK'
  <1> SUFFICES ASSUME IInv, AccountsOK, LedgerOK, [Next]_vars PROVE LedgerOK'
    OBVIOUS
  <1>1. ASSUME NEW c \in Callers, Start(c) PROVE LedgerOK'
    <2>1. ASSUME NEW b \in Callers, NEW d \in Depths, Id(b, d) \in LiveIds
          PROVE  Req(b)' = Req(b)
      <3>1. b # c
        <4>1. FrameOK(b, d) /\ frame[b][d].n # 0
          BY <2>1 DEF LiveIds, Id, IInv, StackOK
        <4>2. top[c] = -1
          BY <1>1, StartPush
        <4> QED BY <4>1, <4>2, DepthFacts DEF FrameOK
      <3> QED BY <1>1, <3>1 DEF Start, Call, Req, IInv, TypeOK
    <2> QED BY <1>1, <2>1, StartPush, PushLedger
  <1>2. ASSUME NEW c \in Callers, Rollback(c), InverseOf[F(c).action] # NoAction
        PROVE  LedgerOK'
    <2>1. \A b \in Callers, d \in Depths :
            /\ b = c /\ d = top[c] + 1 => frame'[b][d].n = issued[c] + 1
            /\ b # c \/ d # top[c] + 1 =>
                    \/ frame'[b][d] = frame[b][d]
                    \/ /\ frame'[b][d].n = frame[b][d].n
                       /\ frame'[b][d].action = frame[b][d].action
                       /\ frame[b][d].pc = "rollback" /\ frame'[b][d].pc = "nested"
      BY <1>2, RollbackPush DEF F
    <2>2. frame[c][top[c] + 1].n = 0 /\ top[c] + 1 \in Depths
      BY <1>2, RollbackPush, DepthFacts DEF IInv, StackOK, FrameOK
    <2>3. \A b \in Callers : Req(b)' = Req(b)
      BY <1>2, RollbackPush DEF Req
    <2> QED BY <1>2, <2>1, <2>2, <2>3, RollbackPush, PushLedger
  <1>3. CASE Tick \/ UNCHANGED vars
    <2>1. UNCHANGED <<ledger, audit, ctx, frame, issued, raised>>
      BY <1>3 DEF Tick, vars
    <2>2. ASSUME NEW e \in Entries, NEW b \in Callers, NEW d \in Depths, e.id = Id(b, d)'
          PROVE  FrameEntry(e, b, d)'
      BY <2>1, <2>2 DEF LedgerOK, EntryOK, FrameEntry, Req, Matches, Id
    <2>3. LiveIds' = LiveIds /\ \A id \in Ids : Drawn(id) => Drawn(id)'
      BY <2>1 DEF LiveIds, Id, Drawn
    <2> QED BY <2>1, <2>2, <2>3, KeepLedger
  <1>4. ASSUME NEW c \in Callers, Run(c) PROVE LedgerOK'
    BY <1>2, <1>4, LedgerStep, EmitLedger, RaiseLedger DEF Run, Local
  <1> QED BY <1>1, <1>3, <1>4 DEF Next

(* The invariants on which the theorems below rest, together.              *)
LInv == IInv /\ AccountsOK /\ EffectsOK /\ LedgerOK

LEMMA LInvNext == LInv /\ [Next]_vars => LInv'
  BY NextInv, AccountsInv, EffectsInv, LedgerInv DEF LInv

LEMMA LedgerInvariant == Spec => []LInv
  <1>1. Init => LInv
    <2>1. Init => AccountsOK
      BY DEF Init, AccountsOK, AuditedIds, LiveIds, Id, Drawn, NoFrames, IdleFrame
    <2>2. Init => EffectsOK
      BY DEF Init, EffectsOK, AuditTellsTheTruth, EffectOK, NoFrames, IdleFrame,
         BeforeWrite, AfterWrite, Settled
    <2>3. Init => LedgerOK
      BY DEF Init, LedgerOK, Entries
    <2> QED BY <2>1, <2>2, <2>3, InitInv DEF LInv
  <1> QED BY <1>1, LInvNext, PTL DEF Spec

(* The ledger and the audit trail agree about every entry that has not     *)
(* been evicted: a closed entry has its record, or is about to, or lost it *)
(* to an exception of the sink; it says rolled back exactly when the       *)
(* record does; an open entry has none (runner.py:85-122, ledger.py).      *)
THEOREM LedgerAgreesWithTrail == Spec => []LedgerMatchesAudit
  <1>1. ASSUME LInv PROVE LedgerMatchesAudit
    <2> SUFFICES ASSUME NEW i \in DOMAIN ledger, NEW e, e = ledger[i]
                 PROVE  /\ e.terminal =>
                            \/ \E c \in Callers, d \in Depths :
                                /\ frame[c][d].pc = "emit" /\ Id(c, d) = e.id
                                /\ e.rolledBack <=> frame[c][d].outcome = "rolled_back"
                            \/ \E k \in DOMAIN audit :
                                /\ audit[k].id = e.id /\ audit[k].outcome \in Executed
                                /\ e.rolledBack <=> audit[k].outcome = "rolled_back"
                            \/ e.id \in raised
                        /\ ~ e.terminal => e.id \notin AuditedIds /\ ~ e.rolledBack
      BY DEF LedgerMatchesAudit
    <2>1. EntryOK(e)
      BY <1>1 DEF LInv, LedgerOK, Entries
    <2>2. ASSUME e.id \in LiveIds, e.terminal
          PROVE  \E c \in Callers, d \in Depths :
                    /\ frame[c][d].pc = "emit" /\ Id(c, d) = e.id
                    /\ e.rolledBack <=> frame[c][d].outcome = "rolled_back"
      <3>1. PICK c \in Callers, d \in Depths : e.id = Id(c, d)
        BY <2>2 DEF LiveIds
      <3>2. FrameEntry(e, c, d)
        BY <2>1, <3>1 DEF EntryOK
      <3> QED BY <2>2, <3>1, <3>2 DEF FrameEntry, Matches
    <2> QED BY <2>1, <2>2 DEF EntryOK, Matches
  <1> QED BY <1>1, LedgerInvariant, PTL

-----------------------------------------------------------------------------
(* Only Gate and Close write to the ledger, and only Emit to the trail.    *)
LEMMA RunWrites ==
    ASSUME NEW c \in Callers, Run(c)
    PROVE  /\ \/ UNCHANGED ledger
              \/ /\ Gate(c) /\ Goto(c, "act")
                 /\ ledger' = Record(ledger, NewEntry(c))
              \/ Close(c)
           /\ UNCHANGED audit \/ audit' = Append(audit, NewEvent(c))
  <1>1. CASE Gate(c)
    BY <1>1 DEF Gate
  <1>2. CASE Close(c)
    BY <1>2 DEF Close
  <1>3. CASE Emit(c)
    BY <1>3 DEF Emit
  <1>4. CASE ~ (Gate(c) \/ Close(c) \/ Emit(c))
    BY <1>4 DEF Run, CheckBounds, Inspect, Patch, ReadReplicas, WriteReplicas,
       HandlerRaises, Poll, Wake, Rollback, CallRaises
  <1> QED BY <1>1, <1>2, <1>3, <1>4

LEMMA LedgerWriters ==
    ASSUME IInv, [Next]_vars
    PROVE  /\ \/ UNCHANGED ledger
              \/ \E c \in Callers :
                    /\ Gate(c) /\ Goto(c, "act")
                    /\ ledger' = Record(ledger, NewEntry(c))
              \/ \E c \in Callers : Close(c)
           /\ \/ UNCHANGED audit
              \/ \E c \in Callers : audit' = Append(audit, NewEvent(c))
  <1>1. ASSUME NEW c \in Callers, Start(c) PROVE UNCHANGED <<ledger, audit>>
    BY <1>1 DEF Start, Call
  <1>2. CASE Tick \/ UNCHANGED vars
    BY <1>2 DEF Tick, vars
  <1> QED BY <1>1, <1>2, RunWrites DEF Next

LEMMA RecordAppends ==
    ASSUME LInv, NEW c \in Callers, Gate(c), Goto(c, "act"),
           ledger' = Record(ledger, NewEntry(c))
    PROVE  \A e \in Entries : e.id # NewEntry(c).id
  <1>1. Local(c) /\ top[c] >= 0 /\ F(c).pc = "gate"
    BY DEF Local, Gate, At
  <1>2. frame'[c][top[c]].pc = "act"
    BY <1>1, GotoResult DEF LInv
  <1> QED BY <1>1, <1>2, RecordLedger DEF LInv

LEMMA FinalStep ==
    ASSUME LInv, [Next]_vars
    PROVE  /\ Len(audit') >= Len(audit)
           /\ \A k \in DOMAIN audit : audit'[k] = audit[k]
           /\ \A i \in DOMAIN ledger, j \in DOMAIN ledger' :
                ledger[i].id = ledger'[j].id /\ ledger[i].terminal
                    => ledger'[j] = ledger[i]
  <1>1. IInv /\ (\A i, j \in DOMAIN ledger : ledger[i].id = ledger[j].id => i = j)
    BY DEF LInv, LedgerOK
  <1>2. Len(audit') >= Len(audit) /\ \A k \in DOMAIN audit : audit'[k] = audit[k]
    <2>1. audit \in Seq(EventType)
      BY <1>1 DEF IInv, TypeOK
    <2>2. ASSUME NEW e, audit' = Append(audit, e)
          PROVE  Len(audit') >= Len(audit) /\ \A k \in DOMAIN audit : audit'[k] = audit[k]
      BY <2>1, <2>2
    <2> QED BY <1>1, <2>1, <2>2, LedgerWriters
  <1>3. ASSUME NEW i \in DOMAIN ledger, NEW j \in DOMAIN ledger',
               ledger[i].id = ledger'[j].id, ledger[i].terminal
        PROVE  ledger'[j] = ledger[i]
    <2>1. CASE UNCHANGED ledger
      BY <1>1, <1>3, <2>1
    <2>2. ASSUME NEW c \in Callers, Gate(c), Goto(c, "act"),
                 ledger' = Record(ledger, NewEntry(c))
          PROVE  ledger'[j] = ledger[i]
      <3>1. ledger[i].id # NewEntry(c).id
        BY <2>2, RecordAppends DEF Entries
      <3>2. \/ ledger'[j] = NewEntry(c)
            \/ j + Evicted \in DOMAIN ledger /\ ledger'[j] = ledger[j + Evicted]
        BY <1>1, <2>2, RecordedOrOld
      <3> QED BY <1>1, <1>3, <3>1, <3>2
    <2>3. ASSUME NEW c \in Callers, Close(c) PROVE ledger'[j] = ledger[i]
      <3>3. j \in DOMAIN ledger /\ ledger'[j].id = ledger[j].id
        BY <1>1, <2>3, CloseMarks, CloseFields
      <3>4. i = j
        BY <1>1, <1>3, <3>3
      <3>5. ledger[i].id # Id(c, top[c])
        <4>1. EntryOK(ledger[i])
          BY DEF LInv, LedgerOK, Entries
        <4>2. top[c] \in Depths /\ F(c).pc = "close"
          BY <1>1, <2>3, RunningFacts DEF Close, At
        <4> QED BY <1>3, <4>1, <4>2 DEF EntryOK, FrameEntry, F
      <3> QED BY <1>1, <2>3, <3>4, <3>5, CloseMarks
    <2> QED BY <1>1, <2>1, <2>2, <2>3, LedgerWriters
  <1> QED BY <1>2, <1>3

(* The audit trail is append-only and a closed ledger entry never changes, *)
(* whatever other calls record, mark or evict (ledger.py:40-63).           *)
THEOREM HistoryStands == Spec => HistoryIsFinal
  <1> DEFINE Final ==
        /\ Len(audit') >= Len(audit)
        /\ \A k \in DOMAIN audit : audit'[k] = audit[k]
        /\ \A i \in DOMAIN ledger, j \in DOMAIN ledger' :
                ledger[i].id = ledger'[j].id /\ ledger[i].terminal
                    => ledger'[j] = ledger[i]
  <1>1. LInv /\ [Next]_vars => [Final]_vars
    BY FinalStep
  <1> QED BY <1>1, LedgerInvariant, PTL DEF Spec, HistoryIsFinal

-----------------------------------------------------------------------------
(* The chain of a call: its frames draw consecutive ids, each the inverse  *)
(* of the one above, and until the running frame settles its id is the     *)
(* last one its caller has drawn.                                          *)
ChainOK(c) ==
    /\ \A d \in Depths : d <= top[c] => frame[c][d].n <= MaxIssued + d
    /\ \A d, e \in Depths : e = d + 1 /\ e <= top[c] =>
            /\ frame[c][e].n = frame[c][d].n + 1
            /\ InverseOf[frame[c][d].action] = frame[c][e].action
    /\ top[c] >= 0 /\ F(c).pc \notin Settled => issued[c] = F(c).n

ChainsOK == \A c \in Callers : ChainOK(c)

(* A settled frame stays settled until it returns.                         *)
LEMMA SettledStays ==
    ASSUME IInv, NEW c \in Callers, Local(c), F(c).pc \in Settled
    PROVE  F(c).pc = "close" /\ frame'[c][top[c]].pc = "emit"
  <1>1. Close(c)
    BY DEF Settled, Local, CheckBounds, Inspect, Gate, Patch, ReadReplicas,
       WriteReplicas, HandlerRaises, Poll, Wake, Rollback, At
  <1>2. top[c] >= 0 /\ F(c).pc = "close" /\ Goto(c, "emit")
    BY <1>1 DEF Close, At
  <1> QED BY <1>2, GotoResult

LEMMA ChainsInv == IInv /\ ChainsOK /\ [Next]_vars => ChainsOK'
  <1> SUFFICES ASSUME IInv, ChainsOK, [Next]_vars, NEW b \in Callers PROVE ChainOK(b)'
    BY DEF ChainsOK
  <1>0. /\ ChainOK(b) /\ top[b] \in Depths \cup {-1} /\ issued[b] \in Nat
        /\ \A d \in Depths : frame[b][d].n \in Nat /\ FrameOK(b, d)
        /\ MaxIssued \in Nat
    BY ParametersAssumption DEF ChainsOK, IInv, TypeOK, StackOK, FrameType
  <1>1. ASSUME UNCHANGED <<top, issued>>, \A d \in Depths : frame'[b][d] = frame[b][d]
        PROVE  ChainOK(b)'
    BY <1>0, <1>1, DepthFacts DEF ChainOK, F
  <1>2. ASSUME NEW c \in Callers, Local(c) PROVE ChainOK(b)'
    <2>1. UNCHANGED <<top, issued>> /\ top[c] \in Depths /\ Moved(c)
      BY <1>2, LocalStep
    <2>2. CASE b # c
      BY <1>1, <2>1, <2>2 DEF Moved
    <2>3. CASE b = c
      <3>1. F(c).pc \in Settled => F(c)'.pc \in Settled
        BY <1>2, <2>1, SettledStays DEF F, Settled
      <3>2. \A d \in Depths : /\ frame'[b][d].n = frame[b][d].n
                              /\ frame'[b][d].action = frame[b][d].action
        BY <2>1, <2>3 DEF Moved
      <3>3. F(b)'.n = F(b).n
        BY <2>1, <2>3, <3>2 DEF F
      <3> QED BY <1>0, <2>1, <2>3, <3>1, <3>2, <3>3 DEF ChainOK
    <2> QED BY <2>2, <2>3
  <1>3. ASSUME NEW c \in Callers, Start(c) PROVE ChainOK(b)'
    <2>1. /\ top[c] = -1 /\ issued[c] < MaxIssued /\ top' = [top EXCEPT ![c] = 0]
          /\ issued' = [issued EXCEPT ![c] = @ + 1]
      BY <1>3 DEF Start, Call
    <2>2. CASE b # c
      <3>1. top'[b] = top[b] /\ issued'[b] = issued[b]
        BY <2>1, <2>2 DEF IInv, TypeOK
      <3>2. \A d \in Depths : frame'[b][d] = frame[b][d]
        BY <1>3, <2>2, StartPush
      <3> QED BY <1>0, <3>1, <3>2, DepthFacts DEF ChainOK, F
    <2>3. CASE b = c
      <3>1. /\ top'[b] = 0 /\ issued'[b] = issued[b] + 1 /\ frame'[b][0].n = issued[b] + 1
        BY <1>3, <2>1, <2>3, StartPush, DepthFacts DEF IInv, TypeOK
      <3> QED BY <1>0, <2>1, <2>3, <3>1, DepthFacts DEF ChainOK, F
    <2> QED BY <2>2, <2>3
  <1>4. ASSUME NEW c \in Callers, Rollback(c), InverseOf[F(c).action] # NoAction
        PROVE  ChainOK(b)'
    <2>1. /\ top[c] \in Depths /\ top[c] + 1 \in Depths /\ F(c).pc = "rollback"
          /\ top' = [top EXCEPT ![c] = @ + 1] /\ issued' = [issued EXCEPT ![c] = @ + 1]
      BY <1>4, RollbackPush DEF Rollback
    <2>2. CASE b # c
      <3>1. top'[b] = top[b] /\ issued'[b] = issued[b]
        BY <2>1, <2>2 DEF IInv, TypeOK
      <3>2. \A d \in Depths : frame'[b][d] = frame[b][d]
        BY <1>4, <2>2, RollbackPush
      <3> QED BY <1>0, <3>1, <3>2, DepthFacts DEF ChainOK, F
    <2>3. CASE b = c
      <3>1. /\ top'[b] = top[b] + 1 /\ issued'[b] = issued[b] + 1
            /\ issued[b] = frame[b][top[b]].n
        BY <1>0, <2>1, <2>3, DepthFacts DEF ChainOK, F, Settled, IInv, TypeOK
      <3>2. /\ frame'[b][top[b] + 1].n = issued[b] + 1
            /\ frame'[b][top[b] + 1].action = InverseOf[frame[b][top[b]].action]
            /\ \A d \in Depths : d # top[b] + 1 =>
                    /\ frame'[b][d].n = frame[b][d].n
                    /\ frame'[b][d].action = frame[b][d].action
        BY <1>4, <2>1, <2>3, RollbackPush DEF F
      <3> QED BY <1>0, <2>1, <2>3, <3>1, <3>2, DepthFacts DEF ChainOK, F
    <2> QED BY <2>2, <2>3
  <1>5. ASSUME NEW c \in Callers, Emit(c) PROVE ChainOK(b)'
    <2>1. top[c] \in Depths /\ top' = [top EXCEPT ![c] = @ - 1] /\ UNCHANGED issued
      BY <1>5, EmitIds DEF Emit, Return
    <2>2. CASE b # c
      <3>1. top'[b] = top[b] /\ \A d \in Depths : frame'[b][d] = frame[b][d]
        BY <1>5, <2>1, <2>2, EmitIds DEF IInv, TypeOK
      <3> QED BY <1>0, <2>1, <3>1, DepthFacts DEF ChainOK, F
    <2>3. CASE b = c
      <3>1. /\ top'[b] = top[b] - 1
            /\ \A d \in Depths : /\ d < top[b] => /\ frame'[b][d].n = frame[b][d].n
                                                  /\ frame'[b][d].action = frame[b][d].action
                                 /\ d + 1 = top[b] => frame'[b][d].pc = "close"
        BY <1>5, <2>1, <2>3, EmitIds DEF IInv, TypeOK
      <3> QED BY <1>0, <2>1, <2>3, <3>1, DepthFacts DEF ChainOK, F, Settled
    <2> QED BY <2>2, <2>3
  <1>6. ASSUME NEW c \in Callers, CallRaises(c) PROVE ChainOK(b)'
    <2>1. /\ top' = [top EXCEPT ![c] = -1] /\ frame' = [frame EXCEPT ![c] = NoFrames]
          /\ UNCHANGED issued
      BY <1>6 DEF CallRaises, Raise
    <2> QED BY <1>0, <2>1, DepthFacts DEF ChainOK, F, IInv, TypeOK
  <1>7. CASE Tick \/ UNCHANGED vars
    BY <1>1, <1>7 DEF Tick, vars
  <1>8. ASSUME NEW c \in Callers, Run(c) PROVE ChainOK(b)'
    BY <1>2, <1>4, <1>5, <1>6, <1>8 DEF Run, Local
  <1> QED BY <1>3, <1>7, <1>8 DEF Next

LEMMA ChainsInvariant == Spec => []ChainsOK
  <1>1. Init => ChainsOK
    BY DepthFacts DEF Init, ChainsOK, ChainOK
  <1> QED BY <1>1, ChainsInv, NestingInvariant, PTL DEF Spec

-----------------------------------------------------------------------------
(* The refinement.  AppliedIds and Trail name the mapped variables.        *)
AppliedIds == {w.id : w \in writes}
Trail   == [k \in DOMAIN audit |-> [id |-> audit[k].id, outcome |-> audit[k].outcome]]

LEMMA MappedRecorded == CL!Recorded = AuditedIds
  BY DEF CL!Recorded, AuditedIds

(* What stays open, applied, recorded and lost in a step that neither      *)
(* draws an id nor writes.                                                 *)
LEMMA LocalStutter ==
    ASSUME IInv, NEW c \in Callers, Local(c), UNCHANGED writes
    PROVE  UNCHANGED CL!vars
  BY LocalIds DEF CL!vars

(* The frame that a call or a rollback pushes begins a new call.           *)
LEMMA PushBegins ==
    ASSUME LInv, NEW c \in Callers, NEW t \in Depths, frame[c][t].n = 0,
           UNCHANGED <<audit, raised, writes>>,
           issued[c] < MaxIssued + MaxRollbackDepth + 1,
           \A b \in Callers, d \in Depths :
               frame'[b][d].n = IF b = c /\ d = t THEN issued[c] + 1 ELSE frame[b][d].n
    PROVE  CL!Next
  <1> DEFINE new == <<c, issued[c] + 1>>
  <1>1. issued[c] \in Nat /\ IInv /\ AccountsOK /\ MaxIssued \in Nat
    BY ParametersAssumption DEF LInv, IInv, TypeOK
  <1>2. new \in Callers \X (1 .. MaxIssued + MaxRollbackDepth + 1)
    BY <1>1, DepthFacts
  <1>3. ~ Drawn(new)
    BY <1>1 DEF Drawn
  <1>4. new \notin LiveIds \cup raised \cup AuditedIds
    BY <1>1, <1>3, LiveIdsFacts DEF AccountsOK
  <1>5. LiveIds' = LiveIds \cup {new}
    <2>1. \A b \in Callers, d \in Depths :
            Id(b, d)' = IF b = c /\ d = t THEN new ELSE Id(b, d)
      BY DEF Id
    <2>2. Id(c, t) = <<c, 0>>
      BY DEF Id
    <2>3. LiveIds' = {Id(b, d)' : b \in Callers, d \in Depths} \ {<<b, 0>> : b \in Callers}
      BY DEF LiveIds
    <2> QED BY <1>1, <2>1, <2>2, <2>3 DEF LiveIds
  <1> HIDE DEF new
  <1>6. new \in CL!Unused
    BY <1>2, <1>4, MappedRecorded DEF CL!Unused
  <1>7. CL!Begin(new)
    BY <1>5 DEF CL!Begin
  <1> QED BY <1>6, <1>7 DEF CL!Next

(* The one write of a frame mutates the cluster for an open call.          *)
LEMMA WriteMutates ==
    ASSUME LInv, NEW c \in Callers, Local(c), F(c).pc \in BeforeWrite,
           NEW w, w.id = Id(c, top[c]), writes' = writes \cup {w}
    PROVE  CL!Next
  <1>1. IInv /\ EffectsOK /\ top[c] \in Depths /\ UNCHANGED <<audit, raised>>
        /\ LiveIds' = LiveIds
    BY LocalIds DEF LInv
  <1>2. w.id \in LiveIds
    BY <1>1, LiveIdsFacts, DepthFacts
  <1>3. w.id \notin AppliedIds
    BY <1>1 DEF EffectsOK, EffectOK, F, Mutated, AppliedIds
  <1>4. AppliedIds' = AppliedIds \cup {w.id}
    BY DEF AppliedIds
  <1>5. CL!Mutate(w.id)
    BY <1>1, <1>3, <1>4 DEF CL!Mutate, AppliedIds
  <1> QED BY <1>2, <1>5 DEF CL!Next

(* An emitted event concludes its call with an outcome that agrees with    *)
(* what the call did.                                                      *)
LEMMA EmitConcludes ==
    ASSUME LInv, NEW c \in Callers, Emit(c)
    PROVE  CL!Next
  <1>0. PICK id, o : id = Id(c, top[c]) /\ o = F(c).outcome
    OBVIOUS
  <1>1. /\ IInv /\ EffectsOK /\ top[c] \in Depths /\ F(c).pc = "emit"
        /\ UNCHANGED <<raised, writes>>
        /\ LiveIds' = LiveIds \ {id} /\ id \in LiveIds
        /\ audit' = Append(audit, NewEvent(c))
    BY <1>0, EmitIds DEF LInv
  <1>2. o \in Outcomes
    BY <1>0, <1>1, RunningFacts, DepthFacts
  <1>3. /\ o \in Untouched => id \notin AppliedIds
        /\ o \in {"ok", "rolled_back"} => id \in AppliedIds
    BY <1>0, <1>1 DEF EffectsOK, EffectOK, F, Mutated, AppliedIds, Settled
  <1>4. o \in IF id \in AppliedIds THEN CL!AfterEffect ELSE CL!WithoutEffect
    BY <1>2, <1>3 DEF CL!AfterEffect, CL!WithoutEffect, Outcomes, Untouched, Executed
  <1>5. Trail' = Append(Trail, [id |-> id, outcome |-> o])
    <2> DEFINE new == NewEvent(c)
    <2>1. new.id = id /\ new.outcome = o
      BY <1>0 DEF NewEvent
    <2>2. audit \in Seq(EventType) /\ audit' = Append(audit, new)
      BY <1>1 DEF IInv, TypeOK
    <2> HIDE DEF new
    <2>3. /\ Len(audit) \in Nat /\ DOMAIN audit = 1 .. Len(audit)
          /\ DOMAIN audit' = 1 .. Len(audit) + 1
          /\ audit'[Len(audit) + 1] = new
          /\ \A k \in 1 .. Len(audit) : audit'[k] = audit[k]
      BY <2>2
    <2>4. Trail \in Seq([id : {audit[k].id : k \in DOMAIN audit},
                         outcome : {audit[k].outcome : k \in DOMAIN audit}])
          /\ Len(Trail) = Len(audit)
      BY <2>3 DEF Trail
    <2>5. Trail' = [k \in 1 .. Len(audit) + 1 |->
                        [id |-> audit'[k].id, outcome |-> audit'[k].outcome]]
      BY <2>3 DEF Trail
    <2> QED BY <2>1, <2>3, <2>4, <2>5 DEF Trail
  <1>6. CL!Conclude(id, o)
    BY <1>1, <1>4, <1>5 DEF CL!Conclude, Trail, AppliedIds
  <1>7. o \in CL!AfterEffect \cup CL!WithoutEffect
    BY <1>2 DEF CL!AfterEffect, CL!WithoutEffect, Outcomes, Untouched, Executed
  <1>8. id \in LiveIds
    BY <1>1
  <1> QED BY <1>6, <1>7, <1>8 DEF CL!Next

(* An exception loses the frames of its caller.                            *)
LEMMA RaiseLoses ==
    ASSUME IInv, NEW c \in Callers, CallRaises(c)
    PROVE  CL!Next
  <1> DEFINE mine == {Id(c, d) : d \in 0 .. top[c]}
  <1>1. /\ raised' = raised \cup mine /\ UNCHANGED <<audit, writes>>
        /\ LiveIds' = LiveIds \ mine /\ mine \subseteq LiveIds /\ top[c] \in Depths
    BY RaiseIds
  <1>2. mine # {}
    BY <1>1, DepthFacts
  <1> HIDE DEF mine
  <1>3. CL!Lose(mine)
    BY <1>1, <1>2 DEF CL!Lose
  <1> QED BY <1>1, <1>3 DEF CL!Next

LEMMA WriteStep ==
    ASSUME LInv, NEW c \in Callers, Local(c), ~ UNCHANGED writes
    PROVE  /\ F(c).pc \in {"act", "write"}
           /\ \E m, n : writes' = writes \cup {NewWrite(c, m, n)}
  <1>1. Patch(c) \/ WriteReplicas(c) \/ HandlerRaises(c)
    BY DEF Local, CheckBounds, Inspect, Gate, ReadReplicas, Poll, Wake, Close, Rollback
  <1> QED BY <1>1 DEF Patch, WriteReplicas, HandlerRaises, At

LEMMA RefinesStep ==
    ASSUME LInv, ChainsOK, [Next]_vars
    PROVE  [CL!Next]_(CL!vars)
  <1>1. IInv /\ MaxIssued \in Nat
    BY ParametersAssumption DEF LInv
  <1>2. ASSUME NEW c \in Callers, Start(c) PROVE CL!Next
    <2>1. issued[c] < MaxIssued + MaxRollbackDepth + 1
      BY <1>1, <1>2, StartPush, DepthFacts DEF IInv, TypeOK
    <2>2. \A b \in Callers, d \in Depths :
            frame'[b][d].n = IF b = c /\ d = 0 THEN issued[c] + 1 ELSE frame[b][d].n
      BY <1>1, <1>2, StartPush
    <2> QED BY <1>1, <1>2, <2>1, <2>2, StartPush, PushBegins
  <1>3. ASSUME NEW c \in Callers, Rollback(c), InverseOf[F(c).action] # NoAction
        PROVE  CL!Next
    <2>1. top[c] \in Depths /\ top[c] + 1 \in Depths /\ F(c).pc = "rollback"
      BY <1>1, <1>3, RollbackPush
    <2>2. issued[c] < MaxIssued + MaxRollbackDepth + 1
      <3>1. ChainOK(c) /\ issued[c] \in Nat
        BY <1>1 DEF ChainsOK, IInv, TypeOK
      <3> QED BY <1>1, <2>1, <3>1, DepthFacts DEF ChainOK, F, Settled
    <2>3. \A b \in Callers, d \in Depths :
            frame'[b][d].n =
                IF b = c /\ d = top[c] + 1 THEN issued[c] + 1 ELSE frame[b][d].n
      BY <1>1, <1>3, RollbackPush
    <2>4. frame[c][top[c] + 1].n = 0
      BY <1>1, <2>1, DepthFacts DEF IInv, StackOK, FrameOK
    <2> QED BY <1>1, <1>3, <2>1, <2>2, <2>3, <2>4, RollbackPush, PushBegins
  <1>4. ASSUME NEW c \in Callers, Local(c) PROVE CL!Next \/ UNCHANGED CL!vars
    <2>1. CASE UNCHANGED writes
      BY <1>1, <1>4, <2>1, LocalStutter
    <2>2. CASE ~ UNCHANGED writes
      <3>1. PICK m, n : writes' = writes \cup {NewWrite(c, m, n)}
        BY <1>4, <2>2, WriteStep
      <3>2. F(c).pc \in BeforeWrite
        BY <1>4, <2>2, WriteStep DEF BeforeWrite
      <3>3. NewWrite(c, m, n).id = Id(c, top[c])
        BY DEF NewWrite
      <3> QED BY <1>4, <3>1, <3>2, <3>3, WriteMutates
    <2> QED BY <2>1, <2>2
  <1>5. CASE Tick \/ UNCHANGED vars
    BY <1>5 DEF Tick, vars, CL!vars, LiveIds, Id
  <1>6. ASSUME NEW c \in Callers, Run(c) PROVE CL!Next \/ UNCHANGED CL!vars
    BY <1>1, <1>3, <1>4, <1>6, EmitConcludes, RaiseLoses DEF Run, Local
  <1> QED BY <1>2, <1>5, <1>6 DEF Next

(* The runner implements the abstract closed loop: an execute call begins  *)
(* once, mutates the cluster at most once, and ends once, in a record that *)
(* agrees with what it did or in an exception (runner.py:53-122).          *)
THEOREM RefinesClosedLoop == Spec => ImplementsClosedLoop
  <1>1. Init => CL!Init
    BY DEF Init, CL!Init, LiveIds, Id, NoFrames, IdleFrame
  <1>2. LInv /\ ChainsOK /\ [Next]_vars => [CL!Next]_(CL!vars)
    BY RefinesStep
  <1> QED BY <1>1, <1>2, LedgerInvariant, ChainsInvariant, PTL
       DEF Spec, ImplementsClosedLoop, CL!Spec

-----------------------------------------------------------------------------
(* The verifier's deadline.  A frame that rolls back has failed            *)
(* verification: for want of a probe, or because the deadline has passed.  *)
UnprobedInverse(a) == \E p \in Actions \ Probed : InverseOf[p] = a

DeadlineOK(c) ==
    /\ \A d \in Depths : frame[c][d].pc \in {"rollback", "nested"} =>
            frame[c][d].action \notin Probed \/ now >= Deadline(c)
    /\ \A d \in Depths :
            d > 0 /\ frame[c][d].pc \in Settled /\ frame[c][d].outcome = "ok"
                => UnprobedInverse(frame[c][d].action)

DeadlinesOK == RollbackNeverVerified /\ \A c \in Callers : DeadlineOK(c)

(* The one step that settles on ok is a probe passing before the deadline, *)
(* and the one that turns to the rollback is a poll at or after it.        *)
LEMMA LocalVerdict ==
    ASSUME IInv, NEW c \in Callers, Local(c)
    PROVE  /\ frame'[c][top[c]].pc \in Settled /\ frame'[c][top[c]].outcome = "ok" =>
                \/ F(c).pc = "close" /\ F(c).outcome = "ok"
                \/ F(c).action \in Probed /\ now < Deadline(c)
           /\ frame'[c][top[c]].pc \in {"rollback", "nested"} =>
                ~ (F(c).action \in Probed /\ now < Deadline(c))
  <1> USE DEF Settled
  <1>1. top[c] >= 0 /\ top[c] \in Depths /\ F(c) \in FrameType
    BY LocalStep, RunningFacts
  <1>3. ASSUME NEW r, Step(c, r) PROVE frame'[c][top[c]] = r
    BY <1>1, <1>3 DEF Step, IInv, TypeOK
  <1>4. CASE CheckBounds(c) \/ Gate(c) \/ Patch(c) \/ WriteReplicas(c) \/ HandlerRaises(c)
             \/ Wake(c) \/ (Rollback(c) /\ InverseOf[F(c).action] = NoAction)
    <2>1. \E p \in {"inspect", "act", "poll", "emit", "close"} : \E o :
            (Goto(c, p) /\ p \notin Settled) \/ (Settle(c, p, o) /\ o # "ok")
      BY <1>4 DEF CheckBounds, Gate, Patch, WriteReplicas, HandlerRaises, Wake, Rollback
    <2> QED BY <1>1, <2>1, GotoResult, SettleResult
  <1>5. CASE Inspect(c)
    <2>1. PICK age \in RevisionAges :
            Step(c, [F(c) EXCEPT !.pc = "gate", !.age = age,
                        !.tier = Adjust(Baseline(Class(c)), Site(c, age))])
      BY <1>5 DEF Inspect
    <2> DEFINE r == [F(c) EXCEPT !.pc = "gate", !.age = age,
                        !.tier = Adjust(Baseline(Class(c)), Site(c, age))]
    <2>2. r.pc = "gate"
      BY <1>1 DEF FrameType
    <2> HIDE DEF r
    <2> QED BY <1>3, <2>1, <2>2 DEF r
  <1>6. CASE ReadReplicas(c)
    <2>1. ASSUME NEW m, NEW t, Step(c, [F(c) EXCEPT !.pc = "write", !.from = m, !.target = t])
          PROVE  frame'[c][top[c]].pc = "write"
      <3> DEFINE r == [F(c) EXCEPT !.pc = "write", !.from = m, !.target = t]
      <3>1. r.pc = "write"
        BY <1>1 DEF FrameType
      <3> HIDE DEF r
      <3> QED BY <1>3, <2>1, <3>1 DEF r
    <2>2. CASE Settle(c, "close", "action_failed")
      <3>1. frame'[c][top[c]].pc = "close" /\ frame'[c][top[c]].outcome = "action_failed"
        BY <1>1, <2>2, SettleResult
      <3> QED BY <3>1
    <2>3. CASE ~ Settle(c, "close", "action_failed")
      <3>1. frame'[c][top[c]].pc = "write"
        BY <1>6, <2>1, <2>3 DEF ReadReplicas
      <3> QED BY <3>1
    <2> QED BY <2>2, <2>3
  <1>7. CASE Poll(c)
    <2>1. ASSUME NEW w, Step(c, [F(c) EXCEPT !.pc = "sleep", !.wake = w])
          PROVE  frame'[c][top[c]].pc = "sleep"
      <3> DEFINE r == [F(c) EXCEPT !.pc = "sleep", !.wake = w]
      <3>1. r.pc = "sleep"
        BY <1>1 DEF FrameType
      <3> HIDE DEF r
      <3> QED BY <1>3, <2>1, <3>1 DEF r
    <2>2. CASE F(c).action \in Probed /\ now < Deadline(c)
      <3>1. CASE Settle(c, "close", "ok")
        <4>1. frame'[c][top[c]].pc = "close"
          BY <1>1, <3>1, SettleResult
        <4> QED BY <2>2, <4>1
      <3>2. CASE ~ Settle(c, "close", "ok")
        <4>1. frame'[c][top[c]].pc = "sleep"
          BY <1>7, <2>1, <2>2, <3>2 DEF Poll
        <4> QED BY <4>1
      <3> QED BY <3>1, <3>2
    <2>3. CASE ~ (F(c).action \in Probed /\ now < Deadline(c))
      <3>1. Goto(c, "rollback")
        BY <1>7, <2>3 DEF Poll
      <3>2. frame'[c][top[c]].pc = "rollback"
        BY <1>1, <3>1, GotoResult
      <3> QED BY <2>3, <3>2
    <2> QED BY <2>2, <2>3
  <1>8. CASE Close(c)
    <2>1. F(c).pc = "close" /\ Goto(c, "emit")
      BY <1>8 DEF Close, At
    <2> QED BY <1>1, <2>1, GotoResult
  <1> QED BY <1>4, <1>5, <1>6, <1>7, <1>8 DEF Local

LEMMA DeadlineTyped ==
    ASSUME IInv, NEW c \in Callers, top[c] >= 0
    PROVE  Deadline(c) \in Nat /\ now \in Nat
  BY RunningFacts, RequestFacts DEF Deadline, ContextType, IInv, TypeOK

LEMMA SettleDeadline ==
    ASSUME IInv, ChainsOK, DeadlinesOK, NEW c \in Callers, Local(c), top[c] > 0,
           frame'[c][top[c]].pc \in Settled, frame'[c][top[c]].outcome = "ok"
    PROVE  UnprobedInverse(F(c).action)
  <1>1. top[c] \in Depths /\ top[c] - 1 \in Depths /\ top[c] >= 0
    BY LocalStep, DepthFacts
  <1>2. DeadlineOK(c) /\ ChainOK(c)
    BY DEF DeadlinesOK, ChainsOK
  <1>3. CASE F(c).pc = "close" /\ F(c).outcome = "ok"
    BY <1>1, <1>2, <1>3 DEF DeadlineOK, F, Settled
  <1>4. CASE F(c).action \in Probed /\ now < Deadline(c)
    <2>1. /\ ~ (now >= Deadline(c))
      BY <1>1, <1>4, DeadlineTyped
    <2>2. /\ top[c] - 1 + 1 = top[c] /\ top[c] <= top[c] /\ top[c] - 1 < top[c]
          /\ top[c] - 1 <= top[c] /\ frame[c][top[c] - 1].pc = "nested"
      <3>1. FrameOK(c, top[c] - 1)
        BY <1>1 DEF IInv, StackOK
      <3> QED BY <1>1, <3>1, DepthFacts DEF FrameOK
    <2>3. /\ frame[c][top[c] - 1].action \notin Probed
          /\ InverseOf[frame[c][top[c] - 1].action] = F(c).action
      BY <1>1, <1>2, <2>1, <2>2 DEF DeadlineOK, ChainOK, F
    <2>4. frame[c][top[c] - 1].action \in Actions
      BY <1>1, <2>2 DEF IInv, StackOK, FrameOK
    <2> QED BY <2>3, <2>4 DEF UnprobedInverse
  <1> QED BY <1>3, <1>4, LocalVerdict

LEMMA DeadlinesInv == IInv /\ ChainsOK /\ DeadlinesOK /\ [Next]_vars => DeadlinesOK'
  <1> SUFFICES ASSUME IInv, ChainsOK, DeadlinesOK, [Next]_vars PROVE DeadlinesOK'
    OBVIOUS
  <1>0. /\ \A b \in Callers : /\ DeadlineOK(b) /\ top[b] \in Depths \cup {-1}
                              /\ \A d \in Depths : FrameOK(b, d)
        /\ RollbackNeverVerified
    BY DEF DeadlinesOK, IInv, TypeOK, StackOK
  <1>1. ASSUME UNCHANGED audit PROVE RollbackNeverVerified'
    BY <1>0, <1>1 DEF RollbackNeverVerified
  <1>2. ASSUME NEW b \in Callers, UNCHANGED now, top[b] >= 0 => ctx'[b] = ctx[b],
               \A d \in Depths : \/ frame'[b][d] = frame[b][d]
                                 \/ frame'[b][d].pc \in {"idle", "bounds"}
        PROVE  DeadlineOK(b)'
    <2>1. top[b] >= 0 => Deadline(b)' = Deadline(b)
      BY <1>2 DEF Deadline, Req
    <2>2. \A d \in Depths : frame[b][d].pc \in {"rollback", "nested"} => top[b] >= 0
      BY <1>0, DepthFacts DEF FrameOK
    <2> QED BY <1>0, <1>2, <2>1, <2>2 DEF DeadlineOK, Settled, UnprobedInverse
  <1>3. ASSUME NEW c \in Callers, Local(c) PROVE DeadlinesOK'
    <2>1. UNCHANGED <<now, audit, top, ctx>> /\ top[c] \in Depths /\ Moved(c) /\ top[c] >= 0
      <3>1. UNCHANGED now
        BY <1>3 DEF Local, CheckBounds, Inspect, Gate, Patch, ReadReplicas,
           WriteReplicas, HandlerRaises, Poll, Wake, Close, Rollback
      <3> QED BY <1>3, <3>1, LocalStep
    <2>2. ASSUME NEW b \in Callers, b # c PROVE DeadlineOK(b)'
      BY <1>2, <2>1, <2>2 DEF Moved
    <2>3. DeadlineOK(c)'
      <3>1. Deadline(c)' = Deadline(c) /\ Deadline(c) \in Nat /\ now \in Nat
        BY <2>1, DeadlineTyped DEF Deadline, Req
      <3>2. \A d \in Depths : /\ d # top[c] => frame'[c][d] = frame[c][d]
                              /\ frame'[c][d].action = frame[c][d].action
        BY <2>1 DEF Moved
      <3>3. ASSUME NEW d \in Depths, d > 0, frame'[c][d].pc \in Settled,
                   frame'[c][d].outcome = "ok"
            PROVE  UnprobedInverse(frame'[c][d].action)
        <4>1. CASE d = top[c]
          BY <1>3, <3>2, <3>3, <4>1, SettleDeadline DEF F
        <4>2. CASE d # top[c]
          BY <1>0, <3>2, <3>3, <4>2 DEF DeadlineOK
        <4> QED BY <4>1, <4>2
      <3>4. ASSUME NEW d \in Depths, frame'[c][d].pc \in {"rollback", "nested"}
            PROVE  frame'[c][d].action \notin Probed \/ now' >= Deadline(c)'
        <4>1. CASE d = top[c]
          BY <1>3, <2>1, <3>1, <3>2, <3>4, <4>1, LocalVerdict DEF F
        <4>2. CASE d # top[c]
          BY <1>0, <2>1, <3>1, <3>2, <3>4, <4>2 DEF DeadlineOK
        <4> QED BY <4>1, <4>2
      <3> QED BY <3>3, <3>4 DEF DeadlineOK, UnprobedInverse
    <2> QED BY <1>1, <2>1, <2>2, <2>3 DEF DeadlinesOK
  <1>4. ASSUME NEW c \in Callers, Start(c) PROVE DeadlinesOK'
    <2>1. /\ UNCHANGED <<now, audit>> /\ top[c] = -1
          /\ \A b \in Callers \ {c} : ctx'[b] = ctx[b]
      BY <1>4 DEF Start, Call, IInv, TypeOK
    <2>2. \A b \in Callers, d \in Depths :
            frame'[b][d] = frame[b][d] \/ frame'[b][d].pc \in {"idle", "bounds"}
      BY <1>4, StartPush
    <2>3. \A b \in Callers : top[b] >= 0 => ctx'[b] = ctx[b]
      BY <2>1
    <2> QED BY <1>1, <1>2, <2>1, <2>2, <2>3 DEF DeadlinesOK
  <1>5. ASSUME NEW c \in Callers, Rollback(c), InverseOf[F(c).action] # NoAction
        PROVE  DeadlinesOK'
    <2>1. UNCHANGED <<now, audit, ctx>> /\ top[c] \in Depths /\ F(c).pc = "rollback"
      BY <1>5, RollbackPush
    <2>2. \A b \in Callers, d \in Depths :
            \/ frame'[b][d] = frame[b][d]
            \/ frame'[b][d].pc = "bounds"
            \/ /\ frame'[b][d].action = frame[b][d].action
               /\ frame[b][d].pc = "rollback" /\ frame'[b][d].pc = "nested"
      BY <1>5, RollbackPush DEF F
    <2>3. ASSUME NEW b \in Callers PROVE DeadlineOK(b)'
      <3>1. Deadline(b)' = Deadline(b)
        BY <2>1 DEF Deadline, Req
      <3> QED BY <1>0, <2>1, <2>2, <3>1 DEF DeadlineOK, Settled, UnprobedInverse
    <2> QED BY <1>1, <2>1, <2>3 DEF DeadlinesOK
  <1>6. ASSUME NEW c \in Callers, Emit(c) PROVE DeadlinesOK'
    <2>1. /\ UNCHANGED now /\ audit' = Append(audit, NewEvent(c))
          /\ top[c] \in Depths /\ F(c).pc = "emit"
      BY <1>6, EmitIds DEF Emit
    <2>2. ASSUME NEW b \in Callers PROVE DeadlineOK(b)'
      <3>1. \A d \in Depths :
                \/ frame'[b][d] = frame[b][d] /\ (b # c \/ d + 1 < top[c])
                \/ frame'[b][d].pc = "idle"
                \/ frame'[b][d].pc = "close" /\ frame'[b][d].outcome = "rolled_back"
        BY <1>6, <2>1, EmitIds, DepthFacts
      <3>2. \A d \in Depths :
                frame'[b][d] = frame[b][d] /\ (b # c \/ d + 1 < top[c]) =>
                    Deadline(b)' = Deadline(b)
        BY <1>6, <2>1, DepthFacts DEF Emit, Return, Deadline, Req, IInv, TypeOK
      <3> QED BY <1>0, <2>1, <3>1, <3>2 DEF DeadlineOK, Settled, UnprobedInverse
    <2>3. RollbackNeverVerified'
      <3>1. PICK new : new = NewEvent(c)
        OBVIOUS
      <3>2. /\ Len(audit) \in Nat /\ DOMAIN audit = 1 .. Len(audit)
            /\ DOMAIN audit' = 1 .. Len(audit) + 1
            /\ audit'[Len(audit) + 1] = new
            /\ \A k \in 1 .. Len(audit) : audit'[k] = audit[k]
        BY <2>1, <3>1 DEF IInv, TypeOK
      <3>3. /\ new.depth = top[c] /\ new.outcome = F(c).outcome
            /\ new.action = F(c).action
        BY <3>1 DEF NewEvent
      <3>4. new.depth > 0 /\ new.outcome = "ok" => UnprobedInverse(new.action)
        BY <1>0, <2>1, <3>3 DEF DeadlineOK, F, Settled
      <3> QED BY <1>0, <3>2, <3>4 DEF RollbackNeverVerified, UnprobedInverse
    <2> QED BY <2>2, <2>3 DEF DeadlinesOK
  <1>7. ASSUME NEW c \in Callers, CallRaises(c) PROVE DeadlinesOK'
    <2>1. /\ frame' = [frame EXCEPT ![c] = NoFrames] /\ ctx' = [ctx EXCEPT ![c] = NoContext]
          /\ UNCHANGED <<now, audit>>
      BY <1>7 DEF CallRaises, Raise
    <2>2. ASSUME NEW b \in Callers PROVE DeadlineOK(b)'
      <3>1. CASE b # c
        BY <1>2, <2>1, <3>1 DEF IInv, TypeOK
      <3>2. CASE b = c
        BY <2>1, <3>2 DEF DeadlineOK, Settled, NoFrames, IdleFrame, IInv, TypeOK
      <3> QED BY <3>1, <3>2
    <2> QED BY <1>1, <2>1, <2>2 DEF DeadlinesOK
  <1>8. CASE Tick \/ UNCHANGED vars
    <2>1. /\ UNCHANGED <<audit, frame, top, ctx>> /\ now' \in Nat /\ now \in Nat /\ now' >= now
      BY <1>8 DEF Tick, vars, IInv, TypeOK
    <2>2. ASSUME NEW b \in Callers PROVE DeadlineOK(b)'
      <3>1. \A d \in Depths : frame[b][d].pc \in {"rollback", "nested"} =>
                /\ Deadline(b) \in Nat /\ Deadline(b)' = Deadline(b)
        <4>1. \A d \in Depths : frame[b][d].pc \in {"rollback", "nested"} => top[b] >= 0
          BY <1>0, DepthFacts DEF FrameOK
        <4> QED BY <2>1, <4>1, DeadlineTyped DEF Deadline, Req
      <3> QED BY <1>0, <2>1, <3>1 DEF DeadlineOK, UnprobedInverse
    <2> QED BY <1>1, <2>1, <2>2 DEF DeadlinesOK
  <1>9. ASSUME NEW c \in Callers, Run(c) PROVE DeadlinesOK'
    BY <1>3, <1>5, <1>6, <1>7, <1>9 DEF Run, Local
  <1> QED BY <1>4, <1>8, <1>9 DEF Next

(* The verifier gives an action and its rollback one deadline: the record  *)
(* of a rollback never says ok, unless it undoes an action without a probe *)
(* (verifier.py:33-47, runner.py:193-199).                                 *)
THEOREM RollbacksStayUnverified == Spec => []RollbackNeverVerified
  <1>1. Init => DeadlinesOK
    BY DEF Init, DeadlinesOK, RollbackNeverVerified, DeadlineOK, Settled, NoFrames, IdleFrame
  <1>2. DeadlinesOK => RollbackNeverVerified
    BY DEF DeadlinesOK
  <1> QED BY <1>1, <1>2, DeadlinesInv, ChainsInvariant, NestingInvariant, PTL DEF Spec

-----------------------------------------------------------------------------
(* Order.  The ledger never holds more than its capacity, its entries are  *)
(* in the order of their timestamps, none of which is ahead of the clock,  *)
(* and no call has started ahead of the clock either.                      *)
OrderOK ==
    /\ Len(ledger) <= Capacity
    /\ \A i, j \in DOMAIN ledger : i < j => ledger[i].ts <= ledger[j].ts
    /\ \A i \in DOMAIN ledger : ledger[i].ts <= now
    /\ \A c \in Callers : top[c] >= 0 => ctx[c].started <= now

(* A step of one caller inside execute leaves the calls of the others      *)
(* alone, and its own call stays the one that was delegated.               *)
LEMMA RunKeepsCall ==
    ASSUME IInv, NEW c \in Callers, Run(c), NEW b \in Callers
    PROVE  /\ top'[b] >= 0 => /\ top[b] >= 0 /\ ctx'[b] = ctx[b]
                              /\ frame'[b][0].n = frame[b][0].n
           /\ b # c => /\ top'[b] = top[b] /\ ctx'[b] = ctx[b]
                       /\ \A d \in Depths : frame'[b][d] = frame[b][d]
  <1>0. /\ 0 \in Depths /\ top[b] \in Depths \cup {-1}
        /\ top \in [Callers -> Depths \cup {-1}]
        /\ ctx \in [Callers -> ContextType \cup {NoContext}]
        /\ frame \in [Callers -> [Depths -> FrameType]]
    BY DepthFacts DEF IInv, TypeOK
  <1>1. CASE Local(c)
    BY <1>0, <1>1, LocalStep DEF Moved
  <1>2. CASE Rollback(c) /\ InverseOf[F(c).action] # NoAction
    <2>1. /\ UNCHANGED ctx /\ top' = [top EXCEPT ![c] = @ + 1] /\ top[c] \in Depths
          /\ top[c] + 1 # 0
      <3>1. UNCHANGED ctx /\ top[c] \in Depths
        BY <1>2, RollbackPush
      <3>2. top' = [top EXCEPT ![c] = @ + 1]
        BY <1>2 DEF Rollback
      <3> QED BY <3>1, <3>2, DepthFacts
    <2>2. frame'[b][0].n = frame[b][0].n
      BY <1>0, <1>2, <2>1, RollbackPush
    <2>3. b # c => \A d \in Depths : frame'[b][d] = frame[b][d]
      BY <1>2, RollbackPush
    <2>4. top[b] >= 0 \/ b # c
      BY <2>1, DepthFacts
    <2> QED BY <1>0, <2>1, <2>2, <2>3, <2>4
  <1>3. CASE Emit(c)
    <2>1. top[c] \in Depths /\ top' = [top EXCEPT ![c] = @ - 1]
      BY <1>3, EmitIds DEF Emit, Return
    <2>2. top[c] # 0 => UNCHANGED ctx
      BY <1>3 DEF Emit, Return
    <2>3. top[c] = 0 => ctx' = [ctx EXCEPT ![c] = NoContext]
      BY <1>3 DEF Emit, Return
    <2>4. b # c => \A d \in Depths : frame'[b][d] = frame[b][d]
      BY <1>3, EmitIds
    <2>5. top[c] > 0 => frame'[c][0].n = frame[c][0].n
      BY <1>0, <1>3, EmitIds
    <2>6. top'[c] = top[c] - 1 /\ (b # c => top'[b] = top[b])
      BY <1>0, <2>1
    <2>7. b # c => ctx'[b] = ctx[b]
      BY <1>0, <2>2, <2>3
    <2> QED BY <1>0, <2>1, <2>2, <2>4, <2>5, <2>6, <2>7, DepthFacts
  <1>4. CASE CallRaises(c)
    <2>1. /\ top' = [top EXCEPT ![c] = -1]
          /\ frame' = [frame EXCEPT ![c] = NoFrames]
          /\ ctx' = [ctx EXCEPT ![c] = NoContext]
      BY <1>4 DEF CallRaises, Raise
    <2> QED BY <1>0, <2>1, DepthFacts
  <1> QED BY <1>1, <1>2, <1>3, <1>4 DEF Run, Local

LEMMA EntryFields ==
    ASSUME IInv, NEW i \in DOMAIN ledger
    PROVE  /\ ledger[i].delta \in Int /\ ledger[i].ts \in Nat
           /\ ledger[i].terminal \in BOOLEAN
  <1>1. ledger[i] \in EntryType
    BY LedgerTyped
  <1> QED BY <1>1 DEF EntryType

LEMMA RecordOrder ==
    ASSUME IInv, OrderOK, NEW new, new.ts = now, ledger' = Record(ledger, new), UNCHANGED now
    PROVE  /\ Len(ledger') <= Capacity
           /\ \A i, j \in DOMAIN ledger' : i < j => ledger'[i].ts <= ledger'[j].ts
           /\ \A i \in DOMAIN ledger' : ledger'[i].ts <= now
  <1>1. /\ Len(ledger) \in Nat /\ DOMAIN ledger = 1 .. Len(ledger)
        /\ Evicted \in {0, 1} /\ Evicted <= Len(ledger)
        /\ DOMAIN ledger' = 1 .. Len(ledger')
        /\ Len(ledger') = Len(ledger) + 1 - Evicted
        /\ now \in Nat /\ Capacity \in Nat
    BY LedgerTyped, RecordEntries, CapacityAssumption DEF IInv, TypeOK
  <1>2. Len(ledger') <= Capacity
    BY <1>1 DEF Evicted, OrderOK
  <1>3. \A i \in DOMAIN ledger' :
            \/ i = Len(ledger') /\ ledger'[i] = new
            \/ /\ i < Len(ledger')
               /\ i + Evicted \in DOMAIN ledger /\ ledger'[i] = ledger[i + Evicted]
    BY RecordedOrOld
  <1>4. \A i \in DOMAIN ledger' : ledger'[i].ts <= now
    BY <1>1, <1>3 DEF OrderOK
  <1>5. ASSUME NEW i \in DOMAIN ledger', NEW j \in DOMAIN ledger', i < j
        PROVE  ledger'[i].ts <= ledger'[j].ts
    <2>1. CASE j = Len(ledger') /\ ledger'[j] = new
      BY <1>4, <2>1
    <2>2. CASE /\ j < Len(ledger')
               /\ j + Evicted \in DOMAIN ledger /\ ledger'[j] = ledger[j + Evicted]
      <3>1. i < Len(ledger') /\ i # Len(ledger') /\ i + Evicted < j + Evicted
        BY <1>1, <1>5, <2>2
      <3>2. i + Evicted \in DOMAIN ledger /\ ledger'[i] = ledger[i + Evicted]
        BY <1>3, <3>1
      <3> QED BY <2>2, <3>1, <3>2 DEF OrderOK
    <2> QED BY <1>3, <2>1, <2>2
  <1> QED BY <1>2, <1>4, <1>5

LEMMA OrderInv == IInv /\ OrderOK /\ [Next]_vars => OrderOK'
  <1> SUFFICES ASSUME IInv, OrderOK, [Next]_vars PROVE OrderOK'
    OBVIOUS
  <1>1. now \in Nat /\ now' \in Nat /\ now <= now'
    <2>1. now \in Nat
      BY DEF IInv, TypeOK
    <2>2. ASSUME NEW c \in Callers, Run(c) PROVE now' = now
      BY <2>2 DEF Run, CheckBounds, Inspect, Gate, Patch, ReadReplicas, WriteReplicas,
         HandlerRaises, Poll, Wake, Rollback, Close, Emit, CallRaises
    <2>3. ASSUME NEW c \in Callers, Start(c) PROVE now' = now
      BY <2>3 DEF Start, Call
    <2>4. now' = now \/ now' = now + 1
      BY <2>2, <2>3 DEF Next, Tick, vars
    <2> QED BY <2>1, <2>4
  <1>2. ASSUME NEW c \in Callers, top'[c] >= 0 PROVE ctx'[c].started <= now'
    <2>1. CASE top[c] >= 0 /\ ctx'[c] = ctx[c]
      <3>1. ctx[c].started \in Nat /\ ctx[c].started <= now
        BY <2>1, RunningFacts DEF OrderOK, ContextType
      <3> QED BY <1>1, <2>1, <3>1
    <2>2. CASE Start(c)
      <3>1. PICK x : x.started = now /\ ctx' = [ctx EXCEPT ![c] = x]
        BY <2>2 DEF Start, Call
      <3> QED BY <1>1, <3>1 DEF IInv, TypeOK
    <2>3. ASSUME NEW b \in Callers, b # c, Start(b) PROVE top[c] >= 0 /\ ctx'[c] = ctx[c]
      BY <1>2, <2>3 DEF Start, Call, IInv, TypeOK
    <2>4. ASSUME NEW b \in Callers, Run(b) PROVE top[c] >= 0 /\ ctx'[c] = ctx[c]
      BY <1>2, <2>4, RunKeepsCall
    <2>5. CASE Tick \/ UNCHANGED vars
      BY <1>2, <2>1, <2>5 DEF Tick, vars
    <2> QED BY <2>1, <2>2, <2>3, <2>4, <2>5 DEF Next
  <1>3. /\ Len(ledger') <= Capacity
        /\ \A i, j \in DOMAIN ledger' : i < j => ledger'[i].ts <= ledger'[j].ts
        /\ \A i \in DOMAIN ledger' : ledger'[i].ts <= now'
    <2>1. CASE UNCHANGED ledger
      BY <1>1, <2>1, EntryFields DEF OrderOK
    <2>2. ASSUME NEW c \in Callers, Gate(c), ledger' = Record(ledger, NewEntry(c))
          PROVE  <1>3!1 /\ <1>3!2 /\ <1>3!3
      <3>1. NewEntry(c).ts = now /\ UNCHANGED now
        BY <2>2 DEF NewEntry, Gate
      <3> QED BY <2>2, <3>1, RecordOrder
    <2>3. ASSUME NEW c \in Callers, Close(c)
          PROVE  <1>3!1 /\ <1>3!2 /\ <1>3!3
      <3>1. /\ DOMAIN ledger' = DOMAIN ledger /\ UNCHANGED now
            /\ \A i \in DOMAIN ledger : ledger'[i].ts = ledger[i].ts
        BY <2>3, CloseMarks, CloseFields DEF Close
      <3>2. Len(ledger') = Len(ledger)
        BY <2>3, <3>1, CloseLength
      <3> QED BY <3>1, <3>2 DEF OrderOK
    <2> QED BY <2>1, <2>2, <2>3, LedgerWriters
  <1> QED BY <1>2, <1>3 DEF OrderOK

LEMMA OrderInvariant == Spec => []OrderOK
  <1>1. Init => OrderOK
    BY CapacityAssumption DEF Init, OrderOK
  <1> QED BY <1>1, OrderInv, NestingInvariant, PTL DEF Spec

-----------------------------------------------------------------------------
(* Eviction.  An action in flight has its entry in the ledger, or Capacity *)
(* actions have been recorded since its call began: the ledger is full and *)
(* in the order of time, so that whatever an entry leaves behind when it   *)
(* falls out is at least as young as itself.                               *)
OnRecord(c, d) ==
    \E i \in DOMAIN ledger : ledger[i].id = Id(c, d) /\ ledger[i].ts >= ctx[c].started

FoundOK ==
    \A c \in Callers, d \in Depths :
        frame[c][d].pc \in OpenPoints => OnRecord(c, d) \/ CrowdedOut(c, d)

(* A frame in flight belongs to a call under way, and has an id.           *)
LEMMA OpenFrame ==
    ASSUME IInv, NEW c \in Callers, NEW d \in Depths, frame[c][d].pc \in OpenPoints
    PROVE  /\ ~ (d > top[c]) /\ top[c] >= 0 /\ Id(c, d) \in Ids
           /\ ctx[c].started \in Nat
  <1>1. FrameOK(c, d) /\ top[c] \in Depths \cup {-1}
    BY DEF IInv, StackOK, TypeOK
  <1>2. ~ (d > top[c])
    BY <1>1 DEF FrameOK, OpenPoints
  <1>3. top[c] >= 0 /\ d <= top[c]
    BY <1>1, <1>2, DepthFacts
  <1>4. frame[c][d].n \in 1 .. issued[c] /\ issued[c] \in Nat
    BY <1>1, <1>3 DEF FrameOK, IInv, TypeOK
  <1>5. Id(c, d) \in Ids
    <2>1. frame[c][d].n \in Nat \ {0}
      BY <1>4
    <2> QED BY <2>1 DEF Id, Ids
  <1>6. ctx[c].started \in Nat
    BY <1>3, RunningFacts DEF ContextType
  <1> QED BY <1>2, <1>3, <1>5, <1>6

(* A step that keeps the ids and times of the ledger and opens no frame.   *)
LEMMA KeepFound ==
    ASSUME FoundOK, DOMAIN ledger' = DOMAIN ledger, Len(ledger') = Len(ledger),
           \A i \in DOMAIN ledger :
                ledger'[i].id = ledger[i].id /\ ledger'[i].ts = ledger[i].ts,
           \A b \in Callers, d \in Depths : frame'[b][d].pc \in OpenPoints =>
                /\ frame[b][d].pc \in OpenPoints /\ frame'[b][d].n = frame[b][d].n
                /\ ctx'[b] = ctx[b]
    PROVE  FoundOK'
  <1> SUFFICES ASSUME NEW b \in Callers, NEW d \in Depths, frame'[b][d].pc \in OpenPoints
               PROVE  OnRecord(b, d)' \/ CrowdedOut(b, d)'
    BY DEF FoundOK
  <1>1. /\ Id(b, d)' = Id(b, d) /\ ctx'[b] = ctx[b]
        /\ OnRecord(b, d) \/ CrowdedOut(b, d)
    BY DEF FoundOK, Id
  <1> QED BY <1>1 DEF OnRecord, CrowdedOut

(* The record of an action: the entry that falls out is the oldest.        *)
LEMMA RecordFound ==
    ASSUME LInv, OrderOK, FoundOK, NEW c \in Callers, Gate(c), Goto(c, "act"),
           ledger' = Record(ledger, NewEntry(c)),
           NEW b \in Callers, NEW d \in Depths, frame'[b][d].pc \in OpenPoints
    PROVE  OnRecord(b, d)' \/ CrowdedOut(b, d)'
  <1>1. PICK new : new = NewEntry(c)
    OBVIOUS
  <1>2. new.id = Id(c, top[c]) /\ new.ts = now /\ \A e \in Entries : e.id # new.id
    <2>1. \A e \in Entries : e.id # NewEntry(c).id
      BY RecordAppends
    <2> QED BY <1>1, <2>1 DEF NewEntry
  <1>3. /\ IInv /\ Local(c) /\ top[c] \in Depths /\ top[c] >= 0 /\ F(c).pc = "gate"
        /\ Moved(c) /\ UNCHANGED <<ctx, now>> /\ ~ (top[c] > top[c])
    <2>1. IInv /\ Local(c) /\ UNCHANGED now /\ F(c).pc = "gate"
      BY DEF LInv, Local, Gate, At
    <2> QED BY <2>1, LocalStep, DepthFacts
  <1>4. Id(b, d)' = Id(b, d) /\ ctx'[b] = ctx[b]
    BY <1>3 DEF Moved, Id
  <1>5. /\ Len(ledger) \in Nat /\ DOMAIN ledger = 1 .. Len(ledger)
        /\ Evicted \in {0, 1} /\ Evicted <= Len(ledger)
        /\ DOMAIN ledger' = 1 .. Len(ledger')
        /\ Len(ledger') = Len(ledger) + 1 - Evicted
        /\ ledger'[Len(ledger')] = new
        /\ \A i \in 1 .. Len(ledger) - Evicted : ledger'[i] = ledger[i + Evicted]
        /\ now \in Nat /\ Capacity \in Nat \ {0}
    BY <1>1, <1>3, LedgerTyped, RecordEntries, CapacityAssumption DEF IInv, TypeOK
  <1>6. CASE b = c /\ d = top[c]
    <2>1. Len(ledger') \in DOMAIN ledger'
      BY <1>5
    <2>2. ctx[c].started <= now /\ ctx[c].started \in Nat
      BY <1>3, RunningFacts DEF OrderOK, ContextType
    <2>3. ledger'[Len(ledger')].id = Id(b, d)' /\ ledger'[Len(ledger')].ts >= ctx'[b].started
      BY <1>2, <1>3, <1>4, <1>5, <1>6, <2>2
    <2> QED BY <2>1, <2>3 DEF OnRecord
  <1>7. CASE ~ (b = c /\ d = top[c])
    <2>1. frame[b][d].pc \in OpenPoints
      BY <1>3, <1>7 DEF Moved
    <2>2. ~ (d > top[b]) /\ top[b] >= 0 /\ Id(b, d) \in Ids /\ ctx[b].started \in Nat
      BY <1>3, <2>1, OpenFrame
    <2>3. new.id # Id(b, d)
      BY <1>2, <1>3, <1>7, <2>2, SameId
    <2>4. ctx[b].started <= now
      BY <2>2 DEF OrderOK
    <2>5. CASE CrowdedOut(b, d)
      <3>1. Len(ledger) = Capacity /\ Evicted = 1 /\ Len(ledger') = Capacity
        BY <1>5, <2>5 DEF CrowdedOut, Evicted
      <3>2. \A e \in Entries : e.id # Id(b, d) /\ e.ts >= ctx[b].started
        BY <2>5 DEF CrowdedOut, Entries
      <3>3. \A i \in DOMAIN ledger' : ledger'[i] = new \/ ledger'[i] \in Entries
        BY <1>1, <1>3, RecordedOrOld DEF Entries
      <3>4. \A i \in DOMAIN ledger' :
                ledger'[i].id # Id(b, d) /\ ledger'[i].ts >= ctx[b].started
        BY <1>2, <1>5, <2>2, <2>3, <2>4, <3>2, <3>3
      <3> QED BY <1>4, <3>1, <3>4 DEF CrowdedOut
    <2>6. CASE OnRecord(b, d)
      <3>1. PICK k \in DOMAIN ledger : ledger[k].id = Id(b, d) /\ ledger[k].ts >= ctx[b].started
        BY <2>6 DEF OnRecord
      <3>2. CASE k > Evicted
        <4>1. k - Evicted \in 1 .. Len(ledger) - Evicted /\ k - Evicted + Evicted = k
              /\ k - Evicted \in DOMAIN ledger'
          BY <1>5, <3>2
        <4>2. ledger'[k - Evicted] = ledger[k]
          BY <1>5, <4>1
        <4> QED BY <1>4, <3>1, <4>1, <4>2 DEF OnRecord
      <3>3. CASE ~ (k > Evicted)
        <4>1. k = 1 /\ Evicted = 1
          BY <1>5, <3>3
        <4>2. Len(ledger) = Capacity /\ Len(ledger') = Capacity
          <5>1. Len(ledger) <= Capacity
            BY DEF OrderOK
          <5>2. ~ (Len(ledger) < Capacity)
            BY <4>1 DEF Evicted
          <5>3. /\ Len(ledger) \in Nat /\ Capacity \in Nat
                /\ Len(ledger') = Len(ledger) + 1 - 1
            BY <1>5, <4>1
          <5> QED BY <5>1, <5>2, <5>3
        <4>3. ASSUME NEW i \in DOMAIN ledger'
              PROVE  ledger'[i].id # Id(b, d) /\ ledger'[i].ts >= ctx[b].started
          <5>1. CASE ledger'[i] = new
            BY <1>2, <1>5, <2>2, <2>3, <2>4, <5>1
          <5>2. CASE i + 1 \in DOMAIN ledger /\ ledger'[i] = ledger[i + 1]
            <6>1. i + 1 # k /\ k < i + 1
              BY <1>5, <4>1, <4>3
            <6>2. ledger[i + 1].id # Id(b, d)
              BY <3>1, <5>2, <6>1 DEF LInv, LedgerOK
            <6>3. ledger[k].ts <= ledger[i + 1].ts
              BY <3>1, <5>2, <6>1 DEF OrderOK
            <6>4. ledger[k].ts \in Nat /\ ledger[i + 1].ts \in Nat
              BY <1>3, <3>1, <5>2, EntryFields
            <6> QED BY <2>2, <3>1, <5>2, <6>2, <6>3, <6>4
          <5> QED BY <1>1, <1>3, <4>1, <5>1, <5>2, RecordedOrOld
        <4> QED BY <1>4, <4>2, <4>3 DEF CrowdedOut
      <3> QED BY <3>2, <3>3
    <2> QED BY <2>1, <2>5, <2>6 DEF FoundOK
  <1> QED BY <1>6, <1>7

(* Apart from Gate, a local step opens no frame.                           *)
LEMMA OpensOnlyAtGate ==
    ASSUME IInv, NEW c \in Callers, Local(c), F(c).pc \notin OpenPoints, ~ Gate(c)
    PROVE  frame'[c][top[c]].pc \notin OpenPoints
  <1> USE DEF OpenPoints
  <1>1. top[c] >= 0 /\ F(c) \in FrameType /\ top[c] \in Depths
    BY LocalStep, RunningFacts
  <1>2. CheckBounds(c) \/ Inspect(c)
    BY DEF Local, Patch, ReadReplicas, WriteReplicas, HandlerRaises, Poll, Wake, Close,
       Rollback, At
  <1>3. CASE CheckBounds(c)
    BY <1>1, <1>3, GotoResult, SettleResult DEF CheckBounds
  <1>4. CASE Inspect(c)
    <2>1. PICK age \in RevisionAges :
            Step(c, [F(c) EXCEPT !.pc = "gate", !.age = age,
                        !.tier = Adjust(Baseline(Class(c)), Site(c, age))])
      BY <1>4 DEF Inspect
    <2> DEFINE r == [F(c) EXCEPT !.pc = "gate", !.age = age,
                        !.tier = Adjust(Baseline(Class(c)), Site(c, age))]
    <2>2. r.pc = "gate"
      BY <1>1 DEF FrameType
    <2> HIDE DEF r
    <2>3. frame'[c][top[c]] = r
      BY <1>1, <2>1 DEF r, Step, IInv, TypeOK
    <2> QED BY <2>2, <2>3
  <1> QED BY <1>2, <1>3, <1>4

LEMMA FoundStep ==
    ASSUME LInv, OrderOK, FoundOK, [Next]_vars
    PROVE  FoundOK'
  <1>1. IInv /\ IInv' /\ \A b \in Callers, d \in Depths : FrameOK(b, d)
    BY NextInv DEF LInv, IInv, StackOK
  <1>2. ASSUME UNCHANGED ledger,
               \A b \in Callers, d \in Depths : frame'[b][d].pc \in OpenPoints =>
                    /\ frame[b][d].pc \in OpenPoints /\ frame'[b][d].n = frame[b][d].n
                    /\ ctx'[b] = ctx[b]
        PROVE  FoundOK'
    BY <1>2, KeepFound
  <1>3. ASSUME NEW c \in Callers, Run(c), NEW b \in Callers, NEW d \in Depths,
               frame'[b][d].pc \in OpenPoints
        PROVE  ctx'[b] = ctx[b]
    <2>1. top'[b] >= 0
      <3>1. FrameOK(b, d)' /\ top'[b] \in Depths \cup {-1}
        BY <1>1 DEF IInv, StackOK, TypeOK
      <3>2. ~ (d > top'[b])
        BY <1>3, <3>1 DEF FrameOK, OpenPoints
      <3> QED BY <3>1, <3>2, DepthFacts
    <2> QED BY <1>1, <1>3, <2>1, RunKeepsCall
  <1> USE DEF OpenPoints
  <1>4. ASSUME NEW c \in Callers, Local(c) PROVE FoundOK'
    <2>1. top[c] \in Depths /\ Moved(c) /\ Run(c) /\ UNCHANGED ctx
      BY <1>1, <1>4, LocalStep DEF Run, Local
    <2>2. CASE ~ Gate(c)
      <3>1. \A b \in Callers, d \in Depths : frame'[b][d].pc \in OpenPoints =>
                frame[b][d].pc \in OpenPoints /\ frame'[b][d].n = frame[b][d].n
        BY <1>1, <1>4, <2>1, <2>2, OpensOnlyAtGate DEF Moved, F
      <3>2. CASE UNCHANGED ledger
        BY <1>2, <2>1, <3>1, <3>2
      <3>3. CASE Close(c)
        <4>1. DOMAIN ledger' = DOMAIN ledger
          BY <1>1, <3>3, CloseMarks
        <4>2. \A i \in DOMAIN ledger :
                ledger'[i].id = ledger[i].id /\ ledger'[i].ts = ledger[i].ts
          BY <1>1, <3>3, CloseFields
        <4>3. Len(ledger') = Len(ledger)
          BY <1>1, <3>3, <4>1, CloseLength
        <4> QED BY <2>1, <3>1, <4>1, <4>2, <4>3, KeepFound
      <3> QED BY <1>4, <2>2, <3>2, <3>3 DEF Local, CheckBounds, Inspect, Patch,
              ReadReplicas, WriteReplicas, HandlerRaises, Poll, Wake, Rollback
    <2>3. CASE Gate(c) /\ ~ (Goto(c, "act") /\ ledger' = Record(ledger, NewEntry(c)))
      <3>1. top[c] >= 0 /\ UNCHANGED ledger /\ \E o : Settle(c, "emit", o)
        BY <2>3 DEF Gate, At
      <3>2. frame'[c][top[c]].pc = "emit"
        BY <1>1, <3>1, SettleResult
      <3> QED BY <1>2, <2>1, <3>1, <3>2 DEF Moved, F
    <2>4. CASE Gate(c) /\ Goto(c, "act") /\ ledger' = Record(ledger, NewEntry(c))
      <3> HIDE DEF OpenPoints
      <3> QED BY <2>4, RecordFound DEF FoundOK
    <2> QED BY <2>2, <2>3, <2>4
  <1>5. ASSUME NEW c \in Callers, Start(c) PROVE FoundOK'
    <2>1. ASSUME NEW b \in Callers, NEW d \in Depths, frame'[b][d].pc \in OpenPoints
          PROVE  /\ frame[b][d].pc \in OpenPoints /\ frame'[b][d].n = frame[b][d].n
                 /\ ctx'[b] = ctx[b]
      <3>1. b # c
        <4>1. top[c] = -1 /\ FrameOK(c, d) /\ d > top[c]
          BY <1>1, <1>5, StartPush, DepthFacts
        <4>2. frame[c][d].pc = "idle"
          BY <4>1 DEF FrameOK
        <4> QED BY <1>1, <1>5, <2>1, <4>2, StartPush
      <3>2. ctx'[b] = ctx[b]
        BY <1>1, <1>5, <3>1 DEF Start, Call, IInv, TypeOK
      <3> QED BY <1>1, <1>5, <2>1, <3>1, <3>2, StartPush
    <2> QED BY <1>1, <1>2, <1>5, <2>1, StartPush
  <1>6. ASSUME NEW c \in Callers, Rollback(c), InverseOf[F(c).action] # NoAction
        PROVE  FoundOK'
    <2>1. UNCHANGED <<ledger, ctx>>
      BY <1>1, <1>6, RollbackPush
    <2> QED BY <1>1, <1>2, <1>6, <2>1, RollbackPush DEF F
  <1>7. ASSUME NEW c \in Callers, Emit(c) PROVE FoundOK'
    <2>1. \A d \in Depths : d + 1 = top[c] => frame[c][d].pc = "nested"
      BY <1>1, <1>7, EmitIds, DepthFacts DEF FrameOK
    <2>2. UNCHANGED ledger /\ Run(c)
      BY <1>7, EmitIds DEF Run, Emit
    <2>3. ASSUME NEW b \in Callers, NEW d \in Depths, frame'[b][d].pc \in OpenPoints
          PROVE  frame[b][d].pc \in OpenPoints /\ frame'[b][d].n = frame[b][d].n
      BY <1>1, <1>7, <2>1, <2>3, EmitIds, DepthFacts
    <2>4. \A b \in Callers, d \in Depths : frame'[b][d].pc \in OpenPoints => ctx'[b] = ctx[b]
      BY <1>3, <2>2
    <2> QED BY <1>2, <2>2, <2>3, <2>4
  <1>8. ASSUME NEW c \in Callers, CallRaises(c) PROVE FoundOK'
    <2>1. frame' = [frame EXCEPT ![c] = NoFrames] /\ UNCHANGED ledger
      BY <1>8 DEF CallRaises, Raise
    <2>2. \A b \in Callers, d \in Depths : frame'[b][d].pc \in OpenPoints =>
            frame'[b][d] = frame[b][d] /\ ctx'[b] = ctx[b]
      BY <1>1, <1>3, <1>8, <2>1 DEF NoFrames, IdleFrame, IInv, TypeOK, Run
    <2> QED BY <1>2, <2>1, <2>2
  <1>9. CASE Tick \/ UNCHANGED vars
    BY <1>2, <1>9 DEF Tick, vars
  <1>10. ASSUME NEW c \in Callers, Run(c) PROVE FoundOK'
    BY <1>4, <1>6, <1>7, <1>8, <1>10 DEF Run, Local
  <1> QED BY <1>5, <1>9, <1>10 DEF Next

LEMMA FoundInvariant == Spec => []FoundOK
  <1>1. Init => FoundOK
    BY DEF Init, FoundOK, NoFrames, IdleFrame, OpenPoints
  <1>2. LInv /\ OrderOK /\ FoundOK /\ [Next]_vars => FoundOK'
    BY FoundStep
  <1> QED BY <1>1, <1>2, LedgerInvariant, OrderInvariant, PTL DEF Spec

(* The open entry of a frame that is in flight.                            *)
LEMMA FoundEntry ==
    ASSUME LInv, FoundOK, NEW c \in Callers, NEW d \in Depths,
           frame[c][d].pc \in OpenPoints
    PROVE  \/ \E i \in DOMAIN ledger :
                    /\ ledger[i].id = Id(c, d) /\ ~ ledger[i].terminal
                    /\ ledger[i].dep = Req(c).dep
           \/ CrowdedOut(c, d)
  <1>1. CASE OnRecord(c, d)
    <2>1. PICK i \in DOMAIN ledger : ledger[i].id = Id(c, d)
      BY <1>1 DEF OnRecord
    <2>2. FrameEntry(ledger[i], c, d)
      BY <2>1 DEF LInv, LedgerOK, Entries, EntryOK
    <2> QED BY <2>1, <2>2 DEF FrameEntry, OpenPoints
  <1> QED BY <1>1 DEF FoundOK

(* While an action is in flight its open entry is in the ledger, in every  *)
(* interleaving of any callers and however many actions they record,       *)
(* unless Capacity of them were recorded since its call began, and then    *)
(* the ledger holds none but those (runner.py:85-93, ledger.py:33-48).     *)
THEOREM InFlightActionsAreFound == Spec => []InFlightIsFindable
  <1>1. LInv /\ FoundOK => InFlightIsFindable
    BY FoundEntry DEF InFlightIsFindable
  <1> QED BY <1>1, FoundInvariant, LedgerInvariant, PTL

(* A replica count changes in one step only, the write of a scale handler, *)
(* and the write is new.                                                   *)
LEMMA ScaleWrite ==
    ASSUME LInv, NEW c \in Callers, Run(c), ~ UNCHANGED replicas
    PROVE  /\ F(c).pc = "write" /\ top[c] \in Depths
           /\ \A dep \in Deployments : dep # Req(c).dep => replicas'[dep] = replicas[dep]
           /\ \E w \in writes' \ writes : w.id = Id(c, top[c])
  <1>1. /\ WriteReplicas(c) \/ (HandlerRaises(c) /\ At(c, "write"))
        /\ replicas' = [replicas EXCEPT ![Req(c).dep] = F(c).target]
        /\ writes' = writes \cup {NewWrite(c, F(c).from, F(c).target)}
    BY DEF Run, CheckBounds, Inspect, Gate, Patch, ReadReplicas, WriteReplicas,
       HandlerRaises, Poll, Wake, Close, Rollback, Emit, CallRaises
  <1>2. top[c] >= 0 /\ F(c).pc = "write"
    BY <1>1 DEF WriteReplicas, At
  <1>3. IInv /\ EffectsOK /\ top[c] \in Depths
    BY <1>2, RunningFacts DEF LInv
  <1>4. \A dep \in Deployments : dep # Req(c).dep => replicas'[dep] = replicas[dep]
    BY <1>1, <1>3 DEF IInv, TypeOK
  <1>5. ~ Mutated(Id(c, top[c]))
    BY <1>2, <1>3 DEF EffectsOK, EffectOK, F, BeforeWrite
  <1>6. NewWrite(c, F(c).from, F(c).target).id = Id(c, top[c])
    BY DEF NewWrite
  <1>7. NewWrite(c, F(c).from, F(c).target) \in writes' \ writes
    BY <1>1, <1>5, <1>6 DEF Mutated
  <1> QED BY <1>2, <1>3, <1>4, <1>6, <1>7

LEMMA MutationStep ==
    ASSUME LInv, FoundOK, [Next]_vars, NEW dep \in Deployments,
           replicas'[dep] # replicas[dep]
    PROVE  \E c \in Callers :
               /\ top[c] >= 0 /\ Req(c).dep = dep
               /\ \E w \in writes' \ writes : w.id = Id(c, top[c])
               /\ \/ \E i \in DOMAIN ledger :
                           /\ ledger[i].id = Id(c, top[c])
                           /\ ledger[i].dep = dep
                           /\ ~ ledger[i].terminal
                  \/ CrowdedOut(c, top[c])
  <1>1. PICK c \in Callers : Run(c) /\ ~ UNCHANGED replicas
    BY DEF Next, Tick, Start, Call, vars
  <1>2. /\ F(c).pc = "write" /\ top[c] \in Depths /\ dep = Req(c).dep
        /\ \E w \in writes' \ writes : w.id = Id(c, top[c])
    BY <1>1, ScaleWrite
  <1>3. \/ \E i \in DOMAIN ledger : /\ ledger[i].id = Id(c, top[c]) /\ ~ ledger[i].terminal
                                    /\ ledger[i].dep = Req(c).dep
        \/ CrowdedOut(c, top[c])
    BY <1>2, FoundEntry DEF F, OpenPoints
  <1>4. top[c] >= 0
    BY <1>2, DepthFacts
  <1> QED BY <1>2, <1>3, <1>4

(* A replica count changes only by a call that is writing it, and whose    *)
(* own entry against that deployment is open at that moment, or was        *)
(* crowded out of the ledger (scale.py:44-49, runner.py:85-105).           *)
THEOREM MutationsAreInFlight == Spec => OnlyOpenActionsMutate
  <1> DEFINE Covered ==
        \A dep \in Deployments :
            replicas'[dep] # replicas[dep] =>
                \E c \in Callers :
                    /\ top[c] >= 0 /\ Req(c).dep = dep
                    /\ \E w \in writes' \ writes : w.id = Id(c, top[c])
                    /\ \/ \E i \in DOMAIN ledger :
                                /\ ledger[i].id = Id(c, top[c])
                                /\ ledger[i].dep = dep
                                /\ ~ ledger[i].terminal
                       \/ CrowdedOut(c, top[c])
  <1>1. LInv /\ FoundOK /\ [Next]_vars => [Covered]_vars
    BY MutationStep
  <1> QED BY <1>1, FoundInvariant, LedgerInvariant, PTL DEF Spec, OnlyOpenActionsMutate

-----------------------------------------------------------------------------
(* The chain of rollbacks, as the ledger shows it: an entry of a frame has *)
(* the frame's depth, and a rollback lost to an exception took the action  *)
(* it undoes with it.                                                      *)
ParentsOK ==
    /\ \A e \in Entries, c \in Callers, d \in Depths : e.id = Id(c, d) => e.depth = d
    /\ \A e \in Entries :
            e.depth > 0 /\ e.id \in raised => <<e.id[1], e.id[2] - 1>> \in raised
    /\ RollbackChainBounded

(* The frames' ids after a step are old ones or new to the ledger.         *)
LEMMA IdsStep ==
    ASSUME LInv, [Next]_vars, NEW e \in Entries, NEW b \in Callers, NEW d \in Depths,
           e.id = Id(b, d)'
    PROVE  e.id = Id(b, d)
  <1>1. /\ IInv /\ e.id \in Ids /\ e.id[2] <= issued[e.id[1]]
        /\ issued \in [Callers -> Nat]
    BY LedgerTyped DEF LInv, LedgerOK, EntryOK, Drawn, IInv, TypeOK
  <1>2. e.id[1] = b /\ e.id[2] = frame'[b][d].n /\ frame'[b][d].n # 0
    BY <1>1 DEF Id, Ids
  <1>3. frame'[b][d].n # issued[b] + 1
    BY <1>1, <1>2
  <1>4. frame'[b][d].n = frame[b][d].n
    <2>1. ASSUME NEW c \in Callers, Run(c) PROVE frame'[b][d].n = frame[b][d].n
      <3>1. CASE Local(c)
        BY <1>1, <3>1, LocalStep DEF Moved
      <3>2. CASE Rollback(c) /\ InverseOf[F(c).action] # NoAction
        BY <1>1, <1>3, <3>2, RollbackPush
      <3>3. CASE Emit(c)
        BY <1>1, <1>2, <3>3, EmitIds, DepthFacts
      <3>4. CASE CallRaises(c)
        <4>1. frame' = [frame EXCEPT ![c] = NoFrames]
          BY <3>4 DEF CallRaises, Raise
        <4> QED BY <1>1, <1>2, <4>1 DEF NoFrames, IdleFrame, IInv, TypeOK
      <3> QED BY <2>1, <3>1, <3>2, <3>3, <3>4 DEF Run, Local
    <2>2. ASSUME NEW c \in Callers, Start(c) PROVE frame'[b][d].n = frame[b][d].n
      BY <1>1, <1>3, <2>2, StartPush
    <2>3. CASE Tick \/ UNCHANGED vars
      BY <2>3 DEF Tick, vars
    <2> QED BY <2>1, <2>2, <2>3 DEF Next
  <1> QED BY <1>4 DEF Id

(* The action that the rollback e undoes: recorded before index k and      *)
(* open, or dropped by a full ledger.                                      *)
HasParent(entries, e, k) ==
    \/ \E j \in DOMAIN entries :
            /\ j < k
            /\ entries[j].id = <<e.id[1], e.id[2] - 1>>
            /\ ~ entries[j].terminal
            /\ entries[j].depth = e.depth - 1
            /\ InverseOf[entries[j].action] = e.action
    \/ /\ Len(entries) = Capacity
       /\ \A j \in DOMAIN entries : entries[j].id # <<e.id[1], e.id[2] - 1>>

LEMMA ChainByParents ==
    RollbackChainBounded <=>
        \A i \in DOMAIN ledger :
            /\ ledger[i].depth <= MaxRollbackDepth
            /\ ledger[i].depth > 0 /\ ~ ledger[i].terminal => HasParent(ledger, ledger[i], i)
  BY DEF RollbackChainBounded, HasParent

(* A record keeps the parent, or drops it because the ledger is full.      *)
LEMMA RecordKeepsParent ==
    ASSUME LInv, OrderOK, NEW new, ledger' = Record(ledger, new), NEW e, NEW k \in Int,
           \A x \in Entries : x.id # new.id, new.id # <<e.id[1], e.id[2] - 1>>,
           HasParent(ledger, e, k)
    PROVE  HasParent(ledger', e, k - Evicted)
  <1>0. PICK parent : parent = <<e.id[1], e.id[2] - 1>>
    OBVIOUS
  <1>1. /\ IInv /\ Len(ledger) \in Nat /\ DOMAIN ledger = 1 .. Len(ledger)
        /\ Evicted \in {0, 1} /\ Evicted <= Len(ledger)
        /\ DOMAIN ledger' = 1 .. Len(ledger')
        /\ Len(ledger') = Len(ledger) + 1 - Evicted
        /\ \A i \in 1 .. Len(ledger) - Evicted : ledger'[i] = ledger[i + Evicted]
        /\ Capacity \in Nat
    <2>1. IInv
      BY DEF LInv
    <2> QED BY <2>1, LedgerTyped, RecordEntries, CapacityAssumption
  <1>2. \A i \in DOMAIN ledger' :
            \/ ledger'[i] = new
            \/ i + Evicted \in DOMAIN ledger /\ ledger'[i] = ledger[i + Evicted]
    BY <1>1, RecordedOrOld
  <1>3. CASE Len(ledger) = Capacity /\ \A j \in DOMAIN ledger : ledger[j].id # parent
    <2>1. Len(ledger') = Capacity
      BY <1>1, <1>3 DEF Evicted
    <2>2. \A j \in DOMAIN ledger' : ledger'[j].id # parent
      BY <1>0, <1>2, <1>3
    <2> QED BY <1>0, <2>1, <2>2 DEF HasParent
  <1>4. ASSUME NEW j \in DOMAIN ledger, j < k, ledger[j].id = parent, ~ ledger[j].terminal,
               ledger[j].depth = e.depth - 1, InverseOf[ledger[j].action] = e.action
        PROVE  HasParent(ledger', e, k - Evicted)
    <2>1. CASE j > Evicted
      <3>1. PICK q : q = j - Evicted
        OBVIOUS
      <3>2. /\ q \in 1 .. Len(ledger) - Evicted /\ q + Evicted = j
            /\ q \in DOMAIN ledger' /\ q < k - Evicted
        BY <1>1, <1>4, <2>1, <3>1
      <3>3. ledger'[q] = ledger[j]
        BY <1>1, <3>2
      <3> QED BY <1>0, <1>4, <3>2, <3>3 DEF HasParent
    <2>2. CASE ~ (j > Evicted)
      <3>1. j = 1 /\ Evicted = 1
        BY <1>1, <2>2
      <3>2. Len(ledger') = Capacity
        BY <1>1, <3>1 DEF Evicted, OrderOK
      <3>3. ASSUME NEW i \in DOMAIN ledger' PROVE ledger'[i].id # parent
        <4>1. CASE i + Evicted \in DOMAIN ledger /\ ledger'[i] = ledger[i + Evicted]
          <5>1. i + Evicted # j
            BY <1>1, <3>1, <3>3
          <5>2. ledger[i + Evicted].id # ledger[j].id
            BY <4>1, <5>1 DEF LInv, LedgerOK
          <5> QED BY <1>4, <4>1, <5>2
        <4> QED BY <1>0, <1>2, <4>1
      <3> QED BY <1>0, <3>2, <3>3 DEF HasParent
    <2> QED BY <2>1, <2>2
  <1> QED BY <1>0, <1>3, <1>4 DEF HasParent

(* The rollback a frame is running names the action it undoes.             *)
LEMMA ParentOfFrame ==
    ASSUME LInv, ChainsOK, FoundOK, ParentsOK, NEW c \in Callers, Gate(c), top[c] > 0
    PROVE  HasParent(ledger, NewEntry(c), Len(ledger) + 1)
  <1>1. IInv /\ top[c] \in Depths /\ LedgerOK
    BY RunningFacts DEF LInv, Gate, At
  <1>2. PICK d \in Depths : d + 1 = top[c]
    BY <1>1, DepthFacts
  <1>3. d < top[c] /\ top[c] = d + 1 /\ top[c] <= top[c] /\ top[c] - 1 = d
    BY <1>2, DepthFacts
  <1>4. frame[c][d].pc = "nested"
    BY <1>1, <1>3 DEF IInv, StackOK, FrameOK
  <1>5. /\ F(c).n = frame[c][d].n + 1 /\ InverseOf[frame[c][d].action] = F(c).action
        /\ frame[c][d].n \in Nat
    BY <1>1, <1>3 DEF ChainsOK, ChainOK, F, IInv, TypeOK, FrameType
  <1>6. PICK new : new = NewEntry(c)
    OBVIOUS
  <1>7. /\ new.depth - 1 = d /\ new.action = F(c).action
        /\ <<new.id[1], new.id[2] - 1>> = Id(c, d)
    BY <1>3, <1>5, <1>6 DEF NewEntry, Id, F
  <1>8. ASSUME NEW j \in DOMAIN ledger, ledger[j].id = Id(c, d), ~ ledger[j].terminal
        PROVE  HasParent(ledger, new, Len(ledger) + 1)
    <2>1. ledger[j].depth = d /\ ledger[j].action = frame[c][d].action
      BY <1>1, <1>8 DEF ParentsOK, Entries, LedgerOK, EntryOK, FrameEntry
    <2>2. j < Len(ledger) + 1
      BY <1>1, LedgerTyped
    <2> QED BY <1>5, <1>7, <1>8, <2>1, <2>2 DEF HasParent
  <1>9. CrowdedOut(c, d) => HasParent(ledger, new, Len(ledger) + 1)
    BY <1>7 DEF CrowdedOut, HasParent
  <1> QED BY <1>4, <1>6, <1>8, <1>9, FoundEntry DEF OpenPoints

(* A running frame has no open rollback: one that returned is audited, one *)
(* lost to an exception took this frame with it.                           *)
LEMMA NoOpenChild ==
    ASSUME LInv, ParentsOK, NEW c \in Callers, top[c] >= 0, NEW e \in Entries,
           e.depth > 0, ~ e.terminal, <<e.id[1], e.id[2] - 1>> = Id(c, top[c])
    PROVE  FALSE
  <1>1. /\ IInv /\ AccountsOK /\ LedgerOK /\ top[c] \in Depths
        /\ ~ (top[c] > top[c]) /\ F(c).n \in 1 .. issued[c] /\ issued[c] \in Nat
    <2>1. IInv /\ AccountsOK /\ LedgerOK
      BY DEF LInv
    <2> QED BY <2>1, RunningFacts, DepthFacts DEF IInv, TypeOK
  <1>2. /\ e.id \in Ids /\ Drawn(e.id) /\ e.id \notin AuditedIds
    BY <1>1, LedgerTyped DEF LedgerOK, EntryOK
  <1>3. e.id = <<c, F(c).n + 1>> /\ F(c).n + 1 \in 1 .. issued[c]
    <2>1. e.id = <<e.id[1], e.id[2]>> /\ e.id[2] \in Nat /\ e.id[2] <= issued[e.id[1]]
      BY <1>2 DEF Ids, Drawn
    <2>2. e.id[1] = c /\ e.id[2] - 1 = F(c).n
      BY DEF Id, F
    <2> QED BY <1>1, <2>1, <2>2
  <1>4. Id(c, top[c]) \in LiveIds /\ Id(c, top[c]) \notin raised
    <2>1. Id(c, top[c]) \in LiveIds
      BY <1>1, RunningFacts, FrameOfId
    <2> QED BY <1>1, <2>1 DEF AccountsOK
  <1>5. e.id \notin raised
    BY <1>4 DEF ParentsOK
  <1>6. e.id \notin LiveIds
    <2>1. ASSUME NEW b \in Callers, NEW d \in Depths, e.id = Id(b, d) PROVE FALSE
      <3>1. b = c /\ frame[c][d].n = F(c).n + 1
        BY <1>3, <2>1 DEF Id
      <3>2. d <= top[c] /\ FrameOK(c, d)
        BY <1>1, <1>2, <2>1, <3>1, FrameOfId DEF IInv, StackOK
      <3>3. d < top[c] => frame[c][d].n < F(c).n
        BY <1>1, <3>2, DepthFacts DEF FrameOK, F
      <3>4. d = top[c] => frame[c][d].n = F(c).n
        BY DEF F
      <3> QED BY <1>1, <3>1, <3>2, <3>3, <3>4, DepthFacts
    <2> QED BY <2>1 DEF LiveIds
  <1>7. e.id \in LiveIds \cup raised \cup AuditedIds
    BY <1>1, <1>3 DEF AccountsOK
  <1> QED BY <1>2, <1>5, <1>6, <1>7

LEMMA RecordParents ==
    ASSUME LInv, OrderOK, ChainsOK, FoundOK, ParentsOK, NEW c \in Callers, Gate(c),
           Goto(c, "act"), ledger' = Record(ledger, NewEntry(c)), [Next]_vars
    PROVE  ParentsOK'
  <1>1. PICK new : new = NewEntry(c)
    OBVIOUS
  <1>2. /\ new.id = Id(c, top[c]) /\ new.depth = top[c] /\ new.action = F(c).action
        /\ new.id[1] = c /\ new.id[2] = F(c).n
    BY <1>1 DEF NewEntry, Id, F
  <1>3. /\ IInv /\ AccountsOK /\ Local(c) /\ UNCHANGED raised /\ top[c] >= 0
        /\ top[c] \in Depths /\ ~ (top[c] > MaxRollbackDepth)
        /\ new.id \in Ids /\ new.id \in LiveIds
    <2>1. IInv /\ AccountsOK /\ Local(c) /\ UNCHANGED raised /\ At(c, "gate")
      BY DEF LInv, Gate, Local
    <2>2. top[c] \in Depths /\ ~ (top[c] > MaxRollbackDepth) /\ new.id \in Ids
      BY <1>2, <2>1, NotTooDeep, RunningFacts DEF At
    <2>3. ~ (top[c] > top[c]) /\ top[c] >= 0
      BY <2>2, DepthFacts
    <2> QED BY <1>2, <2>1, <2>2, <2>3, FrameOfId
  <1>4. \A b \in Callers, d \in Depths : Id(b, d)' = Id(b, d)
    BY <1>3, LocalIds
  <1>5. /\ Len(ledger) \in Nat /\ Evicted \in {0, 1}
        /\ DOMAIN ledger' = 1 .. Len(ledger') /\ Len(ledger') = Len(ledger) + 1 - Evicted
    BY <1>1, <1>3, LedgerTyped, RecordEntries
  <1>6. /\ Entries' \subseteq Entries \cup {new}
        /\ \A x \in Entries : x.id # new.id
    BY <1>1, <1>3, RecordedOrOld, RecordAppends
  <1>7. ASSUME NEW b \in Callers, NEW d \in Depths, new.id = Id(b, d) PROVE new.depth = d
    <2>1. Id(b, d) \in Ids /\ Id(b, d) = Id(c, top[c])
      BY <1>2, <1>3, <1>7
    <2>2. ~ (d > top[b]) /\ ~ (top[c] > top[c])
      BY <1>3, <2>1, FrameOfId, DepthFacts
    <2> QED BY <1>2, <1>3, <2>1, <2>2, SameId
  <1>8. new.id \notin raised
    BY <1>3 DEF AccountsOK
  <1>9. ASSUME NEW i \in DOMAIN ledger'
        PROVE  /\ ledger'[i].depth <= MaxRollbackDepth
               /\ ledger'[i].depth > 0 /\ ~ ledger'[i].terminal =>
                        HasParent(ledger', ledger'[i], i)
    <2>1. CASE i + Evicted \in DOMAIN ledger /\ ledger'[i] = ledger[i + Evicted]
      <3>1. PICK e, k : e = ledger[i + Evicted] /\ k = i + Evicted
        OBVIOUS
      <3>2. e \in Entries /\ ledger'[i] = e /\ k \in Int /\ k - Evicted = i
        BY <1>5, <2>1, <3>1 DEF Entries
      <3>3. /\ e.depth <= MaxRollbackDepth
            /\ e.depth > 0 /\ ~ e.terminal => HasParent(ledger, e, k)
        BY <2>1, <3>1, ChainByParents DEF ParentsOK
      <3>4. CASE e.depth > 0 /\ ~ e.terminal
        <4>1. new.id # <<e.id[1], e.id[2] - 1>>
          BY <1>2, <1>3, <3>2, <3>4, NoOpenChild
        <4>2. HasParent(ledger', e, k - Evicted)
          BY <1>1, <1>6, <3>2, <3>3, <3>4, <4>1, RecordKeepsParent
        <4> QED BY <3>2, <3>3, <4>2
      <3> QED BY <3>2, <3>3, <3>4
    <2>2. CASE i = Len(ledger') /\ ledger'[i] = new
      <3>1. new.depth <= MaxRollbackDepth
        BY <1>2, <1>3, DepthFacts
      <3>2. CASE top[c] > 0
        <4>1. HasParent(ledger, new, Len(ledger) + 1)
          BY <1>1, <3>2, ParentOfFrame
        <4>2. new.id # <<new.id[1], new.id[2] - 1>>
          <5>1. new.id[2] \in Nat /\ new.id[2] # new.id[2] - 1
            BY <1>3 DEF Ids
          <5> QED BY <1>3, <5>1 DEF Ids
        <4>3. PICK k \in Int : k = Len(ledger) + 1 /\ k - Evicted = i
          BY <1>5, <2>2
        <4>4. HasParent(ledger', new, k - Evicted)
          BY <1>1, <1>6, <4>1, <4>2, <4>3, RecordKeepsParent
        <4> QED BY <2>2, <3>1, <4>3, <4>4
      <3> QED BY <1>2, <2>2, <3>1, <3>2
    <2> QED BY <1>1, <1>3, <2>1, <2>2, RecordedOrOld
  <1>10. RollbackChainBounded'
    <2> SUFFICES ASSUME NEW i \in DOMAIN ledger'
                 PROVE  LET parent == <<ledger'[i].id[1], ledger'[i].id[2] - 1>> IN
                    /\ ledger'[i].depth <= MaxRollbackDepth
                    /\ ledger'[i].depth > 0 /\ ~ ledger'[i].terminal =>
                        \/ \E j \in DOMAIN ledger' :
                                /\ j < i
                                /\ ledger'[j].id = parent
                                /\ ~ ledger'[j].terminal
                                /\ ledger'[j].depth = ledger'[i].depth - 1
                                /\ InverseOf[ledger'[j].action] = ledger'[i].action
                        \/ /\ Len(ledger') = Capacity
                           /\ \A j \in DOMAIN ledger' : ledger'[j].id # parent
      BY DEF RollbackChainBounded
    <2> QED BY <1>9 DEF HasParent
  <1> QED BY <1>3, <1>4, <1>6, <1>7, <1>8, <1>10 DEF ParentsOK

LEMMA CloseParents ==
    ASSUME LInv, ParentsOK, NEW c \in Callers, Close(c), [Next]_vars
    PROVE  ParentsOK'
  <1>1. /\ IInv /\ Local(c) /\ UNCHANGED raised /\ top[c] >= 0
        /\ \A b \in Callers, d \in Depths : Id(b, d)' = Id(b, d)
    <2>1. IInv /\ Local(c) /\ UNCHANGED raised /\ top[c] >= 0
      BY DEF LInv, Close, Local, At
    <2> QED BY <2>1, LocalIds
  <1>2. /\ DOMAIN ledger' = DOMAIN ledger
        /\ \A i \in DOMAIN ledger :
            /\ ledger'[i].id = ledger[i].id /\ ledger'[i].action = ledger[i].action
            /\ ledger'[i].depth = ledger[i].depth
            /\ ledger[i].id = Id(c, top[c]) => ledger'[i].terminal
            /\ ledger[i].id # Id(c, top[c]) => ledger'[i] = ledger[i]
    BY <1>1, CloseMarks, CloseFields, CloseDepth
  <1>3. \A e \in Entries' : \E x \in Entries : e.id = x.id /\ e.depth = x.depth
    BY <1>2 DEF Entries
  <1>4. Len(ledger') = Len(ledger)
    BY <1>1, <1>2, CloseLength
  <1>5. RollbackChainBounded'
    <2> SUFFICES ASSUME NEW i \in DOMAIN ledger
                 PROVE  LET parent == <<ledger'[i].id[1], ledger'[i].id[2] - 1>> IN
                    /\ ledger'[i].depth <= MaxRollbackDepth
                    /\ ledger'[i].depth > 0 /\ ~ ledger'[i].terminal =>
                        \/ \E j \in DOMAIN ledger :
                                /\ j < i
                                /\ ledger'[j].id = parent
                                /\ ~ ledger'[j].terminal
                                /\ ledger'[j].depth = ledger'[i].depth - 1
                                /\ InverseOf[ledger'[j].action] = ledger'[i].action
                        \/ /\ Len(ledger') = Capacity
                           /\ \A j \in DOMAIN ledger : ledger'[j].id # parent
      BY <1>2 DEF RollbackChainBounded
    <2>1. ledger[i].depth <= MaxRollbackDepth
      BY ChainByParents DEF ParentsOK
    <2>2. CASE ledger[i].depth > 0 /\ ~ ledger'[i].terminal
      <3>1. ~ ledger[i].terminal
        BY <1>2, <2>2
      <3>2. HasParent(ledger, ledger[i], i)
        BY <2>2, <3>1, ChainByParents DEF ParentsOK
      <3>3. <<ledger[i].id[1], ledger[i].id[2] - 1>> # Id(c, top[c])
        BY <1>1, <2>2, <3>1, NoOpenChild DEF Entries
      <3> QED BY <1>2, <1>4, <2>1, <3>2, <3>3 DEF HasParent
    <2> QED BY <1>2, <2>1, <2>2
  <1> QED BY <1>1, <1>3, <1>5 DEF ParentsOK

LEMMA ParentsStep ==
    ASSUME LInv, OrderOK, ChainsOK, FoundOK, ParentsOK, [Next]_vars
    PROVE  ParentsOK'
  <1>1. IInv
    BY DEF LInv
  <1>2. CASE UNCHANGED ledger
    <2>1. Entries' = Entries /\ RollbackChainBounded'
      BY <1>2 DEF Entries, ParentsOK, RollbackChainBounded
    <2>2. \A e \in Entries, c \in Callers, d \in Depths : e.id = Id(c, d)' => e.depth = d
      BY IdsStep DEF ParentsOK
    <2>3. CASE UNCHANGED raised
      BY <2>1, <2>2, <2>3 DEF ParentsOK
    <2>4. ASSUME NEW c \in Callers, CallRaises(c), NEW e \in Entries, e.depth > 0,
                 e.id \in raised'
          PROVE  <<e.id[1], e.id[2] - 1>> \in raised'
      <3>1. top[c] \in Depths /\ raised' = raised \cup {Id(c, d) : d \in 0 .. top[c]}
        BY <1>1, <2>4, RaiseIds
      <3>2. CASE e.id \in raised
        BY <2>4, <3>1, <3>2 DEF ParentsOK
      <3>3. ASSUME NEW d \in 0 .. top[c], e.id = Id(c, d)
            PROVE  <<e.id[1], e.id[2] - 1>> \in raised'
        <4>1. d \in Depths
          BY <3>1, DepthFacts
        <4>2. e.depth = d
          BY <3>3, <4>1 DEF ParentsOK
        <4>3. PICK p \in Depths : d = p + 1 /\ p \in 0 .. top[c] /\ d <= top[c]
          BY <2>4, <3>1, <4>1, <4>2, DepthFacts
        <4>4. frame[c][d].n = frame[c][p].n + 1 /\ frame[c][p].n \in Nat
          BY <1>1, <4>1, <4>3 DEF ChainsOK, ChainOK, IInv, TypeOK, FrameType
        <4>5. Id(c, p) = <<e.id[1], e.id[2] - 1>>
          BY <3>3, <4>4 DEF Id
        <4> QED BY <3>1, <4>3, <4>5
      <3> QED BY <2>4, <3>1, <3>2, <3>3
    <2>5. UNCHANGED raised \/ \E c \in Callers : CallRaises(c)
      BY DEF Next, Tick, Start, Call, Run, CheckBounds, Inspect, Gate, Patch,
         ReadReplicas, WriteReplicas, HandlerRaises, Poll, Wake, Rollback, Close,
         Emit, vars
    <2> QED BY <2>1, <2>2, <2>3, <2>4, <2>5 DEF ParentsOK
  <1> QED BY <1>1, <1>2, LedgerWriters, RecordParents, CloseParents

(* The rollback chain: nothing is recorded, and so nothing executed, below *)
(* MAX_ROLLBACK_DEPTH, and while a rollback is open so is the action it    *)
(* undoes, recorded before it, unless a full ledger has dropped it; an     *)
(* exception never separates the two (runner.py:169-173, 186-199).         *)
THEOREM ChainsStayBounded == Spec => []RollbackChainBounded
  <1>1. Init => ParentsOK
    BY DEF Init, ParentsOK, RollbackChainBounded, Entries
  <1>2. LInv /\ OrderOK /\ ChainsOK /\ FoundOK /\ ParentsOK /\ [Next]_vars => ParentsOK'
    BY ParentsStep
  <1>3. ParentsOK => RollbackChainBounded
    BY DEF ParentsOK
  <1> QED BY <1>1, <1>2, <1>3, LedgerInvariant, OrderInvariant, ChainsInvariant,
       FoundInvariant, PTL DEF Spec

-----------------------------------------------------------------------------
(* Calls that do not meet.  The bounds are checked, the site inspected and *)
(* the replicas read before they are acted on, with no lock in between:    *)
(* what the runner has seen stands as long as no two calls under way are   *)
(* against one deployment, whoever makes them and however they interleave. *)
Apart ==
    \A b, c \in Callers :
        b # c /\ top[b] >= 0 /\ top[c] >= 0 => Req(b).dep # Req(c).dep

LEMMA StepKinds ==
    ASSUME [Next]_vars, NEW c \in Callers
    PROVE  \/ Start(c) \/ Run(c) \/ Tick \/ UNCHANGED vars
           \/ \E b \in Callers : b # c /\ (Start(b) \/ Run(b))
  BY DEF Next

(* What the step of another caller leaves of a call under way: everything  *)
(* it has seen of its own deployment, the ledger's entries included.       *)
LEMMA OthersStep ==
    ASSUME IInv, Apart, NEW c \in Callers, NEW b \in Callers, b # c, Start(b) \/ Run(b)
    PROVE  /\ top'[c] = top[c] /\ UNCHANGED now
           /\ top[c] >= 0 => /\ F(c)' = F(c) /\ ctx'[c] = ctx[c]
                             /\ \A d \in Depths : Id(c, d)' = Id(c, d)
                             /\ replicas'[Req(c).dep] = replicas[Req(c).dep]
           /\ \A w \in writes' : w \in writes \/ w.id[1] = b
  <1>1. CASE Start(b)
    <2>1. /\ top' = [top EXCEPT ![b] = 0] /\ UNCHANGED <<now, replicas, writes>>
          /\ \E x : ctx' = [ctx EXCEPT ![b] = x]
      BY <1>1 DEF Start, Call
    <2>2. top'[c] = top[c] /\ ctx'[c] = ctx[c]
      BY <2>1 DEF IInv, TypeOK
    <2>3. \A d \in Depths : frame'[c][d] = frame[c][d]
      BY <1>1, StartPush
    <2> QED BY <2>1, <2>2, <2>3, RunningFacts DEF F, Id
  <1>2. CASE Run(b)
    <2>1. /\ top'[c] = top[c] /\ ctx'[c] = ctx[c]
          /\ \A d \in Depths : frame'[c][d] = frame[c][d]
      BY <1>2, RunKeepsCall
    <2>2. top[b] >= 0 /\ UNCHANGED now
      BY <1>2 DEF Run, CheckBounds, Inspect, Gate, Patch, ReadReplicas, WriteReplicas,
         HandlerRaises, Poll, Wake, Close, Rollback, Emit, CallRaises, At
    <2>3. /\ UNCHANGED replicas \/ \E n : replicas' = [replicas EXCEPT ![Req(b).dep] = n]
          /\ UNCHANGED writes \/ \E m, n : writes' = writes \cup {NewWrite(b, m, n)}
      BY <1>2 DEF Run, CheckBounds, Inspect, Gate, Patch, ReadReplicas, WriteReplicas,
         HandlerRaises, Poll, Wake, Close, Rollback, Emit, CallRaises
    <2>4. top[c] >= 0 => replicas'[Req(c).dep] = replicas[Req(c).dep]
      <3>1. top[c] >= 0 => Req(b).dep # Req(c).dep /\ Req(c).dep \in Deployments
        BY <2>2, RunningFacts, RequestFacts DEF Apart
      <3> QED BY <2>3, <3>1 DEF IInv, TypeOK
    <2>5. \A m, n : NewWrite(b, m, n).id[1] = b
      BY DEF NewWrite, Id
    <2>6. \A w \in writes' : w \in writes \/ w.id[1] = b
      BY <2>3, <2>5
    <2> QED BY <2>1, <2>2, <2>4, <2>6, RunningFacts DEF F, Id
  <1> QED BY <1>1, <1>2

(* What a step makes of the running frame.                                 *)
LEMMA StepFrame ==
    ASSUME IInv, NEW c \in Callers, top[c] >= 0, NEW r, Step(c, r), UNCHANGED top
    PROVE  F(c)' = r
  BY RunningFacts DEF Step, F, IInv, TypeOK

LEMMA GotoFrame ==
    ASSUME IInv, NEW c \in Callers, top[c] >= 0, NEW p, Goto(c, p), UNCHANGED top
    PROVE  /\ F(c)'.pc = p /\ F(c)'.tier = F(c).tier /\ F(c)'.age = F(c).age
           /\ F(c)'.action = F(c).action
  <1> DEFINE r == [F(c) EXCEPT !.pc = p]
  <1>1. F(c) \in FrameType
    BY RunningFacts
  <1>2. r.pc = p /\ r.tier = F(c).tier /\ r.age = F(c).age /\ r.action = F(c).action
    BY <1>1 DEF FrameType
  <1>3. Step(c, r)
    BY DEF Goto
  <1> HIDE DEF r
  <1> QED BY <1>2, <1>3, StepFrame

LEMMA SettleFrame ==
    ASSUME IInv, NEW c \in Callers, top[c] >= 0, NEW p, NEW o, Settle(c, p, o), UNCHANGED top
    PROVE  F(c)'.pc = p
  BY SettleResult DEF F

LEMMA InspectFrame ==
    ASSUME IInv, NEW c \in Callers, Inspect(c)
    PROVE  /\ F(c)'.pc = "gate" /\ F(c)'.action = F(c).action /\ F(c)'.age \in Nat
           /\ F(c)'.tier = Adjust(Baseline(Class(c)), Site(c, F(c)'.age))
  <1>1. PICK age \in RevisionAges :
            Step(c, [F(c) EXCEPT !.pc = "gate", !.age = age,
                        !.tier = Adjust(Baseline(Class(c)), Site(c, age))])
    BY DEF Inspect
  <1>2. top[c] >= 0 /\ UNCHANGED top
    BY DEF Inspect, At
  <1> DEFINE t == Adjust(Baseline(Class(c)), Site(c, age))
             r == [F(c) EXCEPT !.pc = "gate", !.age = age, !.tier = t]
  <1>3. F(c) \in FrameType /\ age \in Nat
    BY <1>2, RunningFacts, ParametersAssumption
  <1>4. Step(c, r)
    BY <1>1
  <1> HIDE DEF t
  <1>5. r.pc = "gate" /\ r.action = F(c).action /\ r.age = age /\ r.tier = t
    BY <1>3 DEF FrameType
  <1> HIDE DEF r
  <1>6. F(c)' = r
    BY <1>2, <1>4, StepFrame
  <1> QED BY <1>3, <1>5, <1>6 DEF t

(* What the scale handlers ask for, from what they have read.              *)
Aim(class, from, to, req) ==
    \/ /\ class = "ScaleHandler" /\ req.delta > 0
       /\ to = ScaleOutTarget(from, req)
    \/ class = "ScaleInverseHandler" /\ to = ScaleInTarget(from, req)

LEMMA ReadFrame ==
    ASSUME IInv, NEW c \in Callers, ReadReplicas(c)
    PROVE  \/ F(c)'.pc = "close"
           \/ /\ F(c)'.pc = "write" /\ F(c)'.tier = F(c).tier /\ F(c)'.age = F(c).age
              /\ F(c)'.action = F(c).action /\ F(c)'.from = replicas[Req(c).dep]
              /\ Aim(Class(c), F(c)'.from, F(c)'.target, Req(c))
  <1>1. top[c] >= 0 /\ F(c) \in FrameType /\ UNCHANGED top /\ Req(c).delta \in Int
    BY RunningFacts, RequestFacts DEF ReadReplicas, At
  <1>2. ASSUME NEW m, NEW t, Step(c, [F(c) EXCEPT !.pc = "write", !.from = m, !.target = t])
        PROVE  /\ F(c)'.pc = "write" /\ F(c)'.tier = F(c).tier /\ F(c)'.age = F(c).age
               /\ F(c)'.action = F(c).action /\ F(c)'.from = m /\ F(c)'.target = t
    <2> DEFINE r == [F(c) EXCEPT !.pc = "write", !.from = m, !.target = t]
    <2>1. /\ r.pc = "write" /\ r.tier = F(c).tier /\ r.age = F(c).age
          /\ r.action = F(c).action /\ r.from = m /\ r.target = t
      BY <1>1 DEF FrameType
    <2> HIDE DEF r
    <2>2. F(c)' = r
      BY <1>1, <1>2, StepFrame DEF r
    <2> QED BY <2>1, <2>2
  <1>3. PICK m : m = replicas[Req(c).dep]
    OBVIOUS
  <1>4. CASE Settle(c, "close", "action_failed")
    BY <1>1, <1>4, SettleFrame
  <1>5. CASE /\ Class(c) = "ScaleHandler" /\ ~ (Req(c).delta <= 0)
             /\ Step(c, [F(c) EXCEPT !.pc = "write", !.from = m,
                                     !.target = ScaleOutTarget(m, Req(c))])
    <2>1. Req(c).delta > 0
      BY <1>1, <1>5
    <2> QED BY <1>2, <1>3, <1>5, <2>1 DEF Aim
  <1>6. CASE /\ Class(c) = "ScaleInverseHandler"
             /\ Step(c, [F(c) EXCEPT !.pc = "write", !.from = m,
                                     !.target = ScaleInTarget(m, Req(c))])
    BY <1>2, <1>3, <1>6 DEF Aim
  <1> QED BY <1>3, <1>4, <1>5, <1>6 DEF ReadReplicas

(* Where a step of the running frame can lead: the points from the bounds  *)
(* check to the write are each reached by one action.                      *)
LEMMA Arrivals ==
    ASSUME IInv, NEW c \in Callers, Run(c), top'[c] >= 0
    PROVE  /\ F(c)'.pc = "inspect" => CheckBounds(c) /\ ~ BoundsRefuse(c)
           /\ F(c)'.pc = "gate" => Inspect(c)
           /\ F(c)'.pc = "act" =>
                /\ Gate(c) /\ Goto(c, "act")
                /\ Proceeds(F(c).tier, Ceiling(c)) /\ ~ Req(c).dryRun
           /\ F(c)'.pc = "write" => ReadReplicas(c)
           /\ F(c)'.pc = "bounds" => Rollback(c) /\ InverseOf[F(c).action] # NoAction
           /\ F(c)'.pc = "poll" => Patch(c) \/ WriteReplicas(c) \/ Wake(c)
           /\ F(c)'.pc \in {"sleep", "rollback"} => Poll(c)
  <1>1. ASSUME NEW p, NEW o, Goto(c, p) \/ Settle(c, p, o), top[c] >= 0, UNCHANGED top
        PROVE  F(c)'.pc = p
    BY <1>1, GotoFrame, SettleFrame
  <1>2. CASE CheckBounds(c)
    <2>1. UNCHANGED top /\ top[c] >= 0
      BY <1>2 DEF CheckBounds, At
    <2>2. CASE BoundsRefuse(c)
      BY <1>1, <1>2, <2>1, <2>2 DEF CheckBounds
    <2>3. CASE ~ BoundsRefuse(c)
      BY <1>1, <1>2, <2>1, <2>3 DEF CheckBounds
    <2> QED BY <2>2, <2>3
  <1>3. CASE Inspect(c)
    BY <1>3, InspectFrame
  <1>4. CASE Gate(c)
    <2>1. UNCHANGED top /\ top[c] >= 0
      BY <1>4 DEF Gate, At
    <2>2. CASE \E o : Settle(c, "emit", o)
      <3>1. F(c)'.pc = "emit"
        BY <1>1, <2>1, <2>2
      <3> QED BY <3>1
    <2>3. CASE ~ \E o : Settle(c, "emit", o)
      <3>1. Goto(c, "act") /\ Proceeds(F(c).tier, Ceiling(c)) /\ ~ Req(c).dryRun
        BY <1>4, <2>3 DEF Gate
      <3>2. F(c)'.pc = "act"
        BY <1>1, <2>1, <3>1
      <3> QED BY <1>4, <3>1, <3>2
    <2> QED BY <2>2, <2>3
  <1>5. CASE Patch(c) \/ WriteReplicas(c) \/ Wake(c)
    <2>1. F(c)'.pc = "poll"
      BY <1>1, <1>5 DEF Patch, WriteReplicas, Wake, At
    <2> QED BY <1>5, <2>1
  <1>6. CASE ReadReplicas(c)
    BY <1>6, ReadFrame
  <1>7. CASE HandlerRaises(c) \/ (Rollback(c) /\ InverseOf[F(c).action] = NoAction)
    <2>1. F(c)'.pc = "close"
      BY <1>1, <1>7 DEF HandlerRaises, Rollback, At
    <2> QED BY <2>1
  <1>8. CASE Poll(c)
    <2>1. UNCHANGED top /\ top[c] >= 0 /\ F(c) \in FrameType
      BY <1>8, RunningFacts DEF Poll, At
    <2>2. ASSUME NEW w, Step(c, [F(c) EXCEPT !.pc = "sleep", !.wake = w])
          PROVE  F(c)'.pc = "sleep"
      <3> DEFINE r == [F(c) EXCEPT !.pc = "sleep", !.wake = w]
      <3>1. r.pc = "sleep"
        BY <2>1 DEF FrameType
      <3> HIDE DEF r
      <3> QED BY <2>1, <2>2, <3>1, StepFrame DEF r
    <2>3. F(c)'.pc \in {"close", "sleep", "rollback"}
      BY <1>1, <1>8, <2>1, <2>2 DEF Poll
    <2> QED BY <1>8, <2>3
  <1>9. CASE Rollback(c) /\ InverseOf[F(c).action] # NoAction
    <2>1. top'[c] = top[c] + 1
      BY <1>9 DEF Rollback, IInv, TypeOK
    <2>2. frame'[c][top[c] + 1].pc = "bounds"
      BY <1>9, RollbackPush
    <2>3. F(c)'.pc = "bounds"
      BY <2>1, <2>2 DEF F
    <2> QED BY <1>9, <2>3
  <1>10. CASE Close(c)
    <2>1. F(c)'.pc = "emit"
      BY <1>1, <1>10 DEF Close, At
    <2> QED BY <2>1
  <1>11. CASE Emit(c)
    <2>1. top'[c] = top[c] - 1 /\ top[c] \in Depths
      BY <1>11, EmitIds DEF Emit, Return, IInv, TypeOK
    <2>2. top'[c] \in Depths /\ top'[c] + 1 = top[c]
      BY <2>1, DepthFacts
    <2>3. frame'[c][top'[c]].pc = "close"
      BY <1>11, <2>2, EmitIds
    <2> QED BY <2>3 DEF F
  <1>12. CASE CallRaises(c)
    BY <1>12 DEF CallRaises, Raise, IInv, TypeOK
  <1> QED BY <1>2, <1>3, <1>4, <1>5, <1>6, <1>7, <1>8, <1>9, <1>10, <1>11, <1>12 DEF Run

(* Between the bounds check and the record, what the bounds have ruled out *)
(* stays ruled out: time only moves away from the last scale.              *)
CheckedOK(c) ==
    At(c, "inspect") \/ At(c, "gate") => ~ InFlight(c) /\ ~ Oscillates(c)

SeparateOK ==
    /\ NoActionStorm
    /\ ScaleDwellHonoured
    /\ \A c \in Callers : CheckedOK(c)

LEMMA OthersEntries ==
    ASSUME LInv, Apart, NEW c \in Callers, top[c] >= 0, NEW b \in Callers, b # c,
           Start(b) \/ Run(b)
    PROVE  /\ InFlight(c)' => InFlight(c)
           /\ Oscillates(c)' => Oscillates(c)
  <1>0. /\ IInv /\ LedgerOK
        /\ UNCHANGED now /\ F(c)' = F(c) /\ Req(c)' = Req(c)
        /\ Len(ledger) \in Nat /\ DOMAIN ledger = 1 .. Len(ledger)
    BY OthersStep, LedgerTyped DEF LInv, Req
  <1>1. CASE UNCHANGED ledger
    BY <1>0, <1>1 DEF InFlight, HasOpen, Oscillates, IsLastAgainst, IsAgainst
  <1>2. CASE Gate(b) /\ ledger' = Record(ledger, NewEntry(b))
    <2>1. PICK new : new = NewEntry(b)
      OBVIOUS
    <2>2. new.dep # Req(c).dep
      BY <1>2, <2>1 DEF Apart, NewEntry, Gate, At
    <2>3. ASSUME NEW i \in DOMAIN ledger', ledger'[i].dep = Req(c).dep
          PROVE  i + Evicted \in DOMAIN ledger /\ ledger'[i] = ledger[i + Evicted]
      BY <1>0, <1>2, <2>1, <2>2, <2>3, RecordedOrOld
    <2>4. InFlight(c)' => InFlight(c)
      BY <1>0, <2>3 DEF InFlight, HasOpen
    <2>5. ASSUME NEW i \in DOMAIN ledger',
                 IsLastAgainst(ledger', i, Req(c).tenant, Req(c).dep)
          PROVE  IsLastAgainst(ledger, i + Evicted, Req(c).tenant, Req(c).dep)
      <3>1. IsAgainst(ledger'[i], Req(c).tenant, Req(c).dep)
        BY <2>5 DEF IsLastAgainst
      <3>2. i + Evicted \in DOMAIN ledger /\ ledger'[i] = ledger[i + Evicted]
        BY <2>3, <3>1 DEF IsAgainst
      <3>3. /\ Evicted \in {0, 1} /\ Len(ledger') = Len(ledger) + 1 - Evicted
            /\ DOMAIN ledger' = 1 .. Len(ledger')
            /\ \A j \in 1 .. Len(ledger) - Evicted : ledger'[j] = ledger[j + Evicted]
        BY <1>0, <1>2, <2>1, RecordEntries
      <3>4. ASSUME NEW j \in DOMAIN ledger, j > i + Evicted
            PROVE  ~ IsAgainst(ledger[j], Req(c).tenant, Req(c).dep)
        <4>1. PICK k : k = j - Evicted
          OBVIOUS
        <4>2. /\ k \in 1 .. Len(ledger) - Evicted /\ k + Evicted = j
              /\ k \in DOMAIN ledger' /\ k > i
          BY <1>0, <3>3, <3>4, <4>1
        <4>3. ledger'[k] = ledger[j]
          BY <3>3, <4>2
        <4> QED BY <2>5, <4>2, <4>3 DEF IsLastAgainst
      <3> QED BY <3>1, <3>2, <3>4 DEF IsLastAgainst
    <2>6. ASSUME NEW i \in DOMAIN ledger',
                 IsLastAgainst(ledger', i, Req(c).tenant, Req(c).dep)
          PROVE  i + Evicted \in DOMAIN ledger /\ ledger'[i] = ledger[i + Evicted]
      BY <2>3, <2>6 DEF IsLastAgainst, IsAgainst
    <2>7. Oscillates(c)' => Oscillates(c)
      BY <1>0, <2>5, <2>6 DEF Oscillates
    <2> QED BY <2>4, <2>7
  <1>3. CASE Close(b)
    <2>1. DOMAIN ledger' = DOMAIN ledger
      BY <1>0, <1>3, CloseMarks
    <2>2. \A i \in DOMAIN ledger :
            /\ ledger'[i].tenant = ledger[i].tenant /\ ledger'[i].dep = ledger[i].dep
            /\ ledger[i].id # Id(b, top[b]) => ledger'[i] = ledger[i]
      BY <1>0, <1>3, CloseFields
    <2>3. top[b] >= 0 /\ top[b] \in Depths /\ Req(b).dep # Req(c).dep
      BY <1>0, <1>3, RunningFacts DEF Apart, Close, At
    <2>4. \A i \in DOMAIN ledger : ledger[i].dep = Req(c).dep => ledger'[i] = ledger[i]
      <3>1. ASSUME NEW i \in DOMAIN ledger, ledger[i].id = Id(b, top[b])
            PROVE  ledger[i].dep = Req(b).dep
        BY <1>0, <2>3, <3>1 DEF LedgerOK, Entries, EntryOK, FrameEntry
      <3> QED BY <2>2, <2>3, <3>1
    <2>5. InFlight(c)' => InFlight(c)
      BY <1>0, <2>1, <2>2, <2>4 DEF InFlight, HasOpen
    <2>6. \A i \in DOMAIN ledger :
            IsLastAgainst(ledger', i, Req(c).tenant, Req(c).dep) =>
                /\ IsLastAgainst(ledger, i, Req(c).tenant, Req(c).dep)
                /\ ledger'[i] = ledger[i]
      BY <2>1, <2>2, <2>4 DEF IsLastAgainst, IsAgainst
    <2>7. Oscillates(c)' => Oscillates(c)
      BY <1>0, <2>1, <2>6 DEF Oscillates
    <2> QED BY <2>5, <2>7
  <1>4. Start(b) => UNCHANGED ledger
    BY DEF Start, Call
  <1> QED BY <1>1, <1>2, <1>3, <1>4, RunWrites

LEMMA CheckedInv ==
    ASSUME Apart, LInv, IInv, NEW c \in Callers, CheckedOK(c), [Next]_vars
    PROVE  CheckedOK(c)'
  <1>1. ASSUME UNCHANGED <<now, ledger, ctx>>, F(c)'.action = F(c).action
        PROVE  InFlight(c)' = InFlight(c) /\ Oscillates(c)' = Oscillates(c)
    BY <1>1 DEF InFlight, HasOpen, Oscillates, IsLastAgainst, IsAgainst, Req
  <1>2. CASE Start(c)
    <2>1. F(c)'.pc = "bounds"
      <3>1. top'[c] = 0
        BY <1>2 DEF Start, Call, IInv, TypeOK
      <3> QED BY <1>2, <3>1, StartPush DEF F
    <2> QED BY <2>1 DEF CheckedOK, At
  <1>3. CASE Run(c)
    <2>1. CASE top'[c] >= 0 /\ F(c)'.pc = "inspect"
      <3>1. CheckBounds(c) /\ ~ BoundsRefuse(c)
        BY <1>3, <2>1, Arrivals
      <3>2. UNCHANGED <<now, ledger, ctx>> /\ F(c)'.action = F(c).action
        <4>1. UNCHANGED <<now, ledger, ctx, top>> /\ top[c] >= 0 /\ Goto(c, "inspect")
          BY <3>1 DEF CheckBounds, At
        <4> QED BY <4>1, GotoFrame
      <3> QED BY <1>1, <3>1, <3>2 DEF BoundsRefuse, CheckedOK
    <2>2. CASE top'[c] >= 0 /\ F(c)'.pc = "gate"
      <3>1. Inspect(c)
        BY <1>3, <2>2, Arrivals
      <3>2. UNCHANGED <<now, ledger, ctx>> /\ F(c)'.action = F(c).action /\ At(c, "inspect")
        BY <3>1, InspectFrame DEF Inspect
      <3> QED BY <1>1, <3>2 DEF CheckedOK
    <2> QED BY <2>1, <2>2 DEF CheckedOK, At
  <1>4. CASE Tick \/ UNCHANGED vars
    <2>1. /\ UNCHANGED <<ledger, ctx, frame, top>>
          /\ now' \in Nat /\ now \in Nat /\ now' >= now
      BY <1>4 DEF Tick, vars, IInv, TypeOK
    <2>2. InFlight(c)' = InFlight(c)
      BY <2>1 DEF InFlight, HasOpen, Req, F
    <2>3. Oscillates(c)' => Oscillates(c)
      <3>1. ASSUME NEW i \in DOMAIN ledger, now' - ledger[i].ts < Hysteresis
            PROVE  now - ledger[i].ts < Hysteresis
        <4>1. ledger[i].ts \in Nat
          BY EntryFields
        <4> QED BY <2>1, <3>1, <4>1, ParametersAssumption
      <3>2. \A i \in DOMAIN ledger : IsLastAgainst(ledger, i, Req(c).tenant, Req(c).dep)' =
                                     IsLastAgainst(ledger, i, Req(c).tenant, Req(c).dep)
        BY <2>1 DEF IsLastAgainst, IsAgainst, Req
      <3> QED BY <2>1, <3>1, <3>2 DEF Oscillates, Req, F
    <2> QED BY <2>1, <2>2, <2>3 DEF CheckedOK, At, F
  <1>5. ASSUME NEW b \in Callers, b # c, Start(b) \/ Run(b) PROVE CheckedOK(c)'
    <2>1. top'[c] = top[c] /\ (top[c] >= 0 => F(c)' = F(c))
      BY <1>5, OthersStep
    <2>2. top[c] >= 0 => (InFlight(c)' => InFlight(c)) /\ (Oscillates(c)' => Oscillates(c))
      BY <1>5, OthersEntries
    <2> QED BY <2>1, <2>2 DEF CheckedOK, At
  <1> QED BY <1>2, <1>3, <1>4, <1>5, StepKinds

(* Opposite signs, as the runner writes it and as the property does.       *)
LEMMA OppositeSigns ==
    ASSUME NEW a \in Int, NEW b \in Int, a * b < 0
    PROVE  IsScaleInverse(a, b)
  <1>1. a = 0 \/ b = 0 => a * b = 0
    OBVIOUS
  <1>2. a > 0 /\ b > 0 => a * b > 0
    OBVIOUS
  <1>3. a < 0 /\ b < 0 => a * b > 0
    OBVIOUS
  <1> QED BY <1>1, <1>2, <1>3 DEF IsScaleInverse

(* A finite set of positions has a last one: the smallest of the sets of   *)
(* what lies beyond a member is empty.                                     *)
LEMMA LastOfSet ==
    ASSUME NEW m \in Nat, NEW A, A \subseteq 1 .. m, A # {}
    PROVE  \E x \in A : \A y \in A : y <= x
  <1> DEFINE Beyond(x) == {y \in A : y > x}
             T == {Beyond(x) : x \in A}
  <1>1. IsFiniteSet(1 .. m)
    BY FS_Interval
  <1>2. FiniteSubsetsOf(1 .. m) = SUBSET (1 .. m)
    BY <1>1, FS_FiniteSubsetsOfFinite
  <1>3. IsWellFoundedOn(StrictSubsetOrdering(1 .. m), SUBSET (1 .. m))
    BY <1>2, FS_StrictSubsetOrderingWellFounded
  <1>4. T \subseteq SUBSET (1 .. m) /\ T # {}
    OBVIOUS
  <1>5. PICK B \in T : \A C \in T : ~ (<<C, B>> \in StrictSubsetOrdering(1 .. m))
    <2> HIDE DEF T
    <2> QED BY <1>3, <1>4, WFMin
  <1>6. PICK x \in A : B = Beyond(x)
    OBVIOUS
  <1>7. ASSUME NEW y \in A, ~ (y <= x)
        PROVE  FALSE
    <2>1. x \in Int /\ y \in Int /\ \A z \in A : z \in Int
      OBVIOUS
    <2>2. Beyond(y) \subseteq Beyond(x) /\ y \in Beyond(x) /\ y \notin Beyond(y)
      <3>1. y > x /\ ~ (y > y) /\ \A z \in A : z > y => z > x
        BY <1>7, <2>1
      <3> QED BY <3>1
    <2>3. Beyond(y) \in T /\ B \in T
      BY <1>7
    <2>4. Beyond(y) \in SUBSET (1 .. m) /\ B \in SUBSET (1 .. m) /\ Beyond(y) # B
      BY <1>4, <1>6, <2>2, <2>3
    <2>5. <<Beyond(y), B>> \in StrictSubsetOrdering(1 .. m)
      BY <1>6, <2>2, <2>4 DEF StrictSubsetOrdering
    <2> QED BY <1>5, <2>3, <2>5
  <1> QED BY <1>7

(* The last action against a deployment, if there is one at all.           *)
LEMMA LastAgainst ==
    ASSUME IInv, NEW t, NEW u, NEW a \in DOMAIN ledger, IsAgainst(ledger[a], t, u)
    PROVE  \E q \in DOMAIN ledger : q >= a /\ IsLastAgainst(ledger, q, t, u)
  <1> DEFINE A == {k \in DOMAIN ledger : IsAgainst(ledger[k], t, u)}
  <1>1. Len(ledger) \in Nat /\ DOMAIN ledger = 1 .. Len(ledger)
    BY LedgerTyped
  <1>2. A \subseteq 1 .. Len(ledger) /\ a \in A
    BY <1>1
  <1>3. PICK q \in A : \A k \in A : k <= q
    <2> HIDE DEF A
    <2> QED BY <1>1, <1>2, LastOfSet
  <1>4. q \in DOMAIN ledger /\ IsAgainst(ledger[q], t, u) /\ q >= a
    BY <1>1, <1>2, <1>3
  <1>5. \A k \in DOMAIN ledger : k > q => ~ IsAgainst(ledger[k], t, u)
    BY <1>1, <1>3, <1>4
  <1> QED BY <1>4, <1>5 DEF IsLastAgainst

(* The signs of three scales, the first and the last of them opposite.     *)
LEMMA SignOfMiddle ==
    ASSUME NEW a \in Int, NEW b \in Int, NEW z \in Int, a * z < 0, b # 0
    PROVE  b * z < 0 \/ a * b < 0
  <1>1. \/ a > 0 /\ z < 0
        \/ a < 0 /\ z > 0
    <2>1. IsScaleInverse(a, z)
      BY OppositeSigns
    <2> QED BY <2>1 DEF IsScaleInverse
  <1>2. \A x, y \in Int : x > 0 /\ y < 0 => x * y < 0 /\ y * x < 0
    OBVIOUS
  <1> QED BY <1>1, <1>2

(* The record of an action that has passed the bounds.                     *)
LEMMA RecordSeparate ==
    ASSUME IInv, OrderOK, NoActionStorm, ScaleDwellHonoured, NEW c \in Callers,
           top[c] >= 0,
           ~ InFlight(c), ~ Oscillates(c),
           NEW new, new = NewEntry(c), ledger' = Record(ledger, new)
    PROVE  NoActionStorm' /\ ScaleDwellHonoured'
  <1> DEFINE m == Len(ledger)
             v == Evicted
  <1>1. /\ new.action = F(c).action /\ new.tenant = Req(c).tenant
        /\ new.dep = Req(c).dep /\ new.delta = Req(c).delta /\ new.ts = now
      BY DEF NewEntry
  <1>2. /\ m \in Nat /\ DOMAIN ledger = 1 .. m /\ v \in {0, 1} /\ v <= m
        /\ Len(ledger') = m + 1 - v /\ DOMAIN ledger' = 1 .. m + 1 - v
        /\ ledger'[m + 1 - v] = new
        /\ \A i \in 1 .. m - v : ledger'[i] = ledger[i + v]
    BY LedgerTyped, RecordEntries
  <1>3. \A i \in 1 .. m : /\ ledger[i].delta \in Int /\ ledger[i].ts \in Nat
                          /\ ledger[i].terminal \in BOOLEAN
    BY <1>2, EntryFields
  <1>4. now \in Nat /\ Req(c).delta \in Int /\ Hysteresis \in Nat
    BY RunningFacts, RequestFacts, ParametersAssumption DEF IInv, TypeOK
  <1>5. \A i \in 1 .. m : ~ ledger[i].terminal =>
            ~ (/\ ledger[i].tenant = new.tenant /\ ledger[i].dep = new.dep
               /\ ledger[i].action = new.action)
    BY <1>1, <1>2 DEF InFlight, HasOpen
  <1> HIDE DEF m, v
  <1>6. ASSUME NEW i \in DOMAIN ledger', NEW j \in DOMAIN ledger', i < j
        PROVE  \/ /\ i + v \in 1 .. m /\ j + v \in 1 .. m /\ i + v < j + v
                  /\ ledger'[i] = ledger[i + v] /\ ledger'[j] = ledger[j + v]
               \/ /\ i + v \in 1 .. m /\ ledger'[i] = ledger[i + v]
                  /\ j = m + 1 - v /\ ledger'[j] = new
    <2>1. /\ i \in Int /\ j \in Int /\ m \in Int /\ v \in Int /\ 0 <= v
          /\ 1 <= i /\ i < j /\ j <= m + 1 - v
      BY <1>2, <1>6
    <2>2. i \in 1 .. m - v /\ i + v \in 1 .. m
      BY <2>1
    <2>3. CASE j = m + 1 - v
      BY <1>2, <2>2, <2>3
    <2>4. CASE j # m + 1 - v
      <3>1. j \in 1 .. m - v /\ j + v \in 1 .. m /\ i + v < j + v
        BY <2>1, <2>4
      <3> QED BY <1>2, <2>2, <3>1
    <2> QED BY <2>3, <2>4
  <1>7. NoActionStorm'
    <2>1. ASSUME NEW i \in DOMAIN ledger', NEW j \in DOMAIN ledger', i < j,
                 ~ ledger'[i].terminal, ~ ledger'[j].terminal,
                 ledger'[i].tenant = ledger'[j].tenant, ledger'[i].dep = ledger'[j].dep,
                 ledger'[i].action = ledger'[j].action
          PROVE  FALSE
      <3>1. CASE /\ i + v \in 1 .. m /\ j + v \in 1 .. m /\ i + v < j + v
                 /\ ledger'[i] = ledger[i + v] /\ ledger'[j] = ledger[j + v]
        <4>1. i + v = j + v
          BY <1>2, <2>1, <3>1 DEF NoActionStorm
        <4>2. i + v \in Int
          BY <3>1
        <4> QED BY <3>1, <4>1, <4>2
      <3>2. CASE /\ i + v \in 1 .. m /\ ledger'[i] = ledger[i + v]
                 /\ j = m + 1 - v /\ ledger'[j] = new
        BY <1>5, <2>1, <3>2
      <3> QED BY <1>6, <2>1, <3>1, <3>2
    <2>2. \A i, j \in DOMAIN ledger' : i = j \/ i < j \/ j < i
      BY <1>2
    <2> QED BY <2>1, <2>2 DEF NoActionStorm
  <1>8. ScaleDwellHonoured'
    <2> SUFFICES ASSUME NEW i \in DOMAIN ledger', NEW j \in DOMAIN ledger', i < j,
                        ledger'[i].tenant = ledger'[j].tenant,
                        ledger'[i].dep = ledger'[j].dep,
                        ledger'[i].action = "scale", ledger'[j].action = "scale",
                        ledger'[i].delta * ledger'[j].delta < 0,
                        ~ (ledger'[j].ts - ledger'[i].ts >= Hysteresis)
                 PROVE  \E k \in i + 1 .. j - 1 :
                            Hides(ledger'[k], ledger'[i].tenant, ledger'[i].dep)
      BY DEF ScaleDwellHonoured
    <2>0. /\ i \in Int /\ j \in Int /\ v \in Int /\ m \in Int
          /\ 0 <= v /\ 1 <= i /\ j <= m + 1 - v
      BY <1>2
    <2>1. CASE /\ i + v \in 1 .. m /\ j + v \in 1 .. m /\ i + v < j + v
               /\ ledger'[i] = ledger[i + v] /\ ledger'[j] = ledger[j + v]
      <3>1. PICK p, q : p = i + v /\ q = j + v
        OBVIOUS
      <3>2. /\ p \in DOMAIN ledger /\ q \in DOMAIN ledger /\ p < q
            /\ ledger'[i] = ledger[p] /\ ledger'[j] = ledger[q]
        BY <1>2, <2>1, <3>1
      <3>3. PICK k \in p + 1 .. q - 1 : Hides(ledger[k], ledger[p].tenant, ledger[p].dep)
        BY <3>2 DEF ScaleDwellHonoured
      <3>4. k - v \in i + 1 .. j - 1 /\ k - v \in 1 .. m - v /\ k - v + v = k
        BY <2>0, <3>1, <3>3
      <3>5. ledger'[k - v] = ledger[k]
        BY <1>2, <3>4
      <3> QED BY <3>2, <3>3, <3>4, <3>5
    <2>2. CASE /\ i + v \in 1 .. m /\ ledger'[i] = ledger[i + v]
               /\ j = m + 1 - v /\ ledger'[j] = new
      <3>1. PICK a : a = i + v
        OBVIOUS
      <3>2. /\ a \in DOMAIN ledger /\ ledger'[i] = ledger[a]
            /\ ledger[a].tenant = new.tenant /\ ledger[a].dep = new.dep
            /\ ledger[a].action = "scale" /\ F(c).action = "scale"
            /\ ledger[a].delta * new.delta < 0 /\ now - ledger[a].ts < Hysteresis
        <4>1. a \in DOMAIN ledger /\ ledger'[i] = ledger[a] /\ ledger'[j] = new
          BY <1>2, <2>2, <3>1
        <4>2. ledger[a].ts \in Nat /\ new.ts = now
          BY <1>1, <1>2, <1>3, <4>1
        <4>3. now - ledger[a].ts < Hysteresis
          BY <1>4, <4>1, <4>2
        <4> QED BY <1>1, <4>1, <4>3
      <3>3. PICK q \in DOMAIN ledger :
                q >= a /\ IsLastAgainst(ledger, q, Req(c).tenant, Req(c).dep)
        BY <1>1, <3>2, LastAgainst DEF IsAgainst
      <3>4. IsAgainst(ledger[q], new.tenant, new.dep)
        BY <1>1, <3>3 DEF IsLastAgainst
      <3>5. /\ a \in 1 .. m /\ q \in 1 .. m /\ new.delta \in Int
            /\ ledger[a].delta \in Int /\ ledger[q].delta \in Int
            /\ ledger[a].ts \in Nat /\ ledger[q].ts \in Nat
        BY <1>1, <1>2, <1>3, <1>4, <3>2, <3>3
      <3>6. now - ledger[q].ts < Hysteresis /\ ledger[q].ts - ledger[a].ts < Hysteresis
        <4>1. ledger[a].ts <= ledger[q].ts
          BY <3>2, <3>3, <3>5 DEF OrderOK
        <4>2. ledger[q].ts <= now
          BY <3>3 DEF OrderOK
        <4> QED BY <1>4, <3>2, <3>5, <4>1, <4>2
      <3>7. CASE ledger[q].action = "scale" /\ ledger[q].delta # 0
        <4>1. ledger[q].terminal
          BY <1>1, <1>5, <3>2, <3>4, <3>5, <3>7 DEF IsAgainst
        <4>2. ~ (ledger[q].delta * new.delta < 0)
          <5>1. ~ IsScaleInverse(ledger[q].delta, Req(c).delta)
            BY <1>1, <3>2, <3>3, <3>6, <3>7, <4>1 DEF Oscillates
          <5> QED BY <1>1, <3>5, <5>1, OppositeSigns
        <4>3. ledger[a].delta * ledger[q].delta < 0
          BY <3>2, <3>5, <3>7, <4>2, SignOfMiddle
        <4>4. a < q
          <5>1. a # q
            BY <3>2, <4>2
          <5> QED BY <3>3, <3>5, <5>1
        <4>5. ~ (ledger[q].ts - ledger[a].ts >= Hysteresis)
          BY <1>4, <3>5, <3>6
        <4>6. PICK k \in a + 1 .. q - 1 :
                    Hides(ledger[k], ledger[a].tenant, ledger[a].dep)
          BY <3>2, <3>3, <3>4, <3>7, <4>3, <4>4, <4>5 DEF ScaleDwellHonoured, IsAgainst
        <4>7. k - v \in i + 1 .. j - 1 /\ k - v \in 1 .. m - v /\ k - v + v = k
          BY <2>0, <2>2, <3>1, <3>5, <4>6
        <4>8. ledger'[k - v] = ledger[k]
          BY <1>2, <4>7
        <4> QED BY <3>2, <4>6, <4>7, <4>8
      <3>8. CASE ~ (ledger[q].action = "scale" /\ ledger[q].delta # 0)
        <4>1. a # q
          <5>1. a = q => ledger[q].delta = 0 /\ ledger[q].delta * new.delta < 0
            BY <3>2, <3>8
          <5>2. 0 * new.delta = 0
            BY <3>5
          <5> QED BY <5>1, <5>2
        <4>2. q - v \in i + 1 .. j - 1 /\ q - v \in 1 .. m - v /\ q - v + v = q
          BY <2>0, <2>2, <3>1, <3>3, <3>5, <4>1
        <4>3. ledger'[q - v] = ledger[q]
          BY <1>2, <4>2
        <4>4. Hides(ledger[q], ledger'[i].tenant, ledger'[i].dep)
          BY <3>2, <3>4, <3>8 DEF Hides
        <4> QED BY <4>2, <4>3, <4>4
      <3> QED BY <3>7, <3>8
    <2> QED BY <1>6, <2>1, <2>2
  <1> QED BY <1>7, <1>8

LEMMA SeparateInv ==
    ASSUME Apart, LInv, IInv, OrderOK, SeparateOK, [Next]_vars
    PROVE  SeparateOK'
  <1>1. NoActionStorm' /\ ScaleDwellHonoured'
    <2>1. CASE UNCHANGED ledger
      BY <2>1 DEF SeparateOK, NoActionStorm, ScaleDwellHonoured
    <2>2. ASSUME NEW c \in Callers, Gate(c), ledger' = Record(ledger, NewEntry(c))
          PROVE  NoActionStorm' /\ ScaleDwellHonoured'
      BY <2>2, RecordSeparate DEF SeparateOK, CheckedOK, Gate, At
    <2>3. ASSUME NEW c \in Callers, Close(c)
          PROVE  NoActionStorm' /\ ScaleDwellHonoured'
      <3>1. DOMAIN ledger' = DOMAIN ledger
        BY <2>3, CloseMarks
      <3>2. \A i \in DOMAIN ledger :
                /\ ledger'[i].action = ledger[i].action
                /\ ledger'[i].tenant = ledger[i].tenant /\ ledger'[i].dep = ledger[i].dep
                /\ ledger'[i].delta = ledger[i].delta /\ ledger'[i].ts = ledger[i].ts
                /\ ~ ledger'[i].terminal => ~ ledger[i].terminal
        BY <2>3, CloseFields
      <3>3. NoActionStorm'
        BY <3>1, <3>2 DEF SeparateOK, NoActionStorm
      <3>4. ASSUME NEW i \in DOMAIN ledger, NEW j \in DOMAIN ledger,
                   NEW k \in i + 1 .. j - 1, Hides(ledger[k], ledger[i].tenant, ledger[i].dep)
            PROVE  Hides(ledger'[k], ledger'[i].tenant, ledger'[i].dep)
        <4>1. DOMAIN ledger = 1 .. Len(ledger) /\ Len(ledger) \in Nat
          BY LedgerTyped
        <4>2. k \in DOMAIN ledger
          BY <4>1
        <4> QED BY <3>2, <3>4, <4>2 DEF Hides, IsAgainst
      <3>5. ScaleDwellHonoured'
        BY <3>1, <3>2, <3>4 DEF SeparateOK, ScaleDwellHonoured
      <3> QED BY <3>3, <3>5
    <2> QED BY <2>1, <2>2, <2>3, LedgerWriters
  <1>2. \A c \in Callers : CheckedOK(c)'
    BY CheckedInv DEF SeparateOK
  <1> QED BY <1>1, <1>2 DEF SeparateOK

LEMMA SeparateInvariant == Spec /\ []Apart => []SeparateOK
  <1>1. Init => SeparateOK
    BY DEF Init, SeparateOK, NoActionStorm, ScaleDwellHonoured, CheckedOK, At
  <1>2. LInv /\ OrderOK /\ Apart /\ SeparateOK /\ [Next]_vars => SeparateOK'
    BY SeparateInv DEF LInv
  <1> QED BY <1>1, <1>2, LedgerInvariant, OrderInvariant, PTL DEF Spec

(* No action storm, as long as calls under way are against different       *)
(* deployments: two entries of one kind are never open for one tenant      *)
(* against one deployment, rollbacks and calls that ended in an exception  *)
(* included (runner.py:146).                                               *)
THEOREM NoStormWhenApart == Spec /\ []Apart => []NoActionStorm
  <1>1. SeparateOK => NoActionStorm
    BY DEF SeparateOK
  <1> QED BY <1>1, SeparateInvariant, PTL

(* No flapping, for the same calls: two opposite scale actions against one *)
(* deployment, however many recorded between them, are at least the dwell  *)
(* window apart, unless an action that is not a scale, or a scale by       *)
(* nothing, lies between them and hides the earlier one from the look-back *)
(* of runner.py:153-166.  The runner compares with the last action alone;  *)
(* that this covers every pair of scales rests on the ledger being in the  *)
(* order of time.                                                          *)
THEOREM DwellWhenApart == Spec /\ []Apart => []ScaleDwellHonoured
  <1>1. SeparateOK => ScaleDwellHonoured
    BY DEF SeparateOK
  <1> QED BY <1>1, SeparateInvariant, PTL

(* From the inspection to the write, the tier is the one the site calls    *)
(* for, the gate has let it through, and the count to be replaced is the   *)
(* one the handler has read.                                               *)
GatedOK(c) ==
    /\ At(c, "gate") \/ At(c, "act") \/ At(c, "write") =>
            F(c).tier = Adjust(Baseline(Class(c)), Site(c, F(c).age))
    /\ At(c, "act") \/ At(c, "write") =>
            Proceeds(F(c).tier, Ceiling(c)) /\ ~ Req(c).dryRun
    /\ At(c, "write") =>
            /\ F(c).from = replicas[Req(c).dep]
            /\ Aim(Class(c), F(c).from, F(c).target, Req(c))

GatesOK == \A c \in Callers : GatedOK(c)

LEMMA GatedInv ==
    ASSUME Apart, IInv, NEW c \in Callers, GatedOK(c), [Next]_vars
    PROVE  GatedOK(c)'
  <1>1. ASSUME UNCHANGED <<replicas, ctx, top>>, F(c)'.action = F(c).action, NEW age
        PROVE  /\ Site(c, age)' = Site(c, age) /\ Class(c)' = Class(c)
               /\ Ceiling(c)' = Ceiling(c) /\ Req(c)' = Req(c)
    BY <1>1 DEF Site, Class, Ceiling, Req
  <1>2. CASE Start(c)
    <2>1. F(c)'.pc = "bounds"
      <3>1. top'[c] = 0
        BY <1>2 DEF Start, Call, IInv, TypeOK
      <3> QED BY <1>2, <3>1, StartPush DEF F
    <2> QED BY <2>1 DEF GatedOK, At
  <1>3. CASE Run(c)
    <2>1. CASE top'[c] >= 0 /\ F(c)'.pc = "gate"
      <3>1. Inspect(c)
        BY <1>3, <2>1, Arrivals
      <3>2. /\ UNCHANGED <<replicas, ctx, top>> /\ F(c)'.action = F(c).action
            /\ F(c)'.tier = Adjust(Baseline(Class(c)), Site(c, F(c)'.age))
        BY <3>1, InspectFrame DEF Inspect
      <3>3. PICK age : age = F(c)'.age
        OBVIOUS
      <3>4. Site(c, age)' = Site(c, age) /\ Class(c)' = Class(c)
        BY <1>1, <3>2
      <3>5. F(c)'.tier = Adjust(Baseline(Class(c)'), Site(c, age)')
        BY <3>2, <3>3, <3>4
      <3>6. (F(c).tier = Adjust(Baseline(Class(c)), Site(c, F(c).age)))'
        BY <3>3, <3>5 DEF Site
      <3> QED BY <2>1, <3>6 DEF GatedOK, At
    <2>2. CASE top'[c] >= 0 /\ F(c)'.pc = "act"
      <3>1. /\ Gate(c) /\ Goto(c, "act") /\ Proceeds(F(c).tier, Ceiling(c))
            /\ ~ Req(c).dryRun
        BY <1>3, <2>2, Arrivals
      <3>2. UNCHANGED <<replicas, ctx, top>> /\ At(c, "gate")
        BY <3>1 DEF Gate
      <3>3. F(c)'.action = F(c).action /\ F(c)'.tier = F(c).tier /\ F(c)'.age = F(c).age
        BY <3>1, <3>2, GotoFrame DEF At
      <3>4. F(c).tier = Adjust(Baseline(Class(c)), Site(c, F(c).age))
        BY <3>2 DEF GatedOK
      <3>5. /\ Site(c, F(c).age)' = Site(c, F(c).age) /\ Class(c)' = Class(c)
            /\ Ceiling(c)' = Ceiling(c) /\ Req(c)' = Req(c)
        BY <3>2, <3>3 DEF Site, Class, Ceiling, Req
      <3>6. (F(c).tier = Adjust(Baseline(Class(c)), Site(c, F(c).age)))'
        BY <3>3, <3>4, <3>5
      <3>7. (Proceeds(F(c).tier, Ceiling(c)) /\ ~ Req(c).dryRun)'
        BY <3>1, <3>3, <3>5 DEF Proceeds
      <3> QED BY <2>2, <3>6, <3>7 DEF GatedOK, At
    <2>3. CASE top'[c] >= 0 /\ F(c)'.pc = "write"
      <3>1. ReadReplicas(c)
        BY <1>3, <2>3, Arrivals
      <3>2. UNCHANGED <<replicas, ctx, top>> /\ At(c, "act")
        BY <3>1 DEF ReadReplicas
      <3>3. /\ F(c)'.tier = F(c).tier /\ F(c)'.age = F(c).age
            /\ F(c)'.action = F(c).action /\ F(c)'.from = replicas[Req(c).dep]
            /\ Aim(Class(c), F(c)'.from, F(c)'.target, Req(c))
        BY <2>3, <3>1, ReadFrame
      <3>4. /\ F(c).tier = Adjust(Baseline(Class(c)), Site(c, F(c).age))
            /\ Proceeds(F(c).tier, Ceiling(c)) /\ ~ Req(c).dryRun
        BY <3>2 DEF GatedOK
      <3>5. /\ Site(c, F(c).age)' = Site(c, F(c).age) /\ Class(c)' = Class(c)
            /\ Ceiling(c)' = Ceiling(c) /\ Req(c)' = Req(c)
        BY <3>2, <3>3 DEF Site, Class, Ceiling, Req
      <3>6. (F(c).tier = Adjust(Baseline(Class(c)), Site(c, F(c).age)))'
        BY <3>3, <3>4, <3>5
      <3>7. (Proceeds(F(c).tier, Ceiling(c)) /\ ~ Req(c).dryRun)'
        BY <3>3, <3>4, <3>5 DEF Proceeds
      <3>8. (/\ F(c).from = replicas[Req(c).dep]
             /\ Aim(Class(c), F(c).from, F(c).target, Req(c)))'
        BY <3>2, <3>3, <3>5 DEF Aim
      <3> QED BY <2>3, <3>6, <3>7, <3>8 DEF GatedOK, At
    <2> QED BY <2>1, <2>2, <2>3 DEF GatedOK, At
  <1>4. CASE Tick \/ UNCHANGED vars
    <2>1. UNCHANGED <<replicas, ctx, frame, top>>
      BY <1>4 DEF Tick, vars
    <2> QED BY <2>1 DEF GatedOK, At, F, Site, Class, Ceiling, Req
  <1>5. ASSUME NEW b \in Callers, b # c, Start(b) \/ Run(b) PROVE GatedOK(c)'
    <2>1. CASE ~ (top[c] >= 0)
      BY <1>5, <2>1, OthersStep DEF GatedOK, At
    <2>2. CASE top[c] >= 0
      <3>1. /\ top'[c] = top[c] /\ F(c)' = F(c) /\ Req(c)' = Req(c)
            /\ replicas'[Req(c).dep] = replicas[Req(c).dep]
        BY <1>5, <2>2, OthersStep DEF Req
      <3>2. /\ Site(c, F(c).age)' = Site(c, F(c).age) /\ Class(c)' = Class(c)
            /\ Ceiling(c)' = Ceiling(c)
        BY <3>1 DEF Site, Class, Ceiling
      <3> QED BY <3>1, <3>2 DEF GatedOK, At
    <2> QED BY <2>1, <2>2
  <1> QED BY <1>2, <1>3, <1>4, <1>5, StepKinds

LEMMA GatesInvariant == Spec /\ []Apart => []GatesOK
  <1>1. Init => GatesOK
    BY DEF Init, GatesOK, GatedOK, At
  <1>2. IInv /\ Apart /\ GatesOK /\ [Next]_vars => GatesOK'
    BY GatedInv DEF GatesOK
  <1> QED BY <1>1, <1>2, NestingInvariant, PTL DEF Spec

(* The write of a frame that has passed the gate.                          *)
LEMMA WriteOfFrame ==
    ASSUME IInv, GatesOK, NEW c \in Callers, Run(c), ~ UNCHANGED writes
    PROVE  /\ At(c, "act") \/ At(c, "write")
           /\ \E n : /\ writes' = writes \cup {NewWrite(c, replicas[Req(c).dep], n)}
                     /\ replicas'[Req(c).dep] = n
                     /\ \/ Class(c) \in {"RestartHandler", "RollbackHandler"}
                        \/ Aim(Class(c), replicas[Req(c).dep], n, Req(c))
  <1>1. \/ /\ At(c, "act") /\ Class(c) \in {"RestartHandler", "RollbackHandler"}
           /\ writes' = writes \cup {NewWrite(c, replicas[Req(c).dep], replicas[Req(c).dep])}
           /\ UNCHANGED replicas
        \/ /\ At(c, "write")
           /\ writes' = writes \cup {NewWrite(c, F(c).from, F(c).target)}
           /\ replicas' = [replicas EXCEPT ![Req(c).dep] = F(c).target]
    BY DEF Run, CheckBounds, Inspect, Gate, Patch, ReadReplicas, WriteReplicas,
       HandlerRaises, Poll, Wake, Close, Rollback, Emit, CallRaises
  <1>2. CASE At(c, "act") /\ UNCHANGED replicas
    BY <1>1, <1>2 DEF At
  <1>3. CASE /\ At(c, "write")
             /\ writes' = writes \cup {NewWrite(c, F(c).from, F(c).target)}
             /\ replicas' = [replicas EXCEPT ![Req(c).dep] = F(c).target]
    <2>1. /\ F(c).from = replicas[Req(c).dep]
          /\ Aim(Class(c), F(c).from, F(c).target, Req(c))
      BY <1>3 DEF GatesOK, GatedOK
    <2>2. replicas'[Req(c).dep] = F(c).target
      BY <1>3, ReplicasTyped DEF At, IInv, TypeOK
    <2> QED BY <1>3, <2>1, <2>2
  <1> QED BY <1>1, <1>2, <1>3

(* What the tier allows, rule by rule.                                     *)
LEMMA TierAllows ==
    ASSUME NEW class \in Classes, NEW site \in CallSite, NEW ceiling \in Tiers,
           Proceeds(Adjust(Baseline(class), site), ceiling)
    PROVE  /\ ceiling = REVERSIBLE =>
                /\ class \in {"RestartHandler", "ScaleHandler"}
                /\ site.replicas >= 2 /\ site.readinessProbe
           /\ site.maxAge > AutonomyAge => ceiling = IRREVERSIBLE
  BY DEF Proceeds, Adjust, HigherTier, Baseline, Classes, CallSite, Tiers,
     REVERSIBLE, RECOVERABLE, IRREVERSIBLE, AutonomyAge

GateHeld(w) ==
    LET class   == Handlers[w.action]
        ceiling == IF w.depth = 0 THEN w.req.ceiling ELSE RECOVERABLE
    IN  /\ ~ w.req.dryRun
        /\ ceiling = REVERSIBLE =>
                /\ class \in {"RestartHandler", "ScaleHandler"}
                /\ w.from >= 2
                /\ class = "RestartHandler" => ReadinessProbe[w.dep]
        /\ class = "RollbackHandler" /\ w.age > w.req.maxAge /\ w.age > AutonomyAge
                => ceiling = IRREVERSIBLE

LEMMA GateHolds ==
    ASSUME IInv, NEW c \in Callers, GatedOK(c), At(c, "act") \/ At(c, "write"),
           NEW n, NEW w, w = NewWrite(c, replicas[Req(c).dep], n)
    PROVE  GateHeld(w)
  <1>1. top[c] >= 0 /\ top[c] \in Depths /\ F(c) \in FrameType /\ Class(c) \in Classes
    BY RunningFacts DEF At
  <1>2. /\ w.action = F(c).action /\ w.depth = top[c] /\ w.req = Req(c)
        /\ w.from = replicas[Req(c).dep] /\ w.age = F(c).age /\ w.dep = Req(c).dep
    BY DEF NewWrite
  <1>3. PICK age : age = F(c).age
    OBVIOUS
  <1>4. /\ F(c).tier = Adjust(Baseline(Class(c)), Site(c, age))
        /\ Proceeds(F(c).tier, Ceiling(c)) /\ ~ Req(c).dryRun
    BY <1>3 DEF GatedOK
  <1>5. age \in Nat
    BY <1>1, <1>3 DEF FrameType
  <1>6. Site(c, age) \in CallSite
    BY <1>1, <1>5, ReplicasTyped, ParametersAssumption DEF Site, CallSite
  <1>7. Ceiling(c) \in Tiers
    <2>1. Req(c) \in RequestType
      BY <1>1, RunningFacts, RequestFacts
    <2> QED BY <2>1 DEF Ceiling, RequestType, Tiers, REVERSIBLE, RECOVERABLE, IRREVERSIBLE
  <1>8. /\ Ceiling(c) = REVERSIBLE =>
                /\ Class(c) \in {"RestartHandler", "ScaleHandler"}
                /\ Site(c, age).replicas >= 2 /\ Site(c, age).readinessProbe
        /\ Site(c, age).maxAge > AutonomyAge => Ceiling(c) = IRREVERSIBLE
    BY <1>1, <1>4, <1>6, <1>7, TierAllows
  <1>9. /\ Site(c, age).replicas = replicas[Req(c).dep]
        /\ Site(c, age).readinessProbe /\ Class(c) = "RestartHandler"
                => ReadinessProbe[Req(c).dep]
        /\ Class(c) = "RollbackHandler" /\ age > Req(c).maxAge => Site(c, age).maxAge = age
    BY DEF Site
  <1>10. /\ Ceiling(c) = IF w.depth = 0 THEN w.req.ceiling ELSE RECOVERABLE
         /\ Class(c) = Handlers[w.action]
    BY <1>2 DEF Ceiling, Class
  <1> QED BY <1>2, <1>3, <1>4, <1>8, <1>9, <1>10 DEF GateHeld

LEMMA GateHeldInv == IInv /\ GatesOK /\ WritesWereGated /\ [Next]_vars => WritesWereGated'
  <1> SUFFICES ASSUME IInv, GatesOK, WritesWereGated, [Next]_vars PROVE WritesWereGated'
    OBVIOUS
  <1>1. \A w \in writes : GateHeld(w)
    BY DEF WritesWereGated, GateHeld
  <1>2. CASE UNCHANGED writes
    BY <1>1, <1>2 DEF WritesWereGated, GateHeld
  <1>3. CASE ~ UNCHANGED writes
    <2>1. PICK c \in Callers : Run(c)
      BY <1>3 DEF Next, Tick, Start, Call, vars
    <2>2. At(c, "act") \/ At(c, "write")
      BY <1>3, <2>1, WriteOfFrame
    <2>3. PICK n : writes' = writes \cup {NewWrite(c, replicas[Req(c).dep], n)}
      BY <1>3, <2>1, WriteOfFrame
    <2>4. PICK w : w = NewWrite(c, replicas[Req(c).dep], n)
      OBVIOUS
    <2>5. GateHeld(w)
      BY <2>2, <2>4, GateHolds DEF GatesOK
    <2>6. \A x \in writes' : GateHeld(x)
      BY <1>1, <2>3, <2>4, <2>5
    <2> QED BY <2>6 DEF WritesWereGated, GateHeld
  <1> QED BY <1>2, <1>3

(* No mutation without the gate, as long as calls under way are against    *)
(* different deployments: at the moment of a write the deployment is still *)
(* one the call may touch without a human, whatever was inspected when     *)
(* (runner.py:64-83, reversibility.py:60-84).                              *)
THEOREM GatedWhenApart == Spec /\ []Apart => []WritesWereGated
  <1>1. Init => WritesWereGated
    BY DEF Init, WritesWereGated
  <1> QED BY <1>1, GateHeldInv, GatesInvariant, NestingInvariant, PTL DEF Spec

(* What a rolled-back scale-out leaves.  From the write of an action to    *)
(* the write of its rollback the count stays what the action made it.      *)
ScaleRegistered ==
    /\ Handlers["scale"] = "ScaleHandler"
    /\ Handlers["scale_inverse"] = "ScaleInverseHandler"

(* The arithmetic of the two handlers: the inverse takes away what the     *)
(* scale-out asked for, which is at least what it got.                     *)
LEMMA InverseUndoes ==
    ASSUME NEW from \in Nat, from >= 1, NEW to, NEW req,
           req.delta \in Int, req.cap \in Nat, req.delta > 0,
           to = ScaleOutTarget(from, req)
    PROVE  /\ 1 <= ScaleInTarget(to, req) /\ ScaleInTarget(to, req) <= from
           /\ to = from + req.delta => ScaleInTarget(to, req) = from
  BY DEF ScaleOutTarget, ScaleInTarget

HeldOK(c) ==
    \A w \in writes, d \in Depths :
        w.id = Id(c, d) /\ d <= top[c] =>
            /\ w.req = Req(c)
            /\ \/ d = top[c] /\ F(c).pc \in {"poll", "sleep", "rollback"}
               \/ d + 1 = top[c] /\ F(c).pc \in BeforeWrite
               => replicas[Req(c).dep] = w.to

ScaledOut(w) ==
    Handlers[w.action] = "ScaleHandler" =>
        w.req.delta > 0 /\ w.to = ScaleOutTarget(w.from, w.req)

UndoOK ==
    /\ ScaleRollbackUndoes
    /\ \A w \in writes : ScaledOut(w)
    /\ \A c \in Callers : HeldOK(c)

LEMMA WritesTyped ==
    ASSUME IInv, NEW w \in writes
    PROVE  /\ w.id \in Ids /\ w.depth \in Depths /\ w.from \in Nat /\ w.to \in Nat
           /\ w.req \in Requests
  <1>1. w \in WriteType
    BY DEF IInv, TypeOK
  <1> QED BY <1>1 DEF WriteType

LEMMA HeldInv ==
    ASSUME Apart, LInv, GatesOK, UndoOK, NEW c \in Callers, [Next]_vars
    PROVE  HeldOK(c)'
  <1>0. /\ IInv /\ EffectsOK /\ HeldOK(c) /\ top[c] \in Depths \cup {-1}
    BY DEF LInv, UndoOK, IInv, TypeOK
  <1>1. CASE Start(c)
    <2>1. /\ top'[c] = 0 /\ UNCHANGED writes /\ Id(c, 0)' = <<c, issued[c] + 1>>
      <3>1. top'[c] = 0 /\ UNCHANGED writes
        BY <1>0, <1>1 DEF Start, Call, IInv, TypeOK
      <3>2. frame'[c][0].n = issued[c] + 1
        BY <1>0, <1>1, StartPush
      <3> QED BY <3>1, <3>2 DEF Id
    <2>2. \A w \in writes' : w.id # Id(c, 0)'
      BY <1>0, <2>1, FreshUnmutated DEF Mutated
    <2>3. \A d \in Depths : d <= top'[c] => d = 0
      BY <2>1, DepthFacts
    <2> QED BY <2>2, <2>3 DEF HeldOK
  <1>2. CASE Run(c) /\ UNCHANGED writes /\ top'[c] >= 0
    <2>1. ASSUME NEW w \in writes, NEW d \in Depths, w.id = Id(c, d)', d <= top'[c]
          PROVE  d <= top[c] /\ w.id = Id(c, d) /\ Req(c)' = Req(c)
      <3>1. CASE Local(c)
        BY <1>0, <2>1, <3>1, LocalIds DEF Req
      <3>2. CASE Rollback(c) /\ InverseOf[F(c).action] # NoAction
        <4>1. /\ top[c] \in Depths /\ top'[c] = top[c] + 1 /\ UNCHANGED ctx
          <5>1. top'[c] = top[c] + 1 /\ UNCHANGED ctx
            BY <1>0, <3>2 DEF Rollback, IInv, TypeOK
          <5>2. top[c] \in Depths
            BY <1>0, <3>2, RollbackPush
          <5> QED BY <5>1, <5>2
        <4>2. d # top[c] + 1
          <5>1. ~ Mutated(<<c, issued[c] + 1>>)
            BY <1>0, FreshUnmutated
          <5>2. d = top[c] + 1 => Id(c, d)' = <<c, issued[c] + 1>>
            BY <1>0, <3>2, RollbackPush DEF Id
          <5> QED BY <2>1, <5>1, <5>2 DEF Mutated
        <4>3. frame'[c][d].n = frame[c][d].n
          BY <1>0, <3>2, <4>2, RollbackPush
        <4> QED BY <2>1, <4>1, <4>2, <4>3, DepthFacts DEF Id, Req
      <3>3. CASE Emit(c)
        <4>1. top[c] \in Depths /\ top'[c] = top[c] - 1
          BY <1>0, <3>3, EmitIds DEF Emit, Return, IInv, TypeOK
        <4>2. d < top[c] /\ top[c] # 0
          BY <2>1, <4>1, DepthFacts
        <4>3. frame'[c][d].n = frame[c][d].n /\ UNCHANGED ctx
          BY <1>0, <3>3, <4>2, EmitIds DEF Emit, Return
        <4> QED BY <2>1, <4>1, <4>2, <4>3, DepthFacts DEF Id, Req
      <3>4. CASE CallRaises(c)
        BY <1>0, <1>2, <3>4 DEF CallRaises, Raise, IInv, TypeOK
      <3> QED BY <1>2, <3>1, <3>2, <3>3, <3>4 DEF Run, Local
    <2>2. ASSUME NEW w \in writes, NEW d \in Depths, w.id = Id(c, d)', d <= top'[c],
                 \/ d = top'[c] /\ F(c)'.pc \in {"poll", "sleep", "rollback"}
                 \/ d + 1 = top'[c] /\ F(c)'.pc \in BeforeWrite
          PROVE  /\ UNCHANGED replicas
                 /\ \/ d = top[c] /\ F(c).pc \in {"poll", "sleep", "rollback"}
                    \/ d + 1 = top[c] /\ F(c).pc \in BeforeWrite
      <3>1. d <= top[c] /\ w.id = Id(c, d)
        BY <2>1, <2>2
      <3>2. CASE d = top'[c] /\ F(c)'.pc \in {"poll", "sleep", "rollback"}
        <4>1. Patch(c) \/ WriteReplicas(c) \/ Wake(c) \/ Poll(c)
          BY <1>0, <1>2, <3>2, Arrivals
        <4>2. UNCHANGED top /\ top[c] \in Depths
          BY <1>0, <4>1, RunningFacts DEF Patch, WriteReplicas, Wake, Poll, At
        <4>3. ~ Patch(c) /\ ~ WriteReplicas(c)
          <5>1. F(c).pc \notin {"act", "write"}
            BY <1>0, <3>1, <3>2, <4>2 DEF EffectsOK, EffectOK, BeforeWrite, Mutated, F
          <5> QED BY <5>1 DEF Patch, WriteReplicas, At
        <4> QED BY <3>2, <4>1, <4>2, <4>3 DEF Wake, Poll, At
      <3>3. CASE d + 1 = top'[c] /\ F(c)'.pc \in BeforeWrite
        <4>1. CASE F(c)'.pc = "bounds"
          <5>1. Rollback(c) /\ InverseOf[F(c).action] # NoAction
            BY <1>0, <1>2, <4>1, Arrivals
          <5>2. top'[c] = top[c] + 1 /\ F(c).pc = "rollback" /\ UNCHANGED replicas
                /\ top[c] \in Depths
            <6>1. top'[c] = top[c] + 1
              BY <1>0, <5>1 DEF Rollback, IInv, TypeOK
            <6>2. F(c).pc = "rollback" /\ UNCHANGED replicas /\ top[c] \in Depths
              BY <1>0, <5>1, RollbackPush
            <6> QED BY <6>1, <6>2
          <5> QED BY <3>3, <5>2, DepthFacts
        <4>2. CASE F(c)'.pc # "bounds"
          <5>1. CheckBounds(c) \/ Inspect(c) \/ Gate(c) \/ ReadReplicas(c)
            BY <1>0, <1>2, <3>3, <4>2, Arrivals DEF BeforeWrite
          <5> QED BY <3>3, <5>1 DEF CheckBounds, Inspect, Gate, ReadReplicas, At, BeforeWrite
        <4> QED BY <4>1, <4>2
      <3> QED BY <2>2, <3>2, <3>3
    <2>3. ASSUME NEW w \in writes, NEW d \in Depths, w.id = Id(c, d)', d <= top'[c]
          PROVE  /\ w.req = Req(c)'
                 /\ \/ d = top'[c] /\ F(c)'.pc \in {"poll", "sleep", "rollback"}
                    \/ d + 1 = top'[c] /\ F(c)'.pc \in BeforeWrite
                    => replicas'[Req(c)'.dep] = w.to
      BY <1>0, <2>1, <2>2, <2>3 DEF HeldOK
    <2> QED BY <1>2, <2>3 DEF HeldOK
  <1>3. CASE Run(c) /\ ~ UNCHANGED writes
    <2>1. At(c, "act") \/ At(c, "write")
      BY <1>0, <1>3, WriteOfFrame
    <2>2. PICK n : /\ writes' = writes \cup {NewWrite(c, replicas[Req(c).dep], n)}
                   /\ replicas'[Req(c).dep] = n
      BY <1>0, <1>3, WriteOfFrame
    <2>3. PICK new : new = NewWrite(c, replicas[Req(c).dep], n)
      OBVIOUS
    <2>4. new.id = Id(c, top[c]) /\ new.req = Req(c) /\ new.to = n
      BY <2>3 DEF NewWrite
    <2>5. /\ Local(c) /\ top[c] \in Depths /\ UNCHANGED <<top, ctx>>
          /\ \A d \in Depths : Id(c, d)' = Id(c, d)
      <3>1. Local(c)
        BY <1>3 DEF Run, Local, Rollback, Emit, CallRaises
      <3> QED BY <1>0, <3>1, LocalIds
    <2>6. F(c)'.pc \notin BeforeWrite
      <3>1. Patch(c) \/ WriteReplicas(c) \/ HandlerRaises(c)
        BY <1>3 DEF Run, CheckBounds, Inspect, Gate, ReadReplicas, Poll, Wake, Close,
           Rollback, Emit, CallRaises
      <3>2. F(c)'.pc = "poll" \/ F(c)'.pc = "close"
        BY <1>0, <2>5, <3>1, GotoFrame, SettleFrame
           DEF Patch, WriteReplicas, HandlerRaises, At
      <3> QED BY <3>2 DEF BeforeWrite
    <2>7. \A w \in writes : w.id # Id(c, top[c])
      BY <1>0, <2>1, <2>5 DEF EffectsOK, EffectOK, F, At, BeforeWrite, Mutated
    <2>8. ASSUME NEW w \in writes', NEW d \in Depths, w.id = Id(c, d), d <= top[c]
          PROVE  /\ w.req = Req(c)
                 /\ d = top[c] => replicas'[Req(c).dep] = w.to
      <3>1. CASE w \in writes
        <4>1. d # top[c]
          BY <2>7, <2>8, <3>1
        <4> QED BY <1>0, <2>8, <3>1, <4>1 DEF HeldOK
      <3>2. CASE w = new
        BY <2>2, <2>4, <3>2
      <3> QED BY <2>2, <2>3, <3>1, <3>2
    <2>9. Req(c)' = Req(c)
      BY <2>5 DEF Req
    <2> QED BY <2>5, <2>6, <2>8, <2>9 DEF HeldOK
  <1>4. CASE Tick \/ UNCHANGED vars
    <2>1. UNCHANGED <<writes, replicas, ctx, frame, top>>
      BY <1>4 DEF Tick, vars
    <2> QED BY <1>0, <2>1 DEF HeldOK, F, Req, Id
  <1>5. CASE ~ (top'[c] >= 0)
    <2>1. top'[c] \in Depths \cup {-1}
      BY <1>0, NextInv DEF IInv, TypeOK
    <2>2. \A d \in Depths : ~ (d <= top'[c])
      BY <1>5, <2>1, DepthFacts
    <2> QED BY <2>2 DEF HeldOK
  <1>6. ASSUME NEW b \in Callers, b # c, Start(b) \/ Run(b) PROVE HeldOK(c)'
    <2>1. CASE ~ (top[c] >= 0)
      <3>1. top'[c] = top[c]
        BY <1>0, <1>6, OthersStep
      <3> QED BY <1>5, <2>1, <3>1
    <2>2. CASE top[c] >= 0
      <3>1. /\ top'[c] = top[c] /\ F(c)' = F(c) /\ Req(c)' = Req(c)
            /\ \A d \in Depths : Id(c, d)' = Id(c, d)
            /\ replicas'[Req(c).dep] = replicas[Req(c).dep]
            /\ \A w \in writes' : w \in writes \/ w.id[1] = b
        BY <1>0, <1>6, <2>2, OthersStep DEF Req
      <3>2. ASSUME NEW w \in writes', NEW d \in Depths, w.id = Id(c, d)
            PROVE  w \in writes
        BY <1>6, <3>1, <3>2 DEF Id
      <3> QED BY <1>0, <3>1, <3>2 DEF HeldOK
    <2> QED BY <2>1, <2>2
  <1> QED BY <1>1, <1>2, <1>3, <1>4, <1>5, <1>6, StepKinds

LEMMA UndoInv ==
    ASSUME ScaleRegistered, Apart, LInv, ChainsOK, GatesOK, UndoOK, [Next]_vars
    PROVE  UndoOK'
  <1>0. IInv /\ EffectsOK
    BY DEF LInv
  <1>1. \A c \in Callers : HeldOK(c)'
    BY HeldInv
  <1>2. CASE UNCHANGED writes
    BY <1>1, <1>2 DEF UndoOK, ScaleRollbackUndoes, ScaledOut
  <1>3. CASE ~ UNCHANGED writes
    <2>1. PICK c \in Callers : Run(c)
      BY <1>3 DEF Next, Tick, Start, Call, vars
    <2>2. At(c, "act") \/ At(c, "write")
      BY <1>0, <1>3, <2>1, WriteOfFrame
    <2>3. PICK n : /\ writes' = writes \cup {NewWrite(c, replicas[Req(c).dep], n)}
                   /\ \/ Class(c) \in {"RestartHandler", "RollbackHandler"}
                      \/ Aim(Class(c), replicas[Req(c).dep], n, Req(c))
      BY <1>0, <1>3, <2>1, WriteOfFrame
    <2>4. PICK new, m : m = replicas[Req(c).dep] /\ new = NewWrite(c, m, n)
      OBVIOUS
    <2>5. /\ new.id = Id(c, top[c]) /\ new.req = Req(c) /\ new.from = m /\ new.to = n
          /\ new.depth = top[c] /\ Handlers[new.action] = Class(c)
          /\ new.id[1] = c /\ new.id[2] = F(c).n
      BY <2>4 DEF NewWrite, Class, Id, F
    <2>6. writes' = writes \cup {new}
      BY <2>3, <2>4
    <2>7. /\ top[c] \in {0, 1} /\ F(c).pc \in {"act", "write"} /\ F(c).n \in Nat
          /\ issued[c] = F(c).n /\ ~ (top[c] > top[c])
      <3>1. top[c] \in Depths /\ top[c] >= 0 /\ F(c) \in FrameType
            /\ ~ (top[c] > MaxRollbackDepth)
        BY <1>0, <2>2, RunningFacts DEF At
      <3>2. issued[c] = F(c).n
        BY <2>2 DEF ChainsOK, ChainOK, At, Settled
      <3> QED BY <2>2, <3>1, <3>2, DepthFacts DEF At, FrameType
    <2>8. ScaledOut(new)
      BY <2>3, <2>4, <2>5 DEF ScaledOut, Aim
    <2>9. ASSUME NEW w \in writes, w.action = "scale", w.from >= 1,
                 new.action = "scale_inverse", new.depth = w.depth + 1,
                 new.id = <<w.id[1], w.id[2] + 1>>
          PROVE  /\ 1 <= new.to /\ new.to <= w.from
                 /\ w.to = w.from + w.req.delta => new.to = w.from
      <3>1. /\ w.id \in Ids /\ w.depth \in Depths /\ w.from \in Nat /\ w.to \in Nat
            /\ w.req \in Requests
        BY <1>0, WritesTyped
      <3>2. top[c] = 1 /\ 0 + 1 = top[c] /\ 0 <= top[c] /\ 0 \in Depths /\ 1 \in Depths
        BY <2>5, <2>7, <2>9, <3>1, DepthFacts
      <3>3. w.id = Id(c, 0)
        <4>1. frame[c][1].n = frame[c][0].n + 1 /\ frame[c][0].n \in Nat
          BY <1>0, <3>2, DepthFacts DEF ChainsOK, ChainOK, IInv, TypeOK, FrameType
        <4>2. F(c).n = frame[c][1].n
          BY <3>2 DEF F
        <4>3. /\ w.id[1] = c /\ w.id[2] + 1 = F(c).n /\ w.id[2] \in Nat
              /\ w.id = <<w.id[1], w.id[2]>>
          BY <2>5, <2>9, <3>1 DEF Ids
        <4>4. w.id[2] = frame[c][0].n
          BY <4>1, <4>2, <4>3
        <4> QED BY <4>3, <4>4 DEF Id
      <3>4. w.req = Req(c) /\ m = w.to
        BY <2>4, <2>7, <3>2, <3>3 DEF UndoOK, HeldOK, BeforeWrite
      <3>5. new.to = ScaleInTarget(w.to, w.req)
        BY <2>3, <2>4, <2>5, <2>9, <3>4 DEF ScaleRegistered, Aim
      <3>6. w.req.delta > 0 /\ w.to = ScaleOutTarget(w.from, w.req)
        BY <2>9 DEF UndoOK, ScaledOut, ScaleRegistered
      <3>7. w.req.delta \in Int /\ w.req.cap \in Nat
        BY <3>1, RequestFacts
      <3>8. /\ 1 <= ScaleInTarget(w.to, w.req) /\ ScaleInTarget(w.to, w.req) <= w.from
            /\ w.to = w.from + w.req.delta => ScaleInTarget(w.to, w.req) = w.from
        BY <2>9, <3>1, <3>6, <3>7, InverseUndoes
      <3> QED BY <3>5, <3>8
    <2>10. \A v \in writes : v.id # <<new.id[1], new.id[2] + 1>>
      BY <1>0, <2>5, <2>7, FreshUnmutated DEF Mutated
    <2>11. new.id # <<new.id[1], new.id[2] + 1>>
      BY <2>5, <2>7 DEF Id
    <2>12. ScaleRollbackUndoes'
      <3> SUFFICES ASSUME NEW w \in writes', NEW v \in writes',
                          w.action = "scale", w.from >= 1,
                          v.action = "scale_inverse", v.depth = w.depth + 1,
                          v.id = <<w.id[1], w.id[2] + 1>>
                   PROVE  /\ 1 <= v.to /\ v.to <= w.from
                          /\ w.to = w.from + w.req.delta => v.to = w.from
        BY DEF ScaleRollbackUndoes
      <3>1. CASE w \in writes /\ v \in writes
        BY <3>1 DEF UndoOK, ScaleRollbackUndoes
      <3>2. CASE w \in writes /\ v = new
        BY <2>9, <3>2
      <3>3. CASE w = new
        BY <2>6, <2>10, <2>11, <3>3
      <3> QED BY <2>6, <3>1, <3>2, <3>3
    <2>13. \A w \in writes' : ScaledOut(w)
      BY <2>6, <2>8 DEF UndoOK
    <2> QED BY <1>1, <2>12, <2>13 DEF UndoOK, ScaledOut
  <1> QED BY <1>2, <1>3

(* A rolled-back scale-out, as long as calls under way are against         *)
(* different deployments: the inverse brings the deployment back to the    *)
(* count it had before, lower when the ceiling had clamped the scale-out,  *)
(* never higher and never to zero (scale.py:36-49 and 62-79,               *)
(* runner.py:186-199).                                                     *)
THEOREM RollbackUndoesWhenApart ==
    ASSUME ScaleRegistered
    PROVE  Spec /\ []Apart => []ScaleRollbackUndoes
  <1>1. Init => UndoOK
    BY DEF Init, UndoOK, ScaleRollbackUndoes, HeldOK
  <1>2. LInv /\ ChainsOK /\ Apart /\ GatesOK /\ UndoOK /\ [Next]_vars => UndoOK'
    BY UndoInv
  <1>3. UndoOK => ScaleRollbackUndoes
    BY DEF UndoOK
  <1> QED BY <1>1, <1>2, <1>3, LedgerInvariant, ChainsInvariant, GatesInvariant, PTL
       DEF Spec

(* One caller at a time, which is how the runner's own tests use it, is    *)
(* the simplest such case: then the bounds, the gate and the undoing of a  *)
(* scale-out hold without any further condition on the calls               *)
(* (runner.py:53-122).                                                     *)
COROLLARY SequentialCallsAreSafe ==
    ASSUME ScaleRegistered, \A b, c \in Callers : b = c
    PROVE  Spec => [](/\ NoActionStorm /\ ScaleDwellHonoured
                      /\ WritesWereGated /\ ScaleRollbackUndoes)
  <1>1. Apart
    BY DEF Apart
  <1> QED BY <1>1, NoStormWhenApart, DwellWhenApart, GatedWhenApart,
             RollbackUndoesWhenApart, PTL
=============================================================================
