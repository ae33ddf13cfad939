----------------------------- MODULE GatewayProofs -----------------------------
(***************************************************************************)
(* Proofs about Gateway, for every finite set of calls and every set of    *)
(* requests, policies, limits and times.                                   *)
(***************************************************************************)
EXTENDS Gateway, FiniteSetTheorems, TLAPS

(* A call past authentication has a request; one past authorization, or    *)
(* one whose outcome is a tool's, has a request of its tenant for a tool.  *)
Settled == {"new", "done"}

UnderwayCall(k) ==
    /\ k.pc \notin Settled => k.req \in Requests
    /\ k.pc = "store" => k.seen \in SigningKeys
    /\ k.pc \in {"limit", "lookup", "insert", "reread", "search"} => k.req.tenant # None
    /\ k.pc \in {"lookup", "insert", "reread"} => k.req.tool = Create
    /\ k.pc \notin {"audit", "done"} => k.result = None
    /\ k.pc = "audit" => k.result # None

Underway == \A c \in Calls : UnderwayCall(call[c])

LEMMA RequestFacts ==
    ASSUME NEW r \in Requests
    PROVE  /\ r \in RequestType
           /\ r.tool \in Tools
           /\ r.tenant # None => r.tenant \in Tenants
           /\ r.tenant # None /\ r.tool = Create => Slot(r) \in Slots
  BY GatewayAssumption DEF RequestType, Slots, Tools

LEMMA NoneFacts ==
    /\ None \notin Calls /\ None \notin SigningKeys /\ None \notin Requests
    /\ None \notin Results /\ None \notin Nat /\ None \notin Tenants
    /\ "denied" # None /\ "rate_limited" # None /\ "found" # None
    /\ "success" # None /\ "idempotent_replay" # None
  BY GatewayAssumption DEF Results, Refusals

LEMMA FreshType == Fresh \in CallType
  BY DEF Fresh, CallType, Points, Results, Refusals

(* Whatever Verify decides, only this call changes, and it goes on only if *)
(* its signature is of the key set and it names its tenant.                *)
Judged(k, r, keys) ==
    /\ k \in CallType
    /\ k.req = r /\ k.gate = "none" /\ k.pc \in {"done", "limit", "audit"}
    /\ k.pc # "done" => keys = r.signedBy /\ r.tenant # None
    /\ k.pc = "limit" => k.at = now /\ k.result = None
    /\ k.pc = "audit" => k.result = "denied"
    /\ k.pc = "done" => k.result = None

LEMMA VerifyKeeps ==
    ASSUME GTypeOK, NEW c \in Calls, NEW r \in Requests, NEW keys, Verify(c, r, keys)
    PROVE  \E k : Judged(k, r, keys) /\ call' = [call EXCEPT ![c] = k]
  <1> DEFINE refused == [Fresh EXCEPT !.pc = "done", !.req = r]
             allowed == [Fresh EXCEPT !.pc = "limit", !.req = r, !.at = now]
             denied  == [Fresh EXCEPT !.pc = "audit", !.req = r, !.result = "denied"]
  <1>1. Judged(refused, r, keys)
    BY DEF Judged, Fresh, CallType, Points, Results, Refusals
  <1>2. ASSUME keys = r.signedBy, r.tenant # None
        PROVE  Judged(allowed, r, keys) /\ Judged(denied, r, keys)
    BY <1>2 DEF Judged, Fresh, CallType, Points, Results, Refusals, GTypeOK
  <1>3. CASE keys # r.signedBy \/ r.tenant = None
    BY <1>1, <1>3 DEF Verify
  <1>4. CASE ~ (keys # r.signedBy \/ r.tenant = None)
    <2>1. call' = [call EXCEPT ![c] = allowed] \/ call' = [call EXCEPT ![c] = denied]
      BY <1>4 DEF Verify
    <2> QED BY <1>2, <1>4, <2>1
  <1> QED BY <1>3, <1>4

LEMMA CountedType ==
    ASSUME GTypeOK, Underway, NEW c \in Calls, At(c, "limit")
    PROVE  /\ Bucket(c) \in Tenants \X Tools
           /\ Counted(c) \subseteq [call : Calls, at : Nat]
  <1>1. Req(c) \in Requests /\ Req(c).tenant # None
    BY DEF Underway, UnderwayCall, At, Req, Settled
  <1>2. Bucket(c) \in Tenants \X Tools
    BY <1>1, RequestFacts DEF Bucket
  <1> QED BY <1>2 DEF GTypeOK, Counted, Pruned, CallType

-----------------------------------------------------------------------------
(* The types, step by step.                                                *)
GInv == GTypeOK /\ Underway

LEMMA InitKeeps == Init => GInv
  <1> SUFFICES ASSUME Init PROVE GInv
    OBVIOUS
  <1>1. Fresh \in CallType /\ UnderwayCall(Fresh)
    BY FreshType DEF Fresh, UnderwayCall, Settled
  <1>2. 0 \in Nat /\ {} \in SUBSET [call : Calls, at : Nat]
    OBVIOUS
  <1>3. window \in [Tenants \X Tools -> SUBSET [call : Calls, at : Nat]]
    BY Zenon, <1>2 DEF Init
  <1>4. GTypeOK
    BY <1>1, <1>3, GatewayAssumption DEF Init, GTypeOK
  <1> QED BY <1>1, <1>4 DEF Init, GInv, Underway

(* A step that moves one call and leaves the server alone.                 *)
LEMMA CallMoves ==
    ASSUME GInv, NEW c \in Calls, NEW k \in CallType, UnderwayCall(k),
           call' = [call EXCEPT ![c] = k]
    PROVE  call' \in [Calls -> CallType] /\ Underway'
  BY DEF GInv, GTypeOK, Underway, UnderwayCall

LEMMA JudgedFacts ==
    ASSUME NEW k, NEW r \in Requests, NEW keys, Judged(k, r, keys)
    PROVE  k \in CallType /\ UnderwayCall(k)
  BY NoneFacts DEF Judged, UnderwayCall, Settled

Raised(k) == [k EXCEPT !.pc = "done", !.seen = None, !.result = None]

LEMMA RaisedType ==
    ASSUME NEW k \in CallType
    PROVE  Raised(k) \in CallType /\ UnderwayCall(Raised(k))
  BY DEF Raised, CallType, Points, UnderwayCall, Settled

LEMMA RaiseKeeps ==
    ASSUME GInv, NEW c \in Calls, Raise(c)
    PROVE  call' \in [Calls -> CallType] /\ Underway'
  <1>1. call' = [call EXCEPT ![c] = Raised(@)]
    BY DEF Raise, Raised
  <1> QED BY <1>1, RaisedType, CallMoves DEF GInv, GTypeOK

LEMMA HandleKeeps ==
    ASSUME GInv, NEW c \in Calls, Handle(c)
    PROVE  GInv'
  <1> USE DEF GInv, GTypeOK
  <1>0. call[c] \in CallType /\ UnderwayCall(call[c])
    BY DEF Underway
  <1>1. CASE UseCachedKeys(c)
    <2>1. PICK r \in Arriving : Verify(c, r, jwks.keys)
      BY <1>1 DEF UseCachedKeys
    <2>2. PICK k : Judged(k, r, jwks.keys) /\ call' = [call EXCEPT ![c] = k]
      BY <2>1, VerifyKeeps DEF Arriving
    <2>3. call' \in [Calls -> CallType] /\ Underway'
      BY <2>2, JudgedFacts, CallMoves DEF Arriving
    <2> QED BY <1>1, <2>3 DEF UseCachedKeys, server
  <1>2. CASE FetchKeys(c)
    <2>1. PICK r \in Arriving :
              call' = [call EXCEPT ![c] = [@ EXCEPT !.pc = "fetch", !.req = r]]
      BY <1>2 DEF FetchKeys
    <2> DEFINE k == [call[c] EXCEPT !.pc = "fetch", !.req = r]
    <2>2. k \in CallType /\ UnderwayCall(k)
      BY <1>0, <1>2 DEF FetchKeys, At, Arriving, UnderwayCall, CallType, Points, Settled
    <2>3. call' \in [Calls -> CallType] /\ Underway'
      BY <2>1, <2>2, CallMoves
    <2> QED BY <1>2, <2>3 DEF FetchKeys, server
  <1>3. CASE IssuerAnswers(c)
    <2> DEFINE k == [call[c] EXCEPT !.pc = "store", !.at = now, !.seen = issuer]
    <2>1. k \in CallType /\ UnderwayCall(k)
      BY <1>0, <1>3 DEF IssuerAnswers, At, UnderwayCall, CallType, Points, Settled
    <2>2. call' \in [Calls -> CallType] /\ Underway'
      BY <1>3, <2>1, CallMoves DEF IssuerAnswers
    <2> QED BY <1>3, <2>2 DEF IssuerAnswers, server
  <1>4. CASE StoreKeys(c)
    <2>1. Req(c) \in Requests /\ call[c].seen \in SigningKeys
      BY <1>0, <1>4 DEF StoreKeys, At, UnderwayCall, Settled, Req
    <2>2. PICK k : Judged(k, Req(c), call[c].seen) /\ call' = [call EXCEPT ![c] = k]
      BY <1>4, <2>1, VerifyKeeps DEF StoreKeys
    <2>3. call' \in [Calls -> CallType] /\ Underway'
      BY <2>1, <2>2, JudgedFacts, CallMoves
    <2>4. now + KeyTTL \in Nat
      BY GatewayAssumption
    <2> QED BY <1>4, <2>1, <2>3, <2>4 DEF StoreKeys
  <1>5. CASE FetchFails(c)
    BY <1>5, RaiseKeeps DEF FetchFails, server
  <1>6. CASE Admit(c)
    <2>1. Bucket(c) \in Tenants \X Tools /\ Counted(c) \subseteq [call : Calls, at : Nat]
      BY <1>6, CountedType DEF Admit
    <2>2. window' \in [Tenants \X Tools -> SUBSET [call : Calls, at : Nat]]
      BY <1>6, <2>1 DEF Admit
    <2> DEFINE out == [call[c] EXCEPT !.pc = "audit", !.result = "rate_limited", !.gate = "out"]
               in  == [call[c] EXCEPT !.pc = FirstPoint(c), !.gate = "in"]
    <2>3. out \in CallType /\ UnderwayCall(out)
      BY <1>0, <1>6, NoneFacts DEF Admit, At, UnderwayCall, CallType, Points, Results,
         Refusals, Settled
    <2>4. in \in CallType /\ UnderwayCall(in)
      <3>1. Req(c) \in Requests /\ Req(c).tool \in {Search, Create}
        BY <1>0, <1>6, RequestFacts DEF Admit, At, UnderwayCall, Settled, Req, Tools
      <3> QED BY <1>0, <1>6, <3>1 DEF Admit, At, FirstPoint, UnderwayCall, CallType, Points,
              Settled, Req
    <2>5. call' = [call EXCEPT ![c] = out] \/ call' = [call EXCEPT ![c] = in]
      BY <1>6 DEF Admit
    <2>6. call' \in [Calls -> CallType] /\ Underway'
      BY <2>3, <2>4, <2>5, CallMoves
    <2> QED BY <1>6, <2>2, <2>6 DEF Admit
  <1>7. CASE RedisFails(c)
    <2>1. Bucket(c) \in Tenants \X Tools /\ Counted(c) \subseteq [call : Calls, at : Nat]
      BY <1>7, CountedType DEF RedisFails
    <2>2. window' \in [Tenants \X Tools -> SUBSET [call : Calls, at : Nat]]
      BY <1>7, <2>1 DEF RedisFails
    <2> DEFINE lost == [call[c] EXCEPT !.pc = "done", !.gate = "lost"]
    <2>3. lost \in CallType /\ UnderwayCall(lost)
      BY <1>0 DEF UnderwayCall, CallType, Points, Settled
    <2>4. Raise(c) \/ call' = [call EXCEPT ![c] = lost]
      BY <1>7 DEF RedisFails
    <2>5. call' \in [Calls -> CallType] /\ Underway'
      BY <2>3, <2>4, CallMoves, RaiseKeeps
    <2> QED BY <1>7, <2>2, <2>5 DEF RedisFails
  <1>8. CASE RunSearch(c) \/ LookUp(c) \/ Insert(c) \/ ReadBack(c)
    <2>1. Slot(Req(c)) \in Slots \/ At(c, "search")
      BY <1>0, <1>8, RequestFacts DEF RunSearch, LookUp, Insert, ReadBack, At, UnderwayCall,
         Settled, Req
    <2>2. rows' \in [Slots -> Calls \cup {None}]
      BY <1>8, <2>1 DEF RunSearch, LookUp, Insert, ReadBack, server, At
    <2> DEFINE end(o)  == [call[c] EXCEPT !.pc = "audit", !.result = o]
               move(p) == [call[c] EXCEPT !.pc = p]
    <2>3. \A o \in {"found", "success", "idempotent_replay"} :
              end(o) \in CallType /\ UnderwayCall(end(o))
      BY <1>0, <1>8, NoneFacts DEF RunSearch, LookUp, Insert, ReadBack, At, UnderwayCall,
         CallType, Points, Results, Settled
    <2>4. ~ At(c, "search") =>
              \A p \in {"insert", "reread"} : move(p) \in CallType /\ UnderwayCall(move(p))
      BY <1>0, <1>8 DEF RunSearch, LookUp, Insert, ReadBack, At, UnderwayCall, CallType,
         Points, Settled
    <2>5. \/ \E o \in {"found", "success", "idempotent_replay"} :
                 call' = [call EXCEPT ![c] = end(o)]
          \/ ~ At(c, "search") /\ \E p \in {"insert", "reread"} :
                 call' = [call EXCEPT ![c] = move(p)]
          \/ Raise(c)
      BY <1>8 DEF RunSearch, LookUp, Insert, ReadBack, Conclude, Goto, At
    <2>6. call' \in [Calls -> CallType] /\ Underway'
      BY <2>3, <2>4, <2>5, CallMoves, RaiseKeeps
    <2> QED BY <1>8, <2>2, <2>6 DEF RunSearch, LookUp, Insert, ReadBack, server
  <1>9. CASE ToolFails(c)
    BY <1>9, RaiseKeeps DEF ToolFails, server
  <1>10. CASE InsertIsLost(c)
    <2>1. Slot(Req(c)) \in Slots
      BY <1>0, <1>10, RequestFacts DEF InsertIsLost, At, UnderwayCall, Settled, Req
    <2> QED BY <1>10, <2>1, RaiseKeeps DEF InsertIsLost
  <1>11. CASE Audit(c) \/ AuditFails(c)
    <2>1. call[c].result \in Results
      BY <1>0, <1>11 DEF Audit, AuditFails, At, UnderwayCall, CallType
    <2>2. trail' \subseteq [call : Calls, outcome : Results]
      BY <1>11, <2>1 DEF Audit, AuditFails
    <2> DEFINE k == [call[c] EXCEPT !.pc = "done"]
    <2>3. k \in CallType /\ UnderwayCall(k)
      BY <1>0 DEF UnderwayCall, CallType, Points, Settled
    <2>4. call' \in [Calls -> CallType] /\ Underway'
      BY <1>11, <2>3, CallMoves, RaiseKeeps DEF Audit, AuditFails, Goto
    <2> QED BY <1>11, <2>2, <2>4 DEF Audit, AuditFails
  <1> QED
    BY <1>1, <1>2, <1>3, <1>4, <1>5, <1>6, <1>7, <1>8, <1>9, <1>10, <1>11 DEF Handle

LEMMA NextKeeps == GInv /\ [Next]_vars => GInv'
  <1> SUFFICES ASSUME GInv, [Next]_vars PROVE GInv'
    OBVIOUS
  <1> USE DEF GInv, GTypeOK
  <1>1. ASSUME NEW c \in Calls, Handle(c) PROVE GInv'
    BY <1>1, HandleKeeps
  <1>2. CASE Restart
    <2>1. \A c \in Calls : call'[c] \in {call[c], Raised(call[c])}
      BY <1>2 DEF Restart, Raised
    <2>2. call' = [c \in Calls |-> call'[c]]
      BY <1>2 DEF Restart
    <2>3. call' \in [Calls -> CallType]
      BY <2>1, <2>2, RaisedType
    <2>4. Underway'
      BY <2>1, RaisedType DEF Underway
    <2> QED BY <1>2, <2>3, <2>4 DEF Restart
  <1>3. CASE RotateKeys
    BY <1>3 DEF RotateKeys, Underway, UnderwayCall
  <1>4. CASE Tick
    BY <1>4 DEF Tick, server, Underway, UnderwayCall
  <1>5. CASE UNCHANGED vars
    BY <1>5 DEF vars, Underway, UnderwayCall
  <1> QED BY <1>1, <1>2, <1>3, <1>4, <1>5 DEF Next

(* The types of Gateway (GTypeOK).                                         *)
THEOREM GatewayTypes == Spec => []GTypeOK
  <1>1. Spec => []GInv
    BY InitKeeps, NextKeeps, PTL DEF Spec
  <1> QED BY <1>1, PTL DEF GInv
-----------------------------------------------------------------------------
(* What an answer claims about its call, and what the rows must then say.  *)
Claimed(c, o) ==
    LET r == call[c].req
    IN  /\ o \in {"success", "idempotent_replay"} =>
                r \in Requests /\ r.tenant # None /\ r.tool = Create
        /\ o = "success" => rows[Slot(r)] = c
        /\ o = "idempotent_replay" => rows[Slot(r)] \notin {None, c}

AnswersHold   == \A c \in Calls : Claimed(c, call[c].result)
OneRowPerCall == \A c \in Calls : call[c].pc \notin {"audit", "done"} =>
                     \A s \in Slots : rows[s] # c
TrailHolds    == \A e \in trail : call[e.call].pc = "done" /\ Claimed(e.call, e.outcome)
Answered      == \A c \in Calls :
                     At(c, "done") /\ call[c].result # None =>
                         {e \in trail : e.call = c} = {[call |-> c, outcome |-> call[c].result]}

RowsInv == AnswersHold /\ OneRowPerCall /\ TrailHolds /\ Answered

(* The steps of a call, by what they do to its answer, the rows and the    *)
(* trail.                                                                  *)
Alone(c) == \A d \in Calls \ {c} : call'[d] = call[d]

Quiet(c) ==
    /\ call[c].pc \notin {"audit", "done"}
    /\ Alone(c)
    /\ call'[c].result \notin {"success", "idempotent_replay"}
    /\ call'[c].pc = "done" => call'[c].result = None
    /\ UNCHANGED <<rows, trail>>

Filled(c) ==
    /\ At(c, "insert") /\ Alone(c)
    /\ rows[Slot(Req(c))] = None
    /\ rows' = [rows EXCEPT ![Slot(Req(c))] = c]
    /\ call'[c].req = Req(c)
    /\ \/ call'[c].pc = "audit" /\ call'[c].result = "success"
       \/ call'[c].pc = "done" /\ call'[c].result = None
    /\ UNCHANGED trail

Replayed(c) ==
    /\ call[c].pc \in {"lookup", "reread"} /\ Alone(c)
    /\ rows[Slot(Req(c))] # None
    /\ call'[c].req = Req(c)
    /\ call'[c].pc = "audit" /\ call'[c].result = "idempotent_replay"
    /\ UNCHANGED <<rows, trail>>

Ending(c) ==
    /\ At(c, "audit") /\ Alone(c)
    /\ call'[c].req = Req(c) /\ call'[c].pc = "done"
    /\ \/ /\ call'[c].result = call[c].result
          /\ trail' = trail \cup {[call |-> c, outcome |-> call[c].result]}
       \/ /\ call'[c].result = None
          /\ trail' \in {trail, trail \cup {[call |-> c, outcome |-> call[c].result]}}
    /\ UNCHANGED rows

LEMMA StepKinds ==
    ASSUME GInv, NEW c \in Calls, Handle(c)
    PROVE  Quiet(c) \/ Filled(c) \/ Replayed(c) \/ Ending(c)
  <1> USE DEF GInv, GTypeOK
  <1>0. call[c] \in CallType /\ UnderwayCall(call[c])
    BY DEF Underway
  <1>a. ASSUME Raise(c), call[c].pc \notin {"audit", "done"}, UNCHANGED <<rows, trail>>
        PROVE  Quiet(c)
    BY <1>0, <1>a, NoneFacts DEF Raise, Quiet, Alone, CallType
  <1>b. ASSUME NEW r \in Requests, NEW keys, Verify(c, r, keys),
               call[c].pc \notin {"audit", "done"}, UNCHANGED <<rows, trail>>
        PROVE  Quiet(c)
    <2>1. PICK k : Judged(k, r, keys) /\ call' = [call EXCEPT ![c] = k]
      BY <1>b, VerifyKeeps
    <2>2. Alone(c) /\ call'[c] = k
      BY <2>1 DEF Alone
    <2> QED BY <1>b, <2>1, <2>2, NoneFacts DEF Judged, Quiet
  <1>1. CASE UseCachedKeys(c)
    BY <1>1, <1>b DEF UseCachedKeys, At, Arriving, server
  <1>2. CASE FetchKeys(c)
    BY <1>0, <1>2, NoneFacts DEF FetchKeys, At, Arriving, server, Quiet, Alone, UnderwayCall,
       CallType
  <1>3. CASE IssuerAnswers(c)
    BY <1>0, <1>3, NoneFacts DEF IssuerAnswers, At, server, Quiet, Alone, UnderwayCall, CallType
  <1>4. CASE StoreKeys(c)
    BY <1>0, <1>4, <1>b DEF StoreKeys, At, Req, UnderwayCall, Settled
  <1>5. CASE FetchFails(c)
    BY <1>5, <1>a DEF FetchFails, server
  <1>6. CASE Admit(c)
    <2>1. call[c].result = None
      BY <1>0, <1>6 DEF Admit, At, UnderwayCall
    <2> QED BY <1>0, <1>6, <2>1, NoneFacts DEF Admit, At, Quiet, Alone, FirstPoint, CallType
  <1>7. CASE RedisFails(c)
    <2>1. call[c].result = None
      BY <1>0, <1>7 DEF RedisFails, At, UnderwayCall
    <2>2. CASE Raise(c)
      BY <1>7, <2>2, <1>a DEF RedisFails, At
    <2>3. CASE call' = [call EXCEPT ![c].pc = "done", ![c].gate = "lost"]
      BY <1>0, <1>7, <2>1, <2>3, NoneFacts DEF RedisFails, At, Quiet, Alone, CallType
    <2> QED BY <1>7, <2>2, <2>3 DEF RedisFails
  <1>8. CASE RunSearch(c)
    BY <1>0, <1>8 DEF RunSearch, Conclude, At, server, Quiet, Alone, CallType
  <1>9. CASE LookUp(c)
    BY <1>0, <1>9, NoneFacts DEF LookUp, Conclude, Goto, At, Req, server, Quiet, Replayed,
       Alone, UnderwayCall, CallType
  <1>10. CASE Insert(c)
    BY <1>0, <1>10, NoneFacts DEF Insert, Conclude, Goto, At, Req, Quiet, Filled, Alone,
       UnderwayCall, CallType
  <1>11. CASE ReadBack(c)
    <2>1. CASE Raise(c)
      BY <1>11, <2>1, <1>a DEF ReadBack, server, At
    <2>2. CASE rows[Slot(Req(c))] # None
      BY <1>0, <1>11, <2>2 DEF ReadBack, Conclude, At, Req, server, Replayed, Alone, CallType
    <2> QED BY <1>11, <2>1, <2>2 DEF ReadBack
  <1>12. CASE ToolFails(c)
    BY <1>12, <1>a DEF ToolFails, server
  <1>13. CASE InsertIsLost(c)
    BY <1>0, <1>13 DEF InsertIsLost, Raise, At, Req, Filled, Alone, CallType
  <1>14. CASE Audit(c)
    BY <1>0, <1>14 DEF Audit, Goto, At, Req, Ending, Alone, CallType
  <1>15. CASE AuditFails(c)
    BY <1>0, <1>15 DEF AuditFails, Raise, At, Req, Ending, Alone, CallType
  <1> QED
    BY <1>1, <1>2, <1>3, <1>4, <1>5, <1>6, <1>7, <1>8, <1>9, <1>10, <1>11, <1>12, <1>13,
       <1>14, <1>15 DEF Handle

-----------------------------------------------------------------------------
(* Rows are never overwritten, so a claim once true of a call stays true.  *)
LEMMA ClaimsLast ==
    ASSUME NEW c \in Calls, NEW o, Claimed(c, o), call'[c].req = call[c].req,
           \A s \in Slots : rows[s] # None => rows'[s] = rows[s]
    PROVE  Claimed(c, o)'
  <1> DEFINE r == call[c].req
  <1>1. o \in {"success", "idempotent_replay"} => Slot(r) \in Slots /\ rows[Slot(r)] # None
    BY RequestFacts, NoneFacts DEF Claimed
  <1> QED BY <1>1 DEF Claimed

LEMMA RowsHandle ==
    ASSUME GInv, RowsInv, NEW c \in Calls, Handle(c)
    PROVE  RowsInv'
  <1> USE DEF GInv, GTypeOK
  <1>0. call[c] \in CallType /\ UnderwayCall(call[c]) /\ GInv'
    BY HandleKeeps DEF Underway
  <1>1. CASE Quiet(c)
    <2>1. AnswersHold'
      BY <1>1, ClaimsLast DEF Quiet, Alone, RowsInv, AnswersHold, Claimed
    <2>2. OneRowPerCall'
      BY <1>1 DEF Quiet, Alone, RowsInv, OneRowPerCall
    <2>3. TrailHolds'
      BY <1>1, ClaimsLast DEF Quiet, Alone, RowsInv, TrailHolds, Claimed
    <2>4. Answered'
      BY <1>1 DEF Quiet, Alone, RowsInv, Answered, At
    <2> QED BY <2>1, <2>2, <2>3, <2>4 DEF RowsInv
  <1>2. CASE Filled(c)
    <2>0. Req(c) \in Requests /\ Req(c).tenant # None /\ Req(c).tool = Create
      BY <1>0, <1>2 DEF Filled, At, Req, UnderwayCall, Settled
    <2>1. Slot(Req(c)) \in Slots
      BY <2>0, RequestFacts
    <2>2. \A s \in Slots : rows[s] # None => rows'[s] = rows[s]
      BY <1>2, <2>1 DEF Filled
    <2>3. rows'[Slot(Req(c))] = c
      BY <1>2, <2>1 DEF Filled
    <2>4. ASSUME NEW d \in Calls PROVE Claimed(d, call[d].result)'
      <3>1. CASE d # c
        BY <1>2, <2>2, <3>1, ClaimsLast DEF Filled, Alone, RowsInv, AnswersHold
      <3>2. CASE d = c
        BY <1>2, <2>0, <2>3, <3>2, NoneFacts DEF Filled, Claimed, Req
      <3> QED BY <3>1, <3>2
    <2>5. OneRowPerCall'
      BY <1>2, <2>1 DEF Filled, Alone, RowsInv, OneRowPerCall
    <2>6. TrailHolds'
      BY <1>2, <2>2, ClaimsLast DEF Filled, Alone, At, RowsInv, TrailHolds
    <2>7. Answered'
      BY <1>2 DEF Filled, Alone, RowsInv, Answered, At
    <2> QED BY <2>4, <2>5, <2>6, <2>7 DEF RowsInv, AnswersHold
  <1>3. CASE Replayed(c)
    <2>0. Req(c) \in Requests /\ Req(c).tenant # None /\ Req(c).tool = Create
      BY <1>0, <1>3 DEF Replayed, Req, UnderwayCall, Settled
    <2>1. Slot(Req(c)) \in Slots /\ rows[Slot(Req(c))] # c
      BY <1>3, <2>0, RequestFacts DEF Replayed, RowsInv, OneRowPerCall
    <2>2. ASSUME NEW d \in Calls PROVE Claimed(d, call[d].result)'
      <3>1. CASE d # c
        BY <1>3, <3>1, ClaimsLast DEF Replayed, Alone, RowsInv, AnswersHold
      <3>2. CASE d = c
        BY <1>3, <2>0, <2>1, <3>2 DEF Replayed, Claimed, Req
      <3> QED BY <3>1, <3>2
    <2>3. OneRowPerCall'
      BY <1>3 DEF Replayed, Alone, RowsInv, OneRowPerCall
    <2>4. TrailHolds'
      BY <1>3, ClaimsLast DEF Replayed, Alone, RowsInv, TrailHolds
    <2>5. Answered'
      BY <1>3 DEF Replayed, Alone, RowsInv, Answered, At
    <2> QED BY <2>2, <2>3, <2>4, <2>5 DEF RowsInv, AnswersHold
  <1>4. CASE Ending(c)
    <2>1. ASSUME NEW d \in Calls, NEW o, Claimed(d, o) PROVE Claimed(d, o)'
      BY <1>4, <2>1, ClaimsLast DEF Ending, Alone, Req
    <2>2. Claimed(c, None)
      BY NoneFacts DEF Claimed
    <2>3. AnswersHold'
      BY <1>4, <2>1, <2>2 DEF Ending, Alone, RowsInv, AnswersHold
    <2>4. OneRowPerCall'
      BY <1>4 DEF Ending, Alone, RowsInv, OneRowPerCall
    <2>5. TrailHolds'
      BY <1>4, <2>1 DEF Ending, Alone, At, RowsInv, TrailHolds, AnswersHold
    <2>6. ASSUME NEW d \in Calls, At(d, "done")', call'[d].result # None
          PROVE  {e \in trail' : e.call = d} = {[call |-> d, outcome |-> call'[d].result]}
      <3>1. CASE d # c
        <4>1. {e \in trail' : e.call = d} = {e \in trail : e.call = d}
          BY <1>4, <3>1 DEF Ending
        <4> QED BY <1>4, <2>6, <3>1, <4>1 DEF Ending, Alone, At, RowsInv, Answered
      <3>2. CASE d = c
        BY <1>4, <2>6, <3>2 DEF Ending, At, RowsInv, TrailHolds
      <3> QED BY <3>1, <3>2
    <2> QED BY <2>3, <2>4, <2>5, <2>6 DEF RowsInv, Answered
  <1> QED BY <1>1, <1>2, <1>3, <1>4, StepKinds

LEMMA RowsNext == GInv /\ RowsInv /\ [Next]_vars => RowsInv'
  <1> SUFFICES ASSUME GInv, RowsInv, [Next]_vars PROVE RowsInv'
    OBVIOUS
  <1> USE DEF GInv, GTypeOK
  <1>1. ASSUME NEW c \in Calls, Handle(c) PROVE RowsInv'
    BY <1>1, RowsHandle
  <1>2. CASE Restart
    <2>1. \A c \in Calls :
              \/ call'[c] = call[c]
              \/ /\ call[c].pc # "done" /\ call'[c].pc = "done"
                 /\ call'[c].req = call[c].req /\ call'[c].result = None
      BY <1>2 DEF Restart, CallType
    <2>2. AnswersHold'
      <3>1. \A c \in Calls : Claimed(c, None)'
        BY NoneFacts DEF Claimed
      <3>2. ASSUME NEW c \in Calls, NEW o, Claimed(c, o) PROVE Claimed(c, o)'
        BY <1>2, <2>1, <3>2, ClaimsLast DEF Restart
      <3> QED BY <2>1, <3>1, <3>2 DEF RowsInv, AnswersHold
    <2>3. OneRowPerCall'
      BY <1>2, <2>1 DEF Restart, RowsInv, OneRowPerCall
    <2>4. TrailHolds'
      BY <1>2, <2>1 DEF Restart, RowsInv, TrailHolds, Claimed
    <2>5. Answered'
      BY <1>2, <2>1 DEF Restart, RowsInv, Answered, At
    <2> QED BY <2>2, <2>3, <2>4, <2>5 DEF RowsInv
  <1>3. CASE RotateKeys \/ Tick \/ UNCHANGED vars
    BY <1>3 DEF RotateKeys, Tick, server, vars, RowsInv, AnswersHold, OneRowPerCall, TrailHolds,
       Answered, Claimed, At
  <1> QED BY <1>1, <1>2, <1>3 DEF Next

LEMMA RowsInit == Init => RowsInv
  BY NoneFacts DEF Init, Fresh, RowsInv, AnswersHold, OneRowPerCall, TrailHolds, Answered,
     Claimed, At

(* The audit trail and the rows agree, and every answer given has exactly  *)
(* its own event (TrailMatchesRows).                                       *)
THEOREM TrailIsTrue == Spec => []TrailMatchesRows
  <1>1. GInv /\ RowsInv => TrailMatchesRows
    BY DEF GInv, RowsInv, TrailHolds, Answered, Claimed, TrailMatchesRows, Req
  <1> QED BY <1>1, InitKeeps, NextKeeps, RowsInit, RowsNext, PTL DEF Spec

-----------------------------------------------------------------------------
(* The refinement.                                                         *)
LEMMA ToldOf ==
    ASSUME NEW c \in Calls
    PROVE  Told[c] = IF At(c, "done") /\ call[c].result \in {"success", "idempotent_replay"}
                     THEN [slot |-> Slot(Req(c)), owner |-> rows[Slot(Req(c))],
                           created |-> call[c].result = "success"]
                     ELSE None
  BY DEF Told

LEMMA ToldDomain == Told = [c \in Calls |-> Told[c]]
  BY DEF Told

(* What a call was told stays the same while its own state does.           *)
LEMMA ToldLasts ==
    ASSUME GInv, RowsInv, NEW c \in Calls, call'[c] = call[c],
           \A s \in Slots : rows[s] # None => rows'[s] = rows[s]
    PROVE  Told'[c] = Told[c]
  <1>1. CASE At(c, "done") /\ call[c].result \in {"success", "idempotent_replay"}
    <2>1. Slot(Req(c)) \in Slots /\ rows[Slot(Req(c))] # None
      BY <1>1, RequestFacts, NoneFacts DEF RowsInv, AnswersHold, Claimed, Req
    <2> QED BY <1>1, <2>1 DEF Told, At, Req
  <1>2. CASE ~ (At(c, "done") /\ call[c].result \in {"success", "idempotent_replay"})
    BY <1>2 DEF Told, At, Req
  <1> QED BY <1>1, <1>2

LEMMA HandleImplements ==
    ASSUME GInv, RowsInv, NEW c \in Calls, Handle(c)
    PROVE  [Once!Next]_<<rows, Told>>
  <1> USE DEF GInv, GTypeOK
  <1>0. call[c] \in CallType /\ UnderwayCall(call[c])
    BY DEF Underway
  <1>1. CASE Quiet(c)
    <2>1. Told'[c] = Told[c]
      BY <1>1, NoneFacts DEF Quiet, Told, At
    <2>2. \A d \in Calls : Told'[d] = Told[d]
      BY <1>1, <2>1, ToldLasts DEF Quiet, Alone
    <2>3. Told' = Told
      BY <2>2 DEF Told
    <2> QED BY <1>1, <2>3 DEF Quiet
  <1>2. CASE Filled(c)
    <2>1. Slot(Req(c)) \in Slots
      BY <1>0, <1>2, RequestFacts DEF Filled, At, Req, UnderwayCall, Settled
    <2>2. Told[c] = None /\ Told'[c] = None
      BY <1>2, NoneFacts DEF Filled, Told, At
    <2>3. \A d \in Calls : Told'[d] = Told[d]
      BY <1>2, <2>1, <2>2, ToldLasts DEF Filled, Alone
    <2>4. Told' = Told
      BY <2>3 DEF Told
    <2>5. \A s \in Slots : rows[s] # c
      BY <1>2 DEF Filled, At, RowsInv, OneRowPerCall
    <2>6. Once!Fill(c, Slot(Req(c)))
      BY <1>2, <2>2, <2>4, <2>5 DEF Filled, Once!Fill
    <2> QED BY <2>1, <2>6 DEF Once!Next
  <1>3. CASE Replayed(c)
    <2>1. Told[c] = None /\ Told'[c] = None
      BY <1>3 DEF Replayed, Told, At
    <2>2. \A d \in Calls : Told'[d] = Told[d]
      BY <1>3, <2>1, ToldLasts DEF Replayed, Alone
    <2>3. Told' = Told
      BY <2>2 DEF Told
    <2> QED BY <1>3, <2>3 DEF Replayed
  <1>4. CASE Ending(c)
    <2> DEFINE s == Slot(Req(c))
    <2>1. \A d \in Calls \ {c} : Told'[d] = Told[d]
      BY <1>4, ToldLasts DEF Ending, Alone
    <2>2. Told[c] = None
      BY <1>4 DEF Ending, Told, At
    <2>3. CASE call'[c].result \in {"success", "idempotent_replay"}
      <3>1. call[c].result = call'[c].result
        BY <1>4, <2>3, NoneFacts DEF Ending
      <3>2. s \in Slots /\ rows[s] # None /\ (rows[s] = c <=> call[c].result = "success")
        BY <2>3, <3>1, RequestFacts, NoneFacts DEF RowsInv, AnswersHold, Claimed, Req
      <3>3. Told'[c] = [slot |-> s, owner |-> rows[s], created |-> rows[s] = c]
        BY <1>4, <2>3, <3>1, <3>2 DEF Ending, Told, At, Req
      <3>4. Told' = [Told EXCEPT ![c] = [slot |-> s, owner |-> rows[s], created |-> rows[s] = c]]
        BY <2>1, <3>3 DEF Told
      <3>5. Once!Tell(c, s)
        BY <1>4, <2>2, <3>2, <3>4 DEF Ending, Once!Tell
      <3> QED BY <3>2, <3>5 DEF Once!Next
    <2>4. CASE call'[c].result \notin {"success", "idempotent_replay"}
      <3>1. Told'[c] = None
        BY <2>4 DEF Told
      <3>2. Told' = Told
        BY <2>1, <2>2, <3>1 DEF Told
      <3> QED BY <1>4, <3>2 DEF Ending
    <2> QED BY <2>3, <2>4
  <1> QED BY <1>1, <1>2, <1>3, <1>4, StepKinds

LEMMA NextImplements ==
    GInv /\ RowsInv /\ [Next]_vars => [Once!Next]_<<rows, Told>>
  <1> SUFFICES ASSUME GInv, RowsInv, [Next]_vars PROVE [Once!Next]_<<rows, Told>>
    OBVIOUS
  <1> USE DEF GInv, GTypeOK
  <1>1. ASSUME NEW c \in Calls, Handle(c) PROVE [Once!Next]_<<rows, Told>>
    BY <1>1, HandleImplements
  <1>2. CASE Restart
    <2>1. ASSUME NEW c \in Calls PROVE Told'[c] = Told[c]
      <3>1. CASE call[c].pc \in {"new", "done"}
        BY <1>2, <3>1, ToldLasts DEF Restart
      <3>2. CASE call[c].pc \notin {"new", "done"}
        <4>1. call'[c].result = None
          BY <1>2, <3>2 DEF Restart, CallType
        <4> QED BY <3>2, <4>1, NoneFacts DEF Told, At
      <3> QED BY <3>1, <3>2
    <2>2. Told' = Told
      BY <2>1 DEF Told
    <2> QED BY <1>2, <2>2 DEF Restart
  <1>3. CASE RotateKeys \/ Tick \/ UNCHANGED vars
    <2>1. Told' = Told
      BY <1>3 DEF RotateKeys, Tick, server, vars, Told, At, Req
    <2> QED BY <1>3, <2>1 DEF RotateKeys, Tick, server, vars
  <1> QED BY <1>1, <1>2, <1>3 DEF Next

(* Idempotent creation implements the promise of AtMostOnce                *)
(* (ImplementsAtMostOnce): for any number of re-issued calls, lost answers,*)
(* lost commits and restarts, a slot is filled at most once, and whoever   *)
(* is answered is told the truth about who filled it.                      *)
THEOREM AtMostOnceHolds == Spec => ImplementsAtMostOnce
  <1>1. Init => Once!Init
    <2> SUFFICES ASSUME Init PROVE Once!Init
      OBVIOUS
    <2>1. Told = [c \in Calls |-> None]
      BY NoneFacts DEF Init, Fresh, Told, At
    <2> QED BY <2>1 DEF Init, Once!Init
  <1> QED
    BY <1>1, InitKeeps, NextKeeps, RowsInit, RowsNext, NextImplements, PTL
    DEF Spec, ImplementsAtMostOnce, Once!Spec
-----------------------------------------------------------------------------
(* How long a retired key may still be believed: a cached key set outlives *)
(* the key by KeyTTL, and by the time the answer was on its way.           *)
KeysInv ==
    /\ retired[issuer] = None
    /\ jwks.expiry <= now + KeyTTL
    /\ \A k \in SigningKeys : retired[k] # None => retired[k] <= now
    /\ jwks.keys # None /\ retired[jwks.keys] # None =>
           jwks.expiry <= retired[jwks.keys] + KeyTTL + FetchTime
    /\ \A c \in Calls :
        At(c, "store") =>
            /\ call[c].at <= now /\ now <= call[c].at + FetchTime
            /\ retired[call[c].seen] # None => call[c].at <= retired[call[c].seen]

LEMMA KeysInit == Init => KeysInv
  BY GatewayAssumption DEF Init, KeysInv, Fresh, At

LEMMA Times ==
    /\ Window \in Nat /\ FetchTime \in Nat /\ MaxLag \in Nat /\ MaxTime \in Nat
    /\ KeyTTL \in Nat /\ KeyTTL > 0
  BY GatewayAssumption

(* Apart from IssuerAnswers, no step of a call leads to "store".           *)
LEMMA OthersDoNotFetch ==
    ASSUME GInv, NEW c \in Calls, Handle(c), ~ IssuerAnswers(c)
    PROVE  /\ call'[c].pc # "store" /\ UNCHANGED <<now, issuer, retired>>
           /\ \A d \in Calls \ {c} : call'[d] = call[d]
           /\ ~ StoreKeys(c) => UNCHANGED jwks
  <1> USE DEF GInv, GTypeOK
  <1>1. CASE UseCachedKeys(c) \/ StoreKeys(c)
    <2>1. PICK r, keys : r \in Requests /\ Verify(c, r, keys)
      BY <1>1 DEF UseCachedKeys, StoreKeys, Arriving, Underway, UnderwayCall, At, Req, Settled
    <2>2. PICK k : Judged(k, r, keys) /\ call' = [call EXCEPT ![c] = k]
      BY <2>1, VerifyKeeps
    <2>3. call'[c] = k /\ k.pc # "store" /\ \A d \in Calls \ {c} : call'[d] = call[d]
      BY <2>2 DEF Judged
    <2> QED BY <1>1, <2>3 DEF UseCachedKeys, StoreKeys, server
  <1>2. CASE FetchKeys(c)
    BY <1>2 DEF FetchKeys, server, Arriving, CallType
  <1>3. CASE FetchFails(c)
    BY <1>3 DEF FetchFails, Raise, server, CallType
  <1>4. CASE Admit(c)
    BY <1>4 DEF Admit, FirstPoint, CallType
  <1>5. CASE RedisFails(c)
    BY <1>5 DEF RedisFails, Raise, CallType
  <1>6. CASE RunSearch(c) \/ LookUp(c)
    BY <1>6 DEF RunSearch, LookUp, Conclude, Goto, server, CallType
  <1>7. CASE Insert(c) \/ ReadBack(c)
    BY <1>7 DEF Insert, ReadBack, Conclude, Goto, Raise, server, CallType
  <1>8. CASE ToolFails(c) \/ InsertIsLost(c)
    BY <1>8 DEF ToolFails, InsertIsLost, Raise, server, CallType
  <1>9. CASE Audit(c) \/ AuditFails(c)
    BY <1>9 DEF Audit, AuditFails, Goto, Raise, CallType
  <1> QED
    BY <1>1, <1>2, <1>3, <1>4, <1>5, <1>6, <1>7, <1>8, <1>9 DEF Handle

LEMMA KeysNext == GInv /\ KeysInv /\ [Next]_vars => KeysInv'
  <1> SUFFICES ASSUME GInv, KeysInv, [Next]_vars PROVE KeysInv'
    OBVIOUS
  <1> USE Times DEF GInv, GTypeOK
  <1>0. \A c \in Calls : call[c] \in CallType /\ UnderwayCall(call[c])
    BY DEF Underway
  <1>1. ASSUME NEW c \in Calls, Handle(c), ~ IssuerAnswers(c) PROVE KeysInv'
    <2>1. /\ call'[c].pc # "store" /\ UNCHANGED <<now, issuer, retired>>
          /\ \A d \in Calls \ {c} : call'[d] = call[d]
          /\ ~ StoreKeys(c) => UNCHANGED jwks
      BY <1>1, OthersDoNotFetch
    <2>2. \A d \in Calls :
              At(d, "store")' =>
                  /\ call'[d].at <= now' /\ now' <= call'[d].at + FetchTime
                  /\ retired'[call'[d].seen] # None => call'[d].at <= retired'[call'[d].seen]
      BY <2>1 DEF KeysInv, At
    <2>3. CASE ~ StoreKeys(c)
      BY <2>1, <2>2, <2>3 DEF KeysInv
    <2>4. CASE StoreKeys(c)
      <3>1. jwks' = [keys |-> call[c].seen, expiry |-> now + KeyTTL] /\ At(c, "store")
        BY <2>4 DEF StoreKeys
      <3>2. call[c].at \in Nat /\ call[c].seen \in SigningKeys
        BY <1>0, <3>1 DEF CallType, UnderwayCall, At
      <3>3. retired[call[c].seen] # None =>
                now + KeyTTL <= retired[call[c].seen] + KeyTTL + FetchTime
        BY <3>1, <3>2 DEF KeysInv
      <3> QED BY <2>1, <2>2, <3>1, <3>2, <3>3 DEF KeysInv
    <2> QED BY <2>3, <2>4
  <1>2. ASSUME NEW c \in Calls, IssuerAnswers(c) PROVE KeysInv'
    <2>1. /\ call'[c].at = now /\ call'[c].seen = issuer
          /\ \A d \in Calls \ {c} : call'[d] = call[d]
          /\ UNCHANGED <<now, issuer, retired, jwks>>
      BY <1>2 DEF IssuerAnswers, server, CallType
    <2> QED BY <2>1 DEF KeysInv, At
  <1>3. CASE Restart
    <2>1. \A c \in Calls : At(c, "store")' => call'[c] = call[c]
      BY <1>3 DEF Restart, At, CallType
    <2>2. jwks'.keys = None /\ jwks'.expiry = 0 /\ UNCHANGED <<now, issuer, retired>>
      BY <1>3 DEF Restart
    <2> QED BY <2>1, <2>2 DEF KeysInv, At
  <1>4. CASE RotateKeys
    <2>1. PICK k \in SigningKeys \ {issuer} :
              retired[k] = None /\ issuer' = k /\ retired' = [retired EXCEPT ![issuer] = now]
      BY <1>4 DEF RotateKeys
    <2>2. UNCHANGED <<now, jwks, call>>
      BY <1>4 DEF RotateKeys
    <2>3. \A c \in Calls : At(c, "store") => call[c].seen \in SigningKeys /\ call[c].at \in Nat
      BY <1>0 DEF At, CallType, UnderwayCall
    <2> QED BY <2>1, <2>2, <2>3 DEF KeysInv, At
  <1>5. CASE Tick
    <2>1. \A c \in Calls : At(c, "store") => call[c].at \in Nat /\ now < call[c].at + FetchTime
      BY <1>0, <1>5 DEF Tick, CallType
    <2> QED BY <1>5, <2>1 DEF Tick, server, KeysInv, At
  <1>6. CASE UNCHANGED vars
    BY <1>6 DEF vars, KeysInv, At
  <1> QED BY <1>1, <1>2, <1>3, <1>4, <1>5, <1>6 DEF Next

(* The step by which a call is authenticated.                              *)
LEMMA Authenticates ==
    ASSUME GInv, [Next]_vars, NEW c \in Calls,
           call[c].pc \in {"new", "store"}, call'[c].pc \in {"limit", "audit"}
    PROVE  UseCachedKeys(c) \/ StoreKeys(c)
  <1> USE DEF GInv, GTypeOK
  <1>1. CASE \E d \in Calls \ {c} : Handle(d)
    <2>1. PICK d \in Calls \ {c} : Handle(d)
      BY <1>1
    <2>2. call'[c] = call[c]
      BY <2>1, StepKinds DEF Quiet, Filled, Replayed, Ending, Alone
    <2> QED BY <2>2
  <1>2. CASE Handle(c)
    <2>1. ~ (FetchKeys(c) \/ IssuerAnswers(c) \/ FetchFails(c))
      BY DEF FetchKeys, IssuerAnswers, FetchFails, Raise, CallType, At, Arriving
    <2> QED BY <1>2, <2>1 DEF Handle, Admit, RedisFails, RunSearch, LookUp, Insert, ReadBack,
            ToolFails, InsertIsLost, Audit, AuditFails, At
  <1>3. CASE Restart
    BY <1>3 DEF Restart, CallType
  <1>4. CASE RotateKeys \/ Tick \/ UNCHANGED vars
    BY <1>4 DEF RotateKeys, Tick, vars
  <1> QED BY <1>1, <1>2, <1>3, <1>4 DEF Next

(* However the fetches of the key set overlap, a token signed with a       *)
(* retired key is refused from KeyTTL and one fetch on (RetiredKeysLapse). *)
THEOREM RetiredKeysDie == Spec => RetiredKeysLapse
  <1>1. ASSUME GInv, KeysInv, [Next]_vars, NEW c \in Calls,
               call[c].pc \in {"new", "store"}, call'[c].pc \in {"limit", "audit"}
        PROVE  LET gone == retired[call'[c].req.signedBy]
               IN  gone = None \/ now < gone + KeyTTL + FetchTime
    <2> USE <1>1, Times DEF GInv, GTypeOK
    <2>0. call[c] \in CallType /\ UnderwayCall(call[c])
      BY DEF Underway
    <2>1. CASE UseCachedKeys(c)
      <3>1. PICK r \in Requests : Verify(c, r, jwks.keys)
        BY <2>1 DEF UseCachedKeys, Arriving
      <3>2. PICK k : Judged(k, r, jwks.keys) /\ call' = [call EXCEPT ![c] = k]
        BY <3>1, VerifyKeeps
      <3>3. call'[c].req.signedBy = jwks.keys /\ jwks.keys \in SigningKeys
        BY <1>1, <2>1, <3>2 DEF Judged, UseCachedKeys
      <3> QED BY <2>1, <3>3, NoneFacts DEF UseCachedKeys, KeysInv
    <2>2. CASE StoreKeys(c)
      <3>1. call[c].seen \in SigningKeys /\ Req(c) \in Requests /\ call[c].at \in Nat
        BY <2>0, <2>2 DEF StoreKeys, At, UnderwayCall, Settled, Req, CallType
      <3>2. PICK k : Judged(k, Req(c), call[c].seen) /\ call' = [call EXCEPT ![c] = k]
        BY <2>2, <3>1, VerifyKeeps DEF StoreKeys
      <3>3. call'[c].req.signedBy = call[c].seen
        BY <1>1, <3>2 DEF Judged
      <3> QED BY <2>2, <3>1, <3>3 DEF StoreKeys, KeysInv
    <2> QED BY <1>1, <2>1, <2>2, Authenticates
  <1>2. GInv /\ KeysInv /\ [Next]_vars =>
            [\A c \in Calls :
                call[c].pc \in {"new", "store"} /\ call'[c].pc \in {"limit", "audit"} =>
                    LET gone == retired[call'[c].req.signedBy]
                    IN  gone = None \/ now < gone + KeyTTL + FetchTime]_vars
    BY <1>1
  <1> QED
    BY <1>2, InitKeeps, NextKeeps, KeysInit, KeysNext, PTL DEF Spec, RetiredKeysLapse
-----------------------------------------------------------------------------
(* The limiter: what Redis holds is the calls that were counted, and of    *)
(* these at least every one that is not yet a window old.                  *)
Gated(c) == call[c].gate # "none"

Buckets == Tenants \X Tools

WindowInv ==
    /\ \A b \in Buckets : IsFiniteSet(window[b])
    /\ \A b \in Buckets : \A m \in window[b] :
        Gated(m.call) /\ Bucket(m.call) = b /\ call[m.call].at = m.at
    /\ \A c \in Calls :
        /\ Gated(c) => call[c].pc \notin {"new", "fetch", "store", "limit"}
        /\ Gated(c) => call[c].at <= now /\ Bucket(c) \in Buckets
        /\ Gated(c) /\ call[c].at > now - Window =>
               [call |-> c, at |-> call[c].at] \in window[Bucket(c)]
        /\ At(c, "limit") => call[c].at <= now /\ now <= call[c].at + MaxLag

NeverTooMany ==
    \A tenant \in Tenants, tool \in Tools, t \in 0 .. MaxTime :
        Cardinality(Within(tenant, tool, t, t + Window - MaxLag - 1, {"in"})) <= Limit[tool]

NeverTooFew ==
    \A c \in Calls :
        call[c].gate = "out" =>
            Cardinality(Within(Req(c).tenant, Req(c).tool, call[c].at - Window + 1,
                               now, {"in", "out", "lost"}) \ {c}) >= Limit[Req(c).tool]

LimitInv == WindowInv /\ NeverTooMany /\ NeverTooFew

(* Steps that count nothing, and the one that does.                        *)
Same(c) ==
    call'[c].gate = call[c].gate /\ call'[c].at = call[c].at /\ call'[c].req = call[c].req

Uncounted ==
    /\ \A c \in Calls :
        \/ Same(c) /\ (At(c, "limit")' => At(c, "limit"))
                   /\ (Gated(c) => call'[c].pc \in {call[c].pc, "lookup", "insert", "reread",
                                                    "search", "audit", "done"})
        \/ /\ ~ Gated(c) /\ call'[c].gate = "none"
           /\ At(c, "limit")' => call'[c].at = now
    /\ UNCHANGED <<now, window>>

Counts(c) ==
    /\ At(c, "limit") /\ Alone(c)
    /\ window' = [window EXCEPT ![Bucket(c)] = Counted(c)]
    /\ call'[c].at = call[c].at /\ call'[c].req = call[c].req
    /\ call'[c].pc \in {"audit", "lookup", "search", "done"}
    /\ \/ call'[c].gate = "out" /\ Cardinality(Counted(c)) > Limit[Req(c).tool]
       \/ call'[c].gate = "in" /\ ~ (Cardinality(Counted(c)) > Limit[Req(c).tool])
       \/ call'[c].gate = "lost"
    /\ UNCHANGED now

LEMMA CountKinds ==
    ASSUME GInv, LimitInv, NEW c \in Calls, Handle(c)
    PROVE  Uncounted \/ Counts(c)
  <1> USE DEF GInv, GTypeOK
  <1>0. call[c] \in CallType /\ UnderwayCall(call[c])
    BY DEF Underway
  <1>g. Gated(c) => call[c].pc \notin {"new", "fetch", "store", "limit"}
    BY DEF LimitInv, WindowInv
  <1>o. ASSUME Alone(c),
               \/ Same(c) /\ call'[c].pc # "limit"
                          /\ (Gated(c) => call'[c].pc \in {"lookup", "insert", "reread",
                                                           "search", "audit", "done"})
               \/ /\ ~ Gated(c) /\ call'[c].gate = "none"
                  /\ call'[c].pc = "limit" => call'[c].at = now,
               UNCHANGED <<now, window>>
        PROVE  Uncounted
    BY <1>o DEF Alone, Uncounted, Same, At
  <1>a. ASSUME Raise(c), UNCHANGED <<now, window>> PROVE Uncounted
    BY <1>0, <1>a, <1>o DEF Raise, Alone, Same, CallType
  <1>1. CASE UseCachedKeys(c) \/ StoreKeys(c)
    <2>1. PICK r, keys : r \in Requests /\ Verify(c, r, keys)
      BY <1>0, <1>1 DEF UseCachedKeys, StoreKeys, Arriving, UnderwayCall, At, Req, Settled
    <2>2. PICK k : Judged(k, r, keys) /\ call' = [call EXCEPT ![c] = k]
      BY <2>1, VerifyKeeps
    <2>3. call'[c] = k /\ Alone(c) /\ k.gate = "none" /\ (k.pc = "limit" => k.at = now)
      BY <2>2 DEF Judged, Alone
    <2> QED BY <1>1, <1>g, <1>o, <2>3 DEF UseCachedKeys, StoreKeys, server, At
  <1>2. CASE FetchKeys(c)
    BY <1>0, <1>2, <1>g, <1>o DEF FetchKeys, At, Arriving, server, Alone, Gated, CallType
  <1>3. CASE IssuerAnswers(c)
    BY <1>0, <1>3, <1>g, <1>o DEF IssuerAnswers, At, server, Alone, Gated, CallType
  <1>4. CASE FetchFails(c)
    BY <1>4, <1>a DEF FetchFails, server
  <1>5. CASE Admit(c)
    <2>1. call[c].req \in Requests
      BY <1>0, <1>5 DEF Admit, At, UnderwayCall, Settled
    <2>2. CASE Cardinality(Counted(c)) > Limit[Req(c).tool]
      BY <1>0, <1>5, <2>1, <2>2 DEF Admit, Counts, Alone, At, CallType
    <2>3. CASE ~ (Cardinality(Counted(c)) > Limit[Req(c).tool])
      BY <1>0, <1>5, <2>1, <2>3 DEF Admit, Counts, Alone, At, FirstPoint, CallType
    <2> QED BY <2>2, <2>3
  <1>6. CASE RedisFails(c)
    <2>1. CASE Raise(c) /\ UNCHANGED window
      BY <1>6, <2>1, <1>a DEF RedisFails
    <2>2. CASE /\ window' = [window EXCEPT ![Bucket(c)] = Counted(c)]
               /\ call' = [call EXCEPT ![c].pc = "done", ![c].gate = "lost"]
      BY <1>0, <1>6, <2>2 DEF RedisFails, Counts, Alone, At, CallType
    <2> QED BY <1>6, <2>1, <2>2 DEF RedisFails
  <1>7. CASE RunSearch(c) \/ LookUp(c) \/ Insert(c)
    BY <1>0, <1>7, <1>o DEF RunSearch, LookUp, Insert, Conclude, Goto, At, server, Alone, Same,
       CallType
  <1>8. CASE ReadBack(c)
    <2>1. CASE Raise(c)
      BY <1>8, <2>1, <1>a DEF ReadBack, server
    <2>2. CASE Conclude(c, "idempotent_replay")
      BY <1>0, <1>8, <1>o, <2>2 DEF ReadBack, Conclude, server, Alone, Same, CallType
    <2> QED BY <1>8, <2>1, <2>2 DEF ReadBack
  <1>9. CASE ToolFails(c) \/ InsertIsLost(c)
    BY <1>9, <1>a DEF ToolFails, InsertIsLost, server
  <1>10. CASE Audit(c)
    BY <1>0, <1>10, <1>o DEF Audit, Goto, At, Alone, Same, CallType
  <1>11. CASE AuditFails(c)
    BY <1>11, <1>a DEF AuditFails
  <1> QED
    BY <1>1, <1>2, <1>3, <1>4, <1>5, <1>6, <1>7, <1>8, <1>9, <1>10, <1>11 DEF Handle

LEMMA CallsFinite == ASSUME NEW S, S \subseteq Calls
                     PROVE  IsFiniteSet(S) /\ Cardinality(S) \in Nat
  BY GatewayAssumption, FS_Subset, FS_CardinalityType

LEMMA SubsetSmaller ==
    ASSUME NEW S, NEW T, T \subseteq Calls, S \subseteq T
    PROVE  Cardinality(S) <= Cardinality(T)
  BY CallsFinite, FS_Subset

LEMMA CountedFacts ==
    ASSUME GInv, LimitInv, NEW c \in Calls, At(c, "limit")
    PROVE  /\ Bucket(c) \in Buckets /\ Req(c).tool \in Tools
           /\ Limit[Req(c).tool] \in Nat
           /\ Counted(c) \subseteq [call : Calls, at : Nat]
           /\ IsFiniteSet(Counted(c)) /\ Cardinality(Counted(c)) \in Nat
           /\ call[c].at \in Nat /\ call[c].at <= now /\ now <= call[c].at + MaxLag
           /\ ~ Gated(c)
  <1>1. Bucket(c) \in Buckets /\ Counted(c) \subseteq [call : Calls, at : Nat]
    BY CountedType DEF GInv, Buckets
  <1>2. Req(c).tool \in Tools
    BY <1>1 DEF Bucket, Buckets
  <1>3. IsFiniteSet(Pruned(c))
    BY <1>1, FS_Subset DEF LimitInv, WindowInv, Pruned
  <1>4. IsFiniteSet(Counted(c))
    BY <1>3, FS_AddElement DEF Counted
  <1> QED BY <1>1, <1>2, <1>4, FS_CardinalityType, GatewayAssumption
          DEF LimitInv, WindowInv, At, GInv, GTypeOK, CallType

(* What a step that counts nothing leaves of the bounds.                   *)
LEMMA UncountedKeeps ==
    ASSUME GInv, LimitInv, Uncounted, GInv' PROVE LimitInv'
  <1> USE DEF GInv, GTypeOK
  <1>0. \A c \in Calls : (Gated(c) \/ Gated(c)') => Same(c)
    BY DEF Uncounted, Same, Gated
  <1>1. \A c \in Calls : Gated(c) => Bucket(c)' = Bucket(c) /\ Req(c)' = Req(c)
    BY <1>0 DEF Same, Bucket, Req
  <1>2. WindowInv'
    <2>1. \A b \in Buckets : \A m \in window'[b] : m.call \in Calls
      BY DEF Uncounted, Buckets
    <2>2. \A b \in Buckets : \A m \in window'[b] :
              Gated(m.call)' /\ Bucket(m.call)' = b /\ call'[m.call].at = m.at
      BY <1>0, <1>1, <2>1 DEF Uncounted, Same, Gated, LimitInv, WindowInv
    <2>3. ASSUME NEW c \in Calls
          PROVE  /\ Gated(c)' => call'[c].pc \notin {"new", "fetch", "store", "limit"}
                 /\ Gated(c)' => call'[c].at <= now' /\ Bucket(c)' \in Buckets
                 /\ Gated(c)' /\ call'[c].at > now' - Window =>
                        [call |-> c, at |-> call'[c].at] \in window'[Bucket(c)']
      BY <1>0, <1>1 DEF Uncounted, Same, Gated, LimitInv, WindowInv
    <2>4. ASSUME NEW c \in Calls, At(c, "limit")'
          PROVE  call'[c].at <= now' /\ now' <= call'[c].at + MaxLag
      <3>1. call'[c].at \in Nat
        BY DEF CallType
      <3>2. CASE Same(c) /\ At(c, "limit")
        BY <3>2 DEF Uncounted, Same, LimitInv, WindowInv
      <3>3. CASE call'[c].at = now
        BY <3>1, <3>3, Times DEF Uncounted
      <3> QED BY <2>4, <3>2, <3>3 DEF Uncounted
    <2> QED BY <2>2, <2>3, <2>4 DEF Uncounted, LimitInv, WindowInv
  <1>3. ASSUME NEW tenant, NEW tool, NEW first, NEW last, NEW gates, "none" \notin gates
        PROVE  Within(tenant, tool, first, last, gates)' = Within(tenant, tool, first, last, gates)
    BY <1>0, <1>1, <1>3 DEF Within, Same, Gated
  <1>4. NeverTooMany'
    BY <1>3 DEF NeverTooMany, LimitInv
  <1>5. NeverTooFew'
    <2> SUFFICES ASSUME NEW c \in Calls, call'[c].gate = "out"
                 PROVE  (Cardinality(Within(Req(c).tenant, Req(c).tool, call[c].at - Window + 1,
                             now, {"in", "out", "lost"}) \ {c}) >= Limit[Req(c).tool])'
      BY DEF NeverTooFew
    <2>1. Same(c) /\ call[c].gate = "out" /\ Req(c)' = Req(c) /\ now' = now
      BY <1>0, <1>1 DEF Gated, Same, Uncounted
    <2>2. Within(Req(c).tenant, Req(c).tool, call[c].at - Window + 1, now, {"in", "out", "lost"})'
            = Within(Req(c).tenant, Req(c).tool, call[c].at - Window + 1, now, {"in", "out", "lost"})
      BY <1>0, <1>1, <2>1 DEF Within, Same, Gated
    <2> QED BY <2>1, <2>2 DEF NeverTooFew, LimitInv
  <1> QED BY <1>2, <1>4, <1>5 DEF LimitInv

(* After the counting step the window holds the call, all recent calls and *)
(* no call that was not counted.                                           *)
LEMMA CountsWindow ==
    ASSUME GInv, LimitInv, GInv', NEW c \in Calls, Counts(c)
    PROVE  WindowInv'
  <1> USE DEF GInv, GTypeOK
  <1>1. /\ Bucket(c) \in Buckets /\ Counted(c) \subseteq [call : Calls, at : Nat]
        /\ IsFiniteSet(Counted(c)) /\ call[c].at <= now /\ ~ Gated(c)
    BY CountedFacts DEF Counts
  <1>2. /\ window'[Bucket(c)] = Counted(c)
        /\ \A b \in Buckets \ {Bucket(c)} : window'[b] = window[b]
    BY <1>1 DEF Counts, Buckets
  <1>3. \A d \in Calls \ {c} : call'[d] = call[d] /\ Bucket(d)' = Bucket(d) /\ (Gated(d)' <=> Gated(d))
    BY DEF Counts, Alone, Bucket, Req, Gated
  <1>4. Gated(c)' /\ Bucket(c)' = Bucket(c) /\ call'[c].at = call[c].at /\ now' = now
    BY DEF Counts, Bucket, Req, Gated
  <1>5. \A b \in Buckets : IsFiniteSet(window'[b])
    BY <1>1, <1>2 DEF LimitInv, WindowInv
  <1>6. ASSUME NEW b \in Buckets, NEW m \in window'[b]
        PROVE  Gated(m.call)' /\ Bucket(m.call)' = b /\ call'[m.call].at = m.at
    <2>1. CASE m = [call |-> c, at |-> call[c].at] /\ b = Bucket(c)
      BY <1>4, <2>1
    <2>2. CASE m \in window[b]
      <3>1. m.call \in Calls
        BY <2>2 DEF Buckets
      <3>2. Gated(m.call) /\ Bucket(m.call) = b /\ call[m.call].at = m.at
        BY <2>2 DEF LimitInv, WindowInv
      <3> QED BY <1>1, <1>3, <3>1, <3>2
    <2> QED BY <1>2, <1>6, <2>1, <2>2 DEF Counted, Pruned
  <1>7. ASSUME NEW d \in Calls, Gated(d)', call'[d].at > now' - Window
        PROVE  [call |-> d, at |-> call'[d].at] \in window'[Bucket(d)']
    <2>1. CASE d = c
      BY <1>2, <1>4, <2>1 DEF Counted
    <2>2. CASE d # c
      <3> DEFINE m == [call |-> d, at |-> call[d].at]
      <3>1. m \in window[Bucket(d)] /\ Bucket(d) \in Buckets /\ call[d].at > now - Window
        BY <1>3, <1>4, <1>7, <2>2 DEF LimitInv, WindowInv
      <3>2. Bucket(d) = Bucket(c) => m \in Counted(c)
        <4>1. call[d].at > call[c].at - Window
          <5>1. call[d].at \in Nat /\ call[c].at \in Nat
            BY DEF CallType
          <5> QED BY <1>1, <3>1, <5>1, Times
        <4> QED BY <3>1, <4>1 DEF Counted, Pruned
      <3> QED BY <1>2, <1>3, <2>2, <3>1, <3>2
    <2> QED BY <2>1, <2>2
  <1>8. ASSUME NEW d \in Calls
        PROVE  /\ Gated(d)' => call'[d].pc \notin {"new", "fetch", "store", "limit"}
               /\ Gated(d)' => call'[d].at <= now' /\ Bucket(d)' \in Buckets
               /\ At(d, "limit")' => call'[d].at <= now' /\ now' <= call'[d].at + MaxLag
    <2>1. CASE d = c
      BY <1>1, <1>4, <2>1 DEF Counts, At
    <2>2. CASE d # c
      BY <1>3, <1>4, <2>2 DEF LimitInv, WindowInv, At
    <2> QED BY <2>1, <2>2
  <1> QED BY <1>5, <1>6, <1>7, <1>8 DEF WindowInv

(* The calls of one window that were let through are all in the set that   *)
(* Redis counts, so they are no more than its size.                        *)
LEMMA CountsNotTooMany ==
    ASSUME GInv, LimitInv, GInv', NEW c \in Calls, Counts(c)
    PROVE  NeverTooMany'
  <1> USE DEF GInv, GTypeOK
  <1> SUFFICES ASSUME NEW tenant \in Tenants, NEW tool \in Tools, NEW t \in 0 .. MaxTime
               PROVE  Cardinality(Within(tenant, tool, t, t + Window - MaxLag - 1, {"in"})')
                          <= Limit[tool]
    BY DEF NeverTooMany
  <1> DEFINE old == Within(tenant, tool, t, t + Window - MaxLag - 1, {"in"})
             new == Within(tenant, tool, t, t + Window - MaxLag - 1, {"in"})'
  <1>1. /\ IsFiniteSet(Counted(c)) /\ Cardinality(Counted(c)) \in Nat
        /\ call[c].at \in Nat /\ call[c].at <= now /\ now <= call[c].at + MaxLag
        /\ Req(c).tool \in Tools /\ Limit[Req(c).tool] \in Nat /\ ~ Gated(c)
    BY CountedFacts DEF Counts
  <1>2. \A d \in Calls \ {c} : d \in new <=> d \in old
    BY DEF Within, Counts, Alone, Bucket, Req
  <1>3. c \notin old
    BY <1>1 DEF Within, Gated
  <1>4. CASE c \notin new
    <2>1. new = old
      BY <1>2, <1>3, <1>4 DEF Within
    <2> QED BY <2>1 DEF LimitInv, NeverTooMany
  <1>5. CASE c \in new
    <2>1. /\ call'[c].gate = "in" /\ Bucket(c) = <<tenant, tool>>
          /\ call[c].at \in t .. t + Window - MaxLag - 1
      BY <1>5 DEF Within, Counts, Bucket, Req
    <2>2. Cardinality(Counted(c)) <= Limit[tool]
      BY <1>1, <2>1 DEF Counts, Bucket
    <2> DEFINE f == [d \in new |-> [call |-> d, at |-> call[d].at]]
    <2>3. ASSUME NEW d \in new PROVE [call |-> d, at |-> call[d].at] \in Counted(c)
      <3>1. CASE d = c
        BY <3>1 DEF Counted
      <3>2. CASE d # c
        <4>1. d \in old /\ d \in Calls
          BY <1>2, <2>3, <3>2 DEF Within
        <4>2. /\ Gated(d) /\ Bucket(d) = Bucket(c) /\ call[d].at \in Nat /\ call[d].at >= t
          BY <2>1, <4>1 DEF Within, Gated, CallType
        <4>3. call[d].at > now - Window /\ call[d].at > call[c].at - Window
          BY <1>1, <2>1, <4>2, Times
        <4>4. [call |-> d, at |-> call[d].at] \in window[Bucket(c)]
          BY <4>1, <4>2, <4>3 DEF LimitInv, WindowInv
        <4> QED BY <4>3, <4>4 DEF Counted, Pruned
      <3> QED BY <3>1, <3>2
    <2>4. f \in Injection(new, Counted(c))
      <3>1. f \in [new -> Counted(c)]
        BY <2>3
      <3>2. \A d, e \in new : f[d] = f[e] => d = e
        OBVIOUS
      <3> QED BY <3>1, <3>2 DEF Injection, IsInjective
    <2>5. new \subseteq Calls
      BY DEF Within
    <2>6. Cardinality(new) <= Cardinality(Counted(c)) /\ Cardinality(new) \in Nat
      BY <1>1, <2>4, <2>5, FS_Injection, CallsFinite
    <2>7. Limit[tool] \in Nat
      BY GatewayAssumption
    <2> QED BY <1>1, <2>2, <2>6, <2>7
  <1> QED BY <1>4, <1>5

(* The members of the set Redis counts, but for the call itself, are as    *)
(* many other calls of the window before it.                               *)
LEMMA CountsNotTooFew ==
    ASSUME GInv, LimitInv, GInv', NEW c \in Calls, Counts(c)
    PROVE  NeverTooFew'
  <1> USE DEF GInv, GTypeOK
  <1> DEFINE Before(d) == Within(Req(d).tenant, Req(d).tool, call[d].at - Window + 1, now,
                                 {"in", "out", "lost"}) \ {d}
  <1> SUFFICES ASSUME NEW d \in Calls, call'[d].gate = "out"
               PROVE  Cardinality(Before(d)') >= Limit[Req(d)'.tool]
    BY DEF NeverTooFew
  <1>0. /\ IsFiniteSet(Counted(c)) /\ Cardinality(Counted(c)) \in Nat
        /\ Counted(c) \subseteq [call : Calls, at : Nat] /\ Bucket(c) \in Buckets
        /\ call[c].at \in Nat /\ call[c].at <= now /\ Limit[Req(c).tool] \in Nat /\ ~ Gated(c)
    BY CountedFacts DEF Counts
  <1>1. now' = now /\ \A e \in Calls : Req(e)' = Req(e) /\ Bucket(e)' = Bucket(e) /\ call'[e].at = call[e].at
    BY DEF Counts, Alone, Bucket, Req
  <1>2. CASE d # c
    <2>1. call[d].gate = "out"
      BY <1>2 DEF Counts, Alone
    <2>2. Before(d) \subseteq Before(d)'
      BY <1>0, <1>1 DEF Within, Counts, Alone, Gated
    <2>3. Before(d)' \subseteq Calls
      BY DEF Within
    <2>4. Cardinality(Before(d)) <= Cardinality(Before(d)')
      BY <2>2, <2>3, SubsetSmaller
    <2>5. Cardinality(Before(d)) \in Nat /\ Cardinality(Before(d)') \in Nat
      BY <2>2, <2>3, CallsFinite
    <2>6. Cardinality(Before(d)) >= Limit[Req(d).tool]
      BY <2>1 DEF LimitInv, NeverTooFew
    <2>7. Limit[Req(d).tool] \in Nat
      <3>1. Bucket(d) \in Buckets
        BY <2>1 DEF LimitInv, WindowInv, Gated
      <3> QED BY <3>1, GatewayAssumption DEF Bucket, Buckets
    <2> QED BY <1>1, <2>4, <2>5, <2>6, <2>7
  <1>3. CASE d = c
    <2> DEFINE me == [call |-> c, at |-> call[c].at]
               B  == Counted(c) \ {me}
               g  == [m \in B |-> m.call]
    <2>1. Cardinality(Counted(c)) > Limit[Req(c).tool]
      BY <1>3 DEF Counts
    <2>2. IsFiniteSet(B) /\ Cardinality(B) = Cardinality(Counted(c)) - 1 /\ Cardinality(B) \in Nat
      <3>1. me \in Counted(c)
        BY DEF Counted
      <3>2. IsFiniteSet(B) /\ Cardinality(B) = Cardinality(Counted(c)) - 1
        <4> HIDE DEF me
        <4> QED BY ONLY <1>0, <3>1, FS_RemoveElement
      <3> QED BY <3>2, FS_CardinalityType
    <2>3. ASSUME NEW m \in B
          PROVE  m.call \in Before(c)' /\ m = [call |-> m.call, at |-> call[m.call].at]
      <3>1. m \in window[Bucket(c)] /\ m.at > call[c].at - Window
        BY DEF Counted, Pruned
      <3>2. m \in [call : Calls, at : Nat]
        BY <1>0
      <3>3. Gated(m.call) /\ Bucket(m.call) = Bucket(c) /\ call[m.call].at = m.at
        BY <1>0, <3>1 DEF LimitInv, WindowInv
      <3>4. m.call # c /\ m.call \in Calls /\ m.at \in Nat
        BY <1>0, <3>2, <3>3
      <3>5. m.at <= now
        BY <3>3, <3>4 DEF LimitInv, WindowInv
      <3>6. m.at \in call[c].at - Window + 1 .. now
        BY <1>0, <3>1, <3>4, <3>5, Times
      <3>7. call'[m.call].gate \in {"in", "out", "lost"}
        BY <3>3, <3>4 DEF Gated, Counts, Alone, CallType
      <3>8. Bucket(m.call)' = <<Req(c)'.tenant, Req(c)'.tool>>
        BY <1>1, <3>3, <3>4 DEF Bucket
      <3>9. m.call \in Before(c)'
        BY <1>1, <3>3, <3>4, <3>6, <3>7, <3>8 DEF Within
      <3> QED BY <3>2, <3>3, <3>9
    <2>4. g \in Injection(B, Before(c)')
      <3>1. g \in [B -> Before(c)']
        BY <2>3
      <3>2. \A m, n \in B : g[m] = g[n] => m = n
        BY <2>3
      <3> QED BY <3>1, <3>2 DEF Injection, IsInjective
    <2>5. Before(c)' \subseteq Calls
      BY DEF Within
    <2>6. Cardinality(B) <= Cardinality(Before(c)') /\ Cardinality(Before(c)') \in Nat
      BY <2>4, <2>5, FS_Injection, CallsFinite
    <2>7. Cardinality(Before(c)') >= Limit[Req(c).tool]
      BY <1>0, <2>1, <2>2, <2>6
    <2> QED BY <1>1, <1>3, <2>7
  <1> QED BY <1>2, <1>3

LEMMA LimitInit == Init => LimitInv
  <1> SUFFICES ASSUME Init PROVE LimitInv
    OBVIOUS
  <1>1. \A c \in Calls : ~ Gated(c) /\ call[c].gate = "none" /\ call[c].pc = "new"
    BY DEF Init, Fresh, Gated
  <1>2. \A b \in Buckets : window[b] = {}
    BY DEF Init, Buckets
  <1>3. WindowInv
    BY <1>1, <1>2, FS_EmptySet DEF WindowInv, At
  <1>4. ASSUME NEW tenant \in Tenants, NEW tool \in Tools, NEW t \in 0 .. MaxTime
        PROVE  Cardinality(Within(tenant, tool, t, t + Window - MaxLag - 1, {"in"})) <= Limit[tool]
    <2>1. Within(tenant, tool, t, t + Window - MaxLag - 1, {"in"}) = {}
      BY <1>1 DEF Within
    <2>2. Cardinality({}) = 0 /\ Limit[tool] \in Nat
      BY FS_EmptySet, GatewayAssumption
    <2> QED BY <2>1, <2>2
  <1> QED BY <1>1, <1>3, <1>4 DEF LimitInv, NeverTooMany, NeverTooFew

LEMMA LimitTick == GInv /\ LimitInv /\ GInv' /\ Tick => LimitInv'
  <1> SUFFICES ASSUME GInv, LimitInv, GInv', Tick PROVE LimitInv'
    OBVIOUS
  <1> USE DEF GInv, GTypeOK
  <1>1. now' = now + 1 /\ UNCHANGED <<window, call>>
    BY DEF Tick, server
  <1>2. \A c \in Calls : call[c].at \in Nat /\ (At(c, "limit") => now < call[c].at + MaxLag)
    BY DEF Tick, CallType
  <1>3. \A c \in Calls : Bucket(c)' = Bucket(c) /\ Req(c)' = Req(c) /\ (Gated(c)' <=> Gated(c))
    BY <1>1 DEF Bucket, Req, Gated
  <1>4. WindowInv'
    <2>1. \A b \in Buckets : \A m \in window[b] : m.call \in Calls
      BY DEF Buckets
    <2>2. \A c \in Calls : call[c].at > now + 1 - Window => call[c].at > now - Window
      BY <1>2, Times
    <2> QED BY <1>1, <1>2, <1>3, <2>1, <2>2, Times DEF LimitInv, WindowInv, At
  <1>5. NeverTooMany'
    BY <1>1 DEF LimitInv, NeverTooMany, Within, Bucket, Req
  <1>6. ASSUME NEW c \in Calls, call[c].gate = "out"
        PROVE  Cardinality(Within(Req(c).tenant, Req(c).tool, call[c].at - Window + 1, now,
                                  {"in", "out", "lost"})' \ {c}) >= Limit[Req(c).tool]
    <2> DEFINE old == Within(Req(c).tenant, Req(c).tool, call[c].at - Window + 1, now,
                             {"in", "out", "lost"})
               new == Within(Req(c).tenant, Req(c).tool, call[c].at - Window + 1, now,
                             {"in", "out", "lost"})'
    <2>1. old \ {c} \subseteq new \ {c} /\ new \ {c} \subseteq Calls
      BY <1>1, <1>2, Times DEF Within, Bucket, Req
    <2>2. Cardinality(old \ {c}) <= Cardinality(new \ {c})
      BY <2>1, SubsetSmaller
    <2>3. Cardinality(old \ {c}) \in Nat /\ Cardinality(new \ {c}) \in Nat
      BY <2>1, CallsFinite
    <2>4. Limit[Req(c).tool] \in Nat
      <3>1. Bucket(c) \in Buckets
        BY <1>6 DEF LimitInv, WindowInv, Gated
      <3> QED BY <3>1, GatewayAssumption DEF Bucket, Buckets
    <2>5. Cardinality(old \ {c}) >= Limit[Req(c).tool]
      BY <1>6 DEF LimitInv, NeverTooFew
    <2> QED BY <2>2, <2>3, <2>4, <2>5
  <1>7. NeverTooFew'
    BY <1>1, <1>3, <1>6 DEF NeverTooFew
  <1> QED BY <1>4, <1>5, <1>7 DEF LimitInv

LEMMA LimitNext == GInv /\ LimitInv /\ [Next]_vars => LimitInv'
  <1> SUFFICES ASSUME GInv, LimitInv, [Next]_vars PROVE LimitInv'
    OBVIOUS
  <1>0. GInv'
    BY NextKeeps
  <1>1. ASSUME NEW c \in Calls, Handle(c) PROVE LimitInv'
    BY <1>0, <1>1, CountKinds, UncountedKeeps, CountsWindow, CountsNotTooMany, CountsNotTooFew
    DEF LimitInv
  <1>2. CASE Restart
    <2>1. Uncounted
      BY <1>2 DEF Restart, Uncounted, Same, Gated, At, GInv, GTypeOK, CallType
    <2> QED BY <1>0, <2>1, UncountedKeeps
  <1>3. CASE RotateKeys
    <2>1. Uncounted
      BY <1>3 DEF RotateKeys, Uncounted, Same, At
    <2> QED BY <1>0, <2>1, UncountedKeeps
  <1>4. CASE Tick
    BY <1>0, <1>4, LimitTick
  <1>5. CASE UNCHANGED vars
    <2>1. Uncounted
      BY <1>5 DEF vars, Uncounted, Same, At
    <2> QED BY <1>0, <2>1, UncountedKeeps
  <1> QED BY <1>1, <1>2, <1>3, <1>4, <1>5 DEF Next

(* The sliding window lets through no more than the limit, and turns away  *)
(* nobody who has not used it up (RateLimitIsExact), for every limit,      *)
(* window and delay, in whatever order the calls reach Redis.              *)
THEOREM RateLimitHolds == Spec => []RateLimitIsExact
  <1>1. LimitInv => RateLimitIsExact
    BY DEF LimitInv, NeverTooMany, NeverTooFew, RateLimitIsExact
  <1> QED BY <1>1, InitKeeps, NextKeeps, LimitInit, LimitNext, PTL DEF Spec
=============================================================================
