---------------------------- MODULE ExplainerProofs ----------------------------
(***************************************************************************)
(* Proofs about Explainer, for every set of requests, every size of a      *)
(* payload and every setting of the circuit breaker.                       *)
(***************************************************************************)
EXTENDS Explainer, TLAPS

(* A request that is being served has an alert to deal with and has a page *)
(* for every earlier one.                                                  *)
Faithful(r) ==
    /\ Len(r.pages) = r.i - 1
    /\ \A k \in 1 .. Len(r.pages) :
        r.pages[k].alert = k /\ r.pages[k].about \in {None, k}
    /\ r.pc = "done" => Len(r.pages) = r.total
    /\ r.pc # "done" => r.i <= r.total

(* The breaker's count is the number of failures in a row, and while it is *)
(* at its limit the breaker's age is the time since the last of them.      *)
BreakerInv ==
    /\ failures = streak
    /\ failures >= FailMax <=> age # None
    /\ age # None => age = since

EInv == ETypeOK /\ PagesAreFaithful /\ BreakerInv

LEMMA Settings ==
    /\ MaxAlerts \in Nat /\ FailMax \in Nat /\ FailMax > 0
    /\ ResetTimeout \in Nat /\ ResetTimeout > 0 /\ None \notin Int
  BY ExplainerAssumption

LEMMA FaithfulPages == PagesAreFaithful <=> \A q \in Requests : Faithful(req[q])
  BY DEF PagesAreFaithful, Faithful

LEMMA IdleFacts == Idle \in RequestType /\ Faithful(Idle)
  BY Settings DEF Idle, RequestType, Points, Faithful, PageType

LEMMA EInit == Init => EInv
  BY Settings, IdleFacts, FaithfulPages DEF Init, EInv, ETypeOK, BreakerInv

LEMMA OneMoves ==
    ASSUME EInv, NEW q \in Requests, NEW n \in RequestType, Faithful(n),
           req' = [req EXCEPT ![q] = n]
    PROVE  req' \in [Requests -> RequestType] /\ PagesAreFaithful'
  <1>1. \A p \in Requests : Faithful(req'[p])
    BY FaithfulPages DEF EInv, ETypeOK
  <1> QED BY <1>1 DEF EInv, ETypeOK, PagesAreFaithful, Faithful

(* A page more, and the loop is where the page count says.                 *)
LEMMA PageKeeps ==
    ASSUME EInv, NEW q \in Requests, ~ At(q, "done"),
           NEW about \in {None, req[q].i}, Page(q, about)
    PROVE  req' \in [Requests -> RequestType] /\ PagesAreFaithful'
  <1> DEFINE r == req[q]
             page == [alert |-> r.i, about |-> about]
             n == Paged(r, about)
  <1>1. r \in RequestType /\ Faithful(r)
    BY FaithfulPages DEF EInv, ETypeOK
  <1>2. /\ r.pc # "done" /\ r.i \in Alerts /\ r.i <= r.total /\ Len(r.pages) = r.i - 1
        /\ r.total \in Nat /\ r.total <= MaxAlerts
    BY <1>1, Settings DEF At, RequestType, Faithful, Alerts
  <1>3. page \in PageType
    BY <1>2 DEF PageType
  <1>4. Append(r.pages, page) \in Seq(PageType) /\ Len(Append(r.pages, page)) = r.i
    BY <1>1, <1>2, <1>3 DEF RequestType, Alerts
  <1>5. \A k \in 1 .. r.i : Append(r.pages, page)[k] = IF k = r.i THEN page ELSE r.pages[k]
    BY <1>1, <1>2, <1>3 DEF RequestType, Alerts
  <1>6. r.i + 1 \in 1 .. MaxAlerts + 1 /\ AfterPage(r) \in Points
    BY <1>2, Settings DEF AfterPage, Points, Alerts
  <1>7. n \in RequestType
    BY <1>1, <1>2, <1>4, <1>6 DEF RequestType, Paged
  <1>8. Faithful(n)
    <2>1. /\ n.pages = Append(r.pages, page) /\ n.i = r.i + 1 /\ n.total = r.total
          /\ n.pc = AfterPage(r)
      BY <1>1 DEF RequestType, Paged
    <2>2. Len(n.pages) = n.i - 1
      BY <1>2, <1>4, <2>1 DEF Alerts
    <2>3. \A k \in 1 .. Len(n.pages) : n.pages[k].alert = k /\ n.pages[k].about \in {None, k}
      BY <1>1, <1>2, <1>4, <1>5, <2>1 DEF Faithful, Alerts
    <2>4. n.pc = "done" => Len(n.pages) = n.total
      BY <1>2, <1>4, <2>1 DEF AfterPage, Alerts
    <2>5. n.pc # "done" => n.i <= n.total
      BY <1>2, <2>1 DEF AfterPage, Alerts
    <2> QED BY <2>2, <2>3, <2>4, <2>5 DEF Faithful
  <1>9. req' = [req EXCEPT ![q] = n]
    BY DEF Page
  <1> HIDE DEF n
  <1> QED BY <1>7, <1>8, <1>9, OneMoves

(* A step of the loop that only moves on keeps its pages.                  *)
LEMMA MoveKeeps ==
    ASSUME EInv, NEW q \in Requests, ~ At(q, "done"), NEW p \in Points \ {"done"},
           req' = [req EXCEPT ![q].pc = p]
    PROVE  req' \in [Requests -> RequestType] /\ PagesAreFaithful'
  <1> DEFINE n == [req[q] EXCEPT !.pc = p]
  <1>1. req[q] \in RequestType /\ Faithful(req[q]) /\ req[q].pc # "done"
    BY FaithfulPages DEF EInv, ETypeOK, At
  <1>2. n \in RequestType
    BY <1>1 DEF RequestType
  <1>3. n.pages = req[q].pages /\ n.i = req[q].i /\ n.total = req[q].total /\ n.pc = p
    BY <1>1 DEF RequestType
  <1>4. Faithful(n)
    BY <1>1, <1>3 DEF Faithful
  <1>5. req' = [req EXCEPT ![q] = n]
    OBVIOUS
  <1> HIDE DEF n
  <1> QED BY <1>2, <1>4, <1>5, OneMoves

LEMMA FailKeeps ==
    ASSUME EInv, Fail
    PROVE  /\ failures' \in 0 .. FailMax + 1 /\ streak' \in 0 .. FailMax + 1
           /\ age' \in (0 .. ResetTimeout) \cup {None} /\ since' \in 0 .. ResetTimeout
           /\ BreakerInv'
  <1> USE Settings DEF EInv, ETypeOK
  <1>1. failures' = streak' /\ failures' \in 0 .. FailMax + 1 /\ since' = 0
    BY DEF Fail, CountUp, BreakerInv
  <1>2. CASE failures' >= FailMax
    BY <1>1, <1>2 DEF Fail, BreakerInv
  <1>3. CASE failures' < FailMax
    <2>1. failures < FailMax
      BY <1>3 DEF Fail, CountUp
    <2> QED BY <1>1, <1>3, <2>1 DEF Fail, BreakerInv
  <1> QED BY <1>1, <1>2, <1>3

LEMMA CloseKeeps ==
    ASSUME EInv, Close
    PROVE  /\ failures' \in 0 .. FailMax + 1 /\ streak' \in 0 .. FailMax + 1
           /\ age' \in (0 .. ResetTimeout) \cup {None} /\ since' \in 0 .. ResetTimeout
           /\ BreakerInv'
  BY Settings DEF EInv, ETypeOK, BreakerInv, Close

LEMMA EStep == ASSUME EInv, NEW q \in Requests, Receive(q) \/ Step(q) PROVE EInv'
  <1>1. CASE Receive(q)
    <2>1. PICK n \in 0 .. MaxAlerts :
              req' = [req EXCEPT ![q] =
                         [Idle EXCEPT !.pc = IF n = 0 THEN "done" ELSE "context", !.total = n]]
      BY <1>1 DEF Receive
    <2> DEFINE r == [Idle EXCEPT !.pc = IF n = 0 THEN "done" ELSE "context", !.total = n]
    <2>2. r \in RequestType /\ Faithful(r)
      <3>1. /\ r.pages = <<>> /\ r.i = 1 /\ r.total = n /\ r.brief = None
            /\ r.pc = IF n = 0 THEN "done" ELSE "context"
        BY DEF Idle
      <3>2. r \in RequestType
        BY Settings, IdleFacts DEF RequestType, Points
      <3> QED BY <3>1, <3>2 DEF Faithful
    <2>3. req' \in [Requests -> RequestType] /\ PagesAreFaithful'
      BY <2>1, <2>2, OneMoves
    <2> QED BY <1>1, <2>3 DEF Receive, breaker, EInv, ETypeOK, BreakerInv
  <1>2. CASE ContextReady(q) \/ CallModel(q)
    <2>1. req' \in [Requests -> RequestType] /\ PagesAreFaithful'
      BY <1>2, MoveKeeps DEF ContextReady, CallModel, At, Points
    <2> QED BY <1>2, <2>1 DEF ContextReady, CallModel, breaker, EInv, ETypeOK, BreakerInv
  <1>3. CASE ContextFails(q) \/ ClientFails(q) \/ Refused(q) \/ LogicError(q)
    <2>1. req' \in [Requests -> RequestType] /\ PagesAreFaithful'
      BY <1>3, PageKeeps DEF ContextFails, ClientFails, Refused, LogicError, Passthrough, At
    <2> QED BY <1>3, <2>1 DEF ContextFails, ClientFails, Refused, LogicError, breaker, EInv,
            ETypeOK, BreakerInv
  <1>4. CASE Answered(q)
    <2>1. req' \in [Requests -> RequestType] /\ PagesAreFaithful'
      BY <1>4, PageKeeps DEF Answered, Passthrough, At
    <2> QED BY <1>4, <2>1, CloseKeeps DEF Answered, EInv, ETypeOK
  <1>5. CASE Outage(q)
    <2>1. req' \in [Requests -> RequestType] /\ PagesAreFaithful'
      BY <1>5, PageKeeps DEF Outage, Passthrough, At
    <2> QED BY <1>5, <2>1, FailKeeps DEF Outage, EInv, ETypeOK
  <1> QED BY <1>1, <1>2, <1>3, <1>4, <1>5 DEF Step

LEMMA ENext == EInv /\ [Next]_vars => EInv'
  <1> SUFFICES ASSUME EInv, [Next]_vars PROVE EInv'
    OBVIOUS
  <1>1. ASSUME NEW q \in Requests, Receive(q) \/ Step(q) PROVE EInv'
    BY <1>1, EStep
  <1>2. CASE Turn
    BY <1>2 DEF Turn, breaker, EInv, ETypeOK, PagesAreFaithful, BreakerInv
  <1>3. CASE Tick
    <2>1. age' \in (0 .. ResetTimeout) \cup {None} /\ since' \in 0 .. ResetTimeout /\ BreakerInv'
      BY <1>3, Settings DEF Tick, EInv, ETypeOK, BreakerInv
    <2> QED BY <1>3, <2>1 DEF Tick, EInv, ETypeOK, PagesAreFaithful
  <1>4. CASE UNCHANGED vars
    BY <1>4 DEF vars, EInv, ETypeOK, PagesAreFaithful, BreakerInv
  <1> QED BY <1>1, <1>2, <1>3, <1>4 DEF Next

(* The types of Explainer (ETypeOK).                                       *)
THEOREM ExplainerTypes == Spec => []ETypeOK
  <1>1. EInv => ETypeOK
    BY DEF EInv
  <1> QED BY <1>1, EInit, ENext, PTL DEF Spec

(* One page for each alert, in order, with its own brief or none           *)
(* (PagesAreFaithful), for payloads of every size.                         *)
THEOREM PagesHold == Spec => []PagesAreFaithful
  <1>1. EInv => PagesAreFaithful
    BY DEF EInv
  <1> QED BY <1>1, EInit, ENext, PTL DEF Spec

(* After FailMax failures in a row no call is let through before the reset *)
(* time has passed (ProviderGetsARest), for every number of requests.      *)
THEOREM RestIsKept == Spec => ProviderGetsARest
  <1>1. ASSUME EInv, [Next]_vars, NEW q \in Requests,
               At(q, "triage"), req'[q].pc = "answer"
        PROVE  streak < FailMax \/ since = ResetTimeout
    <2> USE <1>1, Settings DEF EInv, ETypeOK
    <2>1. CallModel(q)
      <3>1. CASE \E p \in Requests \ {q} : Receive(p) \/ Step(p)
        <4>1. req'[q] = req[q]
          BY <3>1 DEF Receive, Step, ContextReady, ContextFails, ClientFails, Refused, CallModel,
             Answered, LogicError, Outage, Passthrough, Page
        <4> QED BY <4>1 DEF At
      <3>2. CASE Receive(q) \/ Step(q)
        <4>1. ASSUME NEW about, Page(q, about) PROVE FALSE
          BY <4>1 DEF Page, Paged, AfterPage, RequestType
        <4> QED BY <3>2, <4>1 DEF Receive, Step, ContextReady, ContextFails, ClientFails, Refused,
                Answered, LogicError, Outage, Passthrough, At
      <3>3. CASE Turn \/ Tick \/ UNCHANGED vars
        BY <3>3 DEF Turn, Tick, vars, At
      <3> QED BY <3>1, <3>2, <3>3 DEF Next
    <2> QED BY <2>1 DEF CallModel, IsOpen, BreakerInv
  <1>2. EInv /\ [Next]_vars =>
            [\A q \in Requests :
                At(q, "triage") /\ req'[q].pc = "answer" =>
                    streak < FailMax \/ since = ResetTimeout]_vars
    BY <1>1
  <1> QED BY <1>2, EInit, ENext, PTL DEF Spec, ProviderGetsARest
=============================================================================
