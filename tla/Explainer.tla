------------------------------ MODULE Explainer ------------------------------
(***************************************************************************)
(* The alert explainer of chapter 5 (alert_explainer): POST /enrich works  *)
(* through the alerts of a payload one by one - gather context, ask the    *)
(* model through a circuit breaker, render a page - and every failure on   *)
(* the way falls back to the raw page.  Requests overlap at every await    *)
(* and share the breaker; the provider may go down and come back.          *)
(***************************************************************************)
EXTENDS Integers, Sequences

CONSTANTS
    Requests,       \* the requests in service at one time, reused for ever
    MaxAlerts,      \* bound: alerts in one payload
    FailMax,        \* AsyncCircuitBreaker.fail_max
    ResetTimeout,   \* AsyncCircuitBreaker.reset_timeout
    None

ASSUME ExplainerAssumption ==
    /\ MaxAlerts \in Nat
    /\ FailMax \in Nat \ {0}
    /\ ResetTimeout \in Nat \ {0}
    /\ None \notin Int

VARIABLES
    failures,   \* _failures, counted up to FailMax + 1
    age,        \* how long ago _opened_at was set, up to ResetTimeout, or None
    req,        \* per request: where its loop is and what it has rendered
    well,       \* the provider answers, and the client makes no error
    streak,     \* history: provider failures since the last success, as above
    since       \* history: time since the last of them, up to ResetTimeout

vars == <<failures, age, req, well, streak, since>>
breaker == <<failures, age, streak, since>>

(* A page names its alert and the alert its brief is about, None for a raw *)
(* page; brief is the local of the loop, which outlives an iteration.      *)
Alerts   == 1 .. MaxAlerts
PageType == [alert : Alerts, about : Alerts \cup {None}]

Points == {"context", "triage", "answer", "done"}

RequestType ==
    [pc : Points, total : 0 .. MaxAlerts, i : 1 .. MaxAlerts + 1,
     brief : Alerts \cup {None}, pages : Seq(PageType)]

Idle == [pc |-> "done", total |-> 0, i |-> 1, brief |-> None, pages |-> <<>>]

Init ==
    /\ failures = 0 /\ age = None
    /\ streak = 0 /\ since = ResetTimeout
    /\ well \in BOOLEAN
    /\ req = [q \in Requests |-> Idle]

-----------------------------------------------------------------------------
(* The circuit breaker.                                                    *)

(* Mutant: no half-open state.                                             *)
IsOpen_ForGood == age # None

(* _is_open: past the reset window the breaker is half-open.               *)
IsOpen == age # None /\ age < ResetTimeout

(* The last line of call, after the provider has answered.                 *)
Close ==
    /\ failures' = 0 /\ age' = None
    /\ streak' = 0 /\ UNCHANGED since

CountUp(n) == IF n > FailMax THEN n ELSE n + 1

(* Mutant: the breaker opens when the count reaches the limit, and not     *)
(* again when a probe fails beyond it.                                     *)
Fail_OnlyAtLimit ==
    /\ failures' = CountUp(failures)
    /\ age' = IF failures' = FailMax THEN 0 ELSE age
    /\ streak' = CountUp(streak) /\ since' = 0

(* The except clause of call for anything but a logic error.               *)
Fail ==
    /\ failures' = CountUp(failures)
    /\ age' = IF failures' >= FailMax THEN 0 ELSE age
    /\ streak' = CountUp(streak) /\ since' = 0

-----------------------------------------------------------------------------
(* The loop of enrich.                                                     *)
At(q, p) == req[q].pc = p

(* Mutant: the loop runs once more than there are alerts.                  *)
AfterPage_OneMore(r) == IF r.i > r.total THEN "done" ELSE "context"

(* Where the loop goes after the page for alert r.i.                       *)
AfterPage(r) == IF r.i >= r.total THEN "done" ELSE "context"

(* The loop after a page for its alert, with a brief about an alert or raw. *)
Paged(r, about) ==
    [r EXCEPT !.pc = AfterPage(r), !.i = @ + 1,
              !.pages = Append(@, [alert |-> r.i, about |-> about]),
              !.brief = IF about = None THEN @ ELSE about]

Page(q, about) == req' = [req EXCEPT ![q] = Paged(@, about)]

(* Mutants: the fallback renders the brief at hand, which may be another   *)
(* alert's; the exception leaves the loop.                                 *)
Passthrough_BriefAtHand(q) ==
    req' = [req EXCEPT ![q] =
        [@ EXCEPT !.pc = AfterPage(req[q]), !.i = @ + 1,
                  !.pages = Append(@, [alert |-> req[q].i, about |-> req[q].brief])]]

Passthrough_Escapes(q) == req' = [req EXCEPT ![q].pc = "done"]

(* All three except clauses.                                               *)
Passthrough(q) == Page(q, None)

Receive(q) ==
    /\ At(q, "done")
    /\ \E n \in 0 .. MaxAlerts :
        req' = [req EXCEPT ![q] =
                    [Idle EXCEPT !.pc = IF n = 0 THEN "done" ELSE "context", !.total = n]]
    /\ UNCHANGED <<breaker, well>>

(* gather_context succeeds, or fails: the retrieval raises or times out,   *)
(* or what it found is over the token budget.                              *)
ContextReady(q) ==
    /\ At(q, "context")
    /\ req' = [req EXCEPT ![q].pc = "triage"]
    /\ UNCHANGED <<breaker, well>>

ContextFails(q) ==
    /\ At(q, "context")
    /\ Passthrough(q)
    /\ UNCHANGED <<breaker, well>>

(* The model client is an argument of the breaker's call: that it cannot   *)
(* be built shows before the breaker is asked.                             *)
ClientFails(q) ==
    /\ At(q, "triage")
    /\ ~well
    /\ Passthrough(q)
    /\ UNCHANGED <<breaker, well>>

Refused(q) ==
    /\ At(q, "triage")
    /\ IsOpen
    /\ Passthrough(q)
    /\ UNCHANGED <<breaker, well>>

CallModel(q) ==
    /\ At(q, "triage")
    /\ ~IsOpen
    /\ req' = [req EXCEPT ![q].pc = "answer"]
    /\ UNCHANGED <<breaker, well>>

(* The provider answers; what it says may not be a valid TriageBrief, which*)
(* shows after the breaker has counted a success.                          *)
Answered(q) ==
    /\ At(q, "answer")
    /\ Close
    /\ Page(q, req[q].i) \/ Passthrough(q)
    /\ UNCHANGED well

(* A ValueError out of the client: neither a failure nor a success.        *)
LogicError(q) ==
    /\ At(q, "answer")
    /\ ~well
    /\ Passthrough(q)
    /\ UNCHANGED <<breaker, well>>

(* The provider fails, or does not answer within the client's timeout.     *)
Outage(q) ==
    /\ At(q, "answer")
    /\ ~well
    /\ Fail
    /\ Passthrough(q)
    /\ UNCHANGED well

Step(q) ==
    \/ ContextReady(q) \/ ContextFails(q)
    \/ ClientFails(q) \/ Refused(q) \/ CallModel(q)
    \/ Answered(q) \/ LogicError(q) \/ Outage(q)

Turn ==
    /\ well' = ~well
    /\ UNCHANGED <<breaker, req>>

Tick ==
    /\ age' = IF age = None \/ age = ResetTimeout THEN age ELSE age + 1
    /\ since' = IF since = ResetTimeout THEN since ELSE since + 1
    /\ UNCHANGED <<failures, streak, req, well>>

Next == (\E q \in Requests : Receive(q) \/ Step(q)) \/ Turn \/ Tick

Spec == Init /\ [][Next]_vars

(* Every await of a request ends: the retrieval has a timeout, and so does *)
(* the client's HTTP call.  The clock runs.                                *)
FairSpec == Spec /\ (\A q \in Requests : WF_vars(Step(q))) /\ WF_vars(Tick)

-----------------------------------------------------------------------------
(* The type of every variable.                                             *)
ETypeOK ==
    /\ failures \in 0 .. FailMax + 1 /\ streak \in 0 .. FailMax + 1
    /\ age \in (0 .. ResetTimeout) \cup {None} /\ since \in 0 .. ResetTimeout
    /\ req \in [Requests -> RequestType]
    /\ well \in BOOLEAN

(* Whatever failed, at whatever point: a request has rendered one page for *)
(* each alert it has dealt with, in their order, and a page's brief is     *)
(* about that page's alert and no other; a request that is done has dealt  *)
(* with all of its alerts (service.py:4-5).                                *)
PagesAreFaithful ==
    \A q \in Requests :
        LET r == req[q]
        IN  /\ Len(r.pages) = r.i - 1
            /\ \A k \in 1 .. Len(r.pages) :
                r.pages[k].alert = k /\ r.pages[k].about \in {None, k}
            /\ r.pc = "done" => Len(r.pages) = r.total
            /\ r.pc # "done" => r.i <= r.total

(* The provider gets a rest: once it has failed FailMax times without an   *)
(* answer, no call starts until ResetTimeout has passed since the latest   *)
(* failure, whichever request, or probe of the half-open breaker, it was.  *)
ProviderGetsARest ==
    [][\A q \in Requests :
        At(q, "triage") /\ req'[q].pc = "answer" =>
            streak < FailMax \/ since = ResetTimeout]_vars

(* An alert always leaves this service, whatever the provider does.        *)
EveryAlertLeaves ==
    \A q \in Requests :
        req[q].pc = "context" ~> req[q].pc = "done" /\ Len(req[q].pages) = req[q].total

(* Once the provider is well for good and requests keep coming as far as   *)
(* the breaker, it closes and stays closed.                                *)
Recovers ==
    <>[]well /\ []<>(\E q \in Requests : At(q, "triage")) => <>[](age = None)
=============================================================================
