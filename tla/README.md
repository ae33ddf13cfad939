# Verification of the self-healing infrastructure labs

TLA+ models, TLC runs and TLAPS proofs for the Python programs of this
repository. The programs are six chapters of one system: an alert is explained
(ch05), an incident is recorded (ch06), an agent investigates it (ch07) through
a tool server (ch04), a runner remediates it (ch08), and a policy layer decides
what the runner may do on its own (ch09). This directory models all six; what is
left out is listed under "Not modelled".

    tlc -workers 2 -config <run>.cfg <module>.tla      # one run
    tlapm <module>.tla                                 # one module's proofs

`PROJECT.json` lists the runs, which source lines each definition stands for,
the hazards of the code and the properties that watch them, and the theorems.

## Inventory

| Part | State | Operations | What is hard |
|---|---|---|---|
| **ch08 runner** `remediator/runner.py`, `verifier.py`, `context.py` | none of its own: the ledger, the audit sink, and the local state of each `execute` call | `execute` (bounds, gate, act, verify, roll back, audit), recursive through `_rollback` | callers overlap without a lock; calls that raise outside any `try`; one deadline for an action and its rollback; recursion |
| **ch08 ledger** `ledger.py` | a bounded deque of entries | `record`, `mark_terminal`, `mark_rolled_back`, `find_open`, `last_action_against`, `all` | read in one step, written in another; eviction |
| **ch08 gate** `reversibility.py` | none | `evaluate`, `_adjust` | thresholds; evaluated before the write it guards |
| **ch08 handlers** `handlers/*.py` | the cluster's deployments | `inspect`, `execute`, a probe each | read-modify-write of the replica count; an error after the effect |
| **ch09 policy runner** `policy_runner.py` | local state of each call | `execute`: switches, policy, routing, constraints, delegation | every step is a network call; the world moves between them |
| **ch09 kill switch** `kill_switch.py` | one Redis key per scope, an audit list | `trip`, `reset`, `is_tripped`, `info` | TTLs; two commands per operation; races with the runner |
| **ch09 policy** `policies/autonomy.rego`, `opa_client.py`, `models.py` | a cached bundle version | `evaluate` | rules that conflict; no answer |
| **ch09 approvals** `approval.py` | one Redis key per request, an index | `enqueue`, `get`, `list_pending`, `decide` | GET, SET and ZREM are separate commands; expiry; crashes |
| **ch04 tool server** `server.py`, `policy.py`, `auth.py`, `audit.py` | the cached key set, the audit store | authenticate, authorise, rate-limit, run a tool, audit | key rotation against concurrent fetches; the audit event comes last, so a failure can lose it |
| **ch04 incidents** `tools/incidents.py` | incident rows | `create` | a re-issued call and its original overlap: lookup, insert and read-back are three round trips |
| **ch04 rate limiter** `ratelimit.py` | a sorted set per tenant and tool | `enforce_rate_limit` | the score is the caller's clock, the count is Redis's; refused calls count |
| **ch05 explainer** `service.py`, `breaker.py`, `context.py`, `render.py` | failures and opening time of the breaker | `enrich`, `call`, `reset` | requests overlap and share the breaker; the half-open window; a local that outlives an iteration |
| **ch06 scribe** `watcher.py`, `nudge.py`, `store.py`, `drafter.py`, `audit.py` | timelines, nudge counts, the audit trail | `ingest_message`, `maybe_nudge`, `draft` | late, reordered and repeated messages; check-then-act across awaits |
| **ch07 agent** `supervisor.py`, `scheduler.py`, `workers/*.py`, `gate.py`, `tools.py`, `agentops.py`, `mcp_client.py` | the shared trace | plan, validate, run workers in parallel, diagnose, render | partial failure in every combination; cancellation; a plan that nobody validated |

How they interact: `PolicyRunner.execute` calls `KillSwitch.is_tripped`, then
`OPAClient.evaluate`, then either `ApprovalQueue.enqueue` or
`Runner.execute`, whose ledger it also reads to build the policy input.
`Runner.execute` calls a handler (which calls Kubernetes), a probe (which polls
Kubernetes or metrics until the context's deadline), itself (for the rollback)
and the audit sink. Nothing executes an approved request: the queue is read by
people. Operators call `KillSwitch` on their own.

Chapters 4 to 7 share no state with each other or with 8 and 9. The clients of
chapters 5, 6 and 7 post to `/tools/<tool>` and `/audit` of a gateway; the
server of chapter 4 speaks the MCP transport and exposes neither path, so the
code gives no composition of them to model. Each is modelled with its gateway
as an environment that answers, refuses or fails.

## Modules

| Module | Models | Used by |
|---|---|---|
| `Reversibility` | the gate: `Adjust` is `_adjust`, `Proceeds` the test of `evaluate` | `Remediator` |
| `Ledger` | the ledger's methods as operators on a sequence of bounded length | `Remediator` |
| `Remediator` | `Runner.execute`, the handlers, the verifier and the audit sink | `MCRemediator`, `PolicyRunner` |
| `ClosedLoop` | the abstract contract: a call opens, has at most one effect, and ends in one record or in an exception | refined by `Remediator` |
| `KillSwitch` | the switch: keys with or without TTL, operators, the audit list | instantiated by `PolicyRunner` |
| `Policy` | the Rego bundle and its client as a function | `PolicyRunner` |
| `PolicyRunner` | the wrapper, composed with the three above | `MCPolicyRunner` |
| `ApprovalQueue` | the queue as Redis commands | `MCApprovalQueue` |
| `Gateway` | the tool server of ch04: keys, policy, limiter, both tools, audit, restarts | `MCGateway` |
| `AtMostOnce` | the abstract promise of incident creation | refined by `Gateway` |
| `Explainer` | `/enrich` and the circuit breaker of ch05 | `MCExplainer` |
| `Scribe` | the watcher, nudges, drafter and audit of ch06 | `MCScribe` |
| `Investigation` | supervisor, scheduler, workers, gate and trace of ch07 | `MCInvestigation` |
| `RemediatorProofs` | the theorems about `Remediator`'s calls: types, nesting, accounting, the audit trail | `LedgerProofs` |
| `LedgerProofs` | the theorems about its ledger and what the runner reads there: agreement with the trail, refinement, bounds, gate, rollback | `PolicyRunnerProofs` |
| `PolicyRunnerProofs`, `ApprovalQueueProofs`, `GatewayProofs`, `ExplainerProofs`, `InvestigationProofs`, `ScribeProofs` | the theorems about the module each is named after | |

### Remediator

One call of `execute` is a *frame*: a record with a program point, the event
id, the action, the realized tier, and what the handler has read. The recursive
call of `_rollback` is a frame one level deeper, so a caller has a frame per
depth (`frame`), a running one (`top`), and the arguments all its frames share
(`ctx`). A frame yields wherever the code leaves the process or writes shared
state:

| Point | Code | Action |
|---|---|---|
| `bounds` | `_check_safety_bounds`, 66-72 | `CheckBounds` |
| `inspect` | `handler.inspect`, 75-76 | `Inspect` |
| `gate` | 79-95: refuse, dry run, or `ledger.record` | `Gate` |
| `act`, `write` | `handler.execute`, 96-103 | `Patch`, `ReadReplicas`, `WriteReplicas`, `HandlerRaises` |
| `poll`, `sleep` | `verify`, `poll_until` | `Poll`, `Wake` |
| `rollback`, `nested` | `_rollback`, 180-199 | `Rollback` |
| `close` | `mark_terminal`, `mark_rolled_back` | `Close` |
| `emit` | `_emit` and the return | `Emit` |

`CallRaises` is an exception of `inspect`, of a probe or of the sink, which
nothing catches: it unwinds every frame of the call. `Tick` is the clock.
`writes` and `raised` are history variables, read only by properties.

Abstractions, all of data: a tick stands for the seconds that matter (the
polling interval and the dwell window are constants); namespace and deployment
are one name; tenants, actors, reasons and trace ids only as far as something
compares them; a probe's answer is free, since it comes from the cluster; the
two ledger reads of the bounds check are one step, and each ledger method is
atomic; a sink that raises has not written; a Kubernetes call that raises may
or may not have been applied. An unknown action name (a `KeyError` before
anything else) is left out.

### KillSwitch, Policy, PolicyRunner

A switch is the expiry time of its key (`Never`, or 0 for no key). `trip` and
`reset` are two commands, and an operator may die between them. `Policy.Decide`
maps a policy input to a decision: `Derived` are the bodies of the rule
`decision` that match, two different ones are an evaluation error, and so is a
history in which some event has two damage values; every error is the client's
denial. `PolicyRunner` extends `Remediator`: a call looks at three switches in
turn, asks the policy (which may not answer), and is denied, queued or
delegated by `Remediator!Call` with the constrained parameters and the time the
call has already used up. `armed` remembers which switches have been on since
the call began, `grants` which delegated call was allowed by which decision.
What the caller claims (the tier, the pods at stake) is an input, as in the code.

### ApprovalQueue

`enqueue` is SET with a TTL, then ZADD; `decide` is GET, SET without a TTL,
then ZREM. Approvers, enqueuers and expiry interleave between any two commands,
and a process may die there. A decision is any string a caller sends, `pending`
included, since nothing validates it and it becomes the status. `last`, `kept`
and `late` are history: what was written last, whether a call that had read in
time wrote `pending`, and whether one that had read too late wrote at all.

### Gateway, AtMostOnce

A call is one HTTP request; a client that lost its answer re-issues it as
another call. It stops at every await:

| Point | Code | Actions |
|---|---|---|
| `new` | `_get_jwks` with a cached key set, or a fetch | `UseCachedKeys`, `FetchKeys` |
| `fetch`, `store` | the issuer answers; the answer replaces the cache | `IssuerAnswers`, `StoreKeys`, `FetchFails` |
| `limit` | the Redis transaction of `enforce_rate_limit` | `Admit`, `RedisFails` |
| `search` | `runbooks.search` | `RunSearch`, `ToolFails` |
| `lookup`, `insert`, `reread` | the three awaits of `incidents.create` | `LookUp`, `Insert`, `ReadBack`, `ToolFails`, `InsertIsLost` |
| `audit` | `emit_audit_event` and the answer | `Audit`, `AuditFails` |

Verification and authorisation do not await and belong to the action before
them. A token is the key that signed it and its claims. The policy in force is
chosen anew for every call, since `reload_policy` may replace it between any two
of them; a property may therefore say nothing that depends on which one it was.
`Restart` drops the calls in flight and the key cache; Redis and the rows stay.
The repository's database is a stub in memory with the interface of a real one;
the model is of the real one, whose rows survive. `InsertIsLost`, `AuditFails`
and the second half of `RedisFails` are services that fail after their effect.
`AtMostOnce` has two actions: a slot is filled by one call, and a call is told
of a filled slot. `retired` and `gate` are history.

### Explainer

A request is the loop of `enrich`: which alert it is at, the local `brief`, and
the pages it has rendered. A page is two alerts: the one it shows and the one
its brief is about. The breaker's `_failures` is counted to one past its limit,
beyond which nothing differs; `_opened_at` is an age that stops growing at the
reset time, so neither needs a bound. `Turn` takes the provider down and up.
A `ValueError` passes the breaker without being counted (`LogicError`); an
answer that is no `TriageBrief` counts as a success first (`Answered`).

### Investigation

A plan is a sequence of subtasks and whether it keeps to deadline and cost.
`Parses` is the schema, `Valid` is `validate_plan`. Nothing in the package calls
`plan` and then `execute`: the caller is part of the model, and so is one who
executes a plan `plan` did not return (`RunOtherPlan`, the case
`mcp_client.py:21-23` speaks of) and one who gives up (`Cancel`). A worker is a
state per subtask; `results` are the positions of the subtasks that succeeded.
`asked` and `diagnosed` remember how the model calls ended.

### Scribe

A message is its incident, its category, its time, and which of the phrases
`_contradicts` looks for it contains. `Ingest` may take any message that has
been sent, at any time, again. The store never suspends; the audit sink and the
model do, and a task that waits for one holds the event it will finish with.
`AUDIT_SINK` is chosen when the process starts (`sink`): to standard output an
event is recorded in the same step, over HTTP it is recorded, lost, or recorded
without an answer. A message stamped in epoch seconds is classified, then
`fromisoformat` raises (`IngestUnreadable`). `posted`, `missed` and `happened`
are history; `happened` counts what the scribe did, apart from any event: messages
stored, messages classified that could not be read, nudges counted, drafts
written of a timeline and of none.

## Runs

| Run | Checks | Instance |
|---|---|---|
| `remediator_sequential` | `WritesWereGated`, `ScaleRollbackUndoes`, `NoActionStorm`, `OnlyOpenActionsMutate`, types | one caller, 12 requests over four actions, two deployments (one without a readiness probe), two tenants, rollout ages on each side of both age limits, handlers and probes that raise |
| `remediator_overlap` | `EveryCallAccounted`, `LedgerMatchesAudit`, `AuditTellsTheTruth`, `InFlightIsFindable`, `RollbackNeverVerified`, `HistoryIsFinal`, `ImplementsClosedLoop` | two callers; handlers, probes and the audit sink may raise; a ledger of two, so that entries of actions in flight are evicted |
| `remediator_nested` | `StackOK` (which bounds the rollback chain), `ScaleDwellHonoured`, `EveryCallEnds` | a registry where inverses have inverses, so the depth limit refuses a call; up to three calls of scale (either sign) and its inverse on one deployment; everything outside may raise |
| `approvals` | `HiddenRequestsExpire`, `DefaultDeny`, `AnswersStand`, `NoRequestWaitsForever`, types | two requests, two approvers who answer `approve`, `deny` or `pending`, a TTL of two ticks, crashes between any two commands |
| `autonomy` | `TripsAreHonoured`, `WritesWereGranted`, `RunnerUnchanged`, types | one caller, two operators with two operations, business hours and not, ceilings above and below the policy's |
| `gateway` | `RateLimitIsExact`, `TrailMatchesRows`, `RetiredKeysLapse`, `ImplementsAtMostOnce`, types | three calls of two requests (a write whose key the server derives, and a search, signed by different keys), two policies, one key rotation, restarts, every service failing before or after its effect |
| `explainer` | `PagesAreFaithful`, `ProviderGetsARest`, `EveryAlertLeaves`, `Recovers`, types | two requests of up to three alerts that share a breaker of limit three |
| `investigation` | `ToolsStayWithinTheLine`, `EvidenceIsHonest`, `TraceIsComplete`, `EveryInvestigationEnds` | two investigations over eight plans: good ones, and one for each way of breaking a bound |
| `scribe` | `NudgeBudgetKept`, `EveryActionAudited` | either sink, two tasks on one incident, messages that are stored, cannot be read or are no incident's, three entries, a budget of two |

Three more runs end in a counterexample on purpose: each states what a
docstring, a comment or a test of the repository says, and shows that the code
does otherwise.

| Run | The text | What happens |
|---|---|---|
| `remediator_storm_race` | `tests/test_safety_bounds.py:30-32`: a second restart while the first is in flight is refused | check and record are separate steps; both callers act |
| `autonomy_budget` | `autonomy.rego:62`, `budget.rego:17-19`: the budget denies when exhausted | one ledger entry makes the evaluation fail, and every later call is denied |
| `approvals_reopened` | `approval.py:4-5`: "Time-boxed approval ... with default-deny on timeout" | the decision `pending` passes; it is written back without a TTL, then taken out of the index: the request is pending for ever and no list shows it |

### More divergences on record

Nine further configurations are kept beside the runs and end in a
counterexample too:

* `remediator_probe_raises`: `runner.py:4-5` promises exactly one event per
  action; a probe that raises leaves none.
* `remediator_no_inverse`: `README.md:66` of ch08; `rolled_back` without an
  inverse that ran.
* `remediator_scale_shrinks`: `handlers/scale.py:33`; a ceiling below the current
  count scales in.
* `remediator_alternating`: `runner.py:153` speaks of a minimum dwell between an
  action and its inverse; `last_action_against` returns the latest entry of any
  kind, so an action that is no scale, lying between two opposite scale actions,
  hides the first from the second.
* `approvals_double_decide`: `tests/test_approval.py:53-57`; two approvers read
  `pending`, and both are answered.
* `approvals_resurrected`: `approval.py:76`; a decide call that read the record in
  time writes it after the key has expired.
* `autonomy_tripped_rollback`: `kill_switch.py:4-6`; a rollback runs an action
  whose switch is on.
* `scribe_contradiction`: `nudge.py:66`, "Two recent messages contradict on the
  state of the service."; "not recovered" contains "recovered", so one message
  stands on both sides, and a nudge is spent on it.
* `scribe_incomplete`: `audit.py:3-5`, "One complete answer, not three partial
  ones"; on standard output too, a message that cannot be read is classified
  (`watcher.py:34`) and a draft of an empty timeline is generated
  (`drafter.py:47`), and no event tells of either.

Noticed while modelling, and represented in the models without a run:

* ch06: a live Slack event carries epoch seconds in `ts`, for which
  `fromisoformat` raises; such messages are in no timeline (`IngestUnreadable`).
* ch06: a nudge whose event could not be confirmed is spent, not posted, and
  perhaps recorded as posted.
* ch07: `deadline_ms` and the cost of a subtask are validated, never enforced
  while it runs (`README.md:64-71` reads as if they were); only the plan request
  passes the token preflight, the diagnosis payload does not; a cancelled step
  is not in the trace; `authorize_write` has no caller.
* ch05: past the reset time every waiting request probes the provider, not only
  the next one (`breaker.py:29`); two settings, `BREAKER_FAIL_MAX` and
  `MODEL_TIMEOUT`, are read by nothing.
* ch04: calls that were refused count in the window, so a tenant that keeps
  calling stays limited; a row may be committed and its only event be a replay's;
  the derived key joins its parts with "|", so two different inputs may have one
  key (the models take the joined text as the input).

### Bounds, and why they are enough

`MaxTime` stops the clock, `MaxIssued` the start of new calls, `MaxOps` the
operators, `MaxCalls` the calls of the policy runner; a call starts only if the
clock can still reach its deadline, so every call in a run ends within the
bounds. Since the bounds make every run stop, deadlock is not checked; that
calls end is `EveryCallEnds`. Most properties relate at most two calls of one
caller (an action and its rollback) or two
callers on one resource, so one caller with two issued ids or two callers with
one each (and a nested call each) reach the patterns. The dwell window also asks
for what lies between two opposite scale actions, so `remediator_nested` issues
three ids: scale out, something, scale in, with a window of two ticks and a clock
that reaches three, on both sides of it. `Capacity` is two in
`remediator_overlap`, where four entries can be recorded, and exceeds the entries
elsewhere. Two ceilings, one
under and one over the policy's eight replicas, tell `min` from replacement. A
TTL of two ticks in a clock of three lets a decision be read before and written
after the deadline, and a request be pending past it; two approvers let a
`pending` and an answer cross.
Callers are interchangeable in the overlapping run and operators in the
autonomy run, so symmetry is used there; neither checks liveness.

Three calls of the tool server are an original, its re-issue, and one more to
fill a window or to hold an older answer of the issuer; two signing keys are one
rotation. Its limits are one and two calls, a window is three ticks with a lag
of one, and a cached key set lives one tick, so that windows slide and caches
expire before the clock stops at three. Three alerts and a breaker of limit
three let two requests trip it together, fail a probe beyond the limit, and
carry a brief from one alert past a failed one. The explainer has no bound on
time: requests and outages recur for ever. Two subtasks and a limit of two make
one plan too long and let each subset of the workers fail. Two tasks, a budget
of two and a minimum of two entries let two checks overlap at the last nudge;
three entries put one beyond the two that `_contradicts` looks at, and one draft
and one unreadable message are enough to upset a count. The symmetry
of calls and tasks is used where only safety and refinement are checked.

Each property has a mutant of the code's model (a dropped guard, an off-by-one,
a swapped order; defined above the definition it changes) that the run refutes.

### Properties that need callers not to overlap

`NoActionStorm`, `ScaleDwellHonoured`, `WritesWereGated` and
`ScaleRollbackUndoes` are checked with one caller (`ScaleDwellHonoured` in
`remediator_nested`). Nothing in the runner locks,
so with two callers the first is false (`remediator_storm_race`), the second
fails in the same way, and the others lose their meaning: the site a gate saw may
have changed by the time of the write. The proofs say how far this goes: they need no more than that calls
under way are against different deployments (`Apart`), whoever makes them.

### Fairness

`EveryCallEnds` assumes that time passes (`WF(Tick)`) and that a thread inside
`execute` keeps running (`WF(Run(c))`): the code between two points has no wait
but `time.sleep`, whose length is the polling interval. It assumes nothing
about the probe. `NoRequestWaitsForever` assumes only that time passes: expiry
alone must settle a request, since no approver has to answer and any process
may die.

`EveryAlertLeaves` assumes that each step of a request ends (`WF(Step(q))`): the
retrieval runs under `asyncio.wait_for` and the model's client has a timeout of
its own, so every await of the loop returns or raises. `Recovers` adds the clock,
and has the recovery of the provider and the requests that reach the breaker as
premises: the code promises neither. Nothing is assumed about what the provider
answers. `EveryInvestigationEnds` assumes the same of the model's and the
gateway's clients (`WF(Work(i))`), and nothing of the caller, who need not give
up.

## Proofs

TLAPS proves, for every set of callers, deployments, tenants, operators and
requests, every registry, every pattern of faults and every bound:

| Theorem | Statement |
|---|---|
| `RemediatorProofs!TypeCorrect` | `Spec => []TypeOK` |
| `RemediatorProofs!NestingDiscipline` | `Spec => []StackOK` |
| `RemediatorProofs!EveryCallIsAccounted` | `Spec => []EveryCallAccounted` |
| `RemediatorProofs!AuditIsTruthful` | `Spec => []AuditTellsTheTruth` |
| `LedgerProofs!LedgerAgreesWithTrail` | `Spec => []LedgerMatchesAudit` |
| `LedgerProofs!HistoryStands` | `Spec => HistoryIsFinal` |
| `LedgerProofs!RefinesClosedLoop` | `Spec => ImplementsClosedLoop` |
| `LedgerProofs!RollbacksStayUnverified` | `Spec => []RollbackNeverVerified` |
| `LedgerProofs!InFlightActionsAreFound` | `Spec => []InFlightIsFindable` |
| `LedgerProofs!MutationsAreInFlight` | `Spec => OnlyOpenActionsMutate` |
| `LedgerProofs!ChainsStayBounded` | `Spec => []RollbackChainBounded` |
| `LedgerProofs!NoStormWhenApart` | `Spec /\ []Apart => []NoActionStorm` |
| `LedgerProofs!DwellWhenApart` | `Spec /\ []Apart => []ScaleDwellHonoured` |
| `LedgerProofs!GatedWhenApart` | `Spec /\ []Apart => []WritesWereGated` |
| `LedgerProofs!RollbackUndoesWhenApart` | with the two scale handlers registered, `Spec /\ []Apart => []ScaleRollbackUndoes` |
| `LedgerProofs!SequentialCallsAreSafe` | with those handlers and one caller, all four without `Apart` |
| `PolicyRunnerProofs!PolicyRunnerTyped` | `PolSpec => []PolTypeOK` |
| `PolicyRunnerProofs!KillSwitchHolds` | `PolSpec => []TripsAreHonoured` |
| `PolicyRunnerProofs!RunnerContractKept` | `PolSpec => RunnerUnchanged` |
| `PolicyRunnerProofs!TrailBehindPolicy` | accounting, truthfulness, agreement of the ledger, its finality and the refinement, behind the policy |
| `PolicyRunnerProofs!MutationsWereGranted` | `PolSpec => []WritesWereGranted` |
| `PolicyRunnerProofs!BoundsBehindPolicy` | `PolSpec /\ []Apart => [](NoActionStorm /\ ScaleDwellHonoured /\ WritesWereGated)` |
| `GatewayProofs!GatewayTypes` | `Spec => []GTypeOK` |
| `GatewayProofs!TrailIsTrue` | `Spec => []TrailMatchesRows` |
| `GatewayProofs!AtMostOnceHolds` | `Spec => ImplementsAtMostOnce` |
| `GatewayProofs!RetiredKeysDie` | `Spec => RetiredKeysLapse` |
| `GatewayProofs!RateLimitHolds` | `Spec => []RateLimitIsExact` |
| `ExplainerProofs!ExplainerTypes` | `Spec => []ETypeOK` |
| `ExplainerProofs!PagesHold` | `Spec => []PagesAreFaithful` |
| `ExplainerProofs!RestIsKept` | `Spec => ProviderGetsARest` |
| `InvestigationProofs!InvestigationTypes` | `Spec => []ITypeOK` |
| `InvestigationProofs!LineIsKept` | `Spec => []ToolsStayWithinTheLine` |
| `InvestigationProofs!EvidenceHolds` | `Spec => []EvidenceIsHonest` |
| `InvestigationProofs!TraceHolds` | `Spec => []TraceIsComplete` |
| `ScribeProofs!ScribeTypes` | `Spec => []STypeOK` |
| `ScribeProofs!BudgetHolds` | `Spec => []NudgeBudgetKept` |
| `ScribeProofs!AuditHolds` | `Spec => []EveryActionAudited` |
| `ApprovalQueueProofs!QueueTyped` | `Spec => []QTypeOK` |
| `ApprovalQueueProofs!HiddenOnesExpire` | `Spec => []HiddenRequestsExpire` |
| `ApprovalQueueProofs!DeniedByDefault` | `Spec => []DefaultDeny` |
| `ApprovalQueueProofs!AnswersAreKept` | `Spec => AnswersStand` |

They rest on the named assumptions about constants (`RegistryAssumption`,
`RequestsAssumption`, `ParametersAssumption`, `NoContextAssumption`,
`CapacityAssumption`, `ClaimsAssumption`, `SwitchAssumption`,
`QueueAssumption`, `GatewayAssumption`, `ExplainerAssumption`,
`InvestigationAssumption`, `ScribeAssumption`), which say that the constants have
the types their comments give, that calls and tasks are finite where they are
counted, and that what delegation produces is among the requests. TLC evaluates
them on every run. Some theorems of the ledger have a hypothesis more, each
stated in the theorem; none of them bounds what is recorded:

* *Apart*: at every moment, two calls under way are against different
  deployments. It is a condition on the callers' schedule and not on constants,
  any number of them may overlap, and one caller meets it trivially
  (`SequentialCallsAreSafe`). Without it `NoActionStorm` is false, as
  `remediator_storm_race` shows, since nothing locks between the check, the gate
  and the act.
* *ScaleRegistered*: the names `scale` and `scale_inverse` are bound to their
  own handlers, as `tests/conftest.py` of ch08 builds the runner; the other names
  may be bound to anything.

The arguments:

* *Nesting.* `TypeOK` alone is not inductive: the entry a gate records takes
  its fields from the running frame and its context, so it is typed only if
  they are there. `StackOK` says so: frames above the running one wait, frames
  below are idle, ids grow with depth, and a frame past the depth limit gets no
  further than the bounds check. `IInv == TypeOK /\ StackOK` is inductive, one
  lemma per action; the lemmas share one for what replacing the running frame
  preserves, one for pushing a frame, one for clearing them.
* *Accounting.* The live ids (those of the frames down to the running one),
  the lost ids and the recorded ids partition the ids drawn. The invariant adds
  that no id is recorded or lost before it is drawn. An action either moves no
  id, draws one (`Start`, `Rollback`), records one (`Emit`) or loses all live
  ones (`CallRaises`).
* *Truthfulness.* The invariant relates the point of a frame to whether its id
  has been written: not before `act`, exactly once from `poll` on, and the
  outcome a frame carries agrees; an id nobody has drawn has no write.
* *Ledger.* `LedgerOK` gives every entry its state: it agrees with the frame
  that recorded it as long as that frame lives (open from the record to the
  mark, closed while the event is written), and with its audit record after.
  Only `Gate` and `Close` write the ledger (`LedgerWriters`), and only `Close`
  changes an entry, its own (`CloseMarks`); an id belongs to one frame
  (`SameId`). The three theorems on agreement, finality and refinement are read
  off this invariant and those of accounting and truthfulness.
* *Deadlines.* `DeadlinesOK`: a frame that has turned to its rollback is past the
  deadline of its context, unless its action has no probe. The child shares the
  context, so its verification cannot settle on ok.
* *Eviction.* The deque drops its oldest entry silently (`ledger.py:33-37`), open
  or not, and a process records without end. What still holds for every capacity
  is that only later actions crowd an entry out: `OrderOK` says that the ledger is
  in the order of time, so when `Gate` evicts, all that stays was recorded since
  the evicted call began. `FoundOK`: an open frame's entry is in the ledger, or
  the ledger is full of entries younger than the call (`CrowdedOut`). Fewer
  than `Capacity` actions since a call began are therefore not enough to lose its
  entry.
* *Chains.* `ParentsOK`: an entry of a frame has the frame's depth, and an
  exception that takes a rollback takes its parent with it. So a frame that
  closes leaves no open child (`NoOpenChild`): a child that returned has its
  record, and one that raised would have raised the parent. A parent recorded
  before its child leaves the ledger before it, which is the exception that
  `RollbackChainBounded` makes.
* *Calls that do not meet.* `SeparateOK` adds to the two properties what a call
  between its bounds check and its record still knows: no open entry of its
  kind, and no recent opposite one, against its deployment. Other calls only
  record against other deployments (`OthersEntries`), so it knows it until it
  records. The dwell window is a claim about any two opposite scale actions, while
  the runner looks at one entry, the last one against the deployment
  (`LastAgainst`). If that one is a recent scale, it has the new one's sign, and any
  earlier scale opposite to the new one is opposite to it too (`SignOfMiddle`),
  so the invariant already has an entry between those two that `Hides` the first;
  if it is no scale, or one by zero, it is such an entry itself. The gate and the undoing follow the same pattern, with what the
  handler saw of the site and of the count: `GatesOK` and `UndoOK`; the last one
  rests on the arithmetic of the two handlers (`InverseUndoes`).
* *Grants.* `GrantsOK`: a call under way has a grant for its first id, its ceiling
  is no higher than the claimed one and the decision's, and the target a
  scale-out has computed is within it. `RootOfFrame` leads from any write, a rollback's included, back to
  that first id.
* *Refinement.* A step of the policy runner is a step of the runner or leaves
  its variables alone. The only hard case is `Delegate`: the request it passes
  on is one of the runner's because a decision enters only through its cap, and
  because a call under way began in the past (`PolInv`).
* *Switches.* `PassedOK`: the scopes a call has already looked at are not among
  those on since it began. A switch that was off when it was looked at is out
  of `armed`, and `armed` only shrinks while the call lasts.
* *Approvals.* `RecordsOK`: a record nobody has decided expires at its deadline,
  which is ahead; one that was decided holds what was written last and has no
  TTL; a record written back as `pending`, or written by a call that had read it
  late, owes that to a call that read in time and wrote `pending` (`kept`).
  `DesksOK`: a call under way read in time, or after such a call. `IndexOK`: an
  enqueued request that nobody decided is listed. Their conjunction with the types
  (`QInv`) is inductive, whatever the strings are.
* *Incidents.* `RowsInv`: what a call is about to be told is true of the rows, a
  call that has not concluded has filled no row, an event is only of a call that
  is done. Every step of a call fills a slot, concludes with a true answer,
  tells, or does neither (`StepKinds`); these are the steps of `AtMostOnce`.
* *Keys.* `KeysInv` bounds the expiry of a cached retired key, and the age of an
  answer on its way: an answer that names a key was given before it was retired,
  and a fetch takes at most `FetchTime`.
* *Rate limit.* `WindowInv` relates the sorted set to the calls: its members are
  calls that were counted, and every counted call not yet a window old is among
  them, however late its command came. A step that lets a call through counts a
  set that contains the calls of any window of the shortened length; one that
  turns it away counts only calls made within the window before.
* *Explainer.* `BreakerInv`: the breaker's count is the number of failures in a
  row and, at its limit, its age is the time since the last of them, so an open
  breaker is one whose provider has had no rest.
* *Investigation.* `Consistent` says which fields a program point has filled,
  `Gleaned` what the scheduler made of the workers, `GatewayInv` that every call
  was permitted when it left. The trace is proved by counting sets: each record
  is the cardinality of the steps that ended that way, and a step ends once
  (`TraceInv`).
* *Scribe.* `Balanced`: recorded, lost and waiting events add up to those due,
  and on standard output none waits or is lost; `Kept`: a timeline and the nudge
  count are what was done to them, counted apart from the events; `HandedBack`: on
  standard output every counted nudge has been posted; `Budget`: posted and waiting
  nudges are within those counted. They
  rest on counting the tasks whose event is on its way (`EmitAdds`,
  `ArrivalRemoves`), and on `Drafts`, that a drafting task holds a draft's event.

Only model-checked: liveness (`EveryCallEnds`, `NoRequestWaitsForever`,
`EveryAlertLeaves`, `Recovers`, `EveryInvestigationEnds`), which the prover does
not handle under fairness. Every invariant, action property and refinement that
a passing run checks is also a theorem.

## Not modelled

* `budget.rego` is a second package that nothing in the program queries.
* The transport's own token verifier and the signature check are libraries; a
  token is the key that signed it.
* Redaction of names, prompts, page and postmortem wording, token estimates:
  text transformations that no property is about. A model's answer is any answer
  of the right shape, or an error.
* The read-only operations: `KillSwitch.info`, the queue's `get` and
  `list_pending`, the bundle version, `breaker.reset` (called by tests only) and
  `authorize_write` (called by nothing).
* Terraform, workflows, fixtures and verification scripts.
* The composition of chapters 4 to 7, for the reason given in the inventory.

## What could come next

`EveryCallEnds` rests on a measure (the time left and the points ahead of a
frame) whose decrease at every step is a safety property and could be proved;
the step from there to liveness could not. A ledger whose iteration another
thread disturbs (`ledger.py:73`) would need the deque's steps below the grain of
a method.
