------------------------------- MODULE Gateway -------------------------------
(***************************************************************************)
(* The tool server of chapter 4 (mcp_server): authentication with a cached *)
(* key set, policy, a sliding-window rate limit in Redis, two tools (a     *)
(* search and the idempotent creation of an incident) and an audit event   *)
(* per call.  A call is one HTTP request; a client that lost an answer     *)
(* re-issues it as another call.  Calls interleave wherever the code       *)
(* awaits, and every service it awaits may fail before or after its effect.*)
(***************************************************************************)
EXTENDS Integers, FiniteSets

CONSTANTS
    Calls,          \* the requests, re-issued ones included
    Tenants, Subjects, Roles, SigningKeys,
    Texts,          \* title, severity and summary joined by "|"
    Keys,           \* idempotency keys clients pass
    FirstKey,       \* the key the issuer starts with
    None,           \* no key, no claim, nothing yet
    Requests,       \* what a call may carry
    Policies,       \* what policy.yaml may say: a rule per tool
    Limit, Window,  \* LIMITS: calls per window, and its length
    KeyTTL,         \* _JWKS_TTL_SECONDS
    FetchTime,      \* longest time between the issuer's answer and its use
    MaxLag,         \* longest time between reading the clock and Redis
    MaxTime         \* bound: the clock stops here

Search == "runbooks.search"
Create == "incidents.create"
Tools  == {Search, Create}

RequestType ==
    [tool : Tools, tenant : Tenants \cup {None}, sub : Subjects,
     roles : SUBSET Roles, text : Texts, key : Keys \cup {None},
     signedBy : SigningKeys]

RuleType == [tenants : SUBSET Tenants, roles : SUBSET Roles, approval : BOOLEAN]

VARIABLES
    now,
    issuer,     \* the key the issuer signs with; its key set holds no other
    retired,    \* history: when a key stopped being the issuer's
    jwks,       \* _jwks_cache and _jwks_expiry
    window,     \* rl:<tenant>:<tool>: the scored members
    rows,       \* incidents: per tenant and key, the call that inserted
    trail,      \* the audit events: call and outcome
    call        \* per call: where it is and what it has read

vars == <<now, issuer, retired, jwks, window, rows, trail, call>>
server == <<issuer, retired, jwks, window, rows, trail>>

-----------------------------------------------------------------------------
(* The unique key of an incident: the tenant, and the key the client gave  *)
(* or one derived from the subject and the text.                           *)
DerivedKey(r) == <<"auto", r.sub, r.text>>
Slot(r) == <<r.tenant, IF r.key # None THEN <<"key", r.key>> ELSE DerivedKey(r)>>
Slots   == {Slot(r) : r \in {q \in Requests : q.tenant # None /\ q.tool = Create}}

(* authorize; an allowed_tenants of "*" is the set of all tenants.         *)
Authorized(policy, r) ==
    /\ r.tool \in DOMAIN policy
    /\ r.tenant \in policy[r.tool].tenants
    /\ policy[r.tool].roles \subseteq r.roles
    /\ policy[r.tool].approval => "approver" \in r.roles

Points == {"new", "fetch", "store", "limit", "lookup", "insert",
           "reread", "search", "audit", "done"}
Refusals == {"denied", "rate_limited"}
Results  == Refusals \cup {"found", "success", "idempotent_replay"}

ASSUME GatewayAssumption ==
    /\ IsFiniteSet(Calls)
    /\ Requests \subseteq RequestType
    /\ \A p \in Policies : DOMAIN p \subseteq Tools /\ \A t \in DOMAIN p : p[t] \in RuleType
    /\ None \notin Calls \cup Tenants \cup Keys \cup SigningKeys \cup Requests
    /\ None \notin Results \cup Nat
    /\ FirstKey \in SigningKeys
    /\ Limit \in [Tools -> Nat]
    /\ {Window, FetchTime, MaxLag, MaxTime} \subseteq Nat
    /\ KeyTTL \in Nat \ {0}

(* at: the clock the call read; seen: the issuer's answer; result: what    *)
(* its audit event, and then its client, is told; gate: what the limiter   *)
(* did with the call, which is history.                                    *)
CallType ==
    [pc : Points, req : Requests \cup {None}, at : Nat,
     seen : SigningKeys \cup {None}, result : Results \cup {None},
     gate : {"none", "in", "out", "lost"}]

Fresh == [pc |-> "new", req |-> None, at |-> 0, seen |-> None,
          result |-> None, gate |-> "none"]

Init ==
    /\ now = 0
    /\ issuer = FirstKey
    /\ retired = [k \in SigningKeys |-> None]
    /\ jwks = [keys |-> None, expiry |-> 0]
    /\ window = [b \in Tenants \X Tools |-> {}]
    /\ rows = [s \in Slots |-> None]
    /\ trail = {}
    /\ call = [c \in Calls |-> Fresh]
-----------------------------------------------------------------------------
At(c, p) == call[c].pc = p
Req(c)   == call[c].req
Goto(c, p) == call' = [call EXCEPT ![c].pc = p]

(* An exception the tool wrapper does not catch: no audit event, no answer. *)
Raise(c) ==
    call' = [call EXCEPT ![c].pc = "done", ![c].seen = None, ![c].result = None]

(* What is left is the audit event and the answer.                         *)
Conclude(c, outcome) ==
    call' = [call EXCEPT ![c].pc = "audit", ![c].result = outcome]

(* jwt.decode against a key set and the test for the tenant claim; then    *)
(* authorize, by the policy in force, which reload_policy may have replaced*)
(* since any other call.  An allowed call reads the limiter's clock.       *)
Verify(c, r, keys) ==
    IF keys # r.signedBy \/ r.tenant = None
    THEN call' = [call EXCEPT ![c] = [Fresh EXCEPT !.pc = "done", !.req = r]]
    ELSE \E policy \in Policies :
            call' = [call EXCEPT ![c] =
                IF Authorized(policy, r)
                THEN [Fresh EXCEPT !.pc = "limit", !.req = r, !.at = now]
                ELSE [Fresh EXCEPT !.pc = "audit", !.req = r, !.result = "denied"]]

(* What clients send: a request with a token the issuer signed some time.  *)
Arriving == {r \in Requests : r.signedBy = issuer \/ retired[r.signedBy] # None}

(* Mutant: a cached key set is used whatever its age.                      *)
UseCachedKeys_Forever(c) ==
    /\ At(c, "new")
    /\ jwks.keys # None
    /\ \E r \in Arriving : Verify(c, r, jwks.keys)
    /\ UNCHANGED <<now, server>>

(* A call arrives, and _get_jwks has a cached key set that has not expired.*)
UseCachedKeys(c) ==
    /\ At(c, "new")
    /\ jwks.keys # None /\ now < jwks.expiry
    /\ \E r \in Arriving : Verify(c, r, jwks.keys)
    /\ UNCHANGED <<now, server>>

(* Without one it asks the issuer; other calls may be asking too.          *)
FetchKeys(c) ==
    /\ At(c, "new")
    /\ jwks.keys = None \/ now >= jwks.expiry
    /\ \E r \in Arriving : call' = [call EXCEPT ![c].pc = "fetch", ![c].req = r]
    /\ UNCHANGED <<now, server>>

IssuerAnswers(c) ==
    /\ At(c, "fetch")
    /\ call' = [call EXCEPT ![c].pc = "store", ![c].at = now, ![c].seen = issuer]
    /\ UNCHANGED <<now, server>>

(* The answer arrives and replaces whatever is cached, however old it is.  *)
StoreKeys(c) ==
    /\ At(c, "store")
    /\ jwks' = [keys |-> call[c].seen, expiry |-> now + KeyTTL]
    /\ Verify(c, Req(c), call[c].seen)
    /\ UNCHANGED <<now, issuer, retired, window, rows, trail>>

(* Any failure of the fetch is an AuthError.                               *)
FetchFails(c) ==
    /\ call[c].pc \in {"fetch", "store"}
    /\ Raise(c)
    /\ UNCHANGED <<now, server>>

-----------------------------------------------------------------------------
(* The limiter's pipeline, run by Redis as one transaction: drop the       *)
(* members that have left the window, add this call, count.                *)
Bucket(c) == <<Req(c).tenant, Req(c).tool>>

Pruned(c) == {m \in window[Bucket(c)] : m.at > call[c].at - Window}

(* Mutants: the member is added without its score; one key for all tools.  *)
Counted_Unscored(c) == Pruned(c) \cup {c}

Counted_AllTools(c) ==
    Pruned(c) \cup {[call |-> c, at |-> call[c].at]}
    \cup UNION {window[<<Req(c).tenant, t>>] : t \in Tools}

Counted(c) == Pruned(c) \cup {[call |-> c, at |-> call[c].at]}

(* Where a call let through goes on.                                       *)
FirstPoint(c) == IF Req(c).tool = Search THEN "search" ELSE "lookup"

(* enforce_rate_limit; a call let through goes on to its tool.             *)
Admit(c) ==
    /\ At(c, "limit")
    /\ window' = [window EXCEPT ![Bucket(c)] = Counted(c)]
    /\ IF Cardinality(Counted(c)) > Limit[Req(c).tool]
       THEN call' = [call EXCEPT ![c].pc = "audit", ![c].result = "rate_limited",
                                 ![c].gate = "out"]
       ELSE call' = [call EXCEPT ![c].pc = FirstPoint(c), ![c].gate = "in"]
    /\ UNCHANGED <<now, issuer, retired, jwks, rows, trail>>

(* Redis fails before or after the transaction.                            *)
RedisFails(c) ==
    /\ At(c, "limit")
    /\ \/ /\ Raise(c)
          /\ UNCHANGED window
       \/ /\ window' = [window EXCEPT ![Bucket(c)] = Counted(c)]
          /\ call' = [call EXCEPT ![c].pc = "done", ![c].gate = "lost"]
    /\ UNCHANGED <<now, issuer, retired, jwks, rows, trail>>

-----------------------------------------------------------------------------
(* runbooks.search.                                                        *)
RunSearch(c) ==
    /\ At(c, "search")
    /\ Conclude(c, "found")
    /\ UNCHANGED <<now, server>>

(* incidents.create, first await: SELECT by tenant and key.                *)
LookUp(c) ==
    /\ At(c, "lookup")
    /\ IF rows[Slot(Req(c))] # None
       THEN Conclude(c, "idempotent_replay")
       ELSE Goto(c, "insert")
    /\ UNCHANGED <<now, server>>

(* Mutants: the conflict is not detected; it is detected, but the answer   *)
(* says that this call created the row.                                    *)
Insert_Overwrites(c) ==
    /\ At(c, "insert")
    /\ rows' = [rows EXCEPT ![Slot(Req(c))] = c]
    /\ Conclude(c, "success")
    /\ UNCHANGED <<now, issuer, retired, jwks, window, trail>>

ReadBack_AsCreated(c) ==
    /\ At(c, "reread")
    /\ Conclude(c, "success")
    /\ UNCHANGED <<now, server>>

(* Second await: INSERT ... ON CONFLICT DO NOTHING RETURNING id.           *)
Insert(c) ==
    /\ At(c, "insert")
    /\ IF rows[Slot(Req(c))] = None
       THEN /\ rows' = [rows EXCEPT ![Slot(Req(c))] = c]
            /\ Conclude(c, "success")
       ELSE /\ Goto(c, "reread")
            /\ UNCHANGED rows
    /\ UNCHANGED <<now, issuer, retired, jwks, window, trail>>

(* Third await, after a conflict: the winner's row is read back.           *)
ReadBack(c) ==
    /\ At(c, "reread")
    /\ IF rows[Slot(Req(c))] # None
       THEN Conclude(c, "idempotent_replay")
       ELSE Raise(c)
    /\ UNCHANGED <<now, server>>

(* The tool raises: ValueError for an input out of bounds, before it looks *)
(* up anything, or a failure of the database, which may come after it has  *)
(* committed the row.                                                      *)
ToolFails(c) ==
    /\ call[c].pc \in {"search", "lookup", "insert", "reread"}
    /\ Raise(c)
    /\ UNCHANGED <<now, server>>

InsertIsLost(c) ==
    /\ At(c, "insert")
    /\ rows[Slot(Req(c))] = None
    /\ rows' = [rows EXCEPT ![Slot(Req(c))] = c]
    /\ Raise(c)
    /\ UNCHANGED <<now, issuer, retired, jwks, window, trail>>

(* emit_audit_event, then the result, or the refusal, reaches the client.  *)
Audit(c) ==
    /\ At(c, "audit")
    /\ trail' = trail \cup {[call |-> c, outcome |-> call[c].result]}
    /\ Goto(c, "done")
    /\ UNCHANGED <<now, issuer, retired, jwks, window, rows>>

(* put_object raises, with the event stored or not: the client gets an     *)
(* error although the tool has run.                                        *)
AuditFails(c) ==
    /\ At(c, "audit")
    /\ \/ trail' = trail \cup {[call |-> c, outcome |-> call[c].result]}
       \/ UNCHANGED trail
    /\ Raise(c)
    /\ UNCHANGED <<now, issuer, retired, jwks, window, rows>>

-----------------------------------------------------------------------------
(* The server restarts: calls in flight are gone, and so is the key cache. *)
Restart ==
    /\ jwks' = [keys |-> None, expiry |-> 0]
    /\ call' = [c \in Calls |->
                    IF call[c].pc \in {"new", "done"} THEN call[c]
                    ELSE [call[c] EXCEPT !.pc = "done", !.seen = None, !.result = None]]
    /\ UNCHANGED <<now, issuer, retired, window, rows, trail>>

(* The issuer replaces its key.                                            *)
RotateKeys ==
    /\ \E k \in SigningKeys \ {issuer} :
        /\ retired[k] = None
        /\ issuer' = k
        /\ retired' = [retired EXCEPT ![issuer] = now]
    /\ UNCHANGED <<now, jwks, window, rows, trail, call>>

(* Time passes; timeouts bound how long an answer of the issuer, or a      *)
(* command on its way to Redis, may take.                                  *)
Tick ==
    /\ now < MaxTime
    /\ \A c \in Calls :
        /\ At(c, "limit") => now < call[c].at + MaxLag
        /\ At(c, "store") => now < call[c].at + FetchTime
    /\ now' = now + 1
    /\ UNCHANGED <<server, call>>

Handle(c) ==
    \/ UseCachedKeys(c) \/ FetchKeys(c) \/ IssuerAnswers(c) \/ StoreKeys(c) \/ FetchFails(c)
    \/ Admit(c) \/ RedisFails(c)
    \/ RunSearch(c) \/ LookUp(c) \/ Insert(c) \/ ReadBack(c)
    \/ ToolFails(c) \/ InsertIsLost(c)
    \/ Audit(c) \/ AuditFails(c)

Next ==
    \/ \E c \in Calls : Handle(c)
    \/ Restart \/ RotateKeys \/ Tick

Spec == Init /\ [][Next]_vars

-----------------------------------------------------------------------------
(* The type of every variable.                                             *)
GTypeOK ==
    /\ now \in Nat
    /\ issuer \in SigningKeys
    /\ retired \in [SigningKeys -> Nat \cup {None}]
    /\ jwks \in [keys : SigningKeys \cup {None}, expiry : Nat]
    /\ window \in [Tenants \X Tools -> SUBSET [call : Calls, at : Nat]]
    /\ rows \in [Slots -> Calls \cup {None}]
    /\ trail \subseteq [call : Calls, outcome : Results]
    /\ call \in [Calls -> CallType]

(* A token signed with a retired key is refused once every copy of the old *)
(* key set has had time to expire, although any call may store an answer   *)
(* the issuer gave before another call stored a newer one.                 *)
RetiredKeysLapse ==
    [][\A c \in Calls :
        call[c].pc \in {"new", "store"} /\ call'[c].pc \in {"limit", "audit"} =>
            LET gone == retired[call'[c].req.signedBy]
            IN  gone = None \/ now < gone + KeyTTL + FetchTime]_vars

(* The limiter of ratelimit.py.  No tenant gets more calls through to a    *)
(* tool in a window than the limit says, a window being shorter by the lag *)
(* of the slowest command; and a call is turned away only if its tenant    *)
(* has made as many other calls of this tool, refused ones included, in    *)
(* the window before it.                                                   *)
Within(tenant, tool, first, last, gates) ==
    {c \in Calls :
        /\ call[c].gate \in gates
        /\ Bucket(c) = <<tenant, tool>>
        /\ call[c].at \in first .. last}

RateLimitIsExact ==
    /\ \A tenant \in Tenants, tool \in Tools, t \in 0 .. MaxTime :
        Cardinality(Within(tenant, tool, t, t + Window - MaxLag - 1, {"in"})) <= Limit[tool]
    /\ \A c \in Calls :
        call[c].gate = "out" =>
            Cardinality(Within(Req(c).tenant, Req(c).tool, call[c].at - Window + 1,
                               now, {"in", "out", "lost"}) \ {c}) >= Limit[Req(c).tool]

(* The audit trail shows a creation only where the platform performed one, *)
(* a replay only of another call's creation (server.py:134-135), and every *)
(* answer a client was given has exactly its own event.                    *)
TrailMatchesRows ==
    /\ \A e \in trail :
        /\ e.outcome = "success" => rows[Slot(Req(e.call))] = e.call
        /\ e.outcome = "idempotent_replay" => rows[Slot(Req(e.call))] \notin {None, e.call}
    /\ \A c \in Calls :
        At(c, "done") /\ call[c].result # None =>
            {e \in trail : e.call = c} = {[call |-> c, outcome |-> call[c].result]}

(* incidents.create implements the promise of AtMostOnce.                  *)
Told ==
    [c \in Calls |->
        IF At(c, "done") /\ call[c].result \in {"success", "idempotent_replay"}
        THEN [slot |-> Slot(Req(c)), owner |-> rows[Slot(Req(c))],
              created |-> call[c].result = "success"]
        ELSE None]

Once == INSTANCE AtMostOnce WITH owner <- rows, told <- Told

ImplementsAtMostOnce == Once!Spec
=============================================================================
