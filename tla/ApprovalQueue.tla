---------------------------- MODULE ApprovalQueue ----------------------------
(***************************************************************************)
(* The approval queue of chapter 9 (autonomy/approval.py): one Redis key   *)
(* per request, with a TTL, and a sorted set that indexes the pending      *)
(* ones.  enqueue and decide are several Redis commands each, with nothing *)
(* around them: the policy runners that enqueue, the approvers that decide *)
(* and the clock that expires keys interleave between any two commands,    *)
(* and a process may die between them.                                     *)
(***************************************************************************)
EXTENDS Integers

CONSTANTS
    Requests,       \* approval ids, one per queued request
    Approvers,      \* clients of POST /approvals/{id}/decide
    Decisions,      \* the strings callers send as ApprovalDecision.decision
    TTL,            \* ttl_seconds of a request
    MaxTime         \* bound: the clock stops here

(* decision is any string, "pending" included: nothing validates it.  Only *)
(* "absent" is none, the mark used here for a key that does not exist.     *)
ASSUME QueueAssumption ==
    /\ "absent" \notin Decisions
    /\ TTL \in Nat \ {0}
    /\ MaxTime \in Nat

VARIABLES
    now,        \* time.time()
    record,     \* approval:<id>: its status, or "absent"
    expires,    \* the time its key expires, 0 when it has no TTL
    index,      \* approval:pending
    enqueue,    \* where enqueue is, per request
    desk,       \* per approver: the decide call it is serving
    deadline,   \* history: when the request times out
    last,       \* history: the status a decide call wrote last, or "absent"
    kept,       \* history: a call that read in time wrote "pending"
    late        \* history: a call that read at its deadline or later wrote

history == <<last, kept, late>>
vars == <<now, record, expires, index, enqueue, desk, deadline, history>>

Statuses == {"absent", "pending"} \cup Decisions

(* A decide call between its commands: the record it has read, the status  *)
(* it will write, and when it read.                                        *)
Idle     == [pc |-> "idle"]
DeskType == {Idle} \cup [pc : {"set", "zrem"}, id : Requests,
                         decision : Decisions, readAt : Nat]

Init ==
    /\ now = 0
    /\ record = [i \in Requests |-> "absent"]
    /\ expires = [i \in Requests |-> 0]
    /\ index = {}
    /\ enqueue = [i \in Requests |-> "new"]
    /\ desk = [a \in Approvers |-> Idle]
    /\ deadline = [i \in Requests |-> 0]
    /\ last = [i \in Requests |-> "absent"]
    /\ kept = {}
    /\ late = {}

-----------------------------------------------------------------------------
(* Mutants: the key is written without a TTL; the TTL's sign is wrong.     *)
EnqueueSet_NoTTL(i) ==
    /\ enqueue[i] = "new"
    /\ now + TTL <= MaxTime
    /\ record' = [record EXCEPT ![i] = "pending"]
    /\ deadline' = [deadline EXCEPT ![i] = now + TTL]
    /\ enqueue' = [enqueue EXCEPT ![i] = "zadd"]
    /\ UNCHANGED <<now, expires, index, desk, history>>

EnqueueSet_PastTTL(i) ==
    /\ enqueue[i] = "new"
    /\ now + TTL <= MaxTime
    /\ record' = [record EXCEPT ![i] = "pending"]
    /\ expires' = [expires EXCEPT ![i] = now - TTL]
    /\ deadline' = [deadline EXCEPT ![i] = now + TTL]
    /\ enqueue' = [enqueue EXCEPT ![i] = "zadd"]
    /\ UNCHANGED <<now, index, desk, history>>

(* enqueue, first command: SET approval:<id> with EX ttl.                  *)
EnqueueSet(i) ==
    /\ enqueue[i] = "new"
    /\ now + TTL <= MaxTime
    /\ record' = [record EXCEPT ![i] = "pending"]
    /\ expires' = [expires EXCEPT ![i] = now + TTL]
    /\ deadline' = [deadline EXCEPT ![i] = now + TTL]
    /\ enqueue' = [enqueue EXCEPT ![i] = "zadd"]
    /\ UNCHANGED <<now, index, desk, history>>

(* Second command: ZADD approval:pending; only then is the id returned.    *)
EnqueueIndex(i) ==
    /\ enqueue[i] = "zadd"
    /\ index' = index \cup {i}
    /\ enqueue' = [enqueue EXCEPT ![i] = "done"]
    /\ UNCHANGED <<now, record, expires, desk, deadline, history>>

(* The enqueuing process dies in between.                                  *)
EnqueueCrash(i) ==
    /\ enqueue[i] = "zadd"
    /\ enqueue' = [enqueue EXCEPT ![i] = "lost"]
    /\ UNCHANGED <<now, record, expires, index, desk, deadline, history>>

(* Mutants: the status is not looked at; the index is cleared first.       *)
DecideGet_NoStatusCheck(a, i, d) ==
    /\ desk[a] = Idle /\ enqueue[i] = "done" /\ record[i] # "absent"
    /\ desk' = [desk EXCEPT ![a] =
                    [pc |-> "set", id |-> i, decision |-> d, readAt |-> now]]
    /\ UNCHANGED <<now, record, expires, index, enqueue, deadline, history>>

DecideGet_UnindexesFirst(a, i, d) ==
    /\ desk[a] = Idle /\ enqueue[i] = "done" /\ record[i] = "pending"
    /\ desk' = [desk EXCEPT ![a] =
                    [pc |-> "set", id |-> i, decision |-> d, readAt |-> now]]
    /\ index' = index \ {i}
    /\ UNCHANGED <<now, record, expires, enqueue, deadline, history>>

(* decide, first command: GET.  A record that is gone answers 404 and one  *)
(* that is not pending answers 409, with no effect.                        *)
DecideGet(a, i, d) ==
    /\ desk[a] = Idle
    /\ enqueue[i] = "done"
    /\ record[i] = "pending"
    /\ desk' = [desk EXCEPT ![a] =
                    [pc |-> "set", id |-> i, decision |-> d, readAt |-> now]]
    /\ UNCHANGED <<now, record, expires, index, enqueue, deadline, history>>

(* Mutant: the TTL of the request is kept (SET ... KEEPTTL).               *)
DecideSet_KeepTTL(a) ==
    /\ desk[a].pc = "set"
    /\ LET i == desk[a].id
           d == desk[a].decision
           inTime == desk[a].readAt < deadline[i]
       IN  /\ record' = [record EXCEPT ![i] = d]
           /\ last' = [last EXCEPT ![i] = d]
           /\ kept' = IF d = "pending" /\ inTime THEN kept \cup {i} ELSE kept
           /\ late' = IF inTime THEN late ELSE late \cup {i}
    /\ desk' = [desk EXCEPT ![a].pc = "zrem"]
    /\ UNCHANGED <<now, expires, index, enqueue, deadline>>

(* Second command: SET, without a TTL, of the record read before, with     *)
(* whatever string the caller sent as its status.                          *)
DecideSet(a) ==
    /\ desk[a].pc = "set"
    /\ LET i == desk[a].id
           d == desk[a].decision
           inTime == desk[a].readAt < deadline[i]
       IN  /\ record' = [record EXCEPT ![i] = d]
           /\ expires' = [expires EXCEPT ![i] = 0]
           /\ last' = [last EXCEPT ![i] = d]
           /\ kept' = IF d = "pending" /\ inTime THEN kept \cup {i} ELSE kept
           /\ late' = IF inTime THEN late ELSE late \cup {i}
    /\ desk' = [desk EXCEPT ![a].pc = "zrem"]
    /\ UNCHANGED <<now, index, enqueue, deadline>>

(* Third command: ZREM, and the record is returned to the approver.        *)
DecideUnindex(a) ==
    /\ desk[a].pc = "zrem"
    /\ index' = index \ {desk[a].id}
    /\ desk' = [desk EXCEPT ![a] = Idle]
    /\ UNCHANGED <<now, record, expires, enqueue, deadline, history>>

(* The service dies while it decides.                                      *)
DecideCrash(a) ==
    /\ desk[a] # Idle
    /\ desk' = [desk EXCEPT ![a] = Idle]
    /\ UNCHANGED <<now, record, expires, index, enqueue, deadline, history>>

(* Time passes, and Redis drops the keys whose time has come.              *)
Tick ==
    /\ now < MaxTime
    /\ now' = now + 1
    /\ record' = [i \in Requests |->
                    IF expires[i] # 0 /\ expires[i] <= now' THEN "absent" ELSE record[i]]
    /\ expires' = [i \in Requests |->
                    IF expires[i] # 0 /\ expires[i] <= now' THEN 0 ELSE expires[i]]
    /\ UNCHANGED <<index, enqueue, desk, deadline, history>>

Next ==
    \/ Tick
    \/ \E i \in Requests : EnqueueSet(i) \/ EnqueueIndex(i) \/ EnqueueCrash(i)
    \/ \E a \in Approvers :
        \/ \E i \in Requests, d \in Decisions : DecideGet(a, i, d)
        \/ DecideSet(a) \/ DecideUnindex(a) \/ DecideCrash(a)

Spec == Init /\ [][Next]_vars

(* Only the clock is fair: no approver ever has to answer.                 *)
FairSpec == Spec /\ WF_vars(Tick)

-----------------------------------------------------------------------------
(* The type of every variable.                                             *)
QTypeOK ==
    /\ now \in Nat
    /\ record \in [Requests -> Statuses]
    /\ expires \in [Requests -> Nat]
    /\ index \subseteq Requests
    /\ enqueue \in [Requests -> {"new", "zadd", "done", "lost"}]
    /\ desk \in [Approvers -> DeskType]
    /\ deadline \in [Requests -> Nat]
    /\ last \in [Requests -> {"absent"} \cup Decisions]
    /\ kept \subseteq Requests
    /\ late \subseteq Requests

(* A request that waits for an answer is listed by GET /pending, or its    *)
(* default deny is near: the only pending records missing from the index   *)
(* are one whose enqueue stopped between SET and ZADD, and that one still  *)
(* carries its TTL, and one a decide call wrote back as "pending", whose   *)
(* ZREM then hid it.  A decide call that is under way, or died anywhere,   *)
(* hides no other.                                                         *)
HiddenRequestsExpire ==
    \A i \in Requests :
        record[i] = "pending" /\ i \notin index =>
            \/ enqueue[i] # "done" /\ expires[i] = deadline[i]
            \/ last[i] = "pending"

(* Default deny: past its deadline a request is not pending, and no call   *)
(* that reads it then gets to write it, unless a call that read it in time *)
(* wrote "pending", the one thing that lifts the timeout.                  *)
DefaultDeny ==
    \A i \in Requests :
        i \in late \/ (record[i] = "pending" /\ now >= deadline[i]) => i \in kept

(* Once a decide call has written an answer other than "pending", no       *)
(* further call begins on that request (test_double_decide_rejected), and  *)
(* the record holds what was written last, for ever: whether the writer    *)
(* returned, or died before the ZREM, and whoever else is under way.       *)
AnswersStand ==
    [][ \A i \in Requests : last[i] \notin {"absent", "pending"} =>
            /\ \A a \in Approvers : desk[a] = Idle /\ desk'[a] # Idle => desk'[a].id # i
            /\ record'[i] = last'[i] ]_vars

(* No request waits forever: it is answered, or its key expires, or a      *)
(* caller answered it with "pending".                                      *)
NoRequestWaitsForever ==
    \A i \in Requests :
        record[i] = "pending" ~> record[i] # "pending" \/ last[i] = "pending"

(* approval.py:3-4, "Time-boxed approval ... with default-deny on timeout":*)
(* nothing is pending past its deadline.                                   *)
TimeBoxed ==
    \A i \in Requests : record[i] = "pending" => now < deadline[i]

(* test_approval.py:53-57: once a request is decided, another decision is  *)
(* an error.                                                               *)
DecidedOnce ==
    [][ \A i \in Requests : last[i] \notin {"absent", "pending"} =>
            \A a \in Approvers :
                ~(desk[a].pc = "set" /\ desk'[a].pc = "zrem" /\ desk[a].id = i) ]_vars

(* approval.py:76: a request not found is expired, and denied by default;  *)
(* what has expired stays denied.                                          *)
ExpiredStaysDenied ==
    [][ \A i \in Requests :
            enqueue[i] # "new" /\ record[i] = "absent" => record'[i] = "absent" ]_vars
=============================================================================
