------------------------------ MODULE KillSwitch ------------------------------
(***************************************************************************)
(* The kill switch of chapter 9 (autonomy/kill_switch.py): one Redis key   *)
(* per scope, with or without a TTL, and an audit list.  trip and reset    *)
(* are two Redis commands each: the key first, the audit record second.    *)
(* Several operators use it; the clock belongs to the module that includes *)
(* this one and calls Expired.                                             *)
(***************************************************************************)
EXTENDS Integers, Sequences

CONSTANTS
    Operators,      \* people, and scripts that act for them
    Scopes,         \* global, one per tenant, one per action
    Global,
    Never,          \* a key without a TTL
    Untils,         \* the recovery times operators may ask for
    MaxOps          \* bound: operations on the switch

VARIABLES
    now,        \* time.time()
    keys,       \* killswitch:<scope>: when it expires, Never, or 0: no key
    busy,       \* per operator: the record it still has to push
    trail,      \* killswitch:audit
    ops         \* operations so far

swVars == <<keys, busy, trail, ops>>

NoRecord   == [op |-> "none"]
RecordType == [op : {"trip", "reset"}, scope : Scopes, by : Operators]

Later(s, t) == IF s >= t THEN s ELSE t

(* is_tripped: EXISTS.                                                     *)
IsTripped(scope) == keys[scope] # 0

Tripped == {s \in Scopes : IsTripped(s)}

SwInit ==
    /\ keys = [s \in Scopes |-> 0]
    /\ busy = [o \in Operators |-> NoRecord]
    /\ trail = << >>
    /\ ops = 0

Begin(o, kind, scope) ==
    /\ busy[o] = NoRecord
    /\ ops < MaxOps
    /\ ops' = ops + 1
    /\ busy' = [busy EXCEPT ![o] = [op |-> kind, scope |-> scope, by |-> o]]

(* trip: with a recovery time the key lives for at least one second,       *)
(* without one it stays; whatever key was there is overwritten.            *)
Trip(o, scope, until) ==
    /\ Begin(o, "trip", scope)
    /\ keys' = [keys EXCEPT ![scope] =
                    IF until = Never THEN Never ELSE now + Later(1, until - now)]
    /\ UNCHANGED trail

(* reset: the global scope needs a second, different operator.             *)
Reset(o, scope) ==
    /\ scope = Global => \E second \in Operators : second # o
    /\ Begin(o, "reset", scope)
    /\ keys' = [keys EXCEPT ![scope] = 0]
    /\ UNCHANGED trail

(* _audit: RPUSH.                                                          *)
Audit(o) ==
    /\ busy[o] # NoRecord
    /\ trail' = Append(trail, busy[o])
    /\ busy' = [busy EXCEPT ![o] = NoRecord]
    /\ UNCHANGED <<keys, ops>>

(* The operator's process dies, or Redis refuses the second command.       *)
AuditFails(o) ==
    /\ busy[o] # NoRecord
    /\ busy' = [busy EXCEPT ![o] = NoRecord]
    /\ UNCHANGED <<keys, trail, ops>>

Operate ==
    \E o \in Operators :
        \/ \E s \in Scopes, u \in Untils \cup {Never} : Trip(o, s, u)
        \/ \E s \in Scopes : Reset(o, s)
        \/ Audit(o)
        \/ AuditFails(o)

(* Redis drops the keys whose TTL has run out by the time t.               *)
Expire(t) ==
    /\ keys' = [s \in Scopes |-> IF keys[s] # Never /\ keys[s] <= t THEN 0 ELSE keys[s]]
    /\ UNCHANGED <<busy, trail, ops>>

-----------------------------------------------------------------------------
(* The type of every variable.                                             *)
SwTypeOK ==
    /\ keys \in [Scopes -> Nat \cup {Never}]
    /\ busy \in [Operators -> RecordType \cup {NoRecord}]
    /\ trail \in Seq(RecordType)
    /\ ops \in 0 .. MaxOps
=============================================================================
