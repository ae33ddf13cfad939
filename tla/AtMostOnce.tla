------------------------------ MODULE AtMostOnce ------------------------------
(***************************************************************************)
(* What the incident tool of chapter 4 promises its clients, however often *)
(* they re-issue a write and whatever the server loses on the way: a slot  *)
(* (a tenant and an idempotency key) is filled at most once, by one call;  *)
(* a call is told at most once, about a filled slot, and is told that it   *)
(* created the incident exactly if it did.                                 *)
(***************************************************************************)
CONSTANTS Calls, Slots, None

VARIABLES
    owner,      \* per slot: the call that filled it, or None
    told        \* per call: the slot and owner it was told about, or None

Answer == [slot : Slots, owner : Calls, created : BOOLEAN]

Init ==
    /\ owner = [s \in Slots |-> None]
    /\ told = [c \in Calls |-> None]

Fill(c, s) ==
    /\ owner[s] = None
    /\ \A t \in Slots : owner[t] # c
    /\ told[c] = None
    /\ owner' = [owner EXCEPT ![s] = c]
    /\ UNCHANGED told

Tell(c, s) ==
    /\ owner[s] # None
    /\ told[c] = None
    /\ told' = [told EXCEPT ![c] =
                    [slot |-> s, owner |-> owner[s], created |-> owner[s] = c]]
    /\ UNCHANGED owner

Next == \E c \in Calls, s \in Slots : Fill(c, s) \/ Tell(c, s)

Spec == Init /\ [][Next]_<<owner, told>>
=============================================================================
