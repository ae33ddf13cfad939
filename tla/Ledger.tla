------------------------------- MODULE Ledger -------------------------------
(***************************************************************************)
(* The remediator's action ledger (remediator/ledger.py): a bounded deque  *)
(* of the last actions, oldest first.  An entry names the action, the      *)
(* tenant and the deployment it touches; it is open until it is marked.    *)
(***************************************************************************)
EXTENDS Naturals, Sequences

CONSTANT Capacity       \* maxlen of the deque (100 by default)

ASSUME CapacityAssumption == Capacity \in Nat \ {0}

(* append to a deque(maxlen=capacity): the oldest entry falls out.         *)
Record(entries, entry) ==
    Append(IF Len(entries) < Capacity THEN entries ELSE Tail(entries), entry)

(* mark_terminal and mark_rolled_back: event ids are unique, so the first  *)
(* match is the only one; an entry that has been evicted is not found and  *)
(* nothing happens.                                                        *)
MarkTerminal(entries, id) ==
    [i \in DOMAIN entries |->
        IF entries[i].id = id THEN [entries[i] EXCEPT !.terminal = TRUE]
                              ELSE entries[i]]

(* Mutant: matches the actor of the event instead of the event.            *)
MarkRolledBack_ByActor(entries, id) ==
    [i \in DOMAIN entries |->
        IF entries[i].id[1] = id[1]
        THEN [entries[i] EXCEPT !.rolledBack = TRUE, !.terminal = TRUE]
        ELSE entries[i]]

MarkRolledBack(entries, id) ==
    [i \in DOMAIN entries |->
        IF entries[i].id = id
        THEN [entries[i] EXCEPT !.rolledBack = TRUE, !.terminal = TRUE]
        ELSE entries[i]]

(* find_open: is an open entry of this tenant for this action and          *)
(* deployment in the ledger?                                               *)
HasOpen(entries, tenant, action, dep) ==
    \E i \in DOMAIN entries :
        /\ ~ entries[i].terminal
        /\ entries[i].tenant = tenant
        /\ entries[i].action = action
        /\ entries[i].dep = dep

(* last_action_against: i is the newest entry of this tenant against this  *)
(* deployment, whatever the action.                                        *)
IsAgainst(entry, tenant, dep) == entry.tenant = tenant /\ entry.dep = dep

IsLastAgainst(entries, i, tenant, dep) ==
    /\ IsAgainst(entries[i], tenant, dep)
    /\ \A j \in DOMAIN entries :
            j > i => ~ IsAgainst(entries[j], tenant, dep)
=============================================================================
