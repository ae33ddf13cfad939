----------------------------- MODULE ClosedLoop -----------------------------
(***************************************************************************)
(* What the runner promises about every event id, with no ledger, clock,   *)
(* gate or rollback left: a call begins, may mutate the cluster once, and  *)
(* ends either with one audit record that agrees with what it did, or with *)
(* an exception.                                                           *)
(***************************************************************************)
EXTENDS Integers, Sequences

CONSTANT EventIds

VARIABLES open,     \* calls that have begun and not ended
          effects,  \* calls whose mutation has reached the cluster
          trail,    \* the audit trail: [id, outcome] records
          lost      \* calls that ended in an exception

vars == <<open, effects, trail, lost>>

Recorded == {trail[k].id : k \in DOMAIN trail}
Unused   == EventIds \ (open \cup lost \cup Recorded)

(* The outcomes that are possible with and without a mutation.             *)
AfterEffect    == {"ok", "rolled_back", "action_failed"}
WithoutEffect  == {"refused", "refused_human_required", "dry_run_ok", "action_failed"}

Init == open = {} /\ effects = {} /\ trail = << >> /\ lost = {}

Begin(id) ==
    /\ open' = open \cup {id}
    /\ UNCHANGED <<effects, trail, lost>>

Mutate(id) ==
    /\ id \notin effects
    /\ effects' = effects \cup {id}
    /\ UNCHANGED <<open, trail, lost>>

Conclude(id, outcome) ==
    /\ outcome \in IF id \in effects THEN AfterEffect ELSE WithoutEffect
    /\ trail' = Append(trail, [id |-> id, outcome |-> outcome])
    /\ open' = open \ {id}
    /\ UNCHANGED <<effects, lost>>

(* An exception ends a call together with the rollbacks nested in it.      *)
Lose(ids) ==
    /\ ids # {}
    /\ lost' = lost \cup ids
    /\ open' = open \ ids
    /\ UNCHANGED <<effects, trail>>

Next ==
    \/ \E id \in Unused : Begin(id)
    \/ \E id \in open : Mutate(id)
    \/ \E id \in open : \E o \in AfterEffect \cup WithoutEffect : Conclude(id, o)
    \/ \E ids \in SUBSET open : Lose(ids)

Spec == Init /\ [][Next]_vars
=============================================================================
