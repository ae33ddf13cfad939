-------------------------------- MODULE Policy --------------------------------
(***************************************************************************)
(* The OPA bundle of chapter 9 (policies/autonomy.rego) and the client     *)
(* that asks it (autonomy/opa_client.py), as a function from the policy    *)
(* input to a decision.  A Rego rule with several bodies is an error when  *)
(* two of them produce different values; the client turns every error into *)
(* a denial.                                                               *)
(***************************************************************************)
EXTENDS Integers, FiniteSets, Sequences
LOCAL INSTANCE Functions

AllowedRecoverable == {"rollback", "scale_inverse", "scale"}
TrustedTenants     == {"tenant-a", "tenant-b"}
BudgetTotal        == 50
BlastRadiusCap     == 50
MaxReplicas        == 8
NoCap              == -1

Effects   == {"allow", "deny", "require_approval"}
TierNames == {"REVERSIBLE", "RECOVERABLE", "IRREVERSIBLE"}

(* The rule that decides, "default" when none matches, "error" when the    *)
(* evaluation fails, "unreachable" when OPA does not answer.               *)
Rules == {"reversible", "recoverable", "off_hours", "irreversible", "budget",
          "default", "error", "unreachable"}

Decision(effect, rule, cap) == [effect |-> effect, rule |-> rule, cap |-> cap]
DefaultDeny == Decision("deny", "default", NoCap)
Failed      == Decision("deny", "error", NoCap)

(* Mutant: the client has no decision to give.                             *)
Unreachable_NoEffect == Decision("unknown", "unreachable", NoCap)

Unreachable == Decision("deny", "unreachable", NoCap)

(* hour and weekday come from time.localtime(): Monday is 0.               *)
BusinessHours(t) == t.hour >= 9 /\ t.hour < 18 /\ t.weekday < 5

(* damage_units: the function's last clause, a value of 0 for every event, *)
(* is not a default: it holds beside the others.                           *)
Units == [pod_restart |-> 1, scale |-> 5, scale_inverse |-> 5, rollback |-> 20]

Costs(action) == {0} \cup {Units[a] : a \in DOMAIN Units \cap {action}}

Conflicts(history) == \E k \in DOMAIN history : Cardinality(Costs(history[k])) > 1

Cost(action) == CHOOSE n \in Costs(action) : \A m \in Costs(action) : n >= m

ConsumedToday(history) ==
    SumFunction([k \in DOMAIN history |-> Cost(history[k])])

(* The bodies of the rule decision that match the input.                   *)
Derived(in) ==
    {d \in {Decision("allow", "reversible", NoCap),
            Decision("allow", "recoverable", MaxReplicas),
            Decision("require_approval", "off_hours", NoCap),
            Decision("deny", "irreversible", NoCap),
            Decision("deny", "budget", NoCap)} :
        \/ /\ d.rule = "reversible"
           /\ in.tier = "REVERSIBLE" /\ BusinessHours(in.time)
           /\ in.pods <= BlastRadiusCap
        \/ /\ d.rule = "recoverable"
           /\ in.tier = "RECOVERABLE" /\ in.action \in AllowedRecoverable
           /\ in.tenant \in TrustedTenants /\ BusinessHours(in.time)
        \/ /\ d.rule = "off_hours"
           /\ in.tier = "RECOVERABLE" /\ in.action \in AllowedRecoverable
           /\ ~ BusinessHours(in.time)
        \/ d.rule = "irreversible" /\ in.tier = "IRREVERSIBLE"
        \/ d.rule = "budget" /\ ConsumedToday(in.history) >= BudgetTotal}

Decide(in) ==
    IF Conflicts(in.history) \/ Cardinality(Derived(in)) > 1 THEN Failed
    ELSE IF Derived(in) = {} THEN DefaultDeny
    ELSE CHOOSE d \in Derived(in) : TRUE
=============================================================================
