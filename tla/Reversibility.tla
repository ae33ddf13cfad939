--------------------------- MODULE Reversibility ---------------------------
(***************************************************************************)
(* The reversibility gate of the remediator                                *)
(* (remediator/reversibility.py): three tiers, the tier a handler declares *)
(* with its decorator, and the per-call adjuster that may raise it.        *)
(***************************************************************************)
EXTENDS Integers

REVERSIBLE   == 1
RECOVERABLE  == 2
IRREVERSIBLE == 3
Tiers        == REVERSIBLE .. IRREVERSIBLE

(* What a handler's inspect() reports about the call site. The four keys   *)
(* are the ones the adjuster looks at; a handler that leaves one out is    *)
(* given the default the adjuster's .get() would use.                      *)
CallSite == [replicas : Nat, readinessProbe : BOOLEAN,
             stateful : BOOLEAN, maxAge : Nat]

(* The age, in seconds, past which undoing a rollout is irreversible.      *)
AutonomyAge == 900

HigherTier(s, t) == IF s >= t THEN s ELSE t

(* Mutant: off by one in the replica rule.                                 *)
Adjust_OffByOne(base, site) ==
    IF site.stateful \/ site.maxAge > AutonomyAge THEN IRREVERSIBLE
    ELSE IF site.replicas < 1 \/ ~ site.readinessProbe
         THEN HigherTier(base, RECOVERABLE) ELSE base

(* _adjust: every rule can only raise the tier.                            *)
Adjust(base, site) ==
    IF site.stateful \/ site.maxAge > AutonomyAge
    THEN IRREVERSIBLE
    ELSE IF site.replicas < 2 \/ ~ site.readinessProbe
         THEN HigherTier(base, RECOVERABLE)
         ELSE base

(* evaluate: the call may proceed without a human only when its realized   *)
(* tier is within the autonomy ceiling.                                    *)
Proceeds(realized, ceiling) == realized <= ceiling
=============================================================================
