--------------------------- MODULE MCPolicyRunner ---------------------------
(***************************************************************************)
(* PolicyRunner for TLC: a registry of a scale action and its inverse, the *)
(* one pair chapter 8 installs; one trusted tenant that scales out under a *)
(* ceiling above the policy's and under one below it; an hour inside       *)
(* business hours and one outside.                                         *)
(***************************************************************************)
EXTENDS PolicyRunner, TLC

CONSTANTS d1, none, noctx, noclaim

MCHandlers ==
    [a \in {"scale", "scale_inverse"} |->
        IF a = "scale" THEN "ScaleHandler" ELSE "ScaleInverseHandler"]

MCInverseOf ==
    [a \in DOMAIN MCHandlers |-> IF a = "scale" THEN "scale_inverse" ELSE none]

MCProbed == DOMAIN MCHandlers
MCReadinessProbe == [d \in Deployments |-> TRUE]

MCLocalTimes == {[hour |-> 9, weekday |-> 4], [hour |-> 18, weekday |-> 4]}

Scale ==
    [action |-> "scale", tenant |-> "tenant-a", dep |-> d1, delta |-> 8, cap |-> 10,
     maxAge |-> 900, dryRun |-> FALSE, ceiling |-> RECOVERABLE,
     window |-> 1, budget |-> 1, diagnosisAge |-> NoDiagnosis]

MCClaims ==
    {[req |-> Scale, tier |-> "RECOVERABLE", pods |-> 1],
     [req |-> [Scale EXCEPT !.cap = 4], tier |-> "RECOVERABLE", pods |-> 1]}

MCRequests ==
    {Delegated(claim, Decision("allow", "any", cap), t) :
        claim \in MCClaims, cap \in {NoCap, MaxReplicas}, t \in 0 .. MaxTime}

OperatorSymmetry == Permutations(Operators)
=============================================================================
