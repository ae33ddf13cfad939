---------------------------- MODULE MCRemediator ----------------------------
(***************************************************************************)
(* Instances of Remediator for TLC.  The registry is the one the chapter's *)
(* fixtures and the policy runner's users build: four handlers, of which   *)
(* only scale has an inverse.                                              *)
(***************************************************************************)
EXTENDS Remediator, TLC

CONSTANTS c1, c2, d1, d2, t1, t2, none, noctx

MCHandlers ==
    [a \in {"pod_restart", "scale", "scale_inverse", "rollback"} |->
        CASE a = "pod_restart"   -> "RestartHandler"
          [] a = "scale"         -> "ScaleHandler"
          [] a = "scale_inverse" -> "ScaleInverseHandler"
          [] a = "rollback"      -> "RollbackHandler"]

MCInverseOf ==
    [a \in DOMAIN MCHandlers |-> IF a = "scale" THEN "scale_inverse" ELSE none]

MCProbed == DOMAIN MCHandlers

(* A registry whose inverses have inverses, to reach the depth limit.      *)
ChainHandlers ==
    [a \in {"scale", "scale_inverse", "scale_inverse_inverse"} |->
        IF a = "scale_inverse" THEN "ScaleInverseHandler" ELSE "ScaleHandler"]

ChainInverseOf ==
    [a \in DOMAIN ChainHandlers |->
        CASE a = "scale" -> "scale_inverse"
          [] a = "scale_inverse" -> "scale_inverse_inverse"
          [] OTHER -> none]

ChainProbed == {"scale", "scale_inverse"}

(* d1 has a readiness probe, d2 has none.                                  *)
MCReadinessProbe == [d \in Deployments |-> d = d1]

(* The base request: scale-out by one under ceiling 3, deadline in one     *)
(* tick, no diagnosis timestamp.                                           *)
Scale ==
    [action |-> "scale", tenant |-> t1, dep |-> d1, delta |-> 1, cap |-> 3,
     maxAge |-> 900, dryRun |-> FALSE, ceiling |-> RECOVERABLE,
     window |-> 1, budget |-> 1, diagnosisAge |-> NoDiagnosis]

Restart  == [Scale EXCEPT !.action = "pod_restart"]
ScaleIn  == [Scale EXCEPT !.action = "scale_inverse"]
Undo     == [Scale EXCEPT !.action = "rollback"]

(* Overlapping callers: a scale-out, the same one with a diagnosis that    *)
(* can go stale, and a restart whose tier depends on the site.             *)
OverlapRequests ==
    {Scale,
     [Scale EXCEPT !.diagnosisAge = 0, !.budget = 0],
     [Restart EXCEPT !.dep = d2, !.ceiling = REVERSIBLE]}

SequentialRequests ==
    {Scale,
     [Scale EXCEPT !.delta = -1],
     [Scale EXCEPT !.delta = 2],
     [Scale EXCEPT !.dryRun = TRUE],
     [Scale EXCEPT !.tenant = t2],
     ScaleIn,
     [Restart EXCEPT !.ceiling = REVERSIBLE],
     [Restart EXCEPT !.dep = d2, !.ceiling = REVERSIBLE],
     [Restart EXCEPT !.diagnosisAge = 0],
     Undo,
     [Undo EXCEPT !.maxAge = 300],
     [Undo EXCEPT !.ceiling = REVERSIBLE]}

ChainRequests == {Scale, [Scale EXCEPT !.delta = -1], ScaleIn}

CallerSymmetry == Permutations(Callers)
=============================================================================
