----------------------------- MODULE MCExplainer -----------------------------
(***************************************************************************)
(* Instance of Explainer for TLC.                                          *)
(***************************************************************************)
EXTENDS Explainer, TLC

CONSTANTS e1, e2, none
=============================================================================
