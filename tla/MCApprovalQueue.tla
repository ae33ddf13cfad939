--------------------------- MODULE MCApprovalQueue ---------------------------
(***************************************************************************)
(* ApprovalQueue for TLC: two requests, two approvers, and a TTL of two    *)
(* ticks, so that a decide call can be open across the deadline.           *)
(***************************************************************************)
EXTENDS ApprovalQueue

CONSTANTS r1, r2, alice, bob

MCRequests  == {r1, r2}
MCApprovers == {alice, bob}
=============================================================================
