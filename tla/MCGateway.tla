------------------------------ MODULE MCGateway ------------------------------
(***************************************************************************)
(* Instance of Gateway for TLC.                                            *)
(***************************************************************************)
EXTENDS Gateway, TLC

CONSTANTS a1, a2, a3, ops, alice, k1, k2, txt, writer, none

(* A write whose key the server derives, and a search.                     *)
Write == [tool |-> Create, tenant |-> ops, sub |-> alice, roles |-> {writer},
          text |-> txt, key |-> none, signedBy |-> k1]

MCRequests == {Write, [Write EXCEPT !.tool = Search, !.signedBy = k2]}

Rule(tenants, roles) == [tenants |-> tenants, roles |-> roles, approval |-> FALSE]

MCPolicies ==
    {[tool \in Tools |-> IF tool = Create THEN Rule({ops}, {writer}) ELSE Rule({ops}, {})],
     [tool \in {Create} |-> [Rule({ops}, {writer}) EXCEPT !.approval = TRUE]]}

MCLimit == [tool \in Tools |-> IF tool = Create THEN 2 ELSE 1]

CallSymmetry == Permutations(Calls)
=============================================================================
