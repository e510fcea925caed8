----------------------------- MODULE MCAgentRBAC -----------------------------
(* Model-checking instance of AgentRBAC: two pods of this CR, one with a   *)
(* named service account and one with none ("default"), and one pod of    *)
(* another CR sharing the namespace.                                       *)
EXTENDS AgentRBAC

CONSTANTS p1, p2, p3

MCPods  == {p1, p2, p3}
MCPodSA == [p \in MCPods |-> CASE p = p1 -> "gateway-sa" [] p = p2 -> "" [] OTHER -> "other-sa"]
MCPodCR == [p \in MCPods |-> IF p = p3 THEN "other-cr" ELSE "site-a"]

=============================================================================
