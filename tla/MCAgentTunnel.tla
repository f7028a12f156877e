---------------------------- MODULE MCAgentTunnel ----------------------------
(* Instances of AgentTunnel for TLC.                                         *)
EXTENDS AgentTunnel

\* Two clusters, each of its own organization.
TwoOwners == [c \in {"c1", "c2"} |-> IF c = "c1" THEN "o1" ELSE "o2"]
=============================================================================
