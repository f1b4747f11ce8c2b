--------------------------- MODULE MCDeployments ---------------------------
EXTENDS Deployments

CONSTANTS d1, d2, c1, c2

MCTarget == [c \in Clients |-> IF c = c1 \/ Deployments = {d1} THEN d1 ELSE d2]
MCGenerations == [d \in Deployments |-> IF d = d1 THEN 2 ELSE 1]
MCKinds == [c \in Clients |-> IF c = c1 THEN {"apply", "stop", "start", "remove"} ELSE {"apply"}]
=============================================================================
