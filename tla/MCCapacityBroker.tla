-------------------------- MODULE MCCapacityBroker --------------------------
EXTENDS CapacityBroker, TLC

CONSTANTS r1, r2, l1, l2, l3, admin, sampler, none

MCRuns == {r1, r2}
\* Two leaves of one run and one of another: a queue of two, a round of two.
MCLeaves == {l1, l2, l3}
MCRunOf == [l \in MCLeaves |-> IF l = l3 THEN r2 ELSE r1]
\* One leaf each, where every kind of sample and of cap occurs.
MCPair == {l1, l3}
MCPairRunOf == [l \in MCPair |-> IF l = l3 THEN r2 ELSE r1]
\* l1 and l2 belong to the same run and may be exchanged.
MCSymmetry == Permutations({l1, l2})
=============================================================================
