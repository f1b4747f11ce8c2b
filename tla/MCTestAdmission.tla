-------------------------- MODULE MCTestAdmission --------------------------
(* TestAdmission on a small instance: two start attempts race for one      *)
(* worktree, beside two installers and a request for reopening.            *)
EXTENDS TestAdmission

CONSTANTS r1, r2, w1, i1, i2, k1

MCWorktreeOf == [r \in Runs |-> w1]
=============================================================================
