-------------------------- MODULE MCTestLifecycle --------------------------
(* TestLifecycle on small instances: r1 and r2 compete for worktree w1, r3 *)
(* has w2 to itself.                                                       *)
EXTENDS TestLifecycle, TLC

CONSTANTS r1, r2, r3, w1, w2, i1, unitTest

MCWorktreeOf == [r \in Runs |-> IF r = r3 THEN w2 ELSE w1]
MCTestOf == [r \in Runs |-> unitTest]
\* r1 attaches where it can; the others replace.
MCMixed == [r \in Runs |-> IF r = r1 THEN "attach" ELSE "replace"]
MCAttach == [r \in Runs |-> "attach"]
MCReplace == [r \in Runs |-> "replace"]
\* Where both replace, r1 and r2 are alike.
MCSymmetry == Permutations({r1, r2})
=============================================================================
