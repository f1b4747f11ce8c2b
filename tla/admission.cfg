SPECIFICATION FairSpec
CONSTANTS
    r1 = r1
    r2 = r2
    w1 = w1
    i1 = i1
    i2 = i2
    k1 = k1
    NoOne = NoOne
    Reconciler = Reconciler
    Runs = {r1, r2}
    Worktrees = {w1}
    WorktreeOf <- MCWorktreeOf
    Installers = {i1, i2}
    Waiters = {k1}
    IoMayFail = TRUE
    RecoveryMayFail = TRUE
    DeferredRecovery = FALSE
INVARIANTS
    AcceptedIsReceipted
    DrainIsQuiet
    NoLostWakeup
PROPERTIES
    ReceiptShrinksUnderLease
    DrainEnds
