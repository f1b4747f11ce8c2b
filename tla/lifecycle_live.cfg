SPECIFICATION FairLifecycle
CONSTANTS
    r1 = r1
    r2 = r2
    r3 = r3
    w1 = w1
    w2 = w2
    i1 = i1
    unitTest = unitTest
    NoOne = NoOne
    Reconciler = Reconciler
    Runs = {r1, r2}
    Worktrees = {w1}
    WorktreeOf <- MCWorktreeOf
    TestOf <- MCTestOf
    Mode <- MCMixed
    Installers = {}
    Waiters = {}
    IoMayFail = FALSE
    SystemdMayFail = FALSE
    TimeoutsHappen = FALSE
    RecoveryMayFail = FALSE
    DeferredRecovery = FALSE
    Results = {"passed"}
    Disturbances = {"memory", "reconcile", "crash"}
PROPERTIES
    LaunchedRunsEnd
    LifecycleStartsEnd
