-------------------------- MODULE TestRecordProofs --------------------------
(***************************************************************************)
(* Proofs about TestLifecycle, continued: who owns a run, who writes its   *)
(* history, and that its end is announced once.                            *)
(***************************************************************************)
EXTENDS TestLifecycleProofs

-----------------------------------------------------------------------------
(* The inductive invariants.                                               *)

\* The start holds the global locks.
Guarded == {"supersede", "stopping", "awaiting", "sweep", "prepare", "accept"}
\* The start has taken the prior run from the registry and registered none.
Cleared == {"stopping", "awaiting", "sweep", "prepare", "accept", "launch", "rollback", "spawned",
            "failing", "joining"}
\* The reconciler ends a run whose summary it found orphaned.
OnOrphan == {"orphanStop", "orphanWrite", "orphanRecord", "orphanFinish"}

\* What a start holds of the admission authority at each place.
Holding(pc, s) ==
    /\ pc \in Guarded => s = "guarded"
    /\ pc = "launch" => s \in {"accepted", "launching"}
    /\ pc \in Spawned \cup {"rollback"} => s = "launching"

\* A start holds that much, and nobody else touches its run before it is
\* registered.
Held ==
    /\ \A r \in Runs : Holding(start[r].pc, stage[r])
    /\ \A r \in Runs : start[r].pc = "finalizing" => stage[r] = "launching" \/ handle[r].step = "done"
    /\ \A r \in Runs : start[r].pc \in Unspawned \cup Spawned \cup {"rollback"} =>
           handle[r].step = "new" /\ reaper[r] = "none"

\* The registry of a worktree names nobody but the run of the thread that owns
\* the worktree.
RegisteredInv ==
    /\ \A r \in Runs : start[r].pc \in Cleared => runs[WorktreeOf[r]] = NoOne
    /\ \A r \in Runs : start[r].pc = "abandoning" => runs[WorktreeOf[r]] = r
    /\ \A r \in Runs : start[r].pc = "finalizing" /\ handle[r].step # "done" =>
           runs[WorktreeOf[r]] \in {NoOne, r}
    /\ reconcile.step \in {"stop", "finalize"} => runs[reconcile.wt] \in {NoOne, reconcile.run}
    /\ reconcile.step \in OnOrphan => runs[reconcile.wt] = NoOne

\* A run being finalized has a thread that does it, and its final status is
\* announced after it is written.
Finalized ==
    /\ \A r \in Runs : handle[r].final # "none" <=> handle[r].step \in {"settled", "done"}
    /\ \A r \in Runs : handle[r].step \in {"decided", "written"} => handle[r].status # "none"
    /\ \A r \in Runs : handle[r].step \in Finalizing =>
           \/ reaper[r] = "finalizing"
           \/ reconcile.step = "finalize" /\ reconcile.run = r
           \/ start[r].pc = "finalizing"

\* A supervised run without a final status is registered, or the start that
\* replaces it waits for it.
Supervised ==
    \A r \in Runs : reaper[r] \in {"waiting", "finalizing"} /\ handle[r].final = "none" =>
        \/ runs[WorktreeOf[r]] = r
        \/ \E s \in Runs : start[s].pc \in {"stopping", "awaiting"} /\ start[s].prior = r

SaysRunning(r) == current[WorktreeOf[r]].run = r /\ current[WorktreeOf[r]].status = "running"

\* A summary names a prepared run, and says it is running until finalize or the
\* reconciler has written the end.
SummaryInv ==
    /\ \A r \in Runs : current[WorktreeOf[r]].run = r => start[r].pc \notin Unprepared
    /\ \A r \in Runs : handle[r].step \in {"written", "settled", "done"} => ~SaysRunning(r)

\* Nobody but the reconciler will end a run whose summary it found orphaned.
OrphanInv ==
    /\ reconcile.step \in OnOrphan =>
           /\ start[reconcile.run].pc \notin Unprepared
           /\ handle[reconcile.run].step = "new"
           /\ reaper[reconcile.run] # "waiting"
    /\ reconcile.step \in {"orphanRecord", "orphanFinish"} => ~SaysRunning(reconcile.run)

\* Nobody will finalize a run whose test.finished is published.
Ended(r) ==
    /\ ~SaysRunning(r)
    /\ start[r].pc \notin Unspawned \cup Spawned \cup {"rollback"}
    /\ handle[r].step \notin Finalizing
    /\ handle[r].step = "new" => reaper[r] # "waiting" /\ runs[WorktreeOf[r]] # r
    /\ ~(reconcile.step \in {"stop"} \cup OnOrphan /\ reconcile.run = r /\ handle[r].step = "new")
EventsInv == FinishedOnce /\ \A r \in Runs : finishedEvents[r] # 0 => Ended(r)

-----------------------------------------------------------------------------
(* What a start holds, and who knows its run.                              *)

\* A start goes on with what it holds.
LEMMA StartHolds ==
    ASSUME LifecycleTypeOK, TypeOK, NEW r \in Runs, Holding(start[r].pc, stage[r]), StartThread(r)
    PROVE  /\ Holding(start'[r].pc, stage'[r])
           /\ start'[r].pc = "finalizing" => stage'[r] = "launching"
<1>. DEFINE Goal == /\ Holding(start'[r].pc, stage'[r])
                    /\ start'[r].pc = "finalizing" => stage'[r] = "launching"
<1>1. ASSUME start'[r].pc \in {"attached", "busy", "probe", "ready", "returning", "over"}
      PROVE  Goal
  BY <1>1 DEF Holding, Guarded, Spawned
<1>2. CASE Attach(r) \/ AttachGuarded(r) \/ EnterWorktree(r) \/ RollbackAcceptedStart(r) \/ StartFinalized(r)
           \/ ReturnStart(r)
  <2>1. \/ StartTo(r, "attached") \/ StartTo(r, "busy") \/ StartTo(r, "probe") \/ StartTo(r, "ready")
        \/ StartTo(r, "returning") \/ StartTo(r, "over")
    BY <1>2, Transitions, Zenon
  <2>. QED
    BY <1>1, <2>1 DEF StartTo
<1>3. CASE EnterGate(r)
  <2>1. \/ stage'[r] = "guarded" /\ StartTo(r, "supersede")
        \/ StartTo(r, "over")
    BY <1>3, Moving, PlaceNames, Zenon DEF EnterGate
  <2>. QED
    BY <1>1, <2>1 DEF StartTo, Holding, Guarded, Spawned
<1>4. CASE SupersedePrior(r)
  <2>1. (\E h : StartWith(r, "sweep", h) \/ StartWith(r, "stopping", h)) /\ UNCHANGED stage
    BY <1>4, Transitions, Zenon DEF SupersedePrior, admissionVars
  <2>2. stage[r] = "guarded"
    BY <1>4 DEF SupersedePrior, Holding, Guarded
  <2>. QED
    BY <2>1, <2>2 DEF StartWith, Holding, Guarded, Spawned
<1>5. CASE StopPrior(r) \/ AwaitPrior(r) \/ SweepUnits(r) \/ Prepare(r)
  <2>1. \/ StartTo(r, "over")
        \/ /\ UNCHANGED stage
           /\ \/ StartTo(r, "awaiting") \/ StartTo(r, "prepare") \/ StartTo(r, "accept")
              \/ StartWith(r, "sweep", NoOne)
    BY <1>5, Moving, PlaceNames, Zenon DEF StopPrior, AwaitPrior, SweepUnits, Prepare, FailGuarded, admissionVars
  <2>2. stage[r] = "guarded"
    BY <1>5 DEF StopPrior, AwaitPrior, SweepUnits, Prepare, Holding, Guarded
  <2>. QED
    BY <1>1, <2>1, <2>2 DEF StartTo, StartWith, Holding, Guarded, Spawned
<1>6. CASE Accept(r)
  <2>1. \/ stage'[r] = "accepted" /\ StartTo(r, "launch")
        \/ StartTo(r, "over")
    BY <1>6, Moving, PlaceNames, Zenon DEF Accept
  <2>. QED
    BY <1>1, <2>1 DEF StartTo, Holding, Guarded, Spawned
<1>7. CASE ReleaseGate(r)
  <2>1. start'[r].pc = "launch" /\ StageTo(r, "launching")
    BY <1>7, AdmissionMoves, Transitions, Zenon DEF ReleaseGate
  <2>. QED
    BY <2>1 DEF StageTo, Holding, Guarded, Spawned
<1>8. CASE Launch(r)
  <2>1. (StartTo(r, "spawned") \/ StartTo(r, "rollback")) /\ stage'[r] = "launching"
    BY <1>8, Transitions, Zenon DEF Launch, admissionVars
  <2>. QED
    BY <2>1 DEF StartTo, Holding, Guarded, Spawned
<1>9. CASE VerifyLaunch(r) \/ StopFailedLaunch(r) \/ JoinFailedLaunch(r) \/ AbandonLaunch(r)
  <2>1. /\ \/ StartTo(r, "returning") \/ StartTo(r, "abandoning") \/ StartTo(r, "failing")
           \/ StartTo(r, "joining") \/ StartTo(r, "finalizing")
        /\ UNCHANGED stage
    BY <1>9, Transitions, Zenon DEF VerifyLaunch, StopFailedLaunch, JoinFailedLaunch, AbandonLaunch, admissionVars
  <2>2. stage[r] = "launching"
    BY <1>9 DEF VerifyLaunch, StopFailedLaunch, JoinFailedLaunch, AbandonLaunch, Holding, Spawned
  <2>. QED
    BY <1>1, <2>1, <2>2 DEF StartTo, Holding, Guarded, Spawned
<1>. QED
  BY <1>2, <1>3, <1>4, <1>5, <1>6, <1>7, <1>8, <1>9, Zenon DEF StartThread

\* Outside the starts, admission forgets a run that is finalized or orphaned.
LEMMA StagesStay ==
    ASSUME LifecycleBase, TypeOK, [LifecycleNext]_vars, \A r \in Runs : ~StartThread(r), NEW s \in Runs
    PROVE  stage'[s] = stage[s] \/ FinalizeFinishes(s) \/ (OrphanFinishes /\ reconcile.run = s) \/ DaemonCrash
<1>1. ASSUME NEW q \in Runs, AdmissionFinished(q), q # s
      PROVE  stage'[s] = stage[s]
  BY <1>1, AdmissionMoves, Zenon DEF StageTo
<1>2. ASSUME NEW r \in Runs, UnitExits(r) \/ ReaperThread(r) \/ FinalizeStep(r)
      PROVE  stage'[s] = stage[s] \/ FinalizeFinishes(s)
  <2>1. CASE FinalizeFinishes(r)
    BY <1>1, <2>1, Zenon DEF FinalizeFinishes
  <2>. QED
    BY <1>2, <2>1, Zenon DEF UnitExits, ReaperThread, ReaperFinalizes, ReaperLeaves, FinalizeStep,
           FinalizeDecides, FinalizeWrites, FinalizeSettles, admissionVars
<1>3. CASE StopThread \/ ReliefThread \/ UNCHANGED vars
  BY <1>3, Zenon DEF StopThread, ReliefThread, StopAsks, StopStopsUnit, RelievePicks, RelieveMarks,
         RelieveStopsUnit, admissionVars, vars
<1>4. CASE (\E w \in Worktrees : ReconcileBegins(w)) \/ ReconcileThread
  <2>1. CASE OrphanFinishes
    <3>1. reconcile.run \in Runs
      BY <2>1 DEF OrphanFinishes, LifecycleBase, Located, OnRun
    <3>2. UNCHANGED stage \/ AdmissionFinished(reconcile.run)
      BY <2>1, Zenon DEF OrphanFinishes, admissionVars
    <3>. QED
      BY <1>1, <2>1, <3>1, <3>2, Zenon
  <2>. QED
    BY <1>4, <2>1, Zenon DEF ReconcileBegins, TryWorktreeGuard, ReconcileThread, ReconcileLooks,
           ReconcileStops, ReconcileFinalized, OrphanStops, OrphanWrites, OrphanRecords,
           ReconcileEnds, DropWorktreeGuard, admissionVars
<1>5. CASE RecoveryThread \/ DaemonRestart
  BY <1>5, Zenon DEF RecoveryThread, RecoverStopsUnits, RecoverSkips, RecoverResets, RecoverFails, Reset,
         RecoveryFails, DaemonRestart, Restart, admissionVars
<1>6. CASE Outside
  BY <1>6, Zenon DEF Outside, InstallerStep, BeginDrain, WatchActivity,
         ReadActivity, ActivityEvent, EndDrain, InstallerDies, WaiterStep, AdmissionWait,
         ReadLease, LeaseEvent, WaitDeadline
<1>. QED
  BY <1>2, <1>3, <1>4, <1>5, <1>6, Zenon DEF LifecycleNext


\* A worktree has one owner: a start, or the reconciler.
LEMMA OwnersExclude ==
    ASSUME PermitIsHeld, ReconcilerHolds, NEW r \in Runs, stage[r] \in Starting
    PROVE  /\ \A s \in Runs : stage[s] \in Starting /\ WorktreeOf[s] = WorktreeOf[r] => s = r
           /\ reconcile.step # "idle" => reconcile.wt # WorktreeOf[r]
<1>1. \A s \in Runs : stage[s] \in Starting => permit[WorktreeOf[s]] = s
  BY Zenon DEF PermitIsHeld
<1>2. reconcile.step # "idle" => permit[reconcile.wt] = Reconciler
  BY Zenon DEF ReconcilerHolds
<1>3. Reconciler \notin Runs
  BY AdmissionConstants
<1>. QED
  BY <1>1, <1>2, <1>3

\* The run of a start that has not come to verify_launch is known to nobody
\* else, so admission keeps it.
LEMMA HeldStep ==
    ASSUME LifecycleBase, AdmissionInv, ExistInv, ReconcilerHolds, Held, [LifecycleNext]_vars
    PROVE  Held'
<1>0. LifecycleTypeOK /\ TypeOK /\ PermitIsHeld
  BY DEF LifecycleBase, AdmissionInv
<1>. DEFINE Early == Unspawned \cup Spawned \cup {"rollback"}
<1>1. ASSUME NEW s \in Runs, stage[s] = "launching", OrphanFinishes, reconcile.run = s
      PROVE  FALSE
  <2>1. reconcile.step # "idle" /\ reconcile.wt = WorktreeOf[s]
    BY <1>1 DEF OrphanFinishes, LifecycleBase, Located, OnRun
  <2>. QED
    BY <1>0, <1>1, <2>1, OwnersExclude DEF Starting
<1>2. ASSUME NEW s \in Runs
      PROVE  /\ Holding(start[s].pc, stage[s])
             /\ start[s].pc = "finalizing" => stage[s] = "launching" \/ handle[s].step = "done"
             /\ start[s].pc \in Early => handle[s].step = "new" /\ reaper[s] = "none"
  BY Zenon DEF Held
<1>3. ASSUME NEW s \in Runs
      PROVE  /\ Holding(start'[s].pc, stage'[s])
             /\ start'[s].pc = "finalizing" =>
                    stage'[s] = "launching" \/ FinalizeFinishes(s) \/ (start[s].pc = "finalizing" /\ handle[s].step = "done")
  <2>1. CASE StartThread(s)
    BY <1>0, <1>2, <2>1, StartHolds, Zenon
  <2>2. CASE start'[s] = start[s] /\ stage'[s] = stage[s]
    BY <1>2, <2>2, Zenon
  <2>3. CASE start'[s].pc \in {"idle", "over"}
    BY <2>3 DEF Holding, Guarded, Spawned
  <2>4. CASE start'[s] = start[s] /\ FinalizeFinishes(s)
    <3>1. handle[s].step # "new"
      BY <2>4 DEF FinalizeFinishes
    <3>2. start[s].pc \notin Early
      BY <1>2, <3>1
    <3>. QED
      BY <2>4, <3>2 DEF Holding, Guarded, Spawned, Unspawned, Unprepared
  <2>5. CASE start'[s] = start[s] /\ stage[s] # "launching" /\ stage'[s] = "finished" /\ stage[s] \in {"launching", "running"}
    <3>1. start[s].pc \notin Guarded \cup Spawned \cup {"launch", "rollback"}
      BY <1>2, <2>5 DEF Holding
    <3>. QED
      BY <1>2, <2>5, <3>1 DEF Holding
  <2>6. ASSUME \A r \in Runs : ~StartThread(r)
        PROVE  \/ start'[s] = start[s] /\ stage'[s] = stage[s]
               \/ start'[s].pc \in {"idle", "over"}
               \/ start'[s] = start[s] /\ FinalizeFinishes(s)
               \/ start'[s] = start[s] /\ stage[s] # "launching" /\ stage'[s] = "finished" /\ stage[s] \in {"launching", "running"}
    <3>1. \/ start'[s] = start[s] /\ (stage'[s] = stage[s] \/ (stage[s] \in {"launching", "running"} /\ stage'[s] = "finished"))
          \/ start'[s].pc \in {"idle", "over"}
      BY <1>0, <2>6, StartsStay
    <3>2. ~DaemonCrash \/ start'[s].pc \in {"idle", "over"}
      BY Crashes
    <3>3. stage'[s] = stage[s] \/ FinalizeFinishes(s) \/ (OrphanFinishes /\ reconcile.run = s) \/ DaemonCrash
      BY <1>0, <2>6, StagesStay, Zenon
    <3>. QED
      BY <1>1, <3>1, <3>2, <3>3, Zenon
  <2>7. ASSUME NEW r \in Runs, StartThread(r), r # s
        PROVE  start'[s] = start[s] /\ stage'[s] = stage[s]
    BY <1>0, <2>7, OthersStay, Zenon
  <2>. QED
    BY <2>1, <2>2, <2>3, <2>4, <2>5, <2>6, <2>7, Zenon
<1>4. ASSUME NEW s \in Runs, start'[s].pc = "finalizing"
      PROVE  stage'[s] = "launching" \/ handle'[s].step = "done"
  <2>1. CASE FinalizeFinishes(s)
    <3>1. handle' = [handle EXCEPT ![s].step = "done"]
      BY <2>1, Zenon DEF FinalizeFinishes
    <3>. QED
      BY <1>0, <3>1, Recording, Zenon DEF HandleTo
  <2>2. CASE start[s].pc = "finalizing" /\ handle[s].step = "done"
    <3>1. ASSUME NEW q \in Runs, Claims(q) \/ Finalizes(q)
          PROVE  q # s
      <4>1. CASE Claims(q)
        BY <1>2, <2>2, <4>1 DEF Claims, JoinFailedLaunch, AbandonLaunch
      <4>2. CASE Finalizes(q)
        BY <2>2, <4>2 DEF Finalizes
      <4>. QED
        BY <3>1, <4>1, <4>2
    <3>2. ~HandlesLost
      BY <1>4, Crashes DEF HandlesLost
    <3>3. (\E q \in Runs : Claims(q) \/ Finalizes(q)) => handle'[s] = handle[s]
      BY <3>1, Zenon DEF Claims, Finalizes, HandleTo
    <3>. QED
      BY <2>2, <3>2, <3>3, HandleMoves, Zenon DEF HandlesMarked
  <2>. QED
    BY <1>3, <1>4, <2>1, <2>2, Zenon
<1>5. ASSUME NEW s \in Runs, start'[s].pc \in Early
      PROVE  start[s].pc \in Early /\ handle[s].step = "new" /\ reaper[s] = "none"
  <2>1. Launch(s) => start[s].pc \in Early
    BY DEF Launch, Unspawned
  <2>2. start[s].pc \in Early
    BY <1>0, <1>5, <2>1, LaunchOrder
  <2>. QED
    BY <1>2, <2>2, Zenon
<1>6. ASSUME NEW s \in Runs, start'[s].pc \in Early
      PROVE  handle'[s].step = "new"
  <2>1. start[s].pc \in Early /\ handle[s].step = "new" /\ reaper[s] = "none"
    BY <1>5, <1>6, Zenon
  <2>2. ~Claims(s)
    <3>1. ~JoinFailedLaunch(s)
      <4>1. JoinFailedLaunch(s) => start'[s].pc = "finalizing"
        BY <1>0, Transitions, Zenon DEF StartTo
      <4>. QED
        BY <1>6, <4>1 DEF Unspawned, Unprepared, Spawned
    <3>2. ~StartTo(s, "finalizing")
      BY <1>6 DEF StartTo, Unspawned, Unprepared, Spawned
    <3>3. ~ReaperFinalizes(s)
      BY <2>1 DEF ReaperFinalizes
    <3>4. ~(ReconcileStops /\ reconcile.run = s)
      <4>1. SUFFICES ASSUME ReconcileStops, reconcile.run = s
                     PROVE  FALSE
        OBVIOUS
      <4>2. unit[s] # "absent" /\ reconcile.step # "idle" /\ reconcile.wt = WorktreeOf[s]
        BY <4>1 DEF ReconcileStops, ExistInv, UnitsExist, LifecycleBase, Located, OnRun
      <4>3. start[s].pc \in Spawned
        BY <2>1, <4>2 DEF ExistInv, UnitsExist
      <4>4. stage[s] \in Starting
        BY <1>2, <4>3 DEF Holding, Starting
      <4>. QED
        BY <1>0, <4>2, <4>4, OwnersExclude, Zenon
    <3>. QED
      BY <3>1, <3>2, <3>3, <3>4, Zenon DEF Claims
  <2>3. ~Finalizes(s)
    BY <2>1 DEF Finalizes
  <2>. QED
    BY <2>1, <2>2, <2>3, HandleMoves, Zenon DEF Claims, Finalizes, HandleTo, HandlesMarked, HandlesLost
<1>7. ASSUME NEW s \in Runs, start'[s].pc \in Early
      PROVE  reaper'[s] = "none"
  <2>1. reaper[s] = "none"
    BY <1>5, <1>7, Zenon
  <2>2. ~StartTo(s, "returning")
    BY <1>7 DEF StartTo, Unspawned, Unprepared, Spawned
  <2>3. ~ReaperFinalizes(s) /\ ~ReaperLeaves(s)
    BY <2>1 DEF ReaperFinalizes, ReaperLeaves
  <2>. QED
    BY <2>1, <2>2, <2>3, ReaperMoves, Zenon DEF ReaperTo
<1>. QED
  BY <1>3, <1>4, <1>6, <1>7, Zenon DEF Held


-----------------------------------------------------------------------------
(* Who is registered, and who finalizes.                                   *)

\* A start that has taken the prior run owns the worktree until it registers
\* its own run or returns.
LEMMA ClearedOwns ==
    ASSUME Held, NEW s \in Runs
    PROVE  /\ start[s].pc \in Cleared \cup {"abandoning"} => stage[s] \in Starting
           /\ start[s].pc = "finalizing" /\ handle[s].step # "done" => stage[s] \in Starting
<1>1. Holding(start[s].pc, stage[s])
  BY Zenon DEF Held
<1>2. start[s].pc = "finalizing" /\ handle[s].step # "done" => stage[s] = "launching"
  BY Zenon DEF Held
<1>. QED
  BY <1>1, <1>2 DEF Holding, Cleared, Guarded, Spawned, Starting

\* How a start becomes, and stays, one that has cleared the registry.
LEMMA ClearedOrder ==
    ASSUME LifecycleBase, TypeOK, [LifecycleNext]_vars, NEW s \in Runs
    PROVE  /\ start'[s].pc \in Cleared => SupersedePrior(s) \/ start[s].pc \in Cleared
           /\ start'[s].pc = "abandoning" => \/ VerifyLaunch(s) /\ RunsTo(WorktreeOf[s], s)
                                             \/ start[s].pc = "abandoning"
           /\ start'[s].pc = "finalizing" => start[s].pc \in {"joining", "abandoning", "finalizing"}
<1>0. LifecycleTypeOK /\ WorktreeOf[s] \in Worktrees /\ NoOne \notin Runs
  BY AdmissionConstants DEF LifecycleBase
<1>. DEFINE Goal ==
           /\ start'[s].pc \in Cleared => SupersedePrior(s) \/ start[s].pc \in Cleared
           /\ start'[s].pc = "abandoning" => \/ VerifyLaunch(s) /\ RunsTo(WorktreeOf[s], s)
                                             \/ start[s].pc = "abandoning"
           /\ start'[s].pc = "finalizing" => start[s].pc \in {"joining", "abandoning", "finalizing"}
<1>1. ASSUME start'[s].pc \in {"idle", "attached", "busy", "probe", "ready", "supersede", "returning", "over"}
      PROVE  Goal
  BY <1>1 DEF Cleared
<1>2. ASSUME start'[s] = start[s]
      PROVE  Goal
  BY <1>2, Zenon
<1>3. CASE SupersedePrior(s)
  <2>1. \E h : StartWith(s, "sweep", h) \/ StartWith(s, "stopping", h)
    BY <1>0, <1>3, Transitions, Zenon
  <2>. QED
    BY <1>3, <2>1 DEF StartWith
<1>4. ASSUME start[s].pc \in Cleared, start'[s].pc \in Cleared
      PROVE  Goal
  BY <1>4 DEF Cleared
<1>5. CASE Attach(s) \/ AttachGuarded(s) \/ EnterWorktree(s) \/ EnterGate(s) \/ RollbackAcceptedStart(s)
           \/ StartFinalized(s) \/ ReturnStart(s)
  <2>1. \/ StartTo(s, "attached") \/ StartTo(s, "busy") \/ StartTo(s, "probe") \/ StartTo(s, "ready")
        \/ StartTo(s, "supersede") \/ StartTo(s, "returning") \/ StartTo(s, "over")
    BY <1>0, <1>5, Transitions, Zenon
  <2>. QED
    BY <1>1, <2>1 DEF StartTo
<1>6. CASE StopPrior(s) \/ AwaitPrior(s) \/ SweepUnits(s) \/ Prepare(s) \/ Accept(s) \/ Launch(s)
           \/ StopFailedLaunch(s)
  <2>1. \/ StartTo(s, "awaiting") \/ StartWith(s, "sweep", NoOne) \/ StartTo(s, "prepare") \/ StartTo(s, "accept")
        \/ StartTo(s, "launch") \/ StartTo(s, "spawned") \/ StartTo(s, "rollback") \/ StartTo(s, "joining")
        \/ StartTo(s, "over")
    BY <1>0, <1>6, Transitions, Zenon
  <2>2. start[s].pc \in Cleared
    BY <1>6, Zenon DEF StopPrior, AwaitPrior, SweepUnits, Prepare, Accept, Launch, StopFailedLaunch, Cleared
  <2>3. start'[s].pc \in Cleared \/ start'[s].pc = "over"
    BY <2>1 DEF StartTo, StartWith, Cleared
  <2>. QED
    BY <1>1, <1>4, <2>2, <2>3
<1>7. CASE ReleaseGate(s)
  <2>1. start'[s] = start[s] /\ ~VerifyLaunch(s)
    BY <1>0, <1>7, Transitions, Zenon DEF ReleaseGate, VerifyLaunch
  <2>. QED
    BY <1>2, <2>1
<1>8. CASE VerifyLaunch(s)
  <2>1. start[s].pc \in Cleared
    BY <1>8 DEF VerifyLaunch, Cleared
  <2>2. \/ StartTo(s, "returning")
        \/ StartTo(s, "abandoning") /\ RunsTo(WorktreeOf[s], s)
        \/ StartTo(s, "failing")
    BY <1>0, <1>8, Changing, Moving, PlaceNames, Zenon DEF VerifyLaunch
  <2>3. CASE StartTo(s, "failing")
    BY <2>1, <2>3 DEF StartTo
  <2>4. CASE StartTo(s, "abandoning") /\ RunsTo(WorktreeOf[s], s)
    BY <1>8, <2>4 DEF StartTo, Cleared
  <2>5. CASE StartTo(s, "returning")
    BY <1>1, <2>5 DEF StartTo
  <2>. QED
    BY <2>2, <2>3, <2>4, <2>5
<1>9. CASE JoinFailedLaunch(s) \/ AbandonLaunch(s)
  <2>1. start[s].pc \in {"joining", "abandoning"}
    BY <1>9 DEF JoinFailedLaunch, AbandonLaunch
  <2>2. StartTo(s, "finalizing") \/ StartTo(s, "returning")
    BY <1>0, <1>9, Transitions, Zenon
  <2>. QED
    BY <1>1, <2>1, <2>2 DEF StartTo, Cleared
<1>10. ASSUME NEW r \in Runs, StartThread(r), r # s
       PROVE  Goal
  <2>1. start'[s] = start[s]
    BY <1>0, <1>10, OthersStay, Zenon
  <2>. QED
    BY <1>2, <2>1
<1>11. ASSUME \A r \in Runs : ~StartThread(r)
       PROVE  Goal
  <2>1. start'[s] = start[s] \/ start'[s].pc = "over"
    BY <1>11, StartsStay, Zenon
  <2>. QED
    BY <1>1, <1>2, <2>1
<1>. QED
  BY <1>3, <1>5, <1>6, <1>7, <1>8, <1>9, <1>10, <1>11, Zenon DEF StartThread


\* A finalized handle stays so until the daemon dies.
LEMMA DoneIsDone ==
    ASSUME LifecycleBase, Held, [LifecycleNext]_vars, ~DaemonCrash, NEW s \in Runs, handle[s].step = "done"
    PROVE  handle'[s].step = "done"
<1>1. ASSUME NEW q \in Runs, Claims(q) \/ Finalizes(q)
      PROVE  q # s
  <2>1. CASE Claims(q)
    <3>1. start[q].pc \in Unspawned \cup Spawned \cup {"rollback"} => handle[q].step = "new"
      BY Zenon DEF Held
    <3>. QED
      BY <2>1, <3>1 DEF Claims, JoinFailedLaunch, AbandonLaunch, Spawned
  <2>2. CASE Finalizes(q)
    BY <2>2 DEF Finalizes
  <2>. QED
    BY <1>1, <2>1, <2>2
<1>2. (\E q \in Runs : Claims(q) \/ Finalizes(q)) => handle'[s] = handle[s]
  BY <1>1, Zenon DEF Claims, Finalizes, HandleTo
<1>. QED
  BY <1>2, HandleMoves, Zenon DEF HandlesMarked, HandlesLost

\* The registry of a worktree is changed by the start that owns it, or cleared.
LEMMA RegistryOwned ==
    ASSUME LifecycleBase, Held, [LifecycleNext]_vars, NEW w \in Worktrees
    PROVE  \/ runs'[w] = runs[w]
           \/ /\ runs'[w] = NoOne
              /\ \/ \E r \in Runs : SupersedePrior(r) /\ WorktreeOf[r] = w /\ stage[r] \in Starting
                 \/ \E r \in Runs : ReaperLeaves(r) /\ runs[w] = r
                 \/ DaemonCrash
           \/ \E r \in Runs : VerifyLaunch(r) /\ WorktreeOf[r] = w /\ stage[r] \in Starting /\ runs'[w] = r
<1>0. \A r \in Runs : WorktreeOf[r] \in Worktrees
  BY AdmissionConstants
<1>1. ASSUME NEW r \in Runs, SupersedePrior(r) \/ VerifyLaunch(r)
      PROVE  stage[r] \in Starting
  <2>1. Holding(start[r].pc, stage[r])
    BY Zenon DEF Held
  <2>. QED
    BY <1>1, <2>1, Zenon DEF SupersedePrior, VerifyLaunch, Holding, Guarded, Spawned, Starting
<1>. QED
  BY <1>0, <1>1, RunsMoves, Zenon DEF RunsTo, Unregisters

\* The registry names nobody but the owner's run.
LEMMA RegisteredStep ==
    ASSUME LifecycleBase, AdmissionInv, ReconcilerHolds, Held, RegisteredInv, [LifecycleNext]_vars
    PROVE  RegisteredInv'
<1>0. /\ LifecycleTypeOK /\ TypeOK /\ PermitIsHeld /\ NoOne \notin Runs
      /\ \A r \in Runs : WorktreeOf[r] \in Worktrees
  BY AdmissionConstants DEF LifecycleBase, AdmissionInv
<1>1. ASSUME NEW s \in Runs, stage[s] \in Starting
      PROVE  \/ runs'[WorktreeOf[s]] = runs[WorktreeOf[s]]
             \/ /\ runs'[WorktreeOf[s]] = NoOne
                /\ \/ SupersedePrior(s)
                   \/ \E r \in Runs : ReaperLeaves(r) /\ runs[WorktreeOf[s]] = r
                   \/ DaemonCrash
             \/ VerifyLaunch(s) /\ runs'[WorktreeOf[s]] = s
  <2>1. \A r \in Runs : WorktreeOf[r] = WorktreeOf[s] /\ stage[r] \in Starting => r = s
    BY <1>0, <1>1, OwnersExclude, Zenon
  <2>2. PICK w \in Worktrees : w = WorktreeOf[s]
    BY <1>0
  <2>3. \A r \in Runs : WorktreeOf[r] = w /\ stage[r] \in Starting => r = s
    BY <2>1, <2>2
  <2>4. \/ runs'[w] = runs[w]
        \/ /\ runs'[w] = NoOne
           /\ SupersedePrior(s) \/ (\E r \in Runs : ReaperLeaves(r) /\ runs[w] = r) \/ DaemonCrash
        \/ VerifyLaunch(s) /\ runs'[w] = s
    <3>1. ASSUME NEW r \in Runs, SupersedePrior(r) /\ WorktreeOf[r] = w /\ stage[r] \in Starting
          PROVE  SupersedePrior(s)
      <4>1. r = s
        BY <2>3, <3>1
      <4>. QED
        BY <3>1, <4>1
    <3>2. ASSUME NEW r \in Runs,
                 VerifyLaunch(r) /\ WorktreeOf[r] = w /\ stage[r] \in Starting /\ runs'[w] = r
          PROVE  VerifyLaunch(s) /\ runs'[w] = s
      <4>1. r = s
        BY <2>3, <3>2
      <4>. QED
        BY <3>2, <4>1
    <3>. QED
      BY <3>1, <3>2, RegistryOwned, Zenon
  <2>. QED
    BY <2>2, <2>4, Zenon
<1>2. ASSUME reconcile.step # "idle"
      PROVE  runs'[reconcile.wt] \in {runs[reconcile.wt], NoOne}
  <2>1. reconcile.wt \in Worktrees
    BY <1>2 DEF LifecycleBase, Located
  <2>2. \A r \in Runs : ~(WorktreeOf[r] = reconcile.wt /\ stage[r] \in Starting)
    BY <1>0, <1>2, OwnersExclude, Zenon
  <2>. QED
    BY <2>1, <2>2, RegistryOwned, Zenon
<1>3. ASSUME NEW s \in Runs, start'[s].pc \in Cleared
      PROVE  runs'[WorktreeOf[s]] = NoOne
  <2>1. CASE SupersedePrior(s)
    <3>1. runs' = [runs EXCEPT ![WorktreeOf[s]] = NoOne]
      BY <2>1, Zenon DEF SupersedePrior
    <3>. QED
      BY <1>0, <3>1, Changing, Zenon DEF RunsTo
  <2>2. CASE start[s].pc \in Cleared
    <3>1. stage[s] \in Starting /\ runs[WorktreeOf[s]] = NoOne
      BY <2>2, ClearedOwns DEF RegisteredInv
    <3>2. ~(VerifyLaunch(s) /\ runs'[WorktreeOf[s]] = s)
      <4>1. SUFFICES ASSUME VerifyLaunch(s), runs'[WorktreeOf[s]] = s
                     PROVE  FALSE
        OBVIOUS
      <4>2. ~UNCHANGED runs
        BY <1>0, <3>1, <4>1
      <4>3. StartTo(s, "returning") \/ StartTo(s, "abandoning")
        BY <1>0, <4>1, <4>2, Moving, PlaceNames, Zenon DEF VerifyLaunch
      <4>. QED
        BY <1>3, <4>3 DEF StartTo, Cleared
    <3>. QED
      BY <1>1, <3>1, <3>2, Zenon
  <2>. QED
    BY <1>0, <1>3, <2>1, <2>2, ClearedOrder, Zenon
<1>4. ASSUME NEW s \in Runs, start'[s].pc = "abandoning"
      PROVE  runs'[WorktreeOf[s]] = s
  <2>1. CASE VerifyLaunch(s) /\ RunsTo(WorktreeOf[s], s)
    BY <2>1, Zenon DEF RunsTo
  <2>2. CASE start[s].pc = "abandoning"
    <3>1. stage[s] \in Starting /\ runs[WorktreeOf[s]] = s /\ reaper[s] = "none"
      BY <2>2, ClearedOwns DEF RegisteredInv, Held, Spawned
    <3>2. ~SupersedePrior(s) /\ ~ReaperLeaves(s) /\ ~DaemonCrash
      <4>1. ~SupersedePrior(s)
        BY <2>2, Zenon DEF SupersedePrior
      <4>2. ~ReaperLeaves(s)
        BY <3>1, Zenon DEF ReaperLeaves
      <4>3. ~DaemonCrash
        BY <1>4, Crashes
      <4>. QED
        BY <4>1, <4>2, <4>3
    <3>. QED
      BY <1>1, <3>1, <3>2, Zenon
  <2>. QED
    BY <1>0, <1>4, <2>1, <2>2, ClearedOrder, Zenon
<1>5. ASSUME NEW s \in Runs, start'[s].pc = "finalizing", handle'[s].step # "done"
      PROVE  runs'[WorktreeOf[s]] \in {NoOne, s}
  <2>1. start[s].pc \in {"joining", "abandoning", "finalizing"}
    BY <1>0, <1>5, ClearedOrder, Zenon
  <2>2. handle[s].step # "done"
    <3>1. ~DaemonCrash
      BY <1>5, Crashes
    <3>. QED
      BY <1>5, <3>1, DoneIsDone, Zenon
  <2>3. stage[s] \in Starting
    BY <2>1, <2>2, ClearedOwns DEF Cleared
  <2>4. runs[WorktreeOf[s]] \in {NoOne, s}
    BY <2>1, <2>2 DEF RegisteredInv, Cleared
  <2>. QED
    BY <1>1, <2>3, <2>4, Zenon
<1>6. ASSUME (\E w \in Worktrees : ReconcileBegins(w)) \/ ReconcileThread
      PROVE  UNCHANGED runs
  BY <1>6, Zenon DEF ReconcileBegins, ReconcileThread, ReconcileLooks, ReconcileStops,
         ReconcileFinalized, OrphanStops, OrphanWrites, OrphanRecords, OrphanFinishes, ReconcileEnds
<1>7. ASSUME reconcile'.step \in {"stop", "finalize"}
      PROVE  runs'[reconcile'.wt] \in {NoOne, reconcile'.run}
  <2>1. CASE UNCHANGED reconcile
    BY <1>2, <1>7, <2>1 DEF RegisteredInv
  <2>2. CASE ReconcileLooks
    <3>1. ReconcileWith("stop", runs[reconcile.wt])
      BY <1>0, <1>7, <2>2, Reconciling DEF ReconcileTo, ReconcileWith
    <3>2. UNCHANGED runs
      BY <1>6, <2>2, Zenon DEF ReconcileThread
    <3>. QED
      BY <3>1, <3>2 DEF ReconcileWith
  <2>3. CASE ReconcileStops
    <3>1. reconcile'.wt = reconcile.wt /\ reconcile'.run = reconcile.run
      BY <1>0, <2>3, Reconciling, Zenon DEF ReconcileTo
    <3>2. UNCHANGED runs
      BY <1>6, <2>3, Zenon DEF ReconcileThread
    <3>. QED
      BY <2>3, <3>1, <3>2 DEF ReconcileStops, RegisteredInv
  <2>4. ASSUME \/ \E w \in Worktrees : ReconcileBegins(w)
               \/ ReconcileFinalized \/ OrphanStops \/ OrphanWrites \/ OrphanRecords \/ OrphanFinishes
               \/ ReconcileEnds \/ DaemonCrash
        PROVE  FALSE
    <3>1. \/ reconcile'.step = "look" \/ reconcile'.step = "end" \/ reconcile'.step = "error"
          \/ reconcile'.step = "orphanWrite" \/ reconcile'.step = "orphanRecord"
          \/ reconcile'.step = "orphanFinish" \/ reconcile'.step = "idle"
      BY <1>0, <2>4, Reconciling, Zenon DEF ReconcileTo
    <3>. QED
      BY <1>7, <3>1
  <2>. QED
    BY <2>1, <2>2, <2>3, <2>4, ReconcilerMoves, Zenon DEF ReconcileThread
<1>8. ASSUME reconcile'.step \in OnOrphan
      PROVE  runs'[reconcile'.wt] = NoOne
  <2>1. CASE UNCHANGED reconcile
    BY <1>2, <1>8, <2>1 DEF RegisteredInv, OnOrphan
  <2>2. CASE ReconcileLooks
    <3>1. runs[reconcile.wt] = NoOne /\ reconcile'.wt = reconcile.wt
      BY <1>0, <1>8, <2>2, Reconciling, Zenon DEF ReconcileTo, ReconcileWith, OnOrphan
    <3>2. UNCHANGED runs
      BY <1>6, <2>2, Zenon DEF ReconcileThread
    <3>. QED
      BY <3>1, <3>2
  <2>3. CASE OrphanStops \/ OrphanWrites \/ OrphanRecords
    <3>1. reconcile'.wt = reconcile.wt
      BY <1>0, <2>3, Reconciling, Zenon DEF ReconcileTo
    <3>2. UNCHANGED runs
      BY <1>6, <2>3, Zenon DEF ReconcileThread
    <3>3. runs[reconcile.wt] = NoOne
      BY <2>3 DEF OrphanStops, OrphanWrites, OrphanRecords, RegisteredInv, OnOrphan
    <3>. QED
      BY <3>1, <3>2, <3>3
  <2>4. ASSUME \/ \E w \in Worktrees : ReconcileBegins(w)
               \/ ReconcileStops \/ ReconcileFinalized \/ OrphanFinishes \/ ReconcileEnds \/ DaemonCrash
        PROVE  FALSE
    <3>1. \/ reconcile'.step = "look" \/ reconcile'.step = "end" \/ reconcile'.step = "error"
          \/ reconcile'.step = "finalize" \/ reconcile'.step = "idle"
      BY <1>0, <2>4, Reconciling, Zenon DEF ReconcileTo
    <3>. QED
      BY <1>8, <3>1 DEF OnOrphan
  <2>. QED
    BY <2>1, <2>2, <2>3, <2>4, ReconcilerMoves, Zenon DEF ReconcileThread
<1>. QED
  BY <1>3, <1>4, <1>5, <1>7, <1>8, Zenon DEF RegisteredInv


\* Only a new handle is claimed.
LEMMA ClaimsNew == ASSUME Held, NEW q \in Runs, Claims(q) PROVE handle[q].step = "new"
<1>1. start[q].pc \in Unspawned \cup Spawned \cup {"rollback"} => handle[q].step = "new"
  BY Zenon DEF Held
<1>. QED
  BY <1>1 DEF Claims, JoinFailedLaunch, AbandonLaunch, Spawned

\* Whoever claims a run is then seen to finalize it.
LEMMA ClaimerFinalizes ==
    ASSUME LifecycleTypeOK, NEW q \in Runs, Claims(q)
    PROVE  \/ reaper'[q] = "finalizing"
           \/ reconcile'.step = "finalize" /\ reconcile'.run = q
           \/ start'[q].pc = "finalizing"
<1>1. CASE JoinFailedLaunch(q)
  BY <1>1, Transitions, Zenon DEF StartTo
<1>2. CASE StartTo(q, "finalizing")
  BY <1>2, Zenon DEF StartTo
<1>3. CASE ReaperFinalizes(q) /\ handle[q].step = "new"
  <2>1. reaper' = [reaper EXCEPT ![q] = "finalizing"]
    BY <1>3, Zenon DEF ReaperFinalizes
  <2>. QED
    BY <2>1, Changing, Zenon DEF ReaperTo
<1>4. CASE reconcile.run = q /\ ReconcileTo("finalize")
  BY <1>4 DEF ReconcileTo
<1>. QED
  BY <1>1, <1>2, <1>3, <1>4, Zenon DEF Claims

\* A finalizer stays until the run is done.
LEMMA FinalizedStep ==
    ASSUME LifecycleBase, AdmissionInv, Held, Finalized, [LifecycleNext]_vars
    PROVE  Finalized'
<1>0. LifecycleTypeOK /\ TypeOK
  BY DEF LifecycleBase, AdmissionInv
<1>1. ASSUME NEW q \in Runs
      PROVE  handle'[q].step \in {"decided", "written"} => handle'[q].status # "none"
  BY <1>1, StatusStays, Zenon DEF Finalized
<1>2. ASSUME NEW q \in Runs
      PROVE  handle'[q].final # "none" <=> handle'[q].step \in {"settled", "done"}
  <2>1. /\ handle[q].final # "none" <=> handle[q].step \in {"settled", "done"}
        /\ handle[q].step \in {"decided", "written"} => handle[q].status # "none"
    BY Zenon DEF Finalized
  <2>2. CASE HandlesMarked
    BY <2>1, <2>2, Zenon DEF HandlesMarked
  <2>3. CASE HandlesLost
    BY <2>3 DEF HandlesLost
  <2>4. CASE Claims(q)
    <3>1. handle[q].step = "new"
      BY <2>4, ClaimsNew, Zenon
    <3>. QED
      BY <2>1, <2>4, <3>1 DEF Claims, HandleTo
  <2>5. CASE Finalizes(q)
    BY <2>1, <2>5 DEF Finalizes, HandleTo
  <2>6. ASSUME NEW r \in Runs, Claims(r) \/ Finalizes(r), r # q
        PROVE  handle'[q] = handle[q]
    BY <2>6, Zenon DEF Claims, Finalizes, HandleTo
  <2>. QED
    BY <2>1, <2>2, <2>3, <2>4, <2>5, <2>6, HandleMoves, Zenon
<1>3. ASSUME NEW q \in Runs, handle'[q].step \in Finalizing
      PROVE  \/ reaper'[q] = "finalizing"
             \/ reconcile'.step = "finalize" /\ reconcile'.run = q
             \/ start'[q].pc = "finalizing"
  <2>1. CASE Claims(q)
    BY <1>0, <2>1, ClaimerFinalizes, Zenon
  <2>2. CASE ~Claims(q)
    <3>0. ~HandlesLost
      BY <1>3 DEF HandlesLost, Finalizing
    <3>1. handle[q].step \in Finalizing
      <4>1. CASE Finalizes(q)
        BY <4>1 DEF Finalizes, Finalizing
      <4>2. ASSUME NEW r \in Runs, Claims(r) \/ Finalizes(r), r # q
            PROVE  handle'[q] = handle[q]
        BY <4>2, Zenon DEF Claims, Finalizes, HandleTo
      <4>3. HandlesMarked => handle'[q].step = handle[q].step
        BY Zenon DEF HandlesMarked
      <4>. QED
        BY <1>3, <2>2, <3>0, <4>1, <4>2, <4>3, HandleMoves, Zenon
    <3>2. handle[q].step # "done" /\ handle[q].step # "new"
      BY <3>1 DEF Finalizing
    <3>3. ~DaemonCrash
      <4>1. DaemonCrash => handle'[q].step = "new"
        BY Crashes, Zenon
      <4>. QED
        BY <1>3, <4>1 DEF Finalizing
    <3>4. CASE reaper[q] = "finalizing"
      <4>1. ~VerifyLaunch(q)
        BY <3>4 DEF VerifyLaunch, Held, Spawned
      <4>2. ~ReaperFinalizes(q) /\ ~ReaperLeaves(q)
        BY <3>2, <3>4, Zenon DEF ReaperFinalizes, ReaperLeaves
      <4>. QED
        BY <3>3, <3>4, <4>1, <4>2, ReaperMoves, Zenon DEF ReaperTo
    <3>5. CASE reconcile.step = "finalize" /\ reconcile.run = q
      <4>1. ~ReconcileThread /\ \A w \in Worktrees : ~ReconcileBegins(w)
        BY <3>2, <3>5 DEF ReconcileThread, ReconcileLooks, ReconcileStops, ReconcileFinalized, OrphanStops,
               OrphanWrites, OrphanRecords, OrphanFinishes, ReconcileEnds, ReconcileBegins
      <4>. QED
        BY <3>3, <3>5, <4>1, ReconcilerMoves, Zenon
    <3>6. CASE start[q].pc = "finalizing"
      <4>1. ~StartThread(q)
        BY <3>2, <3>6, Zenon DEF StartThread, Attach, AttachGuarded, EnterWorktree, EnterGate, SupersedePrior, StopPrior,
               AwaitPrior, SweepUnits, Prepare, Accept, ReleaseGate, Launch, RollbackAcceptedStart, VerifyLaunch,
               StopFailedLaunch, JoinFailedLaunch, AbandonLaunch, StartFinalized, ReturnStart
      <4>2. start'[q] = start[q]
        BY <1>0, <3>3, <4>1, OthersStay, StartsStay, Zenon
      <4>. QED
        BY <3>6, <4>2
    <3>. QED
      BY <3>1, <3>4, <3>5, <3>6, Zenon DEF Finalized
  <2>. QED
    BY <2>1, <2>2
<1>. QED
  BY <1>1, <1>2, <1>3, Zenon DEF Finalized

\* What starts hold, whom the registry names and who finalizes, under every
\* failure the code handles.
OwnershipInv == Held /\ RegisteredInv /\ Finalized

\* The owners behind the next theorems.
LEMMA OwnershipInvariance == LifecycleSpec => []OwnershipInv
<1>1. LifecycleInit => OwnershipInv
  <2>1. LifecycleInit => Held
    BY Begins DEF Held, Holding, Guarded, Spawned
  <2>2. LifecycleInit => RegisteredInv
    BY Begins DEF RegisteredInv, Cleared, OnOrphan
  <2>3. LifecycleInit => Finalized
    BY Begins DEF Finalized, Finalizing
  <2>. QED
    BY <2>1, <2>2, <2>3 DEF OwnershipInv
<1>2. /\ LifecycleBase /\ AdmissionInv /\ ExistInv /\ ReconcilerHolds /\ OwnershipInv /\ [LifecycleNext]_vars
      => OwnershipInv'
  BY HeldStep, RegisteredStep, FinalizedStep, Zenon DEF OwnershipInv
<1>. QED
  BY <1>1, <1>2, BaseInvariance, AdmissionHolds, ExistInvariance, ReconcilerInvariance, PTL DEF LifecycleSpec


-----------------------------------------------------------------------------
(* One thread at a time writes the history of a worktree.                  *)

\* A final status is not taken back while the daemon lives.
LEMMA FinalStays ==
    ASSUME LifecycleBase, Held, Finalized, [LifecycleNext]_vars, ~DaemonCrash, NEW q \in Runs,
           handle[q].final # "none"
    PROVE  handle'[q].final # "none"
<1>1. handle[q].step \in {"settled", "done"}
  BY DEF Finalized
<1>2. ~Claims(q)
  BY <1>1, ClaimsNew
<1>3. Finalizes(q) => handle'[q].final = handle[q].final
  BY <1>1 DEF Finalizes, HandleTo
<1>4. ASSUME NEW r \in Runs, Claims(r) \/ Finalizes(r), r # q
      PROVE  handle'[q] = handle[q]
  BY <1>4, Zenon DEF Claims, Finalizes, HandleTo
<1>. QED
  BY <1>2, <1>3, <1>4, HandleMoves, Zenon DEF HandlesMarked, HandlesLost

\* Without failed stops and timeouts a supervised run is registered or waited
\* for until it has its final status.
LEMMA SupervisedStep ==
    ASSUME ~SystemdMayFail, ~TimeoutsHappen, LifecycleBase, AdmissionInv, ReconcilerHolds, Held, RegisteredInv,
           Finalized, Supervised, [LifecycleNext]_vars
    PROVE  Supervised'
<1>0. /\ LifecycleTypeOK /\ TypeOK /\ NoOne \notin Runs
      /\ \A r \in Runs : WorktreeOf[r] \in Worktrees
  BY AdmissionConstants DEF LifecycleBase, AdmissionInv
<1>1. SUFFICES ASSUME NEW r \in Runs, reaper'[r] \in {"waiting", "finalizing"}, handle'[r].final = "none"
               PROVE  \/ runs'[WorktreeOf[r]] = r
                      \/ \E s \in Runs : start'[s].pc \in {"stopping", "awaiting"} /\ start'[s].prior = r
  BY Zenon DEF Supervised
<1>2. ~DaemonCrash
  <2>1. DaemonCrash => reaper'[r] = "none"
    BY DEF DaemonCrash
  <2>. QED
    BY <1>1, <2>1
<1>3. CASE VerifyLaunch(r) /\ StartTo(r, "returning")
  <2>1. ~SetPc(r, "failing")
    BY <1>0, <1>3, PcSet, PlaceNames DEF StartTo
  <2>2. runs' = [runs EXCEPT ![WorktreeOf[r]] = r]
    BY <1>3, <2>1, Zenon DEF VerifyLaunch
  <2>. QED
    BY <1>0, <2>2, Changing, Zenon DEF RunsTo
<1>4. CASE ~(VerifyLaunch(r) /\ StartTo(r, "returning"))
  <2>1. ~ReaperTo(r, "gone") /\ ~ReaperTo(r, "leaving")
    BY <1>1 DEF ReaperTo
  <2>2. reaper[r] \in {"waiting", "finalizing"}
    <3>1. ReaperFinalizes(r) => reaper[r] = "waiting"
      BY DEF ReaperFinalizes
    <3>2. reaper'[r] = reaper[r] \/ ReaperFinalizes(r)
      BY <1>2, <1>4, <2>1, ReaperMoves, Zenon DEF ReaperTo
    <3>. QED
      BY <1>1, <3>1, <3>2
  <2>3. handle[r].final = "none"
    BY <1>1, <1>2, FinalStays, Zenon
  <2>4. CASE runs[WorktreeOf[r]] = r
    <3>1. PICK w \in Worktrees : w = WorktreeOf[r]
      BY <1>0
    <3>2. CASE runs'[w] = runs[w]
      BY <2>4, <3>1, <3>2
    <3>3. ASSUME NEW s \in Runs, SupersedePrior(s), WorktreeOf[s] = w
          PROVE  start'[s].pc = "stopping" /\ start'[s].prior = r
      <4>1. StartWith(s, "stopping", runs[WorktreeOf[s]])
        BY <1>0, <2>4, <3>1, <3>3, Transitions, Zenon
      <4>. QED
        BY <2>4, <3>1, <3>3, <4>1 DEF StartWith
    <3>4. ASSUME NEW s \in Runs, ReaperLeaves(s), runs[w] = s
          PROVE  FALSE
      <4>1. s = r /\ reaper' = [reaper EXCEPT ![s] = "gone"]
        BY <2>4, <3>1, <3>4 DEF ReaperLeaves
      <4>2. ReaperTo(s, "gone")
        BY <1>0, <4>1, Changing, Zenon
      <4>. QED
        BY <2>1, <4>1, <4>2
    <3>5. ASSUME NEW s \in Runs, VerifyLaunch(s), WorktreeOf[s] = w
          PROVE  FALSE
      <4>1. start[s].pc \in Cleared
        BY <3>5 DEF VerifyLaunch, Cleared
      <4>2. runs[WorktreeOf[s]] = NoOne
        BY <4>1, Zenon DEF RegisteredInv
      <4>. QED
        BY <1>0, <2>4, <3>1, <3>5, <4>2
    <3>6. (\E s \in Runs : start'[s].pc = "stopping" /\ start'[s].prior = r) =>
              \E s \in Runs : start'[s].pc \in {"stopping", "awaiting"} /\ start'[s].prior = r
      OBVIOUS
    <3>. QED
      BY <1>2, <3>2, <3>3, <3>4, <3>5, <3>6, RegistryOwned, Zenon
  <2>5. ASSUME NEW s \in Runs, start[s].pc \in {"stopping", "awaiting"}, start[s].prior = r
        PROVE  start'[s].pc \in {"stopping", "awaiting"} /\ start'[s].prior = r
    <3>1. CASE StopPrior(s)
      <4>1. StartTo(s, "awaiting")
        <5>1. SetPc(s, "awaiting")
          BY <3>1 DEF StopPrior, Faults
        <5>. QED
          BY <1>0, <5>1, Moving, PlaceNames, Zenon
      <4>. QED
        BY <2>5, <4>1 DEF StartTo
    <3>2. CASE AwaitPrior(s)
      BY <2>3, <2>5, <3>2 DEF AwaitPrior
    <3>3. CASE ~StartThread(s)
      <4>1. start'[s] = start[s]
        BY <1>0, <1>2, <3>3, OthersStay, StartsStay, Zenon
      <4>. QED
        BY <2>5, <4>1
    <3>. QED
      BY <2>5, <3>1, <3>2, <3>3, SupersedingSteps
  <2>. QED
    BY <2>2, <2>3, <2>4, <2>5, Zenon DEF Supervised
<1>. QED
  BY <1>3, <1>4

\* Two threads that would write the same history are the same thread.
LEMMA WritersExclude ==
    ASSUME LifecycleBase, PermitIsHeld, ReconcilerHolds, Held, RegisteredInv, Finalized, Supervised
    PROVE  HistoryIsWrittenAlone
<1>0. NoOne \notin Runs /\ \A r \in Runs : WorktreeOf[r] \in Worktrees
  BY AdmissionConstants
<1>1. ASSUME NEW r \in Runs, handle[r].step = "written"
      PROVE  \/ runs[WorktreeOf[r]] = r
             \/ \E s \in Runs : /\ start[s].pc \in {"stopping", "awaiting"} /\ start[s].prior = r
                                /\ WorktreeOf[s] = WorktreeOf[r]
             \/ reconcile.step = "finalize" /\ reconcile.run = r
             \/ start[r].pc = "finalizing"
  <2>1. handle[r].final = "none" /\ handle[r].step \in Finalizing
    BY <1>1 DEF Finalized, Finalizing
  <2>2. \A s \in Runs : start[s].pc \in {"stopping", "awaiting"} => WorktreeOf[start[s].prior] = WorktreeOf[s]
    BY DEF LifecycleBase, Located
  <2>3. reaper[r] = "finalizing" =>
            \/ runs[WorktreeOf[r]] = r
            \/ \E s \in Runs : /\ start[s].pc \in {"stopping", "awaiting"} /\ start[s].prior = r
    BY <2>1 DEF Supervised
  <2>. QED
    BY <2>1, <2>2, <2>3 DEF Finalized
<1>2. ASSUME NEW s \in Runs, start[s].pc \in {"stopping", "awaiting"}
      PROVE  stage[s] \in Starting /\ runs[WorktreeOf[s]] = NoOne
  <2>1. start[s].pc \in Cleared
    BY <1>2 DEF Cleared
  <2>. QED
    BY <2>1, ClearedOwns DEF RegisteredInv
<1>3. ASSUME NEW r \in Runs, handle[r].step = "written", start[r].pc = "finalizing"
      PROVE  stage[r] \in Starting /\ runs[WorktreeOf[r]] \in {NoOne, r}
  BY <1>3, ClearedOwns DEF RegisteredInv
<1>4. ASSUME reconcile.step = "finalize", reconcile.run \in Runs
      PROVE  /\ reconcile.wt = WorktreeOf[reconcile.run]
             /\ runs[WorktreeOf[reconcile.run]] \in {NoOne, reconcile.run}
  BY <1>4 DEF LifecycleBase, Located, OnRun, RegisteredInv
<1>5. \A r, q \in Runs : stage[r] \in Starting /\ stage[q] \in Starting /\ WorktreeOf[q] = WorktreeOf[r] => q = r
  BY OwnersExclude, Zenon
<1>6. \A r \in Runs : stage[r] \in Starting /\ reconcile.step # "idle" => reconcile.wt # WorktreeOf[r]
  BY OwnersExclude, Zenon
<1>7. ASSUME NEW r \in Runs, NEW q \in Runs, WorktreeOf[r] = WorktreeOf[q],
             handle[r].step = "written", handle[q].step = "written"
      PROVE  r = q
  <2>1. CASE runs[WorktreeOf[r]] = r
    <3>1. runs[WorktreeOf[q]] = r /\ r # NoOne
      BY <1>0, <1>7, <2>1, Zenon
    <3>2. \A s \in Runs : start[s].pc \in {"stopping", "awaiting"} => WorktreeOf[s] # WorktreeOf[q]
      BY <1>2, <3>1, Zenon
    <3>3. start[q].pc = "finalizing" => r = q
      BY <1>3, <1>7, <3>1
    <3>4. reconcile.step = "finalize" /\ reconcile.run = q => r = q
      BY <1>4, <1>7, <3>1
    <3>. QED
      <4>1. runs[WorktreeOf[q]] = q => r = q
        BY <3>1
      <4>. QED
        BY <1>1, <1>7, <3>2, <3>3, <3>4, <4>1, Zenon
  <2>2. ASSUME NEW s \in Runs, start[s].pc \in {"stopping", "awaiting"}, start[s].prior = r,
               WorktreeOf[s] = WorktreeOf[r]
        PROVE  r = q
    <3>1. stage[s] \in Starting /\ runs[WorktreeOf[s]] = NoOne
      BY <1>2, <2>2
    <3>2. ~(reconcile.step = "finalize" /\ reconcile.run = q)
      BY <1>4, <1>6, <1>7, <2>2, <3>1
    <3>3. start[q].pc # "finalizing"
      <4>1. SUFFICES ASSUME start[q].pc = "finalizing"
                     PROVE  FALSE
        OBVIOUS
      <4>2. q = s
        BY <1>3, <1>5, <1>7, <2>2, <3>1, <4>1
      <4>. QED
        BY <2>2, <4>1, <4>2
    <3>4. ASSUME NEW t \in Runs, start[t].pc \in {"stopping", "awaiting"}, start[t].prior = q,
                 WorktreeOf[t] = WorktreeOf[q]
          PROVE  r = q
      <4>1. t = s
        BY <1>2, <1>5, <1>7, <2>2, <3>1, <3>4
      <4>. QED
        BY <2>2, <3>4, <4>1
    <3>5. runs[WorktreeOf[q]] # q
      BY <1>0, <1>7, <2>2, <3>1
    <3>. QED
      BY <1>1, <1>7, <3>2, <3>3, <3>4, <3>5, Zenon
  <2>3. CASE reconcile.step = "finalize" /\ reconcile.run = r
    <3>1. reconcile.wt = WorktreeOf[r] /\ runs[WorktreeOf[r]] \in {NoOne, r}
      BY <1>4, <2>3
    <3>2. \A s \in Runs : stage[s] \in Starting => WorktreeOf[s] # WorktreeOf[r]
      BY <1>6, <2>3, <3>1
    <3>3. start[q].pc # "finalizing" /\ \A s \in Runs : start[s].pc \in {"stopping", "awaiting"} => WorktreeOf[s] # WorktreeOf[q]
      BY <1>2, <1>3, <1>7, <3>2
    <3>4. runs[WorktreeOf[q]] = q \/ reconcile.run = q
      BY <1>1, <1>7, <3>3, Zenon
    <3>. QED
      BY <1>0, <1>7, <2>3, <3>1, <3>4
  <2>4. CASE start[r].pc = "finalizing"
    <3>1. stage[r] \in Starting /\ runs[WorktreeOf[r]] \in {NoOne, r}
      BY <1>3, <1>7, <2>4
    <3>2. ~(reconcile.step = "finalize" /\ reconcile.run = q)
      BY <1>4, <1>6, <1>7, <3>1
    <3>3. ASSUME NEW s \in Runs, start[s].pc \in {"stopping", "awaiting"}, WorktreeOf[s] = WorktreeOf[q]
          PROVE  FALSE
      <4>1. s = r
        BY <1>2, <1>5, <1>7, <3>1, <3>3
      <4>. QED
        BY <2>4, <3>3, <4>1
    <3>4. start[q].pc = "finalizing" => q = r
      BY <1>3, <1>5, <1>7, <3>1
    <3>5. runs[WorktreeOf[q]] = q => q = r
      BY <1>0, <1>7, <3>1
    <3>. QED
      BY <1>1, <1>7, <3>2, <3>3, <3>4, <3>5, Zenon
  <2>. QED
    BY <1>1, <1>7, <2>1, <2>2, <2>3, <2>4, Zenon
<1>8. ASSUME NEW r \in Runs, NEW q \in Runs, WorktreeOf[r] = WorktreeOf[q],
             handle[r].step = "written", reconcile.step = "orphanRecord", reconcile.run = q
      PROVE  FALSE
  <2>1. reconcile.wt = WorktreeOf[r] /\ runs[WorktreeOf[r]] = NoOne
    BY <1>8, Zenon DEF LifecycleBase, Located, OnRun, OnOrphan, RegisteredInv
  <2>2. \A s \in Runs : stage[s] \in Starting => WorktreeOf[s] # WorktreeOf[r]
    BY <1>6, <1>8, <2>1
  <2>3. start[r].pc # "finalizing" /\ \A s \in Runs : start[s].pc \in {"stopping", "awaiting"} => WorktreeOf[s] # WorktreeOf[r]
    BY <1>2, <1>3, <1>8, <2>2, Zenon
  <2>4. runs[WorktreeOf[r]] # r
    BY <1>0, <2>1, Zenon
  <2>5. reconcile.step # "finalize"
    BY <1>8
  <2>. QED
    BY <1>1, <1>8, <2>3, <2>4, <2>5
<1>. QED
  BY <1>7, <1>8, Zenon DEF HistoryIsWrittenAlone

\* While systemd stops what it is told to stop and STOP_WAIT does not elapse,
\* no two threads are about to write the history of one worktree, with any
\* number of starts, crashes, reconciliations and failed writes.
THEOREM HistoriesAreWrittenAlone ==
    ASSUME ~SystemdMayFail, ~TimeoutsHappen
    PROVE  LifecycleSpec => []HistoryIsWrittenAlone
<1>1. LifecycleInit => Supervised
  BY Begins DEF Supervised
<1>2. /\ LifecycleBase /\ AdmissionInv /\ ReconcilerHolds /\ OwnershipInv /\ Supervised /\ [LifecycleNext]_vars
      => Supervised'
  BY SupervisedStep, Zenon DEF OwnershipInv
<1>3. LifecycleBase /\ AdmissionInv /\ ReconcilerHolds /\ OwnershipInv /\ Supervised => HistoryIsWrittenAlone
  BY WritersExclude, Zenon DEF OwnershipInv, AdmissionInv
<1>. QED
  BY <1>1, <1>2, <1>3, BaseInvariance, AdmissionHolds, ReconcilerInvariance, OwnershipInvariance, PTL
     DEF LifecycleSpec


-----------------------------------------------------------------------------
(* One test.finished for each run.                                         *)

\* A summary names and calls running only the run that prepare wrote it for,
\* and the end that finalize or the reconciler writes into it stays.
LEMMA SummaryMoves ==
    ASSUME LifecycleBase, [LifecycleNext]_vars, NEW r \in Runs
    PROVE  /\ current'[WorktreeOf[r]].run = r => current[WorktreeOf[r]].run = r \/ Prepare(r)
           /\ SaysRunning(r)' => SaysRunning(r) \/ Prepare(r)
           /\ FinalizeWrites(r) /\ ~IoMayFail => ~SaysRunning(r)'
           /\ OrphanWrites /\ reconcile.run = r /\ ~IoMayFail => ~SaysRunning(r)'
<1>0. /\ LifecycleTypeOK /\ WorktreeOf[r] \in Worktrees /\ NoOne \notin Runs /\ \A q \in Runs : WorktreeOf[q] \in Worktrees
      /\ NoSummary.run = NoOne /\ \A q : [run |-> q, status |-> "running"].run = q
  BY AdmissionConstants DEF LifecycleBase, NoSummary
<1>. DEFINE w == WorktreeOf[r]
            Kept == /\ current'[w].run = r => current[w].run = r \/ Prepare(r)
                    /\ SaysRunning(r)' => SaysRunning(r) \/ Prepare(r)
<1>1. UNCHANGED current => Kept
  BY Zenon DEF SaysRunning
<1>2. ASSUME NEW q \in Runs, NEW status \in Statuses, WriteSummary(q, status)
      PROVE  Kept /\ (q = r => ~SaysRunning(r)')
  <2>1. /\ current'[w].run = current[w].run
        /\ current'[w] = current[w] \/ (w = WorktreeOf[q] /\ current'[w].status = status)
        /\ current[WorktreeOf[q]].run = q => current'[WorktreeOf[q]].status = status
    <3>1. /\ \A v \in Worktrees : current'[v].run = current[v].run
          /\ \A v \in Worktrees : current'[v] = current[v] \/ (v = WorktreeOf[q] /\ current'[v].status = status)
          /\ current[WorktreeOf[q]].run = q => current'[WorktreeOf[q]].status = status
      BY <1>0, <1>2, Summarizing, Zenon
    <3>. QED
      BY <1>0, <3>1, Zenon
  <2>2. status # "running"
    BY <1>2 DEF Statuses, Terminal
  <2>. QED
    BY <2>1, <2>2, Zenon DEF SaysRunning
<1>3. ASSUME NEW q \in Runs, CurrentTo(WorktreeOf[q], NoSummary)
      PROVE  Kept
  <2>1. current'[w] = NoSummary \/ current'[w] = current[w]
    BY <1>0, <1>3, Zenon DEF CurrentTo
  <2>. QED
    BY <1>0, <2>1 DEF SaysRunning
<1>4. ASSUME NEW q \in Runs, Prepare(q)
      PROVE  Kept
  <2>1. CASE q = r
    BY <1>4, <2>1
  <2>2. CASE q # r
    <3>1. \/ CurrentTo(WorktreeOf[q], [run |-> q, status |-> "running"])
          \/ UNCHANGED current
          \/ CurrentTo(WorktreeOf[q], NoSummary)
      BY <1>0, <1>4, Changing, Zenon DEF Prepare
    <3>2. CASE CurrentTo(WorktreeOf[q], [run |-> q, status |-> "running"])
      <4>1. current'[w].run = q \/ current'[w] = current[w]
        BY <1>0, <3>2, Zenon DEF CurrentTo
      <4>. QED
        BY <2>2, <4>1, Zenon DEF SaysRunning
    <3>. QED
      BY <1>1, <1>3, <3>1, <3>2, Zenon
  <2>. QED
    BY <2>1, <2>2, Zenon
<1>5. ASSUME NEW q \in Runs, Accept(q) \/ RollbackAcceptedStart(q)
      PROVE  Kept
  <2>1. UNCHANGED current \/ current' = [current EXCEPT ![WorktreeOf[q]] = NoSummary]
    BY <1>5, Zenon DEF Accept, RollbackAcceptedStart
  <2>2. UNCHANGED current \/ CurrentTo(WorktreeOf[q], NoSummary)
    BY <1>0, <2>1, Changing, Zenon
  <2>. QED
    BY <1>1, <1>3, <2>2, Zenon
<1>6. ASSUME NEW q \in Runs, FinalizeWrites(q)
      PROVE  Kept /\ (q = r /\ ~IoMayFail => ~SaysRunning(r)')
  <2>1. handle[q].status \in Statuses
    BY <1>0, Zenon DEF LifecycleTypeOK, Handles, HandleType
  <2>2. WriteSummary(q, handle[q].status) \/ (IoMayFail /\ UNCHANGED current)
    BY <1>6, Zenon DEF FinalizeWrites
  <2>. QED
    BY <1>1, <1>2, <2>1, <2>2, Zenon
<1>7. ASSUME OrphanWrites
      PROVE  Kept /\ (reconcile.run = r /\ ~IoMayFail => ~SaysRunning(r)')
  <2>1. reconcile.run \in Runs
    BY <1>7 DEF OrphanWrites, LifecycleBase, Located, OnRun
  <2>2. PICK h \in Runs : h = reconcile.run
    BY <2>1
  <2>3. "interrupted" \in Statuses
    BY DEF Statuses, Terminal
  <2>4. WriteSummary(h, "interrupted") \/ (IoMayFail /\ UNCHANGED current)
    BY <1>7, <2>2 DEF OrphanWrites
  <2>. QED
    BY <1>1, <1>2, <2>2, <2>3, <2>4, Zenon
<1>8. ASSUME NEW q \in Runs, StartThread(q) \/ UnitExits(q) \/ ReaperThread(q) \/ FinalizeStep(q)
      PROVE  UNCHANGED current \/ Prepare(q) \/ Accept(q) \/ RollbackAcceptedStart(q) \/ FinalizeWrites(q)
  BY <1>8, Zenon DEF StartThread, Attach, AttachGuarded, EnterWorktree, EnterGate, SupersedePrior, StopPrior, AwaitPrior,
         SweepUnits, ReleaseGate, Launch, VerifyLaunch,
         StopFailedLaunch, JoinFailedLaunch, AbandonLaunch, StartFinalized, ReturnStart, lifecycleVars,
         UnitExits, ReaperThread, ReaperFinalizes, ReaperLeaves, FinalizeStep, FinalizeDecides,
         FinalizeSettles, FinalizeFinishes
<1>9. ASSUME (\E v \in Worktrees : ReconcileBegins(v)) \/ ReconcileThread
      PROVE  UNCHANGED current \/ OrphanWrites
  BY <1>9, Zenon DEF ReconcileBegins, ReconcileThread, ReconcileLooks, ReconcileStops,
         ReconcileFinalized, OrphanStops, OrphanRecords, OrphanFinishes, ReconcileEnds
<1>10. ASSUME StopThread \/ ReliefThread \/ RecoveryThread \/ DaemonCrash \/ DaemonRestart \/ Outside \/ UNCHANGED vars
       PROVE  UNCHANGED current
  BY <1>10, Zenon DEF StopThread, ReliefThread, StopAsks, StopStopsUnit, RelievePicks, RelieveMarks,
         RelieveStopsUnit, RecoveryThread, RecoverStopsUnits, RecoverSkips, RecoverResets, RecoverFails,
         DaemonCrash, DaemonRestart, Outside, lifecycleVars, vars
<1>11. Kept
  BY <1>1, <1>4, <1>5, <1>6, <1>7, <1>8, <1>9, <1>10, Zenon DEF LifecycleNext
<1>. QED
  BY <1>6, <1>7, <1>11, Zenon

\* Only the end of finalize and of the orphan's closing publish the event.
LEMMA EventMoves ==
    ASSUME LifecycleBase, [LifecycleNext]_vars, NEW r \in Runs
    PROVE  \/ finishedEvents'[r] = finishedEvents[r]
           \/ /\ FinalizeFinishes(r) \/ (OrphanFinishes /\ reconcile.run = r)
              /\ finishedEvents[r] = 0 => finishedEvents'[r] = 1
<1>0. LifecycleTypeOK
  BY DEF LifecycleBase
<1>1. ASSUME NEW q \in Runs, PublishFinished(q)
      PROVE  IF q = r THEN finishedEvents[r] = 0 => finishedEvents'[r] = 1
                      ELSE finishedEvents'[r] = finishedEvents[r]
  BY <1>0, <1>1, Publishing, Zenon
<1>2. ASSUME NEW q \in Runs, FinalizeFinishes(q)
      PROVE  \/ finishedEvents'[r] = finishedEvents[r]
             \/ FinalizeFinishes(r) /\ (finishedEvents[r] = 0 => finishedEvents'[r] = 1)
  BY <1>1, <1>2, Zenon DEF FinalizeFinishes
<1>3. CASE OrphanFinishes
  <2>1. reconcile.run \in Runs
    BY <1>3 DEF OrphanFinishes, LifecycleBase, Located, OnRun
  <2>2. PICK h \in Runs : h = reconcile.run
    BY <2>1
  <2>3. PublishFinished(h) \/ UNCHANGED finishedEvents
    BY <1>3, <2>2 DEF OrphanFinishes
  <2>. QED
    BY <1>1, <1>3, <2>2, <2>3, Zenon
<1>4. ASSUME NEW q \in Runs, StartThread(q) \/ UnitExits(q) \/ ReaperThread(q) \/ FinalizeStep(q)
      PROVE  UNCHANGED finishedEvents \/ FinalizeFinishes(q)
  BY <1>4, Zenon DEF StartThread, Attach, AttachGuarded, EnterWorktree, EnterGate, SupersedePrior, StopPrior, AwaitPrior,
         SweepUnits, Prepare, Accept, ReleaseGate, Launch, RollbackAcceptedStart, VerifyLaunch,
         StopFailedLaunch, JoinFailedLaunch, AbandonLaunch, StartFinalized, ReturnStart, lifecycleVars,
         UnitExits, ReaperThread, ReaperFinalizes, ReaperLeaves, FinalizeStep, FinalizeDecides,
         FinalizeWrites, FinalizeSettles
<1>5. ASSUME (\E v \in Worktrees : ReconcileBegins(v)) \/ ReconcileThread
      PROVE  UNCHANGED finishedEvents \/ OrphanFinishes
  BY <1>5, Zenon DEF ReconcileBegins, ReconcileThread, ReconcileLooks, ReconcileStops,
         ReconcileFinalized, OrphanStops, OrphanWrites, OrphanRecords, ReconcileEnds
<1>6. ASSUME StopThread \/ ReliefThread \/ RecoveryThread \/ DaemonCrash \/ DaemonRestart \/ Outside \/ UNCHANGED vars
      PROVE  UNCHANGED finishedEvents
  BY <1>6, Zenon DEF StopThread, ReliefThread, StopAsks, StopStopsUnit, RelievePicks, RelieveMarks,
         RelieveStopsUnit, RecoveryThread, RecoverStopsUnits, RecoverSkips, RecoverResets, RecoverFails,
         DaemonCrash, DaemonRestart, Outside, lifecycleVars, vars
<1>7. UNCHANGED finishedEvents => finishedEvents'[r] = finishedEvents[r]
  OBVIOUS
<1>. QED
  BY <1>2, <1>3, <1>4, <1>5, <1>6, <1>7, Zenon DEF LifecycleNext


\* A start that has prepared stays prepared.
LEMMA PreparedOrder ==
    ASSUME LifecycleBase, TypeOK, [LifecycleNext]_vars, NEW s \in Runs, start'[s].pc \in Unprepared
    PROVE  start[s].pc \in Unprepared /\ ~Prepare(s)
<1>0. LifecycleTypeOK
  BY DEF LifecycleBase
<1>1. /\ \A p \in {"accept", "launch", "rollback", "spawned", "failing", "joining", "abandoning"} : p \notin Unprepared
      /\ \A p \in {"finalizing", "returning", "over"} : p \notin Unprepared
      /\ \A p \in {"idle", "attached", "busy", "probe", "ready", "supersede"} : p \in Unprepared
      /\ \A p \in {"stopping", "awaiting", "sweep"} : p \in Unprepared
  BY DEF Unprepared
<1>2. ~Prepare(s)
  <2>1. Prepare(s) => start'[s].pc \in {"accept", "over"}
    BY <1>0, Transitions, Zenon DEF StartTo
  <2>. QED
    BY <1>1, <2>1
<1>3. CASE \A r \in Runs : ~StartThread(r)
  BY <1>1, <1>2, <1>3, StartsStay, Zenon
<1>4. ASSUME NEW r \in Runs, StartThread(r), r # s
      PROVE  start'[s] = start[s]
  BY <1>0, <1>4, OthersStay, Zenon
<1>5. CASE StartThread(s)
  <2>1. CASE Attach(s) \/ AttachGuarded(s) \/ EnterWorktree(s) \/ EnterGate(s)
    <3>1. start[s].pc \in {"idle", "probe", "ready"}
      BY <2>1, Zenon DEF Attach, AttachGuarded, EnterWorktree, EnterGate
    <3>. QED
      BY <1>1, <1>2, <3>1
  <2>2. CASE SupersedePrior(s) \/ StopPrior(s) \/ AwaitPrior(s) \/ SweepUnits(s)
    <3>1. start[s].pc \in {"supersede", "stopping", "awaiting", "sweep"}
      BY <2>2, Zenon DEF SupersedePrior, StopPrior, AwaitPrior, SweepUnits
    <3>. QED
      BY <1>1, <1>2, <3>1
  <2>3. CASE ReleaseGate(s)
    BY <1>0, <1>2, <2>3, Transitions, Zenon
  <2>4. CASE Accept(s) \/ Launch(s) \/ VerifyLaunch(s) \/ StopFailedLaunch(s)
    <3>1. start'[s].pc \in {"launch", "over", "spawned", "rollback", "returning", "abandoning", "failing", "joining"}
      BY <1>0, <2>4, Transitions, Zenon DEF StartTo
    <3>. QED
      BY <1>1, <3>1
  <2>5. CASE RollbackAcceptedStart(s) \/ JoinFailedLaunch(s) \/ AbandonLaunch(s) \/ StartFinalized(s) \/ ReturnStart(s)
    <3>1. start'[s].pc \in {"finalizing", "returning", "over"}
      BY <1>0, <2>5, Transitions, Zenon DEF StartTo
    <3>. QED
      BY <1>1, <3>1
  <2>. QED
    BY <1>2, <1>5, <2>1, <2>2, <2>3, <2>4, <2>5, Zenon DEF StartThread
<1>. QED
  BY <1>2, <1>3, <1>4, <1>5, Zenon

\* The finalization of one run moves by its own steps, and its reaper begins to
\* wait after verify_launch.
LEMMA StepMoves ==
    ASSUME LifecycleBase, [LifecycleNext]_vars, NEW q \in Runs
    PROVE  /\ \/ handle'[q].step = handle[q].step
              \/ Claims(q)
              \/ Finalizes(q)
              \/ DaemonCrash /\ handle'[q].step = "new"
           /\ reaper'[q] = "waiting" => reaper[q] = "waiting" \/ VerifyLaunch(q)
<1>1. ASSUME NEW r \in Runs, Claims(r) \/ Finalizes(r), r # q
      PROVE  handle'[q] = handle[q]
  BY <1>1, Zenon DEF Claims, Finalizes, HandleTo
<1>2. HandlesMarked => handle'[q].step = handle[q].step
  BY Zenon DEF HandlesMarked
<1>3. HandlesLost => DaemonCrash /\ handle'[q].step = "new"
  BY Zenon DEF HandlesLost
<1>4. \/ reaper'[q] = reaper[q]
      \/ VerifyLaunch(q)
      \/ reaper'[q] \in {"finalizing", "leaving", "gone", "none"}
  BY ReaperMoves, Zenon DEF ReaperTo
<1>5. reaper'[q] = "waiting" => reaper[q] = "waiting" \/ VerifyLaunch(q)
  BY <1>4
<1>. QED
  BY <1>1, <1>2, <1>3, <1>5, HandleMoves, Zenon

\* Summaries say what their runs are at.
LEMMA SummaryStep ==
    ASSUME ~IoMayFail, LifecycleBase, AdmissionInv, Held, SummaryInv, [LifecycleNext]_vars
    PROVE  SummaryInv'
<1>0. TypeOK
  BY DEF AdmissionInv
<1>1. ASSUME NEW r \in Runs, current'[WorktreeOf[r]].run = r
      PROVE  start'[r].pc \notin Unprepared
  BY <1>0, <1>1, SummaryMoves, PreparedOrder, Zenon DEF SummaryInv
<1>2. ASSUME NEW r \in Runs, handle'[r].step \in {"written", "settled", "done"}, SaysRunning(r)'
      PROVE  FALSE
  <2>1. ~Claims(r) /\ handle'[r].step # "new"
    BY <1>2 DEF Claims, HandleTo
  <2>2. ~FinalizeWrites(r)
    BY <1>2, SummaryMoves, Zenon
  <2>3. handle[r].step \in {"written", "settled", "done"}
    <3>1. Finalizes(r) => handle[r].step \in {"written", "settled", "done"}
      BY <1>2, <2>2, Zenon DEF Finalizes, HandleTo
    <3>. QED
      BY <1>2, <2>1, <3>1, StepMoves, Zenon
  <2>4. ~Prepare(r)
    <3>1. Prepare(r) => handle[r].step = "new"
      BY Zenon DEF Prepare, Held, Unspawned, Unprepared
    <3>. QED
      BY <2>3, <3>1
  <2>. QED
    BY <1>2, <2>3, <2>4, SummaryMoves, Zenon DEF SummaryInv
<1>. QED
  BY <1>1, <1>2, Zenon DEF SummaryInv


\* While the reconciler owns a worktree, no start is under way there.
LEMMA Unowned ==
    ASSUME LifecycleBase, PermitIsHeld, ReconcilerHolds, Held, reconcile.step # "idle",
           NEW q \in Runs, WorktreeOf[q] = reconcile.wt
    PROVE  /\ start[q].pc \notin Spawned \cup {"accept", "launch", "rollback"}
           /\ start[q].pc = "finalizing" => handle[q].step = "done"
           /\ \A s \in Runs : start[s].pc \in {"stopping", "awaiting"} => start[s].prior # q
<1>1. \A s \in Runs : stage[s] \in Starting => WorktreeOf[s] # reconcile.wt
  BY OwnersExclude, Zenon
<1>2. /\ start[q].pc \in Cleared \cup {"abandoning"} => stage[q] \in Starting
      /\ start[q].pc = "finalizing" /\ handle[q].step # "done" => stage[q] \in Starting
  BY ClearedOwns, Zenon
<1>3. \A p \in Spawned \cup {"accept", "launch", "rollback"} : p \in Cleared \cup {"abandoning"}
  BY DEF Spawned, Cleared
<1>4. ASSUME NEW s \in Runs, start[s].pc \in {"stopping", "awaiting"}
      PROVE  start[s].prior # q
  <2>1. start[s].pc \in Cleared /\ WorktreeOf[start[s].prior] = WorktreeOf[s]
    BY <1>4 DEF Cleared, LifecycleBase, Located
  <2>2. stage[s] \in Starting
    BY <2>1, ClearedOwns
  <2>. QED
    BY <1>1, <2>1, <2>2
<1>. QED
  BY <1>1, <1>2, <1>3, <1>4, Zenon

\* The reconciler takes up the run it finds registered, or one whose summary
\* says running while none is registered, and keeps it.
LEMMA ReconcilerRuns ==
    ASSUME LifecycleBase, [LifecycleNext]_vars
    PROVE  /\ reconcile'.step = "stop" =>
                  \/ reconcile.step = "stop" /\ reconcile'.run = reconcile.run
                  \/ reconcile.step = "look" /\ reconcile'.run # NoOne /\ reconcile'.run = runs[reconcile.wt]
           /\ reconcile'.step \in OnOrphan =>
                  /\ ~DaemonCrash
                  /\ \/ reconcile.step \in OnOrphan /\ reconcile'.run = reconcile.run
                     \/ /\ ReconcileLooks /\ reconcile.step = "look" /\ reconcile'.step = "orphanStop"
                        /\ runs[reconcile.wt] = NoOne
                        /\ current[reconcile.wt].status = "running"
                        /\ reconcile'.run = current[reconcile.wt].run
           /\ reconcile'.step \in {"orphanRecord", "orphanFinish"} =>
                  reconcile.step \in {"orphanRecord", "orphanFinish"} \/ OrphanWrites
<1>0. LifecycleTypeOK
  BY DEF LifecycleBase
<1>. DEFINE Goal == /\ reconcile'.step = "stop" =>
                           \/ reconcile.step = "stop" /\ reconcile'.run = reconcile.run
                           \/ reconcile.step = "look" /\ reconcile'.run # NoOne /\ reconcile'.run = runs[reconcile.wt]
                    /\ reconcile'.step \in OnOrphan =>
                           \/ reconcile.step \in OnOrphan /\ reconcile'.run = reconcile.run
                           \/ /\ ReconcileLooks /\ reconcile.step = "look" /\ reconcile'.step = "orphanStop"
                              /\ runs[reconcile.wt] = NoOne
                              /\ current[reconcile.wt].status = "running"
                              /\ reconcile'.run = current[reconcile.wt].run
                    /\ reconcile'.step \in {"orphanRecord", "orphanFinish"} =>
                           reconcile.step \in {"orphanRecord", "orphanFinish"} \/ OrphanWrites
<1>1. UNCHANGED reconcile => Goal
  OBVIOUS
<1>2. ASSUME reconcile'.step \in {"idle", "look", "end", "error", "finalize"}
      PROVE  Goal
  BY <1>2 DEF OnOrphan
<1>3. ASSUME ReconcileLooks
      PROVE  Goal
  <2>1. reconcile.step = "look"
    BY <1>3 DEF ReconcileLooks
  <2>2. \/ reconcile'.step = "end"
        \/ reconcile'.step = "stop" /\ runs[reconcile.wt] # NoOne /\ reconcile'.run = runs[reconcile.wt]
        \/ /\ reconcile'.step = "orphanStop" /\ runs[reconcile.wt] = NoOne
           /\ current[reconcile.wt].status = "running" /\ reconcile'.run = current[reconcile.wt].run
    BY <1>0, <1>3, Reconciling, Zenon DEF ReconcileTo, ReconcileWith
  <2>3. ASSUME reconcile'.step = "stop", runs[reconcile.wt] # NoOne, reconcile'.run = runs[reconcile.wt]
        PROVE  Goal
    BY <2>1, <2>3 DEF OnOrphan
  <2>4. ASSUME reconcile'.step = "orphanStop", runs[reconcile.wt] = NoOne,
               current[reconcile.wt].status = "running", reconcile'.run = current[reconcile.wt].run
        PROVE  Goal
    <3>1. reconcile'.step # "stop" /\ reconcile'.step \notin {"orphanRecord", "orphanFinish"}
      BY <2>4
    <3>. QED
      BY <1>3, <2>1, <2>4, <3>1, Zenon
  <2>. HIDE DEF Goal
  <2>. QED
    BY <1>2, <2>2, <2>3, <2>4
<1>4. ASSUME ReconcileTo("error") \/ ReconcileTo("end") \/ ReconcileTo("finalize")
      PROVE  Goal
  <2>1. reconcile'.step \in {"error", "end", "finalize"}
    BY <1>4 DEF ReconcileTo
  <2>. QED
    BY <1>2, <2>1
<1>5. ASSUME \/ reconcile.step = "orphanStop" /\ ReconcileTo("orphanWrite")
             \/ OrphanWrites /\ reconcile.step = "orphanWrite" /\ ReconcileTo("orphanRecord")
             \/ reconcile.step = "orphanRecord" /\ ReconcileTo("orphanFinish")
      PROVE  Goal
  BY <1>5, Zenon DEF ReconcileTo, OnOrphan
<1>6. ASSUME (\E w \in Worktrees : ReconcileBegins(w)) \/ ReconcileEnds \/ DaemonCrash
      PROVE  Goal
  <2>1. reconcile'.step \in {"idle", "look"}
    BY <1>0, <1>6, Reconciling, Zenon
  <2>. QED
    BY <1>2, <2>1, Zenon
<1>7. ASSUME OrphanStops \/ OrphanWrites \/ OrphanRecords
      PROVE  Goal
  <2>1. /\ OrphanStops => reconcile.step = "orphanStop"
        /\ OrphanWrites => reconcile.step = "orphanWrite"
        /\ OrphanRecords => reconcile.step = "orphanRecord"
    BY Zenon DEF OrphanStops, OrphanWrites, OrphanRecords
  <2>. HIDE DEF Goal
  <2>. QED
    BY <1>0, <1>4, <1>5, <1>7, <2>1, Reconciling, Zenon
<1>8. ASSUME ReconcileStops \/ ReconcileFinalized \/ OrphanFinishes
      PROVE  Goal
  <2>. HIDE DEF Goal
  <2>. QED
    BY <1>0, <1>4, <1>8, Reconciling, Zenon
<1>9. Goal
  <2>. HIDE DEF Goal
  <2>. QED
    BY <1>1, <1>3, <1>6, <1>7, <1>8, ReconcilerMoves, Zenon DEF ReconcileThread
<1>10. DaemonCrash => reconcile'.step \notin OnOrphan
  <2>1. DaemonCrash => reconcile'.step = "idle"
    BY <1>0, Reconciling, Zenon
  <2>. QED
    BY <2>1 DEF OnOrphan
<1>. QED
  BY <1>9, <1>10

\* A run that the reconciler finds orphaned is left to it.
LEMMA OrphanStep ==
    ASSUME ~IoMayFail, LifecycleBase, AdmissionInv, ReconcilerHolds, Held, RegisteredInv, Finalized, Supervised,
           SummaryInv, OrphanInv, [LifecycleNext]_vars
    PROVE  OrphanInv'
<1>0. LifecycleTypeOK /\ TypeOK /\ PermitIsHeld /\ NoOne \notin Runs
  BY AdmissionConstants DEF LifecycleBase, AdmissionInv
<1>1. ASSUME reconcile'.step \in OnOrphan
      PROVE  /\ start'[reconcile'.run].pc \notin Unprepared
             /\ handle'[reconcile'.run].step = "new"
             /\ reaper'[reconcile'.run] # "waiting"
  <2>0. /\ ~DaemonCrash
        /\ \/ reconcile.step \in OnOrphan /\ reconcile'.run = reconcile.run
           \/ /\ ReconcileLooks /\ reconcile.step = "look" /\ runs[reconcile.wt] = NoOne
              /\ current[reconcile.wt].status = "running"
              /\ reconcile'.run = current[reconcile.wt].run
    BY <1>1, ReconcilerRuns, Zenon
  <2>1. reconcile'.run \in Runs /\ reconcile.step # "idle" /\ WorktreeOf[reconcile'.run] = reconcile.wt
    BY <2>0 DEF LifecycleBase, Located, OnRun, OnOrphan
  <2>2. PICK q \in Runs : q = reconcile'.run
    BY <2>1
  <2>3. /\ start[q].pc \notin Spawned \cup {"accept", "launch", "rollback"}
        /\ start[q].pc = "finalizing" => handle[q].step = "done"
        /\ \A s \in Runs : start[s].pc \in {"stopping", "awaiting"} => start[s].prior # q
    BY <1>0, <2>1, <2>2, Unowned
  <2>4. start[q].pc \notin Unprepared /\ handle[q].step = "new" /\ reaper[q] # "waiting"
    <3>1. CASE reconcile.step \in OnOrphan /\ reconcile'.run = reconcile.run
      BY <2>2, <3>1 DEF OrphanInv
    <3>2. CASE /\ reconcile.step = "look" /\ runs[reconcile.wt] = NoOne
               /\ current[reconcile.wt].status = "running"
               /\ reconcile'.run = current[reconcile.wt].run
      <4>1. SaysRunning(q) /\ runs[WorktreeOf[q]] # q
        BY <1>0, <2>1, <2>2, <3>2, Zenon DEF SaysRunning
      <4>2. start[q].pc \notin Unprepared /\ handle[q].step \notin {"written", "settled", "done"}
        BY <4>1 DEF SummaryInv, SaysRunning
      <4>3. handle[q].final = "none"
        BY <4>2 DEF Finalized
      <4>4. reaper[q] \notin {"waiting", "finalizing"}
        BY <2>3, <4>1, <4>3, Zenon DEF Supervised
      <4>5. start[q].pc # "finalizing" /\ reconcile.step # "finalize"
        BY <2>3, <3>2, <4>2
      <4>6. handle[q].step \notin Finalizing
        BY <4>4, <4>5 DEF Finalized
      <4>7. handle[q].step \in Steps
        BY <1>0 DEF LifecycleTypeOK, Handles, HandleType
      <4>. QED
        BY <4>2, <4>4, <4>6, <4>7 DEF Steps, Finalizing
    <3>. QED
      BY <2>0, <3>1, <3>2, Zenon
  <2>5. start'[q].pc \notin Unprepared
    BY <1>0, <2>4, PreparedOrder, Zenon
  <2>6. ~VerifyLaunch(q) /\ ~JoinFailedLaunch(q) /\ ~AbandonLaunch(q)
    BY <2>3, Zenon DEF VerifyLaunch, JoinFailedLaunch, AbandonLaunch, Spawned
  <2>7. ~ReaperFinalizes(q)
    BY <2>4 DEF ReaperFinalizes
  <2>8. ~Claims(q)
    <3>1. ReconcileTo("finalize") => reconcile'.step = "finalize"
      BY DEF ReconcileTo
    <3>2. reconcile'.step # "finalize"
      BY <1>1 DEF OnOrphan
    <3>. QED
      BY <2>6, <2>7, <3>1, <3>2, Zenon DEF Claims
  <2>9. ~Finalizes(q)
    BY <2>4, Zenon DEF Finalizes
  <2>. QED
    BY <2>0, <2>2, <2>4, <2>5, <2>6, <2>8, <2>9, StepMoves, Zenon
<1>2. ASSUME reconcile'.step \in {"orphanRecord", "orphanFinish"}
      PROVE  ~SaysRunning(reconcile.run)' /\ reconcile'.run = reconcile.run
  <2>0. reconcile'.step \in OnOrphan /\ reconcile'.step # "orphanStop"
    BY <1>2 DEF OnOrphan
  <2>1. reconcile.step \in OnOrphan /\ reconcile'.run = reconcile.run
    BY <2>0, ReconcilerRuns, Zenon
  <2>2. reconcile.run \in Runs
    BY <2>1, Zenon DEF LifecycleBase, Located, OnRun, OnOrphan
  <2>3. PICK q \in Runs : q = reconcile.run
    BY <2>2
  <2>4. start[q].pc \notin Unprepared
    BY <2>1, <2>3 DEF OrphanInv
  <2>5. ~Prepare(q)
    BY <2>4, Zenon DEF Prepare, Unprepared
  <2>6. OrphanWrites \/ ~SaysRunning(q)
    BY <1>2, <2>3, ReconcilerRuns, Zenon DEF OrphanInv
  <2>7. ~SaysRunning(q)'
    BY <2>3, <2>5, <2>6, SummaryMoves, Zenon
  <2>. QED
    BY <2>1, <2>3, <2>7, Zenon DEF SaysRunning
<1>. QED
  BY <1>1, <1>2, Zenon DEF OrphanInv, SaysRunning


\* A run that has ended stays so, whoever steps.
LEMMA EndedStays ==
    ASSUME LifecycleBase, AdmissionInv, Held, NEW r \in Runs, Ended(r), [LifecycleNext]_vars
    PROVE  Ended(r)'
<1>0. LifecycleTypeOK /\ TypeOK /\ WorktreeOf[r] \in Worktrees /\ NoOne \notin Runs
  BY AdmissionConstants DEF LifecycleBase, AdmissionInv
<1>. DEFINE Early == Unspawned \cup Spawned \cup {"rollback"}
<1>1. /\ start[r].pc \notin Early /\ handle[r].step \notin Finalizing /\ ~SaysRunning(r)
      /\ handle[r].step = "new" => reaper[r] # "waiting" /\ runs[WorktreeOf[r]] # r
      /\ ~(reconcile.step \in {"stop"} \cup OnOrphan /\ reconcile.run = r /\ handle[r].step = "new")
  BY Zenon DEF Ended
<1>2. /\ ~Prepare(r) /\ ~Launch(r) /\ ~VerifyLaunch(r)
      /\ ~JoinFailedLaunch(r) /\ ~AbandonLaunch(r)
  BY <1>1, Zenon DEF Prepare, Launch, VerifyLaunch, JoinFailedLaunch, AbandonLaunch, Unspawned, Unprepared, Spawned
<1>3. ~SaysRunning(r)'
  BY <1>1, <1>2, SummaryMoves, Zenon
<1>4. start'[r].pc \notin Early
  <2>1. /\ start'[r].pc \in Unspawned \cup {"rollback"} => start[r].pc \in Unspawned \cup {"rollback"}
        /\ start'[r].pc \in Spawned => start[r].pc \in Spawned
    BY <1>0, <1>2, LaunchOrder, Zenon
  <2>. QED
    BY <1>1, <2>1, Zenon
<1>5. ~Claims(r)
  <2>1. ReaperFinalizes(r) => reaper[r] = "waiting"
    BY Zenon DEF ReaperFinalizes
  <2>2. ReconcileStops => reconcile.step = "stop"
    BY DEF ReconcileStops
  <2>. QED
    BY <1>1, <1>2, <2>1, <2>2, Zenon DEF Claims
<1>6. ~Finalizes(r)
  BY <1>1, Zenon DEF Finalizes, Finalizing
<1>7. handle'[r].step = handle[r].step \/ (DaemonCrash /\ handle'[r].step = "new")
  BY <1>5, <1>6, StepMoves, Zenon
<1>8. handle'[r].step \notin Finalizing
  BY <1>1, <1>7, Zenon DEF Finalizing
<1>9. CASE DaemonCrash
  <2>1. /\ reaper'[r] = "none" /\ runs'[WorktreeOf[r]] = NoOne /\ reconcile'.step = "idle"
    BY <1>0, <1>9, Zenon DEF DaemonCrash, IdleReconciler
  <2>2. reconcile'.step \notin {"stop"} \cup OnOrphan
    BY <2>1 DEF OnOrphan
  <2>3. reaper'[r] # "waiting" /\ runs'[WorktreeOf[r]] # r
    BY <1>0, <2>1
  <2>. QED
    BY <1>3, <1>4, <1>8, <2>2, <2>3, Zenon DEF Ended
<1>10. CASE ~DaemonCrash /\ handle'[r].step = "new"
  <2>1. handle[r].step = "new"
    BY <1>7, <1>10
  <2>2. reaper'[r] # "waiting"
    BY <1>1, <1>2, <2>1, StepMoves, Zenon
  <2>3. runs'[WorktreeOf[r]] # r
    <3>1. PICK w \in Worktrees : w = WorktreeOf[r]
      BY <1>0
    <3>2. \/ runs'[w] = runs[w]
          \/ runs'[w] = NoOne
          \/ \E q \in Runs : VerifyLaunch(q) /\ runs'[w] = q
      BY RegistryOwned, Zenon
    <3>. QED
      BY <1>0, <1>1, <1>2, <2>1, <3>1, <3>2, Zenon
  <2>4. ASSUME reconcile'.step \in {"stop"} \cup OnOrphan, reconcile'.run = r
        PROVE  FALSE
    <3>1. CASE reconcile'.step = "stop"
      <4>1. \/ reconcile.step = "stop" /\ reconcile'.run = reconcile.run
            \/ reconcile.step = "look" /\ reconcile'.run # NoOne /\ reconcile'.run = runs[reconcile.wt]
        BY <3>1, ReconcilerRuns, Zenon
      <4>2. CASE reconcile.step = "look" /\ reconcile'.run # NoOne /\ reconcile'.run = runs[reconcile.wt]
        <5>0. /\ \A w \in Worktrees : runs[w] # NoOne => WorktreeOf[runs[w]] = w
              /\ reconcile.step # "idle" => reconcile.wt \in Worktrees
          BY Zenon DEF LifecycleBase, Located
        <5>1. reconcile.wt = WorktreeOf[r]
          BY <2>4, <4>2, <5>0, Zenon
        <5>. QED
          BY <1>1, <2>1, <2>4, <4>2, <5>1, Zenon
      <4>. QED
        BY <1>1, <2>1, <2>4, <4>1, <4>2, Zenon
    <3>2. CASE reconcile'.step \in OnOrphan
      <4>1. \/ reconcile.step \in OnOrphan /\ reconcile'.run = reconcile.run
            \/ /\ reconcile.step = "look"
               /\ current[reconcile.wt].status = "running"
               /\ reconcile'.run = current[reconcile.wt].run
        BY <3>2, ReconcilerRuns, Zenon
      <4>2. CASE /\ reconcile.step = "look"
                 /\ current[reconcile.wt].status = "running"
                 /\ reconcile'.run = current[reconcile.wt].run
        <5>0. /\ \A w \in Worktrees : current[w].status = "running" => WorktreeOf[current[w].run] = w
              /\ reconcile.step # "idle" => reconcile.wt \in Worktrees
          BY Zenon DEF LifecycleBase, Located
        <5>1. reconcile.wt = WorktreeOf[r]
          BY <2>4, <4>2, <5>0
        <5>. QED
          BY <1>1, <2>4, <4>2, <5>1, Zenon DEF SaysRunning
      <4>. QED
        BY <1>1, <2>1, <2>4, <4>1, <4>2, Zenon
    <3>. QED
      BY <2>4, <3>1, <3>2
  <2>. QED
    BY <1>3, <1>4, <1>8, <2>2, <2>3, <2>4, Zenon DEF Ended
<1>11. CASE ~DaemonCrash /\ handle'[r].step # "new"
  BY <1>3, <1>4, <1>8, <1>11, Zenon DEF Ended
<1>. QED
  BY <1>9, <1>10, <1>11

\* test.finished is published for a run that has not ended, and ends it.
LEMMA EventsStep ==
    ASSUME LifecycleBase, AdmissionInv, ReconcilerHolds, Held, RegisteredInv, SummaryInv, OrphanInv, EventsInv,
           [LifecycleNext]_vars
    PROVE  EventsInv'
<1>0. /\ LifecycleTypeOK /\ TypeOK /\ PermitIsHeld /\ NoOne \notin Runs
      /\ \A r \in Runs : WorktreeOf[r] \in Worktrees
  BY AdmissionConstants DEF LifecycleBase, AdmissionInv
<1>. DEFINE Early == Unspawned \cup Spawned \cup {"rollback"}
<1>1. ASSUME NEW r \in Runs, FinalizeFinishes(r)
      PROVE  finishedEvents[r] = 0 /\ Ended(r)'
  <2>1. handle[r].step = "settled"
    BY <1>1 DEF FinalizeFinishes
  <2>2. handle[r].step \in Finalizing
    BY <2>1 DEF Finalizing
  <2>3. finishedEvents[r] = 0
    BY <2>2, Zenon DEF EventsInv, Ended
  <2>4. ~SaysRunning(r) /\ start[r].pc \notin Early
    BY <2>1, Zenon DEF SummaryInv, Held
  <2>5. handle'[r].step = "done" /\ UNCHANGED <<start, current>>
    BY <1>0, <1>1 DEF FinalizeFinishes, LifecycleTypeOK, Handles, HandleType
  <2>6. ~SaysRunning(r)' /\ start'[r].pc \notin Early
    BY <2>4, <2>5, Zenon DEF SaysRunning
  <2>. QED
    BY <2>3, <2>5, <2>6 DEF Ended, Finalizing
<1>2. ASSUME NEW r \in Runs, OrphanFinishes, reconcile.run = r
      PROVE  finishedEvents[r] = 0 /\ Ended(r)'
  <2>1. reconcile.step = "orphanFinish"
    BY <1>2 DEF OrphanFinishes
  <2>2. /\ reconcile.step \in OnOrphan /\ reconcile.step # "idle" /\ reconcile.wt = WorktreeOf[r]
    BY <1>2, <2>1, Zenon DEF OnOrphan, OnRun, LifecycleBase, Located
  <2>3. /\ start[r].pc \notin Unprepared /\ handle[r].step = "new" /\ reaper[r] # "waiting" /\ ~SaysRunning(r)
    BY <1>2, <2>1, <2>2 DEF OrphanInv
  <2>4. finishedEvents[r] = 0
    BY <1>2, <2>2, <2>3 DEF EventsInv, Ended
  <2>5. start[r].pc \notin Early
    <3>1. start[r].pc \notin Spawned \cup {"accept", "launch", "rollback"}
      BY <1>0, <2>2, Unowned, Zenon
    <3>. QED
      BY <2>3, <3>1 DEF Unspawned
  <2>6. runs[WorktreeOf[r]] # r
    BY <1>0, <2>2, Zenon DEF RegisteredInv
  <2>7. UNCHANGED <<start, runs, handle, reaper, current>>
    BY <1>2, Zenon DEF OrphanFinishes
  <2>8. ~SaysRunning(r)'
    BY <2>3, <2>7, Zenon DEF SaysRunning
  <2>9. reconcile'.step \notin {"stop"} \cup OnOrphan
    <3>1. reconcile'.step \in {"end", "error"}
      BY <1>0, <1>2, Reconciling, Zenon DEF ReconcileTo
    <3>. QED
      BY <3>1 DEF OnOrphan
  <2>10. handle'[r].step \notin Finalizing
    BY <2>3, <2>7 DEF Finalizing
  <2>11. /\ start'[r].pc \notin Early /\ reaper'[r] # "waiting" /\ runs'[WorktreeOf[r]] # r
    BY <2>3, <2>5, <2>6, <2>7, Zenon
  <2>. QED
    BY <2>4, <2>8, <2>9, <2>10, <2>11, Zenon DEF Ended
<1>3. ASSUME NEW r \in Runs, finishedEvents'[r] # 0
      PROVE  finishedEvents'[r] <= 1 /\ Ended(r)'
  <2>1. CASE finishedEvents'[r] = finishedEvents[r]
    <3>1. Ended(r) /\ finishedEvents[r] <= 1
      BY <1>3, <2>1 DEF EventsInv, FinishedOnce
    <3>2. Ended(r)'
      BY <3>1, EndedStays, Zenon
    <3>. QED
      BY <2>1, <3>1, <3>2, Zenon
  <2>2. CASE /\ FinalizeFinishes(r) \/ (OrphanFinishes /\ reconcile.run = r)
             /\ finishedEvents[r] = 0 => finishedEvents'[r] = 1
    <3>1. finishedEvents[r] = 0 /\ Ended(r)'
      BY <1>1, <1>2, <2>2, Zenon
    <3>2. finishedEvents'[r] = 1
      BY <2>2, <3>1, Zenon
    <3>3. finishedEvents'[r] <= 1
      BY <3>2
    <3>. QED
      BY <3>1, <3>3, Zenon
  <2>. QED
    BY <2>1, <2>2, EventMoves, Zenon
<1>4. \A r \in Runs : finishedEvents'[r] <= 1
  <2>1. \A r \in Runs : finishedEvents'[r] = 0 => finishedEvents'[r] <= 1
    OBVIOUS
  <2>. QED
    BY <1>3, <2>1, Zenon
<1>5. FinishedOnce'
  BY <1>4, Zenon DEF FinishedOnce
<1>. QED
  BY <1>3, <1>5, Zenon DEF EventsInv

\* What the summaries, the reconciler and the events say of a run.
EndingInv == SummaryInv /\ OrphanInv /\ EventsInv

\* While systemd stops what it is told to stop, STOP_WAIT does not elapse and
\* the files can be written, test.finished is published once at most for each
\* run, by finalize or by the reconciler, with any number of starts and crashes.
THEOREM RunsFinishOnce ==
    ASSUME ~SystemdMayFail, ~TimeoutsHappen, ~IoMayFail
    PROVE  LifecycleSpec => []FinishedOnce
<1>1. LifecycleInit => Supervised
  BY Begins DEF Supervised
<1>2. LifecycleInit => EndingInv
  <2>0. NoOne \notin Runs /\ \A r \in Runs : WorktreeOf[r] \in Worktrees
    BY AdmissionConstants
  <2>1. LifecycleInit => \A r \in Runs : current[WorktreeOf[r]].run = NoOne /\ finishedEvents[r] = 0 /\ handle[r].step = "new"
    <3>1. NoSummary.run = NoOne /\ NewHandle.step = "new"
      BY DEF NoSummary, NewHandle
    <3>2. LifecycleInit => \A r \in Runs : /\ current[WorktreeOf[r]] = NoSummary /\ finishedEvents[r] = 0
                                          /\ handle[r] = NewHandle
      <4>1. LifecycleInit => /\ current = [w \in Worktrees |-> NoSummary]
                             /\ finishedEvents = [r \in Runs |-> 0]
                             /\ handle = [r \in Runs |-> NewHandle]
        BY Zenon DEF LifecycleInit
      <4>. QED
        BY <2>0, <4>1, Zenon
    <3>. QED
      BY <3>1, <3>2, Zenon
  <2>2. LifecycleInit => reconcile.step = "idle"
    BY Begins, Zenon
  <2>3. LifecycleInit => SummaryInv
    BY <2>0, <2>1 DEF SummaryInv
  <2>4. LifecycleInit => OrphanInv
    BY <2>2 DEF OrphanInv, OnOrphan
  <2>. QED
    BY <2>1, <2>3, <2>4 DEF EndingInv, EventsInv, FinishedOnce
<1>3. /\ LifecycleBase /\ AdmissionInv /\ ReconcilerHolds /\ OwnershipInv /\ Supervised /\ EndingInv /\ [LifecycleNext]_vars
      => Supervised' /\ EndingInv'
  <2>. SUFFICES ASSUME LifecycleBase, AdmissionInv, ReconcilerHolds, Held, RegisteredInv, Finalized, Supervised,
                       SummaryInv, OrphanInv, EventsInv, [LifecycleNext]_vars
                PROVE  Supervised' /\ SummaryInv' /\ OrphanInv' /\ EventsInv'
    BY Zenon DEF OwnershipInv, EndingInv
  <2>1. Supervised'
    BY SupervisedStep, Zenon
  <2>2. SummaryInv'
    BY SummaryStep, Zenon
  <2>3. OrphanInv'
    BY OrphanStep, Zenon
  <2>4. EventsInv'
    BY EventsStep, Zenon
  <2>. QED
    BY <2>1, <2>2, <2>3, <2>4
<1>4. EndingInv => FinishedOnce
  BY Zenon DEF EndingInv, EventsInv
<1>. QED
  BY <1>1, <1>2, <1>3, <1>4, BaseInvariance, AdmissionHolds, ReconcilerInvariance, OwnershipInvariance, PTL
     DEF LifecycleSpec
=============================================================================
