------------------------ MODULE TestLifecycleProofs ------------------------
(***************************************************************************)
(* Proofs about TestAdmission and TestLifecycle, for every number of runs, *)
(* worktrees, installers and waiters: the admission authority, that the    *)
(* lifecycle implements it, and the units of worktrees, of finalized runs, *)
(* of successors and of drained hosts.                                     *)
(***************************************************************************)
EXTENDS TestLifecycle, TLAPS

-----------------------------------------------------------------------------
(* The type invariant.                                                     *)

\* Every step of the admission authority keeps the types.
LEMMA TypeStep == TypeOK /\ [Next]_admissionVars => TypeOK'
<1> SUFFICES ASSUME TypeOK, [Next]_admissionVars PROVE TypeOK'
    OBVIOUS
<1> USE AdmissionConstants DEF TypeOK
<1>1. ASSUME NEW r \in Runs, RunStep(r) PROVE TypeOK'
  <2> USE DEF SetStage, DropPermit, UnlinkStale, NotifyRuntimeMutation, Stages
  <2>1. CASE WorktreeGuard(r) BY <2>1 DEF WorktreeGuard
  <2>2. CASE StartGuard(r) BY <2>2 DEF StartGuard
  <2>3. CASE DropGuard(r) BY <2>3 DEF DropGuard
  <2>4. CASE Started(r) BY <2>4, Zenon DEF Started, WriteActivity
  <2>5. CASE ReleaseGlobal(r) BY <2>5 DEF ReleaseGlobal
  <2>6. CASE StartReturns(r) BY <2>6 DEF StartReturns
  <2>7. CASE Finished(r) BY <2>7, Zenon DEF Finished, WriteActivity
  <2>8. CASE ProbeGuard(r) BY <2>8 DEF ProbeGuard
  <2> QED BY <1>1, <2>1, <2>2, <2>3, <2>4, <2>5, <2>6, <2>7, <2>8, Zenon DEF RunStep
<1>2. ASSUME NEW w \in Worktrees, TryWorktreeGuard(w) \/ DropWorktreeGuard(w)
      PROVE  TypeOK'
    BY <1>2 DEF TryWorktreeGuard, DropWorktreeGuard
<1>3. ASSUME NEW i \in Installers, InstallerStep(i) PROVE TypeOK'
  <2> USE DEF InstallerStages, NotifyRuntimeMutation
  <2>1. CASE BeginDrain(i) BY <2>1 DEF BeginDrain
  <2>2. CASE WatchActivity(i) BY <2>2 DEF WatchActivity
  <2>3. CASE ReadActivity(i) BY <2>3 DEF ReadActivity
  <2>4. CASE ActivityEvent(i) BY <2>4 DEF ActivityEvent
  <2>5. CASE EndDrain(i) BY <2>5 DEF EndDrain
  <2>6. CASE InstallerDies(i) BY <2>6 DEF InstallerDies
  <2> QED BY <1>3, <2>1, <2>2, <2>3, <2>4, <2>5, <2>6 DEF InstallerStep
<1>4. ASSUME NEW k \in Waiters, WaiterStep(k) PROVE TypeOK'
    BY <1>4 DEF WaiterStep, AdmissionWait, ReadLease, LeaseEvent, WaitDeadline, WaiterStages
<1>5. CASE Reset BY <1>5, Zenon DEF Reset, WriteActivity, NotifyRuntimeMutation
<1>6. CASE RecoveryFails BY <1>6, Zenon DEF RecoveryFails
<1>7. CASE Crash BY <1>7, Zenon DEF Crash, Stages, WaiterStages
<1>8. CASE Restart BY <1>8 DEF Restart
<1>9. CASE UNCHANGED admissionVars BY <1>9 DEF admissionVars
<1> QED BY <1>1, <1>2, <1>3, <1>4, <1>5, <1>6, <1>7, <1>8, <1>9, Zenon DEF Next

\* A daemon that has not started is well typed.
LEMMA TypeInit == Init => TypeOK
BY AdmissionConstants, Zenon DEF Init, TypeOK, Stages, InstallerStages, WaiterStages

\* Every operation of the admission authority keeps its state well formed.
THEOREM TypeCorrect == Spec => []TypeOK
BY TypeInit, TypeStep, PTL DEF Spec

-----------------------------------------------------------------------------
(* The inductive invariant.                                                *)

\* The inductive invariant holds before the first start.
LEMMA InvInit == Init => AdmissionInv
<1> SUFFICES ASSUME Init PROVE AdmissionInv
    OBVIOUS
<1>1. TypeOK BY TypeInit
<1>2. \A r \in Runs : stage[r] = "new" /\ gate # r
    BY AdmissionConstants, Zenon DEF Init
<1>3. GateExcludesLease /\ PermitIsHeld /\ NothingBeforeRecovery /\ InProgressIsActive
    BY <1>2 DEF Init, GateExcludesLease, PermitIsHeld, NothingBeforeRecovery,
                InProgressIsActive, Starting, InProgress
<1>4. AcceptedIsReceipted /\ NoLostWakeup
    BY DEF Init, AcceptedIsReceipted, NoLostWakeup
<1> QED BY <1>1, <1>3, <1>4 DEF AdmissionInv

\* A step of a starting run keeps the inductive invariant.
LEMMA StartStep ==
    ASSUME AdmissionInv, TypeOK', NEW r \in Runs, RunStep(r)
    PROVE  AdmissionInv'
<1> USE AdmissionConstants
    DEF AdmissionInv, TypeOK, GateExcludesLease, PermitIsHeld, NothingBeforeRecovery,
        InProgressIsActive, AcceptedIsReceipted, NoLostWakeup, Starting, InProgress,
        SetStage, DropPermit
<1>1. CASE WorktreeGuard(r) BY <1>1, SMTT(30) DEF WorktreeGuard, Serving
<1>2. CASE StartGuard(r)
    BY <1>2, SMTT(30) DEF StartGuard, UnlinkStale, NotifyRuntimeMutation, LeaseLive
<1>3. CASE DropGuard(r) BY <1>3, SMTT(30) DEF DropGuard
<1>4. CASE Started(r)
    BY <1>4, SMTT(30) DEF Started, WriteActivity, NotifyRuntimeMutation, Watching, Outcomes
<1>5. CASE ReleaseGlobal(r) BY <1>5, SMTT(30) DEF ReleaseGlobal
<1>6. CASE StartReturns(r) BY <1>6, SMTT(30) DEF StartReturns
<1>7. CASE Finished(r)
    BY <1>7, SMTT(30) DEF Finished, WriteActivity, NotifyRuntimeMutation, Watching
<1>8. CASE ProbeGuard(r) BY <1>8, SMTT(30) DEF ProbeGuard, UnlinkStale, NotifyRuntimeMutation
<1> QED BY <1>1, <1>2, <1>3, <1>4, <1>5, <1>6, <1>7, <1>8, Zenon DEF RunStep

\* Every other step keeps the inductive invariant.
LEMMA OtherStep ==
    ASSUME AdmissionInv, TypeOK', [Next]_admissionVars, \A r \in Runs : ~RunStep(r)
    PROVE  AdmissionInv'
<1> USE AdmissionConstants
    DEF AdmissionInv, TypeOK, GateExcludesLease, PermitIsHeld, NothingBeforeRecovery,
        InProgressIsActive, AcceptedIsReceipted, NoLostWakeup, Starting, InProgress
<1>1. ASSUME NEW w \in Worktrees, TryWorktreeGuard(w) \/ DropWorktreeGuard(w)
      PROVE  AdmissionInv'
    BY <1>1, SMTT(30) DEF TryWorktreeGuard, DropWorktreeGuard
<1>2. ASSUME NEW i \in Installers, InstallerStep(i) PROVE AdmissionInv'
  <2> USE DEF NotifyRuntimeMutation, Watching
  <2>1. CASE BeginDrain(i) BY <2>1, SMTT(30) DEF BeginDrain
  <2>2. CASE WatchActivity(i) BY <2>2, SMTT(30) DEF WatchActivity
  <2>3. CASE ReadActivity(i) BY <2>3, SMTT(30) DEF ReadActivity
  <2>4. CASE ActivityEvent(i) BY <2>4, SMTT(30) DEF ActivityEvent
  <2>5. CASE EndDrain(i) BY <2>5, SMTT(30) DEF EndDrain
  <2>6. CASE InstallerDies(i) BY <2>6, SMTT(30) DEF InstallerDies
  <2> QED BY <1>2, <2>1, <2>2, <2>3, <2>4, <2>5, <2>6, Zenon DEF InstallerStep
<1>3. ASSUME NEW k \in Waiters, WaiterStep(k) PROVE AdmissionInv'
    BY <1>3, SMTT(30) DEF WaiterStep, AdmissionWait, ReadLease, LeaseEvent, WaitDeadline
<1>4. CASE Reset BY <1>4, SMTT(30) DEF Reset, WriteActivity, NotifyRuntimeMutation, Watching
<1>5. CASE RecoveryFails BY <1>5, SMTT(30) DEF RecoveryFails
<1>6. CASE Crash BY <1>6, SMTT(30) DEF Crash
<1>7. CASE Restart BY <1>7, SMTT(30) DEF Restart
<1>8. CASE UNCHANGED admissionVars BY <1>8, SMTT(30) DEF admissionVars
<1> QED BY <1>1, <1>2, <1>3, <1>4, <1>5, <1>6, <1>7, <1>8, Zenon DEF Next

\* The invariant behind the safety theorems holds in every reachable state.
THEOREM Invariance == Spec => []AdmissionInv
<1>1. AdmissionInv /\ [Next]_admissionVars => AdmissionInv'
  <2> SUFFICES ASSUME AdmissionInv, [Next]_admissionVars PROVE AdmissionInv'
      OBVIOUS
  <2>1. TypeOK' BY TypeStep DEF AdmissionInv
  <2>2. CASE \E r \in Runs : RunStep(r) BY <2>1, <2>2, StartStep
  <2>3. CASE \A r \in Runs : ~RunStep(r) BY <2>1, <2>3, OtherStep
  <2> QED BY <2>2, <2>3
<1> QED BY InvInit, <1>1, PTL DEF Spec

-----------------------------------------------------------------------------
(* The safety theorems.                                                    *)

\* test_admission.rs never counts a run as active that the activity receipt
\* does not list, whichever of its writes fail.
THEOREM AcceptedRunsAreReceipted == Spec => []AcceptedIsReceipted
<1>1. AdmissionInv => AcceptedIsReceipted BY DEF AdmissionInv
<1> QED BY <1>1, Invariance, PTL

\* An installer never sleeps in wait_for_zero_activity through the write that
\* emptied the receipt.
THEOREM NoWakeupIsLost == Spec => []NoLostWakeup
<1>1. AdmissionInv => NoLostWakeup BY DEF AdmissionInv
<1> QED BY <1>1, Invariance, PTL

\* start_guard_for admits one start at a time for each worktree.
THEOREM WorktreeStartsExclude == Spec => []OneStartPerWorktree
<1>1. AdmissionInv => OneStartPerWorktree
    BY DEF AdmissionInv, PermitIsHeld, OneStartPerWorktree
<1> QED BY <1>1, Invariance, PTL

\* REQ-TEST-15 with recovery completed before requests are served: zero
\* activity seen under an installer's own lease stays zero, and no start and
\* no accepted run is in progress behind it.
THEOREM DrainsAreQuiet == ~DeferredRecovery => (Spec => []DrainIsQuiet)
<1> SUFFICES ASSUME ~DeferredRecovery PROVE Spec => []DrainIsQuiet
    OBVIOUS
<1> DEFINE EmptyWhenDrained ==
        \A i \in Installers : installer[i] = "drained" /\ lease = i => receipt = {}
<1>1. Init => EmptyWhenDrained BY DEF Init
<1>2. AdmissionInv /\ EmptyWhenDrained /\ [Next]_admissionVars => EmptyWhenDrained'
  <2> SUFFICES ASSUME AdmissionInv, EmptyWhenDrained, [Next]_admissionVars,
                      NEW i \in Installers, installer'[i] = "drained", lease' = i
               PROVE  receipt' = {}
      OBVIOUS
  <2> USE AdmissionConstants
      DEF AdmissionInv, TypeOK, GateExcludesLease, AcceptedIsReceipted, NotifyRuntimeMutation
  <2>1. ASSUME NEW r \in Runs, RunStep(r) PROVE receipt' = {}
    <3>1. CASE WorktreeGuard(r) BY <3>1 DEF WorktreeGuard
    <3>2. CASE StartGuard(r) BY <3>2 DEF StartGuard, UnlinkStale
    <3>3. CASE DropGuard(r) BY <3>3 DEF DropGuard
    <3>4. CASE Started(r) BY <3>4 DEF Started
    <3>5. CASE ReleaseGlobal(r) BY <3>5 DEF ReleaseGlobal
    <3>6. CASE StartReturns(r) BY <3>6 DEF StartReturns
    <3>7. CASE Finished(r) BY <3>7 DEF Finished, WriteActivity
    <3>8. CASE ProbeGuard(r) BY <3>8 DEF ProbeGuard, UnlinkStale
    <3> QED BY <2>1, <3>1, <3>2, <3>3, <3>4, <3>5, <3>6, <3>7, <3>8 DEF RunStep
  <2>2. ASSUME NEW w \in Worktrees, TryWorktreeGuard(w) \/ DropWorktreeGuard(w)
        PROVE  receipt' = {}
      BY <2>2 DEF TryWorktreeGuard, DropWorktreeGuard
  <2>3. ASSUME NEW j \in Installers, InstallerStep(j) PROVE receipt' = {}
    <3>1. CASE BeginDrain(j) BY <3>1 DEF BeginDrain
    <3>2. CASE ReadActivity(j) BY <3>2 DEF ReadActivity
    <3>3. CASE WatchActivity(j) \/ ActivityEvent(j) \/ EndDrain(j) \/ InstallerDies(j)
        BY <3>3 DEF WatchActivity, ActivityEvent, EndDrain, InstallerDies
    <3> QED BY <2>3, <3>1, <3>2, <3>3 DEF InstallerStep
  <2>4. ASSUME NEW k \in Waiters, WaiterStep(k) PROVE receipt' = {}
      BY <2>4 DEF WaiterStep, AdmissionWait, ReadLease, LeaseEvent, WaitDeadline
  <2>5. CASE Reset BY <2>5 DEF Reset, WriteActivity
  <2>6. CASE RecoveryFails \/ Crash \/ Restart \/ UNCHANGED admissionVars
      BY <2>6 DEF RecoveryFails, Crash, Restart, admissionVars
  <2> QED BY <2>1, <2>2, <2>3, <2>4, <2>5, <2>6 DEF Next
<1>3. AdmissionInv /\ EmptyWhenDrained => DrainIsQuiet
    BY AdmissionConstants
       DEF AdmissionInv, TypeOK, GateExcludesLease, InProgressIsActive, AcceptedIsReceipted,
           DrainIsQuiet, InProgress
<1> QED BY <1>1, <1>2, <1>3, Invariance, PTL DEF Spec

\* Under one live lease the receipt only loses runs.
THEOREM ReceiptsShrinkUnderLease == Spec => ReceiptShrinksUnderLease
<1>1. AdmissionInv /\ [Next]_admissionVars =>
        [LeaseLive /\ LeaseLive' /\ lease' = lease => receipt' \subseteq receipt]_admissionVars
  <2> SUFFICES ASSUME AdmissionInv, Next, lease \in Installers, lease' = lease
               PROVE  receipt' \subseteq receipt
      BY DEF LeaseLive
  <2> USE AdmissionConstants
      DEF AdmissionInv, TypeOK, GateExcludesLease, AcceptedIsReceipted, NotifyRuntimeMutation
  <2>1. ASSUME NEW r \in Runs, RunStep(r) PROVE receipt' \subseteq receipt
    <3>1. CASE Started(r) BY <3>1 DEF Started
    <3>2. CASE Finished(r) BY <3>2 DEF Finished, WriteActivity
    <3>3. CASE \/ WorktreeGuard(r) \/ StartGuard(r) \/ ProbeGuard(r) \/ DropGuard(r)
               \/ ReleaseGlobal(r) \/ StartReturns(r)
        BY <3>3, Zenon DEF WorktreeGuard, StartGuard, ProbeGuard, DropGuard, ReleaseGlobal, StartReturns
    <3> QED BY <2>1, <3>1, <3>2, <3>3 DEF RunStep
  <2>2. ASSUME NEW i \in Installers, InstallerStep(i) PROVE receipt' \subseteq receipt
      BY <2>2, Zenon DEF InstallerStep, BeginDrain, WatchActivity, ReadActivity, ActivityEvent,
                  EndDrain, InstallerDies
  <2>3. ASSUME NEW k \in Waiters, WaiterStep(k) PROVE receipt' \subseteq receipt
      BY <2>3 DEF WaiterStep, AdmissionWait, ReadLease, LeaseEvent, WaitDeadline
  <2>4. CASE Reset BY <2>4 DEF Reset, WriteActivity
  <2>5. CASE \/ \E w \in Worktrees : TryWorktreeGuard(w) \/ DropWorktreeGuard(w)
             \/ RecoveryFails \/ Crash \/ Restart
      BY <2>5 DEF TryWorktreeGuard, DropWorktreeGuard, RecoveryFails, Crash, Restart
  <2> QED BY <2>1, <2>2, <2>3, <2>4, <2>5 DEF Next
<1> QED BY <1>1, Invariance, PTL DEF Spec, ReceiptShrinksUnderLease

\* A live lease is removed by its owner's end_drain and by nothing else.
THEOREM LiveLeasesAreKept == Spec => LiveLeaseIsKept
<1>1. AdmissionInv /\ [Next]_admissionVars =>
        [\A i \in Installers :
            lease = i /\ Alive(i) /\ lease' # i => installer'[i] = "ended"]_admissionVars
  <2> SUFFICES ASSUME AdmissionInv, Next, NEW i \in Installers,
                      lease = i, Alive(i), lease' # i
               PROVE  installer'[i] = "ended"
      OBVIOUS
  <2> USE AdmissionConstants DEF AdmissionInv, TypeOK, LeaseLive
  <2>1. ASSUME NEW r \in Runs, RunStep(r) PROVE installer'[i] = "ended"
      BY <2>1, Zenon DEF RunStep, WorktreeGuard, StartGuard, ProbeGuard, DropGuard, Started,
                  ReleaseGlobal, StartReturns, Finished
  <2>2. ASSUME NEW j \in Installers, InstallerStep(j) PROVE installer'[i] = "ended"
      BY <2>2, Zenon DEF InstallerStep, BeginDrain, WatchActivity, ReadActivity, ActivityEvent,
                  EndDrain, InstallerDies
  <2>3. ASSUME NEW k \in Waiters, WaiterStep(k) PROVE installer'[i] = "ended"
      BY <2>3 DEF WaiterStep, AdmissionWait, ReadLease, LeaseEvent, WaitDeadline
  <2>4. CASE \/ \E w \in Worktrees : TryWorktreeGuard(w) \/ DropWorktreeGuard(w)
             \/ Reset \/ RecoveryFails \/ Crash \/ Restart
      BY <2>4 DEF TryWorktreeGuard, DropWorktreeGuard, Reset, RecoveryFails, Crash, Restart
  <2> QED BY <2>1, <2>2, <2>3, <2>4, Zenon DEF Next
<1> QED BY <1>1, Invariance, PTL DEF Spec, LiveLeaseIsKept

-----------------------------------------------------------------------------
(* Where a start request is.                                               *)

\* It has changed nothing yet, or only its own admission.
Unprepared == {"idle", "attached", "busy", "probe", "ready", "supersede", "stopping", "awaiting",
               "sweep", "prepare"}
\* It has not asked systemd for the unit.
Unspawned == Unprepared \cup {"accept", "launch"}
\* Its unit exists, and nobody else knows the run.
Spawned == {"spawned", "failing", "joining", "abandoning"}

OnRun == {"stop", "finalize", "orphanStop", "orphanWrite", "orphanRecord", "orphanFinish"}
Finalizing == {"claimed", "decided", "written", "settled"}

-----------------------------------------------------------------------------
(* The inductive invariants.                                               *)

Places == Unspawned \cup Spawned \cup {"rollback", "finalizing", "returning", "over"}
Steps == {"new"} \cup Finalizing \cup {"done"}
Statuses == {"none"} \cup Terminal
UnitStates == {"absent", "running", "stopped", "passed", "failed", "timed_out"}
Reaping == {"none", "waiting", "finalizing", "leaving", "gone"}
HandleType == [stop : {"none", "superseded", "cancelled", "memory_pressure", "interrupted"},
               final : Statuses, step : Steps, status : Statuses,
               by : {"none", "launcher", "starter", "reaper", "reconciler"}]
SummaryType == [run : Runs \cup {NoOne}, status : {"running"} \cup Statuses]

Requests == [Runs -> [pc : Places, prior : Runs \cup {NoOne}]]
Replaced == [Runs -> Runs \cup {NoOne}]
Registries == [Worktrees -> Runs \cup {NoOne}]
Handles == [Runs -> HandleType]
Reapers == [Runs -> Reaping]
Units == [Runs -> UnitStates]
Summaries == [Worktrees -> SummaryType]
Histories == [Runs -> Statuses]
EventCounts == [Runs -> 0 .. 2]
Reconcilers == [step : {"idle", "look", "end", "error"} \cup OnRun,
                wt : Worktrees \cup {NoOne}, run : Runs \cup {NoOne}]
Recoveries == [step : {"stop", "reconcile"}, left : SUBSET Worktrees, failed : BOOLEAN]
Stoppers == [step : {"idle", "unit"}, run : Runs \cup {NoOne}]
Reliefs == [step : {"idle", "picked", "unit"}, run : Runs \cup {NoOne}]

\* The types of the lifecycle's state.
LifecycleTypeOK ==
    /\ start \in Requests
    /\ superseded \in Replaced
    /\ runs \in Registries
    /\ handle \in Handles
    /\ reaper \in Reapers
    /\ unit \in Units
    /\ current \in Summaries
    /\ history \in Histories
    /\ finishedEvents \in EventCounts
    /\ reconcile \in Reconcilers
    /\ recovery \in Recoveries
    /\ stopper \in Stoppers
    /\ relief \in Reliefs

\* Every run that a thread, the registry or a summary names is one of the
\* worktree it is named for.
Located ==
    /\ \A r \in Runs : start[r].pc \in {"stopping", "awaiting"} =>
           start[r].prior \in Runs /\ WorktreeOf[start[r].prior] = WorktreeOf[r]
    /\ \A w \in Worktrees : runs[w] # NoOne => WorktreeOf[runs[w]] = w
    /\ \A w \in Worktrees : current[w].status = "running" =>
           current[w].run \in Runs /\ WorktreeOf[current[w].run] = w
    /\ reconcile.step # "idle" => reconcile.wt \in Worktrees
    /\ reconcile.step \in OnRun =>
           reconcile.run \in Runs /\ WorktreeOf[reconcile.run] = reconcile.wt
    /\ stopper.step # "idle" => stopper.run \in Runs
    /\ relief.step # "idle" => relief.run \in Runs

\* A start that has stopped the units of its worktree finds none until it
\* launches its own.
Swept ==
    \A r, q \in Runs :
        /\ start[r].pc \in {"prepare", "accept", "launch"}
        /\ stage[r] \in Starting
        /\ WorktreeOf[q] = WorktreeOf[r]
        => unit[q] # "running"

\* A unit exists from the launch of its run on, and whoever may finalize a run
\* knows one that was launched.
UnitsExist ==
    /\ \A r \in Runs : start[r].pc \in Unspawned \cup {"rollback"} => unit[r] = "absent"
    /\ \A r \in Runs : start[r].pc \in Spawned => unit[r] # "absent"
    /\ \A w \in Worktrees : runs[w] # NoOne => unit[runs[w]] # "absent"
    /\ reconcile.step = "stop" => unit[reconcile.run] # "absent"

\* The record of a replaced run is there before its successor goes on.
SuccessorInv ==
    /\ \A r \in Runs : handle[r].step \in {"decided", "written"} => handle[r].status # "none"
    /\ \A r \in Runs : handle[r].final # "none" => history[r] # "none"
    /\ \A r \in Runs : superseded[r] # NoOne =>
           \/ history[superseded[r]] # "none"
           \/ start[r].pc \in {"stopping", "awaiting"} /\ start[r].prior = superseded[r]
           \/ start[r].pc = "over" /\ unit[r] = "absent"

\* A unit that runs belongs to a run the daemon counts or, until recovery has
\* stopped it, to one that the receipt lists.
DrainInv ==
    /\ up /\ ~recovering => \A r \in Runs : unit[r] = "running" => r \in active
    /\ ~up \/ recovering =>
           /\ active = {}
           /\ \A r \in Runs : unit[r] = "running" => r \in receipt /\ recovery.step = "stop"
    /\ reconcile.step \in {"orphanWrite", "orphanRecord", "orphanFinish"} =>
           unit[reconcile.run] # "running"

\* The reconciler owns the worktree it looks at.
ReconcilerHolds == reconcile.step # "idle" => permit[reconcile.wt] = Reconciler


-----------------------------------------------------------------------------
(* What the helpers of the lifecycle do, run by run.                       *)

\* One start request moves to another place, and no other one moves.
StartTo(r, p) ==
    /\ start'[r].pc = p
    /\ start'[r].prior = start[r].prior
    /\ \A s \in Runs : s # r => start'[s] = start[s]

\* Units stop, and nothing else happens to them.
UnitsStop == \A q \in Runs : unit'[q] = unit[q] \/ (unit[q] = "running" /\ unit'[q] = "stopped")

\* Stop reasons change, and nothing else of a handle.
HandlesMarked ==
    \A q \in Runs : /\ handle'[q].step = handle[q].step
                    /\ handle'[q].final = handle[q].final
                    /\ handle'[q].status = handle[q].status

\* One handle goes to a step of its finalization.
HandleTo(r, step, final) ==
    /\ handle'[r].step = step
    /\ handle'[r].final = final
    /\ \A q \in Runs : q # r => handle'[q] = handle[q]

\* One run comes to another stage of its admission.
StageTo(r, s) == stage'[r] = s /\ \A q \in Runs : q # r => stage'[q] = stage[q]

\* SetPc moves one start.
LEMMA PcSet ==
    ASSUME LifecycleTypeOK, NEW r \in Runs, NEW p \in Places, SetPc(r, p)
    PROVE  StartTo(r, p) /\ start' \in Requests
<1>1. start \in Requests
  BY Zenon DEF LifecycleTypeOK
<1>2. start' = [start EXCEPT ![r].pc = p]
  BY DEF SetPc
<1>. QED
  BY <1>1, <1>2 DEF StartTo, Requests

\* A start that goes on with another prior run.
LEMMA StartSet ==
    ASSUME LifecycleTypeOK, NEW r \in Runs, NEW p \in Places, NEW h \in Runs \cup {NoOne},
           start' = [start EXCEPT ![r] = [pc |-> p, prior |-> h]]
    PROVE  /\ start'[r].pc = p /\ start'[r].prior = h
           /\ \A s \in Runs : s # r => start'[s] = start[s]
           /\ start' \in Requests
<1>1. start \in Requests
  BY Zenon DEF LifecycleTypeOK
<1>. QED
  BY <1>1 DEF Requests

\* stop_unit only ever stops units, and stops every one it was asked to unless it fails.
LEMMA Stopping ==
    ASSUME LifecycleTypeOK, NEW rs \in SUBSET Runs, NEW ok, StopUnits(rs, ok)
    PROVE  /\ UnitsStop /\ unit' \in Units
           /\ ok => \A q \in rs : unit'[q] # "running"
<1>1. unit \in Units
  BY Zenon DEF LifecycleTypeOK
<1>2. PICK gone \in SUBSET rs :
          /\ unit' = [r \in Runs |-> IF r \in gone /\ unit[r] = "running" THEN "stopped" ELSE unit[r]]
          /\ ok => gone = rs
  BY DEF StopUnits
<1>3. UnitsStop
  BY <1>1, <1>2 DEF UnitsStop, Units
<1>4. unit' \in Units
  BY <1>1, <1>2 DEF UnitStates, Units
<1>5. ASSUME ok, NEW q \in rs
      PROVE  unit'[q] # "running"
  BY <1>2, <1>5
<1>. QED
  BY <1>3, <1>4, <1>5, Zenon

\* A handle that is replaced, and the ones that are not.
LEMMA HandleSet ==
    ASSUME LifecycleTypeOK, NEW r \in Runs, NEW h \in HandleType, handle' = [handle EXCEPT ![r] = h]
    PROVE  /\ handle' \in Handles /\ handle'[r] = h
           /\ \A q \in Runs : q # r => handle'[q] = handle[q]
<1>1. handle \in Handles
  BY Zenon DEF LifecycleTypeOK
<1>. QED
  BY <1>1 DEF Handles

\* A stop reason leaves the finalization of the run alone.
LEMMA StopSet ==
    ASSUME LifecycleTypeOK, NEW h \in Runs, NEW why \in {"superseded", "cancelled", "memory_pressure", "interrupted"}, SetStop(h, why)
    PROVE  HandlesMarked /\ handle' \in Handles
<1>. DEFINE new == [handle[h] EXCEPT !.stop = why]
<1>1. handle[h] \in HandleType
  BY DEF LifecycleTypeOK, Handles
<1>2. /\ new \in HandleType /\ new.step = handle[h].step /\ new.final = handle[h].final
      /\ new.status = handle[h].status
  BY <1>1 DEF HandleType
<1>3. handle' = [handle EXCEPT ![h] = new]
  BY Zenon DEF SetStop
<1>. HIDE DEF new
<1>4. /\ handle' \in Handles /\ handle'[h] = new
      /\ \A q \in Runs : q # h => handle'[q] = handle[q]
  BY <1>2, <1>3, HandleSet, Zenon
<1>. QED
  BY <1>2, <1>4, Zenon DEF HandlesMarked

\* finalize is claimed once, by one thread.
LEMMA Claiming ==
    ASSUME LifecycleTypeOK, NEW r \in Runs, NEW who \in {"launcher", "starter", "reaper", "reconciler"}, Claim(r, who)
    PROVE  /\ HandleTo(r, "claimed", handle[r].final) /\ handle'[r].status = handle[r].status
           /\ handle' \in Handles
<1>. DEFINE new == [handle[r] EXCEPT !.step = "claimed", !.by = who]
<1>1. handle[r] \in HandleType
  BY DEF LifecycleTypeOK, Handles
<1>2. /\ new \in HandleType /\ new.step = "claimed" /\ new.final = handle[r].final
      /\ new.status = handle[r].status
  BY <1>1, Zenon DEF HandleType, Steps, Finalizing
<1>3. handle' = [handle EXCEPT ![r] = new]
  BY <1>1, Zenon DEF Claim, LifecycleTypeOK, Handles
<1>. HIDE DEF new
<1>4. /\ handle' \in Handles /\ handle'[r] = new
      /\ \A q \in Runs : q # r => handle'[q] = handle[q]
  BY <1>2, <1>3, HandleSet, Zenon
<1>. QED
  BY <1>2, <1>4, Zenon DEF HandleTo

\* Every terminal status says something.
LEMMA Deciding ==
    ASSUME LifecycleTypeOK, NEW r \in Runs, FinalizeDecides(r)
    PROVE  /\ HandleTo(r, "decided", handle[r].final) /\ handle'[r].status # "none"
           /\ handle' \in Handles
<1>1. PICK status \in TerminalStatuses(r) :
          handle' = [handle EXCEPT ![r].step = "decided", ![r].status = status,
                                   ![r].stop = "none", ![r].by = "none"]
  BY Zenon DEF FinalizeDecides
<1>. DEFINE new == [handle[r] EXCEPT !.step = "decided", !.status = status, !.stop = "none", !.by = "none"]
<1>2. handle[r] \in HandleType
  BY DEF LifecycleTypeOK, Handles
<1>3. status \in Statuses /\ status # "none"
  BY <1>1, <1>2 DEF TerminalStatuses, HandleType, Statuses, Terminal
<1>4. /\ new \in HandleType /\ new.step = "decided" /\ new.final = handle[r].final
      /\ new.status = status
  BY <1>2, <1>3, Zenon DEF HandleType, Steps, Finalizing
<1>5. handle' = [handle EXCEPT ![r] = new]
  BY <1>1, <1>2, Zenon DEF LifecycleTypeOK, Handles
<1>. HIDE DEF new
<1>6. /\ handle' \in Handles /\ handle'[r] = new
      /\ \A q \in Runs : q # r => handle'[q] = handle[q]
  BY <1>4, <1>5, HandleSet, Zenon
<1>. QED
  BY <1>3, <1>4, <1>6, Zenon DEF HandleTo

\* The steps of finalize after the decision.
LEMMA Recording ==
    ASSUME LifecycleTypeOK, NEW r \in Runs, NEW step \in {"written", "done"},
           handle' = [handle EXCEPT ![r].step = step]
    PROVE  /\ HandleTo(r, step, handle[r].final) /\ handle'[r].status = handle[r].status
           /\ handle' \in Handles
<1>. DEFINE new == [handle[r] EXCEPT !.step = step]
<1>1. handle[r] \in HandleType
  BY DEF LifecycleTypeOK, Handles
<1>2. /\ new \in HandleType /\ new.step = step /\ new.final = handle[r].final
      /\ new.status = handle[r].status
  BY <1>1 DEF HandleType, Steps, Finalizing
<1>3. handle' = [handle EXCEPT ![r] = new]
  BY Zenon
<1>. HIDE DEF new
<1>4. /\ handle' \in Handles /\ handle'[r] = new
      /\ \A q \in Runs : q # r => handle'[q] = handle[q]
  BY <1>2, <1>3, HandleSet, Zenon
<1>. QED
  BY <1>2, <1>4, Zenon DEF HandleTo

\* The final status is the one that was decided.
LEMMA Settling ==
    ASSUME LifecycleTypeOK, NEW r \in Runs, FinalizeSettles(r)
    PROVE  HandleTo(r, "settled", handle[r].status) /\ handle' \in Handles
<1>. DEFINE new == [handle[r] EXCEPT !.step = "settled", !.final = handle[r].status, !.status = "none"]
<1>1. handle[r] \in HandleType
  BY DEF LifecycleTypeOK, Handles
<1>2. new \in HandleType /\ new.step = "settled" /\ new.final = handle[r].status
  BY <1>1, Zenon DEF HandleType, Steps, Finalizing, Statuses
<1>3. handle' = [handle EXCEPT ![r] = new]
  <2>1. handle' = [handle EXCEPT ![r].step = "settled", ![r].final = handle[r].status,
                                 ![r].status = "none"]
    BY Zenon DEF FinalizeSettles
  <2>. QED
    BY <1>1, <2>1, Zenon DEF LifecycleTypeOK, Handles
<1>. HIDE DEF new
<1>4. /\ handle' \in Handles /\ handle'[r] = new
      /\ \A q \in Runs : q # r => handle'[q] = handle[q]
  BY <1>2, <1>3, HandleSet, Zenon
<1>. QED
  BY <1>2, <1>4, Zenon DEF HandleTo

\* write_summary changes the summary of one worktree, and only its status.
LEMMA Summarizing ==
    ASSUME LifecycleTypeOK, NEW r \in Runs, NEW status \in Statuses, WriteSummary(r, status)
    PROVE  /\ current' \in Summaries
           /\ \A w \in Worktrees : current'[w].run = current[w].run
           /\ \A w \in Worktrees : \/ current'[w] = current[w]
                                   \/ w = WorktreeOf[r] /\ current'[w].status = status
           /\ current[WorktreeOf[r]].run = r => current'[WorktreeOf[r]].status = status
<1>1. current \in Summaries
  BY Zenon DEF LifecycleTypeOK
<1>2. WorktreeOf[r] \in Worktrees
  BY AdmissionConstants
<1>. QED
  BY <1>1, <1>2 DEF WriteSummary, SummaryType, Summaries

\* test.finished is published for one run.
LEMMA Publishing ==
    ASSUME LifecycleTypeOK, NEW r \in Runs, PublishFinished(r)
    PROVE  /\ finishedEvents' \in EventCounts
           /\ finishedEvents[r] = 0 => finishedEvents'[r] = 1
           /\ \A q \in Runs : q # r => finishedEvents'[q] = finishedEvents[q]
<1>1. finishedEvents \in EventCounts
  BY Zenon DEF LifecycleTypeOK
<1>. QED
  BY <1>1 DEF PublishFinished, EventCounts

-----------------------------------------------------------------------------
(* The types, and where the named runs are.                                *)

\* The places a start is sent to.
LEMMA PlaceNames ==
    /\ "idle" \in Places /\ "attached" \in Places /\ "busy" \in Places /\ "probe" \in Places
    /\ "ready" \in Places /\ "supersede" \in Places /\ "stopping" \in Places /\ "awaiting" \in Places
    /\ "sweep" \in Places /\ "prepare" \in Places /\ "accept" \in Places /\ "launch" \in Places
    /\ "rollback" \in Places /\ "spawned" \in Places /\ "failing" \in Places /\ "joining" \in Places
    /\ "abandoning" \in Places /\ "finalizing" \in Places /\ "returning" \in Places /\ "over" \in Places
BY DEF Places, Unspawned, Unprepared, Spawned

\* A step of a start request keeps the types.
LEMMA StartTypes ==
    ASSUME LifecycleTypeOK, Located, NEW r \in Runs, StartThread(r)
    PROVE  LifecycleTypeOK'
<1>0. /\ WorktreeOf[r] \in Worktrees /\ NoOne \notin Runs
      /\ NoSummary \in SummaryType /\ [run |-> r, status |-> "running"] \in SummaryType
  BY AdmissionConstants DEF NoSummary, SummaryType, Statuses
<1>1. /\ runs[WorktreeOf[r]] \in Runs \cup {NoOne}
      /\ \A s \in Runs \cup {NoOne} : [runs EXCEPT ![WorktreeOf[r]] = s] \in Registries
      /\ \A s \in Runs \cup {NoOne} : [superseded EXCEPT ![r] = s] \in Replaced
      /\ \A s \in SummaryType : [current EXCEPT ![WorktreeOf[r]] = s] \in Summaries
      /\ [unit EXCEPT ![r] = "running"] \in Units
      /\ [reaper EXCEPT ![r] = "waiting"] \in Reapers
  BY <1>0 DEF LifecycleTypeOK, UnitStates, Reaping, Registries, Replaced, Summaries, Units, Reapers
<1>2. /\ \A p \in Places : SetPc(r, p) => start' \in Requests
      /\ \A p \in Places, h \in Runs \cup {NoOne} : start' = [start EXCEPT ![r] = [pc |-> p, prior |-> h]] =>
             start' \in Requests
      /\ \A h \in Runs : SetStop(h, "superseded") => handle' \in Handles
      /\ Claim(r, "launcher") \/ Claim(r, "starter") => handle' \in Handles
  BY PcSet, StartSet, StopSet, Claiming, Zenon
<1>20. /\ \A ok : StopUnits({r}, ok) => unit' \in Units
       /\ \A ok : StopUnits({q \in Runs : WorktreeOf[q] = WorktreeOf[r]}, ok) => unit' \in Units
  <2>1. {r} \in SUBSET Runs /\ {q \in Runs : WorktreeOf[q] = WorktreeOf[r]} \in SUBSET Runs
    OBVIOUS
  <2>. QED
    BY <2>1, Stopping, Zenon
<1>3. CASE Attach(r) \/ AttachGuarded(r)
  BY <1>3, <1>2, PlaceNames, Zenon DEF Attach, AttachGuarded, ActiveStarted, LifecycleTypeOK
<1>4. CASE EnterWorktree(r) \/ EnterGate(r)
  BY <1>4, <1>2, PlaceNames, Zenon DEF EnterWorktree, EnterGate, LifecycleTypeOK
<1>5. CASE SupersedePrior(r)
  BY <1>5, <1>0, <1>1, <1>2, PlaceNames, Zenon DEF SupersedePrior, LifecycleTypeOK
<1>6. CASE StopPrior(r)
  <2>1. {start[r].prior} \in SUBSET Runs
    BY <1>6, Zenon DEF StopPrior, Located
  <2>2. \A ok : StopUnits({start[r].prior}, ok) => unit' \in Units
    BY <2>1, Stopping, Zenon
  <2>. QED
    BY <1>6, <2>2, <1>2, PlaceNames, Zenon DEF StopPrior, FailGuarded, LifecycleTypeOK
<1>7. CASE AwaitPrior(r)
  BY <1>7, <1>2, PlaceNames, Zenon DEF AwaitPrior, FailGuarded, LifecycleTypeOK
<1>8. CASE SweepUnits(r)
  BY <1>8, <1>2, <1>20, PlaceNames, Zenon DEF SweepUnits, FailGuarded, LifecycleTypeOK
<1>9. CASE Prepare(r)
  BY <1>9, <1>0, <1>1, <1>2, PlaceNames, Zenon DEF Prepare, FailGuarded, LifecycleTypeOK
<1>10. CASE Accept(r)
  BY <1>10, <1>0, <1>1, <1>2, PlaceNames, Zenon DEF Accept, LifecycleTypeOK
<1>11. CASE ReleaseGate(r)
  BY <1>11, Zenon DEF ReleaseGate, lifecycleVars, LifecycleTypeOK
<1>12. CASE Launch(r)
  BY <1>12, <1>1, <1>2, PlaceNames, Zenon DEF Launch, LifecycleTypeOK
<1>13. CASE RollbackAcceptedStart(r)
  BY <1>13, <1>0, <1>1, <1>2, PlaceNames, Zenon DEF RollbackAcceptedStart, LifecycleTypeOK
<1>14. CASE VerifyLaunch(r)
  BY <1>14, <1>1, <1>2, PlaceNames, Zenon DEF VerifyLaunch, LifecycleTypeOK
<1>15. CASE StopFailedLaunch(r)
  BY <1>15, <1>2, <1>20, PlaceNames, Zenon DEF StopFailedLaunch, LifecycleTypeOK
<1>16. CASE JoinFailedLaunch(r)
  BY <1>16, <1>2, PlaceNames, Zenon DEF JoinFailedLaunch, LifecycleTypeOK
<1>17. CASE AbandonLaunch(r)
  BY <1>17, <1>2, <1>20, PlaceNames, Zenon DEF AbandonLaunch, LifecycleTypeOK
<1>18. CASE StartFinalized(r) \/ ReturnStart(r)
  BY <1>18, <1>2, PlaceNames, Zenon DEF StartFinalized, ReturnStart, LifecycleTypeOK
<1>. QED
  BY <1>3, <1>4, <1>5, <1>6, <1>7, <1>8, <1>9, <1>10, <1>11, <1>12, <1>13, <1>14, <1>15, <1>16,
     <1>17, <1>18, Zenon DEF StartThread

\* A step of a unit, a reaper or a finalization keeps the types.
LEMMA RunTypes ==
    ASSUME LifecycleTypeOK, NEW r \in Runs, UnitExits(r) \/ ReaperThread(r) \/ FinalizeStep(r)
    PROVE  LifecycleTypeOK'
<1>0. WorktreeOf[r] \in Worktrees /\ handle[r].status \in Statuses
  BY AdmissionConstants DEF LifecycleTypeOK, HandleType, Handles
<1>00. /\ Claim(r, "reaper") => handle' \in Handles
       /\ FinalizeDecides(r) \/ FinalizeSettles(r) => handle' \in Handles
       /\ handle' = [handle EXCEPT ![r].step = "written"] => handle' \in Handles
       /\ handle' = [handle EXCEPT ![r].step = "done"] => handle' \in Handles
       /\ \A status \in Statuses : WriteSummary(r, status) => current' \in Summaries
       /\ PublishFinished(r) => finishedEvents' \in EventCounts
  BY Claiming, Deciding, Settling, Recording, Summarizing, Publishing
<1>1. CASE UnitExits(r)
  <2>1. unit' \in Units
    BY <1>1, LifecycleConstants DEF UnitExits, LifecycleTypeOK, UnitStates, Units
  <2>. QED
    BY <1>1, <2>1, Zenon DEF UnitExits, LifecycleTypeOK
<1>2. CASE ReaperFinalizes(r)
  <2>1. reaper' \in Reapers
    BY <1>2, Zenon DEF ReaperFinalizes, LifecycleTypeOK, Reaping, Reapers
  <2>. QED
    BY <1>2, <2>1, <1>00, Zenon DEF ReaperFinalizes, LifecycleTypeOK
<1>3. CASE ReaperLeaves(r)
  <2>1. reaper' \in Reapers
    BY <1>3, Zenon DEF ReaperLeaves, LifecycleTypeOK, Reaping, Reapers
  <2>2. runs' \in Registries
    BY <1>0, <1>3 DEF ReaperLeaves, LifecycleTypeOK, Registries
  <2>. QED
    BY <1>3, <2>1, <2>2, Zenon DEF ReaperLeaves, LifecycleTypeOK
<1>4. CASE FinalizeDecides(r)
  BY <1>4, <1>00, Zenon DEF FinalizeDecides, LifecycleTypeOK
<1>5. CASE FinalizeWrites(r)
  BY <1>0, <1>5, <1>00, Zenon DEF FinalizeWrites, LifecycleTypeOK
<1>6. CASE FinalizeSettles(r)
  <2>1. history' \in Histories
    BY <1>0, <1>6 DEF FinalizeSettles, LifecycleTypeOK, Histories
  <2>. QED
    BY <1>6, <2>1, <1>00, Zenon DEF FinalizeSettles, LifecycleTypeOK
<1>7. CASE FinalizeFinishes(r)
  BY <1>7, <1>00, Zenon DEF FinalizeFinishes, LifecycleTypeOK
<1>. QED
  BY <1>1, <1>2, <1>3, <1>4, <1>5, <1>6, <1>7, Zenon DEF ReaperThread, FinalizeStep

\* A step of a stop request or of the memory-emergency worker keeps the types.
LEMMA WorkerTypes ==
    ASSUME LifecycleTypeOK, Located, StopThread \/ ReliefThread
    PROVE  LifecycleTypeOK'
<1>0. /\ \A w \in Worktrees : runs[w] \in Runs \cup {NoOne}
      /\ stopper.step # "idle" => {stopper.run} \in SUBSET Runs
      /\ relief.step # "idle" => {relief.run} \in SUBSET Runs /\ relief.run \in Runs
  BY DEF LifecycleTypeOK, Located, Registries
<1>1. /\ \A h \in Runs : [step |-> "unit", run |-> h] \in Stoppers
      /\ \A h \in Runs : [step |-> "picked", run |-> h] \in Reliefs
      /\ [relief EXCEPT !.step = "unit"] \in Reliefs
      /\ IdleWorker \in Stoppers
      /\ IdleWorker \in Reliefs
  BY DEF LifecycleTypeOK, IdleWorker, Stoppers, Reliefs
<1>00. /\ \A h \in Runs : SetStop(h, "cancelled") \/ SetStop(h, "memory_pressure") => handle' \in Handles
       /\ \A rs \in SUBSET Runs : \A ok : StopUnits(rs, ok) => unit' \in Units
  BY StopSet, Stopping
<1>2. ASSUME NEW w \in Worktrees, StopAsks(w)
      PROVE  LifecycleTypeOK'
  BY <1>0, <1>1, <1>2, <1>00, Zenon DEF StopAsks, LifecycleTypeOK
<1>3. CASE StopStopsUnit
  BY <1>0, <1>1, <1>3, <1>00, Zenon DEF StopStopsUnit, LifecycleTypeOK
<1>4. ASSUME NEW w \in Worktrees, RelievePicks(w)
      PROVE  LifecycleTypeOK'
  BY <1>0, <1>1, <1>4, Zenon DEF RelievePicks, LifecycleTypeOK
<1>5. CASE RelieveMarks
  BY <1>0, <1>1, <1>5, <1>00, Zenon DEF RelieveMarks, LifecycleTypeOK
<1>6. CASE RelieveStopsUnit
  BY <1>0, <1>1, <1>6, <1>00, Zenon DEF RelieveStopsUnit, LifecycleTypeOK
<1>. QED
  BY <1>2, <1>3, <1>4, <1>5, <1>6, Zenon DEF StopThread, ReliefThread

\* A step of the reconciler keeps the types.
LEMMA ReconcileTypes ==
    ASSUME LifecycleTypeOK, Located, (\E w \in Worktrees : ReconcileBegins(w)) \/ ReconcileThread
    PROVE  LifecycleTypeOK'
<1>0. /\ \A w \in Worktrees : [step |-> "look", wt |-> w, run |-> NoOne] \in Reconcilers
      /\ \A h \in Runs : [reconcile EXCEPT !.step = "stop", !.run = h] \in Reconcilers
      /\ \A h \in Runs : [reconcile EXCEPT !.step = "orphanStop", !.run = h] \in Reconcilers
      /\ IdleReconciler \in Reconcilers
  BY Zenon DEF LifecycleTypeOK, Reconcilers, OnRun, IdleReconciler
<1>1. /\ [reconcile EXCEPT !.step = "end"] \in Reconcilers
      /\ [reconcile EXCEPT !.step = "error"] \in Reconcilers
      /\ [reconcile EXCEPT !.step = "finalize"] \in Reconcilers
      /\ [reconcile EXCEPT !.step = "orphanWrite"] \in Reconcilers
      /\ [reconcile EXCEPT !.step = "orphanRecord"] \in Reconcilers
      /\ [reconcile EXCEPT !.step = "orphanFinish"] \in Reconcilers
  BY DEF LifecycleTypeOK, Reconcilers, OnRun
<1>2. /\ reconcile.step # "idle" => reconcile.wt \in Worktrees
      /\ reconcile.step \in OnRun => reconcile.run \in Runs /\ {reconcile.run} \in SUBSET Runs
      /\ reconcile.step # "idle" => runs[reconcile.wt] \in Runs \cup {NoOne}
      /\ reconcile.step # "idle" /\ current[reconcile.wt].status = "running" => current[reconcile.wt].run \in Runs
  BY DEF LifecycleTypeOK, Located, Registries
<1>3. /\ \A h \in Runs : SetStop(h, "interrupted") => handle' \in Handles
      /\ \A h \in Runs : Claim(h, "reconciler") => handle' \in Handles
      /\ \A rs \in SUBSET Runs : \A ok : StopUnits(rs, ok) => unit' \in Units
      /\ \A h \in Runs : WriteSummary(h, "interrupted") => current' \in Summaries
      /\ \A h \in Runs : PublishFinished(h) => finishedEvents' \in EventCounts
  BY StopSet, Claiming, Stopping, Summarizing, Publishing, Zenon DEF Statuses, Terminal
<1>4. /\ "stop" \in OnRun /\ "orphanStop" \in OnRun /\ "orphanWrite" \in OnRun
      /\ "orphanRecord" \in OnRun /\ "orphanFinish" \in OnRun
  BY DEF OnRun
<1>5. ASSUME NEW w \in Worktrees, ReconcileBegins(w)
      PROVE  LifecycleTypeOK'
  BY <1>0, <1>5, Zenon DEF ReconcileBegins, LifecycleTypeOK
<1>6. CASE ReconcileLooks
  BY <1>0, <1>1, <1>2, <1>3, <1>6, Zenon DEF ReconcileLooks, LifecycleTypeOK
<1>7. CASE ReconcileStops
  <2>1. PICK ok \in Faults(SystemdMayFail) :
            /\ StopUnits({reconcile.run}, ok)
            /\ IF ok /\ handle[reconcile.run].step = "new"
               THEN Claim(reconcile.run, "reconciler") /\ reconcile' = [reconcile EXCEPT !.step = "finalize"]
               ELSE /\ reconcile' = [reconcile EXCEPT !.step = IF ok THEN "end" ELSE "error"]
                    /\ UNCHANGED handle
    BY <1>7, Zenon DEF ReconcileStops
  <2>2. reconcile.run \in Runs /\ {reconcile.run} \in SUBSET Runs
    BY <1>2, <1>4, <1>7, Zenon DEF ReconcileStops
  <2>3. unit' \in Units
    BY <1>3, <2>1, <2>2, Zenon
  <2>4. handle' \in Handles /\ reconcile' \in Reconcilers
    BY <1>1, <1>3, <2>1, <2>2 DEF LifecycleTypeOK
  <2>. QED
    BY <1>7, <2>3, <2>4, Zenon DEF ReconcileStops, LifecycleTypeOK
<1>8. CASE ReconcileFinalized
  BY <1>1, <1>8, Zenon DEF ReconcileFinalized, LifecycleTypeOK
<1>9. CASE OrphanStops
  <2>1. unit' \in Units
    BY <1>2, <1>3, <1>4, <1>9, Zenon DEF OrphanStops
  <2>2. reconcile' \in Reconcilers
    BY <1>1, <1>9 DEF OrphanStops
  <2>. QED
    BY <1>9, <2>1, <2>2, Zenon DEF OrphanStops, LifecycleTypeOK
<1>10. CASE OrphanWrites
  BY <1>1, <1>2, <1>3, <1>4, <1>10, Zenon DEF OrphanWrites, LifecycleTypeOK
<1>11. CASE OrphanRecords
  <2>1. [history EXCEPT ![reconcile.run] = "interrupted"] \in Histories
    BY Zenon DEF LifecycleTypeOK, Histories, Statuses, Terminal
  <2>. QED
    BY <1>1, <1>11, <2>1, Zenon DEF OrphanRecords, LifecycleTypeOK
<1>12. CASE OrphanFinishes
  BY <1>1, <1>2, <1>3, <1>4, <1>12, Zenon DEF OrphanFinishes, LifecycleTypeOK
<1>13. CASE ReconcileEnds
  <2>1. recovery' \in Recoveries
    BY <1>13, Zenon DEF ReconcileEnds, LifecycleTypeOK, Recoveries
  <2>. QED
    BY <1>0, <1>13, <2>1, Zenon DEF ReconcileEnds, LifecycleTypeOK
<1>. QED
  BY <1>5, <1>6, <1>7, <1>8, <1>9, <1>10, <1>11, <1>12, <1>13, Zenon DEF ReconcileThread

\* Every other step keeps the types.
LEMMA RestTypes ==
    ASSUME LifecycleTypeOK, RecoveryThread \/ DaemonCrash \/ DaemonRestart \/ Outside \/ UNCHANGED vars
    PROVE  LifecycleTypeOK'
<1>1. CASE RecoverStopsUnits
  <2>1. recovery' \in Recoveries
    BY <1>1 DEF RecoverStopsUnits, Recoveries
  <2>2. unit' \in Units
    BY <1>1, Stopping DEF RecoverStopsUnits
  <2>. QED
    BY <1>1, <2>1, <2>2, Zenon DEF RecoverStopsUnits, LifecycleTypeOK
<1>2. ASSUME NEW w \in Worktrees, RecoverSkips(w)
      PROVE  LifecycleTypeOK'
  <2>1. recovery' \in Recoveries
    BY <1>2 DEF RecoverSkips, LifecycleTypeOK, Recoveries
  <2>. QED
    BY <1>2, <2>1, Zenon DEF RecoverSkips, LifecycleTypeOK
<1>3. CASE DaemonCrash
  <2>1. start' \in Requests
    BY <1>3, PlaceNames, Zenon DEF DaemonCrash, LifecycleTypeOK, Requests
  <2>2. handle' \in Handles
    BY <1>3, Zenon DEF DaemonCrash, Handles, HandleType, NewHandle, Steps, Statuses
  <2>3. runs' \in Registries /\ reaper' \in Reapers
    BY <1>3, Zenon DEF DaemonCrash, Registries, Reapers, Reaping
  <2>4. reconcile' \in Reconcilers /\ recovery' \in Recoveries
    BY <1>3, Zenon DEF DaemonCrash, Reconcilers, Recoveries, IdleReconciler
  <2>5. stopper' \in Stoppers /\ relief' \in Reliefs
    BY <1>3, Zenon DEF DaemonCrash, Stoppers, Reliefs, IdleWorker
  <2>. QED
    BY <1>3, <2>1, <2>2, <2>3, <2>4, <2>5, Zenon DEF DaemonCrash, LifecycleTypeOK
<1>4. CASE UNCHANGED lifecycleVars
  BY <1>4, Zenon DEF lifecycleVars, LifecycleTypeOK
<1>. QED
  BY <1>1, <1>2, <1>3, <1>4, Zenon DEF RecoveryThread, RecoverResets, RecoverFails, DaemonRestart, Outside, vars

\* Every step keeps the types.
LEMMA LifecycleTypes ==
    ASSUME LifecycleTypeOK, Located, [LifecycleNext]_vars
    PROVE  LifecycleTypeOK'
BY StartTypes, RunTypes, WorkerTypes, ReconcileTypes, RestTypes, Zenon DEF LifecycleNext

-----------------------------------------------------------------------------
(* The same helpers once more, as implications.                            *)

\* One entry changes.
RunsTo(w, h) == runs'[w] = h /\ \A v \in Worktrees : v # w => runs'[v] = runs[v]
CurrentTo(w, c) == current'[w] = c /\ \A v \in Worktrees : v # w => current'[v] = current[v]
ReaperTo(r, x) == reaper'[r] = x /\ \A q \in Runs : q # r => reaper'[q] = reaper[q]
UnitTo(r, x) == unit'[r] = x /\ \A q \in Runs : q # r => unit'[q] = unit[q]
\* A start goes on with another prior run.
StartWith(r, p, h) ==
    /\ start'[r].pc = p
    /\ start'[r].prior = h
    /\ \A s \in Runs : s # r => start'[s] = start[s]

\* The values at one place.
LEMMA TypesNow ==
    ASSUME LifecycleTypeOK
    PROVE  /\ \A r \in Runs : start[r].pc \in Places /\ start[r].prior \in Runs \cup {NoOne}
           /\ \A r \in Runs : handle[r].final \in Statuses /\ handle[r].step \in Steps
           /\ \A w \in Worktrees : runs[w] \in Runs \cup {NoOne}
           /\ \A w \in Worktrees : current[w].run \in Runs \cup {NoOne}
BY DEF LifecycleTypeOK, Requests, Handles, HandleType, Registries, Summaries, SummaryType

\* How a start request moves.
LEMMA Moving ==
    ASSUME LifecycleTypeOK, NEW r \in Runs
    PROVE  /\ \A p \in Places : SetPc(r, p) => StartTo(r, p)
           /\ \A p \in Places, h \in Runs \cup {NoOne} :
                  start' = [start EXCEPT ![r] = [pc |-> p, prior |-> h]] => StartWith(r, p, h)
BY PcSet, StartSet, Zenon DEF StartWith

\* Where each step of a start leads.
LEMMA Transitions ==
    ASSUME LifecycleTypeOK, NEW r \in Runs
    PROVE  /\ Attach(r) => StartTo(r, "attached") \/ StartTo(r, "busy") \/ StartTo(r, "probe")
           /\ AttachGuarded(r) => StartTo(r, "attached") \/ StartTo(r, "busy") \/ StartTo(r, "ready") \/ StartTo(r, "over")
           /\ EnterWorktree(r) => StartTo(r, "ready")
           /\ EnterGate(r) => StartTo(r, "supersede") \/ StartTo(r, "over")
           /\ StopPrior(r) => StartTo(r, "awaiting") \/ StartTo(r, "over")
           /\ SweepUnits(r) => StartTo(r, "prepare") \/ StartTo(r, "over")
           /\ Prepare(r) => StartTo(r, "accept") \/ StartTo(r, "over")
           /\ Accept(r) => StartTo(r, "launch") \/ StartTo(r, "over")
           /\ Launch(r) => StartTo(r, "spawned") \/ StartTo(r, "rollback")
           /\ RollbackAcceptedStart(r) => StartTo(r, "returning")
           /\ VerifyLaunch(r) => StartTo(r, "returning") \/ StartTo(r, "abandoning") \/ StartTo(r, "failing")
           /\ StopFailedLaunch(r) => StartTo(r, "joining")
           /\ JoinFailedLaunch(r) => StartTo(r, "finalizing")
           /\ AbandonLaunch(r) => StartTo(r, "finalizing") \/ StartTo(r, "returning")
           /\ StartFinalized(r) => StartTo(r, "returning")
           /\ ReturnStart(r) => StartTo(r, "over")
           /\ SupersedePrior(r) => \/ runs[WorktreeOf[r]] = NoOne /\ StartWith(r, "sweep", NoOne)
                                   \/ runs[WorktreeOf[r]] # NoOne /\ StartWith(r, "stopping", runs[WorktreeOf[r]])
           /\ AwaitPrior(r) => \/ handle[start[r].prior].final # "none" /\ StartWith(r, "sweep", NoOne)
                               \/ StartTo(r, "over")
           /\ ReleaseGate(r) => UNCHANGED start
<1>. USE Moving, PlaceNames
<1>0. runs[WorktreeOf[r]] \in Runs \cup {NoOne} /\ NoOne \notin Runs
  BY TypesNow, AdmissionConstants, Zenon
<1>1. Attach(r) => StartTo(r, "attached") \/ StartTo(r, "busy") \/ StartTo(r, "probe")
  BY Zenon DEF Attach, ActiveStarted
<1>2. AttachGuarded(r) => StartTo(r, "attached") \/ StartTo(r, "busy") \/ StartTo(r, "ready") \/ StartTo(r, "over")
  BY Zenon DEF AttachGuarded, ActiveStarted
<1>3. EnterWorktree(r) => StartTo(r, "ready")
  BY Zenon DEF EnterWorktree
<1>4. EnterGate(r) => StartTo(r, "supersede") \/ StartTo(r, "over")
  BY Zenon DEF EnterGate
<1>5. StopPrior(r) => StartTo(r, "awaiting") \/ StartTo(r, "over")
  BY Zenon DEF StopPrior, FailGuarded
<1>6. SweepUnits(r) => StartTo(r, "prepare") \/ StartTo(r, "over")
  BY Zenon DEF SweepUnits, FailGuarded
<1>7. Prepare(r) => StartTo(r, "accept") \/ StartTo(r, "over")
  BY Zenon DEF Prepare, FailGuarded
<1>8. Accept(r) => StartTo(r, "launch") \/ StartTo(r, "over")
  BY Zenon DEF Accept
<1>9. Launch(r) => StartTo(r, "spawned") \/ StartTo(r, "rollback")
  BY Zenon DEF Launch
<1>10. RollbackAcceptedStart(r) => StartTo(r, "returning")
  BY Zenon DEF RollbackAcceptedStart
<1>11. VerifyLaunch(r) => StartTo(r, "returning") \/ StartTo(r, "abandoning") \/ StartTo(r, "failing")
  BY Zenon DEF VerifyLaunch
<1>12. StopFailedLaunch(r) => StartTo(r, "joining")
  BY Zenon DEF StopFailedLaunch
<1>13. JoinFailedLaunch(r) => StartTo(r, "finalizing")
  BY Zenon DEF JoinFailedLaunch
<1>14. AbandonLaunch(r) => StartTo(r, "finalizing") \/ StartTo(r, "returning")
  BY Zenon DEF AbandonLaunch
<1>15. StartFinalized(r) => StartTo(r, "returning")
  BY Zenon DEF StartFinalized
<1>16. ReturnStart(r) => StartTo(r, "over")
  BY Zenon DEF ReturnStart
<1>17. SupersedePrior(r) => \/ runs[WorktreeOf[r]] = NoOne /\ StartWith(r, "sweep", NoOne)
                            \/ runs[WorktreeOf[r]] # NoOne /\ StartWith(r, "stopping", runs[WorktreeOf[r]])
  <2>1. CASE runs[WorktreeOf[r]] = NoOne
    BY <1>0, <2>1, Zenon DEF SupersedePrior
  <2>2. CASE runs[WorktreeOf[r]] # NoOne
    BY <1>0, <2>2, Zenon DEF SupersedePrior
  <2>. QED
    BY <2>1, <2>2, Zenon
<1>18. AwaitPrior(r) => \/ handle[start[r].prior].final # "none" /\ StartWith(r, "sweep", NoOne)
                        \/ StartTo(r, "over")
  BY Zenon DEF AwaitPrior, FailGuarded
<1>19. ReleaseGate(r) => UNCHANGED start
  BY Zenon DEF ReleaseGate, lifecycleVars
<1>. QED
  BY <1>1, <1>2, <1>3, <1>4, <1>5, <1>6, <1>7, <1>8, <1>9, <1>10, <1>11, <1>12, <1>13, <1>14, <1>15, <1>16, <1>17, <1>18, <1>19, Zenon

\* How entries of the registry, the summaries, the reapers and the units change.
LEMMA Changing ==
    ASSUME LifecycleTypeOK
    PROVE  /\ \A w \in Worktrees : \A h : runs' = [runs EXCEPT ![w] = h] => RunsTo(w, h)
           /\ \A w \in Worktrees : \A c : current' = [current EXCEPT ![w] = c] => CurrentTo(w, c)
           /\ \A r \in Runs : \A x : reaper' = [reaper EXCEPT ![r] = x] => ReaperTo(r, x)
           /\ \A r \in Runs : \A x : unit' = [unit EXCEPT ![r] = x] => UnitTo(r, x)
BY DEF LifecycleTypeOK, Registries, Summaries, Reapers, Units, RunsTo, CurrentTo, ReaperTo, UnitTo

\* The reaper clears the entry of its own run only.
LEMMA Unregistering ==
    ASSUME LifecycleTypeOK, NEW r \in Runs, ReaperLeaves(r)
    PROVE  \A w \in Worktrees : runs'[w] = IF w = WorktreeOf[r] /\ runs[w] = r THEN NoOne ELSE runs[w]
BY DEF LifecycleTypeOK, Registries, ReaperLeaves

-----------------------------------------------------------------------------
(* Every named run is one of the worktree it is named for.                 *)

\* A start waits for a run of its own worktree, and registers and records its
\* own run there.
LEMMA StartLocated ==
    ASSUME LifecycleTypeOK, Located, NEW r \in Runs, StartThread(r)
    PROVE  Located'
<1>0. /\ WorktreeOf[r] \in Worktrees /\ NoOne \notin Runs
      /\ runs[WorktreeOf[r]] \in Runs \cup {NoOne}
      /\ NoSummary.status # "running" /\ [run |-> r, status |-> "running"].run = r
  BY AdmissionConstants, TypesNow, Zenon DEF NoSummary
<1>1. UNCHANGED <<reconcile, stopper, relief>>
  BY Zenon DEF StartThread, Attach, AttachGuarded, EnterWorktree, EnterGate, SupersedePrior, StopPrior,
         AwaitPrior, SweepUnits, Prepare, Accept, ReleaseGate, Launch, RollbackAcceptedStart,
         VerifyLaunch, StopFailedLaunch, JoinFailedLaunch, AbandonLaunch, StartFinalized,
         ReturnStart, lifecycleVars
<1>. DEFINE Waits(s) == start[s].pc \in {"stopping", "awaiting"} =>
                           start[s].prior \in Runs /\ WorktreeOf[start[s].prior] = WorktreeOf[s]
            Names(w) == runs[w] # NoOne => WorktreeOf[runs[w]] = w
            Tells(w) == current[w].status = "running" =>
                           current[w].run \in Runs /\ WorktreeOf[current[w].run] = w
<1>2. ASSUME NEW s \in Runs
      PROVE  Waits(s)'
  <2>. Waits(s)
    BY Zenon DEF Located
  <2>1. CASE Attach(r) \/ AttachGuarded(r) \/ EnterWorktree(r) \/ EnterGate(r)
    BY <2>1, Transitions, Zenon DEF StartTo
  <2>2. CASE SupersedePrior(r)
    <3>1. \/ StartWith(r, "sweep", NoOne)
          \/ runs[WorktreeOf[r]] # NoOne /\ StartWith(r, "stopping", runs[WorktreeOf[r]])
      BY <2>2, Transitions, Zenon
    <3>2. runs[WorktreeOf[r]] # NoOne => WorktreeOf[runs[WorktreeOf[r]]] = WorktreeOf[r]
      BY <1>0, Zenon DEF Located
    <3>. QED
      BY <1>0, <3>1, <3>2, Zenon DEF StartWith
  <2>3. CASE StopPrior(r)
    BY <2>3, Transitions, Zenon DEF StopPrior, StartTo
  <2>4. CASE AwaitPrior(r)
    BY <2>4, Transitions, Zenon DEF StartTo, StartWith
  <2>5. CASE SweepUnits(r) \/ Prepare(r) \/ Accept(r)
    BY <2>5, Transitions, Zenon DEF StartTo
  <2>6. CASE ReleaseGate(r) \/ Launch(r) \/ RollbackAcceptedStart(r)
    BY <2>6, Transitions, Zenon DEF StartTo
  <2>7. CASE VerifyLaunch(r) \/ StopFailedLaunch(r) \/ JoinFailedLaunch(r)
    BY <2>7, Transitions, Zenon DEF StartTo
  <2>8. CASE AbandonLaunch(r) \/ StartFinalized(r) \/ ReturnStart(r)
    BY <2>8, Transitions, Zenon DEF StartTo
  <2>. QED
    BY <2>1, <2>2, <2>3, <2>4, <2>5, <2>6, <2>7, <2>8, Zenon DEF StartThread
<1>3. ASSUME NEW w \in Worktrees
      PROVE  Names(w)'
  <2>1. \/ UNCHANGED runs
        \/ RunsTo(WorktreeOf[r], NoOne)
        \/ RunsTo(WorktreeOf[r], r)
    BY <1>0, Changing, Zenon DEF StartThread, Attach, AttachGuarded, EnterWorktree, EnterGate, SupersedePrior, StopPrior,
         AwaitPrior, SweepUnits, Prepare, Accept, ReleaseGate, Launch, RollbackAcceptedStart,
         VerifyLaunch, StopFailedLaunch, JoinFailedLaunch, AbandonLaunch, StartFinalized,
         ReturnStart, lifecycleVars
  <2>. QED
    BY <2>1, Zenon DEF Located, RunsTo
<1>4. ASSUME NEW w \in Worktrees
      PROVE  Tells(w)'
  <2>1. \/ UNCHANGED current
        \/ CurrentTo(WorktreeOf[r], NoSummary)
        \/ CurrentTo(WorktreeOf[r], [run |-> r, status |-> "running"])
    BY <1>0, Changing, Zenon DEF StartThread, Attach, AttachGuarded, EnterWorktree, EnterGate, SupersedePrior, StopPrior,
         AwaitPrior, SweepUnits, Prepare, Accept, ReleaseGate, Launch, RollbackAcceptedStart,
         VerifyLaunch, StopFailedLaunch, JoinFailedLaunch, AbandonLaunch, StartFinalized,
         ReturnStart, lifecycleVars
  <2>. QED
    <3>1. Tells(w)
      BY Zenon DEF Located
    <3>. QED
      BY <1>0, <2>1, <3>1, Zenon DEF CurrentTo
<1>. QED
  BY <1>1, <1>2, <1>3, <1>4, Zenon DEF Located

\* A unit, a reaper or a finalization names no other run.
LEMMA RunLocated ==
    ASSUME LifecycleTypeOK, Located, NEW r \in Runs, UnitExits(r) \/ ReaperThread(r) \/ FinalizeStep(r)
    PROVE  Located'
<1>1. UNCHANGED <<start, reconcile, stopper, relief>>
  BY Zenon DEF UnitExits, ReaperThread, ReaperFinalizes, ReaperLeaves, FinalizeStep, FinalizeDecides,
               FinalizeWrites, FinalizeSettles, FinalizeFinishes
<1>2. \A w \in Worktrees : runs'[w] # NoOne => runs'[w] = runs[w]
  <2>1. CASE ReaperLeaves(r)
    BY <2>1, Unregistering
  <2>2. CASE ~ReaperLeaves(r)
    <3>1. UNCHANGED runs
      BY <2>2, Zenon DEF UnitExits, ReaperThread, ReaperFinalizes, FinalizeStep, FinalizeDecides,
                         FinalizeWrites, FinalizeSettles, FinalizeFinishes
    <3>. QED
      BY <3>1
  <2>. QED
    BY <2>1, <2>2
<1>3. \A w \in Worktrees : current'[w].status = "running" => current'[w] = current[w]
  <2>1. CASE FinalizeWrites(r) /\ WriteSummary(r, handle[r].status)
    <3>1. handle[r].status \in Statuses /\ "running" \notin Statuses
      BY DEF LifecycleTypeOK, Handles, HandleType, Statuses, Terminal
    <3>2. \A w \in Worktrees : current'[w] = current[w] \/ current'[w].status = handle[r].status
      BY <2>1, <3>1, Summarizing, Zenon
    <3>. QED
      BY <3>1, <3>2
  <2>2. CASE ~(FinalizeWrites(r) /\ WriteSummary(r, handle[r].status))
    <3>1. UNCHANGED current
      BY <2>2, Zenon DEF UnitExits, ReaperThread, ReaperFinalizes, ReaperLeaves, FinalizeStep,
                         FinalizeDecides, FinalizeWrites, FinalizeSettles, FinalizeFinishes
    <3>. QED
      BY <3>1
  <2>. QED
    BY <2>1, <2>2
<1>. QED
  BY <1>1, <1>2, <1>3, Zenon DEF Located

\* A stop request and the memory-emergency worker name a registered run.
LEMMA WorkerLocated ==
    ASSUME LifecycleTypeOK, Located, StopThread \/ ReliefThread
    PROVE  Located'
<1>1. UNCHANGED <<start, runs, current, reconcile>>
  BY Zenon DEF StopThread, ReliefThread, StopAsks, StopStopsUnit, RelievePicks, RelieveMarks, RelieveStopsUnit
<1>2. \A w \in Worktrees : runs[w] # NoOne => runs[w] \in Runs
  BY TypesNow, Zenon
<1>3. stopper'.step # "idle" => stopper'.run \in Runs
  <2>1. \/ UNCHANGED stopper
        \/ stopper' = IdleWorker
        \/ \E w \in Worktrees : runs[w] # NoOne /\ stopper' = [step |-> "unit", run |-> runs[w]]
    BY Zenon DEF StopThread, ReliefThread, StopAsks, StopStopsUnit, RelievePicks, RelieveMarks, RelieveStopsUnit
  <2>2. IdleWorker.step = "idle" /\ \A r : [step |-> "unit", run |-> r].run = r
    BY DEF IdleWorker
  <2>3. stopper.step # "idle" => stopper.run \in Runs
    BY Zenon DEF Located
  <2>. QED
    BY <1>2, <2>1, <2>2, <2>3, Zenon
<1>4. relief'.step # "idle" => relief'.run \in Runs
  <2>1. \/ UNCHANGED relief
        \/ relief' = IdleWorker
        \/ relief.step = "picked" /\ relief' = [relief EXCEPT !.step = "unit"]
        \/ \E w \in Worktrees : runs[w] # NoOne /\ relief' = [step |-> "picked", run |-> runs[w]]
    BY Zenon DEF StopThread, ReliefThread, StopAsks, StopStopsUnit, RelievePicks, RelieveMarks, RelieveStopsUnit
  <2>2. relief \in Reliefs /\ (relief.step # "idle" => relief.run \in Runs)
    BY Zenon DEF Located, LifecycleTypeOK
  <2>. QED
    <3>1. /\ IdleWorker.step = "idle" /\ \A r : [step |-> "picked", run |-> r].run = r
          /\ [relief EXCEPT !.step = "unit"].run = relief.run
      BY <2>2 DEF IdleWorker, Reliefs
    <3>2. relief.step = "picked" => relief.step # "idle"
      OBVIOUS
    <3>. QED
      BY <1>2, <2>1, <2>2, <3>1, <3>2, Zenon
<1>. QED
  BY <1>1, <1>3, <1>4, Zenon DEF Located

\* How the reconciler moves.
ReconcileTo(step) ==
    reconcile'.step = step /\ reconcile'.wt = reconcile.wt /\ reconcile'.run = reconcile.run
ReconcileWith(step, h) ==
    reconcile'.step = step /\ reconcile'.wt = reconcile.wt /\ reconcile'.run = h

\* Where each step of the reconciler leads.
LEMMA Reconciling ==
    ASSUME LifecycleTypeOK
    PROVE  /\ \A w : ReconcileBegins(w) => reconcile'.step = "look" /\ reconcile'.wt = w
           /\ ReconcileLooks =>
                  \/ ReconcileTo("end")
                  \/ runs[reconcile.wt] # NoOne /\ ReconcileWith("stop", runs[reconcile.wt])
                  \/ /\ runs[reconcile.wt] = NoOne /\ current[reconcile.wt].status = "running"
                     /\ ReconcileWith("orphanStop", current[reconcile.wt].run)
           /\ ReconcileStops => ReconcileTo("finalize") \/ ReconcileTo("end") \/ ReconcileTo("error")
           /\ ReconcileFinalized => ReconcileTo("end")
           /\ OrphanStops => ReconcileTo("orphanWrite") \/ ReconcileTo("error")
           /\ OrphanWrites => ReconcileTo("orphanRecord") \/ ReconcileTo("error")
           /\ OrphanRecords => ReconcileTo("orphanFinish") \/ ReconcileTo("error")
           /\ OrphanFinishes => ReconcileTo("end") \/ ReconcileTo("error")
           /\ ReconcileEnds \/ DaemonCrash => reconcile'.step = "idle"
<1>1. /\ \A step : reconcile' = [reconcile EXCEPT !.step = step] => ReconcileTo(step)
      /\ \A step, h : reconcile' = [reconcile EXCEPT !.step = step, !.run = h] => ReconcileWith(step, h)
  BY Zenon DEF LifecycleTypeOK, Reconcilers, ReconcileTo, ReconcileWith
<1>2. \A w : ReconcileBegins(w) => reconcile'.step = "look" /\ reconcile'.wt = w
  <2>1. \A w : ReconcileBegins(w) => reconcile' = [step |-> "look", wt |-> w, run |-> NoOne]
    BY Zenon DEF ReconcileBegins
  <2>. QED
    BY <2>1
<1>3. ReconcileLooks =>
          \/ ReconcileTo("end")
          \/ runs[reconcile.wt] # NoOne /\ ReconcileWith("stop", runs[reconcile.wt])
          \/ /\ runs[reconcile.wt] = NoOne /\ current[reconcile.wt].status = "running"
             /\ ReconcileWith("orphanStop", current[reconcile.wt].run)
  BY <1>1, Zenon DEF ReconcileLooks
<1>4. ReconcileStops => ReconcileTo("finalize") \/ ReconcileTo("end") \/ ReconcileTo("error")
  BY <1>1, Zenon DEF ReconcileStops
<1>5. ReconcileFinalized => ReconcileTo("end")
  BY <1>1, Zenon DEF ReconcileFinalized
<1>6. OrphanStops => ReconcileTo("orphanWrite") \/ ReconcileTo("error")
  BY <1>1, Zenon DEF OrphanStops
<1>7. OrphanWrites => ReconcileTo("orphanRecord") \/ ReconcileTo("error")
  BY <1>1, Zenon DEF OrphanWrites
<1>8. OrphanRecords => ReconcileTo("orphanFinish") \/ ReconcileTo("error")
  BY <1>1, Zenon DEF OrphanRecords
<1>9. OrphanFinishes => ReconcileTo("end") \/ ReconcileTo("error")
  BY <1>1, Zenon DEF OrphanFinishes
<1>10. ReconcileEnds \/ DaemonCrash => reconcile'.step = "idle"
  BY DEF ReconcileEnds, DaemonCrash, IdleReconciler
<1>. QED
  BY <1>2, <1>3, <1>4, <1>5, <1>6, <1>7, <1>8, <1>9, <1>10, Zenon

\* The reconciler keeps its worktree and names a run of it.
LEMMA ReconcileLocated ==
    ASSUME LifecycleTypeOK, Located, (\E w \in Worktrees : ReconcileBegins(w)) \/ ReconcileThread
    PROVE  Located'
<1>1. UNCHANGED <<start, runs, stopper, relief>>
  BY Zenon DEF ReconcileBegins, ReconcileThread, ReconcileLooks, ReconcileStops, ReconcileFinalized,
               OrphanStops, OrphanWrites, OrphanRecords, OrphanFinishes, ReconcileEnds
<1>2. /\ reconcile.step # "idle" => reconcile.wt \in Worktrees
      /\ reconcile.step \in OnRun => reconcile.run \in Runs /\ WorktreeOf[reconcile.run] = reconcile.wt
      /\ \A w \in Worktrees : runs[w] # NoOne => runs[w] \in Runs /\ WorktreeOf[runs[w]] = w
  BY TypesNow, Zenon DEF Located
<1>3. /\ "stop" \in OnRun /\ "finalize" \in OnRun /\ "orphanStop" \in OnRun /\ "orphanWrite" \in OnRun
      /\ "orphanRecord" \in OnRun /\ "orphanFinish" \in OnRun
      /\ "look" \notin OnRun /\ "end" \notin OnRun /\ "error" \notin OnRun /\ "idle" \notin OnRun
  BY DEF OnRun
<1>4. \A w \in Worktrees : current'[w].status = "running" => current'[w] = current[w]
  <2>1. CASE OrphanWrites /\ WriteSummary(reconcile.run, "interrupted")
    <3>1. reconcile.run \in Runs /\ "interrupted" \in Statuses
      BY <1>2, <1>3, <2>1 DEF OrphanWrites, Statuses, Terminal
    <3>2. PICK h \in Runs : WriteSummary(h, "interrupted")
      BY <2>1, <3>1, Zenon
    <3>3. \A w \in Worktrees : current'[w] = current[w] \/ current'[w].status = "interrupted"
      BY <3>1, <3>2, Summarizing
    <3>. QED
      BY <3>3
  <2>2. CASE ~(OrphanWrites /\ WriteSummary(reconcile.run, "interrupted"))
    <3>1. UNCHANGED current
      BY <2>2, Zenon DEF ReconcileBegins, ReconcileThread, ReconcileLooks, ReconcileStops, ReconcileFinalized,
               OrphanStops, OrphanWrites, OrphanRecords, OrphanFinishes, ReconcileEnds
    <3>. QED
      BY <3>1
  <2>. QED
    BY <2>1, <2>2, Zenon
<1>5. /\ reconcile'.step # "idle" => reconcile'.wt \in Worktrees
      /\ reconcile'.step \in OnRun => reconcile'.run \in Runs /\ WorktreeOf[reconcile'.run] = reconcile'.wt
  <2>1. ASSUME NEW w \in Worktrees, ReconcileBegins(w)
        PROVE  reconcile'.step \notin OnRun /\ reconcile'.wt \in Worktrees
    BY <1>3, <2>1, Reconciling, Zenon
  <2>2. CASE ReconcileLooks
    <3>1. reconcile.step = "look" /\ reconcile.step # "idle"
      BY <2>2 DEF ReconcileLooks
    <3>2. current[reconcile.wt].status = "running" =>
              current[reconcile.wt].run \in Runs /\ WorktreeOf[current[reconcile.wt].run] = reconcile.wt
      BY <1>2, <3>1, Zenon DEF Located
    <3>. QED
      BY <1>2, <1>3, <2>2, <3>1, <3>2, Reconciling, Zenon DEF ReconcileTo, ReconcileWith
  <2>3. CASE ReconcileStops \/ ReconcileFinalized
    <3>1. reconcile.step \in {"stop", "finalize"}
      BY <2>3, Zenon DEF ReconcileStops, ReconcileFinalized
    <3>. QED
      BY <1>2, <1>3, <2>3, <3>1, Reconciling, Zenon DEF ReconcileTo
  <2>4. CASE OrphanStops \/ OrphanWrites \/ OrphanRecords \/ OrphanFinishes
    <3>1. reconcile.step \in {"orphanStop", "orphanWrite", "orphanRecord", "orphanFinish"}
      BY <2>4, Zenon DEF OrphanStops, OrphanWrites, OrphanRecords, OrphanFinishes
    <3>. QED
      BY <1>2, <1>3, <2>4, <3>1, Reconciling, Zenon DEF ReconcileTo
  <2>5. CASE ReconcileEnds
    BY <1>3, <2>5, Reconciling, Zenon
  <2>. QED
    BY <1>3, <2>1, <2>2, <2>3, <2>4, <2>5, Zenon DEF ReconcileThread
<1>. QED
  BY <1>1, <1>4, <1>5, Zenon DEF Located

\* Recovery, a crash and everything outside the lifecycle name no run.
LEMMA RestLocated ==
    ASSUME Located, RecoveryThread \/ DaemonCrash \/ DaemonRestart \/ Outside \/ UNCHANGED vars
    PROVE  Located'
<1>1. CASE DaemonCrash
  <2>1. /\ reconcile'.step = "idle" /\ stopper'.step = "idle" /\ relief'.step = "idle"
        /\ \A w \in Worktrees : runs'[w] = NoOne
        /\ \A r \in Runs : start'[r] = start[r] \/ start'[r].pc = "over"
        /\ UNCHANGED current
    BY <1>1, Zenon DEF DaemonCrash, IdleReconciler, IdleWorker
  <2>2. "idle" \notin OnRun /\ "over" \notin {"stopping", "awaiting"}
    BY DEF OnRun
  <2>3. /\ reconcile'.step \notin OnRun
        /\ \A r \in Runs : start'[r].pc \in {"stopping", "awaiting"} => start'[r] = start[r]
    BY <2>1, <2>2
  <2>4. ASSUME NEW r \in Runs, start'[r].pc \in {"stopping", "awaiting"}
        PROVE  start'[r].prior \in Runs /\ WorktreeOf[start'[r].prior] = WorktreeOf[r]
    <3>1. start'[r] = start[r]
      BY <2>3, <2>4, Zenon
    <3>2. start[r].pc \in {"stopping", "awaiting"}
      BY <2>4, <3>1, Zenon
    <3>3. start[r].prior \in Runs /\ WorktreeOf[start[r].prior] = WorktreeOf[r]
      BY <3>2, Zenon DEF Located
    <3>. QED
      BY <3>1, <3>3, Zenon
  <2>5. \A w \in Worktrees : current'[w].status = "running" =>
            current'[w].run \in Runs /\ WorktreeOf[current'[w].run] = w
    BY <2>1, Zenon DEF Located
  <2>. QED
    BY <2>1, <2>3, <2>4, <2>5, Zenon DEF Located
<1>2. CASE ~DaemonCrash
  <2>1. UNCHANGED <<start, runs, current, reconcile, stopper, relief>>
    BY <1>2, Zenon DEF RecoveryThread, RecoverStopsUnits, RecoverSkips, RecoverResets, RecoverFails,
                       DaemonRestart, Outside, lifecycleVars, vars
  <2>. QED
    BY <2>1, Zenon DEF Located
<1>. QED
  BY <1>1, <1>2

\* Every step keeps every named run in its worktree.
LEMMA LifecycleLocated ==
    ASSUME LifecycleTypeOK, Located, [LifecycleNext]_vars
    PROVE  Located'
BY StartLocated, RunLocated, WorkerLocated, ReconcileLocated, RestLocated, Zenon DEF LifecycleNext

-----------------------------------------------------------------------------
(* The lifecycle implements the admission authority.                       *)

\* What every other proof about the lifecycle starts from.
LifecycleBase == LifecycleTypeOK /\ Located

\* A daemon that has not started any run.
LEMMA BaseInit == LifecycleInit => Init /\ LifecycleBase
<1>. SUFFICES ASSUME LifecycleInit PROVE Init /\ LifecycleBase
  OBVIOUS
<1>1. Init
  BY Zenon DEF LifecycleInit
<1>2. start \in Requests /\ superseded \in Replaced /\ runs \in Registries
  BY PlaceNames DEF LifecycleInit, Requests, Replaced, Registries
<1>3. handle \in Handles /\ reaper \in Reapers /\ unit \in Units
  BY Zenon DEF LifecycleInit, Handles, HandleType, NewHandle, Steps, Statuses, Reapers, Reaping, Units, UnitStates
<1>4. current \in Summaries /\ history \in Histories /\ finishedEvents \in EventCounts
  <2>1. NoSummary \in SummaryType /\ "none" \in Statuses /\ 0 \in 0 .. 2
    BY DEF SummaryType, NoSummary, Statuses
  <2>. QED
    BY <2>1, Zenon DEF LifecycleInit, Summaries, Histories, EventCounts
<1>5. reconcile \in Reconcilers /\ recovery \in Recoveries /\ stopper \in Stoppers /\ relief \in Reliefs
  BY Zenon DEF LifecycleInit, Reconcilers, IdleReconciler, Recoveries, Stoppers, Reliefs, IdleWorker
<1>6. LifecycleTypeOK
  BY <1>2, <1>3, <1>4, <1>5, Zenon DEF LifecycleTypeOK
<1>7. Located
  BY Zenon DEF LifecycleInit, Located, OnRun, IdleReconciler, IdleWorker, NoSummary
<1>. QED
  BY <1>1, <1>6, <1>7 DEF LifecycleBase

\* Where every run starts.
LEMMA Begins ==
    ASSUME LifecycleInit
    PROVE  /\ \A r \in Runs : start[r].pc = "idle" /\ superseded[r] = NoOne
           /\ \A r \in Runs : reaper[r] = "none" /\ unit[r] = "absent"
           /\ \A r \in Runs : handle[r].step = "new" /\ handle[r].final = "none"
           /\ \A w \in Worktrees : runs[w] = NoOne
           /\ reconcile.step = "idle"
<1>1. \A r \in Runs : start[r] = [pc |-> "idle", prior |-> NoOne] /\ superseded[r] = NoOne
  <2>1. start = [r \in Runs |-> [pc |-> "idle", prior |-> NoOne]] /\ superseded = [r \in Runs |-> NoOne]
    BY Zenon DEF LifecycleInit
  <2>. QED
    BY <2>1, Zenon
<1>2. \A r \in Runs : reaper[r] = "none" /\ unit[r] = "absent" /\ handle[r] = NewHandle
  <2>1. /\ reaper = [r \in Runs |-> "none"] /\ unit = [r \in Runs |-> "absent"]
        /\ handle = [r \in Runs |-> NewHandle]
    BY Zenon DEF LifecycleInit
  <2>. QED
    BY <2>1, Zenon
<1>3. \A w \in Worktrees : runs[w] = NoOne
  <2>1. runs = [w \in Worktrees |-> NoOne]
    BY Zenon DEF LifecycleInit
  <2>. QED
    BY <2>1, Zenon
<1>4. reconcile = IdleReconciler
  BY Zenon DEF LifecycleInit
<1>5. /\ [pc |-> "idle", prior |-> NoOne].pc = "idle"
      /\ NewHandle.step = "new" /\ NewHandle.final = "none"
      /\ IdleReconciler.step = "idle"
  BY Zenon DEF NewHandle, IdleReconciler
<1>. QED
  BY <1>1, <1>2, <1>3, <1>4, <1>5

\* What a crash of the daemon leaves of its runs.
LEMMA Crashes ==
    ASSUME DaemonCrash
    PROVE  /\ \A r \in Runs : start'[r].pc \in {"idle", "over"}
           /\ \A r \in Runs : handle'[r].step = "new" /\ handle'[r].final = "none"
           /\ reconcile'.step = "idle"
<1>1. start' = [r \in Runs |-> IF stage[r] = "new" /\ start[r].pc = "idle"
                               THEN start[r] ELSE [pc |-> "over", prior |-> NoOne]]
  BY Zenon DEF DaemonCrash
<1>2. \A r \in Runs : start'[r].pc \in {"idle", "over"}
  BY <1>1
<1>3. handle' = [r \in Runs |-> NewHandle] /\ reconcile' = IdleReconciler
  BY Zenon DEF DaemonCrash
<1>4. \A r \in Runs : handle'[r] = NewHandle
  BY <1>3, Zenon
<1>5. NewHandle.step = "new" /\ NewHandle.final = "none" /\ IdleReconciler.step = "idle"
  BY SMT DEF NewHandle, IdleReconciler
<1>. QED
  BY <1>2, <1>3, <1>4, <1>5

\* A step of a start request is a step of its admission, or none.
LEMMA StartAdmits == ASSUME NEW r \in Runs, StartThread(r) PROVE RunStep(r) \/ UNCHANGED admissionVars
<1>1. CASE Attach(r) \/ SupersedePrior(r) \/ Launch(r) \/ VerifyLaunch(r) \/ StopFailedLaunch(r)
           \/ JoinFailedLaunch(r) \/ AbandonLaunch(r) \/ StartFinalized(r)
  BY <1>1, Zenon DEF Attach, SupersedePrior, Launch, VerifyLaunch, StopFailedLaunch, JoinFailedLaunch,
                     AbandonLaunch, StartFinalized
<1>2. CASE AttachGuarded(r) \/ EnterWorktree(r) \/ EnterGate(r) \/ Accept(r) \/ ReleaseGate(r)
           \/ RollbackAcceptedStart(r) \/ ReturnStart(r)
  BY <1>2, Zenon DEF AttachGuarded, EnterWorktree, EnterGate, Accept, ReleaseGate, RollbackAcceptedStart,
                     ReturnStart, RunStep
<1>3. CASE StopPrior(r) \/ AwaitPrior(r) \/ SweepUnits(r) \/ Prepare(r)
  BY <1>3, Zenon DEF StopPrior, AwaitPrior, SweepUnits, Prepare, FailGuarded, RunStep
<1>. QED
  BY <1>1, <1>2, <1>3, Zenon DEF StartThread

\* Every step of the lifecycle is a step of the admission authority, or none.
LEMMA LifecycleAdmits ==
    ASSUME LifecycleBase, [LifecycleNext]_vars
    PROVE  [Next]_admissionVars
<1>1. ASSUME NEW r \in Runs, StartThread(r)
      PROVE  [Next]_admissionVars
  BY <1>1, StartAdmits, Zenon DEF Next
<1>2. ASSUME NEW r \in Runs, UnitExits(r) \/ ReaperThread(r) \/ FinalizeStep(r)
      PROVE  [Next]_admissionVars
  BY <1>2, Zenon DEF UnitExits, ReaperThread, ReaperFinalizes, ReaperLeaves, FinalizeStep, FinalizeDecides,
               FinalizeWrites, FinalizeSettles, FinalizeFinishes, AdmissionFinished, RunStep, Next
<1>3. CASE StopThread \/ ReliefThread
  BY <1>3, Zenon DEF StopThread, ReliefThread, StopAsks, StopStopsUnit, RelievePicks, RelieveMarks,
                     RelieveStopsUnit
<1>4. ASSUME NEW w \in Worktrees, ReconcileBegins(w)
      PROVE  [Next]_admissionVars
  BY <1>4, Zenon DEF ReconcileBegins, Next
<1>5. CASE ReconcileThread
  <2>1. CASE OrphanFinishes
    <3>1. reconcile.run \in Runs
      BY <2>1 DEF OrphanFinishes, LifecycleBase, Located, OnRun
    <3>. QED
      BY <2>1, <3>1, Zenon DEF OrphanFinishes, AdmissionFinished, RunStep, Next
  <2>2. CASE ReconcileEnds
    <3>1. reconcile.wt \in Worktrees
      BY <2>2 DEF ReconcileEnds, LifecycleBase, Located
    <3>. QED
      BY <2>2, <3>1, Zenon DEF ReconcileEnds, Next
  <2>. QED
    BY <1>5, <2>1, <2>2, Zenon DEF ReconcileThread, ReconcileLooks, ReconcileStops, ReconcileFinalized,
                                   OrphanStops, OrphanWrites, OrphanRecords
<1>6. CASE RecoveryThread
  BY <1>6, Zenon DEF RecoveryThread, RecoverStopsUnits, RecoverSkips, RecoverResets, RecoverFails, Next
<1>7. CASE DaemonCrash \/ DaemonRestart \/ Outside
  BY <1>7, Zenon DEF DaemonCrash, DaemonRestart, Outside, Next
<1>8. CASE UNCHANGED vars
  BY <1>8, Zenon DEF vars
<1>. QED
  BY <1>1, <1>2, <1>3, <1>4, <1>5, <1>6, <1>7, <1>8, Zenon DEF LifecycleNext

\* The types hold, and every named run is in its worktree.
LEMMA BaseInvariance == LifecycleSpec => []LifecycleBase
<1>1. LifecycleBase /\ [LifecycleNext]_vars => LifecycleBase'
  BY LifecycleTypes, LifecycleLocated, Zenon DEF LifecycleBase
<1>2. LifecycleInit => LifecycleBase
  BY BaseInit, Zenon
<1>. QED
  BY <1>1, <1>2, PTL DEF LifecycleSpec

\* Whatever test_lifecycle.rs does, it uses the admission authority of
\* test_admission.rs in a way that authority's own specification allows.
THEOREM LifecycleImplementsAdmission == LifecycleSpec => ImplementsAdmission
<1>1. LifecycleInit => Init
  BY BaseInit, Zenon
<1>2. LifecycleBase /\ [LifecycleNext]_vars => [Next]_admissionVars
  BY LifecycleAdmits, Zenon
<1>. QED
  BY <1>1, <1>2, BaseInvariance, PTL DEF LifecycleSpec, ImplementsAdmission, Spec

\* What was proved of the admission authority alone holds of its use here.
LEMMA AdmissionHolds == LifecycleSpec => []AdmissionInv
BY LifecycleImplementsAdmission, Invariance, PTL DEF ImplementsAdmission

-----------------------------------------------------------------------------
(* Units and the handles that may be finalized.                            *)

\* Units end, and nothing else happens to them.
UnitsEnd ==
    \A q \in Runs : \/ unit'[q] = unit[q]
                    \/ unit[q] = "running" /\ unit'[q] \notin {"running", "absent"}

\* Nobody but its own start launches a unit.
LEMMA UnitsOnlyEnd ==
    ASSUME LifecycleBase, [LifecycleNext]_vars, \A r \in Runs : ~Launch(r)
    PROVE  UnitsEnd
<1>0. /\ \A rs \in SUBSET Runs : \A ok : StopUnits(rs, ok) => UnitsEnd
      /\ UNCHANGED unit => UnitsEnd
  <2>1. UNCHANGED unit => UnitsEnd
    BY Zenon DEF UnitsEnd
  <2>2. ASSUME NEW rs \in SUBSET Runs, NEW ok, StopUnits(rs, ok)
        PROVE  UnitsEnd
    <3>1. UnitsStop
      BY <2>2, Stopping, Zenon DEF LifecycleBase
    <3>. QED
      BY <3>1, Zenon DEF UnitsStop, UnitsEnd
  <2>. QED
    BY <2>1, <2>2, Zenon
<1>1. ASSUME NEW r \in Runs, StartThread(r)
      PROVE  UnitsEnd
  <2>1. /\ start[r].pc = "stopping" => {start[r].prior} \in SUBSET Runs
        /\ {r} \in SUBSET Runs
        /\ {q \in Runs : WorktreeOf[q] = WorktreeOf[r]} \in SUBSET Runs
    BY Zenon DEF LifecycleBase, Located
  <2>2. CASE StopPrior(r)
    BY <1>0, <2>1, <2>2, Zenon DEF StopPrior
  <2>3. CASE SweepUnits(r)
    BY <1>0, <2>1, <2>3, Zenon DEF SweepUnits
  <2>4. CASE StopFailedLaunch(r)
    BY <1>0, <2>1, <2>4, Zenon DEF StopFailedLaunch
  <2>5. CASE AbandonLaunch(r)
    BY <1>0, <2>1, <2>5, Zenon DEF AbandonLaunch
  <2>6. CASE Attach(r) \/ AttachGuarded(r) \/ EnterWorktree(r) \/ EnterGate(r) \/ SupersedePrior(r)
             \/ AwaitPrior(r) \/ Prepare(r) \/ Accept(r) \/ ReleaseGate(r) \/ RollbackAcceptedStart(r)
             \/ VerifyLaunch(r) \/ JoinFailedLaunch(r) \/ StartFinalized(r) \/ ReturnStart(r)
    <3>1. UNCHANGED unit
      BY <2>6, Zenon DEF Attach, AttachGuarded, EnterWorktree, EnterGate, SupersedePrior, AwaitPrior, Prepare,
              Accept, ReleaseGate, RollbackAcceptedStart, VerifyLaunch, JoinFailedLaunch,
              StartFinalized, ReturnStart, lifecycleVars
    <3>. QED
      BY <1>0, <3>1, Zenon
  <2>. QED
    BY <1>1, <2>2, <2>3, <2>4, <2>5, <2>6, Zenon DEF StartThread
<1>2. ASSUME NEW r \in Runs, UnitExits(r)
      PROVE  UnitsEnd
  BY <1>2, LifecycleConstants DEF UnitExits, UnitsEnd, LifecycleBase, LifecycleTypeOK, Units
<1>3. ASSUME NEW r \in Runs, ReaperThread(r) \/ FinalizeStep(r)
      PROVE  UnitsEnd
  BY <1>0, <1>3, Zenon DEF ReaperThread, ReaperFinalizes, ReaperLeaves, FinalizeStep, FinalizeDecides,
                    FinalizeWrites, FinalizeSettles, FinalizeFinishes
<1>4. CASE StopThread \/ ReliefThread
  <2>1. /\ stopper.step # "idle" => {stopper.run} \in SUBSET Runs
        /\ relief.step # "idle" => {relief.run} \in SUBSET Runs
    BY Zenon DEF LifecycleBase, Located
  <2>2. CASE StopStopsUnit \/ RelieveStopsUnit
    <3>1. \/ stopper.step # "idle" /\ \E ok : StopUnits({stopper.run}, ok)
          \/ relief.step # "idle" /\ \E ok : StopUnits({relief.run}, ok)
      BY <2>2, Zenon DEF StopStopsUnit, RelieveStopsUnit
    <3>. QED
      BY <1>0, <2>1, <3>1, Zenon
  <2>3. CASE UNCHANGED unit
    BY <1>0, <2>3, Zenon
  <2>. QED
    BY <1>4, <2>2, <2>3, Zenon DEF StopThread, ReliefThread, StopAsks, RelievePicks, RelieveMarks
<1>5. CASE (\E w \in Worktrees : ReconcileBegins(w)) \/ ReconcileThread
  <2>1. reconcile.step \in {"stop", "orphanStop"} => {reconcile.run} \in SUBSET Runs
    BY DEF LifecycleBase, Located, OnRun
  <2>2. CASE ReconcileStops \/ OrphanStops
    <3>1. reconcile.step \in {"stop", "orphanStop"} /\ \E ok : StopUnits({reconcile.run}, ok)
      BY <2>2, Zenon DEF ReconcileStops, OrphanStops
    <3>. QED
      BY <1>0, <2>1, <3>1, Zenon
  <2>3. CASE UNCHANGED unit
    BY <1>0, <2>3, Zenon
  <2>. QED
    BY <1>5, <2>2, <2>3, Zenon DEF ReconcileBegins, ReconcileThread, ReconcileLooks, ReconcileFinalized,
                                   OrphanWrites, OrphanRecords, OrphanFinishes, ReconcileEnds
<1>6. CASE RecoveryThread
  BY <1>0, <1>6 DEF RecoveryThread, RecoverStopsUnits, RecoverSkips, RecoverResets, RecoverFails,
                           lifecycleVars
<1>7. CASE DaemonCrash \/ DaemonRestart \/ Outside \/ UNCHANGED vars
  BY <1>0, <1>7, Zenon DEF DaemonCrash, DaemonRestart, Outside, lifecycleVars, vars
<1>. QED
  BY <1>1, <1>2, <1>3, <1>4, <1>5, <1>6, <1>7, Zenon DEF LifecycleNext

-----------------------------------------------------------------------------
(* Starts and their admission.                                             *)

\* Where each operation of the admission authority leads.
LEMMA AdmissionMoves ==
    ASSUME TypeOK, NEW r \in Runs
    PROVE  /\ WorktreeGuard(r) => stage[r] = "new" /\ StageTo(r, "permit")
           /\ StartGuard(r) => /\ stage[r] = "permit"
                               /\ StageTo(r, "denied") \/ StageTo(r, "guarded") \/ StageTo(r, "failed")
           /\ ProbeGuard(r) => /\ stage[r] = "new"
                               /\ StageTo(r, "denied") \/ UNCHANGED stage \/ StageTo(r, "failed")
           /\ DropGuard(r) => stage[r] = "guarded" /\ StageTo(r, "failed")
           /\ Started(r) => stage[r] = "guarded" /\ (StageTo(r, "accepted") \/ StageTo(r, "failed"))
           /\ ReleaseGlobal(r) => stage[r] = "accepted" /\ StageTo(r, "launching")
           /\ StartReturns(r) => \/ stage[r] = "launching" /\ StageTo(r, "running")
                                 \/ stage[r] = "finished" /\ StageTo(r, "finished")
           /\ Finished(r) => stage[r] \in {"launching", "running"} /\ StageTo(r, "finished")
           /\ AdmissionFinished(r) => \/ UNCHANGED stage /\ stage[r] \notin {"launching", "running"}
                                      \/ StageTo(r, "finished")
<1>1. \A s : SetStage(r, s) => StageTo(r, s)
  BY DEF TypeOK, SetStage, StageTo
<1>2. WorktreeGuard(r) => stage[r] = "new" /\ StageTo(r, "permit")
  BY <1>1, Zenon DEF WorktreeGuard
<1>3. StartGuard(r) => /\ stage[r] = "permit"
                       /\ StageTo(r, "denied") \/ StageTo(r, "guarded") \/ StageTo(r, "failed")
  BY <1>1, Zenon DEF StartGuard
<1>4. ProbeGuard(r) => /\ stage[r] = "new"
                       /\ StageTo(r, "denied") \/ UNCHANGED stage \/ StageTo(r, "failed")
  BY <1>1, Zenon DEF ProbeGuard
<1>5. DropGuard(r) => stage[r] = "guarded" /\ StageTo(r, "failed")
  BY <1>1, Zenon DEF DropGuard
<1>6. Started(r) => stage[r] = "guarded" /\ (StageTo(r, "accepted") \/ StageTo(r, "failed"))
  BY <1>1, Zenon DEF Started
<1>7. ReleaseGlobal(r) => stage[r] = "accepted" /\ StageTo(r, "launching")
  BY <1>1, Zenon DEF ReleaseGlobal
<1>8. StartReturns(r) => \/ stage[r] = "launching" /\ StageTo(r, "running")
                         \/ stage[r] = "finished" /\ StageTo(r, "finished")
  BY <1>1, Zenon DEF StartReturns
<1>9. Finished(r) => stage[r] \in {"launching", "running"} /\ StageTo(r, "finished")
  BY <1>1, Zenon DEF Finished
<1>10. AdmissionFinished(r) => \/ UNCHANGED stage /\ stage[r] \notin {"launching", "running"}
                               \/ StageTo(r, "finished")
  BY <1>9, Zenon DEF AdmissionFinished, admissionVars
<1>. QED
  BY <1>2, <1>3, <1>4, <1>5, <1>6, <1>7, <1>8, <1>9, <1>10, Zenon

\* A step of one start leaves the other starts and their admission alone.
LEMMA OthersStay ==
    ASSUME LifecycleTypeOK, TypeOK, NEW r \in Runs, StartThread(r), NEW s \in Runs, s # r
    PROVE  start'[s] = start[s] /\ stage'[s] = stage[s]
<1>1. start'[s] = start[s]
  <2>1. \/ \E p : StartTo(r, p)
        \/ \E p, h : StartWith(r, p, h)
        \/ UNCHANGED start
    BY Transitions, Zenon DEF StartThread
  <2>. QED
    BY <2>1, Zenon DEF StartTo, StartWith
<1>2. stage'[s] = stage[s]
  <2>1. UNCHANGED stage \/ \E p : StageTo(r, p)
    <3>1. RunStep(r) \/ UNCHANGED stage
      BY StartAdmits, Zenon DEF admissionVars
    <3>. QED
      BY <3>1, AdmissionMoves, Zenon DEF RunStep
  <2>. QED
    BY <2>1, Zenon DEF StageTo
<1>. QED
  BY <1>1, <1>2

\* Outside the starts, a start and its admission stay, or the admission is
\* over, or the daemon has died.
LEMMA StartsStay ==
    ASSUME LifecycleBase, TypeOK, [LifecycleNext]_vars, \A r \in Runs : ~StartThread(r), NEW s \in Runs
    PROVE  \/ /\ start'[s] = start[s]
              /\ stage'[s] = stage[s] \/ (stage[s] \in {"launching", "running"} /\ stage'[s] = "finished")
           \/ /\ DaemonCrash
              /\ (start'[s] = start[s] /\ start[s].pc = "idle") \/ start'[s].pc = "over"
              /\ stage'[s] \notin Starting
<1>. DEFINE Same == /\ start'[s] = start[s]
                   /\ \/ stage'[s] = stage[s]
                      \/ stage[s] \in {"launching", "running"} /\ stage'[s] = "finished"
<1>1. CASE DaemonCrash
  <2>1. (start'[s] = start[s] /\ start[s].pc = "idle") \/ start'[s].pc = "over"
    BY <1>1, Zenon DEF DaemonCrash
  <2>2. stage'[s] \notin Starting
    BY <1>1, Zenon DEF DaemonCrash, Crash, Starting
  <2>. QED
    BY <1>1, <2>1, <2>2, Zenon
<1>2. ASSUME NEW q \in Runs, UNCHANGED start, AdmissionFinished(q)
      PROVE  Same
  <2>1. UNCHANGED stage \/ (stage[q] \in {"launching", "running"} /\ StageTo(q, "finished"))
    BY <1>2, AdmissionMoves, Zenon DEF AdmissionFinished, admissionVars
  <2>. QED
    BY <1>2, <2>1, Zenon DEF StageTo
<1>3. CASE UNCHANGED <<start, stage>>
  BY <1>3, Zenon
<1>4. ASSUME NEW r \in Runs, UnitExits(r) \/ ReaperThread(r) \/ FinalizeStep(r)
      PROVE  Same
  <2>1. CASE FinalizeFinishes(r)
    BY <1>2, <2>1, Zenon DEF FinalizeFinishes
  <2>2. CASE ~FinalizeFinishes(r)
    BY <1>3, <1>4, <2>2, Zenon DEF UnitExits, ReaperThread, ReaperFinalizes, ReaperLeaves, FinalizeStep,
               FinalizeDecides, FinalizeWrites, FinalizeSettles, admissionVars
  <2>. QED
    BY <2>1, <2>2, Zenon
<1>5. CASE StopThread \/ ReliefThread
  BY <1>3, <1>5, Zenon DEF StopThread, ReliefThread, StopAsks, StopStopsUnit, RelievePicks,
             RelieveMarks, RelieveStopsUnit, admissionVars
<1>6. CASE (\E w \in Worktrees : ReconcileBegins(w)) \/ ReconcileThread
  <2>1. CASE OrphanFinishes
    <3>1. reconcile.run \in Runs
      BY <2>1 DEF OrphanFinishes, LifecycleBase, Located, OnRun
    <3>2. UNCHANGED start /\ (AdmissionFinished(reconcile.run) \/ UNCHANGED stage)
      BY <2>1, Zenon DEF OrphanFinishes, admissionVars
    <3>. QED
      BY <1>2, <1>3, <3>1, <3>2, Zenon
  <2>2. CASE ~OrphanFinishes
    BY <1>3, <1>6, <2>2, Zenon DEF ReconcileBegins, TryWorktreeGuard, ReconcileThread, ReconcileLooks,
               ReconcileStops, ReconcileFinalized, OrphanStops, OrphanWrites, OrphanRecords,
               ReconcileEnds, DropWorktreeGuard, admissionVars
  <2>. QED
    BY <2>1, <2>2, Zenon
<1>7. CASE RecoveryThread
  BY <1>3, <1>7, Zenon DEF RecoveryThread, RecoverStopsUnits, RecoverSkips, RecoverResets, RecoverFails,
             Reset, RecoveryFails, lifecycleVars, admissionVars
<1>8. CASE DaemonRestart \/ Outside \/ UNCHANGED vars
  BY <1>3, <1>8, Zenon DEF DaemonRestart, Restart, Outside, InstallerStep, BeginDrain, WatchActivity,
             ReadActivity, ActivityEvent, EndDrain, InstallerDies, WaiterStep, AdmissionWait,
             ReadLease, LeaseEvent, WaitDeadline, lifecycleVars, admissionVars, vars
<1>. QED
  BY <1>1, <1>4, <1>5, <1>6, <1>7, <1>8, Zenon DEF LifecycleNext

-----------------------------------------------------------------------------
(* One unit runs in each worktree.                                         *)

UnitInv == Swept /\ OneUnitPerWorktree

\* A start comes past its sweep only by sweeping its worktree.
LEMMA SweptFrom ==
    ASSUME LifecycleBase, TypeOK, [LifecycleNext]_vars, NEW s \in Runs,
           start'[s].pc \in {"prepare", "accept", "launch"}, stage'[s] \in Starting
    PROVE  \/ start[s].pc \in {"prepare", "accept", "launch"} /\ stage[s] \in Starting
           \/ \A q \in Runs : WorktreeOf[q] = WorktreeOf[s] => unit'[q] # "running"
<1>0. LifecycleTypeOK
  BY DEF LifecycleBase
<1>1. CASE \A r \in Runs : ~StartThread(r)
  <2>1. "idle" \notin {"prepare", "accept", "launch"} /\ "over" \notin {"prepare", "accept", "launch"}
        /\ {"launching", "running"} \subseteq Starting \cup {"running"} /\ "finished" \notin Starting
    BY DEF Starting
  <2>. QED
    BY <1>1, <2>1, StartsStay, Zenon
<1>2. ASSUME NEW r \in Runs, StartThread(r), r # s
      PROVE  start[s].pc \in {"prepare", "accept", "launch"} /\ stage[s] \in Starting
  BY <1>0, <1>2, OthersStay, Zenon
<1>3. CASE StartThread(s)
  <2>1. CASE SweepUnits(s)
    <3>1. PICK ok \in Faults(SystemdMayFail) :
              /\ StopUnits({q \in Runs : WorktreeOf[q] = WorktreeOf[s]}, ok)
              /\ IF ok THEN SetPc(s, "prepare") /\ UNCHANGED admissionVars ELSE FailGuarded(s)
      BY <2>1, Zenon DEF SweepUnits
    <3>2. ok
      <4>1. ASSUME ~ok
            PROVE  FALSE
        <5>1. SetPc(s, "over")
          BY <3>1, <4>1, Zenon DEF FailGuarded
        <5>. QED
          BY <1>0, <5>1, PcSet, PlaceNames, Zenon DEF StartTo
      <4>. QED
        BY <4>1
    <3>3. {q \in Runs : WorktreeOf[q] = WorktreeOf[s]} \in SUBSET Runs
      OBVIOUS
    <3>4. \A q \in {q \in Runs : WorktreeOf[q] = WorktreeOf[s]} : unit'[q] # "running"
      BY <1>0, <3>1, <3>2, <3>3, Stopping, Zenon
    <3>. QED
      BY <3>4
  <2>2. CASE Prepare(s)
    <3>1. start[s].pc = "prepare" /\ (UNCHANGED stage \/ StartTo(s, "over"))
      BY <1>0, <2>2, PcSet, PlaceNames, Zenon DEF Prepare, FailGuarded, admissionVars
    <3>. QED
      BY <3>1, Zenon DEF StartTo
  <2>3. CASE Accept(s)
    <3>1. start[s].pc = "accept" /\ stage[s] = "guarded"
      BY <2>3, Zenon DEF Accept, Started
    <3>. QED
      BY <3>1 DEF Starting
  <2>4. CASE ReleaseGate(s)
    <3>1. start[s].pc = "launch" /\ stage[s] = "accepted"
      BY <2>4, Zenon DEF ReleaseGate, ReleaseGlobal
    <3>. QED
      BY <3>1 DEF Starting
  <2>5. CASE Attach(s) \/ AttachGuarded(s) \/ EnterWorktree(s) \/ EnterGate(s)
    BY <1>0, <2>5, Transitions, Zenon DEF StartTo
  <2>6. CASE SupersedePrior(s) \/ StopPrior(s) \/ AwaitPrior(s)
    BY <1>0, <2>6, Transitions, Zenon DEF StartTo, StartWith
  <2>7. CASE Launch(s) \/ RollbackAcceptedStart(s) \/ VerifyLaunch(s) \/ StopFailedLaunch(s)
    BY <1>0, <2>7, Transitions, Zenon DEF StartTo
  <2>8. CASE JoinFailedLaunch(s) \/ AbandonLaunch(s) \/ StartFinalized(s) \/ ReturnStart(s)
    BY <1>0, <2>8, Transitions, Zenon DEF StartTo
  <2>. QED
    BY <1>3, <2>1, <2>2, <2>3, <2>4, <2>5, <2>6, <2>7, <2>8, Zenon DEF StartThread
<1>. QED
  BY <1>1, <1>2, <1>3, Zenon

\* A unit is launched only where none runs, and while none other can be.
LEMMA UnitStep ==
    ASSUME LifecycleBase, AdmissionInv, UnitInv, [LifecycleNext]_vars
    PROVE  UnitInv'
<1>0. LifecycleTypeOK /\ TypeOK /\ PermitIsHeld /\ Swept /\ OneUnitPerWorktree
  BY DEF LifecycleBase, AdmissionInv, UnitInv
<1>1. ASSUME NEW r \in Runs, Launch(r)
      PROVE  UnitInv'
  <2>1. /\ start[r].pc = "launch" /\ stage[r] \in Starting
        /\ UNCHANGED stage
        /\ UNCHANGED unit \/ UnitTo(r, "running")
    BY <1>0, <1>1, Changing, Zenon DEF Launch, Starting, admissionVars
  <2>2. \A q \in Runs : WorktreeOf[q] = WorktreeOf[r] => unit[q] # "running"
    BY <1>0, <2>1, Zenon DEF Swept
  <2>3. \A q \in Runs : q # r => unit'[q] = unit[q]
    BY <2>1, Zenon DEF UnitTo
  <2>4. OneUnitPerWorktree'
    BY <1>0, <2>2, <2>3, Zenon DEF OneUnitPerWorktree
  <2>5. ASSUME NEW s \in Runs, start'[s].pc \in {"prepare", "accept", "launch"}, stage'[s] \in Starting,
               NEW q \in Runs, WorktreeOf[q] = WorktreeOf[s]
        PROVE  unit'[q] # "running"
    <3>1. s # r
      BY <1>0, <1>1, <2>5, Transitions, Zenon DEF StartTo
    <3>2. start'[s] = start[s]
      BY <1>0, <1>1, <3>1, Transitions, Zenon DEF StartTo
    <3>3. WorktreeOf[s] # WorktreeOf[r]
      BY <1>0, <2>1, <2>5, <3>1, Zenon DEF PermitIsHeld
    <3>4. unit[q] # "running"
      BY <1>0, <2>1, <2>5, <3>2, Zenon DEF Swept
    <3>. QED
      BY <2>3, <2>5, <3>3, <3>4, Zenon
  <2>. QED
    BY <2>4, <2>5, Zenon DEF UnitInv, Swept
<1>2. CASE \A r \in Runs : ~Launch(r)
  <2>1. \A q \in Runs : unit'[q] = "running" => unit[q] = "running"
    BY <1>2, UnitsOnlyEnd, Zenon DEF UnitsEnd
  <2>2. OneUnitPerWorktree'
    BY <1>0, <2>1, Zenon DEF OneUnitPerWorktree
  <2>3. Swept'
    BY <1>0, <2>1, SweptFrom, Zenon DEF Swept
  <2>. QED
    BY <2>2, <2>3, Zenon DEF UnitInv
<1>. QED
  BY <1>1, <1>2, Zenon

\* REQ-TEST-02, for any number of starts: supersede_prior and the worktree
\* permit of test_admission.rs never let two units of a worktree run, whatever
\* systemd, the file system and the clock do.
THEOREM WorktreeRunsOneUnit == LifecycleSpec => []OneUnitPerWorktree
<1>1. LifecycleInit => UnitInv
  BY Zenon DEF LifecycleInit, UnitInv, Swept, OneUnitPerWorktree
<1>2. LifecycleBase /\ AdmissionInv /\ UnitInv /\ [LifecycleNext]_vars => UnitInv'
  BY UnitStep, Zenon
<1>3. UnitInv => OneUnitPerWorktree
  BY Zenon DEF UnitInv
<1>. QED
  BY <1>1, <1>2, <1>3, BaseInvariance, AdmissionHolds, PTL DEF LifecycleSpec

-----------------------------------------------------------------------------
(* Who moves a handle, and how.                                            *)

\* A thread claims the finalization of a run.
Claims(q) ==
    /\ \/ JoinFailedLaunch(q)
       \/ AbandonLaunch(q) /\ StartTo(q, "finalizing")
       \/ ReaperFinalizes(q) /\ handle[q].step = "new"
       \/ ReconcileStops /\ reconcile.run = q /\ handle[q].step = "new" /\ ReconcileTo("finalize")
    /\ HandleTo(q, "claimed", handle[q].final)
    /\ handle'[q].status = handle[q].status

\* Its finalization goes on.
Finalizes(q) ==
    \/ /\ FinalizeDecides(q) /\ handle[q].step = "claimed"
       /\ HandleTo(q, "decided", handle[q].final) /\ handle'[q].status # "none"
    \/ /\ FinalizeWrites(q) /\ handle[q].step = "decided"
       /\ HandleTo(q, "written", handle[q].final) /\ handle'[q].status = handle[q].status
    \/ /\ FinalizeSettles(q) /\ handle[q].step = "written"
       /\ HandleTo(q, "settled", handle[q].status)
    \/ /\ FinalizeFinishes(q) /\ handle[q].step = "settled"
       /\ HandleTo(q, "done", handle[q].final)

\* All handles are lost with the daemon.
HandlesLost == DaemonCrash /\ \A q \in Runs : handle'[q].step = "new" /\ handle'[q].final = "none"

\* A step of a start marks the run it replaces, or claims its own.
LEMMA StartHandles ==
    ASSUME LifecycleBase, NEW r \in Runs, StartThread(r)
    PROVE  HandlesMarked \/ Claims(r)
<1>0. LifecycleTypeOK /\ (UNCHANGED handle => HandlesMarked)
  BY Zenon DEF LifecycleBase, HandlesMarked
<1>1. CASE SupersedePrior(r)
  <2>1. runs[WorktreeOf[r]] # NoOne => runs[WorktreeOf[r]] \in Runs
    BY <1>0, TypesNow, AdmissionConstants, Zenon
  <2>2. \A h \in Runs : SetStop(h, "superseded") => HandlesMarked
    BY <1>0, StopSet
  <2>. QED
    BY <1>0, <1>1, <2>1, <2>2, Zenon DEF SupersedePrior
<1>2. CASE JoinFailedLaunch(r)
  <2>1. Claim(r, "launcher")
    BY <1>2, Zenon DEF JoinFailedLaunch
  <2>. QED
    BY <1>0, <1>2, <2>1, Claiming, Zenon DEF Claims
<1>3. CASE AbandonLaunch(r)
  <2>1. \/ Claim(r, "starter") /\ SetPc(r, "finalizing")
        \/ UNCHANGED handle
    BY <1>3, Zenon DEF AbandonLaunch
  <2>2. CASE Claim(r, "starter") /\ SetPc(r, "finalizing")
    <3>1. StartTo(r, "finalizing")
      BY <1>0, <2>2, PcSet, PlaceNames, Zenon
    <3>2. HandleTo(r, "claimed", handle[r].final) /\ handle'[r].status = handle[r].status
      BY <1>0, <2>2, Claiming, Zenon
    <3>. QED
      BY <1>3, <3>1, <3>2, Zenon DEF Claims
  <2>. QED
    BY <1>0, <2>1, <2>2
<1>4. CASE Attach(r) \/ AttachGuarded(r) \/ EnterWorktree(r) \/ EnterGate(r) \/ StopPrior(r) \/ AwaitPrior(r)
           \/ SweepUnits(r) \/ Prepare(r) \/ Accept(r) \/ ReleaseGate(r) \/ Launch(r)
           \/ RollbackAcceptedStart(r) \/ VerifyLaunch(r) \/ StopFailedLaunch(r) \/ StartFinalized(r)
           \/ ReturnStart(r)
  <2>1. UNCHANGED handle
    BY <1>4, Zenon DEF Attach, AttachGuarded, EnterWorktree, EnterGate, StopPrior, AwaitPrior, SweepUnits,
           Prepare, Accept, ReleaseGate, Launch, RollbackAcceptedStart, VerifyLaunch,
           StopFailedLaunch, StartFinalized, ReturnStart, lifecycleVars
  <2>. QED
    BY <1>0, <2>1
<1>. QED
  BY <1>1, <1>2, <1>3, <1>4, Zenon DEF StartThread

\* A reaper claims its run, and a finalization goes on step by step.
LEMMA RunHandles ==
    ASSUME LifecycleBase, NEW r \in Runs, UnitExits(r) \/ ReaperThread(r) \/ FinalizeStep(r)
    PROVE  HandlesMarked \/ Claims(r) \/ Finalizes(r)
<1>0. LifecycleTypeOK /\ (UNCHANGED handle => HandlesMarked)
  BY Zenon DEF LifecycleBase, HandlesMarked
<1>1. CASE ReaperFinalizes(r)
  <2>1. handle[r].step = "new" => Claim(r, "reaper")
    BY <1>1, Zenon DEF ReaperFinalizes
  <2>2. handle[r].step # "new" => UNCHANGED handle
    BY <1>1, Zenon DEF ReaperFinalizes
  <2>. QED
    BY <1>0, <1>1, <2>1, <2>2, Claiming, Zenon DEF Claims
<1>2. CASE FinalizeDecides(r)
  BY <1>0, <1>2, Deciding, Zenon DEF FinalizeDecides, Finalizes
<1>3. CASE FinalizeWrites(r)
  <2>1. handle[r].step = "decided" /\ handle' = [handle EXCEPT ![r].step = "written"]
    BY <1>3, Zenon DEF FinalizeWrites
  <2>. QED
    BY <1>0, <1>3, <2>1, Recording, Zenon DEF Finalizes
<1>4. CASE FinalizeSettles(r)
  <2>1. handle[r].step = "written"
    BY <1>4, Zenon DEF FinalizeSettles
  <2>. QED
    BY <1>0, <1>4, <2>1, Settling, Zenon DEF Finalizes
<1>5. CASE FinalizeFinishes(r)
  <2>1. handle[r].step = "settled" /\ handle' = [handle EXCEPT ![r].step = "done"]
    BY <1>5, Zenon DEF FinalizeFinishes
  <2>. QED
    BY <1>0, <1>5, <2>1, Recording, Zenon DEF Finalizes
<1>6. CASE UnitExits(r) \/ ReaperLeaves(r)
  BY <1>0, <1>6, Zenon DEF UnitExits, ReaperLeaves
<1>. QED
  BY <1>1, <1>2, <1>3, <1>4, <1>5, <1>6, Zenon DEF ReaperThread, FinalizeStep

\* Everybody else marks a run, or claims it in reconcile_worktree.
LEMMA OtherHandles ==
    ASSUME LifecycleBase, [LifecycleNext]_vars,
           \A r \in Runs : ~(StartThread(r) \/ UnitExits(r) \/ ReaperThread(r) \/ FinalizeStep(r))
    PROVE  HandlesMarked \/ (\E q \in Runs : Claims(q)) \/ HandlesLost
<1>0. LifecycleTypeOK /\ (UNCHANGED handle => HandlesMarked)
  BY Zenon DEF LifecycleBase, HandlesMarked
<1>1. \A h \in Runs : \A why \in {"superseded", "cancelled", "memory_pressure", "interrupted"} :
          SetStop(h, why) => HandlesMarked
  BY <1>0, StopSet
<1>2. CASE StopThread \/ ReliefThread
  <2>1. /\ \A w \in Worktrees : runs[w] # NoOne => runs[w] \in Runs
        /\ relief.step # "idle" => relief.run \in Runs
    BY <1>0, TypesNow, Zenon DEF LifecycleBase, Located
  <2>. QED
    BY <1>0, <1>1, <1>2, <2>1, Zenon DEF StopThread, ReliefThread, StopAsks, StopStopsUnit, RelievePicks,
                                    RelieveMarks, RelieveStopsUnit
<1>3. CASE ReconcileLooks
  <2>1. /\ reconcile.wt \in Worktrees
        /\ \A w \in Worktrees : runs[w] # NoOne => runs[w] \in Runs
    BY <1>0, <1>3, TypesNow, Zenon DEF LifecycleBase, Located, ReconcileLooks
  <2>. QED
    BY <1>0, <1>1, <1>3, <2>1, Zenon DEF ReconcileLooks
<1>4. CASE ReconcileStops
  <2>1. PICK ok \in Faults(SystemdMayFail) :
            IF ok /\ handle[reconcile.run].step = "new"
            THEN Claim(reconcile.run, "reconciler") /\ reconcile' = [reconcile EXCEPT !.step = "finalize"]
            ELSE UNCHANGED handle
    BY <1>4, Zenon DEF ReconcileStops
  <2>2. PICK h \in Runs : h = reconcile.run
    BY <1>4 DEF ReconcileStops, LifecycleBase, Located, OnRun
  <2>3. CASE ok /\ handle[h].step = "new"
    <3>1. Claim(h, "reconciler") /\ reconcile' = [reconcile EXCEPT !.step = "finalize"]
      BY <2>1, <2>2, <2>3
    <3>2. ReconcileTo("finalize")
      BY <1>0, <3>1 DEF LifecycleTypeOK, Reconcilers, ReconcileTo
    <3>. QED
      BY <1>0, <1>4, <2>2, <2>3, <3>1, <3>2, Claiming, Zenon DEF Claims
  <2>4. CASE ~(ok /\ handle[h].step = "new")
    BY <1>0, <2>1, <2>2, <2>4
  <2>. QED
    BY <2>3, <2>4
<1>5. CASE (\E w \in Worktrees : ReconcileBegins(w)) \/ (ReconcileThread /\ ~ReconcileLooks /\ ~ReconcileStops)
  BY <1>0, <1>5, Zenon DEF ReconcileBegins, ReconcileThread, ReconcileFinalized, OrphanStops, OrphanWrites,
                           OrphanRecords, OrphanFinishes, ReconcileEnds
<1>6. CASE DaemonCrash
  BY <1>6, Zenon DEF DaemonCrash, HandlesLost, NewHandle
<1>7. CASE RecoveryThread \/ DaemonRestart \/ Outside \/ UNCHANGED vars
  BY <1>0, <1>7, Zenon DEF RecoveryThread, RecoverStopsUnits, RecoverSkips, RecoverResets, RecoverFails,
                           DaemonRestart, Outside, lifecycleVars, vars
<1>. QED
  BY <1>2, <1>3, <1>4, <1>5, <1>6, <1>7, Zenon DEF LifecycleNext

\* What a step does to the handles.
LEMMA HandleMoves ==
    ASSUME LifecycleBase, [LifecycleNext]_vars
    PROVE  HandlesMarked \/ (\E q \in Runs : Claims(q) \/ Finalizes(q)) \/ HandlesLost
<1>1. ASSUME NEW r \in Runs, StartThread(r)
      PROVE  HandlesMarked \/ Claims(r)
  BY <1>1, StartHandles, Zenon
<1>2. ASSUME NEW r \in Runs, UnitExits(r) \/ ReaperThread(r) \/ FinalizeStep(r)
      PROVE  HandlesMarked \/ Claims(r) \/ Finalizes(r)
  BY <1>2, RunHandles, Zenon
<1>. QED
  BY <1>1, <1>2, OtherHandles, Zenon

-----------------------------------------------------------------------------
(* Who changes the registry and the reapers.                               *)

\* The reaper of r leaves, and unregisters its run if it is still there.
Unregisters(r) ==
    /\ ReaperLeaves(r)
    /\ \A w \in Worktrees : runs'[w] = IF w = WorktreeOf[r] /\ runs[w] = r THEN NoOne ELSE runs[w]

\* The registry changes in supersede_prior, after verify_launch and in a
\* reaper, and is lost with the daemon.
LEMMA RunsMoves ==
    ASSUME LifecycleBase, [LifecycleNext]_vars
    PROVE  \/ UNCHANGED runs
           \/ \E r \in Runs : SupersedePrior(r) /\ RunsTo(WorktreeOf[r], NoOne)
           \/ \E r \in Runs : VerifyLaunch(r) /\ RunsTo(WorktreeOf[r], r)
           \/ \E r \in Runs : Unregisters(r)
           \/ DaemonCrash /\ \A w \in Worktrees : runs'[w] = NoOne
<1>0. LifecycleTypeOK /\ \A r \in Runs : WorktreeOf[r] \in Worktrees
  BY AdmissionConstants DEF LifecycleBase
<1>1. ASSUME NEW r \in Runs, StartThread(r)
      PROVE  \/ UNCHANGED runs
             \/ SupersedePrior(r) /\ RunsTo(WorktreeOf[r], NoOne)
             \/ VerifyLaunch(r) /\ RunsTo(WorktreeOf[r], r)
  <2>1. CASE SupersedePrior(r)
    <3>1. runs' = [runs EXCEPT ![WorktreeOf[r]] = NoOne]
      BY <2>1, Zenon DEF SupersedePrior
    <3>. QED
      BY <1>0, <2>1, <3>1, Changing, Zenon
  <2>2. CASE VerifyLaunch(r)
    <3>1. UNCHANGED runs \/ runs' = [runs EXCEPT ![WorktreeOf[r]] = r]
      BY <2>2, Zenon DEF VerifyLaunch
    <3>. QED
      BY <1>0, <2>2, <3>1, Changing, Zenon
  <2>. QED
    BY <1>1, <2>1, <2>2, Zenon DEF StartThread, Attach, AttachGuarded, EnterWorktree, EnterGate, StopPrior, AwaitPrior, SweepUnits,
           Prepare, Accept, ReleaseGate, Launch, RollbackAcceptedStart,
           StopFailedLaunch, JoinFailedLaunch, AbandonLaunch, StartFinalized, ReturnStart, lifecycleVars
<1>2. ASSUME NEW r \in Runs, UnitExits(r) \/ ReaperThread(r) \/ FinalizeStep(r)
      PROVE  UNCHANGED runs \/ Unregisters(r)
  <2>1. CASE ReaperLeaves(r)
    BY <1>0, <2>1, Unregistering, Zenon DEF Unregisters
  <2>. QED
    BY <1>2, <2>1, Zenon DEF UnitExits, ReaperThread, ReaperFinalizes, FinalizeStep, FinalizeDecides,
                             FinalizeWrites, FinalizeSettles, FinalizeFinishes
<1>3. CASE StopThread \/ ReliefThread \/ (\E w \in Worktrees : ReconcileBegins(w)) \/ ReconcileThread
  BY <1>3, Zenon DEF StopThread, ReliefThread, StopAsks, StopStopsUnit, RelievePicks, RelieveMarks,
         RelieveStopsUnit, ReconcileBegins, ReconcileThread, ReconcileLooks, ReconcileStops,
         ReconcileFinalized, OrphanStops, OrphanWrites, OrphanRecords, OrphanFinishes, ReconcileEnds
<1>4. CASE DaemonCrash
  BY <1>4, Zenon DEF DaemonCrash
<1>5. CASE RecoveryThread \/ DaemonRestart \/ Outside \/ UNCHANGED vars
  BY <1>5, Zenon DEF RecoveryThread, RecoverStopsUnits, RecoverSkips, RecoverResets, RecoverFails,
                     DaemonRestart, Outside, lifecycleVars, vars
<1>. QED
  BY <1>1, <1>2, <1>3, <1>4, <1>5, Zenon DEF LifecycleNext

\* A reaper is spawned by verify_launch, and then goes its own way.
LEMMA ReaperMoves ==
    ASSUME LifecycleBase, [LifecycleNext]_vars
    PROVE  \/ UNCHANGED reaper
           \/ \E r \in Runs : VerifyLaunch(r) /\ ReaperTo(r, "waiting") /\ StartTo(r, "returning")
           \/ \E r \in Runs : ReaperFinalizes(r) /\ Claims(r) /\ ReaperTo(r, "finalizing")
           \/ \E r \in Runs : ReaperFinalizes(r) /\ handle[r].step # "new" /\ ReaperTo(r, "leaving")
           \/ \E r \in Runs : ReaperLeaves(r) /\ ReaperTo(r, "gone")
           \/ DaemonCrash /\ \A q \in Runs : reaper'[q] = "none"
<1>0. LifecycleTypeOK
  BY DEF LifecycleBase
<1>1. ASSUME NEW r \in Runs, StartThread(r)
      PROVE  UNCHANGED reaper \/ (VerifyLaunch(r) /\ ReaperTo(r, "waiting") /\ StartTo(r, "returning"))
  <2>1. CASE VerifyLaunch(r)
    <3>1. UNCHANGED reaper \/ (reaper' = [reaper EXCEPT ![r] = "waiting"] /\ SetPc(r, "returning"))
      BY <2>1, Zenon DEF VerifyLaunch
    <3>. QED
      BY <1>0, <2>1, <3>1, Changing, PcSet, PlaceNames, Zenon
  <2>. QED
    BY <1>1, <2>1, Zenon DEF StartThread, Attach, AttachGuarded, EnterWorktree, EnterGate, SupersedePrior, StopPrior, AwaitPrior,
           SweepUnits, Prepare, Accept, ReleaseGate, Launch, RollbackAcceptedStart,
           StopFailedLaunch, JoinFailedLaunch, AbandonLaunch, StartFinalized, ReturnStart, lifecycleVars
<1>2. ASSUME NEW r \in Runs, UnitExits(r) \/ ReaperThread(r) \/ FinalizeStep(r)
      PROVE  \/ UNCHANGED reaper
             \/ ReaperFinalizes(r) /\ Claims(r) /\ ReaperTo(r, "finalizing")
             \/ ReaperFinalizes(r) /\ handle[r].step # "new" /\ ReaperTo(r, "leaving")
             \/ ReaperLeaves(r) /\ ReaperTo(r, "gone")
  <2>1. CASE ReaperFinalizes(r)
    <3>1. \/ /\ handle[r].step = "new" /\ Claim(r, "reaper")
             /\ reaper' = [reaper EXCEPT ![r] = "finalizing"]
          \/ handle[r].step # "new" /\ reaper' = [reaper EXCEPT ![r] = "leaving"]
      BY <2>1, Zenon DEF ReaperFinalizes
    <3>2. handle[r].step = "new" /\ Claim(r, "reaper") => Claims(r)
      BY <1>0, <2>1, Claiming, Zenon DEF Claims
    <3>. QED
      BY <1>0, <2>1, <3>1, <3>2, Changing, Zenon
  <2>2. CASE ReaperLeaves(r)
    <3>1. reaper' = [reaper EXCEPT ![r] = "gone"]
      BY <2>2, Zenon DEF ReaperLeaves
    <3>. QED
      BY <1>0, <2>2, <3>1, Changing, Zenon
  <2>. QED
    BY <1>2, <2>1, <2>2, Zenon DEF UnitExits, ReaperThread, FinalizeStep, FinalizeDecides,
                                   FinalizeWrites, FinalizeSettles, FinalizeFinishes
<1>3. CASE StopThread \/ ReliefThread \/ (\E w \in Worktrees : ReconcileBegins(w)) \/ ReconcileThread
  BY <1>3, Zenon DEF StopThread, ReliefThread, StopAsks, StopStopsUnit, RelievePicks, RelieveMarks,
         RelieveStopsUnit, ReconcileBegins, ReconcileThread, ReconcileLooks, ReconcileStops,
         ReconcileFinalized, OrphanStops, OrphanWrites, OrphanRecords, OrphanFinishes, ReconcileEnds
<1>4. CASE DaemonCrash
  BY <1>4, Zenon DEF DaemonCrash
<1>5. CASE RecoveryThread \/ DaemonRestart \/ Outside \/ UNCHANGED vars
  BY <1>5, Zenon DEF RecoveryThread, RecoverStopsUnits, RecoverSkips, RecoverResets, RecoverFails,
                     DaemonRestart, Outside, lifecycleVars, vars
<1>. QED
  BY <1>1, <1>2, <1>3, <1>4, <1>5, Zenon DEF LifecycleNext

\* The reconciler moves by its own steps.
LEMMA ReconcilerMoves ==
    ASSUME LifecycleBase, [LifecycleNext]_vars
    PROVE  \/ UNCHANGED reconcile
           \/ (\E w \in Worktrees : ReconcileBegins(w)) \/ ReconcileThread
           \/ DaemonCrash /\ reconcile'.step = "idle"
<1>1. ASSUME NEW r \in Runs, StartThread(r) \/ UnitExits(r) \/ ReaperThread(r) \/ FinalizeStep(r)
      PROVE  UNCHANGED reconcile
  BY <1>1, Zenon DEF StartThread, Attach, AttachGuarded, EnterWorktree, EnterGate, SupersedePrior, StopPrior, AwaitPrior,
         SweepUnits, Prepare, Accept, ReleaseGate, Launch, RollbackAcceptedStart, VerifyLaunch,
         StopFailedLaunch, JoinFailedLaunch, AbandonLaunch, StartFinalized, ReturnStart, lifecycleVars,
         UnitExits, ReaperThread, ReaperFinalizes, ReaperLeaves, FinalizeStep, FinalizeDecides,
         FinalizeWrites, FinalizeSettles, FinalizeFinishes
<1>2. CASE DaemonCrash
  BY <1>2, Zenon DEF DaemonCrash, IdleReconciler
<1>3. CASE StopThread \/ ReliefThread \/ RecoveryThread \/ DaemonRestart \/ Outside \/ UNCHANGED vars
  BY <1>3, Zenon DEF StopThread, ReliefThread, StopAsks, StopStopsUnit, RelievePicks, RelieveMarks,
         RelieveStopsUnit, RecoveryThread, RecoverStopsUnits, RecoverSkips, RecoverResets, RecoverFails,
         DaemonRestart, Outside, lifecycleVars, vars
<1>. QED
  BY <1>1, <1>2, <1>3, Zenon DEF LifecycleNext

-----------------------------------------------------------------------------
(* A run is finalized only when its unit is over.                          *)

ExistInv == UnitsExist /\ FinalizedUnitIsGone

\* A start is unspawned until its launch, and spawned by it.
LEMMA LaunchOrder ==
    ASSUME LifecycleBase, TypeOK, [LifecycleNext]_vars, NEW s \in Runs
    PROVE  /\ start'[s].pc \in Unspawned \cup {"rollback"} => start[s].pc \in Unspawned \cup {"rollback"}
           /\ start'[s].pc \in Spawned => start[s].pc \in Spawned \/ (Launch(s) /\ start'[s].pc = "spawned")
<1>0. LifecycleTypeOK
  BY DEF LifecycleBase
<1>. DEFINE Early == Unspawned \cup {"rollback"}
<1>1. /\ \A p \in {"idle", "attached", "busy", "probe", "ready", "supersede"} : p \in Early /\ p \notin Spawned
      /\ \A p \in {"stopping", "awaiting", "sweep", "prepare", "accept", "launch", "rollback"} :
             p \in Early /\ p \notin Spawned
      /\ \A p \in {"spawned", "failing", "joining", "abandoning"} : p \notin Early /\ p \in Spawned
      /\ \A p \in {"finalizing", "returning", "over"} : p \notin Early /\ p \notin Spawned
  BY DEF Unspawned, Unprepared, Spawned
<1>. SUFFICES /\ start'[s].pc \in Early => start[s].pc \in Early
              /\ start'[s].pc \in Spawned => start[s].pc \in Spawned \/ (Launch(s) /\ start'[s].pc = "spawned")
  BY Zenon
<1>. HIDE DEF Early
<1>2. CASE \A r \in Runs : ~StartThread(r)
  BY <1>1, <1>2, StartsStay, Zenon
<1>3. ASSUME NEW r \in Runs, StartThread(r), r # s
      PROVE  start'[s] = start[s]
  BY <1>0, <1>3, OthersStay, Zenon
<1>4. CASE StartThread(s)
  <2>1. CASE Attach(s) \/ AttachGuarded(s)
    <3>1. start[s].pc = "idle" \/ start[s].pc = "probe"
      BY <2>1, Zenon DEF Attach, AttachGuarded
    <3>2. start[s].pc \in Early
      BY <1>1, <3>1
    <3>3. start'[s].pc \in {"attached", "busy", "probe", "ready", "over"}
      BY <1>0, <2>1, Transitions, Zenon DEF StartTo
    <3>. QED
      BY <1>1, <3>2, <3>3, Zenon
  <2>2. CASE EnterWorktree(s) \/ EnterGate(s)
    <3>1. start[s].pc = "idle" \/ start[s].pc = "ready"
      BY <2>2, Zenon DEF EnterWorktree, EnterGate
    <3>2. start[s].pc \in Early
      BY <1>1, <3>1
    <3>3. start'[s].pc \in {"ready", "supersede", "over"}
      BY <1>0, <2>2, Transitions, Zenon DEF StartTo
    <3>. QED
      BY <1>1, <3>2, <3>3
  <2>3. CASE SupersedePrior(s) \/ StopPrior(s) \/ AwaitPrior(s)
    <3>1. start[s].pc \in {"supersede", "stopping", "awaiting"}
      BY <2>3, Zenon DEF SupersedePrior, StopPrior, AwaitPrior
    <3>2. start[s].pc \in Early
      BY <1>1, <3>1
    <3>3. start'[s].pc \in {"sweep", "stopping", "awaiting", "over"}
      BY <1>0, <2>3, Transitions, Zenon DEF StartTo, StartWith
    <3>. QED
      BY <1>1, <3>2, <3>3
  <2>4. CASE SweepUnits(s) \/ Prepare(s) \/ Accept(s)
    <3>1. start[s].pc \in {"sweep", "prepare", "accept"}
      BY <2>4, Zenon DEF SweepUnits, Prepare, Accept
    <3>2. start[s].pc \in Early
      BY <1>1, <3>1
    <3>3. start'[s].pc \in {"prepare", "accept", "launch", "over"}
      BY <1>0, <2>4, Transitions, Zenon DEF StartTo
    <3>. QED
      BY <1>1, <3>2, <3>3
  <2>5. CASE ReleaseGate(s)
    BY <1>0, <2>5, Transitions, Zenon
  <2>6. CASE Launch(s)
    <3>1. start[s].pc \in Early
      BY <1>1, <2>6, Zenon DEF Launch
    <3>2. start'[s].pc = "spawned" \/ start'[s].pc = "rollback"
      BY <1>0, <2>6, Transitions, Zenon DEF StartTo
    <3>. QED
      BY <1>1, <2>6, <3>1, <3>2
  <2>7. CASE RollbackAcceptedStart(s) \/ JoinFailedLaunch(s) \/ AbandonLaunch(s) \/ StartFinalized(s) \/ ReturnStart(s)
    <3>1. start'[s].pc \in {"finalizing", "returning", "over"}
      BY <1>0, <2>7, Transitions, Zenon DEF StartTo
    <3>. QED
      BY <1>1, <3>1, Zenon
  <2>8. CASE VerifyLaunch(s) \/ StopFailedLaunch(s)
    <3>1. start[s].pc \in {"spawned", "failing"}
      BY <2>8, Zenon DEF VerifyLaunch, StopFailedLaunch
    <3>2. start'[s].pc \in {"returning", "abandoning", "failing", "joining"}
      BY <1>0, <2>8, Transitions, Zenon DEF StartTo
    <3>. QED
      BY <1>1, <3>1, <3>2
  <2>. QED
    BY <1>4, <2>1, <2>2, <2>3, <2>4, <2>5, <2>6, <2>7, <2>8, Zenon DEF StartThread
<1>. QED
  BY <1>2, <1>3, <1>4, Zenon

\* Whoever claims a run has seen its unit end, or has stopped it.
LEMMA ExistStep ==
    ASSUME LifecycleBase, TypeOK, ExistInv, [LifecycleNext]_vars
    PROVE  ExistInv'
<1>0. LifecycleTypeOK /\ UnitsExist /\ FinalizedUnitIsGone
  BY DEF LifecycleBase, ExistInv
<1>1. ASSUME NEW q \in Runs, unit'[q] = "absent"
      PROVE  unit[q] = "absent"
  <2>1. ASSUME NEW r \in Runs, Launch(r)
        PROVE  unit[q] = "absent"
    <3>1. UNCHANGED unit \/ UnitTo(r, "running")
      BY <1>0, <2>1, Changing, Zenon DEF Launch
    <3>. QED
      BY <1>1, <3>1 DEF UnitTo
  <2>. QED
    BY <1>1, <2>1, UnitsOnlyEnd, Zenon DEF UnitsEnd
<1>2. ASSUME NEW s \in Runs, start'[s].pc \in Unspawned \cup {"rollback"}
      PROVE  unit'[s] = "absent"
  <2>1. unit[s] = "absent"
    BY <1>0, <1>2, LaunchOrder, Zenon DEF UnitsExist
  <2>2. ASSUME NEW r \in Runs, Launch(r)
        PROVE  unit'[s] = "absent"
    <3>1. \/ StartTo(r, "spawned") /\ UnitTo(r, "running")
          \/ UNCHANGED unit
      BY <1>0, <2>2, Changing, PcSet, PlaceNames, Zenon DEF Launch
    <3>2. "spawned" \notin Unspawned \cup {"rollback"}
      BY DEF Unspawned, Unprepared
    <3>. QED
      BY <1>2, <2>1, <3>1, <3>2, Zenon DEF StartTo, UnitTo
  <2>. QED
    BY <2>1, <2>2, UnitsOnlyEnd DEF UnitsEnd
<1>3. ASSUME NEW s \in Runs, start'[s].pc \in Spawned
      PROVE  unit'[s] # "absent"
  <2>1. CASE Launch(s) /\ start'[s].pc = "spawned"
    <3>1. \/ UnitTo(s, "running")
          \/ StartTo(s, "rollback")
      BY <1>0, <2>1, Changing, PcSet, PlaceNames, Zenon DEF Launch
    <3>. QED
      BY <2>1, <3>1 DEF UnitTo, StartTo
  <2>2. CASE start[s].pc \in Spawned
    BY <1>0, <1>1, <2>2, Zenon DEF UnitsExist
  <2>. QED
    BY <1>3, <2>1, <2>2, LaunchOrder, Zenon
<1>4. ASSUME NEW w \in Worktrees, runs'[w] # NoOne
      PROVE  unit'[runs'[w]] # "absent"
  <2>1. CASE runs'[w] = runs[w]
    <3>1. runs[w] \in Runs /\ unit[runs[w]] # "absent"
      BY <1>0, <1>4, <2>1, TypesNow, Zenon DEF UnitsExist
    <3>. QED
      BY <1>1, <2>1, <3>1, Zenon
  <2>2. CASE \E r \in Runs : VerifyLaunch(r) /\ runs'[w] = r
    <3>1. PICK r \in Runs : VerifyLaunch(r) /\ runs'[w] = r
      BY <2>2
    <3>2. start[r].pc \in Spawned
      BY <3>1, Zenon DEF VerifyLaunch, Spawned
    <3>. QED
      BY <1>0, <1>1, <3>1, <3>2, Zenon DEF UnitsExist
  <2>. QED
    <3>1. \A r \in Runs : WorktreeOf[r] \in Worktrees
      BY AdmissionConstants
    <3>2. runs'[w] = runs[w] \/ \E r \in Runs : VerifyLaunch(r) /\ runs'[w] = r
      BY <1>4, <3>1, RunsMoves, Zenon DEF RunsTo, Unregisters
    <3>. QED
      BY <2>1, <2>2, <3>2
<1>5. ASSUME reconcile'.step = "stop"
      PROVE  unit'[reconcile'.run] # "absent"
  <2>1. CASE UNCHANGED reconcile
    <3>1. reconcile.run \in Runs /\ unit[reconcile.run] # "absent"
      BY <1>0, <1>5, <2>1, Zenon DEF LifecycleBase, Located, OnRun, UnitsExist
    <3>. QED
      BY <1>1, <2>1, <3>1, Zenon
  <2>2. CASE ReconcileLooks
    <3>1. reconcile.wt \in Worktrees
      BY <2>2 DEF ReconcileLooks, LifecycleBase, Located
    <3>2. runs[reconcile.wt] # NoOne /\ reconcile'.run = runs[reconcile.wt]
      BY <1>0, <1>5, <2>2, Reconciling, Zenon DEF ReconcileTo, ReconcileWith
    <3>3. runs[reconcile.wt] \in Runs /\ unit[runs[reconcile.wt]] # "absent"
      BY <1>0, <3>1, <3>2, TypesNow, Zenon DEF UnitsExist
    <3>. QED
      BY <1>1, <3>2, <3>3, Zenon
  <2>. QED
    BY <1>0, <1>5, <2>1, <2>2, ReconcilerMoves, Reconciling, Zenon DEF ReconcileThread, ReconcileTo
<1>6. ASSUME NEW q \in Runs, handle'[q].step # "new"
      PROVE  UnitOver(q)'
  <2>1. CASE handle[q].step # "new"
    <3>1. unit[q] \notin {"absent", "running"}
      BY <1>0, <2>1, Zenon DEF FinalizedUnitIsGone, UnitOver
    <3>2. ASSUME NEW r \in Runs, Launch(r)
          PROVE  unit'[q] = unit[q]
      <4>1. unit[r] = "absent"
        BY <1>0, <3>2, Zenon DEF Launch, UnitsExist, Unspawned
      <4>2. q # r
        BY <3>1, <4>1
      <4>. QED
        BY <1>0, <3>2, <4>2, Changing, Zenon DEF Launch, UnitTo
    <3>3. unit'[q] = unit[q]
      BY <3>1, <3>2, UnitsOnlyEnd DEF UnitsEnd
    <3>. QED
      BY <3>1, <3>3, Zenon DEF UnitOver
  <2>2. CASE handle[q].step = "new"
    <3>1. Claims(q)
      BY <1>6, <2>2, HandleMoves, Zenon DEF HandlesMarked, Claims, Finalizes, HandleTo, HandlesLost
    <3>2. CASE JoinFailedLaunch(q) \/ ReaperFinalizes(q)
      BY <3>2, Zenon DEF JoinFailedLaunch, ReaperFinalizes, UnitOver
    <3>3. CASE AbandonLaunch(q) /\ StartTo(q, "finalizing")
      <4>1. PICK ok \in Faults(SystemdMayFail) :
                /\ StopUnits({q}, ok)
                /\ ok \/ SetPc(q, "returning")
        BY <3>3, Zenon DEF AbandonLaunch
      <4>2. ok
        <5>1. ~SetPc(q, "returning")
          BY <1>0, <3>3, PcSet, PlaceNames DEF StartTo
        <5>. QED
          BY <4>1, <5>1
      <4>3. unit'[q] # "running"
        <5>1. {q} \in SUBSET Runs /\ q \in {q}
          OBVIOUS
        <5>. QED
          BY <1>0, <4>1, <4>2, <5>1, Stopping, Zenon
      <4>4. unit[q] # "absent"
        BY <1>0, <3>3, Zenon DEF AbandonLaunch, UnitsExist, Spawned
      <4>. QED
        BY <1>1, <4>3, <4>4, Zenon DEF UnitOver
    <3>4. CASE ReconcileStops /\ reconcile.run = q /\ ReconcileTo("finalize")
      <4>1. PICK ok \in Faults(SystemdMayFail) :
                /\ StopUnits({reconcile.run}, ok)
                /\ ok \/ reconcile' = [reconcile EXCEPT !.step = IF ok THEN "end" ELSE "error"]
        BY <3>4, Zenon DEF ReconcileStops
      <4>2. ok
        <5>1. reconcile' = [reconcile EXCEPT !.step = IF ok THEN "end" ELSE "error"] =>
                  reconcile'.step # "finalize"
          BY <1>0 DEF LifecycleTypeOK, Reconcilers
        <5>. QED
          BY <3>4, <4>1, <5>1 DEF ReconcileTo
      <4>3. unit'[q] # "running"
        <5>1. {q} \in SUBSET Runs /\ q \in {q} /\ StopUnits({q}, ok)
          BY <3>4, <4>1
        <5>. QED
          BY <1>0, <4>2, <5>1, Stopping, Zenon
      <4>4. unit[q] # "absent"
        BY <1>0, <3>4, Zenon DEF ReconcileStops, UnitsExist
      <4>. QED
        BY <1>1, <4>3, <4>4, Zenon DEF UnitOver
    <3>. QED
      BY <3>1, <3>2, <3>3, <3>4, Zenon DEF Claims
  <2>. QED
    BY <2>1, <2>2
<1>7. UnitsExist'
  BY <1>2, <1>3, <1>4, <1>5, Zenon DEF UnitsExist
<1>8. FinalizedUnitIsGone'
  BY <1>6, Zenon DEF FinalizedUnitIsGone
<1>. QED
  BY <1>7, <1>8, Zenon DEF ExistInv

\* The units and handles behind the next theorem.
LEMMA ExistInvariance == LifecycleSpec => []ExistInv
<1>1. LifecycleInit => ExistInv
  BY Begins, Zenon DEF ExistInv, UnitsExist, FinalizedUnitIsGone, Spawned
<1>2. LifecycleBase /\ AdmissionInv /\ ExistInv /\ [LifecycleNext]_vars => ExistInv'
  BY ExistStep, Zenon DEF AdmissionInv
<1>. QED
  BY <1>1, <1>2, BaseInvariance, AdmissionHolds, PTL DEF LifecycleSpec

\* None of the four callers of finalize calls it while a process of the run may
\* still be there, even when stops fail or time out.
THEOREM FinalizedUnitsAreGone == LifecycleSpec => []FinalizedUnitIsGone
<1>1. ExistInv => FinalizedUnitIsGone
  BY Zenon DEF ExistInv
<1>. QED
  BY <1>1, ExistInvariance, PTL


-----------------------------------------------------------------------------
(* The record of a replaced run.                                           *)

\* A decided run has a status, whatever step comes.
LEMMA StatusStays ==
    ASSUME LifecycleBase, [LifecycleNext]_vars, NEW q \in Runs,
           handle[q].step \in {"decided", "written"} => handle[q].status # "none"
    PROVE  handle'[q].step \in {"decided", "written"} => handle'[q].status # "none"
<1>1. ASSUME NEW r \in Runs, Claims(r) \/ Finalizes(r)
      PROVE  handle'[q].step \in {"decided", "written"} => handle'[q].status # "none"
  <2>1. CASE q # r
    BY <1>1, <2>1, Zenon DEF Claims, Finalizes, HandleTo
  <2>2. CASE q = r
    BY <1>1, <2>2, Zenon DEF Claims, Finalizes, HandleTo
  <2>. QED
    BY <2>1, <2>2
<1>2. HandlesMarked \/ HandlesLost => (handle'[q].step \in {"decided", "written"} => handle'[q].status # "none")
  BY Zenon DEF HandlesMarked, HandlesLost
<1>. QED
  BY <1>1, <1>2, HandleMoves, Zenon

\* A record is never taken back, and finalize has one before it announces the
\* final status, when the history can be written.
LEMMA RecordsStay ==
    ASSUME LifecycleBase, [LifecycleNext]_vars, NEW q \in Runs,
           \A r \in Runs : handle[r].step \in {"decided", "written"} => handle[r].status # "none"
    PROVE  /\ history[q] # "none" => history'[q] # "none"
           /\ FinalizeSettles(q) /\ ~IoMayFail => history'[q] # "none"
<1>0. LifecycleTypeOK /\ (reconcile.step \in OnRun => reconcile.run \in Runs)
  BY Zenon DEF LifecycleBase, Located
<1>1. ASSUME NEW r \in Runs, NEW x, history' = [history EXCEPT ![r] = x]
      PROVE  history'[r] = x /\ (q # r => history'[q] = history[q])
  BY <1>0, <1>1 DEF LifecycleTypeOK, Histories
<1>2. ASSUME NEW r \in Runs, FinalizeSettles(r)
      PROVE  history[q] # "none" => history'[q] # "none"
  <2>1. handle[r].status # "none"
    BY <1>2 DEF FinalizeSettles
  <2>. QED
    BY <1>1, <1>2, <2>1, Zenon DEF FinalizeSettles
<1>3. ASSUME OrphanRecords
      PROVE  history[q] # "none" => history'[q] # "none"
  <2>1. reconcile.run \in Runs
    BY <1>0, <1>3 DEF OrphanRecords, OnRun
  <2>2. PICK h \in Runs : h = reconcile.run
    BY <2>1
  <2>3. UNCHANGED history \/ history' = [history EXCEPT ![h] = "interrupted"]
    BY <1>3, <2>2 DEF OrphanRecords
  <2>. QED
    BY <1>1, <2>3, Zenon
<1>4. ASSUME NEW r \in Runs, StartThread(r) \/ UnitExits(r) \/ ReaperThread(r) \/ FinalizeStep(r)
      PROVE  UNCHANGED history \/ FinalizeSettles(r)
  BY <1>4, Zenon DEF StartThread, Attach, AttachGuarded, EnterWorktree, EnterGate, SupersedePrior, StopPrior, AwaitPrior,
         SweepUnits, Prepare, Accept, ReleaseGate, Launch, RollbackAcceptedStart, VerifyLaunch,
         StopFailedLaunch, JoinFailedLaunch, AbandonLaunch, StartFinalized, ReturnStart, lifecycleVars,
         UnitExits, ReaperThread, ReaperFinalizes, ReaperLeaves, FinalizeStep, FinalizeDecides,
         FinalizeWrites, FinalizeFinishes
<1>5. ASSUME (\E w \in Worktrees : ReconcileBegins(w)) \/ ReconcileThread
      PROVE  UNCHANGED history \/ OrphanRecords
  BY <1>5, Zenon DEF ReconcileBegins, ReconcileThread, ReconcileLooks, ReconcileStops,
         ReconcileFinalized, OrphanStops, OrphanWrites, OrphanFinishes, ReconcileEnds
<1>6. ASSUME StopThread \/ ReliefThread \/ RecoveryThread \/ DaemonCrash \/ DaemonRestart \/ Outside \/ UNCHANGED vars
      PROVE  UNCHANGED history
  BY <1>6, Zenon DEF StopThread, ReliefThread, StopAsks, StopStopsUnit, RelievePicks, RelieveMarks,
         RelieveStopsUnit, RecoveryThread, RecoverStopsUnits, RecoverSkips, RecoverResets, RecoverFails,
         DaemonCrash, DaemonRestart, Outside, lifecycleVars, vars
<1>7. history[q] # "none" => history'[q] # "none"
  BY <1>2, <1>3, <1>4, <1>5, <1>6, Zenon DEF LifecycleNext
<1>8. ASSUME FinalizeSettles(q), ~IoMayFail
      PROVE  history'[q] # "none"
  <2>1. handle[q].status # "none"
    BY <1>8 DEF FinalizeSettles
  <2>. QED
    BY <1>1, <1>8, <2>1, Zenon DEF FinalizeSettles
<1>. QED
  BY <1>7, <1>8

\* Only supersede_prior names a replaced run, the one it takes from the registry.
LEMMA SupersededMoves ==
    ASSUME LifecycleBase, [LifecycleNext]_vars, NEW s \in Runs
    PROVE  \/ superseded'[s] = superseded[s]
           \/ SupersedePrior(s) /\ superseded'[s] \in {NoOne, runs[WorktreeOf[s]]}
<1>1. ASSUME NEW r \in Runs, SupersedePrior(r)
      PROVE  \/ superseded'[s] = superseded[s]
             \/ SupersedePrior(s) /\ superseded'[s] \in {NoOne, runs[WorktreeOf[s]]}
  BY <1>1, Zenon DEF SupersedePrior, LifecycleBase, LifecycleTypeOK, Replaced
<1>2. ASSUME NEW r \in Runs, StartThread(r) \/ UnitExits(r) \/ ReaperThread(r) \/ FinalizeStep(r)
      PROVE  UNCHANGED superseded \/ SupersedePrior(r)
  BY <1>2, Zenon DEF StartThread, Attach, AttachGuarded, EnterWorktree, EnterGate, StopPrior, AwaitPrior,
         SweepUnits, Prepare, Accept, ReleaseGate, Launch, RollbackAcceptedStart, VerifyLaunch,
         StopFailedLaunch, JoinFailedLaunch, AbandonLaunch, StartFinalized, ReturnStart, lifecycleVars,
         UnitExits, ReaperThread, ReaperFinalizes, ReaperLeaves, FinalizeStep, FinalizeDecides,
         FinalizeWrites, FinalizeSettles, FinalizeFinishes
<1>3. CASE StopThread \/ ReliefThread \/ RecoveryThread \/ DaemonCrash \/ DaemonRestart \/ Outside \/ UNCHANGED vars
  BY <1>3, Zenon DEF StopThread, ReliefThread, StopAsks, StopStopsUnit, RelievePicks, RelieveMarks,
         RelieveStopsUnit, RecoveryThread, RecoverStopsUnits, RecoverSkips, RecoverResets, RecoverFails,
         DaemonCrash, DaemonRestart, Outside, lifecycleVars, vars
<1>4. CASE (\E w \in Worktrees : ReconcileBegins(w)) \/ ReconcileThread
  BY <1>4, Zenon DEF ReconcileBegins, ReconcileThread, ReconcileLooks, ReconcileStops,
         ReconcileFinalized, OrphanStops, OrphanWrites, OrphanRecords, OrphanFinishes, ReconcileEnds
<1>. QED
  BY <1>1, <1>2, <1>3, <1>4, Zenon DEF LifecycleNext


\* A start that is over takes no step.
LEMMA OverIsOver == ASSUME NEW r \in Runs, start[r].pc = "over" PROVE ~StartThread(r)
BY Zenon DEF StartThread, Attach, AttachGuarded, EnterWorktree, EnterGate, SupersedePrior, StopPrior, AwaitPrior,
       SweepUnits, Prepare, Accept, ReleaseGate, Launch, RollbackAcceptedStart, VerifyLaunch,
       StopFailedLaunch, JoinFailedLaunch, AbandonLaunch, StartFinalized, ReturnStart

\* A start in supersede_prior has one way to go on.
LEMMA SupersedingSteps ==
    ASSUME NEW r \in Runs, StartThread(r)
    PROVE  /\ start[r].pc = "stopping" => StopPrior(r)
           /\ start[r].pc = "awaiting" => AwaitPrior(r)
BY Zenon DEF StartThread, Attach, AttachGuarded, EnterWorktree, EnterGate, SupersedePrior, StopPrior, AwaitPrior,
       SweepUnits, Prepare, Accept, ReleaseGate, Launch, RollbackAcceptedStart, VerifyLaunch,
       StopFailedLaunch, JoinFailedLaunch, AbandonLaunch, StartFinalized, ReturnStart

\* A replacing start goes on once the record is there, or ends without a unit.
LEMMA SuccessorStep ==
    ASSUME ~IoMayFail, LifecycleBase, TypeOK, UnitsExist, SuccessorInv, [LifecycleNext]_vars
    PROVE  SuccessorInv'
<1>0. LifecycleTypeOK /\ NoOne \notin Runs
  BY AdmissionConstants DEF LifecycleBase
<1>1. ASSUME NEW q \in Runs
      PROVE  handle'[q].step \in {"decided", "written"} => handle'[q].status # "none"
  BY <1>1, StatusStays, Zenon DEF SuccessorInv
<1>2. ASSUME NEW q \in Runs, history[q] # "none"
      PROVE  history'[q] # "none"
  BY <1>2, RecordsStay, Zenon DEF SuccessorInv
<1>3. ASSUME NEW q \in Runs, handle'[q].final # "none"
      PROVE  history'[q] # "none"
  <2>1. handle'[q].final = handle[q].final \/ FinalizeSettles(q)
    <3>1. ASSUME NEW r \in Runs, Claims(r) \/ Finalizes(r)
          PROVE  handle'[q].final = handle[q].final \/ FinalizeSettles(q)
      BY <3>1, Zenon DEF Claims, Finalizes, HandleTo
    <3>2. HandlesMarked => handle'[q].final = handle[q].final
      BY DEF HandlesMarked
    <3>3. ~HandlesLost
      BY <1>3 DEF HandlesLost
    <3>. QED
      BY <3>1, <3>2, <3>3, HandleMoves, Zenon
  <2>2. CASE FinalizeSettles(q)
    BY <2>2, RecordsStay, Zenon DEF SuccessorInv
  <2>3. CASE handle'[q].final = handle[q].final
    BY <1>2, <1>3, <2>3, Zenon DEF SuccessorInv
  <2>. QED
    BY <2>1, <2>2, <2>3
<1>. DEFINE Answered(s) ==
                \/ history'[superseded'[s]] # "none"
                \/ start'[s].pc \in {"stopping", "awaiting"} /\ start'[s].prior = superseded'[s]
                \/ start'[s].pc = "over" /\ unit'[s] = "absent"
<1>4. ASSUME NEW s \in Runs, superseded'[s] # NoOne
      PROVE  Answered(s)
  <2>1. CASE SupersedePrior(s) /\ superseded'[s] \in {NoOne, runs[WorktreeOf[s]]}
    <3>1. StartWith(s, "stopping", runs[WorktreeOf[s]])
      BY <1>0, <1>4, <2>1, Transitions, Zenon
    <3>. QED
      BY <1>4, <2>1, <3>1, Zenon DEF StartWith
  <2>2. CASE superseded'[s] = superseded[s]
    <3>0. superseded[s] \in Runs
      BY <1>0, <1>4, <2>2 DEF LifecycleTypeOK, Replaced
    <3>1. CASE history[superseded[s]] # "none"
      BY <1>2, <2>2, <3>0, <3>1, Zenon
    <3>2. ASSUME unit[s] = "absent", ~Launch(s)
          PROVE  unit'[s] = "absent"
      <4>1. ASSUME NEW r \in Runs, Launch(r)
            PROVE  unit'[s] = "absent"
        BY <1>0, <3>2, <4>1, Changing, Zenon DEF Launch, UnitTo
      <4>. QED
        BY <3>2, <4>1, UnitsOnlyEnd DEF UnitsEnd
    <3>3. CASE start[s].pc \in {"stopping", "awaiting"} /\ start[s].prior = superseded[s]
      <4>1. unit[s] = "absent" /\ ~Launch(s)
        BY <3>3, Zenon DEF UnitsExist, Unspawned, Unprepared, Launch
      <4>2. unit'[s] = "absent"
        BY <3>2, <4>1
      <4>3. CASE StartThread(s)
        <5>1. CASE StopPrior(s)
          <6>1. StartTo(s, "awaiting") \/ StartTo(s, "over")
            BY <1>0, <5>1, Transitions, Zenon
          <6>. QED
            BY <2>2, <3>3, <4>2, <6>1, Zenon DEF StartTo
        <5>2. CASE AwaitPrior(s)
          <6>1. handle[start[s].prior].final # "none" \/ StartTo(s, "over")
            BY <1>0, <5>2, Transitions, Zenon
          <6>2. CASE StartTo(s, "over")
            BY <4>2, <6>2, Zenon DEF StartTo
          <6>3. CASE handle[start[s].prior].final # "none"
            <7>1. history[superseded[s]] # "none"
              BY <3>0, <3>3, <6>3, Zenon DEF SuccessorInv
            <7>. QED
              BY <1>2, <2>2, <3>0, <7>1, Zenon
          <6>. QED
            BY <6>1, <6>2, <6>3
        <5>. QED
          BY <3>3, <4>3, <5>1, <5>2, SupersedingSteps, Zenon
      <4>4. CASE ~StartThread(s)
        <5>1. start'[s] = start[s] \/ start'[s].pc = "over"
          BY <1>0, <4>4, OthersStay, StartsStay, Zenon
        <5>. QED
          BY <2>2, <3>3, <4>2, <5>1, Zenon
      <4>. QED
        BY <4>3, <4>4, Zenon
    <3>4. CASE start[s].pc = "over" /\ unit[s] = "absent"
      <4>1. ~StartThread(s)
        BY <3>4, OverIsOver
      <4>2. start'[s] = start[s] \/ start'[s].pc = "over"
        BY <1>0, <4>1, OthersStay, StartsStay, Zenon
      <4>3. unit'[s] = "absent"
        BY <3>2, <3>4, <4>1, Zenon DEF StartThread
      <4>. QED
        BY <3>4, <4>2, <4>3, Zenon
    <3>. QED
      BY <1>4, <2>2, <3>1, <3>3, <3>4, Zenon DEF SuccessorInv
  <2>. QED
    BY <1>4, <2>1, <2>2, SupersededMoves, Zenon
<1>. QED
  BY <1>1, <1>3, <1>4, Zenon DEF SuccessorInv

\* While the history can be written, no unit starts before the run it replaces
\* has its terminal record, whatever systemd, STOP_WAIT or a crash do.
THEOREM SuccessorsWaitForRecords ==
    ASSUME ~IoMayFail
    PROVE  LifecycleSpec => []SuccessorWaitsForRecord
<1>1. LifecycleInit => SuccessorInv
  BY Begins, Zenon DEF SuccessorInv
<1>2. LifecycleBase /\ AdmissionInv /\ ExistInv /\ SuccessorInv /\ [LifecycleNext]_vars => SuccessorInv'
  BY SuccessorStep, Zenon DEF AdmissionInv, ExistInv
<1>3. ExistInv /\ SuccessorInv => SuccessorWaitsForRecord
  BY Zenon DEF ExistInv, UnitsExist, SuccessorInv, SuccessorWaitsForRecord, Unspawned, Unprepared
<1>. QED
  BY <1>1, <1>2, <1>3, BaseInvariance, AdmissionHolds, ExistInvariance, PTL DEF LifecycleSpec


-----------------------------------------------------------------------------
(* The reconciler's permit, and units on a drained host.                   *)

\* A start takes a free worktree, and drops its own permit.
LEMMA StartsLeavePermits ==
    ASSUME TypeOK, PermitIsHeld, NEW r \in Runs, RunStep(r), NEW w \in Worktrees, permit[w] = Reconciler
    PROVE  permit'[w] = Reconciler
<1>1. Reconciler \notin Runs /\ Reconciler # NoOne /\ WorktreeOf[r] \in Worktrees
  BY AdmissionConstants
<1>2. w # WorktreeOf[r] => \A x : permit' = [permit EXCEPT ![WorktreeOf[r]] = x] => permit'[w] = Reconciler
  BY DEF TypeOK
<1>3. stage[r] \in Starting => w # WorktreeOf[r]
  BY <1>1, Zenon DEF PermitIsHeld
<1>4. CASE WorktreeGuard(r) \/ ProbeGuard(r)
  BY <1>1, <1>2, <1>4, Zenon DEF WorktreeGuard, ProbeGuard
<1>5. CASE StartGuard(r)
  BY <1>2, <1>3, <1>5, Zenon DEF StartGuard, DropPermit, Starting
<1>6. CASE DropGuard(r) \/ Started(r) \/ ReleaseGlobal(r)
  BY <1>2, <1>3, <1>6, Zenon DEF DropGuard, Started, ReleaseGlobal, DropPermit, Starting
<1>7. CASE StartReturns(r) \/ Finished(r)
  BY <1>1, <1>2, <1>7, Zenon DEF StartReturns, Finished, DropPermit
<1>. QED
  BY <1>4, <1>5, <1>6, <1>7, Zenon DEF RunStep

\* Nobody but the reconciler drops its permit.
LEMMA ReconcilerStep ==
    ASSUME LifecycleBase, TypeOK, PermitIsHeld, ReconcilerHolds, [LifecycleNext]_vars
    PROVE  ReconcilerHolds'
<1>0. /\ LifecycleTypeOK
      /\ reconcile.step # "idle" => reconcile.wt \in Worktrees /\ permit[reconcile.wt] = Reconciler
  BY Zenon DEF LifecycleBase, Located, ReconcilerHolds
<1>1. ASSUME NEW r \in Runs, UNCHANGED reconcile, RunStep(r) \/ UNCHANGED permit
      PROVE  ReconcilerHolds'
  BY <1>0, <1>1, StartsLeavePermits, Zenon DEF ReconcilerHolds
<1>2. CASE UNCHANGED <<reconcile, permit>>
  BY <1>2, Zenon DEF ReconcilerHolds
<1>3. ASSUME NEW r \in Runs, StartThread(r)
      PROVE  ReconcilerHolds'
  <2>1. RunStep(r) \/ UNCHANGED permit
    BY <1>3, StartAdmits, Zenon DEF admissionVars
  <2>2. UNCHANGED reconcile
    BY <1>3, Zenon DEF StartThread, Attach, AttachGuarded, EnterWorktree, EnterGate, SupersedePrior, StopPrior, AwaitPrior,
         SweepUnits, Prepare, Accept, ReleaseGate, Launch, RollbackAcceptedStart, VerifyLaunch,
         StopFailedLaunch, JoinFailedLaunch, AbandonLaunch, StartFinalized, ReturnStart, lifecycleVars
  <2>. QED
    BY <1>1, <2>1, <2>2, Zenon
<1>4. ASSUME NEW r \in Runs, UnitExits(r) \/ ReaperThread(r) \/ FinalizeStep(r)
      PROVE  ReconcilerHolds'
  BY <1>2, <1>4, Zenon DEF UnitExits, ReaperThread, ReaperFinalizes, ReaperLeaves, FinalizeStep, FinalizeDecides,
         FinalizeWrites, FinalizeSettles, FinalizeFinishes, AdmissionFinished, Finished, admissionVars
<1>5. ASSUME NEW w \in Worktrees, ReconcileBegins(w)
      PROVE  ReconcilerHolds'
  <2>1. reconcile'.wt = w
    BY <1>0, <1>5, Reconciling, Zenon
  <2>2. permit'[w] = Reconciler
    BY <1>5, Zenon DEF ReconcileBegins, TryWorktreeGuard, TypeOK
  <2>. QED
    BY <2>1, <2>2 DEF ReconcilerHolds
<1>6. CASE ReconcileThread
  <2>1. CASE ReconcileEnds
    BY <1>0, <2>1, Reconciling, Zenon DEF ReconcilerHolds
  <2>2. CASE ~ReconcileEnds
    <3>1. UNCHANGED permit
      BY <1>6, <2>2, Zenon DEF ReconcileThread, ReconcileLooks, ReconcileStops, ReconcileFinalized, OrphanStops,
             OrphanWrites, OrphanRecords, OrphanFinishes, AdmissionFinished, Finished, admissionVars
    <3>2. reconcile'.wt = reconcile.wt /\ reconcile.step # "idle"
      <4>1. reconcile'.wt = reconcile.wt
        BY <1>0, <1>6, <2>2, Reconciling, Zenon DEF ReconcileThread, ReconcileTo, ReconcileWith
      <4>2. reconcile.step # "idle"
        BY <1>6, <2>2, Zenon DEF ReconcileThread, ReconcileLooks, ReconcileStops, ReconcileFinalized, OrphanStops,
               OrphanWrites, OrphanRecords, OrphanFinishes
      <4>. QED
        BY <4>1, <4>2
    <3>. QED
      BY <1>0, <3>1, <3>2, Zenon DEF ReconcilerHolds
  <2>. QED
    BY <2>1, <2>2
<1>7. CASE DaemonCrash
  BY <1>0, <1>7, Reconciling, Zenon DEF ReconcilerHolds
<1>8. CASE StopThread \/ ReliefThread \/ RecoveryThread \/ DaemonRestart \/ Outside \/ UNCHANGED vars
  BY <1>2, <1>8, Zenon DEF StopThread, ReliefThread, StopAsks, StopStopsUnit, RelievePicks, RelieveMarks,
         RelieveStopsUnit, RecoveryThread, RecoverStopsUnits, RecoverSkips, RecoverResets, RecoverFails,
         Reset, RecoveryFails, DaemonRestart, Restart, Outside, InstallerStep, BeginDrain, WatchActivity,
         ReadActivity, ActivityEvent, EndDrain, InstallerDies, WaiterStep, AdmissionWait,
         ReadLease, LeaseEvent, WaitDeadline, lifecycleVars, admissionVars, vars
<1>. QED
  BY <1>3, <1>4, <1>5, <1>6, <1>7, <1>8, Zenon DEF LifecycleNext

\* The permit behind the next theorems.
LEMMA ReconcilerInvariance == LifecycleSpec => []ReconcilerHolds
<1>1. LifecycleInit => ReconcilerHolds
  BY Begins DEF ReconcilerHolds
<1>2. LifecycleBase /\ AdmissionInv /\ ReconcilerHolds /\ [LifecycleNext]_vars => ReconcilerHolds'
  BY ReconcilerStep, Zenon DEF AdmissionInv
<1>. QED
  BY <1>1, <1>2, BaseInvariance, AdmissionHolds, PTL DEF LifecycleSpec


\* The daemon's own state and its counts stay.
Counting == UNCHANGED <<up, recovering, active, receipt>>

\* A run leaves the count when its start is rolled back, when it is finalized,
\* or when its orphaned summary is closed.
Uncounts(r) ==
    /\ RollbackAcceptedStart(r) \/ FinalizeFinishes(r) \/ (OrphanFinishes /\ reconcile.run = r)
    /\ Finished(r)

\* Who changes what the daemon counts.
LEMMA CountMoves ==
    ASSUME LifecycleBase, [LifecycleNext]_vars
    PROVE  \/ Counting
           \/ \E r \in Runs : Accept(r) /\ Started(r)
           \/ \E r \in Runs : Uncounts(r)
           \/ RecoverResets \/ RecoverFails \/ DaemonCrash \/ DaemonRestart
<1>1. ASSUME NEW r \in Runs, StartThread(r)
      PROVE  Counting \/ (Accept(r) /\ Started(r)) \/ Uncounts(r)
  <2>1. CASE Attach(r) \/ SupersedePrior(r) \/ Launch(r) \/ VerifyLaunch(r) \/ StopFailedLaunch(r)
             \/ JoinFailedLaunch(r) \/ AbandonLaunch(r) \/ StartFinalized(r)
    BY <2>1, Zenon DEF Attach, SupersedePrior, Launch, VerifyLaunch, StopFailedLaunch, JoinFailedLaunch,
               AbandonLaunch, StartFinalized, Counting, admissionVars
  <2>2. CASE AttachGuarded(r) \/ EnterWorktree(r) \/ EnterGate(r) \/ ReleaseGate(r) \/ ReturnStart(r)
    BY <2>2, Zenon DEF AttachGuarded, ProbeGuard, EnterWorktree, WorktreeGuard, EnterGate, StartGuard, ReleaseGate,
               ReleaseGlobal, ReturnStart, StartReturns, Counting
  <2>3. CASE StopPrior(r) \/ AwaitPrior(r) \/ SweepUnits(r) \/ Prepare(r)
    BY <2>3, Zenon DEF StopPrior, AwaitPrior, SweepUnits, Prepare, FailGuarded, DropGuard, Counting, admissionVars
  <2>4. CASE Accept(r) \/ RollbackAcceptedStart(r)
    BY <2>4, Zenon DEF Accept, RollbackAcceptedStart, Uncounts
  <2>. QED
    BY <1>1, <2>1, <2>2, <2>3, <2>4, Zenon DEF StartThread
<1>2. ASSUME NEW r \in Runs, UnitExits(r) \/ ReaperThread(r) \/ FinalizeStep(r)
      PROVE  Counting \/ Uncounts(r)
  <2>1. CASE FinalizeFinishes(r)
    BY <2>1, Zenon DEF FinalizeFinishes, AdmissionFinished, Uncounts, Counting, admissionVars
  <2>. QED
    BY <1>2, <2>1, Zenon DEF UnitExits, ReaperThread, ReaperFinalizes, ReaperLeaves, FinalizeStep,
           FinalizeDecides, FinalizeWrites, FinalizeSettles, Counting, admissionVars
<1>3. CASE StopThread \/ ReliefThread \/ UNCHANGED vars
  BY <1>3, Zenon DEF StopThread, ReliefThread, StopAsks, StopStopsUnit, RelievePicks, RelieveMarks,
         RelieveStopsUnit, Counting, admissionVars, vars
<1>4. CASE (\E w \in Worktrees : ReconcileBegins(w)) \/ ReconcileThread
  <2>1. CASE OrphanFinishes
    <3>1. reconcile.run \in Runs
      BY <2>1 DEF OrphanFinishes, LifecycleBase, Located, OnRun
    <3>2. Counting \/ Finished(reconcile.run)
      BY <2>1, Zenon DEF OrphanFinishes, AdmissionFinished, Counting, admissionVars
    <3>3. PICK h \in Runs : h = reconcile.run
      BY <3>1
    <3>4. Finished(reconcile.run) => Finished(h)
      BY <3>3
    <3>. QED
      BY <2>1, <3>2, <3>3, <3>4, Zenon DEF Uncounts
  <2>. QED
    BY <1>4, <2>1, Zenon DEF ReconcileBegins, TryWorktreeGuard, ReconcileThread, ReconcileLooks,
           ReconcileStops, ReconcileFinalized, OrphanStops, OrphanWrites, OrphanRecords,
           ReconcileEnds, DropWorktreeGuard, Counting, admissionVars
<1>5. CASE RecoveryThread
  BY <1>5, Zenon DEF RecoveryThread, RecoverStopsUnits, RecoverSkips, Counting, admissionVars
<1>6. CASE Outside
  BY <1>6, Zenon DEF Outside, InstallerStep, BeginDrain, WatchActivity,
         ReadActivity, ActivityEvent, EndDrain, InstallerDies, WaiterStep, AdmissionWait,
         ReadLease, LeaseEvent, WaitDeadline, Counting
<1>. QED
  BY <1>1, <1>2, <1>3, <1>4, <1>5, <1>6, Zenon DEF LifecycleNext

\* Recovery waits for the daemon and stops every unit before it reconciles.
LEMMA RecoveryMoves ==
    ASSUME ~SystemdMayFail, LifecycleBase, [LifecycleNext]_vars
    PROVE  \/ recovery'.step = recovery.step
           \/ recovery'.step = "stop"
           \/ Counting /\ \A r \in Runs : unit'[r] # "running"
<1>0. LifecycleTypeOK
  BY DEF LifecycleBase
<1>1. ASSUME NEW r \in Runs, StartThread(r) \/ UnitExits(r) \/ ReaperThread(r) \/ FinalizeStep(r)
      PROVE  UNCHANGED recovery
  BY <1>1, Zenon DEF StartThread, Attach, AttachGuarded, EnterWorktree, EnterGate, SupersedePrior, StopPrior, AwaitPrior,
         SweepUnits, Prepare, Accept, ReleaseGate, Launch, RollbackAcceptedStart, VerifyLaunch,
         StopFailedLaunch, JoinFailedLaunch, AbandonLaunch, StartFinalized, ReturnStart, lifecycleVars,
         UnitExits, ReaperThread, ReaperFinalizes, ReaperLeaves, FinalizeStep, FinalizeDecides,
         FinalizeWrites, FinalizeSettles, FinalizeFinishes
<1>2. CASE ReconcileEnds
  BY <1>0, <1>2 DEF ReconcileEnds, LifecycleTypeOK, Recoveries
<1>3. CASE \E w \in Worktrees : RecoverSkips(w)
  BY <1>0, <1>3 DEF RecoverSkips, LifecycleTypeOK, Recoveries
<1>4. CASE RecoverStopsUnits
  <2>1. StopUnits(Runs, TRUE)
    BY <1>4, Zenon DEF RecoverStopsUnits, Faults
  <2>2. \A r \in Runs : unit'[r] # "running"
    BY <1>0, <2>1, Stopping, Zenon
  <2>. QED
    BY <1>4, <2>2, Zenon DEF RecoverStopsUnits, Counting, admissionVars
<1>5. CASE DaemonCrash
  BY <1>5, Zenon DEF DaemonCrash
<1>6. ASSUME \/ StopThread \/ ReliefThread \/ RecoverResets \/ RecoverFails \/ DaemonRestart \/ Outside
             \/ UNCHANGED vars
      PROVE  UNCHANGED recovery
  BY <1>6, Zenon DEF StopThread, ReliefThread, StopAsks, StopStopsUnit, RelievePicks, RelieveMarks,
         RelieveStopsUnit, RecoverResets, RecoverFails, DaemonRestart, Outside, lifecycleVars, vars
<1>7. ASSUME (\E w \in Worktrees : ReconcileBegins(w)) \/ ReconcileThread, ~ReconcileEnds
      PROVE  UNCHANGED recovery
  BY <1>7, Zenon DEF ReconcileBegins, ReconcileThread, ReconcileLooks, ReconcileStops,
         ReconcileFinalized, OrphanStops, OrphanWrites, OrphanRecords, OrphanFinishes
<1>8. UNCHANGED recovery => recovery'.step = recovery.step
  OBVIOUS
<1>. QED
  BY <1>1, <1>2, <1>3, <1>4, <1>5, <1>6, <1>7, <1>8, Zenon DEF LifecycleNext, RecoveryThread


\* No run leaves the count, and no unit the receipt, while the unit runs.
LEMMA DrainStep ==
    ASSUME ~DeferredRecovery, ~RecoveryMayFail, ~SystemdMayFail, LifecycleBase, AdmissionInv, ExistInv,
           ReconcilerHolds, DrainInv, [LifecycleNext]_vars
    PROVE  DrainInv'
<1>0. /\ LifecycleTypeOK /\ TypeOK /\ Reconciler \notin Runs
      /\ \A r \in Runs : stage[r] \in Starting \cup InProgress => up /\ ~recovering
      /\ \A r \in Runs : stage[r] = "launching" => r \in active /\ permit[WorktreeOf[r]] = r
      /\ active \subseteq receipt
  BY AdmissionConstants, Zenon DEF LifecycleBase, AdmissionInv, NothingBeforeRecovery, InProgressIsActive, InProgress,
       PermitIsHeld, Starting, AcceptedIsReceipted
<1>. DEFINE Live == \A r \in Runs : unit[r] = "running" => r \in active
            Left == /\ active = {}
                    /\ \A r \in Runs : unit[r] = "running" => r \in receipt /\ recovery.step = "stop"
<1>1. (up /\ ~recovering => Live) /\ (~up \/ recovering => Left)
  BY Zenon DEF DrainInv
<1>2. ASSUME NEW q \in Runs, unit'[q] = "running"
      PROVE  unit[q] = "running" \/ Launch(q)
  <2>1. ASSUME NEW r \in Runs, Launch(r)
        PROVE  unit[q] = "running" \/ Launch(q)
    <3>1. UNCHANGED unit \/ UnitTo(r, "running")
      BY <1>0, <2>1, Changing, Zenon DEF Launch
    <3>. QED
      BY <1>2, <2>1, <3>1, Zenon DEF UnitTo
  <2>. QED
    BY <1>2, <2>1, UnitsOnlyEnd, Zenon DEF UnitsEnd
<1>3. ASSUME NEW r \in Runs, Launch(r)
      PROVE  up /\ ~recovering /\ r \in active /\ permit[WorktreeOf[r]] = r
  BY <1>0, <1>3, Zenon DEF Launch, Starting
<1>. DEFINE Drained == /\ up' /\ ~recovering' => Live'
                       /\ ~up' \/ recovering' => Left'
<1>4. ASSUME Counting
      PROVE  Drained
  <2>1. CASE up /\ ~recovering
    <3>1. /\ up' /\ ~recovering' /\ active' = active
          /\ \A q \in Runs : unit[q] = "running" => q \in active
      BY <1>1, <1>4, <2>1, Zenon DEF Counting
    <3>2. \A q \in Runs : unit'[q] = "running" => q \in active
      BY <1>2, <1>3, <3>1, Zenon
    <3>. QED
      BY <3>1, <3>2, Zenon
  <2>2. CASE ~up \/ recovering
    <3>1. \A q \in Runs : unit'[q] = "running" => unit[q] = "running"
      BY <1>2, <1>3, <2>2, Zenon
    <3>. QED
      BY <1>1, <1>4, <2>2, <3>1, RecoveryMoves, Zenon DEF Counting
  <2>. QED
    BY <2>1, <2>2
<1>5. ASSUME NEW r \in Runs, Accept(r), Started(r)
      PROVE  Drained
  <2>1. stage[r] = "guarded" /\ UNCHANGED <<up, recovering>> /\ active \subseteq active'
    BY <1>5, Zenon DEF Started
  <2>2. up /\ ~recovering
    BY <1>0, <2>1 DEF Starting
  <2>3. UNCHANGED unit
    BY <1>5, Zenon DEF Accept
  <2>. QED
    BY <1>1, <2>1, <2>2, <2>3, Zenon
<1>6. ASSUME NEW r \in Runs, Uncounts(r)
      PROVE  Drained
  <2>1. stage[r] \in InProgress /\ UNCHANGED <<up, recovering>> /\ active' = active \ {r}
    BY <1>6, Zenon DEF Uncounts, Finished, InProgress
  <2>2. up /\ ~recovering
    BY <1>0, <2>1, Zenon
  <2>3. UNCHANGED unit
    BY <1>6, Zenon DEF Uncounts, RollbackAcceptedStart, FinalizeFinishes, OrphanFinishes
  <2>4. unit[r] # "running"
    <3>1. CASE RollbackAcceptedStart(r)
      BY <3>1, Zenon DEF RollbackAcceptedStart, ExistInv, UnitsExist
    <3>2. CASE FinalizeFinishes(r)
      BY <3>2 DEF FinalizeFinishes, ExistInv, FinalizedUnitIsGone, UnitOver
    <3>3. CASE OrphanFinishes /\ reconcile.run = r
      BY <3>3 DEF OrphanFinishes, DrainInv
    <3>. QED
      BY <1>6, <3>1, <3>2, <3>3 DEF Uncounts
  <2>. QED
    BY <1>1, <2>1, <2>2, <2>3, <2>4, Zenon
<1>7. ASSUME RecoverResets
      PROVE  Drained
  <2>1. recovering /\ recovery.step # "stop" /\ up' /\ ~recovering'
    BY <1>7, Zenon DEF RecoverResets, Reset
  <2>2. UNCHANGED unit
    BY <1>7, Zenon DEF RecoverResets, lifecycleVars
  <2>. QED
    BY <1>1, <2>1, <2>2, Zenon
<1>8. ASSUME RecoverFails
      PROVE  Drained
  BY <1>8, Zenon DEF RecoverFails, RecoveryFails
<1>9. ASSUME DaemonCrash
      PROVE  Drained
  <2>1. ~up' /\ active' = {} /\ UNCHANGED <<receipt, unit>> /\ recovery'.step = "stop"
    BY <1>9, Zenon DEF DaemonCrash, Crash
  <2>2. \A r \in Runs : unit[r] = "running" => r \in receipt
    BY <1>0, <1>1
  <2>. QED
    BY <2>1, <2>2
<1>10. ASSUME DaemonRestart
       PROVE  Drained
  <2>1. ~up /\ recovering' /\ UNCHANGED <<active, receipt, unit, recovery>>
    BY <1>10 DEF DaemonRestart, Restart, lifecycleVars
  <2>. QED
    BY <1>1, <2>1
<1>11. Drained
  BY <1>4, <1>5, <1>6, <1>7, <1>8, <1>9, <1>10, CountMoves, Zenon
<1>12. ASSUME reconcile'.step \in {"orphanWrite", "orphanRecord", "orphanFinish"}
       PROVE  unit'[reconcile'.run] # "running"
  <2>1. ASSUME reconcile'.run = reconcile.run, reconcile.step \in {"orphanWrite", "orphanRecord", "orphanFinish"}
        PROVE  unit'[reconcile'.run] # "running"
    <3>1. /\ reconcile.run \in Runs /\ unit[reconcile.run] # "running"
          /\ permit[WorktreeOf[reconcile.run]] = Reconciler
      BY <2>1, Zenon DEF LifecycleBase, Located, OnRun, DrainInv, ReconcilerHolds
    <3>2. PICK h \in Runs : h = reconcile.run
      BY <3>1
    <3>3. ~Launch(h)
      BY <1>0, <1>3, <3>1, <3>2, Zenon
    <3>. QED
      BY <1>2, <2>1, <3>1, <3>2, <3>3, Zenon
  <2>2. CASE OrphanStops
    <3>1. reconcile.run \in Runs /\ StopUnits({reconcile.run}, TRUE)
      BY <2>2, Zenon DEF OrphanStops, Faults, LifecycleBase, Located, OnRun
    <3>2. PICK h \in Runs : h = reconcile.run
      BY <3>1
    <3>3. {h} \in SUBSET Runs /\ h \in {h} /\ StopUnits({h}, TRUE)
      BY <3>1, <3>2, Zenon
    <3>4. unit'[h] # "running"
      BY <1>0, <3>3, Stopping, Zenon
    <3>5. reconcile'.run = reconcile.run
      BY <1>0, <2>2, Reconciling, Zenon DEF ReconcileTo
    <3>. QED
      BY <3>2, <3>4, <3>5
  <2>3. CASE UNCHANGED reconcile
    BY <1>12, <2>1, <2>3
  <2>4. CASE OrphanWrites \/ OrphanRecords
    <3>1. reconcile'.run = reconcile.run
      BY <1>0, <2>4, Reconciling, Zenon DEF ReconcileTo
    <3>. QED
      BY <2>1, <2>4, <3>1 DEF OrphanWrites, OrphanRecords
  <2>5. ASSUME \/ \E w \in Worktrees : ReconcileBegins(w)
               \/ ReconcileLooks \/ ReconcileStops \/ ReconcileFinalized \/ OrphanFinishes \/ ReconcileEnds
        PROVE  reconcile'.step \in {"look", "end", "error", "stop", "orphanStop", "finalize", "idle"}
    <3>1. \/ reconcile'.step = "look" \/ reconcile'.step = "end" \/ reconcile'.step = "error"
          \/ reconcile'.step = "stop" \/ reconcile'.step = "orphanStop" \/ reconcile'.step = "finalize"
          \/ reconcile'.step = "idle"
      BY <1>0, <2>5, Reconciling, Zenon DEF ReconcileTo, ReconcileWith
    <3>. QED
      BY <3>1
  <2>6. ~(reconcile'.step \in {"look", "end", "error", "stop", "orphanStop", "finalize", "idle"})
    BY <1>12
  <2>. QED
    BY <2>2, <2>3, <2>4, <2>5, <2>6, ReconcilerMoves, Zenon DEF ReconcileThread
<1>. QED
  BY <1>11, <1>12, Zenon DEF DrainInv

\* REQ-TEST-15, for recoveries that run before requests, do not fail, and stop
\* what they are told to stop: on a drained host no test unit is running, even
\* one that a crashed daemon left behind.
THEOREM DrainedHostsHaveNoUnits ==
    ASSUME ~DeferredRecovery, ~RecoveryMayFail, ~SystemdMayFail
    PROVE  LifecycleSpec => []DrainedHostHasNoUnits
<1>1. LifecycleInit => DrainInv
  <2>1. LifecycleInit => up = TRUE /\ recovering = TRUE /\ active = {}
    BY Zenon DEF LifecycleInit, Init
  <2>. QED
    BY <2>1, Begins DEF DrainInv
<1>2. /\ LifecycleBase /\ AdmissionInv /\ ExistInv /\ ReconcilerHolds /\ DrainInv /\ [LifecycleNext]_vars
      => DrainInv'
  BY DrainStep, Zenon
<1>3. AdmissionInv /\ DrainIsQuiet /\ DrainInv => DrainedHostHasNoUnits
  BY Zenon DEF AdmissionInv, AcceptedIsReceipted, DrainIsQuiet, DrainInv, DrainedHostHasNoUnits, TypeOK
<1>4. LifecycleSpec => []DrainIsQuiet
  BY DrainsAreQuiet, LifecycleImplementsAdmission, PTL DEF ImplementsAdmission
<1>. QED
  BY <1>1, <1>2, <1>3, <1>4, BaseInvariance, AdmissionHolds, ExistInvariance, ReconcilerInvariance, PTL
     DEF LifecycleSpec
=============================================================================
