--------------------------- MODULE TestLifecycle ---------------------------
(***************************************************************************)
(* The life of a governed test run: rust/control/src/test_lifecycle.rs     *)
(* with the run directory of test_state.rs.                                *)
(*                                                                         *)
(* It extends TestAdmission: a step here is a step of the admission        *)
(* authority, or leaves it alone, together with what the lifecycle does.   *)
(* Threads: one per start request, one reaper per launched run, one        *)
(* reconciler, a stop request and the memory-emergency worker.  systemd    *)
(* units outlive the daemon, and so do the summary in each worktree, the   *)
(* history and the events already published.                               *)
(*                                                                         *)
(* A request refused before it reaches the guard (root caller, unknown     *)
(* check, missing executor...) changes nothing and is not a step.  Left    *)
(* out: reports, logs, evidence, containers and databases, except that     *)
(* a failed cleanup turns a passed run into a failed one.                  *)
(***************************************************************************)
EXTENDS TestAdmission, Naturals

CONSTANTS
    Mode,            \* StartMode of each start request
    TestOf,          \* the configured test each request names
    SystemdMayFail,  \* whether systemd may fail to answer or to stop a unit
    TimeoutsHappen,  \* whether STOP_WAIT may elapse
    Results,         \* how a unit may end by itself
    Disturbances     \* what may interfere with starts and their runs

ASSUME LifecycleConstants ==
    /\ Mode \in [Runs -> {"attach", "replace"}]
    /\ DOMAIN TestOf = Runs
    /\ SystemdMayFail \in BOOLEAN
    /\ TimeoutsHappen \in BOOLEAN
    /\ Results \subseteq {"passed", "failed", "timed_out"}
    /\ Disturbances \subseteq {"stop", "memory", "reconcile", "crash"}

VARIABLES
    start,       \* each start request: where it is, and the run it replaces
    superseded,  \* superseded_run_id of each start request
    runs,        \* Inner.runs: the registered handle of each worktree
    handle,      \* RunHandle and RunState of each run
    reaper,      \* the supervisor thread of each run
    unit,        \* the systemd unit of each run
    current,     \* the summary in each worktree's current directory
    history,     \* the terminal status recorded for each run
    finishedEvents, \* test.finished events published for each run
    reconcile,   \* the reconciler: its step, worktree and run
    recovery,    \* test recovery after a daemon start
    stopper,     \* a test.stop request: its step and run
    relief       \* the memory-emergency worker: its step and run

lifecycleVars == <<start, superseded, runs, handle, reaper, unit, current, history,
                   finishedEvents, reconcile, recovery, stopper, relief>>
vars == <<admissionVars, lifecycleVars>>

Terminal == {"passed", "failed", "timed_out", "superseded", "cancelled", "memory_pressure", "interrupted"}

NewHandle == [stop |-> "none", final |-> "none", step |-> "new", by |-> "none",
              status |-> "none"]
NoSummary == [run |-> NoOne, status |-> "none"]
IdleReconciler == [step |-> "idle", wt |-> NoOne, run |-> NoOne]
IdleWorker == [step |-> "idle", run |-> NoOne]

LifecycleInit ==
    /\ Init
    /\ start = [r \in Runs |-> [pc |-> "idle", prior |-> NoOne]]
    /\ superseded = [r \in Runs |-> NoOne]
    /\ runs = [w \in Worktrees |-> NoOne]
    /\ handle = [r \in Runs |-> NewHandle]
    /\ reaper = [r \in Runs |-> "none"]
    /\ unit = [r \in Runs |-> "absent"]
    /\ current = [w \in Worktrees |-> NoSummary]
    /\ history = [r \in Runs |-> "none"]
    /\ finishedEvents = [r \in Runs |-> 0]
    /\ reconcile = IdleReconciler
    /\ recovery = [step |-> "stop", left |-> {}, failed |-> FALSE]
    /\ stopper = IdleWorker
    /\ relief = IdleWorker

-----------------------------------------------------------------------------
UnitOver(r) == unit[r] \notin {"absent", "running"}
Faults(mayFail) == IF mayFail THEN BOOLEAN ELSE {TRUE}

\* stop_unit of every unit in a set.  It may fail before the processes are
\* gone, or after (reset_failed): a failure leaves any part of them stopped.
StopUnits(rs, ok) ==
    \E gone \in IF ok THEN {rs} ELSE SUBSET rs :
        unit' = [r \in Runs |-> IF r \in gone /\ unit[r] = "running" THEN "stopped" ELSE unit[r]]

SetPc(r, pc) == start' = [start EXCEPT ![r].pc = pc]
SetStop(h, why) == handle' = [handle EXCEPT ![h].stop = why]

\* Mutant: an error path that forgets the global locks.
FailGuardedHoldsGate(r) ==
    /\ up
    /\ DropPermit(r)
    /\ SetStage(r, "failed")
    /\ SetPc(r, "over")
    /\ UNCHANGED <<up, recovering, active, published, receipt, lease, gate, installer, waiter, wake>>

\* The guard drops with an error: the start is over.
FailGuarded(r) == DropGuard(r) /\ SetPc(r, "over")

\* finalize's compare_exchange on `finalizing`: one thread wins.
Claim(r, who) == handle' = [handle EXCEPT ![r].step = "claimed", ![r].by = who]

\* admission.finished, which is a no-op for a run no longer counted.
AdmissionFinished(r) ==
    IF stage[r] \in {"launching", "running"}
    THEN Finished(r)
    ELSE up /\ gate = NoOne /\ UNCHANGED admissionVars

PublishFinished(r) ==
    finishedEvents' = [finishedEvents EXCEPT ![r] = IF @ < 2 THEN @ + 1 ELSE @]

-----------------------------------------------------------------------------
(* test.start: start_inner.                                                *)

\* active_started: the registered handle answers, whatever its state.
ActiveStarted(r) ==
    LET h == runs[WorktreeOf[r]]
    IN  h # NoOne /\ SetPc(r, IF TestOf[h] = TestOf[r] THEN "attached" ELSE "busy")

Attach(r) ==
    /\ Serving
    /\ Mode[r] = "attach"
    /\ stage[r] = "new"
    /\ start[r].pc = "idle"
    /\ \/ ActiveStarted(r)
       \/ runs[WorktreeOf[r]] = NoOne /\ SetPc(r, "probe")
    /\ UNCHANGED <<admissionVars, superseded, runs, handle, reaper, unit, current, history,
                   finishedEvents, reconcile, recovery, stopper, relief>>

\* The same look under the guard, which is dropped before the start goes on.
AttachGuarded(r) ==
    /\ start[r].pc = "probe"
    /\ ProbeGuard(r)
    /\ \/ stage'[r] = "new" /\ ActiveStarted(r)
       \/ stage'[r] = "new" /\ runs[WorktreeOf[r]] = NoOne /\ SetPc(r, "ready")
       \/ stage'[r] # "new" /\ SetPc(r, "over")
    /\ UNCHANGED <<superseded, runs, handle, reaper, unit, current, history,
                   finishedEvents, reconcile, recovery, stopper, relief>>

EnterWorktree(r) ==
    /\ start[r].pc = IF Mode[r] = "attach" THEN "ready" ELSE "idle"
    /\ WorktreeGuard(r)
    /\ SetPc(r, "ready")
    /\ UNCHANGED <<superseded, runs, handle, reaper, unit, current, history,
                   finishedEvents, reconcile, recovery, stopper, relief>>

EnterGate(r) ==
    /\ start[r].pc = "ready"
    /\ StartGuard(r)
    /\ SetPc(r, IF stage'[r] = "guarded" THEN "supersede" ELSE "over")
    /\ UNCHANGED <<superseded, runs, handle, reaper, unit, current, history,
                   finishedEvents, reconcile, recovery, stopper, relief>>

\* supersede_prior, first part: the handle leaves the registry before anything
\* can fail; its stop reason is replaced unless it has a final status.
SupersedePrior(r) ==
    LET w == WorktreeOf[r]
        h == runs[w]
        alive == h # NoOne /\ handle[h].final = "none"
    IN  /\ up
        /\ start[r].pc = "supersede"
        /\ runs' = [runs EXCEPT ![w] = NoOne]
        /\ start' = [start EXCEPT ![r] = [pc |-> IF h = NoOne THEN "sweep" ELSE "stopping",
                                          prior |-> h]]
        /\ superseded' = [superseded EXCEPT ![r] = IF alive THEN h ELSE NoOne]
        /\ IF alive THEN SetStop(h, "superseded") ELSE UNCHANGED handle
        /\ UNCHANGED <<admissionVars, reaper, unit, current, history, finishedEvents,
                       reconcile, recovery, stopper, relief>>

StopPrior(r) ==
    /\ up
    /\ start[r].pc = "stopping"
    /\ \E ok \in Faults(SystemdMayFail) :
          /\ StopUnits({start[r].prior}, ok)
          /\ IF ok THEN SetPc(r, "awaiting") /\ UNCHANGED admissionVars ELSE FailGuarded(r)
    /\ UNCHANGED <<superseded, runs, handle, reaper, current, history, finishedEvents,
                   reconcile, recovery, stopper, relief>>

\* Mutant: the start goes on as soon as the prior unit is stopped.
AwaitPriorNot(r) ==
    /\ up
    /\ start[r].pc = "awaiting"
    /\ start' = [start EXCEPT ![r] = [pc |-> "sweep", prior |-> NoOne]]
    /\ UNCHANGED <<admissionVars, superseded, runs, handle, reaper, unit, current, history,
                   finishedEvents, reconcile, recovery, stopper, relief>>

\* The wait for the prior run's final status, with the global locks held.
AwaitPrior(r) ==
    /\ up
    /\ start[r].pc = "awaiting"
    /\ \/ /\ handle[start[r].prior].final # "none"
          /\ start' = [start EXCEPT ![r] = [pc |-> "sweep", prior |-> NoOne]]
          /\ UNCHANGED admissionVars
       \/ /\ handle[start[r].prior].final = "none"
          /\ TimeoutsHappen
          /\ FailGuarded(r)
    /\ UNCHANGED <<superseded, runs, handle, reaper, unit, current, history, finishedEvents,
                   reconcile, recovery, stopper, relief>>

\* Mutant: only the registered prior run is stopped.
SweepNothing(r) ==
    /\ up
    /\ start[r].pc = "sweep"
    /\ SetPc(r, "prepare")
    /\ UNCHANGED <<admissionVars, superseded, runs, handle, reaper, unit, current, history,
                   finishedEvents, reconcile, recovery, stopper, relief>>

\* supersede_prior, last part: every unit of the worktree is stopped.
SweepUnits(r) ==
    /\ up
    /\ start[r].pc = "sweep"
    /\ \E ok \in Faults(SystemdMayFail) :
          /\ StopUnits({q \in Runs : WorktreeOf[q] = WorktreeOf[r]}, ok)
          /\ IF ok THEN SetPc(r, "prepare") /\ UNCHANGED admissionVars ELSE FailGuarded(r)
    /\ UNCHANGED <<superseded, runs, handle, reaper, current, history, finishedEvents,
                   reconcile, recovery, stopper, relief>>

\* prepare replaces the current directory; then the first summary is written.
Prepare(r) ==
    LET w == WorktreeOf[r]
    IN  /\ up
        /\ start[r].pc = "prepare"
        /\ \/ /\ current' = [current EXCEPT ![w] = [run |-> r, status |-> "running"]]
              /\ SetPc(r, "accept")
              /\ UNCHANGED admissionVars
           \/ /\ IoMayFail
              /\ current' \in {current, [current EXCEPT ![w] = NoSummary]}
              /\ FailGuarded(r)
        /\ UNCHANGED <<superseded, runs, handle, reaper, unit, history, finishedEvents,
                       reconcile, recovery, stopper, relief>>

\* admission.started; without it cleanup_unstarted removes the directory.
Accept(r) ==
    /\ start[r].pc = "accept"
    /\ Started(r)
    /\ IF stage'[r] = "accepted"
       THEN SetPc(r, "launch") /\ UNCHANGED current
       ELSE SetPc(r, "over") /\ current' = [current EXCEPT ![WorktreeOf[r]] = NoSummary]
    /\ UNCHANGED <<superseded, runs, handle, reaper, unit, history, finishedEvents,
                   reconcile, recovery, stopper, relief>>

ReleaseGate(r) ==
    /\ start[r].pc = "launch"
    /\ ReleaseGlobal(r)
    /\ UNCHANGED lifecycleVars

\* From register_run to spawn_transient: any failure rolls the start back.
Launch(r) ==
    /\ up
    /\ start[r].pc = "launch"
    /\ stage[r] = "launching"
    /\ \/ SetPc(r, "spawned") /\ unit' = [unit EXCEPT ![r] = "running"]
       \/ SetPc(r, "rollback") /\ UNCHANGED unit
    /\ UNCHANGED <<admissionVars, superseded, runs, handle, reaper, current, history,
                   finishedEvents, reconcile, recovery, stopper, relief>>

\* rollback_accepted_start.
RollbackAcceptedStart(r) ==
    /\ start[r].pc = "rollback"
    /\ Finished(r)
    /\ SetPc(r, "returning")
    /\ current' = [current EXCEPT ![WorktreeOf[r]] = NoSummary]
    /\ UNCHANGED <<superseded, runs, handle, reaper, unit, history, finishedEvents,
                   reconcile, recovery, stopper, relief>>

\* Mutant: an unconfirmed launch is rolled back as if it had not been spawned.
VerifyLaunchRollsBack(r) ==
    /\ up
    /\ start[r].pc = "spawned"
    /\ SetPc(r, "rollback")
    /\ UNCHANGED <<admissionVars, superseded, runs, handle, reaper, unit, current, history,
                   finishedEvents, reconcile, recovery, stopper, relief>>

\* verify_launch: the handle is registered and gets its reaper, or it gets
\* none because the thread cannot be spawned, or the launch is not confirmed.
VerifyLaunch(r) ==
    /\ up
    /\ start[r].pc = "spawned"
    /\ \/ /\ runs' = [runs EXCEPT ![WorktreeOf[r]] = r]
          /\ \/ reaper' = [reaper EXCEPT ![r] = "waiting"] /\ SetPc(r, "returning")
             \/ IoMayFail /\ SetPc(r, "abandoning") /\ UNCHANGED reaper
       \/ SetPc(r, "failing") /\ UNCHANGED <<runs, reaper>>
    /\ UNCHANGED <<admissionVars, superseded, handle, unit, current, history, finishedEvents,
                   reconcile, recovery, stopper, relief>>

\* An unconfirmed launch: a stop whose failure is ignored, then process.wait.
StopFailedLaunch(r) ==
    /\ up
    /\ start[r].pc = "failing"
    /\ \E ok \in Faults(SystemdMayFail) : StopUnits({r}, ok)
    /\ SetPc(r, "joining")
    /\ UNCHANGED <<admissionVars, superseded, runs, handle, reaper, current, history,
                   finishedEvents, reconcile, recovery, stopper, relief>>

\* Mutant: finalize does not wait for the process.
JoinFailedLaunchNot(r) ==
    /\ up
    /\ start[r].pc = "joining"
    /\ Claim(r, "launcher")
    /\ SetPc(r, "finalizing")
    /\ UNCHANGED <<admissionVars, superseded, runs, reaper, unit, current, history,
                   finishedEvents, reconcile, recovery, stopper, relief>>

JoinFailedLaunch(r) ==
    /\ up
    /\ start[r].pc = "joining"
    /\ UnitOver(r)
    /\ Claim(r, "launcher")
    /\ SetPc(r, "finalizing")
    /\ UNCHANGED <<admissionVars, superseded, runs, reaper, unit, current, history,
                   finishedEvents, reconcile, recovery, stopper, relief>>

\* A run without a reaper is stopped and finalized by its start, or left
\* registered for the reconciler when it cannot be stopped.
AbandonLaunch(r) ==
    /\ up
    /\ start[r].pc = "abandoning"
    /\ \E ok \in Faults(SystemdMayFail) :
          /\ StopUnits({r}, ok)
          /\ IF ok THEN Claim(r, "starter") /\ SetPc(r, "finalizing")
                   ELSE SetPc(r, "returning") /\ UNCHANGED handle
    /\ UNCHANGED <<admissionVars, superseded, runs, reaper, current, history,
                   finishedEvents, reconcile, recovery, stopper, relief>>

StartFinalized(r) ==
    /\ up
    /\ start[r].pc = "finalizing"
    /\ handle[r].step = "done"
    /\ SetPc(r, "returning")
    /\ UNCHANGED <<admissionVars, superseded, runs, handle, reaper, unit, current, history,
                   finishedEvents, reconcile, recovery, stopper, relief>>

ReturnStart(r) ==
    /\ start[r].pc = "returning"
    /\ StartReturns(r)
    /\ SetPc(r, "over")
    /\ UNCHANGED <<superseded, runs, handle, reaper, unit, current, history,
                   finishedEvents, reconcile, recovery, stopper, relief>>

-----------------------------------------------------------------------------
(* The unit, its reaper and finalize.                                      *)

\* The executor ends by itself, or systemd ends it at RuntimeMaxSec.
UnitExits(r) ==
    /\ unit[r] = "running"
    /\ \E result \in Results : unit' = [unit EXCEPT ![r] = result]
    /\ UNCHANGED <<admissionVars, start, superseded, runs, handle, reaper, current, history,
                   finishedEvents, reconcile, recovery, stopper, relief>>

\* spawn_reaper's thread: the process has exited and finalize is called.
ReaperFinalizes(r) ==
    /\ up
    /\ reaper[r] = "waiting"
    /\ UnitOver(r)
    /\ IF handle[r].step = "new"
       THEN Claim(r, "reaper") /\ reaper' = [reaper EXCEPT ![r] = "finalizing"]
       ELSE reaper' = [reaper EXCEPT ![r] = "leaving"] /\ UNCHANGED handle
    /\ UNCHANGED <<admissionVars, start, superseded, runs, unit, current, history,
                   finishedEvents, reconcile, recovery, stopper, relief>>

\* Mutant: the handle leaves the registry while the run is being finalized.
ReaperLeavesEarly(r) ==
    /\ up
    /\ reaper[r] \in {"leaving", "finalizing"}
    /\ reaper' = [reaper EXCEPT ![r] = "gone"]
    /\ runs' = [runs EXCEPT ![WorktreeOf[r]] = IF @ = r THEN NoOne ELSE @]
    /\ UNCHANGED <<admissionVars, start, superseded, handle, unit, current, history,
                   finishedEvents, reconcile, recovery, stopper, relief>>

\* The reaper unregisters the handle if it is still the registered one.
ReaperLeaves(r) ==
    /\ up
    /\ \/ reaper[r] = "leaving"
       \/ reaper[r] = "finalizing" /\ handle[r].step = "done"
    /\ reaper' = [reaper EXCEPT ![r] = "gone"]
    /\ runs' = [runs EXCEPT ![WorktreeOf[r]] = IF @ = r THEN NoOne ELSE @]
    /\ UNCHANGED <<admissionVars, start, superseded, handle, unit, current, history,
                   finishedEvents, reconcile, recovery, stopper, relief>>

\* The stop reason wins over the result of the unit.  Only a finalizer that
\* saw the exit status can call a run passed, and a failed cleanup prevents it.
TerminalStatuses(r) ==
    LET h == handle[r]
    IN  IF h.stop # "none" THEN {h.stop}
        ELSE IF unit[r] = "timed_out" THEN {"timed_out"}
        ELSE IF unit[r] = "passed" /\ h.by \in {"reaper", "launcher"} THEN {"passed", "failed"}
        ELSE {"failed"}

FinalizeDecides(r) ==
    /\ up
    /\ handle[r].step = "claimed"
    /\ \E status \in TerminalStatuses(r) :
          handle' = [handle EXCEPT ![r].step = "decided", ![r].status = status,
                                   ![r].stop = "none", ![r].by = "none"]
    /\ UNCHANGED <<admissionVars, start, superseded, runs, reaper, unit, current, history,
                   finishedEvents, reconcile, recovery, stopper, relief>>

\* write_summary goes to the directory the handle opened, which a later
\* prepare has removed.
WriteSummary(r, status) ==
    current' = [current EXCEPT ![WorktreeOf[r]] =
                   IF @.run = r THEN [run |-> r, status |-> status] ELSE @]

FinalizeWrites(r) ==
    /\ up
    /\ handle[r].step = "decided"
    /\ WriteSummary(r, handle[r].status) \/ (IoMayFail /\ UNCHANGED current)
    /\ handle' = [handle EXCEPT ![r].step = "written"]
    /\ UNCHANGED <<admissionVars, start, superseded, runs, reaper, unit, history,
                   finishedEvents, reconcile, recovery, stopper, relief>>

\* Mutant: admission is told first, which needs a lock a replacing start holds.
FinalizeSettlesLast(r) ==
    /\ up
    /\ handle[r].step = "written"
    /\ gate = NoOne
    /\ history' = [history EXCEPT ![r] = handle[r].status]
    /\ handle' = [handle EXCEPT ![r].step = "settled", ![r].final = handle[r].status]
    /\ UNCHANGED <<admissionVars, start, superseded, runs, reaper, unit, current,
                   finishedEvents, reconcile, recovery, stopper, relief>>

\* record_history; then the final status is announced, written or not.
FinalizeSettles(r) ==
    LET status == handle[r].status
    IN  /\ up
        /\ handle[r].step = "written"
        /\ history' = [history EXCEPT ![r] = status] \/ (IoMayFail /\ UNCHANGED history)
        /\ handle' = [handle EXCEPT ![r].step = "settled", ![r].final = status,
                                     ![r].status = "none"]
        /\ UNCHANGED <<admissionVars, start, superseded, runs, reaper, unit, current,
                       finishedEvents, reconcile, recovery, stopper, relief>>

\* Only now admission is told and test.finished published.
FinalizeFinishes(r) ==
    /\ handle[r].step = "settled"
    /\ AdmissionFinished(r)
    /\ PublishFinished(r)
    /\ handle' = [handle EXCEPT ![r].step = "done"]
    /\ UNCHANGED <<start, superseded, runs, reaper, unit, current, history,
                   reconcile, recovery, stopper, relief>>

-----------------------------------------------------------------------------
(* test.stop and relieve_memory_pressure.                                  *)

\* stop replaces any reason given before, unless the run has a final status.
StopAsks(w) ==
    LET h == runs[w]
    IN  /\ "stop" \in Disturbances
        /\ Serving
        /\ stopper.step = "idle"
        /\ h # NoOne
        /\ current[w] # NoSummary
        /\ handle[h].final = "none"
        /\ SetStop(h, "cancelled")
        /\ stopper' = [step |-> "unit", run |-> h]
        /\ UNCHANGED <<admissionVars, start, superseded, runs, reaper, unit, current, history,
                       finishedEvents, reconcile, recovery, relief>>

StopStopsUnit ==
    /\ up
    /\ stopper.step = "unit"
    /\ \E ok \in Faults(SystemdMayFail) : StopUnits({stopper.run}, ok)
    /\ stopper' = IdleWorker
    /\ UNCHANGED <<admissionVars, start, superseded, runs, handle, reaper, current, history,
                   finishedEvents, reconcile, recovery, relief>>

Relievable(h) == handle[h].final = "none" /\ handle[h].stop \in {"none", "memory_pressure"}

\* The candidates are sampled once and looked at again before each stop.
RelievePicks(w) ==
    LET h == runs[w]
    IN  /\ "memory" \in Disturbances
        /\ Serving
        /\ relief.step = "idle"
        /\ h # NoOne
        /\ Relievable(h)
        /\ unit[h] = "running"
        /\ relief' = [step |-> "picked", run |-> h]
        /\ UNCHANGED <<admissionVars, start, superseded, runs, handle, reaper, unit, current,
                       history, finishedEvents, reconcile, recovery, stopper>>

RelieveMarks ==
    /\ up
    /\ relief.step = "picked"
    /\ IF Relievable(relief.run)
       THEN /\ SetStop(relief.run, "memory_pressure")
            /\ relief' = [relief EXCEPT !.step = "unit"]
       ELSE relief' = IdleWorker /\ UNCHANGED handle
    /\ UNCHANGED <<admissionVars, start, superseded, runs, reaper, unit, current, history,
                   finishedEvents, reconcile, recovery, stopper>>

RelieveStopsUnit ==
    /\ up
    /\ relief.step = "unit"
    /\ \E ok \in Faults(SystemdMayFail) : StopUnits({relief.run}, ok)
    /\ relief' = IdleWorker
    /\ UNCHANGED <<admissionVars, start, superseded, runs, handle, reaper, current, history,
                   finishedEvents, reconcile, recovery, stopper>>

-----------------------------------------------------------------------------
(* reconcile_worktree, by the maintenance thread or by recovery.           *)

ReconcileBegins(w) ==
    /\ reconcile.step = "idle"
    /\ IF recovering THEN recovery.step = "reconcile" /\ w \in recovery.left
                     ELSE "reconcile" \in Disturbances
    /\ TryWorktreeGuard(w)
    /\ reconcile' = [step |-> "look", wt |-> w, run |-> NoOne]
    /\ UNCHANGED <<start, superseded, runs, handle, reaper, unit, current, history,
                   finishedEvents, recovery, stopper, relief>>

\* Mutant: only registered runs are looked at.
ReconcileLooksNowhere ==
    /\ up
    /\ reconcile.step = "look"
    /\ reconcile' = [reconcile EXCEPT !.step = "end"]
    /\ UNCHANGED <<admissionVars, start, superseded, runs, handle, reaper, unit, current,
                   history, finishedEvents, recovery, stopper, relief>>

\* A registered run is left alone while it is being finalized, while its unit
\* runs under a live reaper, and for STOP_WAIT after its unit was last seen.
ReconcileLooks ==
    LET w == reconcile.wt
        h == runs[w]
        supervised == reaper[h] \in {"waiting", "finalizing", "leaving"}
    IN  /\ up
        /\ reconcile.step = "look"
        /\ \/ /\ h # NoOne
              /\ handle[h].step # "new" \/ supervised
              /\ reconcile' = [reconcile EXCEPT !.step = "end"]
              /\ UNCHANGED handle
           \/ /\ h # NoOne
              /\ handle[h].step = "new"
              /\ supervised => (unit[h] # "running" \/ SystemdMayFail) /\ TimeoutsHappen
              /\ reconcile' = [reconcile EXCEPT !.step = "stop", !.run = h]
              /\ IF handle[h].stop = "none" THEN SetStop(h, "interrupted") ELSE UNCHANGED handle
           \/ /\ h = NoOne
              /\ reconcile' = IF current[w].status = "running"
                              THEN [reconcile EXCEPT !.step = "orphanStop", !.run = current[w].run]
                              ELSE [reconcile EXCEPT !.step = "end"]
              /\ UNCHANGED handle
        /\ UNCHANGED <<admissionVars, start, superseded, runs, reaper, unit, current, history,
                       finishedEvents, recovery, stopper, relief>>

\* stop_unit, then finalize unless another thread has claimed it.
ReconcileStops ==
    LET h == reconcile.run
    IN  /\ up
        /\ reconcile.step = "stop"
        /\ \E ok \in Faults(SystemdMayFail) :
              /\ StopUnits({h}, ok)
              /\ IF ok /\ handle[h].step = "new"
                 THEN Claim(h, "reconciler") /\ reconcile' = [reconcile EXCEPT !.step = "finalize"]
                 ELSE /\ reconcile' = [reconcile EXCEPT !.step = IF ok THEN "end" ELSE "error"]
                      /\ UNCHANGED handle
        /\ UNCHANGED <<admissionVars, start, superseded, runs, reaper, current, history,
                       finishedEvents, recovery, stopper, relief>>

ReconcileFinalized ==
    /\ up
    /\ reconcile.step = "finalize"
    /\ handle[reconcile.run].step = "done"
    /\ reconcile' = [reconcile EXCEPT !.step = "end"]
    /\ UNCHANGED <<admissionVars, start, superseded, runs, handle, reaper, unit, current,
                   history, finishedEvents, recovery, stopper, relief>>

\* A summary that says running although no handle is registered.
OrphanStops ==
    /\ up
    /\ reconcile.step = "orphanStop"
    /\ \E ok \in Faults(SystemdMayFail) :
          /\ StopUnits({reconcile.run}, ok)
          /\ reconcile' = [reconcile EXCEPT !.step = IF ok THEN "orphanWrite" ELSE "error"]
    /\ UNCHANGED <<admissionVars, start, superseded, runs, handle, reaper, current, history,
                   finishedEvents, recovery, stopper, relief>>

OrphanWrites ==
    /\ up
    /\ reconcile.step = "orphanWrite"
    /\ \/ /\ WriteSummary(reconcile.run, "interrupted")
          /\ reconcile' = [reconcile EXCEPT !.step = "orphanRecord"]
       \/ /\ IoMayFail
          /\ WriteSummary(reconcile.run, "interrupted") \/ UNCHANGED current
          /\ reconcile' = [reconcile EXCEPT !.step = "error"]
    /\ UNCHANGED <<admissionVars, start, superseded, runs, handle, reaper, unit, history,
                   finishedEvents, recovery, stopper, relief>>

OrphanRecords ==
    LET recorded == [history EXCEPT ![reconcile.run] = "interrupted"]
    IN  /\ up
        /\ reconcile.step = "orphanRecord"
        /\ \/ /\ history' = recorded
              /\ reconcile' = [reconcile EXCEPT !.step = "orphanFinish"]
           \/ /\ IoMayFail
              /\ history' \in {history, recorded}
              /\ reconcile' = [reconcile EXCEPT !.step = "error"]
        /\ UNCHANGED <<admissionVars, start, superseded, runs, handle, reaper, unit, current,
                       finishedEvents, recovery, stopper, relief>>

\* Here an error of the capacity broker or of admission ends the step: the
\* event is published only after both have forgotten the run.
OrphanFinishes ==
    LET q == reconcile.run
    IN  /\ up
        /\ reconcile.step = "orphanFinish"
        /\ \/ /\ AdmissionFinished(q)
              /\ q \in active => receipt' = active'
              /\ PublishFinished(q)
              /\ reconcile' = [reconcile EXCEPT !.step = "end"]
           \/ /\ IoMayFail
              /\ AdmissionFinished(q) \/ UNCHANGED admissionVars
              /\ reconcile' = [reconcile EXCEPT !.step = "error"]
              /\ UNCHANGED finishedEvents
        /\ UNCHANGED <<start, superseded, runs, handle, reaper, unit, current, history,
                       recovery, stopper, relief>>

ReconcileEnds ==
    /\ reconcile.step \in {"end", "error"}
    /\ DropWorktreeGuard(reconcile.wt)
    /\ reconcile' = IdleReconciler
    /\ recovery' = [recovery EXCEPT !.left = @ \ {reconcile.wt},
                                    !.failed = @ \/ reconcile.step = "error"]
    /\ UNCHANGED <<start, superseded, runs, handle, reaper, unit, current, history,
                   finishedEvents, stopper, relief>>

-----------------------------------------------------------------------------
(* recover, and the daemon's own death and start.                          *)

\* Units left over are stopped; a failure to stop one is ignored.
RecoverStopsUnits ==
    /\ up
    /\ recovering
    /\ recovery.step = "stop"
    /\ \E ok \in Faults(SystemdMayFail) : StopUnits(Runs, ok)
    /\ recovery' = [step |-> "reconcile", left |-> Worktrees, failed |-> FALSE]
    /\ UNCHANGED <<admissionVars, start, superseded, runs, handle, reaper, current, history,
                   finishedEvents, reconcile, stopper, relief>>

\* try_worktree_guard found a start in progress.
RecoverSkips(w) ==
    /\ up
    /\ recovering
    /\ reconcile.step = "idle"
    /\ w \in recovery.left
    /\ permit[w] # NoOne
    /\ recovery' = [recovery EXCEPT !.left = @ \ {w}]
    /\ UNCHANGED <<admissionVars, start, superseded, runs, handle, reaper, unit, current,
                   history, finishedEvents, reconcile, stopper, relief>>

RecoverResets ==
    /\ recovery.step = "reconcile"
    /\ recovery.left = {}
    /\ ~recovery.failed
    /\ Reset
    /\ UNCHANGED lifecycleVars

\* recover returns an error and the daemon goes on without the reset: a
\* worktree could not be reconciled, or the units could not be listed.
RecoverFails ==
    /\ \/ recovery.step = "stop"
       \/ recovery.left = {} /\ recovery.failed
    /\ RecoveryFails
    /\ UNCHANGED lifecycleVars

DaemonCrash ==
    /\ "crash" \in Disturbances
    /\ Crash
    /\ start' = [r \in Runs |-> IF stage[r] = "new" /\ start[r].pc = "idle"
                                THEN start[r] ELSE [pc |-> "over", prior |-> NoOne]]
    /\ runs' = [w \in Worktrees |-> NoOne]
    /\ handle' = [r \in Runs |-> NewHandle]
    /\ reaper' = [r \in Runs |-> "none"]
    /\ reconcile' = IdleReconciler
    /\ recovery' = [step |-> "stop", left |-> {}, failed |-> FALSE]
    /\ stopper' = IdleWorker
    /\ relief' = IdleWorker
    /\ UNCHANGED <<superseded, unit, current, history, finishedEvents>>

DaemonRestart == Restart /\ UNCHANGED lifecycleVars

Outside ==
    /\ \/ \E i \in Installers : InstallerStep(i)
       \/ \E k \in Waiters : WaiterStep(k)
    /\ UNCHANGED lifecycleVars

-----------------------------------------------------------------------------
StartThread(r) ==
    \/ Attach(r) \/ AttachGuarded(r) \/ EnterWorktree(r) \/ EnterGate(r)
    \/ SupersedePrior(r) \/ StopPrior(r) \/ AwaitPrior(r) \/ SweepUnits(r) \/ Prepare(r)
    \/ Accept(r) \/ ReleaseGate(r) \/ Launch(r) \/ RollbackAcceptedStart(r)
    \/ VerifyLaunch(r) \/ StopFailedLaunch(r) \/ JoinFailedLaunch(r) \/ AbandonLaunch(r)
    \/ StartFinalized(r) \/ ReturnStart(r)
FinalizeStep(r) ==
    FinalizeDecides(r) \/ FinalizeWrites(r) \/ FinalizeSettles(r) \/ FinalizeFinishes(r)
ReaperThread(r) == ReaperFinalizes(r) \/ ReaperLeaves(r)
StopThread == (\E w \in Worktrees : StopAsks(w)) \/ StopStopsUnit
ReliefThread == (\E w \in Worktrees : RelievePicks(w)) \/ RelieveMarks \/ RelieveStopsUnit
ReconcileThread ==
    \/ ReconcileLooks \/ ReconcileStops \/ ReconcileFinalized
    \/ OrphanStops \/ OrphanWrites \/ OrphanRecords \/ OrphanFinishes \/ ReconcileEnds
RecoveryThread ==
    \/ RecoverStopsUnits
    \/ \E w \in Worktrees : RecoverSkips(w)
    \/ RecoverResets \/ RecoverFails

LifecycleNext ==
    \/ \E r \in Runs : StartThread(r) \/ UnitExits(r) \/ ReaperThread(r) \/ FinalizeStep(r)
    \/ StopThread
    \/ ReliefThread
    \/ \E w \in Worktrees : ReconcileBegins(w)
    \/ ReconcileThread
    \/ RecoveryThread
    \/ DaemonCrash
    \/ DaemonRestart
    \/ Outside

LifecycleSpec == LifecycleInit /\ [][LifecycleNext]_vars

\* Threads are scheduled, units end (RuntimeMaxSec), the reconciler and the
\* recovery run their course and the service manager restarts the daemon.
LifecycleFairness ==
    /\ \A r \in Runs :
          /\ WF_vars(StartThread(r) /\ stage[r] \in {"permit", "guarded", "accepted", "launching", "finished"})
          /\ WF_vars(UnitExits(r))
          /\ WF_vars(ReaperThread(r))
          /\ WF_vars(FinalizeStep(r))
    /\ WF_vars(StopStopsUnit)
    /\ WF_vars(RelieveMarks \/ RelieveStopsUnit)
    /\ WF_vars(ReconcileThread)
    /\ WF_vars(RecoveryThread)
    /\ \A w \in Worktrees : WF_vars(ReconcileBegins(w))
    /\ WF_vars(DaemonRestart)

FairLifecycle == LifecycleSpec /\ LifecycleFairness

-----------------------------------------------------------------------------
(* Safety.                                                                 *)

\* Requirements.md:653, REQ-TEST-02: however starts, failed stops, timeouts,
\* crashes and recoveries interleave, no worktree has two units running.
OneUnitPerWorktree ==
    \A r, q \in Runs : /\ WorktreeOf[r] = WorktreeOf[q]
                       /\ unit[r] = "running"
                       /\ unit[q] = "running"
                       => r = q

\* REQ-TEST-15: when an installer has seen zero activity under its lease, no
\* test unit runs on the host.
DrainedHostHasNoUnits ==
    \A i \in Installers : installer[i] = "drained" /\ lease = i =>
        \A r \in Runs : unit[r] # "running"

\* finalize begins only after the processes of the run are gone, whichever of
\* its four callers calls it.
FinalizedUnitIsGone == \A r \in Runs : handle[r].step # "new" => UnitOver(r)

\* A replacing run's processes start only after the run it reports as
\* superseded has its terminal record.
SuccessorWaitsForRecord ==
    \A r \in Runs : superseded[r] # NoOne /\ unit[r] # "absent" => history[superseded[r]] # "none"

\* record_history reads, changes and replaces one file per worktree without a
\* lock of its own: the lifecycle must never let two threads be about to do so.
HistoryIsWrittenAlone ==
    \A r, q \in Runs :
        /\ WorktreeOf[r] = WorktreeOf[q]
        /\ handle[r].step = "written"
        => /\ handle[q].step = "written" => r = q
           /\ ~(reconcile.step = "orphanRecord" /\ reconcile.run = q)

\* A run ends once: the reaper, the reconciler and a failed launch may all come to
\* finalize it, and one test.finished event is published.
FinishedOnce == \A r \in Runs : finishedEvents[r] <= 1

\* docs/contract-commands.md: only an explicit replacement stops a run.
AttachNeverReplaces ==
    \A r \in Runs : Mode[r] = "attach" => superseded[r] = NoOne

\* The lifecycle uses the admission authority only through its operations, in
\* their order: every behaviour is one of TestAdmission.
ImplementsAdmission == Spec

(* Liveness.                                                               *)

\* test.history shows a run's end from the history or from the summary.
Recorded(r) ==
    \/ history[r] # "none"
    \/ current[WorktreeOf[r]].run = r /\ current[WorktreeOf[r]].status \in Terminal

\* Once the daemon stays up, every launched run gets its terminal record:
\* through its reaper, its start, the reconciler or the recovery after a crash.
LaunchedRunsEnd == <>[]up => \A r \in Runs : unit[r] = "running" ~> Recorded(r)

\* A start that owns its worktree is answered without any STOP_WAIT elapsing:
\* the run it replaces never needs a lock the start holds.
LifecycleStartsEnd == \A r \in Runs : stage[r] \in Starting ~> stage[r] \notin Starting
=============================================================================
