--------------------------- MODULE TestAdmission ---------------------------
(***************************************************************************)
(* Governed-test admission: rust/control/src/test_admission.rs.            *)
(*                                                                         *)
(* One daemon process accepts test runs; separate installer processes      *)
(* close admission ("drain") before an upgrade.  They share a directory    *)
(* with three files: a lock (flock), the drain lease and the activity      *)
(* receipt that lists the accepted runs.  The model keeps                  *)
(*   - every lock and its holder, and what a crash releases;               *)
(*   - the lease as the installer that owns it;                            *)
(*   - the receipt as the set of runs it lists, apart from the in-memory   *)
(*     set it is written from;                                             *)
(*   - the three outcomes of an atomic file replacement;                   *)
(*   - inotify as one undelivered-event flag per watcher.                  *)
(* Left out: file modes and path containment, the receipt's generation     *)
(* number (no reader uses it), the wording of reasons.                     *)
(***************************************************************************)

CONSTANTS
    Runs,        \* start attempts; each draws its own run ID
    Worktrees,
    WorktreeOf,  \* the worktree a start attempt is for
    Installers,  \* installer processes: pid and start time name one for ever
    Waiters,     \* test.admission.wait requests
    NoOne,
    Reconciler,  \* the maintenance thread that borrows worktree permits
    IoMayFail,   \* whether runtime-directory writes may fail
    RecoveryMayFail,  \* whether test recovery may stop before its reset
    DeferredRecovery  \* the daemon starts behind an activation fence

ASSUME AdmissionConstants ==
    /\ WorktreeOf \in [Runs -> Worktrees]
    /\ NoOne \notin Runs \cup Installers
    /\ Installers \cap Waiters = {}
    /\ Reconciler \notin Runs \cup {NoOne}
    /\ IoMayFail \in BOOLEAN
    /\ RecoveryMayFail \in BOOLEAN
    /\ DeferredRecovery \in BOOLEAN

VARIABLES
    up,         \* the daemon process is running
    recovering, \* it has not yet run test recovery
    active,     \* AdmissionState.active
    published,  \* the activity receipt exists
    receipt,    \* the runs the receipt lists
    lease,      \* owner named by the drain lease file, NoOne without a file
    gate,       \* start attempt holding the state mutex and the flock
    permit,     \* worktree_starts: who holds each worktree
    stage,      \* how far each start attempt has come
    installer,  \* how far each installer process has come
    waiter,     \* how far each test.admission.wait request has come
    wake        \* watchers with an unread directory event

admissionVars ==
    <<up, recovering, active, published, receipt, lease, gate, permit, stage, installer, waiter, wake>>

Stages == {"new", "permit", "guarded", "accepted", "launching", "running",
           "finished", "denied", "failed", "lost"}
InstallerStages == {"idle", "refused", "draining", "watching", "asleep",
                    "drained", "failed", "ended", "dead"}
WaiterStages == {"idle", "watching", "asleep", "open", "expired", "lost"}

TypeOK ==
    /\ up \in BOOLEAN
    /\ recovering \in BOOLEAN
    /\ active \in SUBSET Runs
    /\ published \in BOOLEAN
    /\ receipt \in SUBSET Runs
    /\ lease \in Installers \cup {NoOne}
    /\ gate \in Runs \cup {NoOne}
    /\ permit \in [Worktrees -> Runs \cup {NoOne, Reconciler}]
    /\ stage \in [Runs -> Stages]
    /\ installer \in [Installers -> InstallerStages]
    /\ waiter \in [Waiters -> WaiterStages]
    /\ wake \in SUBSET (Installers \cup Waiters)

Init ==
    /\ up = TRUE
    /\ recovering = TRUE
    /\ active = {}
    /\ published = FALSE
    /\ receipt = {}
    /\ lease = NoOne
    /\ gate = NoOne
    /\ permit = [w \in Worktrees |-> NoOne]
    /\ stage = [r \in Runs |-> "new"]
    /\ installer = [i \in Installers |-> "idle"]
    /\ waiter = [k \in Waiters |-> "idle"]
    /\ wake = {}

-----------------------------------------------------------------------------
\* A process whose pid and start time still match /proc.
Alive(i) == installer[i] \notin {"idle", "dead"}

\* lease_is_live: the lease names a process that still runs.
LeaseLive == lease \in Installers /\ Alive(lease)

\* Requests wait for recovery, unless recovery was deferred until activation:
\* then it runs beside them.
Serving == up /\ (DeferredRecovery \/ ~recovering)

\* Outcomes of atomic_write_json: published; an error before the rename; an
\* error of the directory sync, after the new document is already visible.
Outcomes == IF IoMayFail THEN {"ok", "unwritten", "unsynced"} ELSE {"ok"}

\* Every registered inotify watch sees a directory mutation.
Watching(x) == \/ x \in Installers /\ installer[x] \in {"watching", "asleep"}
               \/ x \in Waiters /\ waiter[x] \in {"watching", "asleep"}
NotifyRuntimeMutation ==
    wake' = wake \cup {x \in Installers \cup Waiters : Watching(x)}

\* Mutant: the notification follows the directory sync, so an error skips it.
WriteActivityNotifiesLast(runs, outcome) ==
    IF outcome = "ok"
    THEN published' = TRUE /\ receipt' = runs /\ NotifyRuntimeMutation
    ELSE /\ \/ outcome = "unsynced" /\ published' = TRUE /\ receipt' = runs
            \/ outcome = "unwritten" /\ UNCHANGED <<published, receipt>>
         /\ UNCHANGED wake

\* write_activity_locked: replace the receipt by the given runs.  A write that
\* fails before its rename may still have shown the temporary file to watchers.
WriteActivity(runs, outcome) ==
    IF outcome = "unwritten"
    THEN /\ UNCHANGED <<published, receipt>>
         /\ UNCHANGED wake \/ NotifyRuntimeMutation
    ELSE /\ published' = TRUE
         /\ receipt' = runs
         /\ NotifyRuntimeMutation

\* live_drain: forget the lease of a dead installer.
UnlinkStale ==
    IF lease = NoOne
    THEN UNCHANGED <<lease, wake>>
    ELSE lease' = NoOne /\ NotifyRuntimeMutation

DropPermit(r) == permit' = [permit EXCEPT ![WorktreeOf[r]] = NoOne]
SetStage(r, s) == stage' = [stage EXCEPT ![r] = s]

-----------------------------------------------------------------------------
(* The daemon's threads.                                                   *)

\* start_guard_for waits on the condition variable until its worktree is free.
WorktreeGuard(r) ==
    /\ Serving
    /\ stage[r] = "new"
    /\ permit[WorktreeOf[r]] = NoOne
    /\ permit' = [permit EXCEPT ![WorktreeOf[r]] = r]
    /\ SetStage(r, "permit")
    /\ UNCHANGED <<up, recovering, active, published, receipt, lease, gate, installer, waiter, wake>>

\* Mutant: the lock is taken but the drain lease is not looked at.
StartGuardUnchecked(r) ==
    /\ up
    /\ stage[r] = "permit"
    /\ gate = NoOne
    /\ gate' = r
    /\ SetStage(r, "guarded")
    /\ UNCHANGED <<up, recovering, active, published, receipt, lease, permit, installer, waiter, wake>>

\* start_guard_with: the state mutex and the flock, then the drain check.  A
\* live lease drops the permit again, and so does a stale one whose removal
\* fails, before or after the file is gone.
StartGuard(r) ==
    /\ up
    /\ stage[r] = "permit"
    /\ gate = NoOne
    /\ \/ /\ LeaseLive
          /\ SetStage(r, "denied")
          /\ DropPermit(r)
          /\ UNCHANGED <<lease, gate, wake>>
       \/ /\ ~LeaseLive
          /\ UnlinkStale
          /\ gate' = r
          /\ SetStage(r, "guarded")
          /\ UNCHANGED permit
       \/ /\ ~LeaseLive
          /\ lease # NoOne
          /\ IoMayFail
          /\ UnlinkStale \/ UNCHANGED <<lease, wake>>
          /\ SetStage(r, "failed")
          /\ DropPermit(r)
          /\ UNCHANGED gate
    /\ UNCHANGED <<up, recovering, active, published, receipt, installer, waiter>>

\* An attaching start takes the guard only to look for a run, and drops it.
ProbeGuard(r) ==
    /\ Serving
    /\ stage[r] = "new"
    /\ permit[WorktreeOf[r]] = NoOne
    /\ gate = NoOne
    /\ \/ /\ LeaseLive
          /\ SetStage(r, "denied")
          /\ UNCHANGED <<lease, wake>>
       \/ /\ ~LeaseLive
          /\ UnlinkStale
          /\ UNCHANGED stage
       \/ /\ ~LeaseLive
          /\ lease # NoOne
          /\ IoMayFail
          /\ UnlinkStale \/ UNCHANGED <<lease, wake>>
          /\ SetStage(r, "failed")
    /\ UNCHANGED <<up, recovering, active, published, receipt, gate, permit, installer, waiter>>

\* A guard dropped before the run is accepted: the start failed in between.
DropGuard(r) ==
    /\ up
    /\ stage[r] = "guarded"
    /\ gate' = NoOne
    /\ DropPermit(r)
    /\ SetStage(r, "failed")
    /\ UNCHANGED <<up, recovering, active, published, receipt, lease, installer, waiter, wake>>

\* Mutant: a failed publication leaves the run in memory.
StartedWithoutRollback(r) ==
    /\ up
    /\ stage[r] = "guarded"
    /\ active' = active \cup {r}
    /\ \E outcome \in Outcomes : WriteActivity(active \cup {r}, outcome)
    /\ SetStage(r, "accepted")
    /\ UNCHANGED <<up, recovering, lease, gate, permit, installer, waiter>>

\* started_locked: insert, publish, and take the run out again on an error.
Started(r) ==
    /\ up
    /\ stage[r] = "guarded"
    /\ \E outcome \in Outcomes :
          /\ WriteActivity(active \cup {r}, outcome)
          /\ IF outcome = "ok"
             THEN /\ active' = active \cup {r}
                  /\ SetStage(r, "accepted")
                  /\ UNCHANGED <<gate, permit>>
             ELSE /\ SetStage(r, "failed")
                  /\ gate' = NoOne
                  /\ DropPermit(r)
                  /\ UNCHANGED active
    /\ UNCHANGED <<up, recovering, lease, installer, waiter>>

\* StartGuard::release_global keeps only the worktree permit.
ReleaseGlobal(r) ==
    /\ up
    /\ stage[r] = "accepted"
    /\ gate' = NoOne
    /\ SetStage(r, "launching")
    /\ UNCHANGED <<up, recovering, active, published, receipt, lease, permit, installer, waiter, wake>>

\* The start request returns and its worktree permit drops, perhaps after the
\* run is already over: it failed to launch, or it was quick.
StartReturns(r) ==
    /\ up
    /\ stage[r] \in {"launching", "finished"}
    /\ permit[WorktreeOf[r]] = r
    /\ SetStage(r, IF stage[r] = "launching" THEN "running" ELSE "finished")
    /\ DropPermit(r)
    /\ UNCHANGED <<up, recovering, active, published, receipt, lease, gate, installer, waiter, wake>>

\* finished_locked: a listed run leaves memory first and the receipt second.
\* A failed write leaves it in the receipt, and a repeated call does nothing.
Finished(r) ==
    /\ up
    /\ stage[r] \in {"launching", "running"}
    /\ gate = NoOne
    /\ active' = active \ {r}
    /\ IF r \in active
       THEN \E outcome \in Outcomes : WriteActivity(active \ {r}, outcome)
       ELSE UNCHANGED <<published, receipt, wake>>
    /\ SetStage(r, "finished")
    /\ UNCHANGED <<up, recovering, lease, gate, permit, installer, waiter>>

\* try_worktree_guard by the reconciler, which never waits, and its drop.
TryWorktreeGuard(w) ==
    /\ up
    /\ permit[w] = NoOne
    /\ permit' = [permit EXCEPT ![w] = Reconciler]
    /\ UNCHANGED <<up, recovering, active, published, receipt, lease, gate, stage, installer, waiter, wake>>

DropWorktreeGuard(w) ==
    /\ up
    /\ permit[w] = Reconciler
    /\ permit' = [permit EXCEPT ![w] = NoOne]
    /\ UNCHANGED <<up, recovering, active, published, receipt, lease, gate, stage, installer, waiter, wake>>

\* reset, at the end of test recovery.
Reset ==
    /\ up
    /\ recovering
    /\ recovering' = FALSE
    /\ gate = NoOne
    /\ active' = {}
    /\ \E outcome \in Outcomes : WriteActivity({}, outcome)
    /\ UNCHANGED <<up, lease, gate, permit, stage, installer, waiter>>

\* A recovery that fails before its reset is only logged.
RecoveryFails ==
    /\ up
    /\ recovering
    /\ RecoveryMayFail
    /\ recovering' = FALSE
    /\ UNCHANGED <<up, active, published, receipt, lease, gate, permit, stage, installer, waiter, wake>>

\* The daemon dies: its memory, its locks and its requests are gone, the
\* files stay.
Crash ==
    /\ up
    /\ up' = FALSE
    /\ active' = {}
    /\ gate' = NoOne
    /\ permit' = [w \in Worktrees |-> NoOne]
    /\ stage' = [r \in Runs |->
          IF stage[r] \in {"permit", "guarded", "accepted", "launching", "running"}
          THEN "lost" ELSE stage[r]]
    /\ waiter' = [k \in Waiters |->
          IF waiter[k] \in {"watching", "asleep"} THEN "lost" ELSE waiter[k]]
    /\ wake' = wake \ Waiters
    /\ UNCHANGED <<recovering, published, receipt, lease, installer>>

Restart ==
    /\ ~up
    /\ up' = TRUE
    /\ recovering' = TRUE
    /\ UNCHANGED <<active, published, receipt, lease, gate, permit, stage, installer, waiter, wake>>

-----------------------------------------------------------------------------
(* Installer processes.  They take the flock only, so a start attempt that *)
(* holds the gate keeps them out for its whole admission.                  *)

\* Mutant: the installer does not take the lock that a start holds.
BeginDrainUnlocked(i) ==
    /\ installer[i] = "idle"
    /\ ~LeaseLive
    /\ lease' = i
    /\ installer' = [installer EXCEPT ![i] = "draining"]
    /\ NotifyRuntimeMutation
    /\ UNCHANGED <<up, recovering, active, published, receipt, gate, permit, stage, waiter>>

\* begin_drain.  It fails with the prior lease still there, with none, or with
\* its own already published by a rename whose directory sync failed.
BeginDrain(i) ==
    /\ installer[i] = "idle"
    /\ gate = NoOne
    /\ \/ /\ LeaseLive
          /\ installer' = [installer EXCEPT ![i] = "refused"]
          /\ UNCHANGED <<lease, wake>>
       \/ /\ ~LeaseLive
          /\ lease' = i
          /\ installer' = [installer EXCEPT ![i] = "draining"]
          /\ NotifyRuntimeMutation
       \/ /\ ~LeaseLive
          /\ IoMayFail
          /\ lease' \in {lease, NoOne, i}
          /\ installer' = [installer EXCEPT ![i] = "ended"]
          /\ NotifyRuntimeMutation
    /\ UNCHANGED <<up, recovering, active, published, receipt, gate, permit, stage, waiter>>

\* wait_for_zero_activity registers its watch before the first read.
WatchActivity(i) ==
    /\ installer[i] = "draining"
    /\ installer' = [installer EXCEPT ![i] = "watching"]
    /\ UNCHANGED <<up, recovering, active, published, receipt, lease, gate, permit, stage, waiter, wake>>

\* A read of the receipt: without one the wait fails, never succeeds.
ReadActivity(i) ==
    /\ installer[i] = "watching"
    /\ installer' = [installer EXCEPT ![i] =
          IF ~published THEN "failed" ELSE IF receipt = {} THEN "drained" ELSE "asleep"]
    /\ UNCHANGED <<up, recovering, active, published, receipt, lease, gate, permit, stage, waiter, wake>>

\* The blocking read of the inotify descriptor returns.
ActivityEvent(i) ==
    /\ installer[i] = "asleep"
    /\ i \in wake
    /\ wake' = wake \ {i}
    /\ installer' = [installer EXCEPT ![i] = "watching"]
    /\ UNCHANGED <<up, recovering, active, published, receipt, lease, gate, permit, stage, waiter>>

\* end_drain removes the lease only while it still carries this nonce.
EndDrain(i) ==
    /\ installer[i] \in {"draining", "drained", "failed"}
    /\ gate = NoOne
    /\ installer' = [installer EXCEPT ![i] = "ended"]
    /\ \/ lease = i /\ lease' = NoOne /\ NotifyRuntimeMutation
       \/ (lease # i \/ IoMayFail) /\ UNCHANGED <<lease, wake>>
    /\ UNCHANGED <<up, recovering, active, published, receipt, gate, permit, stage, waiter>>

\* The process exits or is killed.  A dead process writes no event.
InstallerDies(i) ==
    /\ Alive(i)
    /\ installer' = [installer EXCEPT ![i] = "dead"]
    /\ wake' = wake \ {i}
    /\ UNCHANGED <<up, recovering, active, published, receipt, lease, gate, permit, stage, waiter>>

-----------------------------------------------------------------------------
(* wait_for_admission_open, under the deadline of test.admission.wait.     *)

AdmissionWait(k) ==
    /\ Serving
    /\ waiter[k] = "idle"
    /\ waiter' = [waiter EXCEPT ![k] = "watching"]
    /\ UNCHANGED <<up, recovering, active, published, receipt, lease, gate, permit, stage, installer, wake>>

ReadLease(k) ==
    /\ up
    /\ waiter[k] = "watching"
    /\ waiter' = [waiter EXCEPT ![k] = IF LeaseLive THEN "asleep" ELSE "open"]
    /\ UNCHANGED <<up, recovering, active, published, receipt, lease, gate, permit, stage, installer, wake>>

LeaseEvent(k) ==
    /\ up
    /\ waiter[k] = "asleep"
    /\ k \in wake
    /\ wake' = wake \ {k}
    /\ waiter' = [waiter EXCEPT ![k] = "watching"]
    /\ UNCHANGED <<up, recovering, active, published, receipt, lease, gate, permit, stage, installer>>

WaitDeadline(k) ==
    /\ up
    /\ waiter[k] = "asleep"
    /\ waiter' = [waiter EXCEPT ![k] = "expired"]
    /\ wake' = wake \ {k}
    /\ UNCHANGED <<up, recovering, active, published, receipt, lease, gate, permit, stage, installer>>

-----------------------------------------------------------------------------
RunStep(r) == WorktreeGuard(r) \/ StartGuard(r) \/ ProbeGuard(r) \/ DropGuard(r)
              \/ Started(r) \/ ReleaseGlobal(r) \/ StartReturns(r) \/ Finished(r)
InstallerStep(i) == BeginDrain(i) \/ WatchActivity(i) \/ ReadActivity(i)
                    \/ ActivityEvent(i) \/ EndDrain(i) \/ InstallerDies(i)
WaiterStep(k) == AdmissionWait(k) \/ ReadLease(k) \/ LeaseEvent(k) \/ WaitDeadline(k)

Next ==
    \/ \E r \in Runs : RunStep(r)
    \/ \E w \in Worktrees : TryWorktreeGuard(w) \/ DropWorktreeGuard(w)
    \/ \E i \in Installers : InstallerStep(i)
    \/ \E k \in Waiters : WaiterStep(k)
    \/ Reset
    \/ RecoveryFails
    \/ Crash
    \/ Restart

Spec == Init /\ [][Next]_admissionVars

\* Threads are scheduled, locks are granted, supervised runs end (each has a
\* deadline) and the service manager restarts the daemon until a recovery
\* completes.  Nothing obliges a request, a drain or a wait to begin.
Fairness ==
    /\ \A r \in Runs :
          /\ WF_admissionVars(StartGuard(r))
          /\ WF_admissionVars(DropGuard(r) \/ Started(r))
          /\ WF_admissionVars(ReleaseGlobal(r))
          /\ WF_admissionVars(StartReturns(r))
          /\ WF_admissionVars(Finished(r))
    /\ \A i \in Installers : WF_admissionVars(ReadActivity(i)) /\ WF_admissionVars(ActivityEvent(i))
    /\ WF_admissionVars(Restart)
    /\ SF_admissionVars(Reset)

FairSpec == Spec /\ Fairness

-----------------------------------------------------------------------------
(* Safety.                                                                 *)

\* Stages in which a start attempt owns its worktree.
Starting == {"permit", "guarded", "accepted", "launching"}
\* Stages in which an accepted run has not finished.
InProgress == {"accepted", "launching", "running"}

\* No run is accepted that the receipt does not list, whichever write fails
\* and wherever it fails: started_locked rolls back, finished_locked removes
\* from memory first, reset clears first.  An installer can therefore never
\* overlook a run the daemon counts as active.
AcceptedIsReceipted == active \subseteq receipt /\ (active # {} => published)

\* REQ-TEST-15: once an installer has seen zero activity under its own lease,
\* no start is past the drain check and no accepted run is in progress.
DrainIsQuiet ==
    \A i \in Installers : installer[i] = "drained" /\ lease = i =>
        /\ receipt = {}
        /\ \A r \in Runs : stage[r] \notin InProgress \cup {"guarded"}

\* An installer asleep in wait_for_zero_activity always has an event waiting
\* for it once the receipt is empty: no wake-up is lost between its read and
\* its wait, not even when the write that emptied the receipt reported an error.
NoLostWakeup ==
    \A i \in Installers : installer[i] = "asleep" /\ receipt = {} => i \in wake

\* start_guard_for: at most one start at a time owns a worktree.
OneStartPerWorktree ==
    \A r, q \in Runs : /\ WorktreeOf[r] = WorktreeOf[q]
                       /\ stage[r] \in Starting
                       /\ stage[q] \in Starting
                       => r = q

\* While one live lease is in force the receipt can lose runs and never gain
\* one, so the wait for zero is a wait for a shrinking set.
ReceiptShrinksUnderLease ==
    [][LeaseLive /\ LeaseLive' /\ lease' = lease => receipt' \subseteq receipt]_admissionVars

\* A live lease leaves only by its owner's end_drain; neither a start, nor a
\* second installer, nor a restarting daemon removes it.
LiveLeaseIsKept ==
    [][\A i \in Installers :
          lease = i /\ Alive(i) /\ lease' # i => installer'[i] = "ended"]_admissionVars

(* What makes the safety properties inductive.                             *)

\* The gate belongs to the start between its drain check and its release, and
\* no lease exists meanwhile.
GateExcludesLease ==
    /\ \A r \in Runs : stage[r] \in {"guarded", "accepted"} <=> gate = r
    /\ gate # NoOne => lease = NoOne

\* A start owns the permit of its worktree from start_guard_for to its return.
PermitIsHeld == \A r \in Runs : stage[r] \in Starting => permit[WorktreeOf[r]] = r

\* No start and no run belongs to a daemon that is down or, unless recovery is
\* deferred, to one that has still to recover.
NothingBeforeRecovery ==
    ~up \/ (recovering /\ ~DeferredRecovery) =>
        \A r \in Runs : stage[r] \notin Starting \cup InProgress

\* Every accepted run in progress is counted, unless recovery is deferred.
InProgressIsActive ==
    ~DeferredRecovery => \A r \in Runs : stage[r] \in InProgress => r \in active

AdmissionInv ==
    /\ TypeOK
    /\ GateExcludesLease
    /\ PermitIsHeld
    /\ NothingBeforeRecovery
    /\ InProgressIsActive
    /\ AcceptedIsReceipted
    /\ NoLostWakeup

(* Liveness.                                                               *)

\* finished_locked, or recovery's reset, left memory and failed to write: the
\* receipt names a run that is over, until another write replaces it.
StaleReceipt == up /\ ~recovering /\ receipt \ active # {}

\* wait_for_zero_activity ends: every run that kept the installer waiting
\* finishes or is cleared by the next recovery, and the installer hears of it.
\* Only a receipt that could not be written strands it.
DrainEnds ==
    \A i \in Installers : installer[i] \in {"watching", "asleep"} ~>
        installer[i] \in {"drained", "failed", "dead"} \/ StaleReceipt

=============================================================================
