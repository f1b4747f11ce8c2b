---------------------------- MODULE StorageCleanup ----------------------------
(***************************************************************************)
(* Cleanup jobs, resource locks, leases, pins, cancellation, restart and   *)
(* scan reconciliation of the storage service (rust/control/src/storage.rs *)
(* and storage/{locks,worker,reconcile}.rs).                               *)
(*                                                                         *)
(* An artifact is a directory, possibly inside another.  A transaction is  *)
(* one step, except that begin_job, commit_item, cancel and finish read    *)
(* the job without FOR UPDATE and write it back whole: at PostgreSQL's     *)
(* default isolation another transaction may commit between the two, so    *)
(* each of these is a read step and a write step.  The state of a job is   *)
(* held twice, in the column and in job_json.                              *)
(***************************************************************************)
EXTENDS Integers, Sequences, FiniteSets, Functions

CONSTANTS
    Artifacts,
    Ancestors,     \* ancestor_keys: the artifacts that contain another
    Jobs,
    Selection,     \* the ordered records of each job's plan
    Cancellable,   \* the jobs that a caller may cancel
    MaxEvents,     \* bound on leases, pins, scans and daemon restarts, together
    NoOne

\* Directories nest: of two around a third, one is around the other.  (A bind mount, which
\* puts a directory in two places, is left out.)
ASSUME StorageConstants ==
    /\ Ancestors \in [Artifacts -> SUBSET Artifacts] /\ NoOne \notin Artifacts
    /\ \A a \in Artifacts : \A b, c \in Ancestors[a] :
           b = c \/ b \in Ancestors[c] \/ c \in Ancestors[b]
    /\ \A j \in Jobs : Selection[j] \in Seq(Artifacts)
    /\ Cancellable \subseteq Jobs
    /\ MaxEvents \in Nat

VARIABLES
    disk,       \* the artifacts that exist
    record,     \* storage_artifacts: revision, removed, pinned
    leased,     \* artifacts with an active lease
    newer,      \* the records whose update_sequence is past that of the scan in progress
    planned,    \* the revisions each job's plan is bound to (NoPlan before)
    column,     \* storage_jobs.state ("none" before the job is started)
    job,        \* storage_jobs.job_json: state and receipts
    receipts,   \* storage_item_receipts: <<artifact, step>> for each job
    intent,     \* storage_item_intents: the revision, or 0
    locked,     \* the jobs that have rows in storage_resource_locks
    worker,     \* run_job and execute_cleanup of each job
    canceller,  \* a cancel call for each job
    scanner,    \* the scan in progress
    events      \* how many leases, pins, scans and restarts there have been

inventory == <<disk, record, leased, newer>>
jobs == <<planned, column, job, receipts, intent, locked>>
callers == <<worker, canceller, scanner>>
storageVars == <<inventory, jobs, callers, events>>

Items(j) == Range(Selection[j])
NoReceipts == [a \in Artifacts |-> "none"]
NoPlan == [a \in Artifacts |-> 0]
NewJob == [state |-> "none", receipts |-> NoReceipts]
IdleWorker == [at |-> "idle", job |-> NewJob, item |-> NoOne, revision |-> 0,
               outcome |-> "none", final |-> "none"]
IdleScanner == [at |-> "idle", seen |-> {}, missing |-> {}, revisions |-> NoPlan]

StorageInit ==
    /\ disk = Artifacts
    /\ record = [a \in Artifacts |-> [revision |-> 1, removed |-> FALSE, pinned |-> FALSE]]
    /\ leased = {} /\ newer = {}
    /\ planned = [j \in Jobs |-> NoPlan]
    /\ column = [j \in Jobs |-> "none"]
    /\ job = [j \in Jobs |-> NewJob]
    /\ receipts = [j \in Jobs |-> {}]
    /\ intent = [j \in Jobs |-> NoPlan]
    /\ locked = {}
    /\ worker = [j \in Jobs |-> IdleWorker]
    /\ canceller = [j \in Jobs |-> NewJob]
    /\ scanner = IdleScanner
    /\ events = 0

-----------------------------------------------------------------------------
(* Trees and locks *)

Tree(a) == {b \in Artifacts : b = a \/ a \in Ancestors[b]}

\* lock_resources claims a plan's records for itself and shares their ancestors.
Claimed(j) == Items(j)
Shared(j) == (UNION {Ancestors[a] : a \in Items(j)}) \ Items(j)

\* Mutant: only what a job shares is compared with the claims of others.
SharesOnly(j, k) == Shared(j) \cap Claimed(k) # {}

Conflict(j, k) ==
    \/ Claimed(j) \cap (Claimed(k) \cup Shared(k)) # {}
    \/ Shared(j) \cap Claimed(k) # {}

\* ensure_editable: nobody holds the resource, even shared.
Editable(a) == \A j \in locked : a \notin Claimed(j) \cup Shared(j)

\* Mutant: a lease or a pin does not look at the locks.
AlwaysEditable(a) == TRUE

\* ensure_tree_editable: and nobody has claimed a directory that contains it.
TreeEditable(a) == Editable(a) /\ \A j \in locked : Ancestors[a] \cap Claimed(j) = {}

Kept(a) == a \in leased \/ record[a].pinned

\* validate: a lease or a pin on the artifact, on one inside it or on one around it
\* blocks the removal, as does a directory that is not there.
Removable(a) == a \in disk /\ \A b \in Tree(a) \cup Ancestors[a] : record[b].removed \/ ~Kept(b)

Event == events < MaxEvents /\ events' = events + 1

\* save_changed_for_job: a write takes the next revision and the next sequence.
Saved(a, value) ==
    /\ record' = [record EXCEPT ![a] = [value EXCEPT !.revision = @ + 1]]
    /\ newer' = IF scanner.at = "idle" THEN {} ELSE newer \cup {a}

-----------------------------------------------------------------------------
(* Leases, pins, plans *)

\* lease with remember_lease_use, which touches the record unless it is removed.
Lease(a) ==
    /\ Event
    /\ a \notin leased /\ TreeEditable(a)
    /\ leased' = leased \cup {a}
    /\ IF record[a].removed THEN UNCHANGED <<record, newer>> ELSE Saved(a, record[a])
    /\ UNCHANGED <<disk, jobs, callers>>

\* release_lease also remembers the use, under the same locks; an expired lease is gone.
EndLease(a) ==
    /\ a \in leased /\ leased' = leased \ {a}
    /\ \/ UNCHANGED <<record, newer>>
       \/ ~record[a].removed /\ TreeEditable(a) /\ Saved(a, record[a])
    /\ UNCHANGED <<disk, jobs, callers, events>>

\* protect: the caller's expected revision is the current one, or it is refused.
Protect(a) ==
    /\ Event
    /\ TreeEditable(a)
    /\ Saved(a, [record[a] EXCEPT !.pinned = ~@])
    /\ UNCHANGED <<disk, leased, jobs, callers>>

\* plan binds the revisions of records that may be removed.
Plan(j) ==
    /\ column[j] = "none" /\ planned[j] = NoPlan
    /\ \A a \in Items(j) : ~record[a].removed /\ Removable(a)
    /\ planned' = [planned EXCEPT ![j] = [a \in Artifacts |->
           IF a \in Items(j) THEN record[a].revision ELSE 0]]
    /\ UNCHANGED <<inventory, column, job, receipts, intent, locked, callers, events>>

Unchanged(j) == \A a \in Items(j) : record[a].revision = planned[j][a]

\* start refuses a plan whose records have changed; otherwise queue.
Start(j) ==
    /\ column[j] = "none" /\ planned[j] # NoPlan
    /\ IF Unchanged(j)
       THEN /\ column' = [column EXCEPT ![j] = "queued"]
            /\ job' = [job EXCEPT ![j].state = "queued"]
            /\ UNCHANGED planned
       ELSE planned' = [planned EXCEPT ![j] = NoPlan] /\ UNCHANGED <<column, job>>
    /\ UNCHANGED <<inventory, receipts, intent, locked, callers, events>>

-----------------------------------------------------------------------------
(* The worker of a job *)

At(j, place) == worker[j].at = place
Moves(j, place) == worker' = [worker EXCEPT ![j].at = place]
Rests(j) == worker' = [worker EXCEPT ![j] = IdleWorker]
Ends(j, final) ==
    worker' = [worker EXCEPT ![j] = [IdleWorker EXCEPT !.at = "finish", !.final = final]]
Outcome(j, a, outcome) ==
    worker' = [worker EXCEPT ![j].at = "commit", ![j].item = a, ![j].outcome = outcome,
                             ![j].revision = record[a].revision]
Stored(j, value) ==
    /\ job' = [job EXCEPT ![j] = value]
    /\ column' = [column EXCEPT ![j] = value.state]

\* serve starts a worker for a pending job; begin_job reads it.
BeginRead(j) ==
    /\ At(j, "idle") /\ column[j] \in {"queued", "cancelling"}
    /\ worker' = [worker EXCEPT ![j].at = "begin", ![j].job = job[j]]
    /\ UNCHANGED <<inventory, jobs, canceller, scanner, events>>

\* begin_job writes what it made of what it had read.
BeginWrite(j) ==
    LET read == worker[j].job IN
    /\ At(j, "begin")
    /\ CASE read.state \in {"cancelling", "cancelled"} ->
                Stored(j, [read EXCEPT !.state = "cancelled"]) /\ Rests(j)
         [] read.state = "queued" ->
                /\ Stored(j, [read EXCEPT !.state = "running"])
                /\ worker' = [worker EXCEPT ![j] = [IdleWorker EXCEPT !.at = "lock"]]
         [] OTHER -> Rests(j) /\ UNCHANGED <<column, job>>
    /\ UNCHANGED <<inventory, planned, receipts, intent, locked, canceller, scanner, events>>

\* lock_resources; the locks a job had before a restart are its own.
Lock(j) ==
    /\ At(j, "lock")
    /\ IF \E k \in locked \ {j} : Conflict(j, k)
       THEN Ends(j, "failed") /\ UNCHANGED locked
       ELSE locked' = locked \cup {j} /\ Moves(j, "next")
    /\ UNCHANGED <<inventory, planned, column, job, receipts, intent, canceller, scanner, events>>

\* The places in the plan of the records that have no receipt.
Left(j) == {i \in DOMAIN Selection[j] : job[j].receipts[Selection[j][i]] = "none"}
Statuses(j) == {job[j].receipts[a] : a \in Items(j)}
FinalState(j) ==
    IF Statuses(j) \subseteq {"removed"} THEN "completed"
    ELSE IF Statuses(j) \cap {"removed", "partial"} # {} THEN "partial"
    ELSE "failed"

\* Mutant: an interrupted removal is not recognised after a restart.
NeverInterrupted(j, a) == FALSE

\* has_intent, and the artifact is gone: the removal had happened before the restart.
Interrupted(j, a) == intent[j][a] = record[a].revision /\ a \notin disk

\* What becomes of a record, up to its validation in the current context.
Examine(j, a) ==
    LET covered == \E b \in Ancestors[a] \cap Items(j) : job[j].receipts[b] = "removed"
    IN  IF record[a].revision # planned[j][a] THEN Outcome(j, a, "blocked")
        ELSE IF (covered /\ a \notin disk) \/ Interrupted(j, a) THEN Outcome(j, a, "removed")
        ELSE IF ~Removable(a) THEN Outcome(j, a, "blocked")
        ELSE worker' = [worker EXCEPT ![j].at = "intent", ![j].item = a,
                                      ![j].revision = record[a].revision]

\* The first record of the plan that has no receipt.
NextItem(j) ==
    /\ At(j, "next")
    /\ IF job[j].state \in {"cancelling", "cancelled"} THEN Ends(j, "cancelled")
       ELSE IF Left(j) = {} THEN Ends(j, FinalState(j))
       ELSE \E i \in Left(j) : (\A k \in Left(j) : i <= k) /\ Examine(j, Selection[j][i])
    /\ UNCHANGED <<inventory, jobs, canceller, scanner, events>>

PersistIntent(j) ==
    LET a == worker[j].item IN
    /\ At(j, "intent")
    /\ IF column[j] # "running" THEN Outcome(j, a, "cancelled") /\ UNCHANGED intent
       ELSE IF record[a].revision # worker[j].revision
       THEN Outcome(j, a, "blocked") /\ UNCHANGED intent
       ELSE /\ intent' = [intent EXCEPT ![j][a] = IF @ = 0 THEN worker[j].revision ELSE @]
            /\ Moves(j, "remove")
    /\ UNCHANGED <<inventory, planned, column, job, receipts, locked, canceller, scanner, events>>

\* The backend removes the directory with everything in it, or fails on the way.
RemoveItem(j) ==
    LET a == worker[j].item IN
    /\ At(j, "remove")
    /\ \/ /\ a \in disk /\ disk' = disk \ Tree(a)
          /\ worker' = [worker EXCEPT ![j].at = "commit", ![j].outcome = "removed"]
       \/ /\ worker' = [worker EXCEPT ![j].at = "commit", ![j].outcome = "partial"]
          /\ UNCHANGED disk
    /\ UNCHANGED <<record, leased, newer, jobs, canceller, scanner, events>>

CommitRead(j) ==
    /\ At(j, "commit")
    /\ worker' = [worker EXCEPT ![j].at = "write", ![j].job = job[j]]
    /\ UNCHANGED <<inventory, jobs, canceller, scanner, events>>

Step(value) == Cardinality({a \in Artifacts : value.receipts[a] # "none"})

\* commit_item: the receipt, the record's new revision and the job, in one transaction
\* that fails if the record has changed.  The column keeps a cancellation.
CommitWrite(j) ==
    LET w == worker[j]
        row == <<w.item, Step(w.job)>>
    IN
    /\ At(j, "write")
    /\ IF record[w.item].revision # w.revision \/ row \in receipts[j]
       THEN /\ Ends(j, IF "removed" \in Statuses(j) THEN "partial" ELSE "failed")
            /\ UNCHANGED <<record, newer, job, receipts>>
       ELSE /\ Saved(w.item, [record[w.item] EXCEPT !.removed = @ \/ w.outcome = "removed"])
            /\ receipts' = [receipts EXCEPT ![j] = @ \cup {row}]
            /\ job' = [job EXCEPT ![j] = [w.job EXCEPT !.receipts[w.item] = w.outcome]]
            /\ worker' = [worker EXCEPT ![j] = [IdleWorker EXCEPT !.at = "next"]]
    /\ UNCHANGED <<disk, leased, planned, column, intent, locked, canceller, scanner, events>>

FinishRead(j) ==
    /\ At(j, "finish")
    /\ worker' = [worker EXCEPT ![j].at = "finishing", ![j].job = job[j]]
    /\ UNCHANGED <<inventory, jobs, canceller, scanner, events>>

\* finish: a cancelled job gets a receipt for every record that has none.  A receipt
\* whose key exists fails the transaction, and run_job gives up.
Finish(j, read, final) ==
    LET cancelled == final = "cancelled" \/ read.state \in {"cancelling", "cancelled"}
        left == IF cancelled THEN SelectSeq(Selection[j], LAMBDA a : read.receipts[a] = "none") ELSE <<>>
        rows == {<<left[i], Step(read) + i - 1>> : i \in DOMAIN left}
        ended == [state |-> IF cancelled THEN "cancelled" ELSE final,
                  receipts |-> [a \in Artifacts |->
                      IF a \in Range(left) THEN "cancelled" ELSE read.receipts[a]]]
    IN IF rows \cap receipts[j] # {} THEN UNCHANGED <<column, job, receipts>>
       ELSE Stored(j, ended) /\ receipts' = [receipts EXCEPT ![j] = @ \cup rows]

\* The ResourceGuard is dropped with the job's end, whether finish succeeded or not.
FinishWrite(j) ==
    /\ At(j, "finishing")
    /\ Finish(j, worker[j].job, worker[j].final)
    /\ locked' = locked \ {j} /\ Rests(j)
    /\ UNCHANGED <<inventory, planned, intent, canceller, scanner, events>>

-----------------------------------------------------------------------------
(* Cancellation *)

CancelRead(j) ==
    /\ j \in Cancellable /\ canceller[j] = NewJob /\ column[j] # "none"
    /\ job[j].state \in {"queued", "running"}
    /\ canceller' = [canceller EXCEPT ![j] = job[j]]
    /\ UNCHANGED <<inventory, jobs, worker, scanner, events>>

\* cancel writes back the job it read; a job that had not started is finished next.
CancelWrite(j) ==
    LET read == canceller[j]
        answer == IF read.state = "queued" THEN "cancelled" ELSE "cancelling"
    IN
    /\ read.state \in {"queued", "running"}
    /\ Stored(j, [read EXCEPT !.state = answer])
    /\ canceller' = [canceller EXCEPT ![j] = IF answer = "cancelled" THEN [@ EXCEPT !.state = answer]
                                             ELSE NewJob]
    /\ UNCHANGED <<inventory, planned, receipts, intent, locked, worker, scanner, events>>

CancelFinish(j) ==
    /\ canceller[j].state = "cancelled"
    /\ Finish(j, job[j], "cancelled")
    /\ canceller' = [canceller EXCEPT ![j] = NewJob]
    /\ UNCHANGED <<inventory, planned, intent, locked, worker, scanner, events>>

-----------------------------------------------------------------------------
(* Scans *)

\* execute_scan_step takes the scan's sequence before it looks at anything.
ScanStart ==
    /\ scanner.at = "idle" /\ Event
    /\ newer' = {}
    /\ scanner' = [IdleScanner EXCEPT !.at = "discover"]
    /\ UNCHANGED <<disk, record, leased, jobs, worker, canceller>>

Discover ==
    /\ scanner.at = "discover"
    /\ scanner' = [scanner EXCEPT !.at = "match", !.seen = disk]
    /\ UNCHANGED <<inventory, jobs, worker, canceller, events>>

\* Mutant: a scan overwrites what was recorded after it began.
AlwaysFresh(a) == TRUE

Fresh(a) == a \notin newer

\* ReconcileCursor, phases 0 to 4: what to write, from the records as they are now.
Match ==
    /\ scanner.at = "match"
    /\ scanner' = [scanner EXCEPT !.at = "store",
           !.seen = {a \in @ : Fresh(a)},
           !.missing = {a \in Artifacts \ (scanner.seen \cup disk) : Fresh(a) /\ ~record[a].removed},
           !.revisions = [a \in Artifacts |-> record[a].revision]]
    /\ UNCHANGED <<inventory, jobs, worker, canceller, events>>

\* Phases 5 and 6: each record that nobody holds or has changed in the meantime.
Store ==
    LET open(a) == Editable(a) /\ record[a].revision = scanner.revisions[a] /\ Fresh(a)
        found == {a \in scanner.seen : open(a)}
        gone == {a \in scanner.missing : open(a)}
    IN
    /\ scanner.at = "store"
    /\ record' = [a \in Artifacts |->
           IF a \in found
           THEN [record[a] EXCEPT !.revision = IF record[a].removed THEN @ + 1 ELSE @, !.removed = FALSE]
           ELSE IF a \in gone THEN [record[a] EXCEPT !.revision = @ + 1, !.removed = TRUE]
           ELSE record[a]]
    /\ scanner' = IdleScanner /\ newer' = {}
    /\ UNCHANGED <<disk, leased, jobs, worker, canceller, events>>

-----------------------------------------------------------------------------
(* Restart *)

\* The daemon stops anywhere; recover_jobs drops the locks of ended jobs and queues the
\* running ones again.
Crash ==
    /\ Event
    /\ locked' = {j \in locked : column[j] \in {"queued", "running", "cancelling"}}
    /\ column' = [j \in Jobs |-> IF column[j] = "running" THEN "queued" ELSE column[j]]
    /\ job' = [j \in Jobs |-> IF column[j] = "running" THEN [job[j] EXCEPT !.state = "queued"] ELSE job[j]]
    /\ worker' = [j \in Jobs |-> IdleWorker]
    /\ canceller' = [j \in Jobs |-> NewJob]
    /\ scanner' = IdleScanner /\ newer' = {}
    /\ UNCHANGED <<disk, record, leased, planned, receipts, intent>>

WorkerStep(j) ==
    \/ BeginRead(j) \/ BeginWrite(j) \/ Lock(j) \/ NextItem(j) \/ PersistIntent(j) \/ RemoveItem(j)
    \/ CommitRead(j) \/ CommitWrite(j) \/ FinishRead(j) \/ FinishWrite(j)

StorageNext ==
    \/ \E a \in Artifacts : Lease(a) \/ EndLease(a) \/ Protect(a)
    \/ \E j \in Jobs : \/ Plan(j) \/ Start(j) \/ WorkerStep(j)
                       \/ CancelRead(j) \/ CancelWrite(j) \/ CancelFinish(j)
    \/ ScanStart \/ Discover \/ Match \/ Store
    \/ Crash

StorageSpec == StorageInit /\ [][StorageNext]_storageVars

-----------------------------------------------------------------------------
(* Properties *)

Ended == {"completed", "partial", "failed", "cancelled"}

\* No directory is removed while a lease or a pin is on it, or on anything in it: between
\* the validation of an item and its removal, the locks keep new leases and pins out.
KeptIsNeverRemoved ==
    [][\A a \in disk \ disk' : Kept(a) => record[a].removed]_storageVars

\* Two cleanups never work in one tree at a time: no job is past its locks while another
\* is removing something in, or around, what it has selected.
OneRemoverPerTree ==
    \A j, k \in Jobs :
        j # k /\ {worker[j].at, worker[k].at} \subseteq {"intent", "remove", "commit", "write"}
            => \A a \in Items(j), b \in Items(k) : Tree(a) \cap Tree(b) = {}

\* What cleanup has recorded as removed is never brought back by a scan that looked
\* before the removal (nothing in this model creates a directory again).
TombstoneIsFinal == [][\A a \in Artifacts : record[a].removed => record'[a].removed]_storageVars

\* A job that nobody cancels ends with a receipt for every removal that it has begun and
\* that has happened, a restart between the removal and its receipt included.  (With a
\* cancellation it may not: see CancelledStaysCancelled.)
RemovalIsReported ==
    \A j \in Jobs \ Cancellable, a \in Artifacts :
        job[j].state \in Ended /\ intent[j][a] # 0 /\ a \notin disk
            => job[j].receipts[a] \in {"removed", "partial"}

\* docs/storage.md: a job that has been cancelled takes no further step.
CancelledStaysCancelled ==
    [][\A j \in Jobs : job[j].state = "cancelled" => job'[j].state = "cancelled"]_storageVars
=============================================================================
