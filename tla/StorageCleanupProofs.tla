------------------------ MODULE StorageCleanupProofs ------------------------
(***************************************************************************)
(* Proofs about StorageCleanup, for any tree of artifacts and any jobs.    *)
(***************************************************************************)
EXTENDS StorageCleanup, TLAPS

\* The types.
States == {"none", "queued", "running", "cancelling", "completed", "partial", "failed", "cancelled"}
Outcomes == {"none", "removed", "partial", "blocked", "cancelled"}
Places == {"idle", "begin", "lock", "next", "intent", "remove", "commit", "write", "finish",
           "finishing"}
Records == [revision : Nat, removed : BOOLEAN, pinned : BOOLEAN]
JobValues == [state : States, receipts : [Artifacts -> Outcomes]]
Workers == [at : Places, job : JobValues, item : Artifacts \cup {NoOne}, revision : Nat,
            outcome : Outcomes, final : States]
Scans == [at : {"idle", "discover", "match", "store"}, seen : SUBSET Artifacts,
          missing : SUBSET Artifacts, revisions : [Artifacts -> Nat]]

StorageTypeOK ==
    /\ disk \in SUBSET Artifacts
    /\ record \in [Artifacts -> Records]
    /\ leased \in SUBSET Artifacts
    /\ newer \in SUBSET Artifacts
    /\ planned \in [Jobs -> [Artifacts -> Nat]]
    /\ column \in [Jobs -> States]
    /\ job \in [Jobs -> JobValues]
    /\ receipts = [j \in Jobs |-> receipts[j]]
    /\ intent \in [Jobs -> [Artifacts -> Nat]]
    /\ locked \in SUBSET Jobs
    /\ worker \in [Jobs -> Workers]
    /\ canceller \in [Jobs -> JobValues]
    /\ scanner \in Scans

\* The fields of a value of each type.
LEMMA Fields ==
    /\ \A r \in Records : r.revision \in Nat /\ r.removed \in BOOLEAN /\ r.pinned \in BOOLEAN
    /\ \A v \in JobValues : v.state \in States /\ v.receipts \in [Artifacts -> Outcomes]
    /\ \A w \in Workers : /\ w.at \in Places /\ w.job \in JobValues /\ w.item \in Artifacts \cup {NoOne}
                          /\ w.revision \in Nat /\ w.outcome \in Outcomes /\ w.final \in States
    /\ \A s \in Scans : /\ s.at \in {"idle", "discover", "match", "store"}
                        /\ s.seen \in SUBSET Artifacts /\ s.missing \in SUBSET Artifacts
                        /\ s.revisions \in [Artifacts -> Nat]
BY DEF Records, JobValues, Workers, Scans

\* What an update of a job changes and keeps.
LEMMA JobEdits ==
    ASSUME NEW v \in JobValues
    PROVE  /\ \A s \in States : /\ [v EXCEPT !.state = s] \in JobValues
                                /\ [v EXCEPT !.state = s].state = s
                                /\ [v EXCEPT !.state = s].receipts = v.receipts
           /\ \A a \in Artifacts, o \in Outcomes :
                  /\ [v EXCEPT !.receipts[a] = o] \in JobValues
                  /\ [v EXCEPT !.receipts[a] = o].state = v.state
                  /\ [v EXCEPT !.receipts[a] = o].receipts = [v.receipts EXCEPT ![a] = o]
BY Zenon DEF JobValues

\* The initial values have their types.
LEMMA Constants ==
    /\ NewJob \in JobValues /\ NoPlan \in [Artifacts -> Nat]
    /\ IdleWorker \in Workers /\ IdleScanner \in Scans
    /\ \A p \in Places, s \in States : [IdleWorker EXCEPT !.at = p, !.final = s] \in Workers
    /\ \A p \in Places : [IdleWorker EXCEPT !.at = p] \in Workers
BY Zenon DEF NewJob, NoReceipts, NoPlan, IdleWorker, IdleScanner, JobValues, Workers, Scans, States, Outcomes, Places


\* The worker of j changes to the given fields; the others stay as they are.
Becomes(j, at, value, item, revision, outcome, final) ==
    /\ worker' \in [Jobs -> Workers]
    /\ \A k \in Jobs : k # j => worker'[k] = worker[k]
    /\ worker'[j].at = at /\ worker'[j].job = value /\ worker'[j].item = item
    /\ worker'[j].revision = revision /\ worker'[j].outcome = outcome /\ worker'[j].final = final

\* One entry of worker is replaced.
LEMMA OneWorkerChanges ==
    ASSUME worker \in [Jobs -> Workers], NEW j \in Jobs, NEW w \in Workers,
           worker' = [worker EXCEPT ![j] = w]
    PROVE  Becomes(j, w.at, w.job, w.item, w.revision, w.outcome, w.final)
BY DEF Becomes

\* A worker that has come to its end.
LEMMA Resting ==
    ASSUME worker \in [Jobs -> Workers], NEW j \in Jobs, Rests(j)
    PROVE  Becomes(j, "idle", NewJob, NoOne, 0, "none", "none")
BY Zenon, OneWorkerChanges, Constants DEF Rests, IdleWorker

\* A worker that starts at a place.
LEMMA Starting ==
    ASSUME worker \in [Jobs -> Workers], NEW j \in Jobs, NEW p \in Places,
           worker' = [worker EXCEPT ![j] = [IdleWorker EXCEPT !.at = p]]
    PROVE  Becomes(j, p, NewJob, NoOne, 0, "none", "none")
BY Zenon, OneWorkerChanges, Constants DEF IdleWorker

\* A worker that is to finish its job in a state.
LEMMA Ending ==
    ASSUME worker \in [Jobs -> Workers], NEW j \in Jobs, NEW s \in States, Ends(j, s)
    PROVE  Becomes(j, "finish", NewJob, NoOne, 0, "none", s)
BY Zenon, OneWorkerChanges, Constants DEF Ends, IdleWorker, Places

\* A worker that only moves.
LEMMA Moving ==
    ASSUME worker \in [Jobs -> Workers], NEW j \in Jobs, NEW p \in Places, Moves(j, p)
    PROVE  Becomes(j, p, worker[j].job, worker[j].item, worker[j].revision, worker[j].outcome,
                   worker[j].final)
BY Zenon DEF Moves, Workers, Becomes

\* A worker that moves with what it has read of its job.
LEMMA Reading ==
    ASSUME worker \in [Jobs -> Workers], NEW j \in Jobs, NEW p \in Places, NEW v \in JobValues,
           worker' = [worker EXCEPT ![j].at = p, ![j].job = v]
    PROVE  Becomes(j, p, v, worker[j].item, worker[j].revision, worker[j].outcome, worker[j].final)
BY Zenon DEF Workers, Becomes

\* A worker that moves with the outcome of a removal.
LEMMA Removing ==
    ASSUME worker \in [Jobs -> Workers], NEW j \in Jobs, NEW p \in Places, NEW o \in Outcomes,
           worker' = [worker EXCEPT ![j].at = p, ![j].outcome = o]
    PROVE  Becomes(j, p, worker[j].job, worker[j].item, worker[j].revision, o, worker[j].final)
BY Zenon DEF Workers, Becomes

\* A worker that moves with an item and its revision.
LEMMA Choosing ==
    ASSUME worker \in [Jobs -> Workers], NEW j \in Jobs, NEW p \in Places, NEW a \in Artifacts,
           NEW n \in Nat,
           worker' = [worker EXCEPT ![j].at = p, ![j].item = a, ![j].revision = n]
    PROVE  Becomes(j, p, worker[j].job, a, n, worker[j].outcome, worker[j].final)
BY Zenon DEF Workers, Becomes

\* A worker that has the outcome of an item.
LEMMA Deciding ==
    ASSUME worker \in [Jobs -> Workers], NEW j \in Jobs, NEW a \in Artifacts, NEW o \in Outcomes,
           record[a].revision \in Nat, Outcome(j, a, o)
    PROVE  Becomes(j, "commit", worker[j].job, a, record[a].revision, o, worker[j].final)
<1> DEFINE w == [worker[j] EXCEPT !.at = "commit", !.item = a, !.outcome = o,
                                     !.revision = record[a].revision]
<1>1. worker[j] \in Workers
  OBVIOUS
<1>2. worker' = [worker EXCEPT ![j] = w]
  BY Zenon DEF Outcome, Workers
<1>3. /\ w.at = "commit" /\ w.item = a /\ w.outcome = o /\ w.revision = record[a].revision
      /\ w.job = worker[j].job /\ w.final = worker[j].final
  BY Zenon, <1>1 DEF Workers
<1>4. w \in Workers
  BY Zenon, <1>1 DEF Workers, Places
<1> QED
  BY Zenon, <1>2, <1>3, <1>4, OneWorkerChanges

\* Saved changes one record, and tells a scan in progress.
LEMMA RecordChanges ==
    ASSUME record \in [Artifacts -> Records], newer \in SUBSET Artifacts,
           NEW a \in Artifacts, NEW value \in Records, Saved(a, value)
    PROVE  /\ record' \in [Artifacts -> Records] /\ newer' \in SUBSET Artifacts
           /\ \A b \in Artifacts : b # a => record'[b] = record[b]
           /\ record'[a].removed = value.removed /\ record'[a].pinned = value.pinned
           /\ scanner.at # "idle" => newer' = newer \cup {a}
<1>1. value.revision + 1 \in Nat
  BY Fields
<1> DEFINE r == [value EXCEPT !.revision = value.revision + 1]
<1>2. r \in Records /\ r.removed = value.removed /\ r.pinned = value.pinned
  BY Zenon, <1>1 DEF Records
<1>3. record' = [record EXCEPT ![a] = r]
  BY DEF Saved
<1>4. newer' \in SUBSET Artifacts /\ (scanner.at # "idle" => newer' = newer \cup {a})
  BY DEF Saved
<1> HIDE DEF r
<1> QED
  BY <1>2, <1>3, <1>4

\* The items of a plan; one that is left has no receipt.
LEMMA ItemsAreArtifacts ==
    ASSUME NEW j \in Jobs
    PROVE  /\ Items(j) \in SUBSET Artifacts
           /\ \A i \in Left(j) : /\ Selection[j][i] \in Items(j)
                                 /\ job[j].receipts[Selection[j][i]] = "none"
<1>1. Selection[j] \in Seq(Artifacts)
  BY StorageConstants
<1>2. Items(j) \in SUBSET Artifacts
  BY <1>1 DEF Items, Range
<1> QED
  BY Zenon, <1>2 DEF Left, Items, Range

-----------------------------------------------------------------------------
(* Types, and what each action does to the records and to the workers *)

\* Types hold at first.
LEMMA InitTyped ==
    ASSUME StorageInit
    PROVE  StorageTypeOK
<1>1. record \in [Artifacts -> Records]
  BY DEF StorageInit, Records
<1>2. /\ planned \in [Jobs -> [Artifacts -> Nat]] /\ intent \in [Jobs -> [Artifacts -> Nat]]
      /\ job \in [Jobs -> JobValues] /\ canceller \in [Jobs -> JobValues]
      /\ worker \in [Jobs -> Workers] /\ scanner \in Scans
  BY Zenon, Constants DEF StorageInit
<1>3. column \in [Jobs -> States] /\ receipts = [j \in Jobs |-> receipts[j]]
  BY DEF StorageInit, States
<1> QED
  BY <1>1, <1>2, <1>3 DEF StorageInit, StorageTypeOK

\* A lease, its end and a pin change at most the record they are about, and never
\* whether it is removed.
LEMMA OwnerEdits ==
    ASSUME StorageTypeOK, NEW a \in Artifacts, Lease(a) \/ EndLease(a) \/ Protect(a)
    PROVE  /\ StorageTypeOK'
           /\ \A b \in Artifacts : record'[b].removed = record[b].removed
           /\ \A b \in Artifacts : b # a => record'[b] = record[b] /\ (Kept(b)' <=> Kept(b))
           /\ record' # record \/ (Kept(a)' /\ ~Kept(a)) => TreeEditable(a)
           /\ scanner.at # "idle" => newer \subseteq newer'
<1>1. record[a] \in Records /\ (~record[a].pinned) \in BOOLEAN
  BY Fields DEF StorageTypeOK
<1> DEFINE pinned == [record[a] EXCEPT !.pinned = ~record[a].pinned]
<1>2. pinned \in Records /\ pinned.removed = record[a].removed
  BY Zenon, <1>1 DEF Records
<1>3. CASE Lease(a)
  <2>1. leased' = leased \cup {a} /\ TreeEditable(a)
    BY <1>3 DEF Lease
  <2>2. \/ record' = record /\ newer' = newer
        \/ Saved(a, record[a])
    BY <1>3 DEF Lease
  <2>3. /\ record' \in [Artifacts -> Records] /\ newer' \in SUBSET Artifacts
        /\ \A b \in Artifacts : b # a => record'[b] = record[b]
        /\ record'[a].removed = record[a].removed
        /\ scanner.at # "idle" => newer \subseteq newer'
    BY <1>1, <2>2, RecordChanges DEF StorageTypeOK
  <2> QED
    BY <1>3, <2>1, <2>3 DEF Lease, StorageTypeOK, Kept, jobs, callers
<1>4. CASE EndLease(a)
  <2>1. /\ leased' = leased \ {a}
        /\ \/ record' = record /\ newer' = newer
           \/ Saved(a, record[a]) /\ TreeEditable(a)
    BY <1>4 DEF EndLease
  <2>3. /\ record' \in [Artifacts -> Records] /\ newer' \in SUBSET Artifacts
        /\ \A b \in Artifacts : b # a => record'[b] = record[b]
        /\ record'[a].removed = record[a].removed /\ record'[a].pinned = record[a].pinned
        /\ scanner.at # "idle" => newer \subseteq newer'
    BY <1>1, <2>1, RecordChanges DEF StorageTypeOK
  <2> QED
    BY <1>4, <2>1, <2>3 DEF EndLease, StorageTypeOK, Kept, jobs, callers
<1>5. CASE Protect(a)
  <2>1. TreeEditable(a) /\ leased' = leased /\ Saved(a, pinned)
    BY <1>5 DEF Protect
  <2>3. /\ record' \in [Artifacts -> Records] /\ newer' \in SUBSET Artifacts
        /\ \A b \in Artifacts : b # a => record'[b] = record[b]
        /\ record'[a].removed = record[a].removed
        /\ scanner.at # "idle" => newer \subseteq newer'
    BY Zenon, <1>2, <2>1, RecordChanges DEF StorageTypeOK
  <2> QED
    BY <1>5, <2>1, <2>3, Zenon DEF Protect, StorageTypeOK, Kept, jobs, callers
<1> QED
  BY <1>3, <1>4, <1>5

\* A plan and a start keep the types.
LEMMA PlanTyped ==
    ASSUME StorageTypeOK, NEW j \in Jobs, Plan(j) \/ Start(j)
    PROVE  StorageTypeOK'
<1>1. \A a \in Artifacts : record[a].revision \in Nat
  BY Fields DEF StorageTypeOK
<1>2. planned' \in [Jobs -> [Artifacts -> Nat]]
  <2>1. [a \in Artifacts |-> IF a \in Items(j) THEN record[a].revision ELSE 0] \in [Artifacts -> Nat]
    BY <1>1
  <2>2. \/ planned' = planned
        \/ \E p \in [Artifacts -> Nat] : planned' = [planned EXCEPT ![j] = p]
    BY Zenon, <2>1, Constants DEF Plan, Start
  <2> QED
    BY <2>2 DEF StorageTypeOK
<1>3. column' \in [Jobs -> States]
  BY Zenon DEF Plan, Start, StorageTypeOK, States
<1>4. job' \in [Jobs -> JobValues]
  <2>1. \/ job' = job
        \/ job' = [job EXCEPT ![j].state = "queued"]
    BY DEF Plan, Start
  <2>2. [job EXCEPT ![j].state = "queued"] \in [Jobs -> JobValues]
    BY Zenon DEF StorageTypeOK, JobValues, States
  <2> QED
    BY Zenon, <2>1, <2>2 DEF StorageTypeOK
<1> QED
  BY <1>2, <1>3, <1>4 DEF Plan, Start, StorageTypeOK, inventory, callers

\* The row of job j gets a state and receipts; the others stay as they are.
Puts(j, state, list) ==
    /\ job' \in [Jobs -> JobValues] /\ column' \in [Jobs -> States]
    /\ \A k \in Jobs : k # j => job'[k] = job[k] /\ column'[k] = column[k]
    /\ job'[j].state = state /\ job'[j].receipts = list /\ column'[j] = state

\* Stored replaces one row.
LEMMA Storing ==
    ASSUME StorageTypeOK, NEW j \in Jobs, NEW value \in JobValues, Stored(j, value)
    PROVE  Puts(j, value.state, value.receipts)
BY Fields DEF Stored, Puts, StorageTypeOK

\* Stored with a new state and the receipts that were read.
LEMMA StoringState ==
    ASSUME StorageTypeOK, NEW j \in Jobs, NEW read \in JobValues, NEW s \in States,
           Stored(j, [read EXCEPT !.state = s])
    PROVE  Puts(j, s, read.receipts)
<1> DEFINE value == [read EXCEPT !.state = s]
<1>1. value \in JobValues /\ value.state = s /\ value.receipts = read.receipts
  BY Zenon DEF JobValues
<1>2. Stored(j, value)
  OBVIOUS
<1> HIDE DEF value
<1> QED
  BY <1>1, <1>2, Storing

Reads(j, place) ==
    Becomes(j, place, job[j], worker[j].item, worker[j].revision, worker[j].outcome, worker[j].final)

\* The steps that read the job.
LEMMA ReadSteps ==
    ASSUME StorageTypeOK, NEW j \in Jobs
    PROVE  /\ BeginRead(j) => StorageTypeOK' /\ Reads(j, "begin")
           /\ CommitRead(j) => StorageTypeOK' /\ Reads(j, "write")
           /\ FinishRead(j) => StorageTypeOK' /\ Reads(j, "finishing")
<1>1. worker \in [Jobs -> Workers] /\ job[j] \in JobValues
  BY DEF StorageTypeOK
<1>2. "begin" \in Places /\ "write" \in Places /\ "finishing" \in Places
  BY DEF Places
<1>3. ASSUME BeginRead(j) PROVE StorageTypeOK' /\ Reads(j, "begin")
  <2>1. Reads(j, "begin")
    BY Zenon, <1>1, <1>2, <1>3, Reading DEF BeginRead, Reads
  <2> QED
    BY <1>3, <2>1 DEF BeginRead, Reads, Becomes, StorageTypeOK, inventory, jobs
<1>4. ASSUME CommitRead(j) PROVE StorageTypeOK' /\ Reads(j, "write")
  <2>1. Reads(j, "write")
    BY Zenon, <1>1, <1>2, <1>4, Reading DEF CommitRead, Reads
  <2> QED
    BY <1>4, <2>1 DEF CommitRead, Reads, Becomes, StorageTypeOK, inventory, jobs
<1>5. ASSUME FinishRead(j) PROVE StorageTypeOK' /\ Reads(j, "finishing")
  <2>1. Reads(j, "finishing")
    BY Zenon, <1>1, <1>2, <1>5, Reading DEF FinishRead, Reads
  <2> QED
    BY <1>5, <2>1 DEF FinishRead, Reads, Becomes, StorageTypeOK, inventory, jobs
<1> QED
  BY <1>3, <1>4, <1>5

\* What begin_job writes.
LEMMA BeginWriteStep ==
    ASSUME StorageTypeOK, NEW j \in Jobs, BeginWrite(j)
    PROVE  /\ StorageTypeOK'
           /\ \/ /\ worker[j].job.state \in {"cancelling", "cancelled"}
                 /\ Puts(j, "cancelled", worker[j].job.receipts)
                 /\ Becomes(j, "idle", NewJob, NoOne, 0, "none", "none")
              \/ /\ worker[j].job.state = "queued"
                 /\ Puts(j, "running", worker[j].job.receipts)
                 /\ Becomes(j, "lock", NewJob, NoOne, 0, "none", "none")
              \/ /\ worker[j].job.state \notin {"queued", "cancelling", "cancelled"}
                 /\ Becomes(j, "idle", NewJob, NoOne, 0, "none", "none")
                 /\ UNCHANGED <<column, job>>
<1> DEFINE read == worker[j].job
<1>1. worker \in [Jobs -> Workers] /\ read \in JobValues
  BY Fields DEF StorageTypeOK
<1>2. /\ "cancelled" \in States /\ "running" \in States /\ "lock" \in Places
  BY DEF States, Places
<1>3. CASE read.state \in {"cancelling", "cancelled"}
  <2>1. Stored(j, [read EXCEPT !.state = "cancelled"]) /\ Rests(j)
    BY <1>3 DEF BeginWrite
  <2> QED
    BY <1>1, <1>2, <1>3, <2>1, StoringState, Resting
       DEF BeginWrite, Becomes, Puts, StorageTypeOK, inventory
<1>4. CASE read.state = "queued"
  <2>1. /\ Stored(j, [read EXCEPT !.state = "running"])
        /\ worker' = [worker EXCEPT ![j] = [IdleWorker EXCEPT !.at = "lock"]]
    BY <1>4 DEF BeginWrite
  <2>2. Puts(j, "running", read.receipts)
    BY <1>1, <1>2, <2>1, StoringState
  <2>3. Becomes(j, "lock", NewJob, NoOne, 0, "none", "none")
    BY Zenon, <1>1, <1>2, <2>1, Starting
  <2> QED
    BY <1>4, <2>2, <2>3 DEF BeginWrite, Becomes, Puts, StorageTypeOK, inventory
<1>5. CASE read.state \notin {"queued", "cancelling", "cancelled"}
  <2>1. Rests(j) /\ UNCHANGED <<column, job>>
    BY <1>5 DEF BeginWrite
  <2> QED
    BY <1>1, <1>5, <2>1, Resting DEF BeginWrite, Becomes, StorageTypeOK, inventory
<1> QED
  BY <1>3, <1>4, <1>5

\* What lock_resources does.
LEMMA LockStep ==
    ASSUME StorageTypeOK, NEW j \in Jobs, Lock(j)
    PROVE  /\ StorageTypeOK'
           /\ \/ /\ \E k \in locked \ {j} : Conflict(j, k)
                 /\ Becomes(j, "finish", NewJob, NoOne, 0, "none", "failed")
                 /\ locked' = locked
              \/ /\ \A k \in locked \ {j} : ~Conflict(j, k)
                 /\ Becomes(j, "next", worker[j].job, worker[j].item, worker[j].revision,
                            worker[j].outcome, worker[j].final)
                 /\ locked' = locked \cup {j}
<1>1. worker \in [Jobs -> Workers] /\ "failed" \in States /\ "next" \in Places
  BY DEF StorageTypeOK, States, Places
<1>2. CASE \E k \in locked \ {j} : Conflict(j, k)
  <2>1. Ends(j, "failed") /\ locked' = locked
    BY <1>2 DEF Lock
  <2> QED
    BY <1>1, <1>2, <2>1, Ending DEF Lock, Becomes, StorageTypeOK, inventory
<1>3. CASE ~\E k \in locked \ {j} : Conflict(j, k)
  <2>1. Moves(j, "next") /\ locked' = locked \cup {j}
    BY <1>3 DEF Lock
  <2> QED
    BY <1>1, <1>3, <2>1, Moving DEF Lock, Becomes, StorageTypeOK, inventory
<1> QED
  BY <1>2, <1>3

\* An item of job j is to get the receipt o, and its record is as it is now.
Decides(j, a, o) ==
    Becomes(j, "commit", worker[j].job, a, record[a].revision, o, worker[j].final)

\* A job that is not cancelled ends in one of these.
LEMMA FinalStates ==
    ASSUME NEW j \in Jobs
    PROVE  FinalState(j) \in {"completed", "partial", "failed"}
BY DEF FinalState

\* What the loop of execute_cleanup decides on the next item.
LEMMA NextItemStep ==
    ASSUME StorageTypeOK, NEW j \in Jobs, NextItem(j)
    PROVE  /\ StorageTypeOK'
           /\ \/ \E s \in States : /\ s = "cancelled" => job[j].state \in {"cancelling", "cancelled"}
                                   /\ s # "cancelled" => Left(j) = {} /\ s \in {"completed", "partial", "failed"}
                                   /\ Becomes(j, "finish", NewJob, NoOne, 0, "none", s)
              \/ \E a \in Items(j) :
                     /\ a \in Artifacts /\ job[j].receipts[a] = "none"
                     /\ \/ /\ a \notin disk /\ Decides(j, a, "removed")
                        \/ /\ \/ record[a].revision # planned[j][a]
                              \/ ~Interrupted(j, a) /\ ~Removable(a)
                           /\ Decides(j, a, "blocked")
                        \/ /\ record[a].revision = planned[j][a] /\ Removable(a)
                           /\ Becomes(j, "intent", worker[j].job, a, record[a].revision,
                                      worker[j].outcome, worker[j].final)
<1>1. worker \in [Jobs -> Workers] /\ "cancelled" \in States /\ "intent" \in Places
  BY DEF StorageTypeOK, States, Places
<1>2. UNCHANGED <<inventory, jobs, canceller, scanner, events>>
  BY Zenon DEF NextItem
<1>3. CASE job[j].state \in {"cancelling", "cancelled"}
  <2>1. Ends(j, "cancelled")
    BY <1>3 DEF NextItem
  <2>2. Becomes(j, "finish", NewJob, NoOne, 0, "none", "cancelled")
    BY <1>1, <2>1, Ending
  <2> QED
    <3>1. StorageTypeOK'
      BY <1>2, <2>2 DEF Becomes, StorageTypeOK, inventory, jobs
    <3> QED
      BY <1>1, <1>3, <2>2, <3>1
<1>4. CASE job[j].state \notin {"cancelling", "cancelled"} /\ Left(j) = {}
  <2>1. Ends(j, FinalState(j))
    BY <1>4 DEF NextItem
  <2>2. FinalState(j) \in States /\ FinalState(j) \in {"completed", "partial", "failed"}
    BY FinalStates DEF States
  <2>3. Becomes(j, "finish", NewJob, NoOne, 0, "none", FinalState(j))
    BY <1>1, <2>1, <2>2, Ending
  <2> QED
    <3>1. StorageTypeOK'
      BY <1>2, <2>3 DEF Becomes, StorageTypeOK, inventory, jobs
    <3> QED
      BY <1>4, <2>2, <2>3, <3>1
<1>5. CASE job[j].state \notin {"cancelling", "cancelled"} /\ Left(j) # {}
  <2>0. PICK i \in Left(j) : Examine(j, Selection[j][i])
    BY Zenon, <1>5 DEF NextItem
  <2> DEFINE a == Selection[j][i]
  <2>1. a \in Items(j) /\ a \in Artifacts /\ job[j].receipts[a] = "none"
    BY <2>0, ItemsAreArtifacts
  <2>2. record[a].revision \in Nat /\ "removed" \in Outcomes /\ "blocked" \in Outcomes
    BY <2>1, Fields DEF StorageTypeOK, Outcomes
  <2>3. \/ /\ a \notin disk /\ Outcome(j, a, "removed")
        \/ /\ record[a].revision # planned[j][a] \/ (~Interrupted(j, a) /\ ~Removable(a))
           /\ Outcome(j, a, "blocked")
        \/ /\ record[a].revision = planned[j][a] /\ Removable(a)
           /\ worker' = [worker EXCEPT ![j].at = "intent", ![j].item = a,
                                       ![j].revision = record[a].revision]
    BY Zenon, <2>0 DEF Examine, Interrupted
  <2> HIDE DEF a
  <2>4. \/ /\ a \notin disk /\ Decides(j, a, "removed")
        \/ /\ record[a].revision # planned[j][a] \/ (~Interrupted(j, a) /\ ~Removable(a))
           /\ Decides(j, a, "blocked")
        \/ /\ record[a].revision = planned[j][a] /\ Removable(a)
           /\ Becomes(j, "intent", worker[j].job, a, record[a].revision, worker[j].outcome,
                      worker[j].final)
    <3>1. Outcome(j, a, "removed") => Decides(j, a, "removed")
      BY <1>1, <2>1, <2>2, Deciding DEF Decides
    <3>2. Outcome(j, a, "blocked") => Decides(j, a, "blocked")
      BY <1>1, <2>1, <2>2, Deciding DEF Decides
    <3>3. worker' = [worker EXCEPT ![j].at = "intent", ![j].item = a,
                                   ![j].revision = record[a].revision]
          => Becomes(j, "intent", worker[j].job, a, record[a].revision, worker[j].outcome,
                     worker[j].final)
      BY Zenon, <1>1, <2>1, <2>2, Choosing
    <3> QED
      BY <2>3, <3>1, <3>2, <3>3
  <2>5. StorageTypeOK'
    BY <1>2, <2>4 DEF Decides, Becomes, StorageTypeOK, inventory, jobs
  <2> QED
    BY <2>1, <2>4, <2>5
<1> QED
  BY <1>3, <1>4, <1>5

\* What the intent of an item changes.
LEMMA PersistIntentStep ==
    ASSUME StorageTypeOK, NEW j \in Jobs, PersistIntent(j), worker[j].item \in Artifacts
    PROVE  LET a == worker[j].item IN
           /\ StorageTypeOK'
           /\ \/ /\ column[j] # "running" /\ intent' = intent
                 /\ Decides(j, a, "cancelled")
              \/ /\ record[a].revision # worker[j].revision /\ intent' = intent
                 /\ Decides(j, a, "blocked")
              \/ /\ record[a].revision = worker[j].revision
                 /\ intent' = [intent EXCEPT ![j] = [intent[j] EXCEPT ![a] =
                                  IF intent[j][a] = 0 THEN worker[j].revision ELSE intent[j][a]]]
                 /\ Becomes(j, "remove", worker[j].job, worker[j].item, worker[j].revision,
                            worker[j].outcome, worker[j].final)
<1> DEFINE a == worker[j].item
           n == IF intent[j][a] = 0 THEN worker[j].revision ELSE intent[j][a]
<1>1. /\ worker \in [Jobs -> Workers] /\ record[a].revision \in Nat /\ worker[j].revision \in Nat
      /\ intent \in [Jobs -> [Artifacts -> Nat]]
  BY Fields DEF StorageTypeOK
<1>2. "cancelled" \in Outcomes /\ "blocked" \in Outcomes /\ "remove" \in Places
  BY DEF Outcomes, Places
<1>3. UNCHANGED <<inventory, planned, column, job, receipts, locked, canceller, scanner, events>>
  BY DEF PersistIntent
<1>4. CASE column[j] # "running"
  <2>1. Outcome(j, a, "cancelled") /\ intent' = intent
    BY <1>4 DEF PersistIntent
  <2>2. Decides(j, a, "cancelled")
    BY <1>1, <1>2, <2>1, Deciding DEF Decides
  <2>3. StorageTypeOK'
    BY <1>3, <2>1, <2>2 DEF Decides, Becomes, StorageTypeOK, inventory
  <2> QED
    BY <1>4, <2>1, <2>2, <2>3
<1>5. CASE column[j] = "running" /\ record[a].revision # worker[j].revision
  <2>1. Outcome(j, a, "blocked") /\ intent' = intent
    BY <1>5 DEF PersistIntent
  <2>2. Decides(j, a, "blocked")
    BY <1>1, <1>2, <2>1, Deciding DEF Decides
  <2>3. StorageTypeOK'
    BY <1>3, <2>1, <2>2 DEF Decides, Becomes, StorageTypeOK, inventory
  <2> QED
    BY <1>5, <2>1, <2>2, <2>3
<1>6. CASE column[j] = "running" /\ record[a].revision = worker[j].revision
  <2>1. /\ intent' = [intent EXCEPT ![j][a] = n]
        /\ Moves(j, "remove")
    BY <1>6 DEF PersistIntent
  <2>2. n \in Nat
    BY <1>1
  <2>3. intent' = [intent EXCEPT ![j] = [intent[j] EXCEPT ![a] = n]]
    BY <1>1, <2>1
  <2>4. intent' \in [Jobs -> [Artifacts -> Nat]]
    BY <1>1, <2>2, <2>3
  <2>5. Becomes(j, "remove", worker[j].job, worker[j].item, worker[j].revision,
                worker[j].outcome, worker[j].final)
    BY <1>1, <1>2, <2>1, Moving
  <2>6. StorageTypeOK'
    BY <1>3, <2>4, <2>5 DEF Becomes, StorageTypeOK, inventory
  <2> QED
    BY <1>6, <2>3, <2>5, <2>6
<1> QED
  BY Zenon, <1>4, <1>5, <1>6

\* What the backend changes.
LEMMA RemoveItemStep ==
    ASSUME StorageTypeOK, NEW j \in Jobs, RemoveItem(j)
    PROVE  /\ StorageTypeOK'
           /\ \E o \in {"removed", "partial"} :
                  /\ Becomes(j, "commit", worker[j].job, worker[j].item, worker[j].revision, o,
                             worker[j].final)
                  /\ \/ o = "removed" /\ disk' = disk \ Tree(worker[j].item)
                     \/ o = "partial" /\ disk' = disk
<1>1. worker \in [Jobs -> Workers] /\ "commit" \in Places /\ "removed" \in Outcomes /\ "partial" \in Outcomes
  BY DEF StorageTypeOK, Places, Outcomes
<1>2. UNCHANGED <<record, leased, newer, jobs, canceller, scanner, events>>
  BY DEF RemoveItem
<1>3. \E o \in {"removed", "partial"} :
          /\ worker' = [worker EXCEPT ![j].at = "commit", ![j].outcome = o]
          /\ \/ o = "removed" /\ disk' = disk \ Tree(worker[j].item)
             \/ o = "partial" /\ disk' = disk
  BY DEF RemoveItem
<1>4. PICK o \in {"removed", "partial"} :
          /\ worker' = [worker EXCEPT ![j].at = "commit", ![j].outcome = o]
          /\ \/ o = "removed" /\ disk' = disk \ Tree(worker[j].item)
             \/ o = "partial" /\ disk' = disk
  BY Zenon, <1>3
<1>5. o \in Outcomes
  BY <1>1
<1>6. Becomes(j, "commit", worker[j].job, worker[j].item, worker[j].revision, o, worker[j].final)
  BY Zenon, <1>1, <1>4, <1>5, Removing
<1>7. StorageTypeOK'
  BY <1>2, <1>4, <1>6 DEF Becomes, StorageTypeOK, jobs
<1> QED
  BY <1>4, <1>6, <1>7

\* What commit_item writes.
LEMMA CommitWriteStep ==
    ASSUME StorageTypeOK, NEW j \in Jobs, CommitWrite(j), worker[j].item \in Artifacts
    PROVE  LET w == worker[j] IN
           /\ StorageTypeOK'
           /\ \/ /\ record[w.item].revision # w.revision \/ <<w.item, Step(w.job)>> \in receipts[j]
                 /\ \E s \in {"partial", "failed"} :
                        Becomes(j, "finish", NewJob, NoOne, 0, "none", s)
                 /\ UNCHANGED <<record, newer, job, receipts>>
              \/ /\ record'[w.item].removed = (record[w.item].removed \/ w.outcome = "removed")
                 /\ record'[w.item].pinned = record[w.item].pinned
                 /\ \A b \in Artifacts : b # w.item => record'[b] = record[b]
                 /\ scanner.at # "idle" => newer' = newer \cup {w.item}
                 /\ receipts' = [receipts EXCEPT ![j] = receipts[j] \cup {<<w.item, Step(w.job)>>}]
                 /\ \A k \in Jobs : k # j => job'[k] = job[k]
                 /\ job'[j].state = w.job.state
                 /\ job'[j].receipts = [w.job.receipts EXCEPT ![w.item] = w.outcome]
                 /\ Becomes(j, "next", NewJob, NoOne, 0, "none", "none")
<1> DEFINE w == worker[j]
           a == w.item
           row == <<a, Step(w.job)>>
           b == record[a].removed \/ w.outcome = "removed"
           r == [record[a] EXCEPT !.removed = b]
           v == [w.job EXCEPT !.receipts[a] = w.outcome]
<1>1. /\ worker \in [Jobs -> Workers] /\ record[a] \in Records /\ w.job \in JobValues
      /\ w.outcome \in Outcomes /\ b \in BOOLEAN
  BY Fields DEF StorageTypeOK
<1>2. "partial" \in States /\ "failed" \in States /\ "next" \in Places
  BY DEF States, Places
<1>3. UNCHANGED <<disk, leased, planned, column, intent, locked, canceller, scanner, events>>
  BY DEF CommitWrite
<1>4. CASE record[a].revision # w.revision \/ row \in receipts[j]
  <2>1. /\ Ends(j, IF "removed" \in Statuses(j) THEN "partial" ELSE "failed")
        /\ UNCHANGED <<record, newer, job, receipts>>
    BY <1>4 DEF CommitWrite
  <2>2. \E s \in {"partial", "failed"} : Ends(j, s)
    BY <2>1
  <2>3. \E s \in {"partial", "failed"} : Becomes(j, "finish", NewJob, NoOne, 0, "none", s)
    BY <1>1, <1>2, <2>2, Ending
  <2>4. StorageTypeOK'
    BY <1>3, <2>1, <2>3 DEF Becomes, StorageTypeOK
  <2> QED
    BY <1>4, <2>1, <2>3, <2>4
<1>5. CASE ~(record[a].revision # w.revision \/ row \in receipts[j])
  <2>1. /\ Saved(a, r)
        /\ receipts' = [receipts EXCEPT ![j] = receipts[j] \cup {row}]
        /\ job' = [job EXCEPT ![j] = v]
        /\ worker' = [worker EXCEPT ![j] = [IdleWorker EXCEPT !.at = "next"]]
    BY Zenon, <1>5 DEF CommitWrite
  <2>2. r \in Records /\ r.removed = b /\ r.pinned = record[a].pinned
    BY Zenon, <1>1 DEF Records
  <2>3. v \in JobValues /\ v.state = w.job.state /\ v.receipts = [w.job.receipts EXCEPT ![a] = w.outcome]
    BY <1>1, JobEdits
  <2>4. Becomes(j, "next", NewJob, NoOne, 0, "none", "none")
    BY Zenon, <1>1, <1>2, <2>1, Starting
  <2> HIDE DEF r, v, b, row
  <2>5. /\ record' \in [Artifacts -> Records] /\ newer' \in SUBSET Artifacts
        /\ record'[a].removed = b /\ record'[a].pinned = record[a].pinned
        /\ \A c \in Artifacts : c # a => record'[c] = record[c]
        /\ scanner.at # "idle" => newer' = newer \cup {a}
    BY <2>1, <2>2, RecordChanges DEF StorageTypeOK
  <2>6. /\ job' \in [Jobs -> JobValues] /\ job'[j] = v
        /\ \A k \in Jobs : k # j => job'[k] = job[k]
    BY <2>1, <2>3 DEF StorageTypeOK
  <2>7. receipts' = [k \in Jobs |-> receipts'[k]]
    BY Zenon, <2>1 DEF StorageTypeOK
  <2>8. StorageTypeOK'
    BY Zenon, <1>3, <2>4, <2>5, <2>6, <2>7 DEF Becomes, StorageTypeOK
  <2> QED
    BY Zenon, <2>1, <2>3, <2>4, <2>5, <2>6, <2>8 DEF b, row
<1> QED
  BY Zenon, <1>4, <1>5

\* What finish does with a job that was read and the state it is to end in.
LEMMA FinishEffect ==
    ASSUME StorageTypeOK, NEW j \in Jobs, NEW read \in JobValues, NEW final \in States,
           Finish(j, read, final)
    PROVE  LET cancelled == final = "cancelled" \/ read.state \in {"cancelling", "cancelled"} IN
           /\ job' \in [Jobs -> JobValues] /\ column' \in [Jobs -> States]
           /\ receipts' = [k \in Jobs |-> receipts'[k]]
           /\ \A k \in Jobs : k # j => /\ job'[k] = job[k] /\ column'[k] = column[k]
                                       /\ receipts'[k] = receipts[k]
           /\ ~cancelled => Puts(j, final, read.receipts) /\ receipts'[j] = receipts[j]
<1> DEFINE cancelled == final = "cancelled" \/ read.state \in {"cancelling", "cancelled"}
           left == IF cancelled THEN SelectSeq(Selection[j], LAMBDA a : read.receipts[a] = "none") ELSE <<>>
           rows == {<<left[i], Step(read) + i - 1>> : i \in DOMAIN left}
           list == [a \in Artifacts |-> IF a \in Range(left) THEN "cancelled" ELSE read.receipts[a]]
           ended == [state |-> IF cancelled THEN "cancelled" ELSE final, receipts |-> list]
<1>1. \/ rows \cap receipts[j] # {} /\ UNCHANGED <<column, job, receipts>>
      \/ /\ rows \cap receipts[j] = {}
         /\ Stored(j, ended) /\ receipts' = [receipts EXCEPT ![j] = receipts[j] \cup rows]
  BY Zenon DEF Finish
<1>2. "cancelled" \in Outcomes /\ "cancelled" \in States
  BY DEF Outcomes, States
<1>3. read.receipts \in [Artifacts -> Outcomes]
  BY Fields
<1>4. list \in [Artifacts -> Outcomes]
  BY Zenon, <1>2, <1>3
<1>5. ended \in JobValues /\ ended.receipts = list /\ ended.state = IF cancelled THEN "cancelled" ELSE final
  BY Zenon, <1>2, <1>4 DEF JobValues
<1>6. ~cancelled => left = <<>>
  OBVIOUS
<1>7. ~cancelled => rows = {} /\ Range(left) = {}
  BY <1>6 DEF Range
<1>8. ~cancelled => list = read.receipts
  BY <1>3, <1>7
<1> HIDE DEF ended, list, rows, left
<1>9. Stored(j, ended) => Puts(j, ended.state, list)
  BY <1>5, Storing
<1>10. receipts' = [k \in Jobs |-> receipts'[k]] /\ \A k \in Jobs : k # j => receipts'[k] = receipts[k]
  BY <1>1 DEF StorageTypeOK
<1>11. /\ job' \in [Jobs -> JobValues] /\ column' \in [Jobs -> States]
       /\ \A k \in Jobs : k # j => job'[k] = job[k] /\ column'[k] = column[k]
  BY <1>1, <1>9 DEF StorageTypeOK, Puts
<1>12. ~cancelled => Puts(j, final, read.receipts) /\ receipts'[j] = receipts[j]
  BY Zenon, <1>1, <1>5, <1>7, <1>8, <1>9 DEF StorageTypeOK
<1> QED
  BY <1>10, <1>11, <1>12

\* What the end of run_job writes.
LEMMA FinishWriteStep ==
    ASSUME StorageTypeOK, NEW j \in Jobs, FinishWrite(j)
    PROVE  /\ StorageTypeOK'
           /\ Becomes(j, "idle", NewJob, NoOne, 0, "none", "none")
           /\ locked' = locked \ {j}
           /\ \A k \in Jobs : k # j => /\ job'[k] = job[k] /\ column'[k] = column[k]
                                       /\ receipts'[k] = receipts[k]
           /\ worker[j].final # "cancelled" /\ worker[j].job.state \notin {"cancelling", "cancelled"}
                => Puts(j, worker[j].final, worker[j].job.receipts) /\ receipts'[j] = receipts[j]
<1>1. worker \in [Jobs -> Workers] /\ worker[j].job \in JobValues /\ worker[j].final \in States
  BY Fields DEF StorageTypeOK
<1>2. /\ Finish(j, worker[j].job, worker[j].final)
      /\ locked' = locked \ {j} /\ Rests(j)
      /\ UNCHANGED <<inventory, planned, intent, canceller, scanner, events>>
  BY DEF FinishWrite
<1>3. Becomes(j, "idle", NewJob, NoOne, 0, "none", "none")
  BY <1>1, <1>2, Resting
<1>4. /\ job' \in [Jobs -> JobValues] /\ column' \in [Jobs -> States]
      /\ receipts' = [k \in Jobs |-> receipts'[k]]
      /\ \A k \in Jobs : k # j => /\ job'[k] = job[k] /\ column'[k] = column[k]
                                  /\ receipts'[k] = receipts[k]
      /\ worker[j].final # "cancelled" /\ worker[j].job.state \notin {"cancelling", "cancelled"}
                => Puts(j, worker[j].final, worker[j].job.receipts) /\ receipts'[j] = receipts[j]
  BY <1>1, <1>2, FinishEffect
<1>5. StorageTypeOK'
  BY <1>2, <1>3, <1>4 DEF Becomes, StorageTypeOK, inventory
<1> QED
  BY <1>2, <1>3, <1>4, <1>5

\* A cancellation changes only the row of its job.
LEMMA CancelSteps ==
    ASSUME StorageTypeOK, NEW j \in Jobs, CancelRead(j) \/ CancelWrite(j) \/ CancelFinish(j)
    PROVE  /\ StorageTypeOK'
           /\ j \in Cancellable \/ canceller[j] # NewJob
           /\ \A k \in Jobs : k # j => /\ job'[k] = job[k] /\ column'[k] = column[k]
                                       /\ receipts'[k] = receipts[k]
                                       /\ canceller'[k] = canceller[k]
           /\ UNCHANGED <<inventory, planned, intent, locked, worker, scanner>>
<1>1. /\ job[j] \in JobValues /\ canceller[j] \in JobValues /\ NewJob \in JobValues
      /\ "cancelled" \in States /\ "cancelling" \in States
  BY Zenon, Constants DEF StorageTypeOK, States
<1>2. CASE CancelRead(j)
  <2>1. j \in Cancellable /\ canceller' = [canceller EXCEPT ![j] = job[j]]
    BY <1>2 DEF CancelRead
  <2>2. UNCHANGED <<inventory, jobs, worker, scanner>>
    BY <1>2 DEF CancelRead
  <2> QED
    BY <1>1, <2>1, <2>2 DEF StorageTypeOK, inventory, jobs
<1>3. CASE CancelWrite(j)
  <2> DEFINE read == canceller[j]
             answer == IF read.state = "queued" THEN "cancelled" ELSE "cancelling"
             kept == [read EXCEPT !.state = answer]
  <2>1. /\ read.state \in {"queued", "running"} /\ Stored(j, [read EXCEPT !.state = answer])
        /\ canceller' = [canceller EXCEPT ![j] = IF answer = "cancelled" THEN kept ELSE NewJob]
        /\ UNCHANGED <<inventory, planned, receipts, intent, locked, worker, scanner, events>>
    BY <1>3 DEF CancelWrite
  <2>2. answer \in States
    BY <1>1
  <2>3. kept \in JobValues
    BY Zenon, <1>1, <2>2 DEF JobValues
  <2>4. Puts(j, answer, read.receipts)
    BY <1>1, <2>1, <2>2, StoringState
  <2> HIDE DEF kept, answer
  <2>5. canceller' \in [Jobs -> JobValues] /\ \A k \in Jobs : k # j => canceller'[k] = canceller[k]
    BY <1>1, <2>1, <2>3 DEF StorageTypeOK
  <2>6. read # NewJob
    BY <2>1 DEF NewJob
  <2> QED
    BY <2>1, <2>4, <2>5, <2>6 DEF Puts, StorageTypeOK, inventory
<1>4. CASE CancelFinish(j)
  <2>1. /\ canceller[j].state = "cancelled" /\ Finish(j, job[j], "cancelled")
        /\ canceller' = [canceller EXCEPT ![j] = NewJob]
        /\ UNCHANGED <<inventory, planned, intent, locked, worker, scanner, events>>
    BY <1>4 DEF CancelFinish
  <2>2. /\ job' \in [Jobs -> JobValues] /\ column' \in [Jobs -> States]
        /\ receipts' = [k \in Jobs |-> receipts'[k]]
        /\ \A k \in Jobs : k # j => /\ job'[k] = job[k] /\ column'[k] = column[k]
                                    /\ receipts'[k] = receipts[k]
    BY <1>1, <2>1, FinishEffect
  <2>3. canceller[j] # NewJob
    BY <2>1 DEF NewJob
  <2> QED
    BY Zenon, <1>1, <2>1, <2>2, <2>3 DEF StorageTypeOK, inventory
<1> QED
  BY <1>2, <1>3, <1>4, Zenon

\* What a scan has seen, up to its match.
LEMMA ScanSteps ==
    ASSUME StorageTypeOK, ScanStart \/ Discover \/ Match
    PROVE  /\ StorageTypeOK'
           /\ ScanStart => scanner'.at = "discover"
           /\ Discover => scanner'.at = "match" /\ scanner'.seen = disk
           /\ Match => /\ scanner'.at = "store" /\ scanner'.seen \subseteq scanner.seen
                       /\ scanner'.missing \cap disk = {}
<1>1. scanner \in Scans /\ \A a \in Artifacts : record[a].revision \in Nat
  BY Fields DEF StorageTypeOK
<1>2. CASE ScanStart
  <2>1. scanner' = [IdleScanner EXCEPT !.at = "discover"] /\ newer' = {}
        /\ UNCHANGED <<disk, record, leased, jobs, worker, canceller>>
    BY <1>2 DEF ScanStart
  <2>2. scanner' \in Scans /\ scanner'.at = "discover"
    BY Zenon, <2>1, Constants DEF IdleScanner, Scans
  <2> QED
    BY <1>2, <2>1, <2>2 DEF ScanStart, Discover, Match, StorageTypeOK, jobs
<1>3. CASE Discover
  <2>1. scanner.at = "discover" /\ scanner' = [scanner EXCEPT !.at = "match", !.seen = disk]
        /\ UNCHANGED <<inventory, jobs, worker, canceller>>
    BY <1>3 DEF Discover
  <2>2. disk \in SUBSET Artifacts
    BY DEF StorageTypeOK
  <2>3. scanner' \in Scans /\ scanner'.at = "match" /\ scanner'.seen = disk
    BY Zenon, <1>1, <2>1, <2>2 DEF Scans
  <2> QED
    BY <2>1, <2>3 DEF ScanStart, Match, StorageTypeOK, inventory, jobs
<1>4. CASE Match
  <2> DEFINE seen == {a \in scanner.seen : Fresh(a)}
             missing == {a \in Artifacts \ (scanner.seen \cup disk) : Fresh(a) /\ ~record[a].removed}
             revisions == [a \in Artifacts |-> record[a].revision]
  <2>1. /\ scanner.at = "match"
        /\ scanner' = [scanner EXCEPT !.at = "store", !.seen = seen, !.missing = missing,
                                      !.revisions = revisions]
        /\ UNCHANGED <<inventory, jobs, worker, canceller>>
    BY <1>4 DEF Match
  <2>2. /\ seen \in SUBSET Artifacts /\ missing \in SUBSET Artifacts /\ revisions \in [Artifacts -> Nat]
        /\ seen \subseteq scanner.seen /\ missing \cap disk = {}
    BY <1>1, Fields
  <2> HIDE DEF seen, missing, revisions
  <2>3. scanner' \in Scans
    BY Zenon, <1>1, <2>1, <2>2 DEF Scans
  <2>4. scanner'.at = "store" /\ scanner'.seen = seen /\ scanner'.missing = missing
    BY Zenon, <1>1, <2>1 DEF Scans
  <2> QED
    BY <2>1, <2>2, <2>3, <2>4 DEF ScanStart, Discover, StorageTypeOK, inventory, jobs
<1> QED
  BY <1>2, <1>3, <1>4

\* A scan changes only records that are open and fresh, in these two ways.
LEMMA StoreStep ==
    ASSUME StorageTypeOK, Store
    PROVE  /\ StorageTypeOK'
           /\ scanner.at = "store" /\ scanner'.at = "idle"
           /\ \A a \in Artifacts :
                  /\ record'[a].pinned = record[a].pinned
                  /\ \/ record'[a] = record[a]
                     \/ Editable(a) /\ Fresh(a) /\ a \in scanner.seen /\ ~record'[a].removed
                     \/ Editable(a) /\ a \in scanner.missing /\ record'[a].removed
<1> DEFINE open(a) == Editable(a) /\ record[a].revision = scanner.revisions[a] /\ Fresh(a)
           found == {a \in scanner.seen : open(a)}
           gone == {a \in scanner.missing : open(a)}
           n(a) == IF record[a].removed THEN record[a].revision + 1 ELSE record[a].revision
           f(a) == [record[a] EXCEPT !.revision = n(a), !.removed = FALSE]
           g(a) == [record[a] EXCEPT !.revision = record[a].revision + 1, !.removed = TRUE]
<1>1. /\ scanner.at = "store" /\ scanner' = IdleScanner /\ newer' = {}
      /\ record' = [a \in Artifacts |-> IF a \in found THEN f(a) ELSE IF a \in gone THEN g(a) ELSE record[a]]
      /\ UNCHANGED <<disk, leased, jobs, worker, canceller>>
  BY Zenon DEF Store
<1>2. \A a \in Artifacts : record[a] \in Records /\ record[a].revision \in Nat /\ n(a) \in Nat
                           /\ record[a].revision + 1 \in Nat
  BY Fields DEF StorageTypeOK
<1>3. ASSUME NEW a \in Artifacts
      PROVE  f(a) \in Records /\ f(a).pinned = record[a].pinned /\ f(a).removed = FALSE
  <2>1. record[a] \in Records /\ n(a) \in Nat
    BY <1>2
  <2> HIDE DEF n
  <2> QED
    BY Zenon, <2>1 DEF Records
<1>4. ASSUME NEW a \in Artifacts
      PROVE  g(a) \in Records /\ g(a).pinned = record[a].pinned /\ g(a).removed = TRUE
  <2>1. record[a] \in Records /\ record[a].revision + 1 \in Nat
    BY <1>2
  <2> QED
    BY Zenon, <2>1 DEF Records
<1>5. \A a \in found : Editable(a) /\ Fresh(a) /\ a \in scanner.seen
  OBVIOUS
<1>6. \A a \in gone : Editable(a) /\ a \in scanner.missing
  OBVIOUS
<1> HIDE DEF found, gone, f, g
<1>7. record' \in [Artifacts -> Records]
  BY Zenon, <1>1, <1>2, <1>3, <1>4
<1>8. StorageTypeOK'
  BY Zenon, <1>1, <1>7, Constants DEF StorageTypeOK, jobs
<1>9. scanner'.at = "idle"
  BY <1>1 DEF IdleScanner
<1>10. ASSUME NEW a \in Artifacts
       PROVE  /\ record'[a].pinned = record[a].pinned
              /\ \/ record'[a] = record[a]
                 \/ Editable(a) /\ Fresh(a) /\ a \in scanner.seen /\ ~record'[a].removed
                 \/ Editable(a) /\ a \in scanner.missing /\ record'[a].removed
  BY Zenon, <1>1, <1>3, <1>4, <1>5, <1>6
<1> QED
  BY <1>1, <1>8, <1>9, <1>10

\* What a restart leaves.
LEMMA CrashStep ==
    ASSUME StorageTypeOK, Crash
    PROVE  /\ StorageTypeOK'
           /\ locked' = {j \in locked : column[j] \in {"queued", "running", "cancelling"}}
           /\ scanner'.at = "idle" /\ UNCHANGED <<disk, record, leased, planned, receipts, intent>>
           /\ \A j \in Jobs :
                  /\ worker'[j].at = "idle" /\ canceller'[j] = NewJob
                  /\ job'[j].receipts = job[j].receipts
                  /\ \/ column[j] = "running" /\ column'[j] = "queued" /\ job'[j].state = "queued"
                     \/ column[j] # "running" /\ column'[j] = column[j] /\ job'[j] = job[j]
<1> DEFINE q(j) == [job[j] EXCEPT !.state = "queued"]
<1>1. /\ locked' = {j \in locked : column[j] \in {"queued", "running", "cancelling"}}
      /\ column' = [j \in Jobs |-> IF column[j] = "running" THEN "queued" ELSE column[j]]
      /\ job' = [j \in Jobs |-> IF column[j] = "running" THEN q(j) ELSE job[j]]
      /\ worker' = [j \in Jobs |-> IdleWorker]
      /\ canceller' = [j \in Jobs |-> NewJob]
      /\ scanner' = IdleScanner /\ newer' = {}
      /\ UNCHANGED <<disk, record, leased, planned, receipts, intent>>
  BY DEF Crash
<1>2. "queued" \in States
  BY DEF States
<1>3. ASSUME NEW j \in Jobs
      PROVE  q(j) \in JobValues /\ q(j).state = "queued" /\ q(j).receipts = job[j].receipts
  <2>1. job[j] \in JobValues
    BY DEF StorageTypeOK
  <2> QED
    BY Zenon, <1>2, <2>1 DEF JobValues
<1> HIDE DEF q
<1>4. column' \in [Jobs -> States] /\ job' \in [Jobs -> JobValues]
  BY <1>1, <1>2, <1>3 DEF StorageTypeOK
<1>5. worker' \in [Jobs -> Workers] /\ canceller' \in [Jobs -> JobValues] /\ scanner' \in Scans
  BY Zenon, <1>1, Constants
<1>6. StorageTypeOK'
  BY <1>1, <1>4, <1>5 DEF StorageTypeOK
<1>7. scanner'.at = "idle" /\ \A j \in Jobs : worker'[j].at = "idle" /\ canceller'[j] = NewJob
  BY <1>1 DEF IdleScanner, IdleWorker
<1>8. \A j \in Jobs :
                  /\ job'[j].receipts = job[j].receipts
                  /\ \/ column[j] = "running" /\ column'[j] = "queued" /\ job'[j].state = "queued"
                     \/ column[j] # "running" /\ column'[j] = column[j] /\ job'[j] = job[j]
  BY <1>1, <1>3
<1> QED
  BY <1>1, <1>6, <1>7, <1>8

-----------------------------------------------------------------------------
(* The inductive invariants *)

Busy == {"intent", "remove", "commit", "write"}

\* Jobs that hold locks do not conflict, and a worker past lock_resources holds them.
LocksInv ==
    /\ \A j, k \in locked : j # k => ~Conflict(j, k)
    /\ \A j \in Jobs : worker[j].at \in Busy \cup {"next"} => j \in locked
    /\ \A j \in Jobs : worker[j].at \in Busy => worker[j].item \in Items(j)

\* What is recorded, or about to be recorded, as removed is gone; a scan under way knows of
\* every record that was marked removed after it had seen the directory.
GoneInv ==
    /\ \A a \in Artifacts : record[a].removed => a \notin disk
    /\ \A j \in Jobs : worker[j].at \in {"commit", "write"} /\ worker[j].outcome = "removed"
                           => worker[j].item \notin disk
    /\ scanner.at = "store" => scanner.missing \cap disk = {}
    /\ scanner.at \in {"match", "store"} => \A a \in scanner.seen : record[a].removed => a \in newer

Free(a) == \A b \in Tree(a) \cup Ancestors[a] : record[b].removed \/ ~Kept(b)

\* What was free to be removed when it was validated is still so when it is removed.
KeepInv == \A j \in Jobs : worker[j].at \in {"intent", "remove"} => Free(worker[j].item)

\* The row, the worker and the item of a job that nobody cancels.
RowInv(j) ==
    /\ canceller[j] = NewJob /\ column[j] = job[j].state
    /\ job[j].state \notin {"cancelling", "cancelled"}
    /\ worker[j].at \in {"begin", "write", "finishing"} => worker[j].job = job[j]
    /\ worker[j].at = "begin" => job[j].state = "queued"
    /\ worker[j].at \notin {"idle", "begin"} => job[j].state = "running"
    /\ worker[j].at \in {"finish", "finishing"} => worker[j].final \in {"completed", "partial", "failed"}
    /\ \A row \in receipts[j] : job[j].receipts[row[1]] # "none"

ItemInv(j) ==
    /\ worker[j].at \in Busy => /\ record[worker[j].item].revision = worker[j].revision
                                /\ job[j].receipts[worker[j].item] = "none"
    /\ worker[j].at \in {"intent", "remove"} => worker[j].revision = planned[j][worker[j].item]
    /\ worker[j].at \in {"commit", "write"} =>
           /\ worker[j].outcome # "none"
           /\ intent[j][worker[j].item] # 0 => worker[j].outcome \in {"removed", "partial"}

\* A removal that was begun has its receipt, or its job still has the locks and finds
\* everything as it was.
IntentInv(j) ==
    \A a \in Artifacts : intent[j][a] # 0 =>
        /\ a \in Items(j) /\ job[j].receipts[a] \in {"none", "removed", "partial"}
        /\ job[j].receipts[a] = "none" =>
               /\ j \in locked /\ worker[j].at \notin {"finish", "finishing"}
               /\ job[j].state \in {"queued", "running"}
               /\ record[a].revision = intent[j][a] /\ planned[j][a] = intent[j][a]
               /\ Free(a)

ReportInv == \A j \in Jobs \ Cancellable : RowInv(j) /\ ItemInv(j) /\ IntentInv(j)

-----------------------------------------------------------------------------
(* Locks *)

\* Only the workers and a restart touch the workers and the locks.
LEMMA OtherSteps ==
    ASSUME StorageNext
    PROVE  \/ \E j \in Jobs : WorkerStep(j)
           \/ Crash
           \/ UNCHANGED <<worker, locked>>
BY Zenon DEF StorageNext, Lease, EndLease, Protect, Plan, Start, CancelRead, CancelWrite, CancelFinish,
       ScanStart, Discover, Match, Store, callers, jobs

\* Conflicts go both ways.
LEMMA ConflictIsSymmetric ==
    ASSUME NEW j, NEW k, Conflict(j, k)
    PROVE  Conflict(k, j)
BY DEF Conflict

\* A worker that has an item holds the locks of its job.
LEMMA BusyItem ==
    ASSUME LocksInv, NEW j \in Jobs, worker[j].at \in Busy
    PROVE  worker[j].item \in Artifacts /\ worker[j].item \in Items(j) /\ j \in locked
BY ItemsAreArtifacts DEF LocksInv

\* A step of one worker that keeps the locks keeps LocksInv if the item is from its plan.
LEMMA WorkerKeepsLocks ==
    ASSUME LocksInv, NEW j \in Jobs, locked' = locked,
           \A k \in Jobs : k # j => worker'[k] = worker[k],
           worker'[j].at \in Busy \cup {"next"} => j \in locked,
           worker'[j].at \in Busy => worker'[j].item \in Items(j)
    PROVE  LocksInv'
BY DEF LocksInv, Conflict, Claimed, Shared, Items

\* Every step keeps LocksInv.
LEMMA LocksStep ==
    ASSUME StorageTypeOK, LocksInv, StorageNext
    PROVE  LocksInv'
<1>1. CASE UNCHANGED <<worker, locked>>
  BY <1>1 DEF LocksInv, Conflict, Claimed, Shared, Items
<1>2. CASE Crash
  <2>1. locked' \subseteq locked /\ \A j \in Jobs : worker'[j].at = "idle"
    BY <1>2, CrashStep
  <2> QED
    BY <2>1 DEF LocksInv, Conflict, Claimed, Shared, Items, Busy
<1>3. ASSUME NEW j \in Jobs, WorkerStep(j)
      PROVE  LocksInv'
  <2>1. CASE BeginRead(j)
    BY Zenon, <2>1, ReadSteps, WorkerKeepsLocks DEF BeginRead, Reads, Becomes, Busy, jobs
  <2>2. CASE BeginWrite(j)
    BY <2>2, BeginWriteStep, WorkerKeepsLocks DEF BeginWrite, Becomes, Busy
  <2>3. CASE Lock(j)
    <3>1. CASE locked' = locked
      BY <2>3, <3>1, LockStep, WorkerKeepsLocks DEF Becomes, Busy
    <3>2. CASE /\ \A k \in locked \ {j} : ~Conflict(j, k)
               /\ Becomes(j, "next", worker[j].job, worker[j].item, worker[j].revision,
                          worker[j].outcome, worker[j].final)
               /\ locked' = locked \cup {j}
      <4>1. \A k, l \in locked' : k # l => ~Conflict(k, l)
        BY <3>2, ConflictIsSymmetric DEF LocksInv
      <4>2. \A k \in Jobs : /\ worker'[k].at \in Busy \cup {"next"} => k \in locked'
                            /\ worker'[k].at \in Busy => worker'[k].item \in Items(k)
        BY <3>2 DEF LocksInv, Becomes, Busy
      <4> QED
        BY <4>1, <4>2 DEF LocksInv, Conflict, Claimed, Shared, Items
    <3> QED
      BY <2>3, <3>1, <3>2, LockStep
  <2>4. CASE NextItem(j)
    <3>1. /\ locked' = locked /\ j \in locked
      BY Zenon, <2>4 DEF NextItem, jobs, LocksInv, At
    <3>2. /\ \A k \in Jobs : k # j => worker'[k] = worker[k]
          /\ worker'[j].at \in Busy => worker'[j].item \in Items(j)
      BY <2>4, NextItemStep, Zenon DEF Decides, Becomes, Busy
    <3> QED
      BY <3>1, <3>2, WorkerKeepsLocks
  <2>5. CASE PersistIntent(j)
    <3>1. locked' = locked /\ worker[j].at \in Busy
      BY <2>5 DEF PersistIntent, At, Busy
    <3>2. worker[j].item \in Artifacts /\ worker[j].item \in Items(j) /\ j \in locked
      BY <3>1, BusyItem
    <3>3. \/ Decides(j, worker[j].item, "cancelled")
          \/ Decides(j, worker[j].item, "blocked")
          \/ Becomes(j, "remove", worker[j].job, worker[j].item, worker[j].revision,
                     worker[j].outcome, worker[j].final)
      BY <2>5, <3>2, PersistIntentStep
    <3> QED
      BY <3>1, <3>2, <3>3, WorkerKeepsLocks DEF Decides, Becomes
  <2>6. CASE RemoveItem(j)
    <3>1. locked' = locked /\ worker[j].at \in Busy
      BY <2>6 DEF RemoveItem, jobs, At, Busy
    <3> QED
      BY <2>6, <3>1, BusyItem, RemoveItemStep, WorkerKeepsLocks DEF Becomes
  <2>7. CASE CommitRead(j)
    <3>1. locked' = locked /\ worker[j].at \in Busy
      BY <2>7 DEF CommitRead, jobs, At, Busy
    <3> QED
      BY <2>7, <3>1, BusyItem, ReadSteps, WorkerKeepsLocks, Zenon DEF Reads, Becomes
  <2>8. CASE CommitWrite(j)
    <3>1. locked' = locked /\ worker[j].at \in Busy
      BY <2>8 DEF CommitWrite, At, Busy
    <3>2. \/ \E f \in {"partial", "failed"} : Becomes(j, "finish", NewJob, NoOne, 0, "none", f)
          \/ Becomes(j, "next", NewJob, NoOne, 0, "none", "none")
      BY Zenon, <2>8, <3>1, BusyItem, CommitWriteStep
    <3> QED
      BY <3>1, <3>2, BusyItem, WorkerKeepsLocks DEF Becomes, Busy
  <2>9. CASE FinishRead(j)
    BY Zenon, <2>9, ReadSteps, WorkerKeepsLocks DEF FinishRead, Reads, Becomes, Busy, jobs
  <2>10. CASE FinishWrite(j)
    <3>1. locked' = locked \ {j} /\ Becomes(j, "idle", NewJob, NoOne, 0, "none", "none")
      BY <2>10, FinishWriteStep, Zenon
    <3> QED
      BY <3>1 DEF LocksInv, Becomes, Conflict, Claimed, Shared, Items, Busy
  <2> QED
    BY <1>3, <2>1, <2>2, <2>3, <2>4, <2>5, <2>6, <2>7, <2>8, <2>9, <2>10 DEF WorkerStep
<1> QED
  BY <1>1, <1>2, <1>3, OtherSteps

\* Every step keeps the types.
LEMMA StepTyped ==
    ASSUME StorageTypeOK, LocksInv, StorageNext
    PROVE  StorageTypeOK'
<1>1. ASSUME NEW a \in Artifacts, Lease(a) \/ EndLease(a) \/ Protect(a)
      PROVE  StorageTypeOK'
  BY <1>1, OwnerEdits
<1>2. ASSUME NEW j \in Jobs, Plan(j) \/ Start(j) \/ CancelRead(j) \/ CancelWrite(j) \/ CancelFinish(j)
      PROVE  StorageTypeOK'
  BY <1>2, PlanTyped, CancelSteps
<1>3. ASSUME NEW j \in Jobs, WorkerStep(j)
      PROVE  StorageTypeOK'
  <2>1. PersistIntent(j) \/ CommitWrite(j) => worker[j].item \in Artifacts
    BY Zenon, BusyItem DEF PersistIntent, CommitWrite, At, Busy
  <2>2. BeginRead(j) \/ CommitRead(j) \/ FinishRead(j) \/ BeginWrite(j) => StorageTypeOK'
    BY ReadSteps, BeginWriteStep
  <2>3. Lock(j) \/ NextItem(j) \/ RemoveItem(j) \/ FinishWrite(j) => StorageTypeOK'
    BY LockStep, NextItemStep, RemoveItemStep, FinishWriteStep, Zenon
  <2>4. PersistIntent(j) \/ CommitWrite(j) => StorageTypeOK'
    BY Zenon, <2>1, PersistIntentStep, CommitWriteStep
  <2> QED
    BY <1>3, <2>2, <2>3, <2>4 DEF WorkerStep
<1>4. ScanStart \/ Discover \/ Match \/ Store \/ Crash => StorageTypeOK'
  BY ScanSteps, StoreStep, CrashStep, Zenon
<1> QED
  BY <1>1, <1>2, <1>3, <1>4 DEF StorageNext

\* So does a stuttering step.
LEMMA StutterTyped ==
    ASSUME StorageTypeOK, LocksInv, UNCHANGED storageVars
    PROVE  StorageTypeOK' /\ LocksInv'
BY Zenon DEF StorageTypeOK, LocksInv, storageVars, inventory, jobs, callers, Conflict, Claimed, Shared, Items

\* LocksInv holds at first.
LEMMA InitLocks ==
    ASSUME StorageInit
    PROVE  LocksInv
BY DEF StorageInit, LocksInv, IdleWorker, Busy

\* Every record, row, worker and scan of the storage service stays in its type, for any
\* artifacts and jobs; locks that conflict are never held together and no worker is past
\* lock_resources without its locks.
THEOREM StorageTyped == StorageSpec => [](StorageTypeOK /\ LocksInv)
<1>1. StorageInit => StorageTypeOK /\ LocksInv
  BY InitTyped, InitLocks
<1>2. StorageTypeOK /\ LocksInv /\ [StorageNext]_storageVars => StorageTypeOK' /\ LocksInv'
  <2>1. StorageTypeOK /\ LocksInv /\ StorageNext => StorageTypeOK' /\ LocksInv'
    BY StepTyped, LocksStep
  <2>2. StorageTypeOK /\ LocksInv /\ UNCHANGED storageVars => StorageTypeOK' /\ LocksInv'
    BY StutterTyped
  <2> QED
    BY <2>1, <2>2
<1> QED
  BY <1>1, <1>2, PTL DEF StorageSpec

\* What contains a selected directory is claimed or shared.
LEMMA AroundIsHeld ==
    ASSUME NEW j, NEW a \in Items(j)
    PROVE  Ancestors[a] \subseteq Claimed(j) \cup Shared(j)
<1>1. Ancestors[a] \in {Ancestors[b] : b \in Items(j)}
  OBVIOUS
<1> QED
  BY <1>1 DEF Claimed, Shared

\* Two selections whose locks do not conflict have no directory in common, inside or
\* around: directories nest.
LEMMA SeparateTrees ==
    ASSUME NEW j \in Jobs, NEW k \in Jobs, ~Conflict(j, k),
           NEW a \in Items(j), NEW b \in Items(k)
    PROVE  Tree(a) \cap Tree(b) = {}
<1>1. a \in Artifacts /\ b \in Artifacts
  BY ItemsAreArtifacts
<1>2. a # b /\ a \notin Ancestors[b] /\ b \notin Ancestors[a]
  <2>1. Ancestors[a] \subseteq Claimed(j) \cup Shared(j) /\ Ancestors[b] \subseteq Claimed(k) \cup Shared(k)
    BY AroundIsHeld
  <2>2. a \in Claimed(j) /\ b \in Claimed(k)
    BY DEF Claimed
  <2> QED
    BY <2>1, <2>2 DEF Conflict
<1>3. ASSUME NEW c \in Tree(a), c \in Tree(b)
      PROVE  FALSE
  BY <1>1, <1>2, <1>3, StorageConstants DEF Tree
<1> QED
  BY <1>3

\* Two cleanups never work in one tree at a time, whatever the trees, the plans and the
\* restarts: a directory that one of them validates or removes is in no tree of the other.
THEOREM CleanupsAreSeparate == StorageSpec => []OneRemoverPerTree
<1>1. StorageTypeOK /\ LocksInv => OneRemoverPerTree
  <2> SUFFICES ASSUME StorageTypeOK, LocksInv, NEW j \in Jobs, NEW k \in Jobs, j # k,
                      worker[j].at \in Busy, worker[k].at \in Busy,
                      NEW a \in Items(j), NEW b \in Items(k)
               PROVE  Tree(a) \cap Tree(b) = {}
    BY DEF OneRemoverPerTree, Busy
  <2>1. ~Conflict(j, k)
    BY DEF LocksInv
  <2> QED
    BY <2>1, SeparateTrees
<1> QED
  BY <1>1, StorageTyped, PTL

-----------------------------------------------------------------------------
(* Tombstones *)

\* The receipt that a worker is about to write says no more than the disk does.
ReceiptIsTrue(j) ==
    worker[j].at \in {"commit", "write"} /\ worker[j].outcome = "removed" => worker[j].item \notin disk

\* A step that leaves the records, the disk and the scan alone needs only its receipts.
LEMMA OnlyReceipts ==
    ASSUME GoneInv, UNCHANGED <<inventory, scanner>>, \A j \in Jobs : ReceiptIsTrue(j)'
    PROVE  GoneInv' /\ \A a \in Artifacts : record[a].removed => record'[a].removed
BY DEF GoneInv, ReceiptIsTrue, inventory

\* One worker moves on.
LEMMA WorkerReceipts ==
    ASSUME GoneInv, NEW j \in Jobs, disk' = disk, \A k \in Jobs : k # j => worker'[k] = worker[k],
           ReceiptIsTrue(j)'
    PROVE  \A k \in Jobs : ReceiptIsTrue(k)'
BY DEF GoneInv, ReceiptIsTrue

\* Every step keeps GoneInv and the tombstones.
LEMMA GoneStep ==
    ASSUME StorageTypeOK, LocksInv, GoneInv, StorageNext
    PROVE  GoneInv' /\ \A a \in Artifacts : record[a].removed => record'[a].removed
<1>1. ASSUME NEW a \in Artifacts, Lease(a) \/ EndLease(a) \/ Protect(a)
      PROVE  GoneInv' /\ \A b \in Artifacts : record[b].removed => record'[b].removed
  <2>1. /\ \A b \in Artifacts : record'[b].removed = record[b].removed
        /\ scanner.at # "idle" => newer \subseteq newer'
    BY <1>1, OwnerEdits
  <2>2. UNCHANGED <<disk, worker, scanner>>
    BY <1>1 DEF Lease, EndLease, Protect, callers
  <2>3. scanner.seen \in SUBSET Artifacts
    BY Fields DEF StorageTypeOK
  <2> QED
    BY <2>1, <2>2, <2>3 DEF GoneInv
<1>2. ASSUME NEW j \in Jobs, Plan(j) \/ Start(j) \/ CancelRead(j) \/ CancelWrite(j) \/ CancelFinish(j)
      PROVE  GoneInv' /\ \A a \in Artifacts : record[a].removed => record'[a].removed
  <2>1. UNCHANGED <<inventory, scanner, worker>>
    BY <1>2 DEF Plan, Start, CancelRead, CancelWrite, CancelFinish, callers
  <2> QED
    BY <2>1 DEF GoneInv, inventory
<1>3. CASE ScanStart \/ Discover \/ Match
  <2>1. UNCHANGED <<disk, record, worker>>
    BY <1>3 DEF ScanStart, Discover, Match, inventory
  <2>2. CASE ScanStart
    BY <2>1, <2>2, ScanSteps DEF GoneInv
  <2>3. CASE Discover
    BY <2>1, <2>3, ScanSteps DEF GoneInv, StorageTypeOK
  <2>4. CASE Match
    <3>1. newer' = newer /\ scanner.at = "match"
      BY <2>4 DEF Match, inventory
    <3> QED
      BY <2>1, <2>4, <3>1, ScanSteps DEF GoneInv
  <2> QED
    BY <1>3, <2>2, <2>3, <2>4
<1>4. CASE Store
  <2>1. UNCHANGED <<disk, worker>>
    BY Zenon, <1>4 DEF Store
  <2>2. scanner.at = "store" /\ scanner'.at = "idle"
    BY <1>4, StoreStep
  <2>3. ASSUME NEW a \in Artifacts
        PROVE  (record[a].removed => record'[a].removed) /\ (record'[a].removed => a \notin disk)
    <3>1. \/ record'[a] = record[a]
          \/ Editable(a) /\ Fresh(a) /\ a \in scanner.seen /\ ~record'[a].removed
          \/ Editable(a) /\ a \in scanner.missing /\ record'[a].removed
      BY <1>4, StoreStep
    <3>2. CASE record'[a] = record[a]
      BY <3>2 DEF GoneInv
    <3>3. CASE Fresh(a) /\ a \in scanner.seen /\ ~record'[a].removed
      BY <2>2, <3>3 DEF GoneInv, Fresh
    <3>4. CASE a \in scanner.missing /\ record'[a].removed
      BY <2>2, <3>4 DEF GoneInv
    <3> QED
      BY <3>1, <3>2, <3>3, <3>4
  <2> QED
    BY <2>1, <2>2, <2>3 DEF GoneInv
<1>5. CASE Crash
  BY <1>5, CrashStep DEF GoneInv
<1>6. ASSUME NEW j \in Jobs, WorkerStep(j)
      PROVE  GoneInv' /\ \A a \in Artifacts : record[a].removed => record'[a].removed
  <2> DEFINE Goal == GoneInv' /\ \A a \in Artifacts : record[a].removed => record'[a].removed
  <2>1. ASSUME BeginRead(j) \/ BeginWrite(j) \/ Lock(j) \/ FinishRead(j) \/ FinishWrite(j)
        PROVE  Goal
    <3>1. UNCHANGED <<inventory, scanner>>
      BY <2>1 DEF BeginRead, BeginWrite, Lock, FinishRead, FinishWrite
    <3>2. /\ \A k \in Jobs : k # j => worker'[k] = worker[k]
          /\ worker'[j].at \in {"begin", "idle", "lock", "next", "finish", "finishing"}
      BY <2>1, ReadSteps, BeginWriteStep, LockStep, FinishWriteStep, Zenon DEF Reads, Becomes
    <3>3. \A k \in Jobs : ReceiptIsTrue(k)'
      BY <3>1, <3>2, WorkerReceipts DEF ReceiptIsTrue, inventory
    <3> QED
      BY <3>1, <3>3, OnlyReceipts
  <2>2. ASSUME NextItem(j)
        PROVE  Goal
    <3>1. UNCHANGED <<inventory, scanner>>
      BY Zenon, <2>2 DEF NextItem
    <3>2. /\ \A k \in Jobs : k # j => worker'[k] = worker[k]
          /\ worker'[j].at \in {"finish", "intent", "commit"}
          /\ worker'[j].at = "commit" /\ worker'[j].outcome = "removed" => worker'[j].item \notin disk
      BY Zenon, <2>2, NextItemStep DEF Decides, Becomes
    <3>3. \A k \in Jobs : ReceiptIsTrue(k)'
      BY <3>1, <3>2, WorkerReceipts DEF ReceiptIsTrue, inventory
    <3> QED
      BY <3>1, <3>3, OnlyReceipts
  <2>3. ASSUME PersistIntent(j)
        PROVE  Goal
    <3>1. UNCHANGED <<inventory, scanner>> /\ worker[j].at \in Busy
      BY <2>3 DEF PersistIntent, At, Busy
    <3>2. /\ \A k \in Jobs : k # j => worker'[k] = worker[k]
          /\ worker'[j].at = "remove" \/ worker'[j].outcome \in {"cancelled", "blocked"}
      BY Zenon, <2>3, <3>1, BusyItem, PersistIntentStep DEF Decides, Becomes
    <3>3. \A k \in Jobs : ReceiptIsTrue(k)'
      BY <3>1, <3>2, WorkerReceipts DEF ReceiptIsTrue, inventory
    <3> QED
      BY <3>1, <3>3, OnlyReceipts
  <2>4. ASSUME RemoveItem(j)
        PROVE  Goal
    <3>1. UNCHANGED <<record, newer, scanner>> /\ worker[j].at \in Busy
      BY <2>4 DEF RemoveItem, At, Busy
    <3>2. disk' \subseteq disk
      BY <2>4, RemoveItemStep
    <3>3. /\ \A k \in Jobs : k # j => worker'[k] = worker[k]
          /\ worker'[j].outcome = "removed" => worker'[j].item \notin disk'
      BY <2>4, <3>1, BusyItem, RemoveItemStep DEF Becomes, Tree
    <3> QED
      BY <3>1, <3>2, <3>3 DEF GoneInv
  <2>5. ASSUME CommitRead(j)
        PROVE  Goal
    <3>1. UNCHANGED <<inventory, scanner>> /\ worker[j].at = "commit"
      BY <2>5 DEF CommitRead, At
    <3>2. /\ \A k \in Jobs : k # j => worker'[k] = worker[k]
          /\ worker'[j].item = worker[j].item /\ worker'[j].outcome = worker[j].outcome
      BY <2>5, ReadSteps, Zenon DEF Reads, Becomes
    <3>3. \A k \in Jobs : ReceiptIsTrue(k)'
      BY <3>1, <3>2, WorkerReceipts, Zenon DEF ReceiptIsTrue, inventory, GoneInv
    <3> QED
      BY <3>1, <3>3, OnlyReceipts
  <2>6. ASSUME CommitWrite(j)
        PROVE  Goal
    <3> DEFINE a == worker[j].item
    <3>1. UNCHANGED <<disk, scanner>> /\ worker[j].at = "write" /\ worker[j].at \in Busy
      BY Zenon, <2>6 DEF CommitWrite, At, Busy
    <3>2. a \in Artifacts
      BY <3>1, BusyItem, Zenon
    <3>3. /\ \A k \in Jobs : k # j => worker'[k] = worker[k]
          /\ worker'[j].at \in {"finish", "next"}
      BY Zenon, <2>6, <3>2, CommitWriteStep DEF Becomes
    <3>4. \/ UNCHANGED <<record, newer>>
          \/ /\ record'[a].removed = (record[a].removed \/ worker[j].outcome = "removed")
             /\ \A b \in Artifacts : b # a => record'[b] = record[b]
             /\ scanner.at # "idle" => newer' = newer \cup {a}
      BY Zenon, <2>6, <3>2, CommitWriteStep
    <3>5. worker[j].outcome = "removed" => a \notin disk
      BY <3>1 DEF GoneInv
    <3>6. scanner.seen \in SUBSET Artifacts
      BY Fields DEF StorageTypeOK
    <3> QED
      BY Zenon, <3>1, <3>2, <3>3, <3>4, <3>5, <3>6 DEF GoneInv
  <2> QED
    BY <1>6, <2>1, <2>2, <2>3, <2>4, <2>5, <2>6, Zenon DEF WorkerStep
<1> QED
  BY <1>1, <1>2, <1>3, <1>4, <1>5, <1>6, Zenon DEF StorageNext

\* GoneInv holds at first.
LEMMA InitGone ==
    ASSUME StorageInit
    PROVE  GoneInv
BY DEF StorageInit, GoneInv, IdleWorker, IdleScanner

\* A stuttering step keeps it.
LEMMA StutterGone ==
    ASSUME GoneInv, UNCHANGED storageVars
    PROVE  GoneInv'
BY DEF GoneInv, storageVars, inventory, callers

\* A directory whose record says that it is removed is not on the disk, and no scan that
\* is under way will say otherwise.
THEOREM RemovedIsGone == StorageSpec => []GoneInv
<1>1. StorageInit => GoneInv
  BY InitGone
<1>2. StorageTypeOK /\ LocksInv /\ GoneInv /\ [StorageNext]_storageVars => GoneInv'
  BY GoneStep, StutterGone
<1> QED
  BY <1>1, <1>2, StorageTyped, PTL DEF StorageSpec

\* What cleanup has recorded as removed stays so: Store brings a record back only if
\* nothing has written it since the scan began, and then it was not removed.
THEOREM TombstonesStay == StorageSpec => TombstoneIsFinal
<1>1. StorageTypeOK /\ LocksInv /\ GoneInv /\ StorageNext
          => \A a \in Artifacts : record[a].removed => record'[a].removed
  BY GoneStep
<1> QED
  BY <1>1, StorageTyped, RemovedIsGone, PTL DEF StorageSpec, TombstoneIsFinal

-----------------------------------------------------------------------------
(* Leases and pins against removals *)

\* The records change only where OwnerEdits, CommitWrite and Store say.
LEMMA RecordSteps ==
    ASSUME StorageNext
    PROVE  \/ \E a \in Artifacts : Lease(a) \/ EndLease(a) \/ Protect(a)
           \/ \E j \in Jobs : CommitWrite(j)
           \/ Store
           \/ UNCHANGED <<record, leased>>
<1>1. ASSUME NEW j \in Jobs,
             \/ Plan(j) \/ Start(j) \/ BeginRead(j) \/ BeginWrite(j) \/ Lock(j)
             \/ CommitRead(j) \/ FinishRead(j) \/ FinishWrite(j)
      PROVE  UNCHANGED <<record, leased>>
  BY <1>1, Zenon DEF Plan, Start, BeginRead, BeginWrite, Lock, CommitRead, FinishRead, FinishWrite, inventory
<1>2. ASSUME NEW j \in Jobs,
             \/ NextItem(j) \/ PersistIntent(j) \/ RemoveItem(j)
             \/ CancelRead(j) \/ CancelWrite(j) \/ CancelFinish(j)
      PROVE  UNCHANGED <<record, leased>>
  BY <1>2, Zenon DEF NextItem, PersistIntent, RemoveItem, CancelRead, CancelWrite, CancelFinish, inventory
<1>3. ASSUME ScanStart \/ Discover \/ Match \/ Crash
      PROVE  UNCHANGED <<record, leased>>
  BY <1>3, Zenon DEF ScanStart, Discover, Match, Crash, inventory
<1> QED
  BY <1>1, <1>2, <1>3, Zenon DEF StorageNext, WorkerStep

\* A new lease or pin is on a resource that no job holds.
LEMMA NewKeep ==
    ASSUME StorageTypeOK, LocksInv, StorageNext, NEW b \in Artifacts, ~Kept(b), Kept(b)'
    PROVE  TreeEditable(b)
<1>1. ASSUME NEW a \in Artifacts, Lease(a) \/ EndLease(a) \/ Protect(a)
      PROVE  TreeEditable(b)
  BY <1>1, OwnerEdits
<1>2. ASSUME NEW j \in Jobs, CommitWrite(j)
      PROVE  FALSE
  <2>1. worker[j].item \in Artifacts /\ leased' = leased
    BY Zenon, <1>2, BusyItem DEF CommitWrite, At, Busy
  <2>2. record'[b].pinned = record[b].pinned
    BY Zenon, <1>2, <2>1, CommitWriteStep
  <2> QED
    BY <2>1, <2>2 DEF Kept
<1>3. CASE Store
  <2>1. leased' = leased /\ record'[b].pinned = record[b].pinned
    BY Zenon, <1>3, StoreStep DEF Store
  <2> QED
    BY <2>1 DEF Kept
<1>4. CASE UNCHANGED <<record, leased>>
  BY <1>4 DEF Kept
<1> QED
  BY <1>1, <1>2, <1>3, <1>4, RecordSteps

\* Nothing in, at or around what a job that holds locks has selected can be edited.
LEMMA HeldIsNotEditable ==
    ASSUME NEW j \in locked, NEW a \in Items(j), NEW b \in Tree(a) \cup Ancestors[a]
    PROVE  ~TreeEditable(b)
<1>1. CASE b = a
  BY <1>1 DEF TreeEditable, Editable, Claimed
<1>2. CASE a \in Ancestors[b]
  BY <1>2 DEF TreeEditable, Claimed
<1>3. CASE b \in Ancestors[a]
  BY <1>3, AroundIsHeld DEF TreeEditable, Editable
<1> QED
  BY <1>1, <1>2, <1>3 DEF Tree

\* What is in and around an artifact.
LEMMA AroundAreArtifacts ==
    ASSUME NEW a \in Artifacts
    PROVE  Tree(a) \cup Ancestors[a] \in SUBSET Artifacts /\ a \in Tree(a)
BY StorageConstants DEF Tree

\* What is free stays free while a job that selected it holds its locks.
LEMMA FreeStep ==
    ASSUME StorageTypeOK, LocksInv, GoneInv, StorageNext, NEW j \in locked, NEW a \in Items(j), Free(a)
    PROVE  Free(a)'
<1>1. j \in Jobs /\ a \in Artifacts
  BY ItemsAreArtifacts DEF StorageTypeOK
<1>2. ASSUME NEW b \in Tree(a) \cup Ancestors[a]
      PROVE  record'[b].removed \/ ~Kept(b)'
  <2>1. b \in Artifacts
    BY <1>1, AroundAreArtifacts
  <2>2. CASE record[b].removed
    BY <2>1, <2>2, GoneStep
  <2>3. CASE ~Kept(b)
    BY <2>1, <2>3, NewKeep, HeldIsNotEditable
  <2> QED
    BY <2>2, <2>3 DEF Free
<1> QED
  BY <1>2 DEF Free, Tree

\* Where a worker goes that is to remove something next.
LEMMA IntoRemoval ==
    ASSUME StorageTypeOK, LocksInv, StorageNext, NEW k \in Jobs, worker'[k].at \in {"intent", "remove"}
    PROVE  \/ worker'[k] = worker[k]
           \/ /\ PersistIntent(k) /\ worker[k].at = "intent" /\ worker'[k].item = worker[k].item
              /\ worker'[k].revision = worker[k].revision
           \/ /\ NextItem(k) /\ worker'[k].item \in Items(k) /\ Removable(worker'[k].item)
              /\ worker'[k].revision = record[worker'[k].item].revision
              /\ worker'[k].revision = planned[k][worker'[k].item]
              /\ job[k].receipts[worker'[k].item] = "none"
<1>1. CASE Crash
  BY <1>1, CrashStep, Zenon
<1>2. ASSUME NEW j \in Jobs, WorkerStep(j)
      PROVE  \/ worker'[k] = worker[k]
             \/ j = k /\ PersistIntent(k)
             \/ j = k /\ NextItem(k)
  <2>1. ASSUME BeginRead(j) \/ BeginWrite(j) \/ Lock(j) \/ FinishRead(j) \/ FinishWrite(j)
               \/ CommitRead(j) \/ RemoveItem(j)
        PROVE  worker'[k] = worker[k]
    <3>1. /\ \A l \in Jobs : l # j => worker'[l] = worker[l]
          /\ worker'[j].at \in {"begin", "idle", "lock", "next", "finish", "finishing", "commit", "write"}
      BY Zenon, <2>1, ReadSteps, BeginWriteStep, LockStep, FinishWriteStep, RemoveItemStep DEF Reads, Becomes
    <3> QED
      BY <3>1
  <2>2. ASSUME CommitWrite(j)
        PROVE  worker'[k] = worker[k]
    <3>1. worker[j].item \in Artifacts
      BY <2>2, BusyItem DEF CommitWrite, At, Busy
    <3>2. /\ \A l \in Jobs : l # j => worker'[l] = worker[l]
          /\ worker'[j].at \in {"next", "finish"}
      BY Zenon, <2>2, <3>1, CommitWriteStep DEF Becomes
    <3> QED
      BY <3>2
  <2>3. ASSUME NextItem(j) \/ PersistIntent(j), j # k
        PROVE  worker'[k] = worker[k]
    <3>1. PersistIntent(j) => worker[j].item \in Artifacts
      BY BusyItem DEF PersistIntent, At, Busy
    <3> QED
      BY Zenon, <2>3, <3>1, NextItemStep, PersistIntentStep DEF Decides, Becomes
  <2> QED
    BY <1>2, <2>1, <2>2, <2>3, Zenon DEF WorkerStep
<1>3. CASE PersistIntent(k)
  <2>1. worker[k].at = "intent" /\ worker[k].item \in Artifacts
    BY <1>3, BusyItem DEF PersistIntent, At, Busy
  <2> QED
    BY Zenon, <1>3, <2>1, PersistIntentStep DEF Decides, Becomes
<1>4. CASE NextItem(k)
  BY Zenon, <1>4, NextItemStep DEF Decides, Becomes
<1> QED
  BY Zenon, <1>1, <1>2, <1>3, <1>4, OtherSteps

\* Every step keeps KeepInv.
LEMMA KeepStep ==
    ASSUME StorageTypeOK, LocksInv, GoneInv, KeepInv, StorageNext
    PROVE  KeepInv'
<1> SUFFICES ASSUME NEW k \in Jobs, worker'[k].at \in {"intent", "remove"}, NEW a, a = worker'[k].item
             PROVE  Free(a)'
  BY Zenon DEF KeepInv, Free, Tree
<1>1. ASSUME worker[k].at \in {"intent", "remove"}, worker[k].item = a
      PROVE  Free(a)'
  <2>1. k \in locked /\ a \in Items(k) /\ Free(a)
    BY <1>1, BusyItem DEF KeepInv, Busy
  <2> QED
    BY <2>1, FreeStep
<1>2. ASSUME NextItem(k), Removable(a)
      PROVE  Free(a)'
  <2>1. UNCHANGED <<record, leased>>
    BY Zenon, <1>2 DEF NextItem, inventory
  <2> QED
    BY <1>2, <2>1, Zenon DEF Removable, Free, Kept, Tree
<1> QED
  BY <1>1, <1>2, IntoRemoval, Zenon

\* KeepInv holds at first.
LEMMA InitKeep ==
    ASSUME StorageInit
    PROVE  KeepInv
BY DEF StorageInit, KeepInv, IdleWorker

\* A stuttering step keeps it.
LEMMA StutterKeep ==
    ASSUME KeepInv, UNCHANGED storageVars
    PROVE  KeepInv'
BY DEF KeepInv, Free, Kept, Tree, storageVars, inventory, callers

\* What a worker is about to remove has no lease and no pin in it, at it or around it.
THEOREM RemovedIsFree == StorageSpec => []KeepInv
<1>1. StorageInit => KeepInv
  BY InitKeep
<1>2. StorageTypeOK /\ LocksInv /\ GoneInv /\ KeepInv /\ [StorageNext]_storageVars => KeepInv'
  BY KeepStep, StutterKeep
<1> QED
  BY <1>1, <1>2, StorageTyped, RemovedIsGone, PTL DEF StorageSpec

\* No directory is removed while a lease or a pin is on it or on anything in it, however
\* the callers, the workers, the scans and the restarts interleave.
THEOREM KeptIsSafe == StorageSpec => KeptIsNeverRemoved
<1>1. ASSUME StorageTypeOK, LocksInv, GoneInv, KeepInv, StorageNext, NEW a \in disk \ disk', Kept(a)
      PROVE  record[a].removed
  <2>1. PICK j \in Jobs : RemoveItem(j)
    <3>1. ASSUME NEW j \in Jobs,
                 \/ Plan(j) \/ Start(j) \/ BeginRead(j) \/ BeginWrite(j) \/ Lock(j)
                 \/ CommitRead(j) \/ FinishRead(j) \/ FinishWrite(j)
          PROVE  UNCHANGED disk
      BY <3>1, Zenon DEF Plan, Start, BeginRead, BeginWrite, Lock, CommitRead, FinishRead, FinishWrite,
                         inventory
    <3>2. ASSUME NEW j \in Jobs,
                 \/ NextItem(j) \/ PersistIntent(j) \/ CommitWrite(j)
                 \/ CancelRead(j) \/ CancelWrite(j) \/ CancelFinish(j)
          PROVE  UNCHANGED disk
      BY <3>2, Zenon DEF NextItem, PersistIntent, CommitWrite, CancelRead, CancelWrite, CancelFinish,
                         inventory
    <3>3. ASSUME \/ ScanStart \/ Discover \/ Match \/ Store \/ Crash
                 \/ \E b \in Artifacts : Lease(b) \/ EndLease(b) \/ Protect(b)
          PROVE  UNCHANGED disk
      BY <3>3, Zenon DEF Lease, EndLease, Protect, ScanStart, Discover, Match, Store, Crash, inventory
    <3>4. disk' # disk
      BY <1>1
    <3> QED
      BY <1>1, <3>1, <3>2, <3>3, <3>4, Zenon DEF StorageNext, WorkerStep
  <2>2. a \in Tree(worker[j].item)
    BY <1>1, <2>1, RemoveItemStep
  <2>3. Free(worker[j].item)
    BY <1>1, <2>1 DEF RemoveItem, At, KeepInv
  <2> QED
    BY <1>1, <2>2, <2>3 DEF Free
<1>2. StorageTypeOK /\ LocksInv /\ GoneInv /\ KeepInv /\ StorageNext
          => \A a \in disk \ disk' : Kept(a) => record[a].removed
  BY <1>1
<1> QED
  BY <1>2, StorageTyped, RemovedIsGone, RemovedIsFree, PTL DEF StorageSpec, KeptIsNeverRemoved

-----------------------------------------------------------------------------
(* Receipts of a job that nobody cancels *)

\* What is kept for job j: its rows, its worker and its locks.
RowKept(j) ==
    /\ job'[j] = job[j] /\ column'[j] = column[j] /\ planned'[j] = planned[j]
    /\ receipts'[j] = receipts[j] /\ intent'[j] = intent[j] /\ canceller'[j] = canceller[j]
    /\ worker'[j] = worker[j] /\ (j \in locked' <=> j \in locked)

\* The steps that can change it.
LEMMA OwnSteps ==
    ASSUME StorageTypeOK, LocksInv, StorageNext, NEW j \in Jobs
    PROVE  \/ RowKept(j)
           \/ Crash
           \/ WorkerStep(j)
           \/ Plan(j) \/ Start(j)
           \/ CancelRead(j) \/ CancelWrite(j) \/ CancelFinish(j)
<1>1. ASSUME NEW a \in Artifacts, Lease(a) \/ EndLease(a) \/ Protect(a)
      PROVE  RowKept(j)
  BY <1>1 DEF Lease, EndLease, Protect, RowKept, jobs, callers
<1>2. CASE ScanStart \/ Discover \/ Match \/ Store
  BY Zenon, <1>2 DEF ScanStart, Discover, Match, Store, RowKept, jobs
<1>3. ASSUME NEW k \in Jobs, k # j, Plan(k) \/ Start(k)
      PROVE  RowKept(j)
  <2>1. j \in DOMAIN planned /\ j \in DOMAIN job /\ j \in DOMAIN column
    BY DEF StorageTypeOK
  <2>2. planned'[j] = planned[j] /\ job'[j] = job[j] /\ column'[j] = column[j]
    BY <1>3, <2>1 DEF Plan, Start
  <2>3. UNCHANGED <<receipts, intent, canceller, worker, locked>>
    BY <1>3 DEF Plan, Start, callers
  <2> QED
    BY <2>2, <2>3 DEF RowKept
<1>4. ASSUME NEW k \in Jobs, k # j, CancelRead(k) \/ CancelWrite(k) \/ CancelFinish(k)
      PROVE  RowKept(j)
  BY <1>4, CancelSteps DEF RowKept
<1>5. ASSUME NEW k \in Jobs, k # j, WorkerStep(k)
      PROVE  RowKept(j)
  <2>1. ASSUME BeginRead(k) \/ CommitRead(k) \/ FinishRead(k)
        PROVE  RowKept(j)
    BY Zenon, <1>5, <2>1, ReadSteps DEF BeginRead, CommitRead, FinishRead, RowKept, jobs, Reads, Becomes
  <2>2. ASSUME BeginWrite(k)
        PROVE  RowKept(j)
    <3>1. worker'[j] = worker[j] /\ job'[j] = job[j] /\ column'[j] = column[j]
      <4>1. worker'[j] = worker[j]
        BY <1>5, <2>2, BeginWriteStep, Zenon DEF Becomes
      <4>2. job'[j] = job[j] /\ column'[j] = column[j]
        BY <1>5, <2>2, BeginWriteStep, Zenon DEF Puts
      <4> QED
        BY <4>1, <4>2
    <3>2. UNCHANGED <<planned, receipts, intent, canceller, locked>>
      BY <2>2 DEF BeginWrite
    <3> QED
      BY <3>1, <3>2 DEF RowKept
  <2>3. ASSUME Lock(k)
        PROVE  RowKept(j)
    <3>1. worker'[j] = worker[j] /\ ((j \in locked') <=> (j \in locked))
      <4>1. worker'[j] = worker[j]
        BY <1>5, <2>3, LockStep, Zenon DEF Becomes
      <4>2. locked' = locked \/ locked' = locked \cup {k}
        BY <2>3 DEF Lock
      <4> QED
        BY <1>5, <4>1, <4>2, Zenon
    <3>2. UNCHANGED <<job, column, planned, receipts, intent, canceller>>
      BY <2>3 DEF Lock, jobs
    <3> QED
      BY <3>1, <3>2 DEF RowKept
  <2>4. ASSUME NextItem(k)
        PROVE  RowKept(j)
    <3>1. worker'[j] = worker[j]
      BY <1>5, <2>4, NextItemStep, Zenon DEF Becomes, Decides
    <3>2. UNCHANGED <<job, column, planned, receipts, intent, canceller, locked>>
      BY <2>4, Zenon DEF NextItem, jobs
    <3> QED
      BY <3>1, <3>2 DEF RowKept
  <2>5. ASSUME PersistIntent(k)
        PROVE  RowKept(j)
    <3>1. worker[k].item \in Artifacts
      BY <2>5, BusyItem DEF PersistIntent, At, Busy
    <3>2. \/ intent' = intent
          \/ \E list : intent' = [intent EXCEPT ![k] = list]
      BY Zenon, <2>5, <3>1, PersistIntentStep
    <3>3. intent'[j] = intent[j]
      BY <1>5, <3>2 DEF StorageTypeOK
    <3>4. worker'[j] = worker[j]
      BY <1>5, <2>5, <3>1, PersistIntentStep, Zenon DEF Becomes, Decides
    <3> QED
      BY <2>5, <3>3, <3>4 DEF PersistIntent, RowKept
  <2>6. ASSUME RemoveItem(k)
        PROVE  RowKept(j)
    BY Zenon, <1>5, <2>6, RemoveItemStep DEF RemoveItem, RowKept, Becomes, jobs
  <2>7. ASSUME CommitWrite(k)
        PROVE  RowKept(j)
    <3>1. worker[k].item \in Artifacts
      BY Zenon, <2>7, BusyItem DEF CommitWrite, At, Busy
    <3>2. \/ receipts' = receipts
          \/ receipts' = [receipts EXCEPT ![k] = receipts[k] \cup {<<worker[k].item, Step(worker[k].job)>>}]
      BY Zenon, <2>7, <3>1, CommitWriteStep
    <3>3. receipts'[j] = receipts[j]
      <4>1. j \in DOMAIN receipts
        BY DEF StorageTypeOK
      <4> QED
        BY <1>5, <3>2, <4>1
    <3>4. job'[j] = job[j] /\ worker'[j] = worker[j]
      BY Zenon, <1>5, <2>7, <3>1, CommitWriteStep DEF Becomes
    <3> QED
      BY Zenon, <2>7, <3>3, <3>4 DEF CommitWrite, RowKept
  <2>8. ASSUME FinishWrite(k)
        PROVE  RowKept(j)
    <3>1. worker'[j] = worker[j]
      BY <1>5, <2>8, FinishWriteStep, Zenon DEF Becomes
    <3>2. /\ job'[j] = job[j] /\ column'[j] = column[j] /\ receipts'[j] = receipts[j]
          /\ locked' = locked \ {k}
      BY <1>5, <2>8, FinishWriteStep, Zenon
    <3>3. UNCHANGED <<planned, intent, canceller>>
      BY <2>8, Zenon DEF FinishWrite
    <3> QED
      BY <1>5, <3>1, <3>2, <3>3, Zenon DEF RowKept
  <2> QED
    BY <1>5, <2>1, <2>2, <2>3, <2>4, <2>5, <2>6, <2>7, <2>8 DEF WorkerStep
<1> QED
  BY <1>1, <1>2, <1>3, <1>4, <1>5 DEF StorageNext

\* While a job holds its locks, the revision of what it has selected changes only when it
\* commits that item itself.
LEMMA RevisionStep ==
    ASSUME StorageTypeOK, LocksInv, StorageNext, NEW j \in locked, NEW a \in Items(j),
           record'[a].revision # record[a].revision
    PROVE  CommitWrite(j) /\ worker[j].item = a
<1>1. j \in Jobs /\ a \in Artifacts
  BY ItemsAreArtifacts DEF StorageTypeOK
<1>2. ~TreeEditable(a) /\ ~Editable(a)
  BY <1>1, HeldIsNotEditable, AroundAreArtifacts, Zenon DEF Editable, Claimed
<1>3. ASSUME NEW b \in Artifacts, Lease(b) \/ EndLease(b) \/ Protect(b)
      PROVE  FALSE
  <2>1. b # a => record'[a] = record[a]
    BY <1>1, <1>3, OwnerEdits
  <2>2. b = a => record' = record
    BY <1>1, <1>2, <1>3, OwnerEdits
  <2> QED
    BY <2>1, <2>2, Zenon
<1>4. CASE Store
  BY <1>1, <1>2, <1>4, StoreStep
<1>5. ASSUME NEW k \in Jobs, CommitWrite(k)
      PROVE  CommitWrite(j) /\ worker[j].item = a
  <2>1. worker[k].item \in Artifacts /\ worker[k].item \in Items(k) /\ k \in locked
    BY Zenon, <1>5, BusyItem DEF CommitWrite, At, Busy
  <2>2. worker[k].item = a
    BY Zenon, <1>1, <1>5, <2>1, CommitWriteStep
  <2>3. k # j => Conflict(k, j)
    BY <2>1, <2>2 DEF Conflict, Claimed
  <2> QED
    BY <1>5, <2>1, <2>2, <2>3 DEF LocksInv
<1> QED
  BY <1>3, <1>4, <1>5, RecordSteps, Zenon

\* Every step keeps RowInv.
LEMMA RowStep ==
    ASSUME StorageTypeOK, LocksInv, StorageNext, NEW j \in Jobs \ Cancellable, RowInv(j), ItemInv(j)
    PROVE  RowInv(j)'
<1>1. CASE RowKept(j)
  BY Zenon, <1>1 DEF RowKept, RowInv
<1>2. CASE Crash
  <2>1. /\ worker'[j].at = "idle" /\ canceller'[j] = NewJob
        /\ job'[j].receipts = job[j].receipts /\ receipts' = receipts
    BY <1>2, CrashStep, Zenon
  <2>2. \/ column'[j] = "queued" /\ job'[j].state = "queued"
        \/ column'[j] = column[j] /\ job'[j] = job[j]
    BY <1>2, CrashStep, Zenon
  <2>3. column'[j] = job'[j].state /\ job'[j].state \notin {"cancelling", "cancelled"}
    BY <2>2, Zenon DEF RowInv
  <2>4. \A row \in receipts'[j] : job'[j].receipts[row[1]] # "none"
    BY <2>1, Zenon DEF RowInv
  <2> QED
    BY <2>1, <2>3, <2>4, Zenon DEF RowInv
<1>3. CASE Plan(j)
  BY Zenon, <1>3 DEF Plan, RowInv, callers
<1>4. CASE Start(j)
  <2>1. worker[j].at = "idle"
    BY <1>4 DEF Start, RowInv
  <2>2. \/ UNCHANGED <<column, job>>
        \/ /\ column' = [column EXCEPT ![j] = "queued"]
           /\ job' = [job EXCEPT ![j].state = "queued"]
    BY <1>4 DEF Start
  <2>3. \/ job'[j] = job[j] /\ column'[j] = column[j]
        \/ job'[j].state = "queued" /\ column'[j] = "queued" /\ job'[j].receipts = job[j].receipts
    BY <2>2 DEF StorageTypeOK, JobValues
  <2>4. UNCHANGED <<receipts, worker, canceller>>
    BY <1>4 DEF Start, callers
  <2> QED
    BY <2>1, <2>3, <2>4, Zenon DEF RowInv
<1>5. CASE CancelRead(j) \/ CancelWrite(j) \/ CancelFinish(j)
  BY Zenon, <1>5, CancelSteps DEF RowInv
<1>6. CASE WorkerStep(j)
  <2>1. CASE BeginRead(j)
    BY Zenon, <2>1, ReadSteps DEF BeginRead, At, Reads, Becomes, RowInv, jobs
  <2>2. CASE BeginWrite(j)
    <3>1. worker[j].job = job[j] /\ job[j].state = "queued"
      BY <2>2 DEF BeginWrite, At, RowInv
    <3>2. /\ Puts(j, "running", job[j].receipts)
          /\ Becomes(j, "lock", NewJob, NoOne, 0, "none", "none")
      BY <2>2, <3>1, BeginWriteStep, Zenon
    <3> QED
      BY <2>2, <3>2 DEF BeginWrite, Puts, Becomes, RowInv
  <2>3. CASE Lock(j)
    BY Zenon, <2>3, LockStep DEF Lock, At, Becomes, RowInv
  <2>4. CASE NextItem(j)
    <3>1. worker'[j].at \in {"finish", "commit", "intent"}
      BY <2>4, NextItemStep, Zenon DEF Decides, Becomes
    <3>2. worker'[j].at = "finish" => worker'[j].final \in {"completed", "partial", "failed"}
      BY Zenon, <2>4, NextItemStep DEF Decides, Becomes, RowInv
    <3> QED
      BY Zenon, <2>4, <3>1, <3>2 DEF NextItem, At, RowInv, jobs
  <2>5. CASE PersistIntent(j)
    <3>1. worker[j].item \in Artifacts
      BY <2>5, BusyItem DEF PersistIntent, At, Busy
    <3>2. worker'[j].at \in {"commit", "remove"}
      BY <2>5, <3>1, PersistIntentStep, Zenon DEF Decides, Becomes
    <3> QED
      BY Zenon, <2>5, <3>2 DEF PersistIntent, At, RowInv
  <2>6. CASE RemoveItem(j)
    BY Zenon, <2>6, RemoveItemStep DEF RemoveItem, At, Becomes, RowInv, jobs
  <2>7. CASE CommitRead(j)
    BY Zenon, <2>7, ReadSteps DEF CommitRead, At, Reads, Becomes, RowInv, jobs
  <2>8. CASE CommitWrite(j)
    <3> DEFINE a == worker[j].item
    <3>1. /\ worker[j].at = "write" /\ worker[j].job = job[j] /\ a \in Artifacts
          /\ job[j].receipts[a] = "none" /\ worker[j].outcome # "none"
      BY Zenon, <2>8, BusyItem DEF CommitWrite, At, Busy, RowInv, ItemInv
    <3>2. UNCHANGED <<column, canceller>>
      BY <2>8 DEF CommitWrite
    <3>3. CASE UNCHANGED <<job, receipts>> /\ \E s \in {"partial", "failed"} :
                   Becomes(j, "finish", NewJob, NoOne, 0, "none", s)
      BY Zenon, <3>1, <3>2, <3>3 DEF Becomes, RowInv
    <3>4. CASE /\ receipts' = [receipts EXCEPT ![j] = receipts[j] \cup {<<a, Step(job[j])>>}]
               /\ job'[j].state = job[j].state
               /\ job'[j].receipts = [job[j].receipts EXCEPT ![a] = worker[j].outcome]
               /\ Becomes(j, "next", NewJob, NoOne, 0, "none", "none")
      <4>1. receipts'[j] = receipts[j] \cup {<<a, Step(job[j])>>}
        BY <3>4 DEF StorageTypeOK
      <4>2. job[j].receipts \in [Artifacts -> Outcomes]
        BY Fields DEF StorageTypeOK
      <4>3. \A row \in receipts'[j] : job'[j].receipts[row[1]] # "none"
        <5> SUFFICES ASSUME NEW row \in receipts'[j]
                     PROVE  job'[j].receipts[row[1]] # "none"
          OBVIOUS
        <5>1. row \in receipts[j] \/ row = <<a, Step(job[j])>>
          BY <4>1
        <5>2. CASE row \in receipts[j]
          <6>1. job[j].receipts[row[1]] # "none"
            BY <5>2, Zenon DEF RowInv
          <6>2. \/ job'[j].receipts[row[1]] = job[j].receipts[row[1]]
                \/ row[1] = a /\ job'[j].receipts[row[1]] = worker[j].outcome
            <7>1. job'[j].receipts = [job[j].receipts EXCEPT ![a] = worker[j].outcome]
              BY <3>4, Zenon
            <7> QED
              BY <7>1, <4>2
          <6> QED
            BY <3>1, <6>1, <6>2, Zenon
        <5>3. CASE row = <<a, Step(job[j])>>
          <6>1. row[1] = a
            BY <5>3, Zenon
          <6> QED
            BY <3>1, <3>4, <4>2, <6>1, Zenon
        <5> QED
          BY <5>1, <5>2, <5>3, Zenon
      <4> QED
        BY Zenon, <3>1, <3>2, <3>4, <4>3 DEF Becomes, RowInv
    <3> QED
      BY Zenon, <2>8, <3>1, <3>3, <3>4, CommitWriteStep
  <2>9. CASE FinishRead(j)
    BY Zenon, <2>9, ReadSteps DEF FinishRead, At, Reads, Becomes, RowInv, jobs
  <2>10. CASE FinishWrite(j)
    <3>1. /\ worker[j].at = "finishing" /\ worker[j].job = job[j]
          /\ worker[j].final \in {"completed", "partial", "failed"}
          /\ job[j].state \notin {"cancelling", "cancelled"}
      BY Zenon, <2>10 DEF FinishWrite, At, RowInv
    <3>2. /\ Puts(j, worker[j].final, job[j].receipts) /\ receipts'[j] = receipts[j]
          /\ Becomes(j, "idle", NewJob, NoOne, 0, "none", "none")
      BY <2>10, <3>1, FinishWriteStep, Zenon
    <3>3. /\ canceller'[j] = NewJob /\ column'[j] = job'[j].state /\ worker'[j].at = "idle"
          /\ job'[j].state = worker[j].final
      BY <2>10, <3>2, Zenon DEF FinishWrite, Puts, Becomes, RowInv
    <3>4. \A row \in receipts'[j] : job'[j].receipts[row[1]] # "none"
      BY <3>2, Zenon DEF Puts, RowInv
    <3> QED
      BY <3>1, <3>3, <3>4, Zenon DEF RowInv
  <2> QED
    BY <1>6, <2>1, <2>2, <2>3, <2>4, <2>5, <2>6, <2>7, <2>8, <2>9, <2>10 DEF WorkerStep
<1> QED
  BY <1>1, <1>2, <1>3, <1>4, <1>5, <1>6, OwnSteps

\* A plan, its start and the read of begin_job happen before any item is worked on.
LEMMA NotYetBusy ==
    ASSUME NEW j, RowInv(j), Plan(j) \/ Start(j)
    PROVE  worker[j].at \in {"idle", "begin"} /\ worker' = worker
BY DEF RowInv, Plan, Start, callers

\* Every step keeps ItemInv.
LEMMA ItemStep ==
    ASSUME StorageTypeOK, LocksInv, StorageNext, NEW j \in Jobs \ Cancellable,
           RowInv(j), ItemInv(j), IntentInv(j)
    PROVE  ItemInv(j)'
<1> USE DEF Busy
<1>1. CASE RowKept(j) /\ ~WorkerStep(j)
  <2>1. /\ worker'[j] = worker[j] /\ job'[j] = job[j] /\ planned'[j] = planned[j]
        /\ intent'[j] = intent[j]
    BY <1>1, Zenon DEF RowKept
  <2>2. ASSUME worker[j].at \in Busy
        PROVE  record'[worker[j].item].revision = record[worker[j].item].revision
    <3>1. j \in locked /\ worker[j].item \in Items(j)
      BY <2>2, BusyItem
    <3> QED
      BY <1>1, <3>1, RevisionStep, Zenon DEF WorkerStep
  <2> QED
    BY Zenon, <2>1, <2>2 DEF ItemInv
<1>2. CASE Crash
  BY Zenon, <1>2, CrashStep DEF ItemInv
<1>3. CASE Plan(j) \/ Start(j)
  BY Zenon, <1>3, NotYetBusy DEF ItemInv
<1>4. CASE CancelRead(j) \/ CancelWrite(j) \/ CancelFinish(j)
  BY <1>4, CancelSteps, Zenon DEF RowInv
<1>5. CASE WorkerStep(j)
  <2>1. CASE BeginRead(j) \/ BeginWrite(j) \/ Lock(j) \/ FinishRead(j) \/ FinishWrite(j) \/ CommitWrite(j)
    <3>1. CommitWrite(j) => worker[j].item \in Artifacts
      BY Zenon, BusyItem DEF CommitWrite, At
    <3>2. worker'[j].at \in {"begin", "idle", "lock", "next", "finish", "finishing"}
      BY Zenon, <2>1, <3>1, ReadSteps, BeginWriteStep, LockStep, FinishWriteStep, CommitWriteStep DEF Reads, Becomes
    <3> QED
      BY Zenon, <3>2 DEF ItemInv
  <2>2. CASE NextItem(j)
    <3>1. UNCHANGED <<record, job, intent, planned>>
      BY Zenon, <2>2 DEF NextItem, inventory, jobs
    <3>2. CASE worker'[j].at = "finish"
      BY Zenon, <3>2 DEF ItemInv
    <3>3. ASSUME NEW a \in Items(j), a \in Artifacts, job[j].receipts[a] = "none", a \notin disk,
                 Decides(j, a, "removed")
          PROVE  ItemInv(j)'
      BY Zenon, <3>1, <3>3 DEF Decides, Becomes, ItemInv
    <3>4. ASSUME NEW a \in Items(j), a \in Artifacts, job[j].receipts[a] = "none",
                 record[a].revision # planned[j][a] \/ (~Interrupted(j, a) /\ ~Removable(a)),
                 Decides(j, a, "blocked")
          PROVE  ItemInv(j)'
      <4>1. intent[j][a] = 0
        BY <3>4, Zenon DEF IntentInv, Interrupted, Removable, Free
      <4> QED
        BY Zenon, <3>1, <3>4, <4>1 DEF Decides, Becomes, ItemInv
    <3>5. ASSUME NEW a \in Items(j), job[j].receipts[a] = "none", record[a].revision = planned[j][a],
                 Becomes(j, "intent", worker[j].job, a, record[a].revision, worker[j].outcome,
                         worker[j].final)
          PROVE  ItemInv(j)'
      BY Zenon, <3>1, <3>5 DEF Becomes, ItemInv
    <3> QED
      BY Zenon, <2>2, <3>2, <3>3, <3>4, <3>5, NextItemStep DEF Becomes
  <2>3. CASE PersistIntent(j)
    <3>1. /\ worker[j].at = "intent" /\ column[j] = "running"
          /\ record[worker[j].item].revision = worker[j].revision
      BY Zenon, <2>3 DEF PersistIntent, At, RowInv, ItemInv
    <3>2. worker[j].item \in Artifacts
      BY <3>1, BusyItem, Zenon
    <3>3. Becomes(j, "remove", worker[j].job, worker[j].item, worker[j].revision, worker[j].outcome,
                  worker[j].final)
      BY <2>3, <3>1, <3>2, PersistIntentStep, Zenon
    <3> QED
      BY Zenon, <2>3, <3>1, <3>3 DEF PersistIntent, Becomes, ItemInv, inventory
  <2>4. CASE RemoveItem(j)
    BY Zenon, <2>4, RemoveItemStep DEF RemoveItem, At, Becomes, ItemInv, jobs
  <2>5. CASE CommitRead(j)
    BY Zenon, <2>5, ReadSteps DEF CommitRead, At, Reads, Becomes, ItemInv, inventory, jobs
  <2> QED
    BY <1>5, <2>1, <2>2, <2>3, <2>4, <2>5 DEF WorkerStep
<1> QED
  BY <1>1, <1>2, <1>3, <1>4, <1>5, OwnSteps

\* A removal that was begun and has no receipt yet.
Pending(j, a) == intent[j][a] # 0 /\ job[j].receipts[a] = "none"

\* A step that leaves intents, receipts and plan of job j alone keeps IntentInv if the job
\* of a pending removal keeps its locks and goes on.
LEMMA IntentKept ==
    ASSUME StorageTypeOK, LocksInv, GoneInv, StorageNext, NEW j \in Jobs, IntentInv(j),
           ~CommitWrite(j), intent'[j] = intent[j], job'[j].receipts = job[j].receipts,
           planned'[j] = planned[j],
           ASSUME NEW a \in Artifacts, Pending(j, a)
           PROVE  /\ j \in locked' /\ worker'[j].at \notin {"finish", "finishing"}
                  /\ job'[j].state \in {"queued", "running"}
    PROVE  IntentInv(j)'
<1>1. ASSUME NEW a \in Artifacts, Pending(j, a)
      PROVE  record'[a].revision = intent[j][a] /\ Free(a)'
  <2>1. j \in locked /\ a \in Items(j) /\ record[a].revision = intent[j][a] /\ Free(a)
    BY <1>1, Zenon DEF IntentInv, Pending
  <2>2. record'[a].revision = record[a].revision
    BY <2>1, RevisionStep, Zenon
  <2> QED
    BY <2>1, <2>2, FreeStep, Zenon
<1> QED
  BY <1>1, Zenon DEF IntentInv, Pending

\* When no place is left, every item has its receipt.
LEMMA NothingLeft ==
    ASSUME NEW j \in Jobs, Left(j) = {}, NEW a \in Items(j)
    PROVE  job[j].receipts[a] # "none"
BY DEF Left, Items, Range

\* Every step keeps IntentInv.
LEMMA IntentStep ==
    ASSUME StorageTypeOK, LocksInv, GoneInv, KeepInv, StorageNext, NEW j \in Jobs \ Cancellable,
           RowInv(j), ItemInv(j), IntentInv(j)
    PROVE  IntentInv(j)'
<1>1. CASE RowKept(j) /\ ~WorkerStep(j)
  BY Zenon, <1>1, IntentKept DEF RowKept, WorkerStep, IntentInv, Pending
<1>2. CASE Crash
  <2>1. UNCHANGED <<record, leased, planned, intent>>
    BY <1>2, CrashStep, Zenon
  <2>2. job'[j].receipts = job[j].receipts /\ worker'[j].at = "idle"
    BY <1>2, CrashStep, Zenon
  <2>3. \/ column[j] = "running" /\ job'[j].state = "queued"
        \/ job'[j] = job[j]
    BY <1>2, CrashStep
  <2>4. j \in locked /\ column[j] \in {"queued", "running"} => j \in locked'
    BY <1>2, CrashStep
  <2>5. column[j] = job[j].state
    BY Zenon DEF RowInv
  <2> QED
    BY <2>1, <2>2, <2>3, <2>4, <2>5, Zenon DEF IntentInv, Free, Tree, Kept
<1>3. CASE Plan(j) \/ Start(j)
  <2>1. job[j].state = "none"
    BY <1>3 DEF Plan, Start, RowInv
  <2>2. \A a \in Artifacts : ~Pending(j, a)
    BY <2>1 DEF IntentInv, Pending
  <2>3. UNCHANGED intent
    BY <1>3 DEF Plan, Start
  <2>4. job' = job \/ job' = [job EXCEPT ![j].state = "queued"]
    BY <1>3 DEF Plan, Start
  <2>5. job'[j].receipts = job[j].receipts
    BY <2>4 DEF StorageTypeOK, JobValues
  <2> QED
    BY <2>2, <2>3, <2>5, Zenon DEF IntentInv, Pending
<1>4. CASE CancelRead(j) \/ CancelWrite(j) \/ CancelFinish(j)
  BY <1>4, CancelSteps, Zenon DEF RowInv
<1>5. CASE BeginRead(j)
  <2>1. /\ UNCHANGED <<job, intent, planned, locked>> /\ worker[j].at = "idle"
        /\ worker'[j].at = "begin"
    BY Zenon, <1>5, ReadSteps DEF BeginRead, At, Reads, Becomes, jobs
  <2> QED
    BY Zenon, <2>1, IntentKept DEF IntentInv, Pending, CommitWrite, At
<1>6. CASE BeginWrite(j)
  <2>1. worker[j].at = "begin" /\ worker[j].job = job[j] /\ job[j].state = "queued"
    BY <1>6 DEF BeginWrite, At, RowInv
  <2>2. /\ Puts(j, "running", job[j].receipts)
        /\ Becomes(j, "lock", NewJob, NoOne, 0, "none", "none")
    BY <1>6, <2>1, BeginWriteStep, Zenon
  <2>3. UNCHANGED <<intent, planned, locked>>
    BY <1>6 DEF BeginWrite
  <2> QED
    BY Zenon, <2>1, <2>2, <2>3, IntentKept DEF Puts, Becomes, IntentInv, Pending, CommitWrite, At
<1>7. CASE Lock(j)
  <2>1. UNCHANGED <<job, intent, planned>> /\ worker[j].at = "lock"
    BY <1>7, Zenon DEF Lock, At
  <2>2. ASSUME NEW a \in Artifacts, Pending(j, a)
        PROVE  j \in locked' /\ worker'[j].at = "next"
    <3>1. j \in locked
      BY <2>2 DEF IntentInv, Pending
    <3>2. ~\E k \in locked \ {j} : Conflict(j, k)
      BY <3>1, Zenon DEF LocksInv
    <3> QED
      BY <1>7, <3>2, LockStep, Zenon DEF Becomes
  <2> QED
    BY Zenon, <2>1, <2>2, IntentKept DEF IntentInv, Pending, CommitWrite, At
<1>8. CASE NextItem(j)
  <2>1. UNCHANGED <<job, intent, planned, locked>> /\ worker[j].at = "next"
    BY Zenon, <1>8 DEF NextItem, At, jobs
  <2>2. worker'[j].at \in {"finish", "commit", "intent"}
    BY Zenon, <1>8, NextItemStep DEF Decides, Becomes
  <2>3. worker'[j].at = "finish" => Left(j) = {}
    BY Zenon, <1>8, NextItemStep DEF Decides, Becomes, RowInv
  <2>4. \A a \in Artifacts : Pending(j, a) => worker'[j].at # "finish"
    BY <2>3, NothingLeft, Zenon DEF IntentInv, Pending
  <2> QED
    BY Zenon, <2>1, <2>2, <2>4, IntentKept DEF IntentInv, Pending, CommitWrite, At
<1>9. CASE PersistIntent(j)
  <2> DEFINE n == worker[j].revision
  <2>1. PICK a \in Artifacts : a = worker[j].item
    BY <1>9, BusyItem DEF PersistIntent, At, Busy
  <2>2. /\ worker[j].at = "intent" /\ column[j] = "running" /\ job[j].state = "running"
        /\ record[a].revision = n /\ job[j].receipts[a] = "none" /\ planned[j][a] = n
    BY Zenon, <1>9, <2>1 DEF PersistIntent, At, RowInv, ItemInv, Busy
  <2>3. j \in locked /\ a \in Items(j)
    BY <2>1, <2>2, BusyItem, Zenon DEF Busy
  <2>4. /\ intent' = [intent EXCEPT ![j] = [intent[j] EXCEPT ![a] = IF intent[j][a] = 0 THEN n ELSE intent[j][a]]]
        /\ worker'[j].at = "remove"
    BY Zenon, <1>9, <2>1, <2>2, PersistIntentStep DEF Becomes
  <2>5. UNCHANGED <<record, leased, job, planned, locked>>
    BY <1>9 DEF PersistIntent, inventory
  <2>6. Free(a)
    BY Zenon, <2>1, <2>2 DEF KeepInv
  <2>7. /\ intent'[j][a] = IF intent[j][a] = 0 THEN n ELSE intent[j][a]
        /\ \A b \in Artifacts : b # a => intent'[j][b] = intent[j][b]
    BY <2>4 DEF StorageTypeOK
  <2>8. ASSUME NEW b \in Artifacts
        PROVE  Free(b)' <=> Free(b)
    BY <2>5, Zenon DEF Free, Tree, Kept
  <2> QED
    <3> SUFFICES ASSUME NEW b \in Artifacts, intent'[j][b] # 0
                 PROVE  /\ b \in Items(j) /\ job'[j].receipts[b] \in {"none", "removed", "partial"}
                        /\ job'[j].receipts[b] = "none" =>
                               /\ j \in locked' /\ worker'[j].at \notin {"finish", "finishing"}
                               /\ job'[j].state \in {"queued", "running"}
                               /\ record'[b].revision = intent'[j][b] /\ planned'[j][b] = intent'[j][b]
                               /\ Free(b)'
      BY Zenon DEF IntentInv
    <3>1. job' = job /\ record' = record /\ planned' = planned /\ locked' = locked
      BY <2>5, Zenon
    <3>2. CASE b # a \/ intent[j][a] # 0
      <4>1. intent[j][b] # 0 /\ intent'[j][b] = intent[j][b]
        BY <2>7, <3>2, Zenon
      <4>2. worker'[j].at \notin {"finish", "finishing"}
        BY <2>4
      <4> QED
        BY <2>8, <3>1, <4>1, <4>2, Zenon DEF IntentInv
    <3>3. CASE b = a /\ intent[j][a] = 0
      <4>1. intent'[j][a] = n /\ worker'[j].at \notin {"finish", "finishing"}
        BY <2>4, <2>7, <3>3
      <4> QED
        BY <2>2, <2>3, <2>6, <2>8, <3>1, <3>3, <4>1, Zenon
    <3> QED
      BY <3>2, <3>3, Zenon
<1>10. CASE RemoveItem(j)
  <2>1. /\ UNCHANGED <<job, intent, planned, locked>> /\ worker[j].at = "remove"
        /\ worker'[j].at = "commit"
    BY Zenon, <1>10, RemoveItemStep DEF RemoveItem, At, Becomes, jobs
  <2> QED
    BY Zenon, <2>1, IntentKept DEF IntentInv, Pending, CommitWrite, At
<1>11. CASE CommitRead(j)
  <2>1. /\ UNCHANGED <<job, intent, planned, locked>> /\ worker[j].at = "commit"
        /\ worker'[j].at = "write"
    BY Zenon, <1>11, ReadSteps DEF CommitRead, At, Reads, Becomes, jobs
  <2> QED
    BY Zenon, <2>1, IntentKept DEF IntentInv, Pending, CommitWrite, At
<1>12. CASE CommitWrite(j)
  <2>1. PICK a \in Artifacts : a = worker[j].item
    BY Zenon, <1>12, BusyItem DEF CommitWrite, At, Busy
  <2>2. /\ worker[j].at = "write" /\ worker[j].job = job[j]
        /\ record[a].revision = worker[j].revision /\ job[j].receipts[a] = "none"
        /\ intent[j][a] # 0 => worker[j].outcome \in {"removed", "partial"}
    BY Zenon, <1>12, <2>1 DEF CommitWrite, At, RowInv, ItemInv, Busy
  <2>3. <<a, Step(job[j])>> \notin receipts[j]
    BY <2>2, Zenon DEF RowInv
  <2>4. /\ \A b \in Artifacts : b # a => record'[b] = record[b]
        /\ job'[j].state = job[j].state
        /\ job'[j].receipts = [job[j].receipts EXCEPT ![a] = worker[j].outcome]
        /\ worker'[j].at = "next"
    <3>1. /\ record[worker[j].item].revision = worker[j].revision
          /\ <<worker[j].item, Step(worker[j].job)>> \notin receipts[j]
          /\ worker[j].item \in Artifacts
      BY <2>1, <2>2, <2>3, Zenon
    <3>2. /\ \A b \in Artifacts : b # worker[j].item => record'[b] = record[b]
          /\ job'[j].state = worker[j].job.state
          /\ job'[j].receipts = [worker[j].job.receipts EXCEPT ![worker[j].item] = worker[j].outcome]
          /\ worker'[j].at = "next"
      BY Zenon, <1>12, <3>1, CommitWriteStep DEF Becomes
    <3> QED
      BY <2>1, <2>2, <3>2, Zenon
  <2>5. UNCHANGED <<planned, intent, locked>>
    BY Zenon, <1>12 DEF CommitWrite
  <2>6. job[j].receipts \in [Artifacts -> Outcomes]
    BY Fields DEF StorageTypeOK
  <2>7. ASSUME NEW b \in Artifacts, b # a, Pending(j, b)
        PROVE  Free(b)'
    <3>1. j \in locked /\ b \in Items(j) /\ Free(b)
      BY Zenon, <2>7 DEF IntentInv, Pending
    <3> QED
      BY <3>1, FreeStep
  <2>8. ASSUME NEW b \in Artifacts, intent[j][b] # 0
        PROVE  /\ b \in Items(j) /\ job'[j].receipts[b] \in {"none", "removed", "partial"}
               /\ job'[j].receipts[b] = "none" =>
                    /\ j \in locked' /\ worker'[j].at \notin {"finish", "finishing"}
                    /\ job'[j].state \in {"queued", "running"}
                    /\ record'[b].revision = intent[j][b] /\ planned[j][b] = intent[j][b]
                    /\ Free(b)'
    <3>1. CASE b = a
      BY Zenon, <2>2, <2>4, <2>6, <2>8, <3>1 DEF IntentInv
    <3>2. CASE b # a
      BY Zenon, <2>4, <2>5, <2>6, <2>7, <2>8, <3>2 DEF IntentInv, Pending
    <3> QED
      BY Zenon, <3>1, <3>2
  <2> QED
    BY Zenon, <2>5, <2>8 DEF IntentInv
<1>13. CASE FinishRead(j)
  <2>1. UNCHANGED <<job, intent, planned, locked>> /\ worker[j].at = "finish"
    BY <1>13 DEF FinishRead, At, jobs
  <2> QED
    BY Zenon, <2>1, IntentKept DEF IntentInv, Pending, CommitWrite, At
<1>14. CASE FinishWrite(j)
  <2>1. /\ worker[j].at = "finishing" /\ worker[j].job = job[j]
        /\ worker[j].final \in {"completed", "partial", "failed"}
        /\ job[j].state \notin {"cancelling", "cancelled"}
    BY Zenon, <1>14 DEF FinishWrite, At, RowInv
  <2>2. job'[j].receipts = job[j].receipts
    BY Zenon, <1>14, <2>1, FinishWriteStep DEF Puts
  <2>3. UNCHANGED <<intent, planned>>
    BY <1>14 DEF FinishWrite
  <2> QED
    BY Zenon, <2>1, <2>2, <2>3, IntentKept DEF IntentInv, Pending, CommitWrite, At
<1> QED
  BY <1>1, <1>2, <1>3, <1>4, <1>5, <1>6, <1>7, <1>8, <1>9, <1>10, <1>11, <1>12, <1>13, <1>14, OwnSteps, Zenon
     DEF WorkerStep

\* ReportInv holds at first.
LEMMA InitReport ==
    ASSUME StorageInit
    PROVE  ReportInv
<1> SUFFICES ASSUME NEW j \in Jobs \ Cancellable
             PROVE  RowInv(j) /\ ItemInv(j) /\ IntentInv(j)
  BY DEF ReportInv
<1>1. /\ canceller[j] = NewJob /\ column[j] = "none" /\ job[j].state = "none"
      /\ worker[j].at = "idle" /\ receipts[j] = {}
  BY Zenon DEF StorageInit, NewJob, IdleWorker
<1>2. \A a \in Artifacts : intent[j][a] = 0
  BY DEF StorageInit, NoPlan
<1> QED
  BY <1>1, <1>2, Zenon DEF RowInv, ItemInv, IntentInv, Busy

\* A stuttering step keeps it.
LEMMA StutterReport ==
    ASSUME ReportInv, UNCHANGED storageVars
    PROVE  ReportInv'
<1>1. /\ UNCHANGED <<record, leased, planned, column, job, receipts, intent, locked, worker, canceller>>
      /\ UNCHANGED disk
  BY DEF storageVars, inventory, jobs, callers
<1>2. \A a \in Artifacts : Free(a)' <=> Free(a)
  BY <1>1, Zenon DEF Free, Kept, Tree
<1> SUFFICES ASSUME NEW j \in Jobs \ Cancellable
             PROVE  RowInv(j)' /\ ItemInv(j)' /\ IntentInv(j)'
  BY DEF ReportInv
<1>3. RowInv(j)'
  BY <1>1, Zenon DEF ReportInv, RowInv
<1>4. ItemInv(j)'
  BY <1>1, Zenon DEF ReportInv, ItemInv
<1>5. IntentInv(j)'
  BY <1>1, <1>2, Zenon DEF ReportInv, IntentInv, Items
<1> QED
  BY <1>3, <1>4, <1>5

\* Every removal that a job nobody cancels has begun has its receipt when the job ends, for
\* any selection, any number of restarts and whatever other jobs, callers and scans do.
THEOREM RemovalsAreReported == StorageSpec => []RemovalIsReported
<1>1. StorageInit => ReportInv
  BY InitReport
<1>2. /\ StorageTypeOK /\ LocksInv /\ GoneInv /\ KeepInv /\ ReportInv
      /\ [StorageNext]_storageVars
      => ReportInv'
  <2>1. ASSUME StorageTypeOK, LocksInv, GoneInv, KeepInv, ReportInv, StorageNext,
               NEW j \in Jobs \ Cancellable
        PROVE  (RowInv(j) /\ ItemInv(j) /\ IntentInv(j))'
    <3>1. RowInv(j) /\ ItemInv(j) /\ IntentInv(j)
      BY <2>1 DEF ReportInv
    <3> QED
      BY <2>1, <3>1, RowStep, ItemStep, IntentStep
  <2> QED
    BY <2>1, StutterReport DEF ReportInv
<1>3. ReportInv => RemovalIsReported
  BY Zenon DEF ReportInv, IntentInv, RemovalIsReported, Ended
<1> QED
  BY <1>1, <1>2, <1>3, StorageTyped, RemovedIsGone, RemovedIsFree, PTL DEF StorageSpec
=============================================================================
