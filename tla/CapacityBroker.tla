--------------------------- MODULE CapacityBroker ---------------------------
(***************************************************************************)
(* The host-wide test capacity broker: rust/control/src/capacity.rs.       *)
(*                                                                         *)
(* Executor leaves connect, queue under their run and wait for a permit;   *)
(* permits go round robin over the runs, never above the effective         *)
(* capacity.  Every method works under one mutex.  The loop of grant_ready *)
(* is modelled pass by pass with the mutex held; what a method does after  *)
(* it has unlocked (persisting an adjustment, waking the connections) is a *)
(* step of its own, because other methods run in between.                  *)
(*                                                                         *)
(* A permit is named by the leaf that asked for it.  Samples and elapsed   *)
(* time are abstracted to what they can make finish_epoch decide; the      *)
(* streaks, thresholds and percentiles are in CapacityLearning, which is   *)
(* shown to decide nothing that Judges and FinishEpoch do not allow.       *)
(***************************************************************************)
EXTENDS Naturals, Sequences, FiniteSets

CONSTANTS
    Runs,
    Leaves,           \* acquire requests, each on a connection of its own
    RunOf,            \* the run a leaf belongs to
    InitialCapacity,
    CapMax,           \* CAP_MAX
    Admin,            \* the thread of test.capacity.set
    Sampler,          \* the sampling task
    NoOne,
    Caps,             \* what the administrator sets, NoCap to clear the cap
    Samples,          \* what samples report
    RandomMayFail,    \* whether drawing a permit ID may fail
    DatabaseMayFail   \* whether persisting an adjustment may fail

ASSUME BrokerConstants ==
    /\ RunOf \in [Leaves -> Runs]
    /\ CapMax \in Nat
    /\ InitialCapacity \in 1 .. CapMax
    /\ Caps \subseteq 0 .. CapMax
    /\ Samples \subseteq {"emergency", "pressure", "recovery", "other"}
    /\ RandomMayFail \in BOOLEAN
    /\ DatabaseMayFail \in BOOLEAN
    /\ Cardinality({Admin, Sampler, NoOne}) = 3
    /\ {Admin, Sampler, NoOne} \cap (Runs \cup Leaves) = {}
    /\ Runs \cap Leaves = {}

VARIABLES
    learned,         \* State.learned
    cap,             \* State.cap, NoCap for None
    run,             \* registered_runs, and the runs before and after
    queues,          \* State.queues; an empty queue is an absent key
    roundRobin,      \* State.round_robin
    pending,         \* State.pending: the outcome of each request
    active,          \* State.active: leaves that hold a permit
    stopping,
    paused,
    memoryEmergency,
    pendingDecrease,
    epoch,           \* epoch_started.is_some()
    epochRuns,
    lock,            \* the state mutex: the method that holds it
    after,           \* what each thread still does after unlocking
    conn,            \* how far each connection has come
    wake,            \* connections whose Notified future is ready
    durable          \* the row of test_capacity_state

learningVars == <<learned, paused, memoryEmergency, pendingDecrease, epoch, epochRuns>>
queueVars == <<queues, roundRobin, pending, active>>
brokerVars == <<learned, cap, run, queues, roundRobin, pending, active, stopping, paused,
                memoryEmergency, pendingDecrease, epoch, epochRuns, lock, after, conn, wake,
                durable>>

NoCap == 0
Threads == Leaves \cup Runs \cup {Admin, Sampler}
Unlocked == [op |-> "none", by |-> NoOne, adjusted |-> FALSE]
NoJob == [todo |-> "nothing", learned |-> 0, cap |-> 0]
NotifyJob == [NoJob EXCEPT !.todo = "notify"]
Methods == {"enqueue", "cancel", "release", "unregister", "set_cap", "sample"}

BrokerTypeOK ==
    /\ learned \in 1 .. CapMax
    /\ cap \in 0 .. CapMax
    /\ run \in [Runs -> {"new", "registered", "ended"}]
    /\ queues \in [Runs -> Seq(Leaves)]
    /\ roundRobin \in Seq(Runs)
    /\ pending \in [Leaves -> {"none", "waiting", "granted", "denied"}]
    /\ active \in SUBSET Leaves
    /\ stopping \in BOOLEAN
    /\ paused \in BOOLEAN
    /\ memoryEmergency \in BOOLEAN
    /\ pendingDecrease \in BOOLEAN
    /\ epoch \in BOOLEAN
    /\ epochRuns \in SUBSET Runs
    /\ lock \in [op : Methods \cup {"none"}, by : Threads \cup {NoOne}, adjusted : BOOLEAN]
    /\ after \in [Threads -> [todo : {"nothing", "persist", "notify"},
                              learned : 0 .. CapMax, cap : 0 .. CapMax]]
    /\ conn \in [Leaves -> {"idle", "enqueued", "look", "asleep", "holding", "over"}]
    /\ wake \in SUBSET Leaves
    /\ durable \in [learned : 1 .. CapMax, cap : 0 .. CapMax]

BrokerInit ==
    /\ learned = InitialCapacity
    /\ cap = NoCap
    /\ run = [r \in Runs |-> "new"]
    /\ queues = [r \in Runs |-> <<>>]
    /\ roundRobin = <<>>
    /\ pending = [l \in Leaves |-> "none"]
    /\ active = {}
    /\ stopping = FALSE
    /\ paused = FALSE
    /\ memoryEmergency = FALSE
    /\ pendingDecrease = FALSE
    /\ epoch = FALSE
    /\ epochRuns = {}
    /\ lock = Unlocked
    /\ after = [t \in Threads |-> NoJob]
    /\ conn = [l \in Leaves |-> "idle"]
    /\ wake = {}
    /\ durable = [learned |-> InitialCapacity, cap |-> NoCap]

-----------------------------------------------------------------------------
Registered == {r \in Runs : run[r] = "registered"}
Elements(s) == {s[i] : i \in DOMAIN s}

\* State::waiting() > 0.
Waiting == \E r \in Runs : queues[r] # <<>>

\* State::effective.
Effective == IF cap = NoCap \/ learned < cap THEN learned ELSE cap

\* retain(|x| x != y) on a queue that holds y at most once.
Without(s, y) ==
    IF y \notin Elements(s) THEN s
    ELSE LET i == CHOOSE i \in DOMAIN s : s[i] = y
         IN  [j \in 1 .. Len(s) - 1 |-> IF j < i THEN s[j] ELSE s[j + 1]]

\* The mutex is free, and this thread has finished its previous method.
Takes(t) == lock.op = "none" /\ after[t] = NoJob
Locked(op, t, adjusted) == lock' = [op |-> op, by |-> t, adjusted |-> adjusted]

\* Mutant: the connections are only notified of an adjustment.
UnlocksSilently(adjusted, capacity) ==
    IF adjusted THEN [todo |-> "persist", learned |-> capacity, cap |-> cap] ELSE NoJob

\* What is left to do after unlocking, with the values read under the mutex.
Unlocks(adjusted, capacity) ==
    IF adjusted THEN [todo |-> "persist", learned |-> capacity, cap |-> cap] ELSE NotifyJob

\* notify_waiters: a Notified future counts from its creation.
NotifyWaiters == wake' = wake \cup {l \in Leaves : conn[l] \in {"look", "asleep"}}

\* A quarter less and a quarter more, by at least one.
Decreased(n) == IF n = 1 THEN 1 ELSE IF n < 4 THEN n - 1 ELSE (3 * n) \div 4
Increased(n) == LET more == IF n < 4 THEN n + 1 ELSE (5 * n + 3) \div 4
                IN  IF more < CapMax THEN more ELSE CapMax

\* State::start_epoch.
StartEpoch(r) ==
    /\ epoch' = TRUE
    /\ epochRuns' = IF epoch THEN epochRuns \cup {r} ELSE {r}
    /\ pendingDecrease' = (pendingDecrease /\ epoch)

\* State::finish_epoch, given what the method has changed so far: the permits,
\* whether a request waits, the registered runs, the pause, the emergency and
\* the mark for a decrease.  The epoch is eligible when a run that ended in it
\* lasted long enough, or it lasted long enough itself and a permit is active.
\* A live epoch that is not eligible goes on; an idle one ends in any case.
FinishEpoch(permits, waiting, registered, pause, emergency, decrease) ==
    LET busy == permits # {} \/ waiting \/ epochRuns \cap registered # {}
        lastingRun == ~ (epochRuns \subseteq registered)
    IN  /\ memoryEmergency' = emergency
        /\ \/ /\ ~epoch \/ busy
              /\ paused' = pause
              /\ pendingDecrease' = decrease
              /\ UNCHANGED <<learned, epoch, epochRuns>>
           \/ /\ epoch
              /\ \E eligible, underused \in BOOLEAN :
                    /\ busy => eligible
                    /\ eligible => lastingRun \/ permits # {}
                    /\ learned' = CASE eligible /\ decrease -> Decreased(learned)
                                    [] /\ eligible /\ ~decrease /\ ~pause /\ underused
                                       /\ cap = NoCap \/ cap > learned -> Increased(learned)
                                    [] OTHER -> learned
              /\ epoch' = busy
              /\ epochRuns' = IF busy THEN epochRuns \cap registered ELSE {}
              /\ paused' = IF busy THEN pause ELSE emergency
              /\ pendingDecrease' = FALSE

-----------------------------------------------------------------------------
(* Methods that take the mutex.                                            *)

RegisterRun(r) ==
    /\ lock.op = "none"
    /\ run[r] = "new"
    /\ run' = [run EXCEPT ![r] = "registered"]
    /\ UNCHANGED <<learned, cap, queueVars, stopping, paused, memoryEmergency, pendingDecrease,
                   epoch, epochRuns, lock, after, conn, wake, durable>>

\* enqueue, up to grant_ready; a refused request ends its connection.
Enqueue(l) ==
    LET r == RunOf[l]
    IN  /\ Takes(l)
        /\ conn[l] = "idle"
        /\ IF stopping \/ r \notin Registered
           THEN /\ conn' = [conn EXCEPT ![l] = "over"]
                /\ UNCHANGED <<queues, roundRobin, pending, epoch, epochRuns, pendingDecrease, lock>>
           ELSE /\ roundRobin' = IF queues[r] = <<>> THEN Append(roundRobin, r) ELSE roundRobin
                /\ queues' = [queues EXCEPT ![r] = Append(@, l)]
                /\ pending' = [pending EXCEPT ![l] = "waiting"]
                /\ StartEpoch(r)
                /\ Locked("enqueue", l, FALSE)
                /\ conn' = [conn EXCEPT ![l] = "enqueued"]
        /\ UNCHANGED <<learned, cap, run, active, stopping, paused, memoryEmergency, after, wake,
                       durable>>

\* Mutant: one permit more than the capacity.
MayGrantOneMore == ~paused /\ Cardinality(active) <= Effective /\ roundRobin # <<>>

\* The condition of the loop in grant_ready, and a run to serve.
MayGrant == ~paused /\ Cardinality(active) < Effective /\ roundRobin # <<>>

\* One pass of the loop in grant_ready.  A permit ID that cannot be drawn ends
\* the method after the request has left its queue.
GrantOne ==
    LET r == Head(roundRobin)
        l == Head(queues[r])
        rest == Tail(queues[r])
    IN  /\ lock.op # "none"
        /\ MayGrant
        /\ queues' = [queues EXCEPT ![r] = rest]
        /\ roundRobin' = IF rest = <<>> THEN Tail(roundRobin) ELSE Append(Tail(roundRobin), r)
        /\ \/ /\ active' = active \cup {l}
              /\ pending' = [pending EXCEPT ![l] = "granted"]
              /\ UNCHANGED <<lock, after, conn>>
           \/ /\ RandomMayFail
              /\ lock' = Unlocked
              /\ IF lock.op = "enqueue"
                 THEN conn' = [conn EXCEPT ![lock.by] = "over"]
                 ELSE UNCHANGED conn
              /\ after' = IF lock.op = "sample"
                          THEN [after EXCEPT ![Sampler] = Unlocks(lock.adjusted, learned)]
                          ELSE after
              /\ UNCHANGED <<active, pending>>
        /\ UNCHANGED <<learned, cap, run, stopping, paused, memoryEmergency, pendingDecrease,
                       epoch, epochRuns, wake, durable>>

\* The loop is over.  release and cancel_pending look at the epoch only now,
\* unregister_run and the sampler have done so before.
GrantEnds ==
    /\ lock.op # "none"
    /\ ~MayGrant
    /\ IF lock.op \in {"release", "cancel"}
       THEN FinishEpoch(active, Waiting, Registered, paused, memoryEmergency, pendingDecrease)
       ELSE UNCHANGED learningVars
    /\ after' = [after EXCEPT ![lock.by] = Unlocks(lock.adjusted \/ learned' # learned, learned')]
    /\ lock' = Unlocked
    /\ UNCHANGED <<cap, run, queueVars, stopping, conn, wake, durable>>

\* persist_adjustment and notify_waiters, after the mutex is free.  Only the
\* sampler still notifies when the adjustment could not be persisted.
PersistAndNotify(t) ==
    LET job == after[t]
    IN  /\ job.todo # "nothing"
        /\ after' = [after EXCEPT ![t] = NoJob]
        /\ \/ /\ durable' = IF job.todo = "persist"
                            THEN [learned |-> job.learned, cap |-> job.cap] ELSE durable
              /\ NotifyWaiters
           \/ /\ DatabaseMayFail
              /\ job.todo = "persist"
              /\ IF t = Sampler THEN NotifyWaiters ELSE UNCHANGED wake
              /\ UNCHANGED durable
        /\ UNCHANGED <<learningVars, cap, run, queueVars, stopping, lock, conn>>

\* Mutant: the permits of the run stay active.
PermitsKept(r) == active

\* Mutant: the connections of the run are not told.
OutcomesUntold(r) == pending

\* What unregister_run leaves of the permits, and tells the queued requests.
PermitsOfOthers(r) == {l \in active : RunOf[l] # r}
OutcomesWithout(r) ==
    [l \in Leaves |-> IF l \in Elements(queues[r]) THEN "denied" ELSE pending[l]]

\* unregister_run: everything the run has waiting or active is dropped.
UnregisterRun(r) ==
    LET permits == PermitsOfOthers(r)
    IN  /\ Takes(r)
        /\ run[r] = "registered"
        /\ run' = [run EXCEPT ![r] = "ended"]
        /\ queues' = [queues EXCEPT ![r] = <<>>]
        /\ roundRobin' = Without(roundRobin, r)
        /\ pending' = OutcomesWithout(r)
        /\ active' = permits
        /\ FinishEpoch(permits, \E q \in Runs \ {r} : queues[q] # <<>>, Registered \ {r}, paused, memoryEmergency,
                       pendingDecrease)
        /\ Locked("unregister", r, learned' # learned)
        /\ UNCHANGED <<cap, stopping, after, conn, wake, durable>>

\* set_cap persists under the mutex, and takes the cap back when that fails.
SetCap(c) ==
    /\ Takes(Admin)
    /\ c # cap
    /\ cap' = c
    /\ durable' = [learned |-> learned, cap |-> c]
    /\ Locked("set_cap", Admin, FALSE)
    /\ UNCHANGED <<learningVars, run, queueVars, stopping, after, conn, wake>>

\* What a sample does to the pause: a memory emergency pauses at once, the
\* last of a streak of pressure pauses inside an epoch or an emergency, the
\* last of a streak of recovery resumes, any other sample changes neither.
Judges(sample) ==
    /\ sample = "pressure" => epoch \/ memoryEmergency
    /\ sample = "recovery" => paused /\ (epoch \/ memoryEmergency)
    /\ LET pause == CASE sample \in {"emergency", "pressure"} -> TRUE
                      [] sample = "recovery" -> FALSE
                      [] OTHER -> paused
           emergency == CASE sample = "emergency" -> TRUE
                          [] sample = "recovery" -> FALSE
                          [] OTHER -> memoryEmergency
           decrease == pendingDecrease \/ sample \in {"emergency", "pressure"}
       IN  FinishEpoch(active, Waiting, Registered, pause, emergency, decrease)

RecordSample(sample) ==
    /\ Takes(Sampler)
    /\ ~stopping
    /\ Judges(sample)
    /\ Locked("sample", Sampler, learned' # learned)
    /\ UNCHANGED <<cap, run, queueVars, stopping, after, conn, wake, durable>>

\* The service ends: whatever waits is denied and every permit is dropped.
Stop ==
    /\ Takes(Sampler)
    /\ ~stopping
    /\ stopping' = TRUE
    /\ pending' = [l \in Leaves |-> IF pending[l] = "waiting" THEN "denied" ELSE pending[l]]
    /\ queues' = [r \in Runs |-> <<>>]
    /\ roundRobin' = <<>>
    /\ active' = {}
    /\ NotifyWaiters
    /\ UNCHANGED <<learningVars, cap, run, lock, after, conn, durable>>

-----------------------------------------------------------------------------
(* serve_connection of an acquire request.                                 *)

\* A Notified future is created, at first and after every wake-up.
Arm(l) ==
    /\ \/ conn[l] = "enqueued" /\ lock.by # l /\ after[l] = NoJob
       \/ conn[l] = "asleep" /\ l \in wake
    /\ conn' = [conn EXCEPT ![l] = "look"]
    /\ wake' = wake \ {l}
    /\ UNCHANGED <<learningVars, cap, run, queueVars, stopping, lock, after, durable>>

\* take_outcome removes an outcome when it hands it over.
TakeOutcome(l) ==
    /\ lock.op = "none"
    /\ conn[l] = "look"
    /\ conn' = [conn EXCEPT ![l] = CASE pending[l] = "granted" -> "holding"
                                     [] pending[l] = "denied" -> "over"
                                     [] OTHER -> "asleep"]
    /\ pending' = [pending EXCEPT ![l] = IF @ = "waiting" THEN @ ELSE "none"]
    /\ wake' = IF pending[l] = "waiting" THEN wake ELSE wake \ {l}
    /\ UNCHANGED <<learningVars, cap, run, queues, roundRobin, active, stopping, lock, after,
                   durable>>

\* Mutant: a permit granted but not taken stays active.
PermitsCancelKeeps(l) == active

\* Mutant: the run stays in the round although it has nothing queued.
RoundCancelKeeps(l) == roundRobin

\* The permits and the round that cancel_pending leaves.
PermitsCancelLeaves(l) == IF pending[l] = "granted" THEN active \ {l} ELSE active
RoundCancelLeaves(l) ==
    IF queues[RunOf[l]] # <<>> /\ Without(queues[RunOf[l]], l) = <<>>
    THEN Without(roundRobin, RunOf[l]) ELSE roundRobin

\* The client goes away while it waits: cancel_pending.
CancelPending(l) ==
    /\ Takes(l)
    /\ conn[l] = "asleep"
    /\ conn' = [conn EXCEPT ![l] = "over"]
    /\ pending' = [pending EXCEPT ![l] = "none"]
    /\ active' = PermitsCancelLeaves(l)
    /\ queues' = [queues EXCEPT ![RunOf[l]] = Without(@, l)]
    /\ roundRobin' = RoundCancelLeaves(l)
    /\ wake' = wake \ {l}
    /\ Locked("cancel", l, FALSE)
    /\ UNCHANGED <<learningVars, cap, run, stopping, after, durable>>

\* The client releases its permit or goes away, or the handler sees that the
\* permit is gone: release.
Release(l) ==
    /\ Takes(l)
    /\ conn[l] = "holding"
    /\ conn' = [conn EXCEPT ![l] = "over"]
    /\ active' = active \ {l}
    /\ IF l \in active THEN Locked("release", l, FALSE) ELSE UNCHANGED lock
    /\ UNCHANGED <<learningVars, cap, run, queues, roundRobin, pending, stopping, after, wake,
                   durable>>

-----------------------------------------------------------------------------
ConnectionStep(l) == Enqueue(l) \/ Arm(l) \/ TakeOutcome(l) \/ CancelPending(l) \/ Release(l)

BrokerNext ==
    \/ \E r \in Runs : RegisterRun(r) \/ UnregisterRun(r)
    \/ \E l \in Leaves : ConnectionStep(l)
    \/ GrantOne
    \/ GrantEnds
    \/ \E t \in Threads : PersistAndNotify(t)
    \/ \E c \in Caps : SetCap(c)
    \/ \E sample \in Samples : RecordSample(sample)
    \/ Stop

BrokerSpec == BrokerInit /\ [][BrokerNext]_brokerVars

-----------------------------------------------------------------------------
\* grant_ready takes the run at the head of round_robin, finds its queue and a
\* request in it: round_robin names the runs with a request in their queue, and
\* each of them once, so no run is skipped and none is served twice a round.
RoundRobinIsExact ==
    /\ Elements(roundRobin) = {r \in Runs : queues[r] # <<>>}
    /\ \A i, j \in DOMAIN roundRobin : roundRobin[i] = roundRobin[j] => i = j

\* A request that waits is in the queue of its run, once, until enqueue,
\* cancel_pending, unregister_run, stop or a grant decides about it.
WaiterIsQueued ==
    \A l \in Leaves : pending[l] = "waiting" <=> l \in Elements(queues[RunOf[l]])

\* A permit counted in State.active belongs to a connection that holds it or
\* that has yet to take it, so that its release or its Drop gives it back.
PermitHasOwner ==
    \A l \in active : \/ conn[l] = "holding"
                      \/ pending[l] = "granted" /\ conn[l] \in {"enqueued", "look", "asleep"}

\* Permits and queues are those of registered runs: unregister_run leaves none
\* behind, whatever was queued, granted or taken.
EndedRunHoldsNothing ==
    \A r \in Runs \ Registered : queues[r] = <<>> /\ \A l \in active : RunOf[l] # r

\* A connection that sleeps in serve_connection while its request is decided
\* has been woken, or the method that decided has yet to notify.
SleeperIsWoken ==
    \A l \in Leaves :
        conn[l] = "asleep" /\ pending[l] \in {"granted", "denied"} =>
            \/ l \in wake
            \/ lock.op # "none"
            \/ \E t \in Threads : after[t].todo # "nothing"

\* A method grants only up to the effective capacity and never while admission
\* is paused; permits above a lowered cap are not taken away, nor renewed.
GrantsStayWithinCapacity ==
    [][active' \subseteq active \/ (~paused /\ Cardinality(active') <= Effective)]_brokerVars

\* What a restarted broker would read back from test_capacity_state, once every
\* method is done, is the cap and the learned capacity it had in memory.
AdjustmentSurvivesRestart ==
    lock.op = "none" /\ (\A t \in Threads : after[t] = NoJob) =>
        durable = [learned |-> learned, cap |-> cap]

\* The sampler ticks, the executor uses a permit for a finite time, and every
\* method that took the mutex gives it back.
BrokerFairness ==
    /\ WF_brokerVars(GrantOne)
    /\ WF_brokerVars(GrantEnds)
    /\ \A t \in Threads : WF_brokerVars(PersistAndNotify(t))
    /\ SF_brokerVars(RecordSample("other"))
    /\ \A l \in Leaves : WF_brokerVars(Arm(l)) /\ SF_brokerVars(TakeOutcome(l))
    /\ \A l \in Leaves : SF_brokerVars(Release(l))

FairBroker == BrokerSpec /\ BrokerFairness

\* A leaf that waits in serve_connection gets its permit or is told why not,
\* unless admission is paused again and again.
SleeperIsServed ==
    \A l \in Leaves : <>[](~paused) => (conn[l] = "asleep" ~> conn[l] \in {"holding", "over"})
=============================================================================
