----------------------------- MODULE OwnedEvents -----------------------------
(***************************************************************************)
(* The journal of owned events, its one scheduler thread and the waits it  *)
(* answers (rust/control/src/events.rs, and the test.wait, deployment.wait *)
(* and event.wait loops of rust/control/src/control_plane.rs).             *)
(*                                                                         *)
(* A publisher is a test run or a deployment, which publishes once it has  *)
(* settled, or a notifier, which publishes unrelated events.  A wait holds *)
(* one subscription at a time, with one filter: test.wait and              *)
(* deployment.wait ask for their subject's event, event.wait for every     *)
(* event.  A subscription is named by its wait: the daemon's numbers are   *)
(* fresh, and a wait sends Cancel for the old one before it registers      *)
(* again.  A reader's two statements are two steps, because they run       *)
(* outside a transaction; an append is two steps under the table lock.     *)
(***************************************************************************)
EXTENDS Integers, Sequences, FiniteSets, FiniteSetsExt

CONSTANTS
    Runs, Deployments, Notifiers,             \* publishers
    TestWaits, DeploymentWaits, EventWaits,   \* waits
    Subject,             \* the run or deployment a wait is for
    Timed,               \* the waits with a deadline
    Leaving, Revocable,  \* the waits whose caller may disconnect, or lose its grant
    AppendMayFail,       \* whether the database may refuse an append
    Retained,            \* MAX_RETAINED_EVENTS
    CommandCapacity,     \* COMMAND_CAPACITY
    MaxSubscriptions,    \* MAX_SUBSCRIPTIONS
    Limit,               \* the request's limit
    MaxCursor,           \* bound on the cursors that notifiers use up
    MaxFaults,           \* bound on restarts, failed appends, disconnects and lost grants
    NoOne

Subjects == Runs \cup Deployments
Publishers == Subjects \cup Notifiers
SubjectWaits == TestWaits \cup DeploymentWaits
Waits == SubjectWaits \cup EventWaits

ASSUME EventConstants ==
    /\ Subject \in [SubjectWaits -> Subjects]
    /\ \A w \in TestWaits : Subject[w] \in Runs
    /\ SubjectWaits \subseteq Timed
    /\ Timed \cup Leaving \cup Revocable \subseteq Waits
    /\ {Retained, CommandCapacity, MaxSubscriptions, Limit} \subseteq Nat \ {0}
    /\ {MaxCursor, MaxFaults} \subseteq Nat
    /\ AppendMayFail \in BOOLEAN
    /\ NoOne \notin Publishers \cup Waits

VARIABLES
    journal,     \* owned_events: records with cursor and from (the publisher)
    lastCursor,  \* the identity sequence of owned_events
    writer,      \* the cursor each open append has drawn, or 0
    stage,       \* where each publisher is
    commands,    \* the scheduler's bounded channel
    subscribed,  \* the scheduler's subscriptions
    sched,       \* the evaluation the scheduler is in
    cursor,      \* the cursor each wait's request starts from
    position,    \* the cursor of each wait's subscription
    pc,          \* where each wait is
    answer,      \* what its oneshot channel holds
    due,         \* the waits whose deadline has passed
    allowed,     \* the waits whose caller may still see their scope
    faults       \* how many restarts, failed appends, disconnects and lost grants

journalVars == <<journal, lastCursor, writer>>
schedulerVars == <<commands, subscribed, sched>>
waitVars == <<pc, cursor, position, answer>>
worldVars == <<due, allowed, faults>>
eventVars == <<journalVars, stage, schedulerVars, waitVars, worldVars>>

Idle == [at |-> "idle", todo |-> {}, now |-> NoOne, head |-> 0]
Register(w) == [is |-> "register", wait |-> w]
Cancel(w) == [is |-> "cancel", wait |-> w]
Published == [is |-> "published", wait |-> NoOne]
Nothing == [is |-> "nothing", cursors |-> {}]
Failure == [is |-> "error", cursors |-> {}]
Room == Len(commands) < CommandCapacity
Fault == faults < MaxFaults /\ faults' = faults + 1

Cursors(rows) == {e.cursor : e \in rows}
HistoryHead(rows) == IF rows = {} THEN 0 ELSE Max(Cursors(rows))
HistoryFloor(rows) == IF rows = {} THEN 0 ELSE Min(Cursors(rows))

\* matches_filter: the runs are of one repository, which test.wait's filter names;
\* deployment.wait's filter names its deployment; event.wait asks for everything.
Matches(w, e) ==
    /\ w \in TestWaits => e.from \in Runs
    /\ w \in DeploymentWaits => e.from = Subject[w]

\* The status a wait reads: its run ended, or its deployment is in the state asked for.
Settled(w) == stage[Subject[w]] # "unsettled"

EventInit ==
    /\ journal = {} /\ lastCursor = 0 /\ writer = [p \in Publishers |-> 0]
    /\ stage = [p \in Publishers |-> IF p \in Subjects THEN "unsettled" ELSE "done"]
    /\ commands = <<>> /\ subscribed = {} /\ sched = Idle
    /\ pc = [w \in Waits |-> IF w \in EventWaits THEN "register" ELSE "check"]
    /\ cursor = [w \in Waits |-> 0] /\ position = cursor /\ answer = [w \in Waits |-> Nothing]
    /\ due = {} /\ allowed = Waits /\ faults = 0

-----------------------------------------------------------------------------
(* Publishing *)

\* A run's finalization, or a deployment operation, has recorded its result.
Settle(s) ==
    /\ stage[s] = "unsettled"
    /\ stage' = [stage EXCEPT ![s] = "publish"]
    /\ UNCHANGED <<journalVars, schedulerVars, waitVars, worldVars>>

\* Some other part of the daemon publishes, or a run that two finalizers end is
\* published again.
Notify(p) ==
    /\ p \notin Deployments /\ stage[p] = "done" /\ lastCursor < MaxCursor
    /\ stage' = [stage EXCEPT ![p] = "publish"]
    /\ UNCHANGED <<journalVars, schedulerVars, waitVars, worldVars>>

\* append_event's rows after the retention statement.
Newest(rows) ==
    {e \in rows : Cardinality({f \in rows : f.cursor > e.cursor}) < Retained}

\* Mutant: appends do not exclude one another.
NoTableLock == TRUE

\* LOCK TABLE ... IN SHARE ROW EXCLUSIVE MODE: one append at a time, readers go on.
TableLockFree == \A p \in Publishers : writer[p] = 0

\* append_event up to its INSERT: the table lock, then a cursor from the sequence.
Insert(p) ==
    /\ stage[p] = "publish" /\ TableLockFree
    /\ writer' = [writer EXCEPT ![p] = lastCursor + 1]
    /\ lastCursor' = lastCursor + 1
    /\ stage' = [stage EXCEPT ![p] = "commit"]
    /\ UNCHANGED <<journal, schedulerVars, waitVars, worldVars>>

\* append_event's commit.  Only a run's event has a dedupe key: a stored one keeps
\* its row, and the cursor drawn is lost.
Commit(p) ==
    /\ stage[p] = "commit"
    /\ journal' = IF p \in Runs /\ \E e \in journal : e.from = p THEN journal
                  ELSE Newest(journal \cup {[cursor |-> writer[p], from |-> p]})
    /\ writer' = [writer EXCEPT ![p] = 0]
    /\ stage' = [stage EXCEPT ![p] = "announce"]
    /\ UNCHANGED <<lastCursor, schedulerVars, waitVars, worldVars>>

\* The transaction fails: the sinks and notify drop publish's error, and with it the event.
AppendFails(p) ==
    /\ Fault /\ AppendMayFail /\ stage[p] \in {"publish", "commit"}
    /\ writer' = [writer EXCEPT ![p] = 0]
    /\ stage' = [stage EXCEPT ![p] = "done"]
    /\ UNCHANGED <<journal, lastCursor, schedulerVars, waitVars, due, allowed>>

\* publish tells the scheduler, waiting while its channel is full.
Announce(p) ==
    /\ stage[p] = "announce" /\ Room
    /\ commands' = Append(commands, Published)
    /\ stage' = [stage EXCEPT ![p] = "done"]
    /\ UNCHANGED <<journalVars, subscribed, sched, waitVars, worldVars>>

-----------------------------------------------------------------------------
(* Waiting *)

Goto(w, place) == pc' = [pc EXCEPT ![w] = place]

\* The status read before any subscription: a settled subject is the answer.
CheckStatus(w) ==
    /\ pc[w] = "check"
    /\ Goto(w, IF Settled(w) THEN "ended" ELSE "capture")
    /\ UNCHANGED <<journalVars, stage, schedulerVars, cursor, position,
                   answer, worldVars>>

\* subscribe_with_visibility authorizes the filters; without a cursor the
\* subscription starts at the head of the journal.
CaptureHead(w) ==
    /\ pc[w] = "capture"
    /\ IF w \in allowed
       THEN /\ Goto(w, "register")
            /\ cursor' = [cursor EXCEPT ![w] = HistoryHead(journal)]
       ELSE Goto(w, "ended") /\ UNCHANGED cursor
    /\ UNCHANGED <<journalVars, stage, schedulerVars, position, answer, worldVars>>

\* Mutant: test.wait sleeps at once, as deployment.wait does.
SleepAtOnce(w) == "receive"

\* Only test.wait reads the status again before it sleeps.
AfterRegistration(w) == IF w \in TestWaits THEN "recheck" ELSE "receive"

\* A full channel is backpressure.  An event.wait is a new request, with a new deadline.
SendRegister(w) ==
    /\ pc[w] = "register"
    /\ IF Room
       THEN Goto(w, AfterRegistration(w)) /\ commands' = Append(commands, Register(w))
       ELSE Goto(w, "ended") /\ UNCHANGED commands
    /\ position' = [position EXCEPT ![w] = cursor[w]]
    /\ due' = due \ (EventWaits \cap {w})
    /\ answer' = [answer EXCEPT ![w] = Nothing]
    /\ UNCHANGED <<journalVars, stage, subscribed, sched, cursor, allowed, faults>>

RecheckStatus(w) ==
    /\ pc[w] = "recheck"
    /\ Goto(w, IF Settled(w) THEN "leave" ELSE "receive")
    /\ UNCHANGED <<journalVars, stage, schedulerVars, cursor, position,
                   answer, worldVars>>

\* The oneshot channel answers; event.wait gives its caller the cursor to go on from.
Receive(w) ==
    /\ pc[w] = "receive" /\ answer[w] # Nothing
    /\ Goto(w, IF answer[w] = Failure THEN "leave" ELSE "drop")
    /\ cursor' = [cursor EXCEPT ![w] = position[w]]
    /\ UNCHANGED <<journalVars, stage, schedulerVars, position, answer, worldVars>>

\* The connection closes, which drops the wait and its subscription.
Disconnect(w) ==
    /\ Fault /\ pc[w] = "receive" /\ w \in Leaving
    /\ Goto(w, "leave")
    /\ UNCHANGED <<journalVars, stage, schedulerVars, cursor, position,
                   answer, due, allowed>>

\* After an answer the loops read the status, give up at a heartbeat and ask again.
\* event.wait returns, and its caller asks for what follows.
AfterAnswer(w) ==
    IF w \in EventWaits THEN "register"
    ELSE IF Settled(w) \/ answer[w].is = "heartbeat" THEN "ended"
    ELSE "capture"

\* Mutant: a full channel loses the Cancel.
TrySendCancel(w) == commands' = IF Room THEN Append(commands, Cancel(w)) ELSE commands

\* EventSubscription::drop sends Cancel, waiting while the channel is full.
SendCancel(w) == Room /\ commands' = Append(commands, Cancel(w))

DropSubscription(w) ==
    /\ pc[w] \in {"drop", "leave"} /\ SendCancel(w)
    /\ Goto(w, IF pc[w] = "leave" THEN "ended" ELSE AfterAnswer(w))
    /\ answer' = [answer EXCEPT ![w] = Nothing]
    /\ UNCHANGED <<journalVars, stage, subscribed, sched, cursor, position,
                   worldVars>>

\* A deadline matters to a wait that listens.
DeadlinePasses(w) ==
    /\ w \in Timed \ due /\ pc[w] = "receive"
    /\ due' = due \cup {w}
    /\ UNCHANGED <<journalVars, stage, schedulerVars, waitVars, allowed, faults>>

\* The caller loses the grant that its filter's scope needs.
RevokeGrant(w) ==
    /\ Fault /\ w \in allowed \cap Revocable /\ pc[w] = "receive"
    /\ allowed' = allowed \ {w}
    /\ UNCHANGED <<journalVars, stage, schedulerVars, waitVars, due>>

-----------------------------------------------------------------------------
(* The scheduler thread *)

Evaluate(todo) ==
    sched' = IF todo = {} THEN Idle ELSE [Idle EXCEPT !.at = "bounds", !.todo = todo]

\* A oneshot sender's send: a wait that has dropped its receiver hears nothing.
Send(w, what, rows) ==
    answer' = IF pc[w] \in {"recheck", "receive"}
              THEN [answer EXCEPT ![w] = [is |-> what, cursors |-> Cursors(rows)]]
              ELSE answer

\* scheduler_loop takes a command.
TakeCommand ==
    /\ sched = Idle /\ commands # <<>>
    /\ LET command == Head(commands)
           w == command.wait
       IN  \/ /\ command.is = "register" /\ Cardinality(subscribed) >= MaxSubscriptions
              /\ Send(w, "error", {}) /\ UNCHANGED <<sched, subscribed>>
           \/ /\ command.is = "register" /\ Cardinality(subscribed) < MaxSubscriptions
              /\ Evaluate({w}) /\ UNCHANGED <<answer, subscribed>>
           \/ /\ command.is = "published"
              /\ Evaluate(subscribed) /\ UNCHANGED <<answer, subscribed>>
           \/ /\ command.is = "cancel"
              /\ subscribed' = subscribed \ {w} /\ UNCHANGED <<sched, answer>>
    /\ commands' = Tail(commands)
    /\ UNCHANGED <<journalVars, stage, pc, cursor, position, worldVars>>

\* recv_timeout ends at the nearest deadline of a subscription when no command waits.
Timeout ==
    /\ sched = Idle /\ commands = <<>> /\ subscribed \cap due # {}
    /\ Evaluate(subscribed)
    /\ UNCHANGED <<journalVars, stage, commands, subscribed, waitVars, worldVars>>

\* evaluate up to load_events' first statement: the caller's scope, the bounds of the
\* journal, and a cursor outside them.
ReadBounds(w) ==
    /\ sched.at = "bounds" /\ w \in sched.todo
    /\ LET head == HistoryHead(journal)
           floor == HistoryFloor(journal)
       IN  IF \/ w \notin allowed
              \/ position[w] > head
              \/ floor > 0 /\ position[w] + 1 < floor
           THEN /\ Send(w, "error", {}) /\ subscribed' = subscribed \ {w}
                /\ Evaluate(sched.todo \ {w})
           ELSE /\ sched' = [sched EXCEPT !.at = "rows", !.now = w, !.head = head]
                /\ UNCHANGED <<answer, subscribed>>
    /\ UNCHANGED <<journalVars, stage, commands, pc, cursor, position, worldVars>>

\* The first Limit rows after the subscription's cursor that its filter matches.
Batch(w) ==
    LET rows == {e \in journal : e.cursor > position[w] /\ Matches(w, e)}
    IN  {e \in rows : Cardinality({f \in rows : f.cursor < e.cursor}) < Limit}

\* Mutant: a deadline that has passed answers nothing.
HeartbeatNever(w) == FALSE

HeartbeatDue(w) == w \in due

\* The rest of evaluate: events, or a heartbeat, or back to sleep at the head read
\* before the rows.
ReadRows ==
    /\ sched.at = "rows"
    /\ LET w == sched.now
           batch == Batch(w)
           idle == batch = {} /\ ~HeartbeatDue(w)
       IN  /\ position' = [position EXCEPT ![w] =
                             IF batch # {} THEN HistoryHead(batch) ELSE sched.head]
           /\ IF idle THEN UNCHANGED answer
              ELSE Send(w, IF batch # {} THEN "events" ELSE "heartbeat", batch)
           /\ subscribed' = IF idle THEN subscribed \cup {w} ELSE subscribed \ {w}
           /\ Evaluate(sched.todo \ {w})
    /\ UNCHANGED <<journalVars, stage, commands, pc, cursor, worldVars>>

-----------------------------------------------------------------------------
(* The daemon restarts: the journal survives, an open transaction does not, and *)
(* an event not yet committed is never published.  Callers ask again.           *)
Crash ==
    /\ Fault
    /\ writer' = [p \in Publishers |-> 0]
    /\ stage' = [p \in Publishers |-> IF stage[p] = "unsettled" THEN "unsettled" ELSE "done"]
    /\ commands' = <<>> /\ subscribed' = {} /\ sched' = Idle
    /\ pc' = [w \in Waits |-> CASE pc[w] = "ended" -> "ended"
                                [] pc[w] # "ended" /\ w \in EventWaits -> "register"
                                [] OTHER -> "check"]
    /\ position' = cursor
    /\ answer' = [w \in Waits |-> Nothing]
    /\ UNCHANGED <<journal, lastCursor, cursor, due, allowed>>

PublisherStep(p) == Insert(p) \/ Commit(p) \/ Announce(p)

WaitStep(w) ==
    \/ CheckStatus(w) \/ CaptureHead(w) \/ SendRegister(w) \/ RecheckStatus(w)
    \/ Receive(w) \/ DropSubscription(w)

SchedulerStep == TakeCommand \/ Timeout \/ (\E w \in Waits : ReadBounds(w)) \/ ReadRows

EventNext ==
    \/ \E s \in Subjects : Settle(s)
    \/ \E p \in Publishers : Notify(p) \/ PublisherStep(p) \/ AppendFails(p)
    \/ \E w \in Waits : WaitStep(w) \/ Disconnect(w) \/ DeadlinePasses(w) \/ RevokeGrant(w)
    \/ SchedulerStep
    \/ Crash

EventSpec == EventInit /\ [][EventNext]_eventVars

\* The scheduler's thread and the waits' tasks run, and time passes.  A full channel is
\* drained by the scheduler, and a sender to it is served in turn.  Nothing obliges a run
\* to end, an event to be published, a caller to leave or the daemon to crash.
EventFairness ==
    /\ WF_eventVars(SchedulerStep)
    /\ \A w \in SubjectWaits : SF_eventVars(WaitStep(w)) /\ WF_eventVars(DeadlinePasses(w))

FairEvents == EventSpec /\ EventFairness

-----------------------------------------------------------------------------
(* Properties *)

\* A wait is given every retained event that its filter asks for after its request's
\* cursor: neither the cursor a sleeping subscription moves to, nor the one an answer
\* gives back, passes such an event.  A cursor drawn but not committed while a reader
\* looks is what append_event's table lock is for.
NoRetainedEventPassed ==
    \A w \in Waits : \A e \in journal :
        pc[w] = "receive" /\ Matches(w, e) /\ cursor[w] < e.cursor /\ e.cursor <= position[w]
            => e.cursor \in answer[w].cursors

\* test.wait never sleeps past the end of its run.  Once the run's event is in the
\* journal, has been announced, and the scheduler has nothing left to do, no test.wait
\* of that run is asleep without an answer, although the run may have ended between the
\* status it read first and the head its subscription starts from.
FinishedRunWakesItsWaiter ==
    \A w \in TestWaits :
        /\ \E e \in journal : e.from = Subject[w]
        /\ stage[Subject[w]] = "done" /\ commands = <<>> /\ sched = Idle
        => ~(pc[w] = "receive" /\ answer[w] = Nothing)

\* deployment.wait never sleeps past the operation that settles its deployment.
SettledDeploymentWakesItsWaiter ==
    \A w \in DeploymentWaits :
        stage[Subject[w]] = "done" /\ commands = <<>> /\ sched = Idle
            => ~(pc[w] = "receive" /\ answer[w] = Nothing)

\* The scheduler keeps no subscription of a wait that is over: the wait still listens,
\* or its Cancel is on its way.  A leaked one counts against MAX_SUBSCRIPTIONS for the
\* life of the daemon.
SubscriptionIsCancelled ==
    \A w \in subscribed :
        \/ pc[w] \in {"recheck", "receive", "drop", "leave"}
        \/ \E i \in 1 .. Len(commands) : commands[i] = Cancel(w)

\* Every test.wait and deployment.wait returns: at the latest its deadline wakes the
\* scheduler, whatever events, restarts and full channels come between.
WaitsEnd == \A w \in SubjectWaits : <>(pc[w] = "ended")
=============================================================================
