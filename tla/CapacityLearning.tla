-------------------------- MODULE CapacityLearning --------------------------
(***************************************************************************)
(* How the capacity broker learns: samples, streaks, epochs and the        *)
(* adjustments they lead to (State in rust/control/src/capacity.rs).       *)
(*                                                                         *)
(* The State methods are functions on the State record, in the order the   *)
(* broker's methods call them under the mutex.  A run has one leaf at a    *)
(* time, and grant_ready serves the waiting runs in any order; queues,     *)
(* connections and the database are in CapacityBroker.  Time is counted in *)
(* sample intervals and stops mattering at the minimum epoch.              *)
(***************************************************************************)
EXTENDS Integers, FiniteSets, FiniteSetsExt

CONSTANTS
    Runs,
    InitialCapacity,
    CapMax,
    Caps,          \* what the administrator sets, NoCap to clear the cap
    Minimum,       \* min_epoch_seconds, in sample intervals
    MaxSamples,    \* bound on the samples of one epoch
    Readings,      \* <<cpu, memory>> of a sample, in percent or Missing
    Calm           \* the readings once the host has calmed down

Missing == -1
NoCap == 0
NotStarted == -1

ASSUME LearningConstants ==
    /\ CapMax \in Nat /\ InitialCapacity \in 1 .. CapMax /\ Caps \subseteq 0 .. CapMax
    /\ Minimum \in Nat \ {0} /\ MaxSamples \in Nat
    /\ Readings \subseteq (-1 .. 100) \X (-1 .. 100)
    /\ Calm \subseteq Readings

VARIABLES
    state,      \* State, with the ages of the epoch and of the runs for their starts
    previous,   \* history: the sample before
    calm        \* the environment reports only calm readings from now on

learningVars == <<state, previous, calm>>

Kinds == Readings \X BOOLEAN

NoSamples == [k \in Kinds |-> 0]

\* State::new, with nothing sampled yet.
LearningInit ==
    /\ state = [learned |-> InitialCapacity, cap |-> NoCap,
                run |-> [r \in Runs |-> "new"], demand |-> [r \in Runs |-> "none"],
                paused |-> FALSE, memoryEmergency |-> FALSE, pendingDecrease |-> FALSE,
                epochMemoryEmergency |-> FALSE, cpuStreak |-> 0, memoryStreak |-> 0,
                recoveryStreak |-> 0, epochAge |-> NotStarted, epochRuns |-> {},
                runAge |-> [r \in Runs |-> NotStarted], longest |-> 0, samples |-> NoSamples]
    /\ previous = <<Missing, Missing>>
    /\ calm = FALSE

-----------------------------------------------------------------------------
AtLeast(value, percent) == value # Missing /\ value >= percent
Below(value, percent) == value # Missing /\ value < percent
Smaller(m, n) == IF m < n THEN m ELSE n
Larger(m, n) == IF m > n THEN m ELSE n
CeilDiv(m, n) == (m + n - 1) \div n

Active(s) == {r \in Runs : s.demand[r] = "active"}
Queued(s) == {r \in Runs : s.demand[r] = "waiting"}
RegisteredIn(s) == {r \in Runs : s.run[r] = "registered"}
Effective(s) == IF s.cap = NoCap THEN s.learned ELSE Smaller(s.learned, s.cap)

\* The samples of the epoch that satisfy P: how many there are.
Count(s, P(_)) == Cardinality(UNION {{k} \X (1 .. s.samples[k]) : k \in {k \in Kinds : P(k)}})
Total(s) == Count(s, LAMBDA k : TRUE)

\* Mutant: the index is not rounded up.
Percentile95Floor(n) == (95 * n) \div 100

\* percentile95: the place of the value in the n ordered values, counted from one.
Percentile95(n) == CeilDiv(95 * n, 100)

\* percentile95 of the values is below the percentage, and there is a value.
P95Below(s, Value(_), percent) ==
    LET n == Count(s, LAMBDA k : Value(k) # Missing)
    IN  n > 0 /\ Count(s, LAMBDA k : Below(Value(k), percent)) >= Percentile95(n)

\* State::start_epoch.
StartEpoch(s, r) ==
    LET e == IF s.epochAge = NotStarted
             THEN [s EXCEPT !.epochAge = 0, !.samples = NoSamples, !.longest = 0,
                            !.pendingDecrease = FALSE, !.epochMemoryEmergency = FALSE,
                            !.epochRuns = {}]
             ELSE s
    IN  [e EXCEPT !.epochRuns = @ \cup {r},
                  !.runAge[r] = IF @ = NotStarted THEN 0 ELSE @]

\* State::grant_ready: the states it may leave, for the order of the round.
GrantReady(s) ==
    LET room == IF s.paused THEN 0 ELSE Larger(Effective(s) - Cardinality(Active(s)), 0)
        served == Smaller(room, Cardinality(Queued(s)))
    IN  {[s EXCEPT !.demand = [r \in Runs |-> IF r \in G THEN "active" ELSE @[r]]] :
            G \in kSubset(served, Queued(s))}

\* State::record_sample, first part: the memory emergency.
Emergency(s, memory) ==
    IF AtLeast(memory, 90)
    THEN [s EXCEPT !.memoryEmergency = TRUE, !.epochMemoryEmergency = TRUE, !.paused = TRUE,
                   !.pendingDecrease = TRUE]
    ELSE s

\* Mutant: a sample that shows no recovery does not start the streak again.
RecoveryForgiving(s, cpu, memory) ==
    IF /\ s.paused /\ Below(cpu, 95)
       /\ Below(memory, IF s.memoryEmergency THEN 85 ELSE 95)
    THEN s.recoveryStreak + 1
    ELSE s.recoveryStreak

\* The recovery streak, which only counts while admission is paused.
Recovery(s, cpu, memory) ==
    IF /\ s.paused /\ Below(cpu, 95)
       /\ Below(memory, IF s.memoryEmergency THEN 85 ELSE 95)
    THEN s.recoveryStreak + 1
    ELSE IF s.paused THEN 0 ELSE s.recoveryStreak

\* The samples of the epoch with one more.
Counted(samples, kind) == [samples EXCEPT ![kind] = @ + 1]

\* State::record_sample.  A streak is only compared with four.
RecordSample(s, cpu, memory) ==
    LET e == Emergency(s, memory)
        saturated == \/ Queued(s) # {}
                     \/ Active(s) # {} /\ Cardinality(Active(s)) >= Effective(s)
        observed == [e EXCEPT
            !.samples = IF e.epochAge = NotStarted THEN @
                        ELSE Counted(@, << <<cpu, memory>>, saturated>>),
            !.cpuStreak = IF AtLeast(cpu, 98) THEN Smaller(@ + 1, 4) ELSE 0,
            !.memoryStreak = IF AtLeast(memory, 98) THEN Smaller(@ + 1, 4) ELSE 0]
        pressed == IF observed.cpuStreak >= 4 \/ observed.memoryStreak >= 4
                   THEN [observed EXCEPT !.paused = TRUE, !.pendingDecrease = TRUE]
                   ELSE observed
        streak == Recovery(pressed, cpu, memory)
    IN  IF e.epochAge = NotStarted /\ ~e.memoryEmergency THEN e
        ELSE IF pressed.paused /\ streak >= 2
        THEN [pressed EXCEPT !.paused = FALSE, !.memoryEmergency = FALSE, !.cpuStreak = 0,
                             !.memoryStreak = 0, !.recoveryStreak = 0]
        ELSE [pressed EXCEPT !.recoveryStreak = streak]

\* State::finish_run, for a run whose queue and permits are gone.
FinishRun(s, r) ==
    IF s.runAge[r] = NotStarted \/ s.demand[r] # "none" \/ s.run[r] = "registered" THEN s
    ELSE [s EXCEPT !.longest = Larger(@, s.runAge[r]), !.runAge[r] = NotStarted]

\* A quarter less and a quarter more, by at least one.
Decreased(n) == Larger(Smaller(n - 1, (3 * n) \div 4), 1)
Increased(n) == Smaller(Larger(n + 1, CeilDiv(5 * n, 4)), CapMax)

\* What finish_epoch learns: a quarter less after pressure, a quarter more
\* after a complete epoch that was saturated and did not use the host up.
Adjusted(s) ==
    LET n == Total(s)
        complete == n > 0 /\ Count(s, LAMBDA k : Missing \in {k[1][1], k[1][2]}) = 0
        saturated == 2 * Count(s, LAMBDA k : k[2]) >= n
    IN  CASE s.pendingDecrease /\ s.learned > 1 -> Decreased(s.learned)
          [] /\ ~s.pendingDecrease /\ ~s.paused /\ complete /\ saturated
             /\ s.cap = NoCap \/ s.cap > s.learned
             /\ P95Below(s, LAMBDA k : k[1][1], 90) /\ P95Below(s, LAMBDA k : k[1][2], 90) ->
                Increased(s.learned)
          [] OTHER -> s.learned

\* There is work, or a run of the epoch that may still bring some.
Busy(s) == Active(s) # {} \/ Queued(s) # {} \/ s.epochRuns \cap RegisteredIn(s) # {}

\* Mutant: only a run that has ended is evidence.
EligibleEnded(s) == s.longest >= Minimum

\* Enough was observed to learn from.
Eligible(s) == s.longest >= Minimum \/ (Active(s) # {} /\ s.epochAge >= Minimum)

\* Mutant: an idle epoch leaves the pause to the samples.
EndsIdlePaused(s) ==
    [s EXCEPT !.epochAge = NotStarted, !.epochRuns = {},
              !.runAge = [r \in Runs |-> NotStarted]]

\* The end of an epoch with nothing left to observe.
EndsIdle(s) ==
    [s EXCEPT !.epochAge = NotStarted, !.epochRuns = {},
              !.runAge = [r \in Runs |-> NotStarted],
              !.cpuStreak = 0, !.memoryStreak = 0, !.recoveryStreak = 0,
              !.paused = s.memoryEmergency]

\* Mutant: the pause ends with a live epoch, too.
EndsLiveResumed(s) ==
    [s EXCEPT !.epochAge = 0, !.epochRuns = @ \cap RegisteredIn(s), !.paused = s.memoryEmergency,
              !.runAge = [r \in Runs |-> IF @[r] = NotStarted THEN NotStarted ELSE 0]]

\* The end of an epoch whose work goes on in the next.
EndsLive(s) ==
    [s EXCEPT !.epochAge = 0, !.epochRuns = @ \cap RegisteredIn(s),
              !.runAge = [r \in Runs |-> IF @[r] = NotStarted THEN NotStarted ELSE 0]]

\* State::finish_epoch.
FinishEpoch(s) ==
    IF s.epochAge = NotStarted \/ (Busy(s) /\ ~Eligible(s)) THEN s
    ELSE LET learnt == [s EXCEPT !.learned = IF Eligible(s) THEN Adjusted(s) ELSE @]
             ended == IF Busy(s) THEN EndsLive(learnt) ELSE EndsIdle(learnt)
         IN  [ended EXCEPT !.samples = NoSamples, !.longest = 0, !.pendingDecrease = FALSE,
                           !.epochMemoryEmergency = FALSE]

\* The monotonic clock reaches the next sample.
Elapsed(s) ==
    [s EXCEPT !.epochAge = IF @ = NotStarted THEN @ ELSE Smaller(@ + 1, Minimum),
              !.runAge = [r \in Runs |-> IF @[r] = NotStarted THEN @[r]
                                         ELSE Smaller(@[r] + 1, Minimum)]]

-----------------------------------------------------------------------------
(* The broker's methods, each under the mutex.                             *)

RegisterRun(r) ==
    /\ state.run[r] = "new"
    /\ state' = [state EXCEPT !.run[r] = "registered"]
    /\ UNCHANGED <<previous, calm>>

Enqueue(r) ==
    /\ state.run[r] = "registered" /\ state.demand[r] = "none"
    /\ state' \in GrantReady(StartEpoch([state EXCEPT !.demand[r] = "waiting"], r))
    /\ UNCHANGED <<previous, calm>>

\* release, and cancel_pending of a request that waits.
Leave(r) ==
    /\ state.demand[r] # "none"
    /\ \E s \in GrantReady(FinishRun([state EXCEPT !.demand[r] = "none"], r)) :
            state' = FinishEpoch(s)
    /\ UNCHANGED <<previous, calm>>

UnregisterRun(r) ==
    /\ state.run[r] = "registered"
    /\ LET left == [state EXCEPT !.run[r] = "ended", !.demand[r] = "none"]
       IN  state' \in GrantReady(FinishEpoch(FinishRun(left, r)))
    /\ UNCHANGED <<previous, calm>>

SetCap(c) ==
    /\ state.cap # c
    /\ state' \in GrantReady([state EXCEPT !.cap = c])
    /\ UNCHANGED <<previous, calm>>

\* The sampling task; four samples more than the bound for the calm that ends
\* a pause.
Sample(reading) ==
    /\ calm => reading \in Calm
    /\ \E e \in {Elapsed(state)} : \E s \in {RecordSample(e, reading[1], reading[2])} :
        \E t \in {FinishEpoch(s)} :
            /\ Total(t) <= IF calm THEN MaxSamples + 4 ELSE MaxSamples
            /\ state' \in GrantReady(t)
    /\ previous' = reading
    /\ UNCHANGED calm

\* The host calms down for good.
CalmDown ==
    /\ Calm # {} /\ ~calm
    /\ calm' = TRUE
    /\ UNCHANGED <<state, previous>>

LearningNext ==
    \/ \E r \in Runs : RegisterRun(r) \/ Enqueue(r) \/ Leave(r) \/ UnregisterRun(r)
    \/ \E c \in Caps : SetCap(c)
    \/ \E reading \in Readings : Sample(reading)
    \/ CalmDown

LearningSpec == LearningInit /\ [][LearningNext]_learningVars

\* The sampling task ticks, on a calm host at least; nobody has to release a
\* permit.
FairLearning == LearningSpec /\ WF_learningVars(calm /\ \E reading \in Calm : Sample(reading))

-----------------------------------------------------------------------------
\* A sample is looked at only inside an epoch or a memory emergency, so a
\* pause outside both would never end.
PauseIsWatched ==
    state.paused => state.epochAge # NotStarted \/ state.memoryEmergency

\* The readings below the limits that end a pause.
Low(reading, memoryLimit) == Below(reading[1], 95) /\ Below(reading[2], memoryLimit)

\* An emergency ends, and a pause ends while work goes on, only after two
\* samples in a row below the limits; a missing value is not below a limit.
ResumeNeedsEvidence ==
    [][/\ state.memoryEmergency /\ ~state'.memoryEmergency =>
            Low(previous, 85) /\ Low(previous', 85)
       /\ state.paused /\ ~state'.paused /\ state'.epochAge # NotStarted =>
            Low(previous, 95) /\ Low(previous', 95)]_learningVars

\* The state a step learns from: a sample is recorded before the epoch ends.
Observed ==
    IF \E reading \in Readings : Sample(reading)
    THEN RecordSample(Elapsed(state), previous'[1], previous'[2]) ELSE state

\* The capacity grows only after an epoch in which CPU was at or above 90% in at
\* most one sample of twenty: that is what a p95 below 90% says.
GrowthNeedsIdleCpu ==
    [][state'.learned > state.learned =>
            20 * Count(Observed, LAMBDA k : AtLeast(k[1][1], 90)) <= Total(Observed)]_learningVars

\* Once the host is calm, a request does not wait for ever behind permits that
\* nobody releases: live epochs end and the capacity grows, unless it is capped.
QueueIsNotStranded ==
    \A r \in Runs :
        calm /\ state.demand[r] = "waiting" ~> state.demand[r] # "waiting" \/ state.cap # NoCap

-----------------------------------------------------------------------------
(* CapacityBroker's abstraction of all this.                               *)

Broker == INSTANCE CapacityBroker WITH
    Leaves <- Runs, RunOf <- [r \in Runs |-> r], Admin <- "admin", Sampler <- "sampler",
    NoOne <- "nobody", Samples <- {}, RandomMayFail <- FALSE, DatabaseMayFail <- FALSE,
    learned <- state.learned, cap <- state.cap, run <- state.run,
    queues <- [r \in Runs |-> IF r \in Queued(state) THEN <<r>> ELSE <<>>],
    roundRobin <- <<>>, pending <- state.demand, active <- Active(state), stopping <- FALSE,
    paused <- state.paused, memoryEmergency <- state.memoryEmergency,
    pendingDecrease <- state.pendingDecrease, epoch <- state.epochAge # NotStarted,
    epochRuns <- state.epochRuns, lock <- "free", after <- <<>>, conn <- state.demand,
    wake <- {}, durable <- <<>>

\* What a sample makes the broker decide, with its streaks and percentiles, is
\* one of the outcomes that CapacityBroker chooses from; so is what it decides
\* when a run ends or a permit is given back.
DecisionsAreAbstracted ==
    [][/\ (\E reading \in Readings : Sample(reading)) =>
            \E sample \in {"emergency", "pressure", "recovery", "other"} : Broker!Judges(sample)
       /\ \A r \in Runs : UnregisterRun(r) =>
            Broker!FinishEpoch(Active(state) \ {r}, Queued(state) \ {r} # {},
                               RegisteredIn(state) \ {r}, state.paused, state.memoryEmergency,
                               state.pendingDecrease)
       /\ \A r \in Runs : Leave(r) =>
            Broker!FinishEpoch(Active(state'), Queued(state') # {}, RegisteredIn(state),
                               state.paused, state.memoryEmergency,
                               state.pendingDecrease)]_learningVars
=============================================================================
