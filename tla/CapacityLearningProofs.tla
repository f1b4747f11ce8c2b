----------------------- MODULE CapacityLearningProofs -----------------------
(***************************************************************************)
(* Proofs about CapacityLearning, for any runs, caps and readings.         *)
(***************************************************************************)
EXTENDS CapacityLearning, TLAPS

-----------------------------------------------------------------------------
(* The types.                                                              *)

Samplings == [Kinds -> Nat]
Ages == {NotStarted} \cup 0 .. Minimum
States == [learned : 1 .. CapMax, cap : 0 .. CapMax,
           run : [Runs -> {"new", "registered", "ended"}],
           demand : [Runs -> {"none", "waiting", "active"}],
           paused : BOOLEAN, memoryEmergency : BOOLEAN, pendingDecrease : BOOLEAN,
           epochMemoryEmergency : BOOLEAN, cpuStreak : 0 .. 4, memoryStreak : 0 .. 4,
           recoveryStreak : Nat, epochAge : Ages, epochRuns : SUBSET Runs,
           runAge : [Runs -> Ages], longest : 0 .. Minimum, samples : Samplings]

LearningTypeOK == state \in States /\ previous \in (-1 .. 100) \X (-1 .. 100) /\ calm \in BOOLEAN

\* What s and t have in common when t is s with other demands, ages or samples.
SameMode(s, t) ==
    /\ t.paused = s.paused
    /\ t.memoryEmergency = s.memoryEmergency
    /\ t.recoveryStreak = s.recoveryStreak

\* A new epoch leaves the mode.
LEMMA Starts ==
    ASSUME NEW s \in States, NEW r \in Runs
    PROVE  /\ StartEpoch(s, r) \in States
           /\ SameMode(s, StartEpoch(s, r))
           /\ StartEpoch(s, r).epochAge # NotStarted
           /\ StartEpoch(s, r).learned = s.learned
<1>. DEFINE e == IF s.epochAge = NotStarted
                 THEN [s EXCEPT !.epochAge = 0, !.samples = NoSamples, !.longest = 0,
                                !.pendingDecrease = FALSE, !.epochMemoryEmergency = FALSE,
                                !.epochRuns = {}]
                 ELSE s
            t == [e EXCEPT !.epochRuns = @ \cup {r},
                           !.runAge[r] = IF @ = NotStarted THEN 0 ELSE @]
<1>0. 0 \in 0 .. Minimum /\ 0 # NotStarted /\ 0 \in Ages /\ NoSamples \in Samplings
  BY LearningConstants DEF NotStarted, NoSamples, Ages, Samplings
<1>1. e \in States /\ SameMode(s, e) /\ e.epochAge # NotStarted /\ e.learned = s.learned
  BY <1>0, Zenon DEF States, SameMode
<1>. HIDE DEF e
<1>2. t \in States /\ SameMode(e, t) /\ t.epochAge = e.epochAge /\ t.learned = e.learned
  <2>1. t \in States
    BY <1>0, <1>1, Zenon DEF States
  <2>2. SameMode(e, t) /\ t.epochAge = e.epochAge /\ t.learned = e.learned
    BY <1>1 DEF States, SameMode
  <2>. QED
    BY <2>1, <2>2
<1>3. StartEpoch(s, r) = t
  BY Zenon DEF StartEpoch, e
<1>. HIDE DEF t
<1>. QED
  BY <1>1, <1>2, <1>3 DEF SameMode

\* Serving waiting requests changes their demands only.
LEMMA Grants ==
    ASSUME NEW s \in States, NEW t \in GrantReady(s)
    PROVE  /\ t \in States /\ SameMode(s, t) /\ t.epochAge = s.epochAge
           /\ t.learned = s.learned /\ t.run = s.run /\ t.cap = s.cap /\ t.epochRuns = s.epochRuns
           /\ t.pendingDecrease = s.pendingDecrease /\ t.samples = s.samples
<1>1. PICK G : t = [s EXCEPT !.demand = [r \in Runs |-> IF r \in G THEN "active" ELSE @[r]]]
  BY DEF GrantReady
<1>. QED
  BY <1>1 DEF States, SameMode

\* Time passes for an epoch that has started.
LEMMA Elapses ==
    ASSUME NEW s \in States
    PROVE  /\ Elapsed(s) \in States /\ SameMode(s, Elapsed(s))
           /\ Elapsed(s).epochAge = NotStarted <=> s.epochAge = NotStarted
           /\ Elapsed(s).learned = s.learned
<1>1. \A a \in Ages : a # NotStarted => Smaller(a + 1, Minimum) \in Ages /\ Smaller(a + 1, Minimum) # NotStarted
  BY LearningConstants DEF Ages, NotStarted, Smaller
<1>. QED
  BY <1>1, Zenon DEF Elapsed, States, SameMode

\* The end of a run changes its age and the longest one.
LEMMA RunFinishes ==
    ASSUME NEW s \in States, NEW r \in Runs
    PROVE  /\ FinishRun(s, r) \in States /\ SameMode(s, FinishRun(s, r))
           /\ FinishRun(s, r).epochAge = s.epochAge /\ FinishRun(s, r).learned = s.learned
<1>1. \A a \in Ages, n \in 0 .. Minimum : a # NotStarted => Larger(n, a) \in 0 .. Minimum
  BY LearningConstants DEF Ages, NotStarted, Larger
<1>2. s.runAge[r] \in Ages /\ s.longest \in 0 .. Minimum /\ NotStarted \in Ages
  BY DEF States, Ages
<1>. QED
  BY <1>1, <1>2, Zenon DEF FinishRun, States, SameMode

\* What an epoch teaches stays between one and the maximum.
LEMMA Adjusts == ASSUME NEW s \in States PROVE Adjusted(s) \in 1 .. CapMax
<1>1. s.learned \in 1 .. CapMax /\ CapMax \in Nat
  BY LearningConstants DEF States
<1>2. s.learned > 1 => Decreased(s.learned) \in 1 .. CapMax
  BY <1>1 DEF Decreased, Larger, Smaller
<1>3. Increased(s.learned) \in 1 .. CapMax
  BY <1>1 DEF Increased, Larger, Smaller, CeilDiv
<1>4. \/ s.learned > 1 /\ Adjusted(s) = Decreased(s.learned)
      \/ Adjusted(s) = Increased(s.learned)
      \/ Adjusted(s) = s.learned
  BY DEF Adjusted
<1>. QED
  BY <1>1, <1>2, <1>3, <1>4

-----------------------------------------------------------------------------
(* Pauses and the evidence that ends them.                                 *)

\* A pause is watched, and a recovery streak is one sample below the limits.
Watched(s) == s.paused => s.epochAge # NotStarted \/ s.memoryEmergency
Limit(s) == IF s.memoryEmergency THEN 85 ELSE 95
Streaked(s, reading) ==
    s.recoveryStreak # 0 => s.recoveryStreak = 1 /\ s.paused /\ Low(reading, Limit(s))

\* The emergency and the pause between s and t end only on the evidence of two samples.
Resumes(s, t, earlier, later) ==
    /\ s.memoryEmergency /\ ~t.memoryEmergency => Low(earlier, 85) /\ Low(later, 85)
    /\ s.paused /\ ~t.paused => Low(earlier, 95) /\ Low(later, 95)

\* A sample is counted, and the streaks with it.
Take(s, a, b, c) == [s EXCEPT !.samples = a, !.cpuStreak = b, !.memoryStreak = c]

\* That leaves the rest.
LEMMA Observes ==
    ASSUME NEW s \in States, NEW a \in Samplings, NEW b \in 0 .. 4, NEW c \in 0 .. 4
    PROVE  Take(s, a, b, c) \in States /\ SameMode(s, Take(s, a, b, c))
BY Zenon DEF States, SameMode, Take

\* What the streaks become.
LEMMA StreaksCount ==
    ASSUME NEW n \in 0 .. 4, NEW value
    PROVE  LET m == IF AtLeast(value, 98) THEN Smaller(n + 1, 4) ELSE 0
           IN  m \in 0 .. 4 /\ (m >= 4 => AtLeast(value, 98))
BY DEF Smaller

\* record_sample counts the sample and the streaks.
Observing(s, cpu, memory, kind) ==
    [s EXCEPT !.samples = IF s.epochAge = NotStarted THEN @ ELSE Counted(@, kind),
              !.cpuStreak = IF AtLeast(cpu, 98) THEN Smaller(@ + 1, 4) ELSE 0,
              !.memoryStreak = IF AtLeast(memory, 98) THEN Smaller(@ + 1, 4) ELSE 0]

\* It leaves the mode, and a streak of four ends with this sample.
LEMMA SampleCounts ==
    ASSUME NEW s \in States, NEW cpu, NEW memory, NEW kind \in Kinds
    PROVE  LET t == Observing(s, cpu, memory, kind)
           IN  /\ t \in States /\ SameMode(s, t)
               /\ t.learned = s.learned /\ t.epochAge = s.epochAge
               /\ t.cpuStreak >= 4 => AtLeast(cpu, 98)
               /\ t.memoryStreak >= 4 => AtLeast(memory, 98)
<1>1. s.samples \in Samplings /\ s.cpuStreak \in 0 .. 4 /\ s.memoryStreak \in 0 .. 4
  BY DEF States
<1>2. PICK a \in Samplings : a = IF s.epochAge = NotStarted THEN s.samples ELSE Counted(s.samples, kind)
  <2>1. Counted(s.samples, kind) \in Samplings
    BY <1>1 DEF Counted, Samplings
  <2>. QED
    BY <1>1, <2>1
<1>3. PICK b \in 0 .. 4 : /\ b = IF AtLeast(cpu, 98) THEN Smaller(s.cpuStreak + 1, 4) ELSE 0
                          /\ b >= 4 => AtLeast(cpu, 98)
  BY <1>1, StreaksCount
<1>4. PICK c \in 0 .. 4 : /\ c = IF AtLeast(memory, 98) THEN Smaller(s.memoryStreak + 1, 4) ELSE 0
                          /\ c >= 4 => AtLeast(memory, 98)
  BY <1>1, StreaksCount
<1>5. Observing(s, cpu, memory, kind) = Take(s, a, b, c)
  BY <1>2, <1>3, <1>4, Zenon DEF Observing, Take
<1>6. Take(s, a, b, c) \in States
  BY Observes, Zenon
<1>7. SameMode(s, Take(s, a, b, c))
  BY Observes, Zenon
<1>8. Take(s, a, b, c).cpuStreak = b
  BY DEF Take, States
<1>9. Take(s, a, b, c).memoryStreak = c
  BY DEF Take, States
<1>10. Take(s, a, b, c).learned = s.learned
  BY DEF Take, States
<1>11. Take(s, a, b, c).epochAge = s.epochAge
  BY DEF Take, States
<1>. QED
  BY <1>3, <1>4, <1>5, <1>6, <1>7, <1>8, <1>9, <1>10, <1>11

\* The marks of a memory emergency.
LEMMA Marks ==
    ASSUME NEW s \in States, NEW t, t = [s EXCEPT !.memoryEmergency = TRUE, !.epochMemoryEmergency = TRUE, !.paused = TRUE,
                                                !.pendingDecrease = TRUE]
    PROVE  /\ t \in States /\ t.learned = s.learned /\ t.epochAge = s.epochAge /\ t.recoveryStreak = s.recoveryStreak
           /\ t.paused /\ t.memoryEmergency
<1>1. t \in States
  BY Zenon DEF States
<1>2. t.learned = s.learned /\ t.epochAge = s.epochAge /\ t.recoveryStreak = s.recoveryStreak
  BY DEF States
<1>3. t.paused /\ t.memoryEmergency
  BY DEF States
<1>. QED
  BY <1>1, <1>2, <1>3, Zenon

\* The marks of a pause.
LEMMA Pauses ==
    ASSUME NEW s \in States, NEW t, t = [s EXCEPT !.paused = TRUE, !.pendingDecrease = TRUE]
    PROVE  /\ t \in States /\ t.learned = s.learned /\ t.epochAge = s.epochAge /\ t.recoveryStreak = s.recoveryStreak
           /\ t.paused /\ t.memoryEmergency = s.memoryEmergency
<1>1. t \in States
  BY Zenon DEF States
<1>2. t.learned = s.learned /\ t.epochAge = s.epochAge /\ t.recoveryStreak = s.recoveryStreak
  BY DEF States
<1>3. t.paused /\ t.memoryEmergency = s.memoryEmergency
  BY DEF States
<1>. QED
  BY <1>1, <1>2, <1>3, Zenon

\* The marks of its end.
LEMMA Resuming ==
    ASSUME NEW s \in States, NEW t, t = [s EXCEPT !.paused = FALSE, !.memoryEmergency = FALSE, !.cpuStreak = 0,
                                                !.memoryStreak = 0, !.recoveryStreak = 0]
    PROVE  /\ t \in States /\ t.learned = s.learned /\ t.epochAge = s.epochAge /\ t.recoveryStreak = 0
           /\ ~t.paused /\ ~t.memoryEmergency
<1>0. 0 \in 0 .. 4 /\ 0 \in Nat
  OBVIOUS
<1>1. t \in States
  BY <1>0, Zenon DEF States
<1>2. t.learned = s.learned /\ t.epochAge = s.epochAge /\ t.recoveryStreak = 0
  BY DEF States
<1>3. ~t.paused /\ ~t.memoryEmergency
  BY DEF States
<1>. QED
  BY <1>1, <1>2, <1>3, Zenon

\* t knows what s knew, in the same epoch.
Knows(s, t) == t.learned = s.learned /\ t.epochAge = s.epochAge

\* What a recorded sample leaves: the type, and the mode by the streaks.
LEMMA Records ==
    ASSUME NEW s \in States, NEW cpu \in -1 .. 100, NEW memory \in -1 .. 100, <<cpu, memory>> \in Readings,
           NEW earlier \in (-1 .. 100) \X (-1 .. 100), Watched(s), Streaked(s, earlier)
    PROVE  LET t == RecordSample(s, cpu, memory)
           IN  /\ t \in States /\ Knows(s, t)
               /\ Watched(t) /\ Streaked(t, <<cpu, memory>>) /\ Resumes(s, t, earlier, <<cpu, memory>>)
<1>. DEFINE e == Emergency(s, memory)
            saturated == \/ Queued(s) # {}
                         \/ Active(s) # {} /\ Cardinality(Active(s)) >= Effective(s)
            observed == [e EXCEPT
                !.samples = IF e.epochAge = NotStarted THEN @
                            ELSE Counted(@, << <<cpu, memory>>, saturated>>),
                !.cpuStreak = IF AtLeast(cpu, 98) THEN Smaller(@ + 1, 4) ELSE 0,
                !.memoryStreak = IF AtLeast(memory, 98) THEN Smaller(@ + 1, 4) ELSE 0]
            pressed == IF observed.cpuStreak >= 4 \/ observed.memoryStreak >= 4
                       THEN [observed EXCEPT !.paused = TRUE, !.pendingDecrease = TRUE]
                       ELSE observed
            streak == Recovery(pressed, cpu, memory)
            resumed == [pressed EXCEPT !.paused = FALSE, !.memoryEmergency = FALSE, !.cpuStreak = 0,
                                       !.memoryStreak = 0, !.recoveryStreak = 0]
            counted == [pressed EXCEPT !.recoveryStreak = streak]
            t == RecordSample(s, cpu, memory)
<1>1. t = IF e.epochAge = NotStarted /\ ~e.memoryEmergency THEN e
          ELSE IF pressed.paused /\ streak >= 2 THEN resumed ELSE counted
  BY Zenon DEF RecordSample
<1>2. /\ e \in States /\ e.learned = s.learned /\ e.epochAge = s.epochAge /\ e.recoveryStreak = s.recoveryStreak
      /\ \/ AtLeast(memory, 90) /\ e.paused /\ e.memoryEmergency
         \/ ~AtLeast(memory, 90) /\ e = s
  <2>1. CASE AtLeast(memory, 90)
    <3>1. e = [s EXCEPT !.memoryEmergency = TRUE, !.epochMemoryEmergency = TRUE, !.paused = TRUE,
                        !.pendingDecrease = TRUE]
      BY <2>1, Zenon DEF Emergency
    <3>. HIDE DEF e
    <3>2. /\ e \in States /\ e.learned = s.learned /\ e.epochAge = s.epochAge
          /\ e.recoveryStreak = s.recoveryStreak /\ e.paused /\ e.memoryEmergency
      BY <3>1, Marks, Zenon
    <3>. QED
      BY <2>1, <3>2, Zenon
  <2>2. CASE ~AtLeast(memory, 90)
    <3>1. e = s
      BY <2>2, Zenon DEF Emergency
    <3>. HIDE DEF e
    <3>. QED
      BY <2>2, <3>1, Zenon
  <2>. QED
    BY <2>1, <2>2, Zenon
<1>. HIDE DEF e, t
<1>3. saturated \in BOOLEAN /\ << <<cpu, memory>>, saturated>> \in Kinds
  BY Zenon DEF Kinds
<1>. HIDE DEF saturated
<1>4. /\ observed \in States /\ SameMode(e, observed)
      /\ observed.learned = e.learned /\ observed.epochAge = e.epochAge
      /\ observed.cpuStreak >= 4 => AtLeast(cpu, 98)
      /\ observed.memoryStreak >= 4 => AtLeast(memory, 98)
  <2>1. e \in States
    BY <1>2
  <2>2. observed = Observing(e, cpu, memory, << <<cpu, memory>>, saturated>>)
    BY Zenon DEF Observing
  <2>. HIDE DEF observed
  <2>3. PICK kind \in Kinds : kind = << <<cpu, memory>>, saturated>>
    BY <1>3
  <2>4. observed = Observing(e, cpu, memory, kind)
    BY <2>2, <2>3, Zenon
  <2>5. observed \in States /\ SameMode(e, observed)
    BY <2>1, <2>4, SampleCounts, Zenon
  <2>6. observed.learned = e.learned /\ observed.epochAge = e.epochAge
    <3>1. /\ Observing(e, cpu, memory, kind).learned = e.learned
          /\ Observing(e, cpu, memory, kind).epochAge = e.epochAge
      BY <2>1 DEF Observing, States
    <3>. QED
      BY <2>4, <3>1, Zenon
  <2>7. /\ observed.cpuStreak >= 4 => AtLeast(cpu, 98)
        /\ observed.memoryStreak >= 4 => AtLeast(memory, 98)
    BY <2>1, <2>4, SampleCounts, Zenon
  <2>. QED
    BY <2>5, <2>6, <2>7
<1>. HIDE DEF observed
<1>5. /\ pressed \in States /\ pressed.learned = e.learned /\ pressed.epochAge = e.epochAge
      /\ pressed.memoryEmergency = e.memoryEmergency /\ pressed.recoveryStreak = e.recoveryStreak
      /\ \/ pressed.paused /\ (AtLeast(cpu, 98) \/ AtLeast(memory, 98))
         \/ pressed.paused = e.paused
  <2>1. CASE observed.cpuStreak >= 4 \/ observed.memoryStreak >= 4
    <3>1. pressed = [observed EXCEPT !.paused = TRUE, !.pendingDecrease = TRUE]
      BY <2>1
    <3>. HIDE DEF pressed
    <3>2. /\ pressed \in States /\ pressed.learned = observed.learned /\ pressed.epochAge = observed.epochAge
          /\ pressed.memoryEmergency = observed.memoryEmergency
          /\ pressed.recoveryStreak = observed.recoveryStreak /\ pressed.paused
      <4>1. observed \in States
        BY <1>4
      <4>. QED
        BY <3>1, <4>1, Pauses, Zenon
    <3>. QED
      BY <1>4, <2>1, <3>2, Zenon DEF SameMode
  <2>2. CASE ~(observed.cpuStreak >= 4 \/ observed.memoryStreak >= 4)
    <3>1. pressed = observed
      BY <2>2
    <3>. HIDE DEF pressed
    <3>. QED
      BY <1>4, <3>1 DEF SameMode
  <2>. QED
    BY <2>1, <2>2, Zenon
<1>. HIDE DEF pressed
<1>6. streak \in Nat
  BY <1>5 DEF Recovery, States
<1>7. /\ resumed \in States /\ resumed.learned = pressed.learned /\ resumed.epochAge = pressed.epochAge
      /\ ~resumed.paused /\ ~resumed.memoryEmergency /\ resumed.recoveryStreak = 0
  <2>1. pressed \in States
    BY <1>5
  <2>. QED
    BY <2>1, Resuming, Zenon
<1>8. /\ counted \in States /\ counted.learned = pressed.learned /\ counted.epochAge = pressed.epochAge
      /\ counted.paused = pressed.paused /\ counted.memoryEmergency = pressed.memoryEmergency
      /\ counted.recoveryStreak = streak
  BY <1>5, <1>6 DEF States
<1>. HIDE DEF resumed, counted
<1>9. t \in States /\ Knows(s, t)
  BY <1>1, <1>2, <1>5, <1>7, <1>8 DEF Knows
<1>. DEFINE later == <<cpu, memory>>
            Goal == Watched(t) /\ Streaked(t, later) /\ Resumes(s, t, earlier, later)
<1>10. /\ \/ streak = pressed.recoveryStreak + 1 /\ pressed.paused /\ Low(later, Limit(pressed))
          \/ streak = 0
          \/ streak = pressed.recoveryStreak /\ ~pressed.paused
  BY DEF Recovery, Low, Limit
<1>. HIDE DEF streak
<1>11. /\ AtLeast(cpu, 98) \/ AtLeast(memory, 98) => ~Low(later, 95) /\ ~Low(later, 85)
       /\ AtLeast(memory, 90) => ~Low(later, 85)
       /\ \A reading \in (-1 .. 100) \X (-1 .. 100) : Low(reading, 85) => Low(reading, 95)
  BY DEF Low, AtLeast, Below, Missing
<1>12. ASSUME e.epochAge = NotStarted /\ ~e.memoryEmergency
       PROVE  Goal
  <2>1. t = e /\ e = s
    BY <1>1, <1>2, <1>12
  <2>2. ~s.paused
    BY <1>12, <2>1 DEF Watched
  <2>. QED
    BY <2>1, <2>2 DEF Watched, Streaked, Resumes
<1>13. ASSUME ~(e.epochAge = NotStarted /\ ~e.memoryEmergency) /\ pressed.paused /\ streak >= 2
       PROVE  Goal
  <2>1. t = resumed
    BY <1>1, <1>13, Zenon
  <2>2. s.recoveryStreak # 0 /\ Low(later, Limit(pressed))
    BY <1>2, <1>5, <1>10, <1>13
  <2>3. s.recoveryStreak = 1 /\ s.paused /\ Low(earlier, Limit(s))
    BY <2>2 DEF Streaked
  <2>4. ~AtLeast(memory, 90) /\ e = s
    <3>1. AtLeast(memory, 90) /\ e.memoryEmergency => Limit(pressed) = 85
      BY <1>5 DEF Limit
    <3>2. AtLeast(memory, 90) => e.memoryEmergency
      BY <1>2, Zenon
    <3>3. ~AtLeast(memory, 90)
      BY <1>11, <2>2, <3>1, <3>2
    <3>. QED
      BY <1>2, <3>3, Zenon
  <2>5. Limit(pressed) = Limit(s)
    BY <1>5, <2>4 DEF Limit
  <2>6. /\ s.memoryEmergency => Low(earlier, 85) /\ Low(later, 85)
        /\ ~s.memoryEmergency => Low(earlier, 95) /\ Low(later, 95)
    BY <2>2, <2>3, <2>5 DEF Limit
  <2>7. later \in (-1 .. 100) \X (-1 .. 100)
    OBVIOUS
  <2>8. Resumes(s, t, earlier, later)
    BY <1>11, <2>6, <2>7 DEF Resumes
  <2>9. Watched(t) /\ Streaked(t, later)
    BY <1>7, <2>1 DEF Watched, Streaked
  <2>. QED
    BY <2>8, <2>9
<1>14. ASSUME ~(e.epochAge = NotStarted /\ ~e.memoryEmergency) /\ ~(pressed.paused /\ streak >= 2)
       PROVE  Goal
  <2>1. t = counted
    BY <1>1, <1>14, Zenon
  <2>2. Watched(t)
    BY <1>5, <1>8, <1>14, <2>1 DEF Watched
  <2>3. s.memoryEmergency => t.memoryEmergency
    BY <1>2, <1>5, <1>8, <2>1
  <2>4. s.paused => t.paused
    BY <1>2, <1>5, <1>8, <2>1
  <2>5. Streaked(t, later)
    <3>1. CASE streak = pressed.recoveryStreak + 1 /\ pressed.paused /\ Low(later, Limit(pressed))
      <4>1. streak = 1
        BY <1>5, <1>6, <1>14, <3>1 DEF States
      <4>2. Limit(t) = Limit(pressed)
        BY <1>8, <2>1 DEF Limit
      <4>. QED
        BY <1>8, <2>1, <3>1, <4>1, <4>2, Zenon DEF Streaked
    <3>2. CASE streak = 0
      BY <1>8, <2>1, <3>2 DEF Streaked
    <3>3. CASE streak = pressed.recoveryStreak /\ ~pressed.paused
      <4>1. ~s.paused
        BY <1>8, <2>1, <2>4, <3>3
      <4>2. s.recoveryStreak = 0
        BY <4>1 DEF Streaked
      <4>. QED
        BY <1>2, <1>5, <3>2, <3>3, <4>2
    <3>. QED
      BY <1>10, <3>1, <3>2, <3>3
  <2>. QED
    BY <2>2, <2>3, <2>4, <2>5 DEF Resumes
<1>15. Goal
  <2>. HIDE DEF Goal
  <2>. QED
    BY <1>12, <1>13, <1>14, Zenon
<1>. QED
  BY <1>9, <1>15, Zenon DEF t

-----------------------------------------------------------------------------
(* The end of an epoch.                                                    *)

\* t is s with other demands, ages or samples, in the same epoch or outside one too.
Like(s, t) == SameMode(s, t) /\ (t.epochAge = NotStarted <=> s.epochAge = NotStarted)

\* From s to t the emergency stays, a pause ends only with the epoch, and what
\* the invariant says of s it says of t.
Carries(s, t) ==
    /\ t.memoryEmergency = s.memoryEmergency
    /\ s.paused /\ ~t.paused => t.epochAge = NotStarted
    /\ Watched(s) => Watched(t)
    /\ \A reading : Streaked(s, reading) => Streaked(t, reading)

\* A change of the data of an epoch, or the start of one, is harmless.
LEMMA ModeCarries ==
    ASSUME NEW s, NEW t, SameMode(s, t), t.epochAge = NotStarted => s.epochAge = NotStarted
    PROVE  Carries(s, t)
<1>1. Limit(t) = Limit(s)
  BY DEF SameMode, Limit
<1>2. \A reading : Streaked(s, reading) => Streaked(t, reading)
  BY <1>1, Zenon DEF SameMode, Streaked
<1>. QED
  BY <1>2, Zenon DEF SameMode, Carries, Watched

\* A state that is alike in mode and epoch carries everything over.
LEMMA LikeCarries == ASSUME NEW s, NEW t, Like(s, t) PROVE Carries(s, t)
BY ModeCarries, Zenon DEF Like

\* The relations compose.
LEMMA CarriesOn ==
    ASSUME NEW s, NEW t, NEW u, NEW v, Like(s, t), Carries(t, u), Like(u, v)
    PROVE  Carries(s, v)
<1>1. Carries(s, t) /\ Carries(u, v)
  BY LikeCarries, Zenon
<1>2. v.memoryEmergency = s.memoryEmergency
  BY <1>1, Zenon DEF Carries
<1>3. s.paused /\ ~v.paused => v.epochAge = NotStarted
  BY Zenon DEF Carries, Like, SameMode
<1>4. Watched(s) => Watched(v)
  BY <1>1, Zenon DEF Carries
<1>5. \A reading : Streaked(s, reading) => Streaked(v, reading)
  BY <1>1, Zenon DEF Carries
<1>. QED
  BY <1>2, <1>3, <1>4, <1>5, Zenon DEF Carries

\* The new capacity is a capacity.
LEMMA Learns ==
    ASSUME NEW s \in States, NEW n \in 1 .. CapMax, NEW t, t = [s EXCEPT !.learned = n]
    PROVE  t \in States /\ SameMode(s, t) /\ t.epochAge = s.epochAge
<1>1. t \in States
  BY Zenon DEF States
<1>2. SameMode(s, t) /\ t.epochAge = s.epochAge
  BY DEF States, SameMode
<1>. QED
  BY <1>1, <1>2

\* An epoch whose work goes on leaves the mode.
LEMMA LiveEnds ==
    ASSUME NEW s \in States
    PROVE  EndsLive(s) \in States /\ SameMode(s, EndsLive(s)) /\ EndsLive(s).epochAge = 0
<1>0. 0 \in Ages /\ NotStarted \in Ages
  BY LearningConstants DEF Ages
<1>1. EndsLive(s) \in States
  BY <1>0, Zenon DEF EndsLive, States
<1>2. SameMode(s, EndsLive(s)) /\ EndsLive(s).epochAge = 0
  BY DEF EndsLive, States, SameMode
<1>. QED
  BY <1>1, <1>2

\* An idle epoch ends the pause, but not the emergency.
LEMMA IdleEnds ==
    ASSUME NEW s \in States
    PROVE  /\ EndsIdle(s) \in States /\ EndsIdle(s).epochAge = NotStarted
           /\ EndsIdle(s).memoryEmergency = s.memoryEmergency
           /\ EndsIdle(s).paused = s.memoryEmergency /\ EndsIdle(s).recoveryStreak = 0
<1>0. NotStarted \in Ages /\ 0 \in 0 .. 4 /\ 0 \in Nat
  BY DEF Ages
<1>1. EndsIdle(s) \in States
  BY <1>0, Zenon DEF EndsIdle, States
<1>2. /\ EndsIdle(s).epochAge = NotStarted
      /\ EndsIdle(s).memoryEmergency = s.memoryEmergency
      /\ EndsIdle(s).paused = s.memoryEmergency
      /\ EndsIdle(s).recoveryStreak = 0
  BY DEF EndsIdle, States
<1>. QED
  BY <1>1, <1>2

\* What the epoch collected is forgotten, and nothing else.
LEMMA Forgets ==
    ASSUME NEW s \in States, NEW t,
           t = [s EXCEPT !.samples = NoSamples, !.longest = 0, !.pendingDecrease = FALSE,
                         !.epochMemoryEmergency = FALSE]
    PROVE  t \in States /\ SameMode(s, t) /\ t.epochAge = s.epochAge
<1>0. 0 \in 0 .. Minimum /\ NoSamples \in Samplings
  BY LearningConstants DEF NoSamples, Samplings
<1>1. t \in States
  BY <1>0, Zenon DEF States
<1>2. SameMode(s, t) /\ t.epochAge = s.epochAge
  BY DEF States, SameMode
<1>. QED
  BY <1>1, <1>2

\* finish_epoch keeps the type, and a pause inside an epoch.
LEMMA EpochFinishes ==
    ASSUME NEW s \in States
    PROVE  FinishEpoch(s) \in States /\ Carries(s, FinishEpoch(s))
<1>. DEFINE learnt == [s EXCEPT !.learned = IF Eligible(s) THEN Adjusted(s) ELSE @]
            ended == IF Busy(s) THEN EndsLive(learnt) ELSE EndsIdle(learnt)
            t == [ended EXCEPT !.samples = NoSamples, !.longest = 0, !.pendingDecrease = FALSE,
                               !.epochMemoryEmergency = FALSE]
<1>1. FinishEpoch(s) = IF s.epochAge = NotStarted \/ (Busy(s) /\ ~Eligible(s)) THEN s ELSE t
  BY Zenon DEF FinishEpoch
<1>2. learnt \in States /\ SameMode(s, learnt) /\ learnt.epochAge = s.epochAge
  <2>1. PICK n \in 1 .. CapMax : n = IF Eligible(s) THEN Adjusted(s) ELSE s.learned
    BY Adjusts DEF States
  <2>2. learnt = [s EXCEPT !.learned = n]
    BY <2>1, Zenon
  <2>. HIDE DEF learnt
  <2>. QED
    BY <2>2, Learns, Zenon
<1>. HIDE DEF learnt
<1>3. CASE s.epochAge = NotStarted \/ (Busy(s) /\ ~Eligible(s))
  <2>1. FinishEpoch(s) = s
    BY <1>1, <1>3, Zenon
  <2>2. Carries(s, s)
    BY Zenon DEF Carries
  <2>. QED
    BY <2>1, <2>2, Zenon
<1>4. CASE s.epochAge # NotStarted /\ Busy(s) /\ Eligible(s)
  <2>1. ended = EndsLive(learnt) /\ FinishEpoch(s) = t
    BY <1>1, <1>4, Zenon
  <2>. HIDE DEF ended
  <2>2. ended \in States /\ SameMode(learnt, ended) /\ ended.epochAge = 0
    BY <1>2, <2>1, LiveEnds, Zenon
  <2>3. t \in States /\ SameMode(ended, t) /\ t.epochAge = ended.epochAge
    BY <2>2, Forgets, Zenon
  <2>. HIDE DEF t
  <2>4. Like(s, t)
    <3>1. SameMode(s, t)
      BY <1>2, <2>2, <2>3, Zenon DEF SameMode
    <3>2. t.epochAge # NotStarted
      BY <2>2, <2>3 DEF NotStarted
    <3>. QED
      BY <1>4, <3>1, <3>2, Zenon DEF Like
  <2>. QED
    BY <2>1, <2>3, <2>4, LikeCarries, Zenon
<1>5. CASE s.epochAge # NotStarted /\ ~Busy(s)
  <2>1. ended = EndsIdle(learnt) /\ FinishEpoch(s) = t
    BY <1>1, <1>5, Zenon
  <2>. HIDE DEF ended
  <2>2. /\ ended \in States /\ ended.epochAge = NotStarted
        /\ ended.memoryEmergency = learnt.memoryEmergency
        /\ ended.paused = learnt.memoryEmergency /\ ended.recoveryStreak = 0
    BY <1>2, <2>1, IdleEnds
  <2>3. t \in States /\ SameMode(ended, t) /\ t.epochAge = ended.epochAge
    BY <2>2, Forgets, Zenon
  <2>. HIDE DEF t
  <2>4. t.memoryEmergency = s.memoryEmergency /\ t.paused = s.memoryEmergency
    BY <1>2, <2>2, <2>3, Zenon DEF SameMode
  <2>5. t.epochAge = NotStarted /\ t.recoveryStreak = 0
    BY <2>2, <2>3, Zenon DEF SameMode
  <2>6. Carries(s, t)
    BY <2>4, <2>5 DEF Carries, Watched, Streaked
  <2>. QED
    BY <2>1, <2>3, <2>6, Zenon
<1>. QED
  BY <1>3, <1>4, <1>5, Zenon

-----------------------------------------------------------------------------
(* The steps.                                                              *)

\* The inductive invariant.
LearningInv == LearningTypeOK /\ Watched(state) /\ Streaked(state, previous)

\* What a step may do to the emergency and to the pause.
Evidence ==
    /\ state.memoryEmergency /\ ~state'.memoryEmergency =>
            Low(previous, 85) /\ Low(previous', 85)
    /\ state.paused /\ ~state'.paused /\ state'.epochAge # NotStarted =>
            Low(previous, 95) /\ Low(previous', 95)

\* Before anything happens nothing is paused.
LEMMA InvInit == LearningInit => LearningInv
<1>. SUFFICES ASSUME LearningInit PROVE LearningInv
  OBVIOUS
<1>. DEFINE fresh == [learned |-> InitialCapacity, cap |-> NoCap,
                      run |-> [r \in Runs |-> "new"], demand |-> [r \in Runs |-> "none"],
                      paused |-> FALSE, memoryEmergency |-> FALSE, pendingDecrease |-> FALSE,
                      epochMemoryEmergency |-> FALSE, cpuStreak |-> 0, memoryStreak |-> 0,
                      recoveryStreak |-> 0, epochAge |-> NotStarted, epochRuns |-> {},
                      runAge |-> [r \in Runs |-> NotStarted], longest |-> 0, samples |-> NoSamples]
<1>1. state = fresh /\ previous = <<Missing, Missing>> /\ calm = FALSE
  BY Zenon DEF LearningInit
<1>2. /\ InitialCapacity \in 1 .. CapMax /\ NoCap \in 0 .. CapMax /\ 0 \in 0 .. 4 /\ 0 \in Nat
      /\ NotStarted \in Ages /\ 0 \in 0 .. Minimum /\ NoSamples \in Samplings
  BY LearningConstants DEF NoCap, Ages, Samplings, NoSamples
<1>3. fresh \in States
  BY <1>2, Zenon DEF States
<1>4. ~fresh.paused /\ fresh.recoveryStreak = 0
  OBVIOUS
<1>. HIDE DEF fresh
<1>5. previous \in (-1 .. 100) \X (-1 .. 100) /\ calm \in BOOLEAN
  <2>1. <<Missing, Missing>> \in (-1 .. 100) \X (-1 .. 100)
    BY DEF Missing
  <2>. QED
    BY <1>1, <2>1, Zenon
<1>6. state \in States /\ ~state.paused /\ state.recoveryStreak = 0
  BY <1>1, <1>3, <1>4, Zenon
<1>. QED
  BY <1>5, <1>6, Zenon DEF LearningInv, LearningTypeOK, Watched, Streaked

\* A step that carries the state over and takes no sample.
LEMMA Carried ==
    ASSUME LearningInv, state' \in States, Carries(state, state'), UNCHANGED <<previous, calm>>
    PROVE  LearningInv' /\ Evidence
<1>1. Watched(state') /\ Streaked(state', previous')
  BY Zenon DEF LearningInv, Carries
<1>2. LearningTypeOK'
  BY Zenon DEF LearningInv, LearningTypeOK
<1>3. LearningInv'
  BY <1>1, <1>2, Zenon DEF LearningInv, Watched, Streaked, Limit
<1>4. Evidence
  BY Zenon DEF Evidence, Carries
<1>. QED
  BY <1>3, <1>4

\* A state with another demand or registration is like it.
LEMMA Redemands ==
    ASSUME NEW s \in States, NEW r \in Runs, NEW d \in {"none", "waiting", "active"}, NEW t,
           t = [s EXCEPT !.demand[r] = d]
    PROVE  t \in States /\ SameMode(s, t) /\ t.epochAge = s.epochAge
<1>1. t \in States
  BY Zenon DEF States
<1>2. SameMode(s, t) /\ t.epochAge = s.epochAge
  BY DEF States, SameMode
<1>. QED
  BY <1>1, <1>2

\* register_run.
LEMMA RegisterStep ==
    ASSUME LearningInv, NEW r \in Runs, RegisterRun(r)
    PROVE  LearningInv' /\ Evidence
<1>0. state \in States
  BY Zenon DEF LearningInv, LearningTypeOK
<1>1. state' = [state EXCEPT !.run[r] = "registered"] /\ UNCHANGED <<previous, calm>>
  BY Zenon DEF RegisterRun
<1>2. state' \in States
  BY <1>0, <1>1, Zenon DEF States
<1>3. Like(state, state')
  BY <1>0, <1>1 DEF States, Like, SameMode
<1>. QED
  BY <1>1, <1>2, <1>3, LikeCarries, Carried, Zenon

\* enqueue.
LEMMA EnqueueStep ==
    ASSUME LearningInv, NEW r \in Runs, Enqueue(r)
    PROVE  LearningInv' /\ Evidence
<1>. DEFINE s == [state EXCEPT !.demand[r] = "waiting"]
            e == StartEpoch(s, r)
<1>0. state \in States
  BY Zenon DEF LearningInv, LearningTypeOK
<1>1. state' \in GrantReady(e) /\ UNCHANGED <<previous, calm>>
  BY Zenon DEF Enqueue
<1>2. s \in States /\ SameMode(state, s)
  BY <1>0, Redemands, Zenon
<1>. HIDE DEF s
<1>3. e \in States /\ SameMode(s, e) /\ e.epochAge # NotStarted
  BY <1>2, Starts, Zenon
<1>. HIDE DEF e
<1>4. state' \in States /\ SameMode(e, state') /\ state'.epochAge = e.epochAge
  BY <1>1, <1>3, Grants, Zenon
<1>5. SameMode(state, state') /\ state'.epochAge # NotStarted
  BY <1>2, <1>3, <1>4, Zenon DEF SameMode
<1>6. Carries(state, state')
  BY <1>5, ModeCarries, Zenon
<1>. QED
  BY <1>1, <1>4, <1>6, Carried, Zenon

\* release and cancel_pending.
LEMMA LeaveStep ==
    ASSUME LearningInv, NEW r \in Runs, Leave(r)
    PROVE  LearningInv' /\ Evidence
<1>. DEFINE s == [state EXCEPT !.demand[r] = "none"]
            f == FinishRun(s, r)
<1>0. state \in States
  BY Zenon DEF LearningInv, LearningTypeOK
<1>1. PICK g \in GrantReady(f) : state' = FinishEpoch(g)
  BY Zenon DEF Leave
<1>2. s \in States /\ SameMode(state, s) /\ s.epochAge = state.epochAge
  <2>1. s \in States /\ SameMode(state, s)
    BY <1>0, Redemands, Zenon
  <2>2. s.epochAge = state.epochAge
    BY <1>0 DEF States
  <2>. QED
    BY <2>1, <2>2
<1>. HIDE DEF s
<1>3. f \in States /\ SameMode(s, f) /\ f.epochAge = s.epochAge
  BY <1>2, RunFinishes, Zenon
<1>. HIDE DEF f
<1>4. g \in States /\ SameMode(f, g) /\ g.epochAge = f.epochAge
  BY <1>3, Grants, Zenon
<1>5. Like(state, g)
  BY <1>2, <1>3, <1>4, Zenon DEF SameMode, Like
<1>6. state' \in States /\ Carries(g, state')
  BY <1>1, <1>4, EpochFinishes, Zenon
<1>7. Like(state', state')
  BY Zenon DEF Like, SameMode
<1>8. Carries(state, state')
  BY <1>5, <1>6, <1>7, CarriesOn, Zenon
<1>9. UNCHANGED <<previous, calm>>
  BY Zenon DEF Leave
<1>. QED
  BY <1>6, <1>8, <1>9, Carried, Zenon

\* unregister_run.
LEMMA UnregisterStep ==
    ASSUME LearningInv, NEW r \in Runs, UnregisterRun(r)
    PROVE  LearningInv' /\ Evidence
<1>. DEFINE s == [state EXCEPT !.run[r] = "ended", !.demand[r] = "none"]
            f == FinishRun(s, r)
            e == FinishEpoch(f)
<1>0. state \in States
  BY Zenon DEF LearningInv, LearningTypeOK
<1>1. state' \in GrantReady(e) /\ UNCHANGED <<previous, calm>>
  BY Zenon DEF UnregisterRun
<1>2. s \in States
  BY <1>0, Zenon DEF States
<1>3. SameMode(state, s) /\ s.epochAge = state.epochAge
  BY <1>0 DEF States, SameMode
<1>. HIDE DEF s
<1>4. f \in States /\ SameMode(s, f) /\ f.epochAge = s.epochAge
  BY <1>2, RunFinishes, Zenon
<1>. HIDE DEF f
<1>5. e \in States /\ Carries(f, e)
  BY <1>4, EpochFinishes, Zenon
<1>. HIDE DEF e
<1>6. state' \in States /\ Like(e, state')
  <2>1. state' \in States /\ SameMode(e, state') /\ state'.epochAge = e.epochAge
    BY <1>1, <1>5, Grants, Zenon
  <2>. QED
    BY <2>1, Zenon DEF Like
<1>7. Like(state, f)
  BY <1>3, <1>4, Zenon DEF SameMode, Like
<1>8. Carries(state, state')
  BY <1>5, <1>6, <1>7, CarriesOn, Zenon
<1>. QED
  BY <1>1, <1>6, <1>8, Carried, Zenon

\* set_cap.
LEMMA SetCapStep ==
    ASSUME LearningInv, NEW c \in Caps, SetCap(c)
    PROVE  LearningInv' /\ Evidence
<1>. DEFINE s == [state EXCEPT !.cap = c]
<1>0. state \in States /\ c \in 0 .. CapMax
  BY LearningConstants, Zenon DEF LearningInv, LearningTypeOK
<1>1. state' \in GrantReady(s) /\ UNCHANGED <<previous, calm>>
  BY Zenon DEF SetCap
<1>2. s \in States
  BY <1>0, Zenon DEF States
<1>3. SameMode(state, s) /\ s.epochAge = state.epochAge
  BY <1>0 DEF States, SameMode
<1>. HIDE DEF s
<1>4. state' \in States /\ SameMode(s, state') /\ state'.epochAge = s.epochAge
  BY <1>1, <1>2, Grants, Zenon
<1>5. Like(state, state')
  BY <1>3, <1>4, Zenon DEF SameMode, Like
<1>. QED
  BY <1>1, <1>4, <1>5, LikeCarries, Carried, Zenon

\* The sampling task: what record_sample leaves, finish_epoch carries over.
LEMMA SampleStep ==
    ASSUME LearningInv, NEW reading \in Readings, Sample(reading)
    PROVE  LearningInv' /\ Evidence
<1>. DEFINE e == Elapsed(state)
            s == RecordSample(e, reading[1], reading[2])
            t == FinishEpoch(s)
<1>0. state \in States /\ previous \in (-1 .. 100) \X (-1 .. 100) /\ calm \in BOOLEAN
  BY Zenon DEF LearningInv, LearningTypeOK
<1>1. state' \in GrantReady(t) /\ previous' = reading /\ calm' = calm
  BY Zenon DEF Sample
<1>2. /\ reading[1] \in -1 .. 100 /\ reading[2] \in -1 .. 100 /\ reading = <<reading[1], reading[2]>>
      /\ reading \in (-1 .. 100) \X (-1 .. 100)
  BY LearningConstants
<1>3. e \in States /\ Like(state, e)
  BY <1>0, Elapses, Zenon DEF Like
<1>. HIDE DEF e
<1>4. Watched(e) /\ Streaked(e, previous)
  BY <1>3, LikeCarries, Zenon DEF LearningInv, Carries
<1>5. s \in States /\ Watched(s) /\ Streaked(s, reading) /\ Resumes(e, s, previous, reading)
  <2>1. PICK cpu \in -1 .. 100 : cpu = reading[1]
    BY <1>2
  <2>2. PICK memory \in -1 .. 100 : memory = reading[2]
    BY <1>2
  <2>3. s = RecordSample(e, cpu, memory) /\ <<cpu, memory>> = reading
    BY <1>2, <2>1, <2>2, Zenon
  <2>. HIDE DEF s
  <2>4. <<cpu, memory>> \in Readings
    BY <2>3
  <2>5. s \in States /\ Watched(s) /\ Streaked(s, <<cpu, memory>>) /\ Resumes(e, s, previous, <<cpu, memory>>)
    BY <1>0, <1>3, <1>4, <2>3, <2>4, Records, Zenon
  <2>. QED
    BY <2>3, <2>5, Zenon
<1>. HIDE DEF s
<1>6. t \in States /\ Carries(s, t)
  BY <1>5, EpochFinishes, Zenon
<1>. HIDE DEF t
<1>7. state' \in States /\ Like(t, state')
  <2>1. state' \in States /\ SameMode(t, state') /\ state'.epochAge = t.epochAge
    BY <1>1, <1>6, Grants, Zenon
  <2>. QED
    BY <2>1, Zenon DEF Like
<1>8. Carries(s, state')
  <2>1. Like(s, s)
    BY Zenon DEF Like, SameMode
  <2>. QED
    BY <1>6, <1>7, <2>1, CarriesOn, Zenon
<1>9. Watched(state') /\ Streaked(state', previous')
  BY <1>1, <1>5, <1>8, Zenon DEF Carries
<1>10. LearningInv'
  <2>1. LearningTypeOK'
    BY <1>0, <1>1, <1>2, <1>7, Zenon DEF LearningTypeOK
  <2>. QED
    BY <1>9, <2>1, Zenon DEF LearningInv, Watched, Streaked, Limit
<1>11. Evidence
  <2>1. e.memoryEmergency = state.memoryEmergency /\ e.paused = state.paused
    BY <1>3, Zenon DEF Like, SameMode
  <2>2. s.memoryEmergency = state'.memoryEmergency
    BY <1>8, Zenon DEF Carries
  <2>3. state'.epochAge # NotStarted /\ ~state'.paused => ~s.paused
    BY <1>8, Zenon DEF Carries
  <2>4. Resumes(e, s, previous, previous')
    BY <1>1, <1>5, Zenon
  <2>5. /\ e.memoryEmergency /\ ~s.memoryEmergency => Low(previous, 85) /\ Low(previous', 85)
        /\ e.paused /\ ~s.paused => Low(previous, 95) /\ Low(previous', 95)
    BY <2>4, Zenon DEF Resumes
  <2>. QED
    BY <2>1, <2>2, <2>3, <2>5 DEF Evidence
<1>. QED
  BY <1>10, <1>11

\* Every step keeps the invariant and needs the evidence.
LEMMA LearningStep ==
    ASSUME LearningInv, [LearningNext]_learningVars
    PROVE  LearningInv' /\ [Evidence]_learningVars
<1>1. CASE LearningNext
  <2>1. CASE CalmDown
    <3>1. state' = state /\ previous' = previous /\ calm' = TRUE
      BY <2>1, Zenon DEF CalmDown
    <3>2. LearningInv'
      BY <3>1, Zenon DEF LearningInv, LearningTypeOK, Watched, Streaked, Limit
    <3>3. Evidence
      BY <3>1, Zenon DEF Evidence
    <3>. QED
      BY <3>2, <3>3, Zenon
  <2>. QED
    BY <1>1, <2>1, RegisterStep, EnqueueStep, LeaveStep, UnregisterStep, SetCapStep, SampleStep,
       Zenon DEF LearningNext
<1>2. CASE UNCHANGED learningVars
  <2>1. state' = state /\ previous' = previous /\ calm' = calm
    BY <1>2, Zenon DEF learningVars
  <2>. QED
    BY <1>2, <2>1, Zenon DEF LearningInv, LearningTypeOK, Watched, Streaked, Limit
<1>. QED
  BY <1>1, <1>2, Zenon

\* Whatever is sampled, the learned capacity stays between one and the maximum,
\* and every other field in its range.
THEOREM LearningTyped == LearningSpec => []LearningTypeOK
<1>1. LearningInv /\ [LearningNext]_learningVars => LearningInv'
  BY LearningStep, Zenon
<1>2. LearningInv => LearningTypeOK
  BY Zenon DEF LearningInv
<1>. QED
  BY <1>1, <1>2, InvInit, PTL DEF LearningSpec

\* No pause outlives both the epoch and the emergency, since nothing would look
\* at the samples that end it.
THEOREM PausesAreWatched == LearningSpec => []PauseIsWatched
<1>1. LearningInv /\ [LearningNext]_learningVars => LearningInv'
  BY LearningStep, Zenon
<1>2. LearningInv => PauseIsWatched
  BY Zenon DEF LearningInv, Watched, PauseIsWatched
<1>. QED
  BY <1>1, <1>2, InvInit, PTL DEF LearningSpec

\* An emergency ends, and a pause inside an epoch, only after two samples in a
\* row below the limits.
THEOREM ResumesOnEvidence == LearningSpec => ResumeNeedsEvidence
<1>1. LearningInv /\ [LearningNext]_learningVars => LearningInv'
  BY LearningStep, Zenon
<1>2. LearningInv /\ [LearningNext]_learningVars => [Evidence]_learningVars
  BY LearningStep, Zenon
<1>. QED
  BY <1>1, <1>2, InvInit, PTL DEF LearningSpec, ResumeNeedsEvidence, Evidence

-----------------------------------------------------------------------------
(* Growth, with the library's facts about cardinalities.                   *)

INSTANCE FiniteSetTheorems

\* The samples of the kinds K.
Of(s, K) == UNION {{k} \X (1 .. s.samples[k]) : k \in K}

\* There are finitely many kinds of samples.
LEMMA KindsAreFinite == IsFiniteSet(Kinds)
<1>1. IsFiniteSet(-1 .. 100)
  <2>1. -1 \in Int /\ 100 \in Int
    OBVIOUS
  <2>. QED
    BY <2>1, FS_Interval, Zenon
<1>2. IsFiniteSet((-1 .. 100) \X (-1 .. 100))
  BY <1>1, FS_Product, Zenon
<1>3. IsFiniteSet(Readings)
  <2>1. Readings \in SUBSET ((-1 .. 100) \X (-1 .. 100))
    BY LearningConstants, Zenon
  <2>. QED
    BY <1>2, <2>1, FS_Subset, Zenon
<1>4. IsFiniteSet(BOOLEAN)
  <2>1. BOOLEAN = {TRUE} \cup {FALSE}
    BY Zenon
  <2>2. IsFiniteSet({TRUE}) /\ IsFiniteSet({FALSE})
    BY FS_Singleton, Zenon
  <2>3. IsFiniteSet({TRUE} \cup {FALSE})
    BY <2>2, FS_Union, Zenon
  <2>. QED
    BY <2>1, <2>3, Zenon
<1>. QED
  BY <1>3, <1>4, FS_Product, Zenon DEF Kinds

\* There are finitely many samples.
LEMMA SamplesAreFinite ==
    ASSUME NEW s \in States, NEW K \in SUBSET Kinds
    PROVE  IsFiniteSet(Of(s, K)) /\ Cardinality(Of(s, K)) \in Nat
<1>. DEFINE f == [k \in K |-> {k} \X (1 .. s.samples[k])]
            T == {{k} \X (1 .. s.samples[k]) : k \in K}
<1>1. IsFiniteSet(K)
  BY KindsAreFinite, FS_Subset, Zenon
<1>2. f \in Surjection(K, T)
  BY Zenon DEF Surjection
<1>. HIDE DEF f
<1>3. IsFiniteSet(T)
  BY <1>1, <1>2, FS_Surjection, Zenon
<1>4. ASSUME NEW k \in K
      PROVE  IsFiniteSet({k} \X (1 .. s.samples[k]))
  <2>1. 1 \in Int /\ s.samples[k] \in Int
    BY DEF States, Samplings
  <2>2. IsFiniteSet(1 .. s.samples[k])
    BY <2>1, FS_Interval, Zenon
  <2>3. IsFiniteSet({k})
    BY FS_Singleton, Zenon
  <2>. QED
    BY <2>2, <2>3, FS_Product, Zenon
<1>5. \A U \in T : IsFiniteSet(U)
  BY <1>4, Zenon
<1>. HIDE DEF T
<1>6. IsFiniteSet(UNION T)
  BY <1>3, <1>5, FS_UNION, Zenon
<1>7. Of(s, K) = UNION T
  BY Zenon DEF Of, T
<1>. QED
  BY <1>6, <1>7, FS_CardinalityType, Zenon

\* More kinds, more samples; the samples of different kinds add up.
LEMMA SamplesAdd ==
    ASSUME NEW s \in States, NEW K \in SUBSET Kinds, NEW M \in SUBSET Kinds, K \cap M = {}
    PROVE  Cardinality(Of(s, K \cup M)) = Cardinality(Of(s, K)) + Cardinality(Of(s, M))
<1>1. /\ IsFiniteSet(Of(s, K)) /\ IsFiniteSet(Of(s, M))
      /\ Cardinality(Of(s, K)) \in Nat /\ Cardinality(Of(s, M)) \in Nat
  BY SamplesAreFinite, Zenon
<1>2. Of(s, K \cup M) = Of(s, K) \cup Of(s, M)
  BY Zenon DEF Of
<1>3. Of(s, K) \cap Of(s, M) = {}
  <2>. SUFFICES ASSUME NEW x \in Of(s, K), x \in Of(s, M)
                PROVE  FALSE
    BY Zenon
  <2>1. PICK k \in K : x \in {k} \X (1 .. s.samples[k])
    BY Zenon DEF Of
  <2>2. PICK m \in M : x \in {m} \X (1 .. s.samples[m])
    BY Zenon DEF Of
  <2>3. x[1] = k
    BY <2>1
  <2>4. x[1] = m
    BY <2>2
  <2>. QED
    BY <2>3, <2>4
<1>4. Cardinality(Of(s, K) \cup Of(s, M)) = Cardinality(Of(s, K)) + Cardinality(Of(s, M)) - Cardinality(Of(s, K) \cap Of(s, M))
  BY <1>1, FS_Union, Zenon
<1>5. Cardinality(Of(s, K) \cap Of(s, M)) = 0
  BY <1>3, FS_EmptySet, Zenon
<1>6. Cardinality(Of(s, K \cup M)) = Cardinality(Of(s, K)) + Cardinality(Of(s, M)) - 0
  BY <1>2, <1>4, <1>5, Zenon
<1>7. \A m, n \in Nat : m + n - 0 = m + n
  OBVIOUS
<1>. QED
  BY <1>1, <1>6, <1>7, Zenon

\* The place of the 95th percentile leaves at most a twentieth behind it.
LEMMA Twentieth ==
    ASSUME NEW n \in Nat, NEW low \in Nat, NEW high \in Nat, n = low + high, low >= Percentile95(n)
    PROVE  20 * high <= n
BY DEF Percentile95, CeilDiv

\* A 95th percentile below 90% leaves at most a twentieth of the samples at or above it.
LEMMA IdleEnough ==
    ASSUME NEW s \in States, P95Below(s, LAMBDA k : k[1][1], 90)
    PROVE  20 * Count(s, LAMBDA k : AtLeast(k[1][1], 90)) <= Total(s)
<1>. DEFINE High == {k \in Kinds : AtLeast(k[1][1], 90)}
            Quiet == {k \in Kinds : Below(k[1][1], 90)}
            Known == {k \in Kinds : k[1][1] # Missing}
            Unknown == {k \in Kinds : k[1][1] = Missing}
<1>1. /\ Count(s, LAMBDA k : AtLeast(k[1][1], 90)) = Cardinality(Of(s, High))
      /\ Total(s) = Cardinality(Of(s, Kinds))
  <2>1. {k \in Kinds : TRUE} = Kinds
    BY Zenon
  <2>. QED
    BY <2>1, Zenon DEF Count, Total, Of
<1>2. Cardinality(Of(s, Quiet)) >= Percentile95(Cardinality(Of(s, Known)))
  BY Zenon DEF P95Below, Count, Of
<1>3. /\ Known = Quiet \cup High /\ Quiet \cap High = {}
      /\ Kinds = Known \cup Unknown /\ Known \cap Unknown = {}
  <2>1. \A k \in Kinds : k[1][1] \in -1 .. 100
    BY LearningConstants DEF Kinds
  <2>2. \A k \in Kinds : /\ k[1][1] # Missing <=> AtLeast(k[1][1], 90) \/ Below(k[1][1], 90)
                         /\ ~(AtLeast(k[1][1], 90) /\ Below(k[1][1], 90))
    BY <2>1 DEF AtLeast, Below, Missing
  <2>. QED
    BY <2>2, Zenon
<1>4. /\ High \in SUBSET Kinds /\ Quiet \in SUBSET Kinds
      /\ Known \in SUBSET Kinds /\ Unknown \in SUBSET Kinds
  BY Zenon
<1>. HIDE DEF High, Quiet, Known, Unknown
<1>5. Cardinality(Of(s, Known)) = Cardinality(Of(s, Quiet)) + Cardinality(Of(s, High))
  <2>1. Cardinality(Of(s, Quiet \cup High)) = Cardinality(Of(s, Quiet)) + Cardinality(Of(s, High))
    BY <1>3, <1>4, SamplesAdd
  <2>. QED
    BY <1>3, <2>1, Zenon
<1>6. Cardinality(Of(s, Kinds)) = Cardinality(Of(s, Known)) + Cardinality(Of(s, Unknown))
  <2>1. Cardinality(Of(s, Known \cup Unknown)) = Cardinality(Of(s, Known)) + Cardinality(Of(s, Unknown))
    BY <1>3, <1>4, SamplesAdd
  <2>. QED
    BY <1>3, <2>1, Zenon
<1>7. /\ Cardinality(Of(s, Known)) \in Nat /\ Cardinality(Of(s, Quiet)) \in Nat
      /\ Cardinality(Of(s, High)) \in Nat /\ Cardinality(Of(s, Unknown)) \in Nat
  BY <1>4, SamplesAreFinite, Zenon
<1>8. 20 * Cardinality(Of(s, High)) <= Cardinality(Of(s, Known))
  BY <1>2, <1>5, <1>7, Twentieth
<1>. QED
  BY <1>1, <1>6, <1>7, <1>8

\* The capacity grows only behind that percentile.
LEMMA GrowthIsIdle ==
    ASSUME NEW s \in States, Adjusted(s) > s.learned
    PROVE  20 * Count(s, LAMBDA k : AtLeast(k[1][1], 90)) <= Total(s)
<1>1. s.learned \in 1 .. CapMax
  BY DEF States
<1>2. s.learned > 1 => Decreased(s.learned) <= s.learned
  BY <1>1 DEF Decreased, Larger, Smaller
<1>3. \/ s.learned > 1 /\ Adjusted(s) = Decreased(s.learned)
      \/ P95Below(s, LAMBDA k : k[1][1], 90)
      \/ Adjusted(s) = s.learned
  BY DEF Adjusted
<1>4. P95Below(s, LAMBDA k : k[1][1], 90)
  <2>. SUFFICES ASSUME ~P95Below(s, LAMBDA k : k[1][1], 90)
                PROVE  FALSE
    OBVIOUS
  <2>1. \/ s.learned > 1 /\ Adjusted(s) = Decreased(s.learned)
        \/ Adjusted(s) = s.learned
    BY <1>3, Zenon
  <2>2. Adjusted(s) \in 1 .. CapMax
    BY Adjusts, Zenon
  <2>. QED
    BY <1>1, <1>2, <2>1, <2>2
<1>. QED
  BY <1>4, IdleEnough, Zenon

\* finish_epoch leaves the capacity or adjusts it.
LEMMA FinishTeaches ==
    ASSUME NEW s \in States
    PROVE  FinishEpoch(s).learned = s.learned \/ FinishEpoch(s).learned = Adjusted(s)
<1>. DEFINE n == IF Eligible(s) THEN Adjusted(s) ELSE s.learned
            learnt == [s EXCEPT !.learned = n]
            ended == IF Busy(s) THEN EndsLive(learnt) ELSE EndsIdle(learnt)
            t == [ended EXCEPT !.samples = NoSamples, !.longest = 0, !.pendingDecrease = FALSE,
                               !.epochMemoryEmergency = FALSE]
<1>1. FinishEpoch(s) = s \/ FinishEpoch(s) = t
  BY Zenon DEF FinishEpoch
<1>2. n = s.learned \/ n = Adjusted(s)
  BY Zenon
<1>3. n \in 1 .. CapMax
  BY <1>2, Adjusts DEF States
<1>. HIDE DEF n
<1>4. learnt \in States /\ learnt.learned = n
  <2>1. learnt \in States
    BY <1>3, Zenon DEF States
  <2>2. learnt.learned = n
    BY DEF States
  <2>. QED
    BY <2>1, <2>2, Zenon
<1>. HIDE DEF learnt
<1>5. EndsLive(learnt) \in States /\ EndsLive(learnt).learned = n
  <2>1. EndsLive(learnt) \in States
    BY <1>4, LiveEnds, Zenon
  <2>2. EndsLive(learnt).learned = learnt.learned
    BY <1>4 DEF EndsLive, States
  <2>. QED
    BY <1>4, <2>1, <2>2, Zenon
<1>6. EndsIdle(learnt) \in States /\ EndsIdle(learnt).learned = n
  <2>1. EndsIdle(learnt) \in States
    BY <1>4, IdleEnds, Zenon
  <2>2. EndsIdle(learnt).learned = learnt.learned
    BY <1>4 DEF EndsIdle, States
  <2>. QED
    BY <1>4, <2>1, <2>2, Zenon
<1>7. ended \in States /\ ended.learned = n
  BY <1>5, <1>6, Zenon
<1>. HIDE DEF ended
<1>8. t.learned = n
  <2>1. t.learned = ended.learned
    BY <1>7 DEF States
  <2>. QED
    BY <1>7, <2>1, Zenon
<1>. QED
  BY <1>1, <1>2, <1>8, Zenon

\* A step learns from the samples of o.
IdleCpu(o) ==
    state'.learned > state.learned => 20 * Count(o, LAMBDA k : AtLeast(k[1][1], 90)) <= Total(o)

\* What finish_epoch learns from s, it learns from any state with the same samples.
LEMMA Teaches ==
    ASSUME NEW s \in States, NEW o, o.samples = s.samples, state.learned = s.learned,
           state'.learned = FinishEpoch(s).learned
    PROVE  IdleCpu(o)
<1>. SUFFICES ASSUME state'.learned > state.learned
              PROVE  20 * Count(o, LAMBDA k : AtLeast(k[1][1], 90)) <= Total(o)
  BY Zenon DEF IdleCpu
<1>1. s.learned \in Int
  BY DEF States
<1>2. FinishEpoch(s).learned > s.learned
  BY Zenon
<1>3. FinishEpoch(s).learned # s.learned
  BY <1>1, <1>2
<1>4. Adjusted(s) > s.learned
  BY <1>2, <1>3, FinishTeaches, Zenon
<1>5. 20 * Count(s, LAMBDA k : AtLeast(k[1][1], 90)) <= Total(s)
  BY <1>4, GrowthIsIdle, Zenon
<1>6. Count(o, LAMBDA k : AtLeast(k[1][1], 90)) = Count(s, LAMBDA k : AtLeast(k[1][1], 90))
  BY Zenon DEF Count
<1>7. Total(o) = Total(s)
  BY Zenon DEF Total, Count
<1>. QED
  BY <1>5, <1>6, <1>7, Zenon

\* A step that does not touch the capacity.
LEMMA LearnsNothing ==
    ASSUME state.learned \in 1 .. CapMax, state'.learned = state.learned, NEW o
    PROVE  IdleCpu(o)
<1>1. ~(state'.learned > state.learned)
  OBVIOUS
<1>. QED
  BY <1>1, Zenon DEF IdleCpu

\* Another demand, and the end of a run, leave the capacity and the samples.
LEMMA Keeps ==
    ASSUME NEW s \in States, NEW r \in Runs, NEW d \in {"none", "waiting", "active"}
    PROVE  /\ [s EXCEPT !.demand[r] = d].learned = s.learned
           /\ [s EXCEPT !.demand[r] = d].samples = s.samples
           /\ FinishRun(s, r).samples = s.samples
<1>1. FinishRun(s, r).samples = s.samples
  BY DEF FinishRun, States
<1>. QED
  BY <1>1 DEF States

\* release and cancel_pending grow the capacity on idle samples only.
LEMMA LeaveGrows == ASSUME LearningInv, NEW r \in Runs, Leave(r) PROVE IdleCpu(state)
<1>. DEFINE s == [state EXCEPT !.demand[r] = "none"]
            f == FinishRun(s, r)
<1>0. state \in States
  BY Zenon DEF LearningInv, LearningTypeOK
<1>1. PICK g \in GrantReady(f) : state' = FinishEpoch(g)
  BY Zenon DEF Leave
<1>2. s \in States /\ s.learned = state.learned /\ s.samples = state.samples
  BY <1>0, Redemands, Keeps, Zenon
<1>. HIDE DEF s
<1>3. f \in States /\ f.learned = s.learned /\ f.samples = s.samples
  BY <1>2, RunFinishes, Keeps, Zenon
<1>. HIDE DEF f
<1>4. g \in States /\ g.learned = f.learned /\ g.samples = f.samples
  BY <1>3, Grants, Zenon
<1>5. state.samples = g.samples /\ state.learned = g.learned
  BY <1>2, <1>3, <1>4, Zenon
<1>. QED
  BY <1>1, <1>4, <1>5, Teaches, Zenon

\* So does unregister_run.
LEMMA UnregisterGrows == ASSUME LearningInv, NEW r \in Runs, UnregisterRun(r) PROVE IdleCpu(state)
<1>. DEFINE s == [state EXCEPT !.run[r] = "ended", !.demand[r] = "none"]
            f == FinishRun(s, r)
            e == FinishEpoch(f)
<1>0. state \in States
  BY Zenon DEF LearningInv, LearningTypeOK
<1>1. state' \in GrantReady(e)
  BY Zenon DEF UnregisterRun
<1>2. s \in States
  BY <1>0, Zenon DEF States
<1>3. s.learned = state.learned /\ s.samples = state.samples
  BY <1>0 DEF States
<1>. HIDE DEF s
<1>4. f \in States /\ f.learned = s.learned /\ f.samples = s.samples
  BY <1>2, RunFinishes, Keeps, Zenon
<1>. HIDE DEF f
<1>5. e \in States
  BY <1>4, EpochFinishes, Zenon
<1>6. state'.learned = e.learned
  BY <1>1, <1>5, Grants, Zenon
<1>7. state.samples = f.samples /\ state.learned = f.learned
  BY <1>3, <1>4, Zenon
<1>. QED
  BY <1>4, <1>6, <1>7, Teaches, Zenon

\* The sampling task grows it on the samples with the new one.
LEMMA SampleGrows ==
    ASSUME LearningInv, NEW reading \in Readings, Sample(reading)
    PROVE  IdleCpu(RecordSample(Elapsed(state), previous'[1], previous'[2]))
<1>. DEFINE e == Elapsed(state)
            s == RecordSample(e, reading[1], reading[2])
            t == FinishEpoch(s)
<1>0. state \in States /\ previous \in (-1 .. 100) \X (-1 .. 100)
  BY Zenon DEF LearningInv, LearningTypeOK
<1>1. state' \in GrantReady(t) /\ previous' = reading
  BY Zenon DEF Sample
<1>2. /\ reading[1] \in -1 .. 100 /\ reading[2] \in -1 .. 100 /\ reading = <<reading[1], reading[2]>>
      /\ reading \in (-1 .. 100) \X (-1 .. 100)
  BY LearningConstants
<1>3. e \in States /\ Like(state, e) /\ e.learned = state.learned
  BY <1>0, Elapses, Zenon DEF Like
<1>4. RecordSample(Elapsed(state), previous'[1], previous'[2]) = s
  BY <1>1, Zenon
<1>. HIDE DEF e
<1>5. Watched(e) /\ Streaked(e, previous)
  BY <1>3, LikeCarries, Zenon DEF LearningInv, Carries
<1>6. s \in States /\ s.learned = e.learned
  <2>1. PICK cpu \in -1 .. 100 : cpu = reading[1]
    BY <1>2
  <2>2. PICK memory \in -1 .. 100 : memory = reading[2]
    BY <1>2
  <2>3. s = RecordSample(e, cpu, memory) /\ <<cpu, memory>> = reading
    BY <1>2, <2>1, <2>2, Zenon
  <2>. HIDE DEF s
  <2>4. <<cpu, memory>> \in Readings
    BY <2>3
  <2>5. e \in States /\ previous \in (-1 .. 100) \X (-1 .. 100)
    BY <1>0, <1>3, Zenon
  <2>6. s \in States
    BY <1>5, <2>3, <2>4, <2>5, Records, Zenon
  <2>7. Knows(e, s)
    BY <1>5, <2>3, <2>4, <2>5, Records, Zenon
  <2>. QED
    BY <2>6, <2>7, Zenon DEF Knows
<1>. HIDE DEF s
<1>7. t \in States
  BY <1>6, EpochFinishes, Zenon
<1>8. state'.learned = t.learned
  BY <1>1, <1>7, Grants, Zenon
<1>9. state.learned = s.learned
  BY <1>3, <1>6, Zenon
<1>10. IdleCpu(s)
  BY <1>6, <1>8, <1>9, Teaches, Zenon
<1>. QED
  BY <1>4, <1>10, Zenon

\* Every step grows the capacity on idle samples only.
LEMMA GrowthStep ==
    ASSUME LearningInv, [LearningNext]_learningVars
    PROVE  IdleCpu(Observed)
<1>0. state \in States /\ state.learned \in 1 .. CapMax
  BY Zenon DEF LearningInv, LearningTypeOK, States
<1>1. CASE \E reading \in Readings : Sample(reading)
  <2>1. Observed = RecordSample(Elapsed(state), previous'[1], previous'[2])
    BY <1>1, Zenon DEF Observed
  <2>. QED
    BY <1>1, <2>1, SampleGrows, Zenon
<1>2. CASE ~\E reading \in Readings : Sample(reading)
  <2>0. Observed = state
    BY <1>2, Zenon DEF Observed
  <2>1. ASSUME NEW r \in Runs, RegisterRun(r)
        PROVE  state'.learned = state.learned
    <3>1. state' = [state EXCEPT !.run[r] = "registered"]
      BY <2>1, Zenon DEF RegisterRun
    <3>. QED
      BY <1>0, <3>1 DEF States
  <2>2. ASSUME NEW r \in Runs, Enqueue(r)
        PROVE  state'.learned = state.learned
    <3>. DEFINE s == [state EXCEPT !.demand[r] = "waiting"]
                e == StartEpoch(s, r)
    <3>1. state' \in GrantReady(e)
      BY <2>2, Zenon DEF Enqueue
    <3>2. s \in States /\ s.learned = state.learned
      BY <1>0, Redemands, Keeps, Zenon
    <3>. HIDE DEF s
    <3>3. e \in States /\ e.learned = s.learned
      BY <3>2, Starts, Zenon
    <3>. HIDE DEF e
    <3>4. state'.learned = e.learned
      BY <3>1, <3>3, Grants, Zenon
    <3>. QED
      BY <3>2, <3>3, <3>4, Zenon
  <2>3. ASSUME NEW c \in Caps, SetCap(c)
        PROVE  state'.learned = state.learned
    <3>. DEFINE s == [state EXCEPT !.cap = c]
    <3>0. c \in 0 .. CapMax
      BY LearningConstants, Zenon
    <3>1. state' \in GrantReady(s)
      BY <2>3, Zenon DEF SetCap
    <3>2. s \in States
      BY <1>0, <3>0, Zenon DEF States
    <3>3. s.learned = state.learned
      BY <1>0 DEF States
    <3>. HIDE DEF s
    <3>. QED
      BY <3>1, <3>2, <3>3, Grants, Zenon
  <2>4. ASSUME CalmDown \/ UNCHANGED learningVars
        PROVE  IdleCpu(state)
    <3>1. state'.learned = state.learned
      BY <2>4, Zenon DEF CalmDown, learningVars
    <3>. QED
      BY <1>0, <3>1, LearnsNothing, Zenon
  <2>5. \/ \E r \in Runs : RegisterRun(r) \/ Enqueue(r) \/ Leave(r) \/ UnregisterRun(r)
        \/ \E c \in Caps : SetCap(c)
        \/ CalmDown \/ UNCHANGED learningVars
    BY <1>2, Zenon DEF LearningNext
  <2>6. IdleCpu(state)
    <3>1. ASSUME state'.learned = state.learned
          PROVE  IdleCpu(state)
      BY <1>0, <3>1, LearnsNothing, Zenon
    <3>2. ASSUME NEW r \in Runs, RegisterRun(r) \/ Enqueue(r) \/ Leave(r) \/ UnregisterRun(r)
          PROVE  IdleCpu(state)
      <4>1. CASE RegisterRun(r)
        BY <2>1, <3>1, <4>1, Zenon
      <4>2. CASE Enqueue(r)
        BY <2>2, <3>1, <4>2, Zenon
      <4>3. CASE Leave(r)
        BY <4>3, LeaveGrows, Zenon
      <4>4. CASE UnregisterRun(r)
        BY <4>4, UnregisterGrows, Zenon
      <4>. QED
        BY <3>2, <4>1, <4>2, <4>3, <4>4, Zenon
    <3>3. ASSUME NEW c \in Caps, SetCap(c)
          PROVE  IdleCpu(state)
      BY <2>3, <3>1, <3>3, Zenon
    <3>4. CASE \E r \in Runs : RegisterRun(r) \/ Enqueue(r) \/ Leave(r) \/ UnregisterRun(r)
      BY <3>2, <3>4, Zenon
    <3>5. CASE \E c \in Caps : SetCap(c)
      BY <3>3, <3>5, Zenon
    <3>6. CASE CalmDown \/ UNCHANGED learningVars
      BY <2>4, <3>6, Zenon
    <3>. QED
      BY <2>5, <3>4, <3>5, <3>6
  <2>. QED
    BY <2>0, <2>6, Zenon
<1>. QED
  BY <1>1, <1>2, Zenon

\* The capacity grows only after an epoch in which at most one sample of twenty
\* showed CPU use at or above 90%: percentile95 rounds the right way.
THEOREM GrowthIsEarned == LearningSpec => GrowthNeedsIdleCpu
<1>1. LearningInv /\ [LearningNext]_learningVars => LearningInv'
  BY LearningStep, Zenon
<1>2. LearningInv /\ [LearningNext]_learningVars => [IdleCpu(Observed)]_learningVars
  BY GrowthStep, Zenon
<1>. QED
  BY <1>1, <1>2, InvInit, PTL DEF LearningSpec, GrowthNeedsIdleCpu, IdleCpu

-----------------------------------------------------------------------------
(* Runs and epochs: what the evidence of an epoch is about.                *)

\* A run is timed while it is registered and in the epoch, and the longest one
\* has ended in it.
Lasting(s) ==
    /\ \A r \in Runs : s.runAge[r] # NotStarted => r \in s.epochRuns /\ s.run[r] = "registered"
    /\ \A r \in s.epochRuns : s.run[r] # "new"
    /\ s.longest # 0 => \E r \in s.epochRuns : s.run[r] = "ended"
    /\ s.epochAge = NotStarted => s.epochRuns = {}

\* t is s with other demands, samples or modes, after some time.
SameRuns(s, t) ==
    /\ t.run = s.run /\ t.epochRuns = s.epochRuns /\ t.longest = s.longest
    /\ t.epochAge = NotStarted <=> s.epochAge = NotStarted
    /\ \A r \in Runs : t.runAge[r] = NotStarted <=> s.runAge[r] = NotStarted

\* Such a state tells the same about its runs.
LEMMA LastingStays ==
    ASSUME NEW s, NEW t, SameRuns(s, t), Lasting(s)
    PROVE  Lasting(t)
BY Zenon DEF SameRuns, Lasting

\* A field of a state that a method does not write.
LEMMA RunsStay ==
    ASSUME NEW s \in States
    PROVE  /\ SameRuns(s, Elapsed(s))
           /\ \A memory : SameRuns(s, Emergency(s, memory))
           /\ \A t \in GrantReady(s) : SameRuns(s, t)
<1>1. SameRuns(s, Elapsed(s))
  <2>1. \A a \in Ages : a # NotStarted => Smaller(a + 1, Minimum) # NotStarted
    BY LearningConstants DEF Ages, NotStarted, Smaller
  <2>. QED
    BY <2>1 DEF Elapsed, States, SameRuns
<1>2. ASSUME NEW memory PROVE SameRuns(s, Emergency(s, memory))
  BY DEF Emergency, States, SameRuns
<1>3. ASSUME NEW t \in GrantReady(s) PROVE SameRuns(s, t)
  <2>1. PICK G : t = [s EXCEPT !.demand = [r \in Runs |-> IF r \in G THEN "active" ELSE @[r]]]
    BY DEF GrantReady
  <2>. QED
    BY <2>1 DEF States, SameRuns
<1>. QED
  BY <1>1, <1>2, <1>3, Zenon

\* finish_epoch forgets the runs that have ended, with their times.
LEMMA LastingFinishes ==
    ASSUME NEW s \in States, Lasting(s)
    PROVE  Lasting(FinishEpoch(s))
<1>. DEFINE n == IF Eligible(s) THEN Adjusted(s) ELSE s.learned
            learnt == [s EXCEPT !.learned = n]
            ended == IF Busy(s) THEN EndsLive(learnt) ELSE EndsIdle(learnt)
            t == [ended EXCEPT !.samples = NoSamples, !.longest = 0, !.pendingDecrease = FALSE,
                               !.epochMemoryEmergency = FALSE]
<1>1. FinishEpoch(s) = s \/ FinishEpoch(s) = t
  BY Zenon DEF FinishEpoch
<1>2. n \in 1 .. CapMax
  BY Adjusts DEF States
<1>. HIDE DEF n
<1>3. /\ learnt \in States /\ learnt.run = s.run /\ learnt.epochRuns = s.epochRuns
      /\ learnt.runAge = s.runAge
  <2>1. learnt \in States
    BY <1>2, Zenon DEF States
  <2>2. learnt.run = s.run /\ learnt.epochRuns = s.epochRuns /\ learnt.runAge = s.runAge
    BY DEF States
  <2>. QED
    BY <2>1, <2>2, Zenon
<1>. HIDE DEF learnt
<1>4. /\ ended \in States /\ ended.run = s.run
      /\ \A r \in Runs : ended.runAge[r] # NotStarted => r \in ended.epochRuns /\ s.run[r] = "registered"
      /\ \A r \in ended.epochRuns : s.run[r] # "new"
      /\ ended.epochAge = NotStarted => ended.epochRuns = {}
  <2>1. CASE Busy(s)
    <3>1. ended = EndsLive(learnt)
      BY <2>1
    <3>. HIDE DEF ended
    <3>2. ended \in States /\ ended.epochAge = 0
      BY <1>3, <3>1, LiveEnds, Zenon
    <3>3. ended.run = learnt.run /\ ended.epochRuns = learnt.epochRuns \cap RegisteredIn(learnt)
      BY <1>3, <3>1 DEF EndsLive, States
    <3>4. \A r \in Runs : ended.runAge[r] # NotStarted => learnt.runAge[r] # NotStarted
      BY <1>3, <3>1 DEF EndsLive, States
    <3>5. RegisteredIn(learnt) = {r \in Runs : s.run[r] = "registered"}
      BY <1>3, Zenon DEF RegisteredIn
    <3>6. ended.epochAge # NotStarted
      BY <3>2 DEF NotStarted
    <3>. QED
      BY <1>3, <3>2, <3>3, <3>4, <3>5, <3>6, Zenon DEF Lasting
  <2>2. CASE ~Busy(s)
    <3>1. ended = EndsIdle(learnt)
      BY <2>2
    <3>. HIDE DEF ended
    <3>2. ended \in States
      BY <1>3, <3>1, IdleEnds, Zenon
    <3>3. ended.run = learnt.run /\ ended.epochRuns = {} /\ \A r \in Runs : ended.runAge[r] = NotStarted
      BY <1>3, <3>1 DEF EndsIdle, States
    <3>. QED
      BY <1>3, <3>2, <3>3, Zenon
  <2>. QED
    BY <2>1, <2>2, Zenon
<1>. HIDE DEF ended
<1>5. /\ t.run = ended.run /\ t.epochRuns = ended.epochRuns /\ t.runAge = ended.runAge
      /\ t.epochAge = ended.epochAge /\ t.longest = 0
  BY <1>4 DEF States
<1>. HIDE DEF t
<1>6. Lasting(t)
  BY <1>4, <1>5, Zenon DEF Lasting
<1>. QED
  BY <1>1, <1>6, Zenon

-----------------------------------------------------------------------------
(* What a sample decides is what CapacityBroker lets it decide.            *)

\* Everything but the mode, the streaks and the samples.
SameWork(s, t) ==
    /\ t.run = s.run /\ t.epochRuns = s.epochRuns /\ t.longest = s.longest
    /\ t.epochAge = s.epochAge /\ t.runAge = s.runAge
    /\ t.learned = s.learned /\ t.cap = s.cap /\ t.demand = s.demand

SamePause(s, t) ==
    t.paused = s.paused /\ t.memoryEmergency = s.memoryEmergency /\ t.pendingDecrease = s.pendingDecrease

\* The four things a sample may do.
Judged(s, t) ==
    \/ SamePause(s, t)
    \/ t.paused /\ t.memoryEmergency /\ t.pendingDecrease
    \/ /\ s.epochAge # NotStarted \/ s.memoryEmergency
       /\ t.paused /\ t.memoryEmergency = s.memoryEmergency /\ t.pendingDecrease
    \/ /\ s.epochAge # NotStarted \/ s.memoryEmergency
       /\ s.paused /\ ~t.paused /\ ~t.memoryEmergency /\ t.pendingDecrease = s.pendingDecrease

\* The parts of record_sample leave the work alone.
LEMMA PartsKeepWork ==
    ASSUME NEW a \in States, NEW x, NEW y, NEW z
    PROVE  /\ SameWork(a, [a EXCEPT !.memoryEmergency = TRUE, !.epochMemoryEmergency = TRUE,
                                    !.paused = TRUE, !.pendingDecrease = TRUE])
           /\ SameWork(a, [a EXCEPT !.samples = x, !.cpuStreak = y, !.memoryStreak = z])
           /\ SamePause(a, [a EXCEPT !.samples = x, !.cpuStreak = y, !.memoryStreak = z])
           /\ SameWork(a, [a EXCEPT !.paused = TRUE, !.pendingDecrease = TRUE])
           /\ SameWork(a, [a EXCEPT !.paused = FALSE, !.memoryEmergency = FALSE, !.cpuStreak = 0,
                                    !.memoryStreak = 0, !.recoveryStreak = 0])
           /\ SameWork(a, [a EXCEPT !.recoveryStreak = x])
           /\ SamePause(a, [a EXCEPT !.recoveryStreak = x])
<1>1. /\ SameWork(a, [a EXCEPT !.memoryEmergency = TRUE, !.epochMemoryEmergency = TRUE,
                               !.paused = TRUE, !.pendingDecrease = TRUE])
      /\ SameWork(a, [a EXCEPT !.samples = x, !.cpuStreak = y, !.memoryStreak = z])
      /\ SameWork(a, [a EXCEPT !.paused = TRUE, !.pendingDecrease = TRUE])
  BY DEF States, SameWork
<1>2. /\ SameWork(a, [a EXCEPT !.paused = FALSE, !.memoryEmergency = FALSE, !.cpuStreak = 0,
                               !.memoryStreak = 0, !.recoveryStreak = 0])
      /\ SameWork(a, [a EXCEPT !.recoveryStreak = x])
  BY DEF States, SameWork
<1>3. /\ SamePause(a, [a EXCEPT !.samples = x, !.cpuStreak = y, !.memoryStreak = z])
      /\ SamePause(a, [a EXCEPT !.recoveryStreak = x])
  BY DEF States, SamePause
<1>. QED
  BY <1>1, <1>2, <1>3, Zenon

\* Work stays the same through several parts.
LEMMA WorkComposes ==
    ASSUME NEW a, NEW b, NEW c, SameWork(a, b), SameWork(b, c)
    PROVE  SameWork(a, c)
BY Zenon DEF SameWork

\* record_sample, by its parts.
LEMMA RecordJudges ==
    ASSUME NEW s \in States, NEW cpu \in -1 .. 100, NEW memory \in -1 .. 100, <<cpu, memory>> \in Readings
    PROVE  /\ SameWork(s, RecordSample(s, cpu, memory))
           /\ Judged(s, RecordSample(s, cpu, memory))
<1>. DEFINE e == Emergency(s, memory)
            saturated == \/ Queued(s) # {}
                         \/ Active(s) # {} /\ Cardinality(Active(s)) >= Effective(s)
            observed == [e EXCEPT
                !.samples = IF e.epochAge = NotStarted THEN @
                            ELSE Counted(@, << <<cpu, memory>>, saturated>>),
                !.cpuStreak = IF AtLeast(cpu, 98) THEN Smaller(@ + 1, 4) ELSE 0,
                !.memoryStreak = IF AtLeast(memory, 98) THEN Smaller(@ + 1, 4) ELSE 0]
            pressed == IF observed.cpuStreak >= 4 \/ observed.memoryStreak >= 4
                       THEN [observed EXCEPT !.paused = TRUE, !.pendingDecrease = TRUE]
                       ELSE observed
            streak == Recovery(pressed, cpu, memory)
            resumed == [pressed EXCEPT !.paused = FALSE, !.memoryEmergency = FALSE, !.cpuStreak = 0,
                                       !.memoryStreak = 0, !.recoveryStreak = 0]
            counted == [pressed EXCEPT !.recoveryStreak = streak]
            t == RecordSample(s, cpu, memory)
<1>1. t = IF e.epochAge = NotStarted /\ ~e.memoryEmergency THEN e
          ELSE IF pressed.paused /\ streak >= 2 THEN resumed ELSE counted
  BY Zenon DEF RecordSample
<1>2. /\ e \in States /\ SameWork(s, e)
      /\ \/ AtLeast(memory, 90) /\ e.paused /\ e.memoryEmergency /\ e.pendingDecrease
         \/ ~AtLeast(memory, 90) /\ e = s
  <2>1. CASE AtLeast(memory, 90)
    <3>1. e = [s EXCEPT !.memoryEmergency = TRUE, !.epochMemoryEmergency = TRUE, !.paused = TRUE,
                        !.pendingDecrease = TRUE]
      BY <2>1, Zenon DEF Emergency
    <3>. HIDE DEF e
    <3>2. e \in States /\ e.paused /\ e.memoryEmergency
      BY <3>1, Marks, Zenon
    <3>3. e.pendingDecrease
      BY <3>1 DEF States
    <3>4. SameWork(s, e)
      BY <3>1, PartsKeepWork, Zenon
    <3>. QED
      BY <2>1, <3>2, <3>3, <3>4, Zenon
  <2>2. CASE ~AtLeast(memory, 90)
    <3>1. e = s
      BY <2>2, Zenon DEF Emergency
    <3>. HIDE DEF e
    <3>. QED
      BY <2>2, <3>1, Zenon DEF SameWork
  <2>. QED
    BY <2>1, <2>2, Zenon
<1>. HIDE DEF e, t
<1>3. saturated \in BOOLEAN /\ << <<cpu, memory>>, saturated>> \in Kinds
  BY Zenon DEF Kinds
<1>. HIDE DEF saturated
<1>4. /\ observed \in States /\ SameWork(e, observed) /\ SamePause(e, observed)
      /\ observed.cpuStreak >= 4 => AtLeast(cpu, 98)
      /\ observed.memoryStreak >= 4 => AtLeast(memory, 98)
  <2>1. e \in States
    BY <1>2
  <2>2. observed = Observing(e, cpu, memory, << <<cpu, memory>>, saturated>>)
    BY Zenon DEF Observing
  <2>3. SameWork(e, observed) /\ SamePause(e, observed)
    <3>1. PICK x, y, z : observed = [e EXCEPT !.samples = x, !.cpuStreak = y, !.memoryStreak = z]
      BY Zenon
    <3>. HIDE DEF observed
    <3>2. /\ SameWork(e, [e EXCEPT !.samples = x, !.cpuStreak = y, !.memoryStreak = z])
          /\ SamePause(e, [e EXCEPT !.samples = x, !.cpuStreak = y, !.memoryStreak = z])
      BY <2>1, PartsKeepWork, Zenon
    <3>. QED
      BY <3>1, <3>2
  <2>. HIDE DEF observed
  <2>4. PICK kind \in Kinds : kind = << <<cpu, memory>>, saturated>>
    BY <1>3
  <2>5. observed = Observing(e, cpu, memory, kind)
    BY <2>2, <2>4, Zenon
  <2>6. observed \in States
    BY <2>1, <2>5, SampleCounts, Zenon
  <2>7. /\ observed.cpuStreak >= 4 => AtLeast(cpu, 98)
        /\ observed.memoryStreak >= 4 => AtLeast(memory, 98)
    BY <2>1, <2>5, SampleCounts, Zenon
  <2>. QED
    BY <2>3, <2>6, <2>7
<1>. HIDE DEF observed
<1>5. /\ pressed \in States /\ SameWork(e, pressed)
      /\ \/ /\ AtLeast(cpu, 98) \/ AtLeast(memory, 98)
            /\ pressed.paused /\ pressed.pendingDecrease /\ pressed.memoryEmergency = e.memoryEmergency
         \/ SamePause(e, pressed)
  <2>1. CASE observed.cpuStreak >= 4 \/ observed.memoryStreak >= 4
    <3>1. pressed = [observed EXCEPT !.paused = TRUE, !.pendingDecrease = TRUE]
      BY <2>1
    <3>. HIDE DEF pressed
    <3>2. observed \in States
      BY <1>4
    <3>3. /\ pressed \in States /\ pressed.paused
          /\ pressed.memoryEmergency = observed.memoryEmergency
      BY <3>1, <3>2, Pauses, Zenon
    <3>4. pressed.pendingDecrease
      BY <3>1, <3>2 DEF States
    <3>5. SameWork(observed, pressed)
      BY <3>1, <3>2, PartsKeepWork, Zenon
    <3>6. SameWork(e, pressed)
      BY <1>4, <3>5, WorkComposes, Zenon
    <3>7. pressed.memoryEmergency = e.memoryEmergency
      BY <1>4, <3>3, Zenon DEF SamePause
    <3>. QED
      BY <1>4, <2>1, <3>3, <3>4, <3>6, <3>7, Zenon
  <2>2. CASE ~(observed.cpuStreak >= 4 \/ observed.memoryStreak >= 4)
    <3>1. pressed = observed
      BY <2>2
    <3>. HIDE DEF pressed
    <3>. QED
      BY <1>4, <3>1, Zenon
  <2>. QED
    BY <2>1, <2>2, Zenon
<1>. HIDE DEF pressed
<1>6. streak \in Nat
  BY <1>5 DEF Recovery, States
<1>7. pressed.paused /\ streak >= 2 => Below(cpu, 95) /\ Below(memory, IF pressed.memoryEmergency THEN 85 ELSE 95)
  BY DEF Recovery
<1>. HIDE DEF streak
<1>8. /\ resumed \in States /\ SameWork(pressed, resumed)
      /\ ~resumed.paused /\ ~resumed.memoryEmergency /\ resumed.pendingDecrease = pressed.pendingDecrease
  <2>1. pressed \in States
    BY <1>5
  <2>2. resumed.pendingDecrease = pressed.pendingDecrease
    BY <2>1 DEF States
  <2>3. resumed \in States /\ ~resumed.paused /\ ~resumed.memoryEmergency
    BY <2>1, Resuming, Zenon
  <2>4. SameWork(pressed, resumed)
    BY <2>1, PartsKeepWork, Zenon
  <2>. QED
    BY <2>2, <2>3, <2>4
<1>9. SameWork(pressed, counted) /\ SamePause(pressed, counted)
  BY <1>5, PartsKeepWork, Zenon
<1>. HIDE DEF resumed, counted
<1>10. SameWork(s, t)
  BY <1>1, <1>2, <1>5, <1>8, <1>9, WorkComposes, Zenon
<1>11. /\ AtLeast(cpu, 98) => ~Below(cpu, 95)
       /\ AtLeast(memory, 98) => ~Below(memory, 95) /\ ~Below(memory, 85)
       /\ AtLeast(memory, 90) => ~Below(memory, 85)
  BY DEF AtLeast, Below
<1>12. Judged(s, t)
  <2>1. CASE e.epochAge = NotStarted /\ ~e.memoryEmergency
    <3>1. t = e /\ e = s
      BY <1>1, <1>2, <2>1, Zenon
    <3>. QED
      BY <3>1, Zenon DEF Judged, SamePause
  <2>2. CASE ~(e.epochAge = NotStarted /\ ~e.memoryEmergency) /\ pressed.paused /\ streak >= 2
    <3>1. t = resumed
      BY <1>1, <2>2, Zenon
    <3>2. SamePause(e, pressed)
      BY <1>5, <1>7, <1>11, <2>2
    <3>3. ~AtLeast(memory, 90) /\ e = s
      BY <1>2, <1>7, <1>11, <2>2, <3>2 DEF SamePause
    <3>4. s.epochAge # NotStarted \/ s.memoryEmergency
      BY <2>2, <3>3, Zenon
    <3>5. s.paused /\ ~t.paused /\ ~t.memoryEmergency /\ t.pendingDecrease = s.pendingDecrease
      BY <1>8, <2>2, <3>1, <3>2, <3>3 DEF SamePause
    <3>. QED
      BY <3>4, <3>5, Zenon DEF Judged
  <2>3. CASE ~(e.epochAge = NotStarted /\ ~e.memoryEmergency) /\ ~(pressed.paused /\ streak >= 2)
    <3>1. SamePause(pressed, t)
      BY <1>1, <1>9, <2>3, Zenon
    <3>2. CASE AtLeast(memory, 90)
      <4>1. t.paused /\ t.memoryEmergency /\ t.pendingDecrease
        BY <1>2, <1>5, <3>1, <3>2 DEF SamePause
      <4>. QED
        BY <4>1, Zenon DEF Judged
    <3>3. CASE ~AtLeast(memory, 90)
      <4>1. e = s
        BY <1>2, <3>3, Zenon
      <4>2. CASE SamePause(e, pressed)
        <5>1. SamePause(s, t)
          BY <3>1, <4>1, <4>2, Zenon DEF SamePause
        <5>. QED
          BY <5>1, Zenon DEF Judged
      <4>3. CASE ~SamePause(e, pressed)
        <5>1. t.paused /\ t.memoryEmergency = s.memoryEmergency /\ t.pendingDecrease
          BY <1>5, <3>1, <4>1, <4>3 DEF SamePause
        <5>2. s.epochAge # NotStarted \/ s.memoryEmergency
          BY <2>3, <4>1, Zenon
        <5>. QED
          BY <5>1, <5>2, Zenon DEF Judged
      <4>. QED
        BY <4>2, <4>3, Zenon
    <3>. QED
      BY <3>2, <3>3, Zenon
  <2>. QED
    BY <2>1, <2>2, <2>3, Zenon
<1>. QED
  BY <1>10, <1>12, Zenon DEF t

-----------------------------------------------------------------------------
(* What the end of an epoch decides.                                       *)

\* The quarters are the broker's.
LEMMA Quarters ==
    ASSUME NEW n \in 1 .. CapMax
    PROVE  /\ n > 1 => Decreased(n) = Broker!Decreased(n)
           /\ n = 1 => n = Broker!Decreased(n)
           /\ Increased(n) = Broker!Increased(n)
<1>1. CapMax \in Nat /\ n \in Nat
  BY LearningConstants
<1>2. /\ n > 1 => Decreased(n) = Broker!Decreased(n)
      /\ n = 1 => n = Broker!Decreased(n)
  BY <1>1 DEF Decreased, Broker!Decreased, Larger, Smaller
<1>3. Increased(n) = Broker!Increased(n)
  BY <1>1 DEF Increased, Broker!Increased, Larger, Smaller, CeilDiv
<1>. QED
  BY <1>2, <1>3

\* The capacity that an epoch leaves.
Lesson(s, eligible, underused, value) ==
    LET grows == /\ eligible /\ ~s.pendingDecrease /\ ~s.paused /\ underused
                 /\ s.cap = NoCap \/ s.cap > s.learned
    IN  /\ eligible /\ s.pendingDecrease => value = Broker!Decreased(s.learned)
        /\ grows => value = Broker!Increased(s.learned)
        /\ ~(eligible /\ s.pendingDecrease) /\ ~grows => value = s.learned

\* finish_epoch between s and t.
EpochDecides(s, t) ==
    /\ t.memoryEmergency = s.memoryEmergency
    /\ \/ /\ s.epochAge = NotStarted \/ Busy(s)
          /\ t.paused = s.paused /\ t.pendingDecrease = s.pendingDecrease
          /\ t.learned = s.learned /\ t.epochRuns = s.epochRuns
          /\ t.epochAge = NotStarted <=> s.epochAge = NotStarted
       \/ /\ s.epochAge # NotStarted
          /\ \E eligible, underused \in BOOLEAN :
                /\ Busy(s) => eligible
                /\ eligible => ~(s.epochRuns \subseteq RegisteredIn(s)) \/ Active(s) # {}
                /\ Lesson(s, eligible, underused, t.learned)
          /\ t.epochAge # NotStarted <=> Busy(s)
          /\ t.epochRuns = IF Busy(s) THEN s.epochRuns \cap RegisteredIn(s) ELSE {}
          /\ t.paused = IF Busy(s) THEN s.paused ELSE s.memoryEmergency
          /\ ~t.pendingDecrease

\* What an eligible epoch teaches is one of the lessons.
LEMMA AdjustedIsLesson ==
    ASSUME NEW s \in States
    PROVE  /\ \E underused \in BOOLEAN : Lesson(s, TRUE, underused, Adjusted(s))
           /\ Lesson(s, FALSE, FALSE, s.learned)
<1>. DEFINE n == Total(s)
            complete == n > 0 /\ Count(s, LAMBDA k : Missing \in {k[1][1], k[1][2]}) = 0
            saturated == 2 * Count(s, LAMBDA k : k[2]) >= n
            idle == P95Below(s, LAMBDA k : k[1][1], 90) /\ P95Below(s, LAMBDA k : k[1][2], 90)
            room == s.cap = NoCap \/ s.cap > s.learned
<1>1. Adjusted(s) = CASE s.pendingDecrease /\ s.learned > 1 -> Decreased(s.learned)
                      [] /\ ~s.pendingDecrease /\ ~s.paused /\ complete /\ saturated /\ room
                         /\ P95Below(s, LAMBDA k : k[1][1], 90) /\ P95Below(s, LAMBDA k : k[1][2], 90) ->
                            Increased(s.learned)
                      [] OTHER -> s.learned
  BY Zenon DEF Adjusted
<1>2. PICK underused \in BOOLEAN : underused <=> complete /\ saturated /\ idle
  BY Zenon
<1>. HIDE DEF complete, saturated, n
<1>3. s.learned \in 1 .. CapMax /\ s.pendingDecrease \in BOOLEAN /\ s.paused \in BOOLEAN
  BY DEF States
<1>4. /\ s.learned > 1 => Decreased(s.learned) = Broker!Decreased(s.learned)
      /\ s.learned = 1 => s.learned = Broker!Decreased(s.learned)
      /\ Increased(s.learned) = Broker!Increased(s.learned)
  BY <1>3, Quarters, Zenon
<1>5. s.learned > 1 \/ s.learned = 1
  BY <1>3
<1>6. /\ s.pendingDecrease /\ s.learned > 1 => Adjusted(s) = Decreased(s.learned)
      /\ s.pendingDecrease /\ ~(s.learned > 1) => Adjusted(s) = s.learned
      /\ ~s.pendingDecrease /\ ~s.paused /\ underused /\ room => Adjusted(s) = Increased(s.learned)
      /\ ~s.pendingDecrease /\ ~(~s.paused /\ underused /\ room) => Adjusted(s) = s.learned
  BY <1>1, <1>2
<1>. HIDE DEF idle
<1>7. Lesson(s, TRUE, underused, Adjusted(s))
  BY <1>3, <1>4, <1>5, <1>6, Zenon DEF Lesson
<1>8. Lesson(s, FALSE, FALSE, s.learned)
  BY Zenon DEF Lesson
<1>. QED
  BY <1>7, <1>8, Zenon

\* finish_epoch decides as it may.
LEMMA FinishDecides ==
    ASSUME NEW s \in States, Lasting(s)
    PROVE  EpochDecides(s, FinishEpoch(s))
<1>. DEFINE n == IF Eligible(s) THEN Adjusted(s) ELSE s.learned
            learnt == [s EXCEPT !.learned = n]
            ended == IF Busy(s) THEN EndsLive(learnt) ELSE EndsIdle(learnt)
            t == [ended EXCEPT !.samples = NoSamples, !.longest = 0, !.pendingDecrease = FALSE,
                               !.epochMemoryEmergency = FALSE]
<1>1. FinishEpoch(s) = IF s.epochAge = NotStarted \/ (Busy(s) /\ ~Eligible(s)) THEN s ELSE t
  BY Zenon DEF FinishEpoch
<1>2. n \in 1 .. CapMax
  BY Adjusts DEF States
<1>3. \E underused \in BOOLEAN : Lesson(s, Eligible(s), underused, n)
  <2>1. CASE Eligible(s)
    <3>1. Eligible(s) = TRUE /\ n = Adjusted(s)
      BY <2>1 DEF Eligible
    <3>. HIDE DEF n
    <3>. QED
      BY <2>1, <3>1, AdjustedIsLesson, Zenon DEF Lesson
  <2>2. CASE ~Eligible(s)
    <3>1. n = s.learned
      BY <2>2
    <3>. HIDE DEF n
    <3>. QED
      BY <2>2, <3>1, AdjustedIsLesson, Zenon DEF Lesson
  <2>. QED
    BY <2>1, <2>2, Zenon
<1>4. Eligible(s) => ~(s.epochRuns \subseteq RegisteredIn(s)) \/ Active(s) # {}
  <2>. SUFFICES ASSUME Eligible(s), Active(s) = {}
                PROVE  ~(s.epochRuns \subseteq RegisteredIn(s))
    BY Zenon
  <2>1. s.longest >= Minimum
    BY Zenon DEF Eligible
  <2>2. s.longest # 0
    BY <2>1, LearningConstants DEF States
  <2>3. PICK r \in s.epochRuns : s.run[r] = "ended"
    BY <2>2, Zenon DEF Lasting
  <2>. QED
    BY <2>3 DEF RegisteredIn
<1>. HIDE DEF n
<1>5. /\ learnt \in States /\ learnt.run = s.run /\ learnt.epochRuns = s.epochRuns
      /\ learnt.learned = n /\ SameMode(s, learnt)
  <2>1. learnt \in States /\ SameMode(s, learnt)
    BY <1>2, Learns, Zenon
  <2>2. learnt.run = s.run /\ learnt.epochRuns = s.epochRuns /\ learnt.learned = n
    BY DEF States
  <2>. QED
    BY <2>1, <2>2, Zenon
<1>. HIDE DEF learnt
<1>6. RegisteredIn(learnt) = RegisteredIn(s)
  BY <1>5, Zenon DEF RegisteredIn
<1>7. /\ ended \in States /\ ended.learned = n /\ ended.memoryEmergency = s.memoryEmergency
      /\ ended.epochAge # NotStarted <=> Busy(s)
      /\ ended.epochRuns = IF Busy(s) THEN s.epochRuns \cap RegisteredIn(s) ELSE {}
      /\ ended.paused = IF Busy(s) THEN s.paused ELSE s.memoryEmergency
  <2>1. CASE Busy(s)
    <3>1. ended = EndsLive(learnt)
      BY <2>1
    <3>. HIDE DEF ended
    <3>2. ended \in States /\ SameMode(learnt, ended) /\ ended.epochAge = 0
      BY <1>5, <3>1, LiveEnds, Zenon
    <3>3. ended.learned = learnt.learned /\ ended.epochRuns = learnt.epochRuns \cap RegisteredIn(learnt)
      BY <1>5, <3>1 DEF EndsLive, States
    <3>4. ended.epochAge # NotStarted
      BY <3>2 DEF NotStarted
    <3>5. ended.memoryEmergency = s.memoryEmergency /\ ended.paused = s.paused
      BY <1>5, <3>2, Zenon DEF SameMode
    <3>6. ended.learned = n /\ ended.epochRuns = s.epochRuns \cap RegisteredIn(s)
      BY <1>5, <1>6, <3>3, Zenon
    <3>. QED
      BY <2>1, <3>2, <3>4, <3>5, <3>6
  <2>2. CASE ~Busy(s)
    <3>1. ended = EndsIdle(learnt)
      BY <2>2
    <3>. HIDE DEF ended
    <3>2. /\ ended \in States /\ ended.epochAge = NotStarted
          /\ ended.memoryEmergency = learnt.memoryEmergency
          /\ ended.paused = learnt.memoryEmergency
      BY <1>5, <3>1, IdleEnds
    <3>3. ended.learned = learnt.learned /\ ended.epochRuns = {}
      BY <1>5, <3>1 DEF EndsIdle, States
    <3>4. learnt.memoryEmergency = s.memoryEmergency
      BY <1>5, Zenon DEF SameMode
    <3>. QED
      BY <1>5, <2>2, <3>2, <3>3, <3>4
  <2>. QED
    BY <2>1, <2>2, Zenon
<1>. HIDE DEF ended
<1>8. /\ t.learned = ended.learned /\ t.memoryEmergency = ended.memoryEmergency
      /\ t.epochAge = ended.epochAge /\ t.epochRuns = ended.epochRuns
      /\ t.paused = ended.paused /\ ~t.pendingDecrease
  BY <1>7 DEF States
<1>. HIDE DEF t
<1>9. CASE s.epochAge = NotStarted \/ (Busy(s) /\ ~Eligible(s))
  <2>1. FinishEpoch(s) = s
    BY <1>1, <1>9, Zenon
  <2>. QED
    BY <1>9, <2>1, Zenon DEF EpochDecides
<1>10. CASE ~(s.epochAge = NotStarted \/ (Busy(s) /\ ~Eligible(s)))
  <2>1. FinishEpoch(s) = t
    BY <1>1, <1>10, Zenon
  <2>2. /\ t.memoryEmergency = s.memoryEmergency /\ t.learned = n
        /\ t.epochAge # NotStarted <=> Busy(s)
        /\ t.epochRuns = IF Busy(s) THEN s.epochRuns \cap RegisteredIn(s) ELSE {}
        /\ t.paused = IF Busy(s) THEN s.paused ELSE s.memoryEmergency
        /\ ~t.pendingDecrease
    BY <1>7, <1>8
  <2>3. Eligible(s) \in BOOLEAN /\ (Busy(s) => Eligible(s)) /\ s.epochAge # NotStarted
    BY <1>10, Zenon DEF Eligible
  <2>4. \E eligible, underused \in BOOLEAN :
           /\ Busy(s) => eligible
           /\ eligible => ~(s.epochRuns \subseteq RegisteredIn(s)) \/ Active(s) # {}
           /\ Lesson(s, eligible, underused, t.learned)
    <3>1. PICK underused \in BOOLEAN : Lesson(s, Eligible(s), underused, n)
      BY <1>3, Zenon
    <3>2. Lesson(s, Eligible(s), underused, t.learned)
      BY <2>2, <3>1, Zenon
    <3>. QED
      BY <1>4, <2>3, <3>2, Zenon
  <2>5. EpochDecides(s, t)
    BY <2>2, <2>3, <2>4, Zenon DEF EpochDecides
  <2>. QED
    BY <2>1, <2>5, Zenon
<1>. QED
  BY <1>9, <1>10, Zenon

\* What grant_ready leaves of what was decided.
SameDecision(s, t) ==
    /\ t.learned = s.learned /\ t.epochRuns = s.epochRuns /\ t.epochAge = s.epochAge
    /\ SamePause(s, t)

\* The broker that this module abstracts to may decide what finish_epoch
\* decides in s, if it knows of the same permits, queues and runs.
LEMMA Abstracts ==
    ASSUME NEW s \in States, NEW t, EpochDecides(s, t), SameDecision(t, state'), state' \in States,
           state.learned = s.learned, state.cap = s.cap, state.epochRuns = s.epochRuns,
           state.epochAge = NotStarted <=> s.epochAge = NotStarted,
           NEW permits, permits = Active(s),
           NEW waiting \in BOOLEAN, waiting <=> Queued(s) # {},
           NEW registered, registered = RegisteredIn(s),
           NEW pause, pause = s.paused, NEW emergency, emergency = s.memoryEmergency,
           NEW decrease, decrease = s.pendingDecrease
    PROVE  Broker!FinishEpoch(permits, waiting, registered, pause, emergency, decrease)
<1>. DEFINE busy == permits # {} \/ waiting \/ state.epochRuns \cap registered # {}
<1>1. busy <=> Busy(s)
  BY Zenon DEF Busy
<1>2. /\ state'.learned = t.learned /\ state'.epochRuns = t.epochRuns /\ state'.epochAge = t.epochAge
      /\ state'.paused = t.paused /\ state'.memoryEmergency = t.memoryEmergency
      /\ state'.pendingDecrease = t.pendingDecrease
  BY Zenon DEF SameDecision, SamePause
<1>3. state'.memoryEmergency = emergency
  BY <1>2, Zenon DEF EpochDecides
<1>4. \/ /\ state.epochAge = NotStarted \/ busy
         /\ state'.paused = pause /\ state'.pendingDecrease = decrease
         /\ state'.learned = state.learned /\ state'.epochRuns = state.epochRuns
         /\ state'.epochAge # NotStarted <=> state.epochAge # NotStarted
      \/ /\ state.epochAge # NotStarted
         /\ \E eligible, underused \in BOOLEAN :
               /\ busy => eligible
               /\ eligible => ~(state.epochRuns \subseteq registered) \/ permits # {}
               /\ Lesson(s, eligible, underused, state'.learned)
         /\ state'.epochAge # NotStarted <=> busy
         /\ state'.epochRuns = IF busy THEN state.epochRuns \cap registered ELSE {}
         /\ state'.paused = IF busy THEN pause ELSE emergency
         /\ ~state'.pendingDecrease
  BY <1>1, <1>2, Zenon DEF EpochDecides
<1>. HIDE DEF busy
<1>5. ASSUME NEW eligible \in BOOLEAN, NEW underused \in BOOLEAN,
             Lesson(s, eligible, underused, state'.learned)
      PROVE  state'.learned = CASE eligible /\ decrease -> Broker!Decreased(state.learned)
                                [] /\ eligible /\ ~decrease /\ ~pause /\ underused
                                   /\ state.cap = Broker!NoCap \/ state.cap > state.learned ->
                                      Broker!Increased(state.learned)
                                [] OTHER -> state.learned
  BY <1>5 DEF Lesson, NoCap, Broker!NoCap
<1>6. state'.pendingDecrease \in BOOLEAN
  BY DEF States
<1>7. \/ /\ ~(state.epochAge # NotStarted) \/ busy
         /\ state'.paused = pause /\ state'.pendingDecrease = decrease
         /\ state'.learned = state.learned /\ state'.epochRuns = state.epochRuns
         /\ (state'.epochAge # NotStarted) = (state.epochAge # NotStarted)
      \/ /\ state.epochAge # NotStarted
         /\ \E eligible, underused \in BOOLEAN :
               /\ busy => eligible
               /\ eligible => ~(state.epochRuns \subseteq registered) \/ permits # {}
               /\ state'.learned = CASE eligible /\ decrease -> Broker!Decreased(state.learned)
                                     [] /\ eligible /\ ~decrease /\ ~pause /\ underused
                                        /\ state.cap = Broker!NoCap \/ state.cap > state.learned ->
                                           Broker!Increased(state.learned)
                                     [] OTHER -> state.learned
         /\ (state'.epochAge # NotStarted) = busy
         /\ state'.epochRuns = IF busy THEN state.epochRuns \cap registered ELSE {}
         /\ state'.paused = IF busy THEN pause ELSE emergency
         /\ state'.pendingDecrease = FALSE
  <2>1. CASE /\ state.epochAge = NotStarted \/ busy
             /\ state'.paused = pause /\ state'.pendingDecrease = decrease
             /\ state'.learned = state.learned /\ state'.epochRuns = state.epochRuns
             /\ state'.epochAge # NotStarted <=> state.epochAge # NotStarted
    BY <2>1
  <2>2. CASE /\ state.epochAge # NotStarted
             /\ \E eligible, underused \in BOOLEAN :
                   /\ busy => eligible
                   /\ eligible => ~(state.epochRuns \subseteq registered) \/ permits # {}
                   /\ Lesson(s, eligible, underused, state'.learned)
             /\ state'.epochAge # NotStarted <=> busy
             /\ state'.epochRuns = IF busy THEN state.epochRuns \cap registered ELSE {}
             /\ state'.paused = IF busy THEN pause ELSE emergency
             /\ ~state'.pendingDecrease
    <3>1. state'.pendingDecrease = FALSE
      BY <1>6, <2>2
    <3>2. (state'.epochAge # NotStarted) = busy
      BY <2>2 DEF busy
    <3>3. PICK eligible \in BOOLEAN, underused \in BOOLEAN :
               /\ busy => eligible
               /\ eligible => ~(state.epochRuns \subseteq registered) \/ permits # {}
               /\ Lesson(s, eligible, underused, state'.learned)
      BY <2>2, Zenon
    <3>. QED
      BY <1>5, <2>2, <3>1, <3>2, <3>3, Zenon
  <2>. QED
    BY <1>4, <2>1, <2>2, Zenon
<1>. QED
  BY <1>3, <1>7, Zenon DEF Broker!FinishEpoch, busy

\* finish_epoch touches neither the demands nor the registrations.
LEMMA FinishKeeps ==
    ASSUME NEW s \in States
    PROVE  FinishEpoch(s).demand = s.demand /\ FinishEpoch(s).run = s.run
<1>. DEFINE n == IF Eligible(s) THEN Adjusted(s) ELSE s.learned
            learnt == [s EXCEPT !.learned = n]
            ended == IF Busy(s) THEN EndsLive(learnt) ELSE EndsIdle(learnt)
            t == [ended EXCEPT !.samples = NoSamples, !.longest = 0, !.pendingDecrease = FALSE,
                               !.epochMemoryEmergency = FALSE]
<1>1. FinishEpoch(s) = s \/ FinishEpoch(s) = t
  BY Zenon DEF FinishEpoch
<1>2. n \in 1 .. CapMax
  BY Adjusts DEF States
<1>. HIDE DEF n
<1>3. learnt \in States /\ learnt.demand = s.demand /\ learnt.run = s.run
  <2>1. learnt \in States
    BY <1>2, Learns, Zenon
  <2>2. learnt.demand = s.demand /\ learnt.run = s.run
    BY DEF States
  <2>. QED
    BY <2>1, <2>2, Zenon
<1>. HIDE DEF learnt
<1>4. EndsLive(learnt) \in States /\ EndsIdle(learnt) \in States
  BY <1>3, LiveEnds, IdleEnds, Zenon
<1>5. /\ EndsLive(learnt).demand = s.demand /\ EndsLive(learnt).run = s.run
      /\ EndsIdle(learnt).demand = s.demand /\ EndsIdle(learnt).run = s.run
  BY <1>3 DEF EndsLive, EndsIdle, States
<1>6. ended \in States /\ ended.demand = s.demand /\ ended.run = s.run
  BY <1>4, <1>5, Zenon
<1>. HIDE DEF ended
<1>7. t.demand = s.demand /\ t.run = s.run
  BY <1>6 DEF States
<1>. HIDE DEF t
<1>. QED
  BY <1>1, <1>7, Zenon

\* Another demand is about the same runs.
LEMMA DemandKeepsRuns ==
    ASSUME NEW s \in States, NEW r \in Runs, NEW d \in {"none", "waiting", "active"}, NEW t,
           t = [s EXCEPT !.demand[r] = d]
    PROVE  SameRuns(s, t) /\ SamePause(s, t)
BY DEF States, SameRuns, SamePause

\* grant_ready decides nothing.
LEMMA GrantsDecideNothing ==
    ASSUME NEW s \in States, NEW t \in GrantReady(s)
    PROVE  SameDecision(s, t) /\ t.cap = s.cap /\ t.run = s.run
BY Grants, Zenon DEF SameDecision, SamePause, SameMode

\* register_run, before the run is in an epoch.
LEMMA RegisterLasts ==
    ASSUME LearningInv, Lasting(state), NEW r \in Runs, RegisterRun(r)
    PROVE  Lasting(state')
<1>0. state \in States
  BY Zenon DEF LearningInv, LearningTypeOK
<1>1. state' = [state EXCEPT !.run[r] = "registered"] /\ state.run[r] = "new"
  BY Zenon DEF RegisterRun
<1>2. /\ state'.epochRuns = state.epochRuns /\ state'.longest = state.longest
      /\ state'.epochAge = state.epochAge /\ state'.runAge = state.runAge
      /\ \A q \in Runs : state'.run[q] = IF q = r THEN "registered" ELSE state.run[q]
  BY <1>0, <1>1 DEF States
<1>3. state.epochRuns \subseteq Runs
  BY <1>0, Zenon DEF States
<1>. QED
  BY <1>1, <1>2, <1>3 DEF Lasting

\* enqueue, which times the run.
LEMMA EnqueueLasts ==
    ASSUME LearningInv, Lasting(state), NEW r \in Runs, Enqueue(r)
    PROVE  Lasting(state')
<1>. DEFINE s == [state EXCEPT !.demand[r] = "waiting"]
            e == IF s.epochAge = NotStarted
                 THEN [s EXCEPT !.epochAge = 0, !.samples = NoSamples, !.longest = 0,
                                !.pendingDecrease = FALSE, !.epochMemoryEmergency = FALSE,
                                !.epochRuns = {}]
                 ELSE s
            t == [e EXCEPT !.epochRuns = @ \cup {r},
                           !.runAge[r] = IF @ = NotStarted THEN 0 ELSE @]
<1>0. state \in States
  BY Zenon DEF LearningInv, LearningTypeOK
<1>1. state' \in GrantReady(StartEpoch(s, r)) /\ state.run[r] = "registered"
  BY Zenon DEF Enqueue
<1>2. s \in States /\ SameRuns(state, s)
  BY <1>0, Redemands, DemandKeepsRuns, Zenon
<1>3. Lasting(s) /\ s.run[r] = "registered"
  BY <1>1, <1>2, LastingStays, Zenon DEF SameRuns
<1>. HIDE DEF s
<1>4. StartEpoch(s, r) = t /\ StartEpoch(s, r) \in States
  BY <1>2, Starts, Zenon DEF StartEpoch
<1>5. /\ e.run = s.run /\ e.runAge = s.runAge /\ e.epochAge # NotStarted
      /\ \/ s.epochAge = NotStarted /\ e.longest = 0 /\ e.epochRuns = {}
         \/ e.longest = s.longest /\ e.epochRuns = s.epochRuns
      /\ e \in States
  <2>1. CASE s.epochAge = NotStarted
    <3>1. e = [s EXCEPT !.epochAge = 0, !.samples = NoSamples, !.longest = 0,
                        !.pendingDecrease = FALSE, !.epochMemoryEmergency = FALSE,
                        !.epochRuns = {}]
      BY <2>1
    <3>. HIDE DEF e
    <3>2. /\ 0 \in Ages /\ 0 \in 0 .. Minimum /\ NoSamples \in Samplings /\ 0 # NotStarted
      BY LearningConstants DEF Ages, NoSamples, Samplings, NotStarted
    <3>3. e \in States
      BY <1>2, <3>1, <3>2, Zenon DEF States
    <3>4. e.run = s.run /\ e.runAge = s.runAge /\ e.epochAge = 0 /\ e.longest = 0 /\ e.epochRuns = {}
      BY <1>2, <3>1 DEF States
    <3>. QED
      BY <2>1, <3>2, <3>3, <3>4, Zenon
  <2>2. CASE s.epochAge # NotStarted
    <3>1. e = s
      BY <2>2
    <3>. HIDE DEF e
    <3>. QED
      BY <1>2, <2>2, <3>1, Zenon
  <2>. QED
    BY <2>1, <2>2, Zenon
<1>6. /\ \A q \in Runs : e.runAge[q] # NotStarted => q \in e.epochRuns /\ e.run[q] = "registered"
      /\ \A q \in e.epochRuns : e.run[q] # "new"
      /\ e.longest # 0 => \E q \in e.epochRuns : e.run[q] = "ended"
  BY <1>3, <1>5, Zenon DEF Lasting
<1>. HIDE DEF e
<1>7. /\ t.run = e.run /\ t.longest = e.longest /\ t.epochAge = e.epochAge
      /\ t.epochRuns = e.epochRuns \cup {r}
      /\ \A q \in Runs : q # r => t.runAge[q] = e.runAge[q]
  BY <1>5 DEF States
<1>. HIDE DEF t
<1>8. Lasting(t)
  BY <1>3, <1>5, <1>6, <1>7 DEF Lasting
<1>. QED
  BY <1>1, <1>4, <1>8, RunsStay, LastingStays, Zenon

\* set_cap.
LEMMA SetCapLasts ==
    ASSUME LearningInv, Lasting(state), NEW c \in Caps, SetCap(c)
    PROVE  Lasting(state')
<1>. DEFINE s == [state EXCEPT !.cap = c]
<1>0. state \in States /\ c \in 0 .. CapMax
  BY LearningConstants, Zenon DEF LearningInv, LearningTypeOK
<1>1. state' \in GrantReady(s)
  BY Zenon DEF SetCap
<1>2. s \in States
  BY <1>0, Zenon DEF States
<1>3. SameRuns(state, s)
  BY <1>0 DEF States, SameRuns
<1>. HIDE DEF s
<1>4. Lasting(s)
  BY <1>3, LastingStays, Zenon
<1>. QED
  BY <1>1, <1>2, <1>4, RunsStay, LastingStays, Zenon

\* A run that gives its permit back stays registered, so its time goes on.
LEMMA LeaveKeepsTime ==
    ASSUME NEW s \in States, Lasting(s), NEW r \in Runs
    PROVE  FinishRun(s, r) = s
BY Zenon DEF FinishRun, Lasting

\* release and cancel_pending.
LEMMA LeaveDecides ==
    ASSUME LearningInv, Lasting(state), NEW r \in Runs, Leave(r)
    PROVE  /\ Lasting(state')
           /\ Broker!FinishEpoch(Active(state'), Queued(state') # {}, RegisteredIn(state),
                                 state.paused, state.memoryEmergency, state.pendingDecrease)
<1>. DEFINE s == [state EXCEPT !.demand[r] = "none"]
<1>0. state \in States
  BY Zenon DEF LearningInv, LearningTypeOK
<1>1. PICK g \in GrantReady(FinishRun(s, r)) : state' = FinishEpoch(g)
  BY Zenon DEF Leave
<1>2. s \in States /\ SameRuns(state, s) /\ SamePause(state, s) /\ s.learned = state.learned
      /\ s.cap = state.cap /\ s.epochAge = state.epochAge
  <2>1. s \in States /\ SameRuns(state, s) /\ SamePause(state, s)
    BY <1>0, Redemands, DemandKeepsRuns, Zenon
  <2>2. s.learned = state.learned /\ s.cap = state.cap /\ s.epochAge = state.epochAge
    BY <1>0 DEF States
  <2>. QED
    BY <2>1, <2>2
<1>. HIDE DEF s
<1>3. Lasting(s)
  BY <1>2, LastingStays, Zenon
<1>4. g \in GrantReady(s)
  BY <1>1, <1>2, <1>3, LeaveKeepsTime, Zenon
<1>5. g \in States /\ SameRuns(s, g) /\ SameDecision(s, g) /\ g.cap = s.cap
  BY <1>2, <1>4, Grants, RunsStay, GrantsDecideNothing, Zenon
<1>6. Lasting(g)
  BY <1>3, <1>5, LastingStays, Zenon
<1>7. Lasting(state')
  BY <1>1, <1>5, <1>6, LastingFinishes, Zenon
<1>8. EpochDecides(g, state') /\ SameDecision(state', state') /\ state' \in States
  <2>1. EpochDecides(g, state') /\ state' \in States
    BY <1>1, <1>5, <1>6, FinishDecides, EpochFinishes, Zenon
  <2>. QED
    BY <2>1, Zenon DEF SameDecision, SamePause
<1>9. state'.demand = g.demand /\ g.run = state.run
  BY <1>1, <1>2, <1>5, FinishKeeps, Zenon DEF SameRuns
<1>10. /\ Active(state') = Active(g) /\ Queued(state') = Queued(g)
       /\ RegisteredIn(state) = RegisteredIn(g)
  BY <1>9, Zenon DEF Active, Queued, RegisteredIn
<1>11. /\ state.learned = g.learned /\ state.cap = g.cap /\ state.epochRuns = g.epochRuns
       /\ state.epochAge = NotStarted <=> g.epochAge = NotStarted
       /\ state.paused = g.paused /\ state.memoryEmergency = g.memoryEmergency
       /\ state.pendingDecrease = g.pendingDecrease
  BY <1>2, <1>5, Zenon DEF SameRuns, SamePause, SameDecision
<1>12. (Queued(state') # {}) \in BOOLEAN /\ (Queued(state') # {} <=> Queued(g) # {})
  BY <1>10
<1>13. Broker!FinishEpoch(Active(state'), Queued(state') # {}, RegisteredIn(state),
                          state.paused, state.memoryEmergency, state.pendingDecrease)
  BY <1>5, <1>8, <1>10, <1>11, <1>12, Abstracts, Zenon
<1>. QED
  BY <1>7, <1>13

\* unregister_run: the run that ends is evidence of the epoch.
LEMMA UnregisterDecides ==
    ASSUME LearningInv, Lasting(state), NEW r \in Runs, UnregisterRun(r)
    PROVE  /\ Lasting(state')
           /\ Broker!FinishEpoch(Active(state) \ {r}, Queued(state) \ {r} # {},
                                 RegisteredIn(state) \ {r}, state.paused,
                                 state.memoryEmergency, state.pendingDecrease)
<1>. DEFINE s == [state EXCEPT !.run[r] = "ended", !.demand[r] = "none"]
            f == FinishRun(s, r)
            e == FinishEpoch(f)
<1>0. state \in States
  BY Zenon DEF LearningInv, LearningTypeOK
<1>1. state' \in GrantReady(e) /\ state.run[r] = "registered"
  BY Zenon DEF UnregisterRun
<1>2. s \in States
  BY <1>0, Zenon DEF States
<1>3. /\ SamePause(state, s) /\ s.learned = state.learned /\ s.cap = state.cap
      /\ s.epochAge = state.epochAge /\ s.epochRuns = state.epochRuns
      /\ s.runAge = state.runAge /\ s.longest = state.longest
      /\ \A q \in Runs : s.run[q] = IF q = r THEN "ended" ELSE state.run[q]
      /\ \A q \in Runs : s.demand[q] = IF q = r THEN "none" ELSE state.demand[q]
  BY <1>0 DEF States, SamePause
<1>. HIDE DEF s
<1>4. /\ f \in States /\ SamePause(s, f) /\ f.learned = s.learned /\ f.cap = s.cap
      /\ f.epochAge = s.epochAge /\ f.epochRuns = s.epochRuns
      /\ f.run = s.run /\ f.demand = s.demand
      /\ \A q \in Runs : q # r => f.runAge[q] = s.runAge[q]
      /\ f.runAge[r] = NotStarted
      /\ f.longest = s.longest \/ s.runAge[r] # NotStarted
  <2>1. f \in States
    BY <1>2, RunFinishes, Zenon
  <2>2. s.demand[r] = "none" /\ s.run[r] = "ended"
    BY <1>3, Zenon
  <2>3. f = IF s.runAge[r] = NotStarted THEN s
            ELSE [s EXCEPT !.longest = Larger(@, s.runAge[r]), !.runAge[r] = NotStarted]
    BY <2>2 DEF FinishRun
  <2>. HIDE DEF f
  <2>4. CASE s.runAge[r] = NotStarted
    <3>1. f = s
      BY <2>3, <2>4, Zenon
    <3>. QED
      BY <1>2, <2>4, <3>1, Zenon DEF SamePause
  <2>5. CASE s.runAge[r] # NotStarted
    <3>1. PICK x : f = [s EXCEPT !.longest = x, !.runAge[r] = NotStarted]
      BY <2>3, <2>5, Zenon
    <3>. QED
      BY <1>2, <2>1, <2>5, <3>1 DEF States, SamePause
  <2>. QED
    BY <2>4, <2>5, Zenon
<1>. HIDE DEF f
<1>5. Lasting(f)
  <2>1. /\ \A q \in Runs : state.runAge[q] # NotStarted => q \in state.epochRuns /\ state.run[q] = "registered"
        /\ \A q \in state.epochRuns : state.run[q] # "new"
        /\ state.longest # 0 => \E q \in state.epochRuns : state.run[q] = "ended"
        /\ state.epochAge = NotStarted => state.epochRuns = {}
    BY Zenon DEF Lasting
  <2>2. state.epochRuns \subseteq Runs
    BY <1>0, Zenon DEF States
  <2>3. \A q \in Runs : f.runAge[q] # NotStarted => q \in f.epochRuns /\ f.run[q] = "registered"
    BY <1>3, <1>4, <2>1
  <2>4. \A q \in f.epochRuns : f.run[q] # "new"
    BY <1>3, <1>4, <2>1, <2>2
  <2>5. f.longest # 0 => \E q \in f.epochRuns : f.run[q] = "ended"
    BY <1>1, <1>3, <1>4, <2>1, <2>2
  <2>6. f.epochAge = NotStarted => f.epochRuns = {}
    BY <1>3, <1>4, <2>1
  <2>. QED
    BY <2>3, <2>4, <2>5, <2>6, Zenon DEF Lasting
<1>6. e \in States /\ EpochDecides(f, e) /\ Lasting(e)
  BY <1>4, <1>5, EpochFinishes, FinishDecides, LastingFinishes, Zenon
<1>. HIDE DEF e
<1>7. state' \in States /\ SameRuns(e, state') /\ SameDecision(e, state')
  BY <1>1, <1>6, Grants, RunsStay, GrantsDecideNothing, Zenon
<1>8. Lasting(state')
  BY <1>6, <1>7, LastingStays, Zenon
<1>9. /\ Active(state) \ {r} = Active(f) /\ RegisteredIn(state) \ {r} = RegisteredIn(f)
      /\ Queued(state) \ {r} = Queued(f)
  BY <1>3, <1>4 DEF Active, Queued, RegisteredIn
<1>10. /\ state.learned = f.learned /\ state.cap = f.cap /\ state.epochRuns = f.epochRuns
       /\ state.epochAge = NotStarted <=> f.epochAge = NotStarted
       /\ state.paused = f.paused /\ state.memoryEmergency = f.memoryEmergency
       /\ state.pendingDecrease = f.pendingDecrease
  BY <1>3, <1>4, Zenon DEF SamePause
<1>11. (Queued(state) \ {r} # {}) \in BOOLEAN /\ (Queued(state) \ {r} # {} <=> Queued(f) # {})
  BY <1>9
<1>12. Broker!FinishEpoch(Active(state) \ {r}, Queued(state) \ {r} # {}, RegisteredIn(state) \ {r},
                          state.paused, state.memoryEmergency, state.pendingDecrease)
  BY <1>4, <1>6, <1>7, <1>9, <1>10, <1>11, Abstracts, Zenon
<1>. QED
  BY <1>8, <1>12

\* The sampling task.
LEMMA SampleDecides ==
    ASSUME LearningInv, Lasting(state), NEW reading \in Readings, Sample(reading)
    PROVE  /\ Lasting(state')
           /\ \E sample \in {"emergency", "pressure", "recovery", "other"} : Broker!Judges(sample)
<1>. DEFINE e == Elapsed(state)
            s == RecordSample(e, reading[1], reading[2])
            t == FinishEpoch(s)
<1>0. state \in States /\ previous \in (-1 .. 100) \X (-1 .. 100)
  BY Zenon DEF LearningInv, LearningTypeOK
<1>1. state' \in GrantReady(t)
  BY Zenon DEF Sample
<1>2. reading[1] \in -1 .. 100 /\ reading[2] \in -1 .. 100 /\ reading = <<reading[1], reading[2]>>
  BY LearningConstants
<1>3. /\ e \in States /\ Like(state, e) /\ SameRuns(state, e)
      /\ e.learned = state.learned /\ e.cap = state.cap /\ e.demand = state.demand
      /\ SamePause(state, e)
  <2>1. e \in States /\ Like(state, e) /\ SameRuns(state, e)
    BY <1>0, Elapses, RunsStay, Zenon DEF Like
  <2>2. /\ e.learned = state.learned /\ e.cap = state.cap /\ e.demand = state.demand
        /\ SamePause(state, e)
    BY <1>0 DEF Elapsed, States, SamePause
  <2>. QED
    BY <2>1, <2>2
<1>. HIDE DEF e
<1>4. s \in States /\ SameWork(e, s) /\ Judged(e, s)
  <2>1. PICK cpu \in -1 .. 100 : cpu = reading[1]
    BY <1>2
  <2>2. PICK memory \in -1 .. 100 : memory = reading[2]
    BY <1>2
  <2>3. s = RecordSample(e, cpu, memory) /\ <<cpu, memory>> = reading
    BY <1>2, <2>1, <2>2, Zenon
  <2>. HIDE DEF s
  <2>4. <<cpu, memory>> \in Readings
    BY <2>3
  <2>5. Watched(e) /\ Streaked(e, previous) /\ e \in States /\ previous \in (-1 .. 100) \X (-1 .. 100)
    BY <1>0, <1>3, LikeCarries, Zenon DEF LearningInv, Carries
  <2>6. s \in States
    BY <2>3, <2>4, <2>5, Records, Zenon
  <2>7. SameWork(e, s) /\ Judged(e, s)
    BY <2>3, <2>4, <2>5, RecordJudges, Zenon
  <2>. QED
    BY <2>6, <2>7
<1>. HIDE DEF s
<1>5. Lasting(s)
  <2>1. Lasting(e)
    BY <1>3, LastingStays, Zenon
  <2>2. SameRuns(e, s)
    BY <1>4, Zenon DEF SameWork, SameRuns
  <2>. QED
    BY <2>1, <2>2, LastingStays, Zenon
<1>6. t \in States /\ EpochDecides(s, t) /\ Lasting(t)
  BY <1>4, <1>5, EpochFinishes, FinishDecides, LastingFinishes, Zenon
<1>. HIDE DEF t
<1>7. state' \in States /\ SameRuns(t, state') /\ SameDecision(t, state')
  BY <1>1, <1>6, Grants, RunsStay, GrantsDecideNothing, Zenon
<1>8. Lasting(state')
  BY <1>6, <1>7, LastingStays, Zenon
<1>9. s.run = state.run /\ s.demand = state.demand
  BY <1>3, <1>4, Zenon DEF SameWork, SameRuns
<1>10. Active(state) = Active(s) /\ Broker!Registered = RegisteredIn(s) /\ Queued(state) = Queued(s)
  BY <1>9, Zenon DEF Active, Queued, RegisteredIn, Broker!Registered
<1>11. Broker!Waiting \in BOOLEAN /\ (Broker!Waiting <=> Queued(s) # {})
  <2>1. Broker!Waiting <=> \E r \in Runs : r \in Queued(state)
    BY DEF Broker!Waiting
  <2>2. Queued(state) \subseteq Runs
    BY Zenon DEF Queued
  <2>3. Broker!Waiting \in BOOLEAN
    BY Zenon DEF Broker!Waiting
  <2>. QED
    BY <1>10, <2>1, <2>2, <2>3, Zenon
<1>12. /\ state.learned = s.learned /\ state.cap = s.cap /\ state.epochRuns = s.epochRuns
       /\ state.epochAge = NotStarted <=> s.epochAge = NotStarted
       /\ e.epochAge = NotStarted <=> state.epochAge = NotStarted
  BY <1>3, <1>4, Zenon DEF SameWork, SameRuns
<1>13. ASSUME NEW pause, pause = s.paused, NEW emergency, emergency = s.memoryEmergency,
              NEW decrease, decrease = s.pendingDecrease
       PROVE  Broker!FinishEpoch(Active(state), Broker!Waiting, Broker!Registered,
                                 pause, emergency, decrease)
  BY <1>4, <1>6, <1>7, <1>10, <1>11, <1>12, <1>13, Abstracts, Zenon
<1>14. /\ e.paused = state.paused /\ e.memoryEmergency = state.memoryEmergency
       /\ e.pendingDecrease = state.pendingDecrease
       /\ state.paused \in BOOLEAN /\ state.memoryEmergency \in BOOLEAN /\ state.pendingDecrease \in BOOLEAN
       /\ s.paused \in BOOLEAN /\ s.memoryEmergency \in BOOLEAN /\ s.pendingDecrease \in BOOLEAN
  BY <1>0, <1>3, <1>4 DEF States, SamePause
<1>15. \E sample \in {"emergency", "pressure", "recovery", "other"} : Broker!Judges(sample)
  <2>1. CASE SamePause(e, s)
    <3>1. /\ state.paused = s.paused /\ state.memoryEmergency = s.memoryEmergency
          /\ (state.pendingDecrease \/ "other" \in {"emergency", "pressure"}) = s.pendingDecrease
      BY <1>14, <2>1 DEF SamePause
    <3>2. Broker!FinishEpoch(Active(state), Broker!Waiting, Broker!Registered, state.paused,
                             state.memoryEmergency,
                             state.pendingDecrease \/ "other" \in {"emergency", "pressure"})
      BY <1>13, <3>1, Zenon
    <3>3. Broker!Judges("other")
      BY <3>2 DEF Broker!Judges
    <3>. QED
      BY <3>3, Zenon
  <2>2. CASE s.paused /\ s.memoryEmergency /\ s.pendingDecrease
    <3>1. /\ TRUE = s.paused /\ TRUE = s.memoryEmergency
          /\ (state.pendingDecrease \/ "emergency" \in {"emergency", "pressure"}) = s.pendingDecrease
      BY <1>14, <2>2, Zenon
    <3>2. Broker!FinishEpoch(Active(state), Broker!Waiting, Broker!Registered, TRUE, TRUE,
                             state.pendingDecrease \/ "emergency" \in {"emergency", "pressure"})
      BY <1>13, <3>1, Zenon
    <3>3. Broker!Judges("emergency")
      BY <3>2, Zenon DEF Broker!Judges
    <3>. QED
      BY <3>3, Zenon
  <2>3. CASE /\ e.epochAge # NotStarted \/ e.memoryEmergency
             /\ s.paused /\ s.memoryEmergency = e.memoryEmergency /\ s.pendingDecrease
    <3>1. /\ TRUE = s.paused /\ state.memoryEmergency = s.memoryEmergency
          /\ (state.pendingDecrease \/ "pressure" \in {"emergency", "pressure"}) = s.pendingDecrease
          /\ state.epochAge # NotStarted \/ state.memoryEmergency
      BY <1>12, <1>14, <2>3, Zenon
    <3>2. Broker!FinishEpoch(Active(state), Broker!Waiting, Broker!Registered, TRUE,
                             state.memoryEmergency,
                             state.pendingDecrease \/ "pressure" \in {"emergency", "pressure"})
      BY <1>13, <3>1, Zenon
    <3>3. Broker!Judges("pressure")
      BY <3>1, <3>2, Zenon DEF Broker!Judges
    <3>. QED
      BY <3>3, Zenon
  <2>4. CASE /\ e.epochAge # NotStarted \/ e.memoryEmergency
             /\ e.paused /\ ~s.paused /\ ~s.memoryEmergency /\ s.pendingDecrease = e.pendingDecrease
    <3>1. /\ FALSE = s.paused /\ FALSE = s.memoryEmergency
          /\ (state.pendingDecrease \/ "recovery" \in {"emergency", "pressure"}) = s.pendingDecrease
          /\ state.paused /\ (state.epochAge # NotStarted \/ state.memoryEmergency)
      BY <1>12, <1>14, <2>4
    <3>2. Broker!FinishEpoch(Active(state), Broker!Waiting, Broker!Registered, FALSE, FALSE,
                             state.pendingDecrease \/ "recovery" \in {"emergency", "pressure"})
      BY <1>13, <3>1, Zenon
    <3>3. Broker!Judges("recovery")
      BY <3>1, <3>2, Zenon DEF Broker!Judges
    <3>. QED
      BY <3>3, Zenon
  <2>. QED
    BY <1>4, <2>1, <2>2, <2>3, <2>4, Zenon DEF Judged
<1>. QED
  BY <1>8, <1>15

\* Nothing has run before the start.
LEMMA LastingInit == LearningInit => Lasting(state)
<1>. SUFFICES ASSUME LearningInit PROVE Lasting(state)
  OBVIOUS
<1>1. /\ state.longest = 0 /\ state.epochRuns = {}
      /\ \A r \in Runs : state.runAge[r] = NotStarted
  BY DEF LearningInit
<1>. QED
  BY <1>1, Zenon DEF Lasting

\* What DecisionsAreAbstracted says of a step.
Allowed ==
    /\ (\E reading \in Readings : Sample(reading)) =>
            \E sample \in {"emergency", "pressure", "recovery", "other"} : Broker!Judges(sample)
    /\ \A r \in Runs : UnregisterRun(r) =>
            Broker!FinishEpoch(Active(state) \ {r}, Queued(state) \ {r} # {},
                               RegisteredIn(state) \ {r}, state.paused, state.memoryEmergency,
                               state.pendingDecrease)
    /\ \A r \in Runs : Leave(r) =>
            Broker!FinishEpoch(Active(state'), Queued(state') # {}, RegisteredIn(state),
                               state.paused, state.memoryEmergency,
                               state.pendingDecrease)

\* Every step keeps the evidence about the runs and decides what it may.
LEMMA DecisionStep ==
    ASSUME LearningInv, Lasting(state), [LearningNext]_learningVars
    PROVE  Lasting(state') /\ [Allowed]_learningVars
<1>1. Allowed
  BY SampleDecides, UnregisterDecides, LeaveDecides, Zenon DEF Allowed
<1>2. Lasting(state')
  <2>1. CASE CalmDown \/ UNCHANGED learningVars
    <3>1. state' = state
      BY <2>1, Zenon DEF CalmDown, learningVars
    <3>. QED
      BY <3>1, Zenon
  <2>. QED
    BY <2>1, RegisterLasts, EnqueueLasts, LeaveDecides, UnregisterDecides, SetCapLasts,
       SampleDecides, Zenon DEF LearningNext
<1>. QED
  BY <1>1, <1>2, Zenon

\* What the streaks, thresholds and percentiles make the broker decide, at a
\* sample, at the end of a run and when a permit is given back, is one of the
\* outcomes that CapacityBroker chooses from, so that its theorems hold of them.
THEOREM DecisionsAreAllowed == LearningSpec => DecisionsAreAbstracted
<1>1. LearningInv /\ Lasting(state) /\ [LearningNext]_learningVars => LearningInv' /\ Lasting(state)'
  BY LearningStep, DecisionStep, Zenon DEF Lasting
<1>2. LearningInv /\ Lasting(state) /\ [LearningNext]_learningVars => [Allowed]_learningVars
  BY DecisionStep, Zenon
<1>3. LearningInit => LearningInv /\ Lasting(state)
  BY InvInit, LastingInit, Zenon
<1>. QED
  BY <1>1, <1>2, <1>3, PTL DEF LearningSpec, DecisionsAreAbstracted, Allowed
=============================================================================
