------------------------ MODULE CapacityBrokerProofs ------------------------
(***************************************************************************)
(* Proofs about CapacityBroker, for any runs, leaves and capacities.       *)
(***************************************************************************)
EXTENDS CapacityBroker, TLAPS

-----------------------------------------------------------------------------
(* The queues: what VecDeque's push_back, pop_front and retain leave.      *)

Once(s) == \A i, j \in DOMAIN s : s[i] = s[j] => i = j

\* push_back adds one element at the end, once if it was not there.
LEMMA Pushed ==
    ASSUME NEW S, NEW s \in Seq(S), NEW x \in S
    PROVE  /\ Append(s, x) \in Seq(S)
           /\ Append(s, x) # <<>>
           /\ Elements(Append(s, x)) = Elements(s) \cup {x}
           /\ Once(s) /\ x \notin Elements(s) => Once(Append(s, x))
<1>1. /\ Append(s, x) \in Seq(S)
      /\ Len(Append(s, x)) = Len(s) + 1
      /\ DOMAIN Append(s, x) = 1 .. Len(s) + 1
      /\ \A i \in 1 .. Len(s) : Append(s, x)[i] = s[i]
      /\ Append(s, x)[Len(s) + 1] = x
      /\ DOMAIN s = 1 .. Len(s)
      /\ Len(s) \in Nat
      OBVIOUS
<1>2. Elements(Append(s, x)) = Elements(s) \cup {x}
      BY <1>1 DEF Elements
<1>3. ASSUME Once(s), x \notin Elements(s)
      PROVE  Once(Append(s, x))
      BY <1>1, <1>3 DEF Once, Elements
<1> QED BY <1>1, <1>2, <1>3

\* pop_front takes one element, the only one of its value if none repeats.
LEMMA Popped ==
    ASSUME NEW S, NEW s \in Seq(S), s # <<>>
    PROVE  /\ Head(s) \in S
           /\ Head(s) \in Elements(s)
           /\ Tail(s) \in Seq(S)
           /\ Elements(s) = Elements(Tail(s)) \cup {Head(s)}
           /\ Once(s) => Once(Tail(s)) /\ Head(s) \notin Elements(Tail(s))
<1>1. /\ Tail(s) \in Seq(S)
      /\ Len(Tail(s)) = Len(s) - 1
      /\ DOMAIN Tail(s) = 1 .. Len(s) - 1
      /\ \A i \in 1 .. Len(s) - 1 : Tail(s)[i] = s[i + 1]
      /\ DOMAIN s = 1 .. Len(s)
      /\ Len(s) \in Nat \ {0}
      /\ Head(s) = s[1]
      /\ Head(s) \in S
      OBVIOUS
<1>2. Head(s) \in Elements(s)
      BY <1>1 DEF Elements
<1>3. \A i \in 1 .. Len(s) : i = 1 \/ (i - 1 \in 1 .. Len(s) - 1 /\ s[i] = Tail(s)[i - 1])
      BY <1>1
<1>4. Elements(s) = Elements(Tail(s)) \cup {Head(s)}
  <2>1. ASSUME NEW x \in Elements(s) PROVE x \in Elements(Tail(s)) \cup {Head(s)}
    <3>1. PICK i \in 1 .. Len(s) : x = s[i]
          BY <1>1 DEF Elements
    <3> QED BY <3>1, <1>1, <1>3, Zenon DEF Elements
  <2>2. ASSUME NEW x \in Elements(Tail(s)) PROVE x \in Elements(s)
    <3>1. PICK i \in 1 .. Len(s) - 1 : x = Tail(s)[i]
          BY <1>1 DEF Elements
    <3>2. i + 1 \in 1 .. Len(s) /\ x = s[i + 1]
          BY <3>1, <1>1
    <3> QED BY <3>2, <1>1 DEF Elements
  <2> QED BY <2>1, <2>2, <1>2
<1>5. ASSUME Once(s)
      PROVE  Once(Tail(s)) /\ Head(s) \notin Elements(Tail(s))
      BY <1>1, <1>5 DEF Once, Elements
<1> QED BY <1>1, <1>2, <1>4, <1>5

\* retain(|x| x != y) leaves a queue of the same type.
LEMMA RetainedTyped ==
    ASSUME NEW S, NEW s \in Seq(S), NEW y
    PROVE  Without(s, y) \in Seq(S)
<1>1. CASE y \notin Elements(s)
      BY <1>1 DEF Without
<1>2. CASE y \in Elements(s)
  <2> DEFINE k == CHOOSE i \in DOMAIN s : s[i] = y
             t == [j \in 1 .. Len(s) - 1 |-> IF j < k THEN s[j] ELSE s[j + 1]]
  <2>1. k \in DOMAIN s /\ s[k] = y
        BY <1>2 DEF Elements
  <2>2. Without(s, y) = t
        BY <1>2 DEF Without
  <2> HIDE DEF k
  <2>3. Len(s) - 1 \in Nat /\ \A j \in 1 .. Len(s) - 1 : t[j] \in S
        BY <2>1
  <2> QED BY <2>2, <2>3
<1> QED BY <1>1, <1>2

\* retain(|x| x != y) removes y, adds nothing and repeats nothing.
LEMMA Retained ==
    ASSUME NEW S, NEW s \in Seq(S), NEW y, Once(s)
    PROVE  /\ Without(s, y) \in Seq(S)
           /\ Elements(Without(s, y)) = Elements(s) \ {y}
           /\ Once(Without(s, y))
<1>1. CASE y \notin Elements(s)
      BY <1>1 DEF Without
<1>2. CASE y \in Elements(s)
  <2> DEFINE k == CHOOSE i \in DOMAIN s : s[i] = y
             t == [j \in 1 .. Len(s) - 1 |-> IF j < k THEN s[j] ELSE s[j + 1]]
  <2>1. k \in DOMAIN s /\ s[k] = y
        BY <1>2 DEF Elements
  <2>2. Without(s, y) = t
        BY <1>2 DEF Without
  <2>3. /\ Len(s) \in Nat
        /\ DOMAIN s = 1 .. Len(s)
        /\ \A i \in 1 .. Len(s) : s[i] \in S
        OBVIOUS
  <2> HIDE DEF k
  <2>4. Len(s) - 1 \in Nat /\ \A j \in 1 .. Len(s) - 1 : t[j] \in S
        BY <2>1, <2>3
  <2>5. t \in Seq(S) /\ DOMAIN t = 1 .. Len(s) - 1
        BY <2>4
  <2>6. \A j \in 1 .. Len(s) - 1 :
            \E i \in 1 .. Len(s) : i # k /\ t[j] = s[i] /\ i = IF j < k THEN j ELSE j + 1
        BY <2>1, <2>3
  <2>7. \A i \in 1 .. Len(s) : i # k =>
            \E j \in 1 .. Len(s) - 1 : t[j] = s[i]
    <3> SUFFICES ASSUME NEW i \in 1 .. Len(s), i # k
                 PROVE  \E j \in 1 .. Len(s) - 1 : t[j] = s[i]
        OBVIOUS
    <3>1. CASE i < k
          BY <3>1, <2>1, <2>3
    <3>2. CASE i > k
      <4>1. i - 1 \in 1 .. Len(s) - 1 /\ t[i - 1] = s[i]
            BY <3>2, <2>1, <2>3
      <4> QED BY <4>1
    <3> QED BY <3>1, <3>2, <2>1, <2>3
  <2> HIDE DEF t
  <2>8. Elements(t) = Elements(s) \ {y}
    <3>1. ASSUME NEW x \in Elements(t) PROVE x \in Elements(s) \ {y}
      <4>1. PICK j \in 1 .. Len(s) - 1 : x = t[j]
            BY <2>5 DEF Elements
      <4>2. PICK i \in 1 .. Len(s) : i # k /\ t[j] = s[i]
            BY <2>6
      <4> QED BY <4>1, <4>2, <2>1, <2>3 DEF Once, Elements
    <3>2. ASSUME NEW x \in Elements(s) \ {y} PROVE x \in Elements(t)
      <4>1. PICK i \in 1 .. Len(s) : x = s[i]
            BY <2>3 DEF Elements
      <4>2. i # k
            BY <4>1, <2>1
      <4>3. PICK j \in 1 .. Len(s) - 1 : t[j] = s[i]
            BY <4>2, <2>7
      <4> QED BY <4>1, <4>3, <2>5 DEF Elements
    <3> QED BY <3>1, <3>2
  <2>9. Once(t)
    <3> SUFFICES ASSUME NEW a \in 1 .. Len(s) - 1, NEW b \in 1 .. Len(s) - 1, t[a] = t[b]
                 PROVE  a = b
        BY <2>5 DEF Once
    <3>1. PICK i \in 1 .. Len(s) : i # k /\ t[a] = s[i] /\ i = IF a < k THEN a ELSE a + 1
          BY <2>6
    <3>2. PICK j \in 1 .. Len(s) : j # k /\ t[b] = s[j] /\ j = IF b < k THEN b ELSE b + 1
          BY <2>6
    <3>3. i = j
          BY <3>1, <3>2, <2>3, Zenon DEF Once
    <3> QED BY <3>1, <3>2, <3>3, <2>1, <2>3
  <2> QED BY <2>2, <2>5, <2>8, <2>9
<1> QED BY <1>1, <1>2

\* A queue is empty exactly when nothing is in it.
LEMMA NothingQueued ==
    ASSUME NEW S, NEW s \in Seq(S)
    PROVE  s = <<>> <=> Elements(s) = {}
<1>1. s = <<>> => Elements(s) = {}
      BY DEF Elements
<1>2. s # <<>> => Elements(s) # {}
      BY Popped
<1> QED BY <1>1, <1>2

-----------------------------------------------------------------------------
(* Types.                                                                  *)

\* The adjustments of finish_epoch stay between one and CAP_MAX.
LEMMA AdjustedInRange ==
    ASSUME NEW n \in 1 .. CapMax
    PROVE  Decreased(n) \in 1 .. CapMax /\ Increased(n) \in 1 .. CapMax
<1> USE BrokerConstants
<1>1. CASE n < 4
      BY <1>1 DEF Decreased, Increased
<1>2. CASE n >= 4
  <2>1. (3 * n) \div 4 \in 1 .. n /\ (5 * n + 3) \div 4 \in Nat \ {0}
        BY <1>2
  <2> QED BY <1>2, <2>1 DEF Decreased, Increased
<1> QED BY <1>1, <1>2

\* finish_epoch keeps the types of what it writes.
LEMMA FinishEpochTyped ==
    ASSUME BrokerTypeOK, NEW permits, NEW waiting \in BOOLEAN, NEW registered \in SUBSET Runs,
           NEW pause \in BOOLEAN, NEW emergency \in BOOLEAN, NEW decrease \in BOOLEAN,
           FinishEpoch(permits, waiting, registered, pause, emergency, decrease)
    PROVE  /\ learned' \in 1 .. CapMax
           /\ paused' \in BOOLEAN
           /\ memoryEmergency' \in BOOLEAN
           /\ pendingDecrease' \in BOOLEAN
           /\ epoch' \in BOOLEAN
           /\ epochRuns' \in SUBSET Runs
<1> DEFINE busy == permits # {} \/ waiting \/ epochRuns \cap registered # {}
<1>1. learned \in 1 .. CapMax /\ epochRuns \in SUBSET Runs /\ epoch \in BOOLEAN
      BY DEF BrokerTypeOK
<1>2. learned' \in {learned, Decreased(learned), Increased(learned)}
      BY DEF FinishEpoch
<1>3. learned' \in 1 .. CapMax
      BY <1>1, <1>2, AdjustedInRange
<1>4. memoryEmergency' = emergency /\ paused' \in {pause, emergency}
      BY DEF FinishEpoch
<1>5. pendingDecrease' \in {decrease, FALSE}
      BY Zenon DEF FinishEpoch
<1>6. epochRuns' \in {epochRuns, epochRuns \cap registered, {}}
      BY DEF FinishEpoch
<1>7. epoch' \in {epoch, busy}
      BY DEF FinishEpoch
<1>8. busy \in BOOLEAN
      BY Zenon
<1> HIDE DEF busy
<1> QED BY <1>1, <1>3, <1>4, <1>5, <1>6, <1>7, <1>8, Zenon

\* What a method leaves to do after unlocking is well formed.
LEMMA JobsTyped ==
    ASSUME BrokerTypeOK, NEW adjusted \in BOOLEAN, NEW n \in 1 .. CapMax
    PROVE  /\ Unlocks(adjusted, n) \in [todo : {"nothing", "persist", "notify"},
                                        learned : 0 .. CapMax, cap : 0 .. CapMax]
           /\ NoJob \in [todo : {"nothing", "persist", "notify"},
                         learned : 0 .. CapMax, cap : 0 .. CapMax]
<1>1. NoJob \in [todo : {"nothing", "persist", "notify"}, learned : 0 .. CapMax, cap : 0 .. CapMax]
      BY BrokerConstants DEF NoJob
<1>2. NotifyJob = [todo |-> "notify", learned |-> 0, cap |-> 0]
      BY DEF NotifyJob, NoJob
<1> QED BY <1>1, <1>2, BrokerConstants DEF Unlocks, BrokerTypeOK

\* The mutex is taken and freed by a method that exists.
LEMMA LocksTyped ==
    ASSUME NEW op \in Methods, NEW t \in Threads, NEW adjusted \in BOOLEAN
    PROVE  /\ Locked(op, t, adjusted)
                => lock' \in [op : Methods \cup {"none"}, by : Threads \cup {NoOne}, adjusted : BOOLEAN]
           /\ Unlocked \in [op : Methods \cup {"none"}, by : Threads \cup {NoOne}, adjusted : BOOLEAN]
BY DEF Locked, Unlocked

\* State::new is well typed.
LEMMA BrokerTypeInit == BrokerInit => BrokerTypeOK
<1> SUFFICES ASSUME BrokerInit PROVE BrokerTypeOK
    OBVIOUS
<1> USE BrokerConstants DEF BrokerInit
<1>1. /\ learned \in 1 .. CapMax /\ cap \in 0 .. CapMax
      /\ durable \in [learned : 1 .. CapMax, cap : 0 .. CapMax]
      BY DEF NoCap
<1>2. /\ run \in [Runs -> {"new", "registered", "ended"}]
      /\ queues \in [Runs -> Seq(Leaves)]
      /\ roundRobin \in Seq(Runs)
      OBVIOUS
<1>3. /\ pending \in [Leaves -> {"none", "waiting", "granted", "denied"}]
      /\ conn \in [Leaves -> {"idle", "enqueued", "look", "asleep", "holding", "over"}]
      /\ active \in SUBSET Leaves /\ wake \in SUBSET Leaves /\ epochRuns \in SUBSET Runs
      OBVIOUS
<1>4. /\ stopping \in BOOLEAN /\ paused \in BOOLEAN /\ memoryEmergency \in BOOLEAN
      /\ pendingDecrease \in BOOLEAN /\ epoch \in BOOLEAN
      BY Zenon
<1>5. lock \in [op : Methods \cup {"none"}, by : Threads \cup {NoOne}, adjusted : BOOLEAN]
      BY DEF Unlocked
<1>6. after \in [Threads -> [todo : {"nothing", "persist", "notify"},
                             learned : 0 .. CapMax, cap : 0 .. CapMax]]
      BY DEF NoJob
<1> QED BY <1>1, <1>2, <1>3, <1>4, <1>5, <1>6 DEF BrokerTypeOK

\* The steps of a connection.
LEMMA ConnectionTyped ==
    ASSUME BrokerTypeOK, NEW l \in Leaves, ConnectionStep(l)
    PROVE  BrokerTypeOK'
<1> USE BrokerConstants
<1>0. l \in Threads /\ RunOf[l] \in Runs
      BY DEF Threads
<1>1. CASE Enqueue(l)
  <2> DEFINE r == RunOf[l]
  <2>a. /\ queues[r] \in Seq(Leaves) /\ roundRobin \in Seq(Runs)
        /\ Append(queues[r], l) \in Seq(Leaves) /\ Append(roundRobin, r) \in Seq(Runs)
        BY <1>0 DEF BrokerTypeOK
  <2>b. /\ queues' \in {queues, [queues EXCEPT ![r] = Append(queues[r], l)]}
        /\ roundRobin' \in {roundRobin, Append(roundRobin, r)}
        /\ pending' \in {pending, [pending EXCEPT ![l] = "waiting"]}
        /\ conn' \in {[conn EXCEPT ![l] = "over"], [conn EXCEPT ![l] = "enqueued"]}
        /\ epochRuns' \in {epochRuns, epochRuns \cup {r}, {r}}
        BY <1>1, Zenon DEF Enqueue, StartEpoch
  <2>1. /\ queues' \in [Runs -> Seq(Leaves)]
        /\ roundRobin' \in Seq(Runs)
    <3>1. queues \in [Runs -> Seq(Leaves)]
          BY DEF BrokerTypeOK
    <3>2. [queues EXCEPT ![r] = Append(queues[r], l)] \in [Runs -> Seq(Leaves)]
          BY <3>1, <1>0, <2>a
    <3> QED BY <3>1, <3>2, <2>a, <2>b, Zenon
  <2>2. /\ pending' \in [Leaves -> {"none", "waiting", "granted", "denied"}]
        /\ conn' \in [Leaves -> {"idle", "enqueued", "look", "asleep", "holding", "over"}]
    <3>1. [pending EXCEPT ![l] = "waiting"] \in [Leaves -> {"none", "waiting", "granted", "denied"}]
          BY DEF BrokerTypeOK
    <3>2. /\ [conn EXCEPT ![l] = "over"]
                \in [Leaves -> {"idle", "enqueued", "look", "asleep", "holding", "over"}]
          /\ [conn EXCEPT ![l] = "enqueued"]
                \in [Leaves -> {"idle", "enqueued", "look", "asleep", "holding", "over"}]
          BY DEF BrokerTypeOK
    <3>3. pending \in [Leaves -> {"none", "waiting", "granted", "denied"}]
          BY DEF BrokerTypeOK
    <3>4. pending' \in [Leaves -> {"none", "waiting", "granted", "denied"}]
          BY <3>1, <3>3, <2>b
    <3>5. conn' \in [Leaves -> {"idle", "enqueued", "look", "asleep", "holding", "over"}]
          BY <3>2, <2>b
    <3> QED BY <3>4, <3>5
  <2>3. lock' \in [op : Methods \cup {"none"}, by : Threads \cup {NoOne}, adjusted : BOOLEAN]
        BY <1>0, <1>1, LocksTyped, Zenon DEF Enqueue, BrokerTypeOK, Methods
  <2>4. epochRuns' \in SUBSET Runs
        BY <1>0, <2>b DEF BrokerTypeOK
  <2>5. epoch' \in BOOLEAN /\ pendingDecrease' \in BOOLEAN
        BY <1>1, Zenon DEF Enqueue, BrokerTypeOK, StartEpoch
  <2> QED BY <1>1, <2>1, <2>2, <2>3, <2>4, <2>5 DEF Enqueue, BrokerTypeOK
<1>2. CASE Arm(l)
      BY <1>2 DEF Arm, BrokerTypeOK, learningVars, queueVars
<1>3. CASE TakeOutcome(l)
  <2>1. pending' \in [Leaves -> {"none", "waiting", "granted", "denied"}]
        BY <1>3 DEF TakeOutcome, BrokerTypeOK
  <2>2. conn' \in [Leaves -> {"idle", "enqueued", "look", "asleep", "holding", "over"}]
        BY <1>3 DEF TakeOutcome, BrokerTypeOK
  <2> QED BY <1>3, <2>1, <2>2 DEF TakeOutcome, BrokerTypeOK, learningVars
<1>4. CASE CancelPending(l)
  <2>1. queues' \in [Runs -> Seq(Leaves)]
    <3>1. Without(queues[RunOf[l]], l) \in Seq(Leaves)
          BY <1>0, RetainedTyped DEF BrokerTypeOK
    <3> QED BY <1>0, <1>4, <3>1 DEF CancelPending, BrokerTypeOK
  <2>2. roundRobin' \in Seq(Runs)
    <3>1. Without(roundRobin, RunOf[l]) \in Seq(Runs)
          BY <1>0, RetainedTyped DEF BrokerTypeOK
    <3> QED BY <1>4, <3>1 DEF CancelPending, RoundCancelLeaves, BrokerTypeOK
  <2>3. active' \in SUBSET Leaves
        BY <1>4 DEF CancelPending, PermitsCancelLeaves, BrokerTypeOK
  <2>4. lock' \in [op : Methods \cup {"none"}, by : Threads \cup {NoOne}, adjusted : BOOLEAN]
        BY <1>0, <1>4, LocksTyped, Zenon DEF CancelPending, Methods
  <2> QED BY <1>4, <2>1, <2>2, <2>3, <2>4 DEF CancelPending, BrokerTypeOK, learningVars
<1>5. CASE Release(l)
  <2>1. lock' \in [op : Methods \cup {"none"}, by : Threads \cup {NoOne}, adjusted : BOOLEAN]
        BY <1>0, <1>5, LocksTyped, Zenon DEF Release, BrokerTypeOK, Methods
  <2> QED BY <1>5, <2>1 DEF Release, BrokerTypeOK, learningVars
<1> QED BY <1>1, <1>2, <1>3, <1>4, <1>5 DEF ConnectionStep

\* What grant_ready pops: a run with a request, and a request of that run.
LEMMA NextInRound ==
    ASSUME BrokerTypeOK, RoundRobinIsExact, roundRobin # <<>>
    PROVE  /\ Head(roundRobin) \in Runs
           /\ queues[Head(roundRobin)] # <<>>
           /\ queues[Head(roundRobin)] \in Seq(Leaves)
           /\ Head(queues[Head(roundRobin)]) \in Leaves
BY Popped DEF BrokerTypeOK, RoundRobinIsExact

\* The loop of grant_ready.
LEMMA GrantingTyped ==
    ASSUME BrokerTypeOK, RoundRobinIsExact, GrantOne \/ GrantEnds
    PROVE  BrokerTypeOK'
<1> USE BrokerConstants
<1>t. Sampler \in Threads
      BY DEF Threads
<1>1. CASE GrantOne
  <2> DEFINE r == Head(roundRobin)
             l == Head(queues[r])
  <2>1. roundRobin # <<>>
        BY <1>1 DEF GrantOne, MayGrant
  <2>2. r \in Runs /\ queues[r] \in Seq(Leaves) /\ queues[r] # <<>> /\ l \in Leaves
        BY <2>1, NextInRound
  <2>3. /\ Tail(roundRobin) \in Seq(Runs) /\ Append(Tail(roundRobin), r) \in Seq(Runs)
        /\ Tail(queues[r]) \in Seq(Leaves)
        BY <2>1, <2>2 DEF BrokerTypeOK
  <2>4. queues' \in [Runs -> Seq(Leaves)] /\ roundRobin' \in Seq(Runs)
    <3>1. queues' = [queues EXCEPT ![r] = Tail(queues[r])]
          BY <1>1 DEF GrantOne
    <3>2. roundRobin' \in {Tail(roundRobin), Append(Tail(roundRobin), r)}
          BY <1>1 DEF GrantOne
    <3> QED BY <3>1, <3>2, <2>2, <2>3, Zenon DEF BrokerTypeOK
  <2>5. active' \in SUBSET Leaves
    <3>1. active' \in {active, active \cup {l}}
          BY <1>1 DEF GrantOne
    <3>2. active \in SUBSET Leaves
          BY DEF BrokerTypeOK
    <3> QED BY <3>1, <3>2, <2>2
  <2>6. pending' \in [Leaves -> {"none", "waiting", "granted", "denied"}]
    <3>1. pending' \in {pending, [pending EXCEPT ![l] = "granted"]}
          BY <1>1 DEF GrantOne
    <3>2. pending \in [Leaves -> {"none", "waiting", "granted", "denied"}]
          BY DEF BrokerTypeOK
    <3> QED BY <3>1, <3>2
  <2>7. conn' \in [Leaves -> {"idle", "enqueued", "look", "asleep", "holding", "over"}]
    <3>1. conn' \in {conn, [conn EXCEPT ![lock.by] = "over"]}
          BY <1>1 DEF GrantOne
    <3>2. conn \in [Leaves -> {"idle", "enqueued", "look", "asleep", "holding", "over"}]
          BY DEF BrokerTypeOK
    <3> QED BY <3>1, <3>2
  <2>8. lock' \in [op : Methods \cup {"none"}, by : Threads \cup {NoOne}, adjusted : BOOLEAN]
    <3>1. lock' \in {lock, Unlocked}
          BY <1>1 DEF GrantOne
    <3>2. Unlocked \in [op : Methods \cup {"none"}, by : Threads \cup {NoOne}, adjusted : BOOLEAN]
          BY DEF Unlocked
    <3>3. lock \in [op : Methods \cup {"none"}, by : Threads \cup {NoOne}, adjusted : BOOLEAN]
          BY DEF BrokerTypeOK
    <3> QED BY <3>1, <3>2, <3>3
  <2>9. after' \in [Threads -> [todo : {"nothing", "persist", "notify"},
                                learned : 0 .. CapMax, cap : 0 .. CapMax]]
    <3>1. after' \in {after, [after EXCEPT ![Sampler] = Unlocks(lock.adjusted, learned)]}
          BY <1>1 DEF GrantOne
    <3>2. lock.adjusted \in BOOLEAN /\ learned \in 1 .. CapMax
          BY DEF BrokerTypeOK
    <3>3. Unlocks(lock.adjusted, learned) \in [todo : {"nothing", "persist", "notify"},
                                               learned : 0 .. CapMax, cap : 0 .. CapMax]
          BY <3>2, JobsTyped
    <3>4. after \in [Threads -> [todo : {"nothing", "persist", "notify"},
                                 learned : 0 .. CapMax, cap : 0 .. CapMax]]
          BY DEF BrokerTypeOK
    <3> QED BY <3>1, <3>3, <3>4, <1>t
  <2>10. UNCHANGED <<learned, cap, run, stopping, paused, memoryEmergency, pendingDecrease, epoch,
                     epochRuns, wake, durable>>
         BY <1>1 DEF GrantOne
  <2> QED BY <2>4, <2>5, <2>6, <2>7, <2>8, <2>9, <2>10, Zenon DEF BrokerTypeOK
<1>2. CASE GrantEnds
  <2>1. /\ learned' \in 1 .. CapMax
        /\ paused' \in BOOLEAN
        /\ memoryEmergency' \in BOOLEAN
        /\ pendingDecrease' \in BOOLEAN
        /\ epoch' \in BOOLEAN
        /\ epochRuns' \in SUBSET Runs
    <3>1. CASE UNCHANGED learningVars
          BY <3>1 DEF learningVars, BrokerTypeOK
    <3>2. CASE FinishEpoch(active, Waiting, Registered, paused, memoryEmergency, pendingDecrease)
      <4>1. Registered \in SUBSET Runs /\ Waiting \in BOOLEAN
            BY DEF Registered, Waiting
      <4>2. paused \in BOOLEAN /\ memoryEmergency \in BOOLEAN /\ pendingDecrease \in BOOLEAN
            BY DEF BrokerTypeOK
      <4> QED BY <3>2, <4>1, <4>2, FinishEpochTyped
    <3> QED BY <1>2, <3>1, <3>2 DEF GrantEnds
  <2>2. after' \in [Threads -> [todo : {"nothing", "persist", "notify"},
                                learned : 0 .. CapMax, cap : 0 .. CapMax]]
    <3> DEFINE adjusted == lock.adjusted \/ learned' # learned
    <3>1. after' = [after EXCEPT ![lock.by] = Unlocks(adjusted, learned')]
          BY <1>2 DEF GrantEnds
    <3>2. adjusted \in BOOLEAN
          BY Zenon
    <3> HIDE DEF adjusted
    <3>3. Unlocks(adjusted, learned') \in [todo : {"nothing", "persist", "notify"},
                                           learned : 0 .. CapMax, cap : 0 .. CapMax]
          BY <3>2, <2>1, JobsTyped
    <3>4. after \in [Threads -> [todo : {"nothing", "persist", "notify"},
                                 learned : 0 .. CapMax, cap : 0 .. CapMax]]
          BY DEF BrokerTypeOK
    <3> QED BY <3>1, <3>3, <3>4, Zenon
  <2>3. lock' \in [op : Methods \cup {"none"}, by : Threads \cup {NoOne}, adjusted : BOOLEAN]
        BY <1>2 DEF GrantEnds, Unlocked
  <2>4. UNCHANGED <<cap, run, queues, roundRobin, pending, active, stopping, conn, wake, durable>>
        BY <1>2 DEF GrantEnds, queueVars
  <2> QED BY <2>1, <2>2, <2>3, <2>4, Zenon DEF BrokerTypeOK
<1> QED BY <1>1, <1>2

\* What persist_adjustment will write is a capacity that was learned.
JobsPersistCapacities == \A t \in Threads : after[t].todo = "persist" => after[t].learned # 0

\* The other methods.
LEMMA MethodTyped ==
    ASSUME BrokerTypeOK, JobsPersistCapacities,
           \/ \E r \in Runs : RegisterRun(r) \/ UnregisterRun(r)
           \/ \E t \in Threads : PersistAndNotify(t)
           \/ \E c \in Caps : SetCap(c)
           \/ \E sample \in Samples : RecordSample(sample)
           \/ Stop
    PROVE  BrokerTypeOK'
<1> USE BrokerConstants
<1>w. NotifyWaiters => wake' \in SUBSET Leaves
      BY DEF NotifyWaiters, BrokerTypeOK
<1>b. /\ paused \in BOOLEAN /\ memoryEmergency \in BOOLEAN /\ pendingDecrease \in BOOLEAN
      /\ Registered \in SUBSET Runs
      BY DEF BrokerTypeOK, Registered
<1>1. ASSUME NEW r \in Runs, RegisterRun(r)
      PROVE  BrokerTypeOK'
      BY <1>1 DEF RegisterRun, BrokerTypeOK, queueVars
<1>2. ASSUME NEW r \in Runs, UnregisterRun(r)
      PROVE  BrokerTypeOK'
  <2> DEFINE others == \E q \in Runs \ {r} : queues[q] # <<>>
  <2>1. others \in BOOLEAN
        OBVIOUS
  <2>2. FinishEpoch(PermitsOfOthers(r), others, Registered \ {r}, paused, memoryEmergency,
                    pendingDecrease)
        BY <1>2, Zenon DEF UnregisterRun
  <2>3. /\ learned' \in 1 .. CapMax /\ paused' \in BOOLEAN /\ memoryEmergency' \in BOOLEAN
        /\ pendingDecrease' \in BOOLEAN /\ epoch' \in BOOLEAN /\ epochRuns' \in SUBSET Runs
    <3> HIDE DEF others
    <3> QED BY <2>1, <2>2, <1>b, FinishEpochTyped
  <2>4. roundRobin' \in Seq(Runs)
    <3>1. Without(roundRobin, r) \in Seq(Runs)
          BY RetainedTyped DEF BrokerTypeOK
    <3> QED BY <1>2, <3>1 DEF UnregisterRun
  <2>5. queues' \in [Runs -> Seq(Leaves)]
    <3>1. queues' = [queues EXCEPT ![r] = <<>>]
          BY <1>2, Zenon DEF UnregisterRun
    <3>2. queues \in [Runs -> Seq(Leaves)]
          BY Zenon DEF BrokerTypeOK
    <3> QED BY <3>1, <3>2
  <2>6. pending' \in [Leaves -> {"none", "waiting", "granted", "denied"}]
        BY <1>2 DEF UnregisterRun, OutcomesWithout, BrokerTypeOK
  <2>7. active' \in SUBSET Leaves
        BY <1>2 DEF UnregisterRun, PermitsOfOthers, BrokerTypeOK
  <2>8. lock' \in [op : Methods \cup {"none"}, by : Threads \cup {NoOne}, adjusted : BOOLEAN]
    <3> DEFINE adjusted == learned' # learned
    <3>1. adjusted \in BOOLEAN /\ Locked("unregister", r, adjusted)
          BY <1>2 DEF UnregisterRun
    <3> HIDE DEF adjusted
    <3>2. r \in Threads /\ "unregister" \in Methods
          BY DEF Threads, Methods
    <3> QED BY <3>1, <3>2, LocksTyped
  <2>9. run' \in [Runs -> {"new", "registered", "ended"}]
        BY <1>2 DEF UnregisterRun, BrokerTypeOK
  <2>10. UNCHANGED <<cap, stopping, after, conn, wake, durable>>
         BY <1>2 DEF UnregisterRun
  <2> QED BY <2>3, <2>4, <2>5, <2>6, <2>7, <2>8, <2>9, <2>10, Zenon DEF BrokerTypeOK
<1>3. ASSUME NEW t \in Threads, PersistAndNotify(t)
      PROVE  BrokerTypeOK'
  <2>1. wake' \in SUBSET Leaves
    <3>1. NotifyWaiters \/ UNCHANGED wake
          BY <1>3 DEF PersistAndNotify
    <3> QED BY <3>1, <1>w DEF BrokerTypeOK
  <2>2. after' \in [Threads -> [todo : {"nothing", "persist", "notify"},
                                learned : 0 .. CapMax, cap : 0 .. CapMax]]
    <3>1. after \in [Threads -> [todo : {"nothing", "persist", "notify"},
                                 learned : 0 .. CapMax, cap : 0 .. CapMax]]
          BY Zenon DEF BrokerTypeOK
    <3>2. after' = [after EXCEPT ![t] = NoJob]
          BY <1>3, Zenon DEF PersistAndNotify
    <3>3. NoJob \in [todo : {"nothing", "persist", "notify"}, learned : 0 .. CapMax, cap : 0 .. CapMax]
          BY BrokerConstants DEF NoJob
    <3> HIDE DEF NoJob
    <3> QED BY <3>1, <3>2, <3>3
  <2>3. durable' \in [learned : 1 .. CapMax, cap : 0 .. CapMax]
    <3>1. /\ after[t] \in [todo : {"nothing", "persist", "notify"},
                           learned : 0 .. CapMax, cap : 0 .. CapMax]
          /\ durable \in [learned : 1 .. CapMax, cap : 0 .. CapMax]
          BY DEF BrokerTypeOK
    <3>2. \/ UNCHANGED durable
          \/ /\ after[t].todo = "persist"
             /\ durable' = [learned |-> after[t].learned, cap |-> after[t].cap]
          BY <1>3 DEF PersistAndNotify
    <3>3. after[t].todo = "persist" => after[t].learned # 0
          BY Zenon DEF JobsPersistCapacities
    <3>4. after[t].learned \in 0 .. CapMax /\ after[t].cap \in 0 .. CapMax
          BY <3>1, Zenon
    <3>5. CASE UNCHANGED durable
          BY <3>1, <3>5
    <3>6. CASE /\ after[t].todo = "persist"
               /\ durable' = [learned |-> after[t].learned, cap |-> after[t].cap]
      <4>1. after[t].learned \in 1 .. CapMax
            BY <3>3, <3>4, <3>6
      <4> QED BY <4>1, <3>4, <3>6
    <3> QED BY <3>2, <3>5, <3>6, Zenon
  <2>4. UNCHANGED <<learned, cap, run, queues, roundRobin, pending, active, stopping, paused,
                    memoryEmergency, pendingDecrease, epoch, epochRuns, lock, conn>>
        BY <1>3 DEF PersistAndNotify, learningVars, queueVars
  <2> QED BY <2>1, <2>2, <2>3, <2>4, Zenon DEF BrokerTypeOK
<1>4. ASSUME NEW c \in Caps, SetCap(c)
      PROVE  BrokerTypeOK'
  <2>1. lock' \in [op : Methods \cup {"none"}, by : Threads \cup {NoOne}, adjusted : BOOLEAN]
        BY <1>4, LocksTyped, Zenon DEF SetCap, Methods, Threads
  <2>2. cap' \in 0 .. CapMax /\ durable' \in [learned : 1 .. CapMax, cap : 0 .. CapMax]
        BY <1>4 DEF SetCap, BrokerTypeOK
  <2> QED BY <1>4, <2>1, <2>2, Zenon DEF SetCap, BrokerTypeOK, learningVars, queueVars
<1>5. ASSUME NEW sample \in Samples, RecordSample(sample)
      PROVE  BrokerTypeOK'
  <2>1. PICK pause \in BOOLEAN, emergency \in BOOLEAN, decrease \in BOOLEAN :
            FinishEpoch(active, Waiting, Registered, pause, emergency, decrease)
    <3> DEFINE pause == CASE sample \in {"emergency", "pressure"} -> TRUE
                          [] sample = "recovery" -> FALSE
                          [] OTHER -> paused
               emergency == CASE sample = "emergency" -> TRUE
                              [] sample = "recovery" -> FALSE
                              [] OTHER -> memoryEmergency
               decrease == pendingDecrease \/ sample \in {"emergency", "pressure"}
    <3>1. FinishEpoch(active, Waiting, Registered, pause, emergency, decrease)
          BY <1>5, Zenon DEF RecordSample, Judges
    <3>2. pause \in BOOLEAN /\ emergency \in BOOLEAN
          BY <1>b, Zenon
    <3>3. decrease \in BOOLEAN
          BY Zenon
    <3> HIDE DEF pause, emergency, decrease
    <3> QED BY <3>1, <3>2, <3>3
  <2>2. Waiting \in BOOLEAN
        BY DEF Waiting
  <2>3. /\ learned' \in 1 .. CapMax /\ paused' \in BOOLEAN /\ memoryEmergency' \in BOOLEAN
        /\ pendingDecrease' \in BOOLEAN /\ epoch' \in BOOLEAN /\ epochRuns' \in SUBSET Runs
        BY <2>1, <2>2, <1>b, FinishEpochTyped
  <2>4. lock' \in [op : Methods \cup {"none"}, by : Threads \cup {NoOne}, adjusted : BOOLEAN]
    <3> DEFINE adjusted == learned' # learned
    <3>1. adjusted \in BOOLEAN /\ Locked("sample", Sampler, adjusted)
          BY <1>5 DEF RecordSample, Judges
    <3> HIDE DEF adjusted
    <3>2. Sampler \in Threads /\ "sample" \in Methods
          BY DEF Threads, Methods
    <3> QED BY <3>1, <3>2, LocksTyped
  <2>5. UNCHANGED <<cap, run, queues, roundRobin, pending, active, stopping, after, conn, wake,
                    durable>>
        BY <1>5 DEF RecordSample, queueVars
  <2> QED BY <2>3, <2>4, <2>5, Zenon DEF BrokerTypeOK
<1>6. CASE Stop
  <2>1. pending' \in [Leaves -> {"none", "waiting", "granted", "denied"}]
        BY <1>6 DEF Stop, BrokerTypeOK
  <2>2. queues' \in [Runs -> Seq(Leaves)] /\ roundRobin' \in Seq(Runs)
    <3>1. queues' = [r \in Runs |-> <<>>] /\ roundRobin' = <<>>
          BY <1>6, Zenon DEF Stop
    <3> QED BY <3>1
  <2>3. active' \in SUBSET Leaves /\ wake' \in SUBSET Leaves /\ stopping' \in BOOLEAN
        BY <1>6, <1>w DEF Stop
  <2>4. UNCHANGED <<learned, cap, run, paused, memoryEmergency, pendingDecrease, epoch, epochRuns,
                    lock, after, conn, durable>>
        BY <1>6 DEF Stop, learningVars
  <2> QED BY <2>1, <2>2, <2>3, <2>4 DEF BrokerTypeOK
<1> QED BY <1>1, <1>2, <1>3, <1>4, <1>5, <1>6

-----------------------------------------------------------------------------
(* The queues.                                                             *)

\* A queue holds requests of its own run that wait, each once.
QueuesHoldWaiters ==
    \A r \in Runs : /\ Once(queues[r])
                    /\ \A l \in Elements(queues[r]) : RunOf[l] = r /\ pending[l] = "waiting"

\* A request is only ever made on a connection that has not asked before.
IdleConnectionsAskNothing == \A l \in Leaves : conn[l] = "idle" => pending[l] = "none"

QueueInv ==
    /\ BrokerTypeOK
    /\ JobsPersistCapacities
    /\ RoundRobinIsExact
    /\ QueuesHoldWaiters
    /\ IdleConnectionsAskNothing
    /\ EndedRunHoldsNothing

\* State::new has empty queues, an empty round and no permit.
LEMMA QueueInvInit == BrokerInit => QueueInv
<1> SUFFICES ASSUME BrokerInit PROVE QueueInv
    OBVIOUS
<1>1. BrokerTypeOK
      BY BrokerTypeInit
<1>2. Elements(<<>>) = {} /\ Once(<<>>)
      BY DEF Elements, Once
<1>3. JobsPersistCapacities
      BY DEF BrokerInit, JobsPersistCapacities, NoJob
<1>4. RoundRobinIsExact
      BY <1>2 DEF BrokerInit, RoundRobinIsExact, Once
<1>5. QueuesHoldWaiters
      BY <1>2 DEF BrokerInit, QueuesHoldWaiters
<1>6. IdleConnectionsAskNothing /\ EndedRunHoldsNothing
      BY DEF BrokerInit, IdleConnectionsAskNothing, EndedRunHoldsNothing
<1> QED BY <1>1, <1>3, <1>4, <1>5, <1>6 DEF QueueInv

\* Jobs come from methods that learned, or raised, a capacity in range.
LEMMA JobsStep ==
    ASSUME QueueInv, BrokerTypeOK', [BrokerNext]_brokerVars
    PROVE  JobsPersistCapacities'
<1> USE BrokerConstants DEF QueueInv
<1>1. \/ UNCHANGED after
      \/ \E t \in Threads : after' = [after EXCEPT ![t] = NoJob]
      \/ \E adjusted \in BOOLEAN, n \in 1 .. CapMax, t \in Threads \cup {NoOne} :
            after' = [after EXCEPT ![t] = Unlocks(adjusted, n)]
  <2>1. CASE GrantOne
    <3>1. Sampler \in Threads /\ lock.adjusted \in BOOLEAN /\ learned \in 1 .. CapMax
          BY DEF BrokerTypeOK, Threads
    <3>2. after' \in {after, [after EXCEPT ![Sampler] = Unlocks(lock.adjusted, learned)]}
          BY <2>1 DEF GrantOne
    <3> QED BY <3>1, <3>2
  <2>2. CASE GrantEnds
    <3> DEFINE adjusted == lock.adjusted \/ learned' # learned
    <3>1. after' = [after EXCEPT ![lock.by] = Unlocks(adjusted, learned')]
          BY <2>2 DEF GrantEnds
    <3>2. adjusted \in BOOLEAN
          BY Zenon
    <3>3. lock.by \in Threads \cup {NoOne} /\ learned' \in 1 .. CapMax
          BY DEF BrokerTypeOK
    <3> HIDE DEF adjusted
    <3> QED BY <3>1, <3>2, <3>3, Zenon
  <2>3. CASE \E t \in Threads : PersistAndNotify(t)
        BY <2>3, Zenon DEF PersistAndNotify
  <2>4. CASE UNCHANGED after
        BY <2>4
  <2> QED BY <2>1, <2>2, <2>3, <2>4, Zenon
          DEF BrokerNext, brokerVars, ConnectionStep, RegisterRun, UnregisterRun, Enqueue, Arm,
              TakeOutcome, CancelPending, Release, SetCap, RecordSample, Stop
<1>2. \A adjusted \in BOOLEAN, n \in 1 .. CapMax :
          Unlocks(adjusted, n).todo = "persist" => Unlocks(adjusted, n).learned # 0
      BY DEF Unlocks, NotifyJob, NoJob
<1>3. NoJob.todo # "persist"
      BY DEF NoJob
<1>4. ASSUME NEW u \in Threads
      PROVE  \/ after'[u] = after[u]
             \/ after'[u] = NoJob
             \/ \E adjusted \in BOOLEAN, n \in 1 .. CapMax : after'[u] = Unlocks(adjusted, n)
  <2>1. DOMAIN after = Threads
        BY Zenon DEF BrokerTypeOK
  <2>2. CASE UNCHANGED after
        BY <2>2
  <2>3. ASSUME NEW t \in Threads, after' = [after EXCEPT ![t] = NoJob]
        PROVE  after'[u] = after[u] \/ after'[u] = NoJob
        BY <2>1, <2>3
  <2>4. ASSUME NEW adjusted \in BOOLEAN, NEW n \in 1 .. CapMax, NEW t \in Threads \cup {NoOne},
               after' = [after EXCEPT ![t] = Unlocks(adjusted, n)]
        PROVE  after'[u] = after[u] \/ after'[u] = Unlocks(adjusted, n)
        BY <2>1, <2>4
  <2> QED BY <1>1, <2>2, <2>3, <2>4
<1>5. ASSUME NEW u \in Threads, after'[u].todo = "persist" PROVE after'[u].learned # 0
  <2>1. CASE after'[u] = after[u]
    <3>1. after[u].todo = "persist" => after[u].learned # 0
          BY Zenon DEF JobsPersistCapacities
    <3> QED BY <1>5, <2>1, <3>1, Zenon
  <2>2. CASE after'[u] = NoJob
        BY <1>3, <1>5, <2>2, Zenon
  <2>3. ASSUME NEW adjusted \in BOOLEAN, NEW n \in 1 .. CapMax, after'[u] = Unlocks(adjusted, n)
        PROVE  after'[u].learned # 0
        BY <1>2, <1>5, <2>3, Zenon
  <2> QED BY <1>4, <2>1, <2>2, <2>3, Zenon
<1> QED BY <1>5, Zenon DEF JobsPersistCapacities

\* RoundRobinIsExact of the next state, in the terms of the queue lemmas.
LEMMA ExactRound ==
    RoundRobinIsExact' <=> /\ Elements(roundRobin') = {r \in Runs : queues'[r] # <<>>}
                           /\ Once(roundRobin')
BY DEF RoundRobinIsExact, Elements, Once

\* QueuesHoldWaiters after a step, said with Once and Elements.
LEMMA HeldWaiters ==
    QueuesHoldWaiters' <=>
        \A r \in Runs :
            /\ Once(queues'[r])
            /\ \A l \in Elements(queues'[r]) : RunOf[l] = r /\ pending'[l] = "waiting"
BY DEF QueuesHoldWaiters, Elements, Once

\* What the queue invariant says of the queues and of the round.
LEMMA QueuedNow ==
    ASSUME QueueInv
    PROVE  /\ queues \in [Runs -> Seq(Leaves)] /\ roundRobin \in Seq(Runs)
           /\ pending \in [Leaves -> {"none", "waiting", "granted", "denied"}]
           /\ conn \in [Leaves -> {"idle", "enqueued", "look", "asleep", "holding", "over"}]
           /\ Elements(roundRobin) = {r \in Runs : queues[r] # <<>>} /\ Once(roundRobin)
           /\ \A r \in Runs : /\ Once(queues[r])
                             /\ Elements(queues[r]) \subseteq Leaves
                             /\ \A l \in Elements(queues[r]) : RunOf[l] = r /\ pending[l] = "waiting"
<1>1. /\ queues \in [Runs -> Seq(Leaves)] /\ roundRobin \in Seq(Runs)
      /\ pending \in [Leaves -> {"none", "waiting", "granted", "denied"}]
      /\ conn \in [Leaves -> {"idle", "enqueued", "look", "asleep", "holding", "over"}]
      BY Zenon DEF QueueInv, BrokerTypeOK
<1>2. Elements(roundRobin) = {r \in Runs : queues[r] # <<>>} /\ Once(roundRobin)
      BY Zenon DEF QueueInv, RoundRobinIsExact, Once
<1>3. ASSUME NEW r \in Runs
      PROVE  /\ Once(queues[r])
             /\ \A l \in Elements(queues[r]) : RunOf[l] = r /\ pending[l] = "waiting"
      BY Zenon DEF QueueInv, QueuesHoldWaiters
<1>4. ASSUME NEW s \in Seq(Leaves) PROVE Elements(s) \subseteq Leaves
      BY DEF Elements
<1>5. ASSUME NEW r \in Runs PROVE queues[r] \in Seq(Leaves)
      BY <1>1
<1> QED BY <1>1, <1>2, <1>3, <1>4, <1>5, Zenon

\* A step that leaves the queues and the waiting requests alone.
LEMMA QueuesUntouched ==
    ASSUME QueueInv, BrokerTypeOK', JobsPersistCapacities',
           UNCHANGED <<queues, roundRobin>>,
           \A l \in Leaves : pending[l] = "waiting" => pending'[l] = "waiting",
           \A l \in Leaves : conn'[l] = "idle" => conn[l] = "idle" /\ pending'[l] = pending[l],
           \A r \in Runs : run[r] = "registered" => run'[r] = "registered",
           active' \subseteq active
    PROVE  QueueInv'
<1>0. queues' = queues /\ roundRobin' = roundRobin
      BY Zenon
<1>1. RoundRobinIsExact'
  <2>1. Elements(roundRobin) = {r \in Runs : queues[r] # <<>>} /\ Once(roundRobin)
        BY QueuedNow, Zenon
  <2>2. /\ Elements(roundRobin') = Elements(roundRobin) /\ Once(roundRobin') = Once(roundRobin)
        /\ {r \in Runs : queues'[r] # <<>>} = {r \in Runs : queues[r] # <<>>}
        BY <1>0, Zenon
  <2> QED BY <2>1, <2>2, ExactRound, Zenon
<1>2. QueuesHoldWaiters'
  <2>1. ASSUME NEW r \in Runs
        PROVE  /\ Once(queues[r])
               /\ \A l \in Elements(queues[r]) : RunOf[l] = r /\ pending'[l] = "waiting"
        BY QueuedNow, Zenon
  <2> QED BY <1>0, <2>1, HeldWaiters, Zenon
<1>3. IdleConnectionsAskNothing'
      BY Zenon DEF QueueInv, IdleConnectionsAskNothing
<1>4. EndedRunHoldsNothing'
  <2>1. ASSUME NEW r \in Runs, run'[r] # "registered" PROVE run[r] # "registered"
        BY <2>1, Zenon
  <2>2. \A r \in Runs : run[r] # "registered" => queues[r] = <<>> /\ \A l \in active : RunOf[l] # r
        BY Zenon DEF QueueInv, EndedRunHoldsNothing, Registered
  <2> QED BY <1>0, <2>1, <2>2, Zenon DEF EndedRunHoldsNothing, Registered
<1> QED BY <1>1, <1>2, <1>3, <1>4, Zenon DEF QueueInv

\* enqueue: the run enters the round with its first request.
LEMMA EnqueueKeepsQueues ==
    ASSUME QueueInv, BrokerTypeOK', JobsPersistCapacities', NEW l \in Leaves, Enqueue(l)
    PROVE  QueueInv'
<1> USE BrokerConstants
<1> DEFINE r == RunOf[l]
<1>0. /\ r \in Runs
      /\ queues \in [Runs -> Seq(Leaves)] /\ roundRobin \in Seq(Runs)
      /\ pending \in [Leaves -> {"none", "waiting", "granted", "denied"}]
      /\ conn \in [Leaves -> {"idle", "enqueued", "look", "asleep", "holding", "over"}]
      /\ active' = active /\ run' = run
  <2>1. r \in Runs
        OBVIOUS
  <2>2. active' = active /\ run' = run
        BY Zenon DEF Enqueue
  <2> QED BY <2>1, <2>2, QueuedNow, Zenon
<1>1. CASE stopping \/ r \notin Registered
  <2>1. conn' = [conn EXCEPT ![l] = "over"] /\ UNCHANGED <<queues, roundRobin, pending>>
        BY <1>1, Zenon DEF Enqueue
  <2> QED BY <2>1, <1>0, QueuesUntouched
<1>2. CASE ~ (stopping \/ r \notin Registered)
  <2>1. /\ roundRobin' = IF queues[r] = <<>> THEN Append(roundRobin, r) ELSE roundRobin
        /\ queues' = [queues EXCEPT ![r] = Append(queues[r], l)]
        /\ pending' = [pending EXCEPT ![l] = "waiting"]
        /\ conn' = [conn EXCEPT ![l] = "enqueued"]
        /\ r \in Registered /\ conn[l] = "idle"
        BY <1>2 DEF Enqueue
  <2>2. l \notin Elements(queues[r])
    <3>1. pending[l] # "waiting"
          BY <2>1 DEF QueueInv, IdleConnectionsAskNothing
    <3> QED BY <3>1, <1>0, QueuedNow, Zenon
  <2>3. /\ queues'[r] = Append(queues[r], l)
        /\ \A q \in Runs \ {r} : queues'[q] = queues[q]
        BY <2>1, <1>0
  <2>4. queues'[r] # <<>> /\ Elements(queues'[r]) = Elements(queues[r]) \cup {l} /\ Once(queues'[r])
    <3>1. queues[r] \in Seq(Leaves) /\ Once(queues[r])
          BY <1>0, QueuedNow
    <3>2. /\ Append(queues[r], l) # <<>>
          /\ Elements(Append(queues[r], l)) = Elements(queues[r]) \cup {l}
          /\ Once(Append(queues[r], l))
      <4>1. \A s \in Seq(Leaves), x \in Leaves : Once(s) /\ x \notin Elements(s) =>
                /\ Append(s, x) # <<>>
                /\ Elements(Append(s, x)) = Elements(s) \cup {x}
                /\ Once(Append(s, x))
            BY Pushed
      <4> QED BY <4>1, <3>1, <2>2, Zenon
    <3> QED BY <3>2, <2>3
  <2>5. QueuesHoldWaiters'
    <3>1. \A q \in Runs : Once(queues'[q])
          BY <2>3, <2>4, QueuedNow, Zenon
    <3>2. ASSUME NEW q \in Runs, NEW m \in Elements(queues'[q])
          PROVE  RunOf[m] = q /\ pending'[m] = "waiting"
      <4>1. pending'[l] = "waiting" /\ \A k \in Leaves \ {l} : pending'[k] = pending[k]
            BY <2>1, <1>0
      <4>2. (m = l /\ q = r) \/ m \in Elements(queues[q])
            BY <3>2, <2>3, <2>4, Zenon
      <4>3. CASE m = l /\ q = r
            BY <4>1, <4>3, Zenon
      <4>4. CASE m \in Elements(queues[q])
        <5>1. m \in Leaves /\ RunOf[m] = q /\ pending[m] = "waiting"
              BY <4>4, QueuedNow, Zenon
        <5> QED BY <5>1, <4>1, Zenon
      <4> QED BY <4>2, <4>3, <4>4, Zenon
    <3> QED BY <3>1, <3>2, HeldWaiters, Zenon
  <2>6. RoundRobinIsExact'
    <3>1. {q \in Runs : queues'[q] # <<>>} = {q \in Runs : queues[q] # <<>>} \cup {r}
      <4>1. ASSUME NEW q \in Runs PROVE queues'[q] # <<>> <=> queues[q] # <<>> \/ q = r
            BY <2>3, <2>4, Zenon
      <4> QED BY <4>1, <1>0
    <3>2. CASE queues[r] = <<>>
      <4>1. r \notin Elements(roundRobin)
        <5>1. Elements(roundRobin) = {q \in Runs : queues[q] # <<>>}
              BY QueuedNow, Zenon
        <5> QED BY <5>1, <3>2
      <4>2. Elements(roundRobin') = Elements(roundRobin) \cup {r} /\ Once(roundRobin')
        <5>1. roundRobin' = Append(roundRobin, r)
              BY <3>2, <2>1
        <5>2. roundRobin \in Seq(Runs) /\ Once(roundRobin)
              BY QueuedNow, Zenon
        <5>3. /\ Elements(Append(roundRobin, r)) = Elements(roundRobin) \cup {r}
              /\ Once(Append(roundRobin, r))
              BY <4>1, <5>2, <1>0, Pushed
        <5> QED BY <5>1, <5>3
      <4>3. Elements(roundRobin) = {q \in Runs : queues[q] # <<>>}
            BY QueuedNow, Zenon
      <4> QED BY <4>2, <4>3, <3>1, ExactRound, Zenon
    <3>3. CASE queues[r] # <<>>
      <4>1. Elements(roundRobin) = {q \in Runs : queues[q] # <<>>} /\ Once(roundRobin)
            BY QueuedNow, Zenon
      <4>2. roundRobin' = roundRobin /\ r \in {q \in Runs : queues[q] # <<>>}
            BY <3>3, <2>1, <1>0
      <4> QED BY <4>1, <4>2, <3>1, ExactRound, Zenon
    <3> QED BY <3>2, <3>3
  <2>7. IdleConnectionsAskNothing'
        BY <2>1, <1>0 DEF QueueInv, IdleConnectionsAskNothing
  <2>8. EndedRunHoldsNothing'
        BY <2>1, <2>3, <1>0, Zenon DEF QueueInv, EndedRunHoldsNothing, Registered
  <2> QED BY <2>5, <2>6, <2>7, <2>8, <1>0 DEF QueueInv
<1> QED BY <1>1, <1>2

\* One grant: the run goes to the end of the round, or leaves it with its last
\* request.
LEMMA GrantKeepsQueues ==
    ASSUME QueueInv, BrokerTypeOK', JobsPersistCapacities', GrantOne
    PROVE  QueueInv'
<1> USE BrokerConstants
<1> DEFINE r == Head(roundRobin)
           l == Head(queues[r])
           rest == Tail(queues[r])
<1>0. /\ queues \in [Runs -> Seq(Leaves)] /\ roundRobin \in Seq(Runs)
      /\ pending \in [Leaves -> {"none", "waiting", "granted", "denied"}]
      /\ conn \in [Leaves -> {"idle", "enqueued", "look", "asleep", "holding", "over"}]
      /\ roundRobin # <<>> /\ run' = run
  <2>1. roundRobin # <<>> /\ run' = run
        BY Zenon DEF GrantOne, MayGrant
  <2> QED BY <2>1, QueuedNow, Zenon
<1>1. r \in Runs /\ queues[r] # <<>> /\ queues[r] \in Seq(Leaves) /\ l \in Leaves
      BY <1>0, NextInRound DEF QueueInv
<1>2. /\ queues' = [queues EXCEPT ![r] = rest]
      /\ roundRobin' = IF rest = <<>> THEN Tail(roundRobin) ELSE Append(Tail(roundRobin), r)
      BY Zenon DEF GrantOne
<1>3. Once(queues[r]) /\ Once(roundRobin)
      BY <1>1, QueuedNow, Zenon
<1>4. /\ rest \in Seq(Leaves) /\ Once(rest) /\ l \notin Elements(rest)
      /\ Elements(queues[r]) = Elements(rest) \cup {l}
      BY <1>1, <1>3, Popped, Zenon
<1>5. /\ Tail(roundRobin) \in Seq(Runs) /\ Once(Tail(roundRobin)) /\ r \notin Elements(Tail(roundRobin))
      /\ Elements(roundRobin) = Elements(Tail(roundRobin)) \cup {r}
      BY <1>0, <1>3, Popped
<1>6. queues'[r] = rest /\ \A q \in Runs \ {r} : queues'[q] = queues[q]
      BY <1>0, <1>1, <1>2
<1>7. \A m \in Leaves \ {l} : pending'[m] = pending[m]
      BY <1>0, <1>1, Zenon DEF GrantOne
<1>8. QueuesHoldWaiters'
  <2>1. ASSUME NEW q \in Runs
        PROVE  /\ Once(queues'[q])
               /\ \A m \in Elements(queues'[q]) : RunOf[m] = q /\ pending'[m] = "waiting"
    <3>1. Elements(queues[q]) \subseteq Leaves /\ Once(queues[q])
          BY QueuedNow, Zenon
    <3>2. \A m \in Elements(queues[q]) : RunOf[m] = q /\ pending[m] = "waiting"
          BY QueuedNow, Zenon
    <3>3. l \in Elements(queues[r]) /\ RunOf[l] = r
          BY <1>1, <1>4, QueuedNow, Zenon
    <3>4. CASE q = r
          BY <3>1, <3>2, <3>4, <1>4, <1>6, <1>7, Zenon
    <3>5. CASE q # r
      <4>1. l \notin Elements(queues[q])
            BY <3>2, <3>3, <3>5
      <4>2. queues'[q] = queues[q] /\ Once(queues[q])
            BY <3>1, <3>5, <1>6
      <4> QED BY <4>1, <4>2, <3>1, <3>2, <1>7, Zenon
    <3> QED BY <3>4, <3>5, Zenon
  <2> QED BY <2>1, HeldWaiters, Zenon
<1>9. RoundRobinIsExact'
  <2>0. Elements(roundRobin) = {q \in Runs : queues[q] # <<>>}
        BY QueuedNow, Zenon
  <2>1. CASE rest = <<>>
    <3>1. {q \in Runs : queues'[q] # <<>>} = Elements(roundRobin) \ {r}
          BY <2>0, <2>1, <1>6, Zenon
    <3>2. roundRobin' = Tail(roundRobin)
          BY <2>1, <1>2
    <3>3. Elements(Tail(roundRobin)) = Elements(roundRobin) \ {r}
          BY <1>5
    <3> QED BY <3>1, <3>2, <3>3, <1>5, ExactRound, Zenon
  <2>2. CASE rest # <<>>
    <3>1. {q \in Runs : queues'[q] # <<>>} = Elements(roundRobin)
          BY <2>0, <2>2, <1>1, <1>6, Zenon
    <3>2. /\ Elements(Append(Tail(roundRobin), r)) = Elements(Tail(roundRobin)) \cup {r}
          /\ Once(Append(Tail(roundRobin), r))
      <4>1. \A t \in Seq(Runs), q \in Runs : Once(t) /\ q \notin Elements(t) =>
                Elements(Append(t, q)) = Elements(t) \cup {q} /\ Once(Append(t, q))
            BY Pushed
      <4> HIDE DEF r
      <4> QED BY <4>1, <1>1, <1>5, Zenon
    <3> QED BY <2>2, <3>1, <3>2, <1>2, <1>5, ExactRound
  <2> QED BY <2>1, <2>2
<1>10. IdleConnectionsAskNothing'
  <2>1. conn[l] # "idle"
    <3>1. pending[l] = "waiting"
          BY <1>1, <1>4, QueuedNow, Zenon
    <3> QED BY <3>1, <1>1 DEF QueueInv, IdleConnectionsAskNothing
  <2>2. \A m \in Leaves : conn'[m] = "idle" => conn[m] = "idle"
    <3>1. conn' \in {conn, [conn EXCEPT ![lock.by] = "over"]}
          BY DEF GrantOne
    <3> QED BY <3>1, <1>0
  <2> QED BY <2>1, <2>2, <1>1, <1>7 DEF QueueInv, IdleConnectionsAskNothing
<1>11. EndedRunHoldsNothing'
  <2>1. r \in Registered
        BY <1>1 DEF QueueInv, EndedRunHoldsNothing
  <2>2. RunOf[l] = r
        BY <1>1, <1>4, QueuedNow, Zenon
  <2>3. active' \subseteq active \cup {l}
        BY DEF GrantOne
  <2> QED BY <2>1, <2>2, <2>3, <1>0, <1>6, Zenon DEF QueueInv, EndedRunHoldsNothing, Registered
<1> QED BY <1>8, <1>9, <1>10, <1>11 DEF QueueInv

\* unregister_run: the run leaves the round with all it has.
LEMMA UnregisterKeepsQueues ==
    ASSUME QueueInv, BrokerTypeOK', JobsPersistCapacities', NEW r \in Runs, UnregisterRun(r)
    PROVE  QueueInv'
<1> USE BrokerConstants
<1>0. /\ queues \in [Runs -> Seq(Leaves)] /\ roundRobin \in Seq(Runs)
      /\ pending \in [Leaves -> {"none", "waiting", "granted", "denied"}]
      /\ run \in [Runs -> {"new", "registered", "ended"}]
      /\ conn' = conn
  <2>1. run \in [Runs -> {"new", "registered", "ended"}] /\ conn' = conn
        BY Zenon DEF QueueInv, BrokerTypeOK, UnregisterRun
  <2> QED BY <2>1, QueuedNow, Zenon
<1>1. /\ queues' = [queues EXCEPT ![r] = <<>>]
      /\ roundRobin' = Without(roundRobin, r)
      /\ pending' = OutcomesWithout(r)
      /\ active' = PermitsOfOthers(r)
      /\ run' = [run EXCEPT ![r] = "ended"]
      BY DEF UnregisterRun
<1>2. queues'[r] = <<>> /\ \A q \in Runs \ {r} : queues'[q] = queues[q]
      BY <1>0, <1>1
<1>3. Elements(<<>>) = {} /\ Once(<<>>)
      BY DEF Elements, Once
<1>4. QueuesHoldWaiters'
  <2>1. ASSUME NEW q \in Runs \ {r}, NEW m \in Elements(queues[q])
        PROVE  RunOf[m] = q /\ pending'[m] = "waiting"
    <3>1. m \in Leaves
          BY QueuedNow, Zenon
    <3>2. RunOf[m] = q /\ pending[m] = "waiting" /\ m \notin Elements(queues[r])
          BY QueuedNow
    <3> QED BY <3>1, <3>2, <1>1 DEF OutcomesWithout
  <2>2. \A q \in Runs : Once(queues[q])
        BY QueuedNow, Zenon
  <2> QED BY <2>1, <2>2, <1>2, <1>3, HeldWaiters, Zenon
<1>5. RoundRobinIsExact'
  <2>1. Elements(roundRobin) = {q \in Runs : queues[q] # <<>>} /\ Once(roundRobin)
        BY QueuedNow, Zenon
  <2>2. {q \in Runs : queues'[q] # <<>>} = Elements(roundRobin) \ {r}
        BY <2>1, <1>2, Zenon
  <2>3. Elements(roundRobin') = Elements(roundRobin) \ {r} /\ Once(roundRobin')
        BY <2>1, <1>0, <1>1, Retained
  <2> QED BY <2>2, <2>3, ExactRound, Zenon
<1>6. IdleConnectionsAskNothing'
  <2>1. ASSUME NEW m \in Leaves, pending[m] = "none" PROVE pending'[m] = "none"
    <3>1. m \notin Elements(queues[r])
          BY <2>1, QueuedNow
    <3> QED BY <2>1, <3>1, <1>1 DEF OutcomesWithout
  <2> QED BY <2>1, <1>0 DEF QueueInv, IdleConnectionsAskNothing
<1>7. EndedRunHoldsNothing'
      BY <1>0, <1>1, <1>2 DEF QueueInv, EndedRunHoldsNothing, Registered, PermitsOfOthers
<1> QED BY <1>4, <1>5, <1>6, <1>7 DEF QueueInv

\* cancel_pending: the request leaves its queue, and its run the round with it
\* when it was the last.
LEMMA CancelKeepsQueues ==
    ASSUME QueueInv, BrokerTypeOK', JobsPersistCapacities', NEW l \in Leaves, CancelPending(l)
    PROVE  QueueInv'
<1> USE BrokerConstants
<1> DEFINE r == RunOf[l]
           rest == Without(queues[r], l)
<1>0. /\ queues \in [Runs -> Seq(Leaves)] /\ roundRobin \in Seq(Runs)
      /\ pending \in [Leaves -> {"none", "waiting", "granted", "denied"}]
      /\ conn \in [Leaves -> {"idle", "enqueued", "look", "asleep", "holding", "over"}]
      /\ run' = run /\ r \in Runs
  <2>1. run' = run
        BY Zenon DEF CancelPending
  <2> QED BY <2>1, QueuedNow
<1>1. /\ queues' = [queues EXCEPT ![r] = rest]
      /\ roundRobin' = IF queues[r] # <<>> /\ rest = <<>> THEN Without(roundRobin, r) ELSE roundRobin
      /\ pending' = [pending EXCEPT ![l] = "none"]
      /\ conn' = [conn EXCEPT ![l] = "over"]
      BY Zenon DEF CancelPending, RoundCancelLeaves
<1>2. queues'[r] = rest /\ \A q \in Runs \ {r} : queues'[q] = queues[q]
      BY <1>0, <1>1
<1>3. queues[r] \in Seq(Leaves) /\ Once(queues[r])
      BY <1>0, QueuedNow
<1>4. rest \in Seq(Leaves) /\ Elements(rest) = Elements(queues[r]) \ {l} /\ Once(rest)
      BY <1>3, Retained
<1>5. QueuesHoldWaiters'
  <2>1. ASSUME NEW q \in Runs
        PROVE  /\ Once(queues'[q])
               /\ \A m \in Elements(queues'[q]) : RunOf[m] = q /\ pending'[m] = "waiting"
    <3>1. /\ Elements(queues[q]) \subseteq Leaves
          /\ \A m \in Elements(queues[q]) : RunOf[m] = q /\ pending[m] = "waiting"
          BY QueuedNow, Zenon
    <3>2. \A m \in Leaves \ {l} : pending'[m] = pending[m]
          BY <1>0, <1>1
    <3>3. CASE q = r
          BY <3>1, <3>2, <3>3, <1>2, <1>4, Zenon
    <3>4. CASE q # r
      <4>1. l \notin Elements(queues[q])
            BY <3>1, <3>4, Zenon
      <4>2. queues'[q] = queues[q] /\ Once(queues[q])
            BY <3>4, <1>2, QueuedNow, Zenon
      <4> QED BY <4>1, <4>2, <3>1, <3>2, Zenon
    <3> QED BY <3>3, <3>4, Zenon
  <2> QED BY <2>1, HeldWaiters, Zenon
<1>6. RoundRobinIsExact'
  <2>1. Elements(roundRobin) = {q \in Runs : queues[q] # <<>>} /\ Once(roundRobin)
        BY QueuedNow, Zenon
  <2>2. CASE queues[r] # <<>> /\ rest = <<>>
    <3>1. {q \in Runs : queues'[q] # <<>>} = Elements(roundRobin) \ {r}
          BY <2>1, <2>2, <1>2, Zenon
    <3>2. roundRobin' = Without(roundRobin, r)
          BY <2>2, <1>1
    <3>3. Elements(Without(roundRobin, r)) = Elements(roundRobin) \ {r} /\ Once(Without(roundRobin, r))
          BY <2>1, <1>0, Retained
    <3> QED BY <3>1, <3>2, <3>3, ExactRound, Zenon
  <2>3. CASE queues[r] = <<>> \/ rest # <<>>
    <3>1. queues[r] = <<>> <=> rest = <<>>
          BY <2>3, <1>3, <1>4, NothingQueued, Zenon
    <3>2. {q \in Runs : queues'[q] # <<>>} = {q \in Runs : queues[q] # <<>>}
          BY <3>1, <1>2, Zenon
    <3>3. roundRobin' = roundRobin
          BY <2>3, <1>1
    <3> QED BY <2>1, <3>2, <3>3, ExactRound, Zenon
  <2> QED BY <2>2, <2>3
<1>7. IdleConnectionsAskNothing'
      BY <1>0, <1>1, Zenon DEF QueueInv, IdleConnectionsAskNothing
<1>8. active' \subseteq active
      BY DEF CancelPending, PermitsCancelLeaves
<1>9. EndedRunHoldsNothing'
  <2>1. queues[r] = <<>> => rest = <<>>
        BY <1>3, <1>4, NothingQueued, Zenon
  <2> QED BY <2>1, <1>0, <1>2, <1>8, Zenon DEF QueueInv, EndedRunHoldsNothing, Registered
<1> QED BY <1>5, <1>6, <1>7, <1>9 DEF QueueInv

\* stop clears the queues, the round and the permits together.
LEMMA StopKeepsQueues ==
    ASSUME QueueInv, BrokerTypeOK', JobsPersistCapacities', Stop
    PROVE  QueueInv'
<1>0. /\ queues' = [r \in Runs |-> <<>>] /\ roundRobin' = <<>> /\ active' = {}
      /\ pending' = [l \in Leaves |-> IF pending[l] = "waiting" THEN "denied" ELSE pending[l]]
      /\ conn' = conn
      BY DEF Stop
<1>1. Elements(<<>>) = {} /\ Once(<<>>)
      BY DEF Elements, Once
<1>2. \A r \in Runs : queues'[r] = <<>>
      BY <1>0
<1>3. QueuesHoldWaiters'
      BY <1>1, <1>2, HeldWaiters
<1>4. RoundRobinIsExact'
      BY <1>0, <1>1, <1>2, ExactRound
<1>5. IdleConnectionsAskNothing'
      BY <1>0 DEF QueueInv, IdleConnectionsAskNothing
<1>6. EndedRunHoldsNothing'
      BY <1>0, <1>2 DEF EndedRunHoldsNothing
<1> QED BY <1>3, <1>4, <1>5, <1>6 DEF QueueInv

\* Every method and every connection step keeps the queue invariant.
LEMMA QueueInvStep ==
    ASSUME QueueInv, [BrokerNext]_brokerVars
    PROVE  QueueInv'
<1>t. BrokerTypeOK'
  <2>1. CASE UNCHANGED brokerVars
        BY <2>1, Zenon DEF QueueInv, BrokerTypeOK, brokerVars
  <2>2. CASE \E l \in Leaves : ConnectionStep(l)
        BY <2>2, ConnectionTyped DEF QueueInv
  <2>3. CASE GrantOne \/ GrantEnds
        BY <2>3, GrantingTyped DEF QueueInv
  <2> QED BY <2>1, <2>2, <2>3, MethodTyped DEF QueueInv, BrokerNext
<1>j. JobsPersistCapacities'
      BY <1>t, JobsStep
<1>0. /\ pending \in [Leaves -> {"none", "waiting", "granted", "denied"}]
      /\ conn \in [Leaves -> {"idle", "enqueued", "look", "asleep", "holding", "over"}]
      /\ run \in [Runs -> {"new", "registered", "ended"}]
      BY DEF QueueInv, BrokerTypeOK
<1>1. ASSUME UNCHANGED <<queues, roundRobin, pending, active, conn, run>>
      PROVE  QueueInv'
      BY <1>1, <1>t, <1>j, QueuesUntouched
<1>2. CASE UNCHANGED brokerVars
      BY <1>1, <1>2 DEF brokerVars
<1>3. ASSUME NEW r \in Runs, RegisterRun(r)
      PROVE  QueueInv'
      BY <1>0, <1>3, <1>t, <1>j, QueuesUntouched DEF RegisterRun, queueVars
<1>4. ASSUME NEW l \in Leaves, ConnectionStep(l)
      PROVE  QueueInv'
  <2>1. CASE Arm(l)
        BY <1>0, <2>1, <1>t, <1>j, QueuesUntouched, Zenon DEF Arm, queueVars
  <2>2. CASE TakeOutcome(l)
    <3>1. /\ \A m \in Leaves : pending[m] = "waiting" => pending'[m] = "waiting"
          /\ \A m \in Leaves : conn'[m] = "idle" => conn[m] = "idle" /\ pending'[m] = pending[m]
          /\ UNCHANGED <<queues, roundRobin, run, active>>
          BY <1>0, <2>2 DEF TakeOutcome
    <3> QED BY <3>1, <1>t, <1>j, QueuesUntouched, Zenon
  <2>3. CASE Release(l)
    <3>1. /\ \A m \in Leaves : conn'[m] = "idle" => conn[m] = "idle" /\ pending'[m] = pending[m]
          /\ UNCHANGED <<queues, roundRobin, run, pending>>
          /\ active' \subseteq active
          BY <1>0, <2>3 DEF Release
    <3> QED BY <3>1, <1>t, <1>j, QueuesUntouched, Zenon
  <2> QED BY <1>4, <2>1, <2>2, <2>3, <1>t, <1>j, EnqueueKeepsQueues, CancelKeepsQueues
          DEF ConnectionStep
<1>5. CASE GrantEnds
      BY <1>1, <1>5 DEF GrantEnds, queueVars
<1>6. ASSUME NEW t \in Threads, PersistAndNotify(t)
      PROVE  QueueInv'
      BY <1>1, <1>6 DEF PersistAndNotify, queueVars
<1>7. ASSUME NEW c \in Caps, SetCap(c)
      PROVE  QueueInv'
      BY <1>1, <1>7 DEF SetCap, queueVars
<1>8. ASSUME NEW sample \in Samples, RecordSample(sample)
      PROVE  QueueInv'
      BY <1>1, <1>8 DEF RecordSample, queueVars
<1> QED BY <1>2, <1>3, <1>4, <1>5, <1>6, <1>7, <1>8, <1>t, <1>j,
           GrantKeepsQueues, UnregisterKeepsQueues, StopKeepsQueues
        DEF BrokerNext

\* The queue invariant holds in every reachable state of the broker.
LEMMA QueueInvariance == BrokerSpec => []QueueInv
<1>1. BrokerInit => QueueInv
      BY QueueInvInit
<1>2. QueueInv /\ [BrokerNext]_brokerVars => QueueInv'
      BY QueueInvStep
<1> QED BY <1>1, <1>2, PTL DEF BrokerSpec

\* Every variable of the broker keeps its type; the capacity stays in 1..CAP_MAX.
THEOREM BrokerTyped == BrokerSpec => []BrokerTypeOK
<1>1. QueueInv => BrokerTypeOK
      BY DEF QueueInv
<1> QED BY <1>1, QueueInvariance, PTL

\* grant_ready never pops a run without a request, nor forgets one that has.
THEOREM RoundIsExact == BrokerSpec => []RoundRobinIsExact
<1>1. QueueInv => RoundRobinIsExact
      BY DEF QueueInv
<1> QED BY <1>1, QueueInvariance, PTL

\* unregister_run leaves neither a permit nor a queue, even when permit IDs
\* cannot be drawn and adjustments cannot be persisted.
THEOREM EndedRunsHoldNothing == BrokerSpec => []EndedRunHoldsNothing
<1>1. QueueInv => EndedRunHoldsNothing
      BY DEF QueueInv
<1> QED BY <1>1, QueueInvariance, PTL

-----------------------------------------------------------------------------
(* The connections, when a permit ID can always be drawn.                  *)

\* A request that is queued or granted has a connection to hear of it, one
\* that waits is queued, and a permit is held or about to be taken.
Owned(l) ==
    /\ pending[l] \in {"waiting", "granted"} => conn[l] \in {"enqueued", "look", "asleep"}
    /\ pending[l] = "waiting" => l \in Elements(queues[RunOf[l]])
    /\ l \in active => \/ conn[l] = "holding"
                       \/ pending[l] = "granted" /\ conn[l] \in {"enqueued", "look", "asleep"}

OwnersInv == \A l \in Leaves : Owned(l)

\* Owned of the next state, in the terms of the queue lemmas.
LEMMA OwnedNext ==
    ASSUME NEW l \in Leaves
    PROVE  Owned(l)' <=>
               /\ pending'[l] \in {"waiting", "granted"} => conn'[l] \in {"enqueued", "look", "asleep"}
               /\ pending'[l] = "waiting" => l \in Elements(queues'[RunOf[l]])
               /\ l \in active' => \/ conn'[l] = "holding"
                                   \/ pending'[l] = "granted" /\ conn'[l] \in {"enqueued", "look", "asleep"}
BY Zenon DEF Owned, Elements

\* A request that a step does not concern keeps its owner.
LEMMA OwnedKept ==
    ASSUME NEW l \in Leaves, Owned(l), pending'[l] = pending[l], conn'[l] = conn[l],
           l \in active' => l \in active,
           l \in Elements(queues[RunOf[l]]) => l \in Elements(queues'[RunOf[l]])
    PROVE  Owned(l)'
<1>1. /\ pending[l] \in {"waiting", "granted"} => conn[l] \in {"enqueued", "look", "asleep"}
      /\ pending[l] = "waiting" => l \in Elements(queues[RunOf[l]])
      /\ l \in active => \/ conn[l] = "holding"
                         \/ pending[l] = "granted" /\ conn[l] \in {"enqueued", "look", "asleep"}
      BY Zenon DEF Owned
<1> QED BY <1>1, OwnedNext, Zenon

\* The requests of a connection step other than its own, and its own.
LEMMA ConnectionKeepsOwners ==
    ASSUME QueueInv, OwnersInv, NEW l \in Leaves, ConnectionStep(l)
    PROVE  OwnersInv'
<1> USE BrokerConstants
<1>0. /\ RunOf[l] \in Runs
      /\ queues \in [Runs -> Seq(Leaves)]
      /\ pending \in [Leaves -> {"none", "waiting", "granted", "denied"}]
      /\ conn \in [Leaves -> {"idle", "enqueued", "look", "asleep", "holding", "over"}]
      /\ Owned(l)
      BY QueuedNow, Zenon DEF OwnersInv
<1>1. ASSUME NEW m \in Leaves, m # l PROVE Owned(m)'
  <2>1. Owned(m) /\ RunOf[m] \in Runs
        BY Zenon DEF OwnersInv
  <2>2. pending'[m] = pending[m] /\ conn'[m] = conn[m] /\ (m \in active' => m \in active)
    <3>1. pending'[m] = pending[m]
          BY <1>0, <1>1, Zenon DEF ConnectionStep, Enqueue, Arm, TakeOutcome, CancelPending, Release,
                                   PermitsCancelLeaves, queueVars
    <3>2. conn'[m] = conn[m]
          BY <1>0, <1>1, Zenon DEF ConnectionStep, Enqueue, Arm, TakeOutcome, CancelPending, Release,
                                   PermitsCancelLeaves
    <3>3. m \in active' => m \in active
          BY <1>1, Zenon DEF ConnectionStep, Enqueue, Arm, TakeOutcome, CancelPending, Release,
                             PermitsCancelLeaves, queueVars
    <3> QED BY <3>1, <3>2, <3>3, Zenon
  <2>3. m \in Elements(queues[RunOf[m]]) => m \in Elements(queues'[RunOf[m]])
    <3>1. /\ queues[RunOf[l]] \in Seq(Leaves) /\ Once(queues[RunOf[l]])
          /\ Elements(Append(queues[RunOf[l]], l)) = Elements(queues[RunOf[l]]) \cup {l}
          /\ Elements(Without(queues[RunOf[l]], l)) = Elements(queues[RunOf[l]]) \ {l}
      <4>1. queues[RunOf[l]] \in Seq(Leaves)
            BY <1>0
      <4>2. Once(queues[RunOf[l]])
            BY <1>0, QueuedNow, Zenon
      <4>3. Elements(Append(queues[RunOf[l]], l)) = Elements(queues[RunOf[l]]) \cup {l}
            BY <4>1, Pushed
      <4>4. Elements(Without(queues[RunOf[l]], l)) = Elements(queues[RunOf[l]]) \ {l}
            BY <4>1, <4>2, Retained, Zenon
      <4> QED
            BY <4>1, <4>2, <4>3, <4>4
    <3>2. \/ queues' = queues
          \/ queues' = [queues EXCEPT ![RunOf[l]] = Append(queues[RunOf[l]], l)]
          \/ queues' = [queues EXCEPT ![RunOf[l]] = Without(queues[RunOf[l]], l)]
          BY Zenon DEF ConnectionStep, Enqueue, Arm, TakeOutcome, CancelPending, Release, queueVars
    <3>3. \/ queues'[RunOf[m]] = queues[RunOf[m]]
          \/ RunOf[m] = RunOf[l] /\ queues'[RunOf[l]] = Append(queues[RunOf[l]], l)
          \/ RunOf[m] = RunOf[l] /\ queues'[RunOf[l]] = Without(queues[RunOf[l]], l)
          BY <3>2, <2>1, <1>0, Zenon
    <3> QED BY <3>1, <3>3, <1>1, Zenon
  <2> QED BY <2>1, <2>2, <2>3, OwnedKept, Zenon
<1>2. Owned(l)'
  <2>0. /\ pending[l] \in {"waiting", "granted"} => conn[l] \in {"enqueued", "look", "asleep"}
        /\ pending[l] = "waiting" => l \in Elements(queues[RunOf[l]])
        /\ l \in active => \/ conn[l] = "holding"
                           \/ pending[l] = "granted" /\ conn[l] \in {"enqueued", "look", "asleep"}
        /\ conn[l] = "idle" => pending[l] = "none"
        BY <1>0, Zenon DEF Owned, QueueInv, IdleConnectionsAskNothing
  <2>1. CASE Enqueue(l)
    <3>1. conn[l] = "idle" /\ active' = active
          BY <2>1, Zenon DEF Enqueue
    <3>2. CASE conn'[l] = "over" /\ pending' = pending
          BY <2>0, <3>1, <3>2, OwnedNext, Zenon
    <3>3. CASE conn'[l] = "enqueued" /\ pending'[l] = "waiting" /\ l \in Elements(queues'[RunOf[l]])
          BY <2>0, <3>1, <3>3, OwnedNext, Zenon
    <3>4. CASE /\ queues' = [queues EXCEPT ![RunOf[l]] = Append(queues[RunOf[l]], l)]
               /\ pending' = [pending EXCEPT ![l] = "waiting"]
               /\ conn' = [conn EXCEPT ![l] = "enqueued"]
      <4>1. /\ conn'[l] = "enqueued" /\ pending'[l] = "waiting"
            /\ queues'[RunOf[l]] = Append(queues[RunOf[l]], l)
            BY <3>4, <1>0
      <4>2. l \in Elements(Append(queues[RunOf[l]], l))
            BY <1>0, Pushed
      <4> QED BY <3>3, <4>1, <4>2, Zenon
    <3>5. \/ conn' = [conn EXCEPT ![l] = "over"] /\ pending' = pending
          \/ /\ queues' = [queues EXCEPT ![RunOf[l]] = Append(queues[RunOf[l]], l)]
             /\ pending' = [pending EXCEPT ![l] = "waiting"]
             /\ conn' = [conn EXCEPT ![l] = "enqueued"]
          BY <2>1, Zenon DEF Enqueue
    <3>6. conn' = [conn EXCEPT ![l] = "over"] => conn'[l] = "over"
          BY <1>0
    <3> QED BY <3>2, <3>4, <3>5, <3>6, Zenon
  <2>2. CASE Arm(l)
    <3>1. /\ conn[l] \in {"enqueued", "asleep"} /\ conn'[l] = "look"
          /\ pending' = pending /\ queues' = queues /\ active' = active
          BY <2>2, <1>0, Zenon DEF Arm, queueVars
    <3> QED BY <2>0, <3>1, OwnedNext, Zenon
  <2>3. CASE TakeOutcome(l)
    <3>1. /\ conn[l] = "look" /\ queues' = queues /\ active' = active
          /\ pending[l] = "waiting" => conn'[l] = "asleep" /\ pending'[l] = "waiting"
          /\ pending[l] = "granted" => conn'[l] = "holding"
          /\ pending[l] # "waiting" => pending'[l] = "none"
          BY <2>3, <1>0 DEF TakeOutcome
    <3> QED BY <2>0, <3>1, OwnedNext, Zenon
  <2>4. CASE CancelPending(l)
    <3>1. /\ conn[l] = "asleep" /\ conn'[l] = "over" /\ pending'[l] = "none"
          /\ l \in active' => l \in active /\ pending[l] # "granted"
          BY <2>4, <1>0, Zenon DEF CancelPending, PermitsCancelLeaves
    <3> QED BY <2>0, <3>1, OwnedNext, Zenon
  <2>5. CASE Release(l)
    <3>1. conn[l] = "holding" /\ pending' = pending /\ queues' = queues /\ l \notin active'
          BY <2>5, Zenon DEF Release
    <3> QED BY <2>0, <3>1, OwnedNext, Zenon
  <2> QED BY <2>1, <2>2, <2>3, <2>4, <2>5, Zenon DEF ConnectionStep
<1> QED BY <1>1, <1>2, Zenon DEF OwnersInv

\* A grant: the request that leaves its queue has a connection.
LEMMA GrantKeepsOwners ==
    ASSUME ~RandomMayFail, QueueInv, OwnersInv, GrantOne
    PROVE  OwnersInv'
<1> USE BrokerConstants
<1>1. roundRobin # <<>>
      BY Zenon DEF GrantOne, MayGrant
<1>2. PICK r \in Runs, l \in Leaves :
          /\ r = Head(roundRobin) /\ l = Head(queues[r])
          /\ queues[r] # <<>> /\ queues[r] \in Seq(Leaves)
      BY <1>1, NextInRound DEF QueueInv
<1>3. /\ queues' = [queues EXCEPT ![r] = Tail(queues[r])]
      /\ active' = active \cup {l} /\ pending' = [pending EXCEPT ![l] = "granted"] /\ conn' = conn
      BY <1>2, Zenon DEF GrantOne
<1>4. Elements(queues[r]) = Elements(Tail(queues[r])) \cup {l}
      BY <1>2, Popped, Zenon
<1>5. /\ pending \in [Leaves -> {"none", "waiting", "granted", "denied"}]
      /\ queues \in [Runs -> Seq(Leaves)]
      /\ pending[l] = "waiting"
      BY <1>2, <1>4, QueuedNow, Zenon
<1>6. /\ pending'[l] = "granted" /\ \A m \in Leaves \ {l} : pending'[m] = pending[m]
      /\ queues'[r] = Tail(queues[r]) /\ \A q \in Runs \ {r} : queues'[q] = queues[q]
      BY <1>2, <1>3, <1>5
<1>7. Owned(l)'
  <2>1. conn[l] \in {"enqueued", "look", "asleep"}
        BY <1>2, <1>5, Zenon DEF OwnersInv, Owned
  <2>2. conn'[l] \in {"enqueued", "look", "asleep"} /\ pending'[l] = "granted" /\ l \in Leaves
        BY <2>1, <1>2, <1>3, <1>6, Zenon
  <2> QED BY <2>2, OwnedNext, Zenon
<1>8. ASSUME NEW m \in Leaves, m # l PROVE Owned(m)'
  <2>1. Owned(m) /\ RunOf[m] \in Runs
        BY Zenon DEF OwnersInv
  <2>2. pending'[m] = pending[m] /\ conn'[m] = conn[m] /\ (m \in active' => m \in active)
        BY <1>3, <1>6, <1>8, Zenon
  <2>3. m \in Elements(queues[RunOf[m]]) => m \in Elements(queues'[RunOf[m]])
        BY <1>4, <1>6, <1>8, <2>1, Zenon
  <2> QED BY <2>1, <2>2, <2>3, OwnedKept, Zenon
<1>9. \A m \in Leaves : Owned(m)'
  <2> SUFFICES ASSUME NEW m \in Leaves PROVE Owned(m)'
      OBVIOUS
  <2>1. CASE m = l
        BY <1>7, <2>1
  <2> QED BY <1>8, <2>1
<1> QED BY <1>9, Zenon DEF OwnersInv

\* unregister_run and stop decide every request they take from a queue.
LEMMA ClearingKeepsOwners ==
    ASSUME QueueInv, OwnersInv, (\E r \in Runs : UnregisterRun(r)) \/ Stop
    PROVE  OwnersInv'
<1> USE BrokerConstants
<1>0. /\ queues \in [Runs -> Seq(Leaves)]
      /\ pending \in [Leaves -> {"none", "waiting", "granted", "denied"}]
      BY QueuedNow, Zenon
<1>1. ASSUME NEW r \in Runs, UnregisterRun(r), NEW m \in Leaves PROVE Owned(m)'
  <2>1. /\ queues' = [queues EXCEPT ![r] = <<>>] /\ pending' = OutcomesWithout(r)
        /\ active' = PermitsOfOthers(r) /\ conn' = conn
        BY <1>1, Zenon DEF UnregisterRun
  <2>2. Owned(m) /\ RunOf[m] \in Runs
        BY Zenon DEF OwnersInv
  <2>3. CASE m \in Elements(queues[r])
    <3>1. RunOf[m] = r /\ pending'[m] = "denied" /\ m \notin active'
      <4>1. RunOf[m] = r
            BY <2>3, QueuedNow, Zenon
      <4> QED BY <4>1, <2>1, <2>3 DEF OutcomesWithout, PermitsOfOthers
    <3> QED BY <3>1, OwnedNext, Zenon
  <2>4. CASE m \notin Elements(queues[r])
    <3>1. pending'[m] = pending[m] /\ (m \in active' => m \in active)
          BY <2>1, <2>4, Zenon DEF OutcomesWithout, PermitsOfOthers
    <3>2. \A q \in Runs \ {r} : queues'[q] = queues[q]
          BY <2>1, <1>0
    <3>3. m \in Elements(queues[RunOf[m]]) => m \in Elements(queues'[RunOf[m]])
          BY <3>2, <2>2, <2>4, Zenon
    <3> QED BY <3>1, <3>3, <2>1, <2>2, OwnedKept, Zenon
  <2> QED BY <2>3, <2>4, Zenon
<1>2. ASSUME Stop, NEW m \in Leaves PROVE Owned(m)'
  <2>1. /\ pending'[m] = IF pending[m] = "waiting" THEN "denied" ELSE pending[m]
        /\ active' = {} /\ conn' = conn
        BY <1>2, Zenon DEF Stop
  <2>2. pending[m] \in {"waiting", "granted"} => conn[m] \in {"enqueued", "look", "asleep"}
        BY Zenon DEF OwnersInv, Owned
  <2> QED BY <2>1, <2>2, OwnedNext, Zenon
<1> QED BY <1>1, <1>2, Zenon DEF OwnersInv

\* Every step keeps the owners, and the rest leaves the requests alone.
LEMMA OwnersStep ==
    ASSUME ~RandomMayFail, QueueInv, OwnersInv, [BrokerNext]_brokerVars
    PROVE  OwnersInv'
<1>1. ASSUME pending' = pending, conn' = conn, active' = active, queues' = queues
      PROVE  OwnersInv'
      BY <1>1, OwnedKept, Zenon DEF OwnersInv
<1>2. CASE UNCHANGED brokerVars
      BY <1>1, <1>2 DEF brokerVars
<1>3. ASSUME NEW r \in Runs, RegisterRun(r) PROVE OwnersInv'
      BY <1>1, <1>3 DEF RegisterRun, queueVars
<1>4. CASE GrantEnds
      BY <1>1, <1>4 DEF GrantEnds, queueVars
<1>5. ASSUME NEW t \in Threads, PersistAndNotify(t) PROVE OwnersInv'
      BY <1>1, <1>5, Zenon DEF PersistAndNotify, queueVars
<1>6. ASSUME NEW c \in Caps, SetCap(c) PROVE OwnersInv'
      BY <1>1, <1>6 DEF SetCap, queueVars
<1>7. ASSUME NEW sample \in Samples, RecordSample(sample) PROVE OwnersInv'
      BY <1>1, <1>7 DEF RecordSample, queueVars
<1> QED BY <1>2, <1>3, <1>4, <1>5, <1>6, <1>7, ConnectionKeepsOwners, GrantKeepsOwners,
           ClearingKeepsOwners, Zenon DEF BrokerNext

\* Owners at every reachable state of a broker whose permit IDs can be drawn.
LEMMA OwnersInvariance == ASSUME ~RandomMayFail PROVE BrokerSpec => []OwnersInv
<1>1. BrokerInit => OwnersInv
      BY DEF BrokerInit, OwnersInv, Owned
<1>2. QueueInv /\ OwnersInv /\ [BrokerNext]_brokerVars => OwnersInv'
      BY OwnersStep
<1> QED BY <1>1, <1>2, QueueInvariance, PTL DEF BrokerSpec

\* Unless drawing a permit ID fails, a request waits exactly as long as it is
\* in the queue of its run: no method drops it without deciding about it.
THEOREM WaitersAreQueued == ASSUME ~RandomMayFail PROVE BrokerSpec => []WaiterIsQueued
<1>1. QueueInv /\ OwnersInv => WaiterIsQueued
  <2> SUFFICES ASSUME QueueInv, OwnersInv, NEW l \in Leaves
               PROVE  pending[l] = "waiting" <=> l \in Elements(queues[RunOf[l]])
      BY Zenon DEF WaiterIsQueued
  <2>1. RunOf[l] \in Runs
        BY BrokerConstants
  <2> QED BY <2>1, QueuedNow, Zenon DEF OwnersInv, Owned
<1> QED BY <1>1, OwnersInvariance, QueueInvariance, PTL

\* Unless drawing a permit ID fails, no permit is lost: whoever holds one, or
\* has yet to learn of it, gives it back when the connection ends.
THEOREM PermitsHaveOwners == ASSUME ~RandomMayFail PROVE BrokerSpec => []PermitHasOwner
<1>1. BrokerTypeOK /\ OwnersInv => PermitHasOwner
      BY Zenon DEF BrokerTypeOK, OwnersInv, Owned, PermitHasOwner
<1> QED BY <1>1, OwnersInvariance, BrokerTyped, PTL

-----------------------------------------------------------------------------
(* The notifications, when adjustments can be persisted as well.           *)

\* The mutex is held by the thread of the method that took it.
HolderIsThread == lock.op # "none" => lock.by \in Threads

WakeInv == HolderIsThread /\ SleeperIsWoken

\* While a method runs, or has yet to notify, nobody needs to be awake.
LEMMA SomeoneNotifies ==
    ASSUME lock'.op # "none" \/ \E t \in Threads : after'[t].todo # "nothing"
    PROVE  SleeperIsWoken'
BY Zenon DEF SleeperIsWoken

\* A step that decides no request, wakes nobody up and unlocks nothing.
LEMMA SleepersStay ==
    ASSUME SleeperIsWoken, lock' = lock, after' = after,
           \A l \in Leaves : conn'[l] = "asleep" /\ pending'[l] \in {"granted", "denied"} =>
               /\ conn[l] = "asleep" /\ pending[l] \in {"granted", "denied"}
               /\ l \in wake => l \in wake'
    PROVE  SleeperIsWoken'
BY Zenon DEF SleeperIsWoken

\* The steps of a connection.
LEMMA ConnectionWakes ==
    ASSUME QueueInv, WakeInv, NEW l \in Leaves, ConnectionStep(l)
    PROVE  WakeInv'
<1>0. /\ pending \in [Leaves -> {"none", "waiting", "granted", "denied"}]
      /\ conn \in [Leaves -> {"idle", "enqueued", "look", "asleep", "holding", "over"}]
      /\ l \in Threads /\ HolderIsThread /\ SleeperIsWoken
      BY QueuedNow, Zenon DEF WakeInv, Threads
<1>1. CASE lock' = [op |-> "enqueue", by |-> l, adjusted |-> FALSE]
      BY <1>0, <1>1, SomeoneNotifies, Zenon DEF WakeInv, HolderIsThread
<1>2. CASE lock' = [op |-> "cancel", by |-> l, adjusted |-> FALSE]
      BY <1>0, <1>2, SomeoneNotifies, Zenon DEF WakeInv, HolderIsThread
<1>3. CASE lock' = [op |-> "release", by |-> l, adjusted |-> FALSE]
      BY <1>0, <1>3, SomeoneNotifies, Zenon DEF WakeInv, HolderIsThread
<1>4. CASE lock' = lock
  <2>1. after' = after
        BY Zenon DEF ConnectionStep, Enqueue, Arm, TakeOutcome, CancelPending, Release
  <2>2. HolderIsThread'
        BY <1>0, <1>4, Zenon DEF HolderIsThread
  <2>3. ASSUME NEW m \in Leaves, conn'[m] = "asleep", pending'[m] \in {"granted", "denied"}
        PROVE  /\ conn[m] = "asleep" /\ pending[m] \in {"granted", "denied"}
               /\ m \in wake => m \in wake'
    <3>1. CASE Enqueue(l)
          BY <1>0, <2>3, <3>1, Zenon DEF Enqueue
    <3>2. CASE Arm(l)
          BY <1>0, <2>3, <3>2, Zenon DEF Arm, queueVars
    <3>3. CASE TakeOutcome(l)
      <4>1. m # l
            BY <1>0, <2>3, <3>3 DEF TakeOutcome
      <4> QED BY <1>0, <2>3, <3>3, <4>1 DEF TakeOutcome
    <3>4. CASE CancelPending(l)
          BY <1>0, <2>3, <3>4 DEF CancelPending
    <3>5. CASE Release(l)
          BY <1>0, <2>3, <3>5 DEF Release
    <3> QED BY <3>1, <3>2, <3>3, <3>4, <3>5, Zenon DEF ConnectionStep
  <2> QED BY <1>0, <1>4, <2>1, <2>2, <2>3, SleepersStay, Zenon DEF WakeInv
<1>5. \/ lock' = lock
      \/ lock' = [op |-> "enqueue", by |-> l, adjusted |-> FALSE]
      \/ lock' = [op |-> "cancel", by |-> l, adjusted |-> FALSE]
      \/ lock' = [op |-> "release", by |-> l, adjusted |-> FALSE]
      BY Zenon DEF ConnectionStep, Enqueue, Arm, TakeOutcome, CancelPending, Release, Locked
<1> QED BY <1>1, <1>2, <1>3, <1>4, <1>5, Zenon

\* Every method that decides a request notifies, after it or on its way out.
LEMMA WakeStep ==
    ASSUME ~RandomMayFail, ~DatabaseMayFail, QueueInv, WakeInv, [BrokerNext]_brokerVars
    PROVE  WakeInv'
<1>0. /\ HolderIsThread /\ SleeperIsWoken
      /\ after \in [Threads -> [todo : {"nothing", "persist", "notify"},
                                learned : 0 .. CapMax, cap : 0 .. CapMax]]
      BY Zenon DEF WakeInv, QueueInv, BrokerTypeOK
<1>1. ASSUME NEW op \in Methods, NEW t \in Threads, NEW adjusted, Locked(op, t, adjusted)
      PROVE  WakeInv'
  <2>1. lock'.op # "none" /\ lock'.by = t
        BY <1>1 DEF Locked, Methods
  <2> QED BY <2>1, SomeoneNotifies, Zenon DEF WakeInv, HolderIsThread
<1>2. ASSUME lock' = lock, after' = after, conn' = conn, pending' = pending, wake' = wake
      PROVE  WakeInv'
      BY <1>0, <1>2, SleepersStay, Zenon DEF WakeInv, HolderIsThread
<1>3. CASE UNCHANGED brokerVars
      BY <1>2, <1>3 DEF brokerVars
<1>4. ASSUME NEW r \in Runs, RegisterRun(r) PROVE WakeInv'
      BY <1>2, <1>4 DEF RegisterRun, queueVars
<1>5. ASSUME NEW r \in Runs, UnregisterRun(r) PROVE WakeInv'
  <2>1. r \in Threads /\ "unregister" \in Methods
        BY DEF Threads, Methods
  <2> QED BY <1>1, <1>5, <2>1, Zenon DEF UnregisterRun
<1>6. CASE GrantOne
  <2>1. lock.op # "none" /\ lock' = lock
        BY <1>6, Zenon DEF GrantOne
  <2> QED BY <1>0, <2>1, SomeoneNotifies, Zenon DEF WakeInv, HolderIsThread
<1>7. CASE GrantEnds
  <2>1. PICK b : lock.op # "none" /\ after' = [after EXCEPT ![lock.by] = Unlocks(b, learned')]
                 /\ lock' = Unlocked
        BY <1>7, Zenon DEF GrantEnds
  <2>2. Unlocks(b, learned').todo # "nothing"
        BY DEF Unlocks, NotifyJob, NoJob
  <2>3. lock.by \in Threads
        BY <1>0, <2>1, Zenon DEF HolderIsThread
  <2>4. after'[lock.by] = Unlocks(b, learned')
        BY <1>0, <2>1, <2>3
  <2>5. \E t \in Threads : after'[t].todo # "nothing"
        BY <2>2, <2>3, <2>4, Zenon
  <2>6. HolderIsThread'
        BY <2>1 DEF HolderIsThread, Unlocked
  <2> QED BY <2>5, <2>6, SomeoneNotifies, Zenon DEF WakeInv
<1>8. ASSUME NotifyWaiters, conn' = conn, lock' = lock PROVE WakeInv'
  <2>1. \A l \in Leaves : conn'[l] = "asleep" => l \in wake'
        BY <1>8 DEF NotifyWaiters
  <2> QED BY <1>0, <1>8, <2>1, Zenon DEF WakeInv, HolderIsThread, SleeperIsWoken
<1>9. ASSUME NEW t \in Threads, PersistAndNotify(t) PROVE WakeInv'
      BY <1>8, <1>9, Zenon DEF PersistAndNotify
<1>10. ASSUME NEW c \in Caps, SetCap(c) PROVE WakeInv'
  <2>1. Admin \in Threads /\ "set_cap" \in Methods
        BY DEF Threads, Methods
  <2> QED BY <1>1, <1>10, <2>1, Zenon DEF SetCap
<1>11. ASSUME NEW sample \in Samples, RecordSample(sample) PROVE WakeInv'
  <2>1. Sampler \in Threads /\ "sample" \in Methods
        BY DEF Threads, Methods
  <2> QED BY <1>1, <1>11, <2>1, Zenon DEF RecordSample
<1>12. CASE Stop
      BY <1>8, <1>12, Zenon DEF Stop
<1> QED BY <1>3, <1>4, <1>5, <1>6, <1>7, <1>9, <1>10, <1>11, <1>12, ConnectionWakes, Zenon
        DEF BrokerNext

\* Unless drawing a permit ID or persisting an adjustment fails, no wake-up is
\* lost: a connection that sleeps while its request is decided has been woken,
\* or a method that will notify is still under way.
THEOREM SleepersAreWoken ==
    ASSUME ~RandomMayFail, ~DatabaseMayFail PROVE BrokerSpec => []SleeperIsWoken
<1>1. BrokerInit => WakeInv
  <2> SUFFICES ASSUME BrokerInit PROVE WakeInv
      OBVIOUS
  <2>1. lock.op = "none" /\ \A l \in Leaves : conn[l] = "idle"
        BY Zenon DEF BrokerInit, Unlocked
  <2> QED BY <2>1, Zenon DEF WakeInv, HolderIsThread, SleeperIsWoken
<1>2. QueueInv /\ WakeInv /\ [BrokerNext]_brokerVars => WakeInv'
      BY WakeStep
<1>3. WakeInv => SleeperIsWoken
      BY DEF WakeInv
<1> QED BY <1>1, <1>2, <1>3, QueueInvariance, PTL DEF BrokerSpec

-----------------------------------------------------------------------------
(* The capacity, with the library's facts about cardinalities.             *)

INSTANCE FiniteSetTheorems

\* What a step does to the permits: it grants one, or it grants none.
LEMMA PermitStep ==
    ASSUME [BrokerNext]_brokerVars
    PROVE  \/ active' \subseteq active
           \/ MayGrant /\ \E l : active' = active \cup {l}
<1>1. CASE GrantOne
      BY <1>1, Zenon DEF GrantOne
<1>2. CASE UNCHANGED active
      BY <1>2
<1>3. ASSUME NEW l \in Leaves, ConnectionStep(l) PROVE active' \subseteq active
      BY <1>3, Zenon DEF ConnectionStep, Enqueue, Arm, TakeOutcome, CancelPending, PermitsCancelLeaves,
                  Release, queueVars
<1>4. ASSUME NEW r \in Runs, UnregisterRun(r) PROVE active' \subseteq active
      BY <1>4 DEF UnregisterRun, PermitsOfOthers
<1>5. CASE Stop
      BY <1>5 DEF Stop
<1> QED BY <1>1, <1>2, <1>3, <1>4, <1>5, Zenon
        DEF BrokerNext, brokerVars, queueVars, RegisterRun, GrantEnds, PersistAndNotify, SetCap,
            RecordSample

\* There are finitely many permits, so their number is a number.
FinitePermits == IsFiniteSet(active)

\* A step adds at most one permit, so they stay finitely many.
LEMMA PermitsAreFinite == BrokerSpec => []FinitePermits
<1>1. BrokerInit => FinitePermits
      BY FS_EmptySet DEF BrokerInit, FinitePermits
<1>2. FinitePermits /\ [BrokerNext]_brokerVars => FinitePermits'
  <2> SUFFICES ASSUME IsFiniteSet(active), [BrokerNext]_brokerVars PROVE IsFiniteSet(active')
      BY DEF FinitePermits
  <2>1. CASE active' \subseteq active
        BY <2>1, FS_Subset
  <2>2. ASSUME NEW l, active' = active \cup {l} PROVE IsFiniteSet(active')
        BY <2>2, FS_AddElement
  <2> QED BY <2>1, <2>2, PermitStep
<1> QED BY <1>1, <1>2, PTL DEF BrokerSpec

\* No method grants above the effective capacity or while paused.
THEOREM CapacityIsRespected == BrokerSpec => GrantsStayWithinCapacity
<1>1. ASSUME BrokerTypeOK, FinitePermits, [BrokerNext]_brokerVars
      PROVE  [active' \subseteq active \/ (~paused /\ Cardinality(active') <= Effective)]_brokerVars
  <2>1. CASE active' \subseteq active
        BY <2>1
  <2>2. ASSUME NEW l, active' = active \cup {l}, MayGrant
        PROVE  ~paused /\ Cardinality(active') <= Effective
    <3>1. ~paused /\ Cardinality(active) < Effective
          BY <2>2 DEF MayGrant
    <3>2. /\ Cardinality(active') \in {Cardinality(active), Cardinality(active) + 1}
          /\ Cardinality(active) \in Nat
          BY <1>1, <2>2, FS_AddElement, FS_CardinalityType DEF FinitePermits
    <3>3. learned \in Nat /\ cap \in Nat
          BY <1>1, BrokerConstants DEF BrokerTypeOK
    <3>4. Effective \in Nat
          BY <3>3 DEF Effective
    <3> QED BY <3>1, <3>2, <3>4
  <2> QED BY <1>1, <2>1, <2>2, PermitStep
<1> QED BY <1>1, BrokerTyped, PermitsAreFinite, PTL DEF BrokerSpec, GrantsStayWithinCapacity
=============================================================================
