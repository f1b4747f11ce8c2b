-------------------- MODULE ResourceReservationsProofs --------------------
(***************************************************************************)
(* Proofs about ResourceReservations, for any runs, requests and claims.   *)
(***************************************************************************)
EXTENDS ResourceReservations, TLAPS

\* IDs are drawn once and only from below the counter; what is granted is in
\* State.reservations.  With this FirstOfClashHolds is inductive: the request
\* that try_reservation grants is older than every other one it clashes with.
TicketsAreDrawn ==
    /\ granted \subseteq Queued
    /\ \A q \in Requests : ticket[q] < nextId
    /\ \A p, q \in Queued : ticket[p] = ticket[q] => p = q

\* ResourceClaim::conflicts does not depend on which claim is asked: neither
\* equal IDs nor one path starting with the other.
LEMMA ClashSymmetric ==
    ASSUME NEW p \in Requests, NEW q \in Requests
    PROVE  Clash(p, q) <=> Clash(q, p)
BY DEF Clash, Conflicts

\* The broker starts with well typed reservations.
LEMMA ReservationTypeInit == ReservationInit => ReservationTypeOK
<1> SUFFICES ASSUME ReservationInit PROVE ReservationTypeOK
    OBVIOUS
<1>1. run \in [Runs -> {"new", "registered", "declared", "ended"}]
      BY DEF ReservationInit
<1>2. nextId \in Nat \ {0} /\ ticket \in [Requests -> Nat]
      BY DEF ReservationInit, FirstId
<1>3. stage \in [Requests -> {"idle", "queued", "look", "asleep", "reserved", "over"}]
      BY DEF ReservationInit
<1>4. granted \in SUBSET Requests /\ wake \in SUBSET Requests /\ stopping \in BOOLEAN
      BY Zenon DEF ReservationInit
<1>5. toNotify \in SUBSET (Requests \cup Runs)
      BY DEF ReservationInit
<1> QED BY <1>1, <1>2, <1>3, <1>4, <1>5 DEF ReservationTypeOK

\* Every step on the reservations keeps their types.
LEMMA ReservationTypeStep ==
    ASSUME ReservationTypeOK, [ReservationNext]_reservationVars
    PROVE  ReservationTypeOK'
<1> USE ReservationConstants DEF ReservationTypeOK, NotifyWaiters
<1>1. CASE UNCHANGED reservationVars
      BY <1>1 DEF reservationVars
<1>2. ASSUME NEW r \in Runs, RegisterRun(r) \/ RegisterResources(r) \/ UnregisterRun(r)
      PROVE  ReservationTypeOK'
  <2>1. CASE RegisterRun(r) \/ RegisterResources(r)
        BY <2>1 DEF RegisterRun, RegisterResources
  <2>2. CASE UnregisterRun(r)
    <3>1. ticket' \in [Requests -> Nat]
          BY <2>2 DEF UnregisterRun
    <3>2. toNotify' \in SUBSET (Requests \cup Runs)
          BY <2>2 DEF UnregisterRun
    <3>3. run' \in [Runs -> {"new", "registered", "declared", "ended"}]
          BY <2>2 DEF UnregisterRun
    <3> QED BY <2>2, <3>1, <3>2, <3>3 DEF UnregisterRun
  <2> QED BY <1>2, <2>1, <2>2
<1>3. ASSUME NEW q \in Requests, RequestStep(q)
      PROVE  ReservationTypeOK'
  <2>1. CASE QueueReservation(q)
    <3>1. nextId' \in Nat \ {0} /\ ticket' \in [Requests -> Nat]
          BY <2>1 DEF QueueReservation
    <3>2. stage' \in [Requests -> {"idle", "queued", "look", "asleep", "reserved", "over"}]
          BY <2>1 DEF QueueReservation
    <3> QED BY <2>1, <3>1, <3>2 DEF QueueReservation
  <2>2. CASE ArmReservation(q)
        BY <2>2 DEF ArmReservation
  <2>3. CASE TryReservation(q)
        BY <2>3, Zenon DEF TryReservation, DropReservation
  <2>4. CASE EndReservation(q)
        BY <2>4 DEF EndReservation, DropReservation
  <2> QED BY <1>3, <2>1, <2>2, <2>3, <2>4 DEF RequestStep
<1>4. ASSUME NEW t \in Requests \cup Runs, Notify(t)
      PROVE  ReservationTypeOK'
      BY <1>4 DEF Notify
<1>5. CASE SampleNotifies \/ Stop
  <2>1. wake' \in SUBSET Requests /\ granted' \in SUBSET Requests
        BY <1>5 DEF SampleNotifies, Stop
  <2>2. ticket' \in [Requests -> Nat]
        BY <1>5 DEF SampleNotifies, Stop
  <2>3. stopping' \in BOOLEAN
        BY <1>5, Zenon DEF SampleNotifies, Stop
  <2>4. UNCHANGED <<run, nextId, stage, toNotify>>
        BY <1>5 DEF SampleNotifies, Stop
  <2> QED BY <2>1, <2>2, <2>3, <2>4
<1> QED BY <1>1, <1>2, <1>3, <1>4, <1>5 DEF ReservationNext

\* Every variable of the reservations keeps its type.
THEOREM ReservationsTyped == ReservationSpec => []ReservationTypeOK
<1>1. ReservationInit => ReservationTypeOK
      BY ReservationTypeInit
<1>2. ReservationTypeOK /\ [ReservationNext]_reservationVars => ReservationTypeOK'
      BY ReservationTypeStep
<1> QED BY <1>1, <1>2, PTL DEF ReservationSpec

-----------------------------------------------------------------------------
ReservationInv ==
    ReservationTypeOK /\ ReservationHasOwner /\ TicketsAreDrawn /\ FirstOfClashHolds

\* No reservation is queued at first.
LEMMA ReservationInvInit == ReservationInit => ReservationInv
<1> SUFFICES ASSUME ReservationInit PROVE ReservationInv
    OBVIOUS
<1>1. ReservationTypeOK
      BY ReservationTypeInit
<1>2. Queued = {}
      BY DEF ReservationInit, Queued
<1> QED BY <1>1, <1>2
        DEF ReservationInv, ReservationInit, ReservationHasOwner, TicketsAreDrawn,
            FirstOfClashHolds, FirstId

\* A connection queues at most once, and whatever ends it, its run or the
\* broker takes its entry along.
LEMMA OwnerStep ==
    ASSUME ReservationTypeOK, ReservationHasOwner, [ReservationNext]_reservationVars
    PROVE  ReservationHasOwner'
<1> USE ReservationConstants DEF ReservationTypeOK, ReservationHasOwner, Queued
<1>1. CASE UNCHANGED reservationVars
      BY <1>1 DEF reservationVars
<1>2. ASSUME NEW r \in Runs, RegisterRun(r) \/ RegisterResources(r) \/ UnregisterRun(r)
      PROVE  ReservationHasOwner'
      BY <1>2 DEF RegisterRun, RegisterResources, UnregisterRun
<1>3. ASSUME NEW q \in Requests, RequestStep(q)
      PROVE  ReservationHasOwner'
  <2>1. CASE QueueReservation(q)
        BY <2>1 DEF QueueReservation
  <2>2. CASE ArmReservation(q)
        BY <2>2 DEF ArmReservation
  <2>3. CASE TryReservation(q)
        BY <2>3 DEF TryReservation, DropReservation
  <2>4. CASE EndReservation(q)
        BY <2>4 DEF EndReservation, DropReservation
  <2> QED BY <1>3, <2>1, <2>2, <2>3, <2>4 DEF RequestStep
<1>4. ASSUME NEW t \in Requests \cup Runs, Notify(t)
      PROVE  ReservationHasOwner'
      BY <1>4 DEF Notify
<1>5. CASE SampleNotifies \/ Stop
      BY <1>5 DEF SampleNotifies, Stop
<1> QED BY <1>1, <1>2, <1>3, <1>4, <1>5 DEF ReservationNext

\* Entries that go away, alone or with their run, leave the others in order.
LEMMA DroppingKeepsOrder ==
    ASSUME ReservationInv, ReservationTypeOK', ReservationHasOwner', nextId' = nextId,
           NEW gone \in SUBSET Requests,
           ticket' = [q \in Requests |-> IF q \in gone THEN 0 ELSE ticket[q]],
           granted' = granted \ gone
    PROVE  ReservationInv'
<1> USE DEF ReservationInv, ReservationTypeOK
<1>1. Queued' = Queued \ gone
      BY DEF Queued
<1>2. \A q \in Queued' : q \in Queued /\ ticket'[q] = ticket[q]
      BY <1>1 DEF Queued
<1>3. TicketsAreDrawn'
      BY <1>1, <1>2 DEF TicketsAreDrawn
<1>4. FirstOfClashHolds'
      BY <1>1, <1>2 DEF FirstOfClashHolds, Clash
<1> QED BY <1>3, <1>4

\* queue_reservation, try_reservation and every removal keep the order invariant.
LEMMA ReservationInvStep ==
    ASSUME ReservationInv, [ReservationNext]_reservationVars
    PROVE  ReservationInv'
<1> USE ReservationConstants
<1>t. ReservationTypeOK /\ ReservationTypeOK' /\ ReservationHasOwner'
      BY ReservationTypeStep, OwnerStep DEF ReservationInv
<1>same. ASSUME UNCHANGED <<nextId, ticket, granted>>
         PROVE  ReservationInv'
         BY <1>same, <1>t DEF ReservationInv, TicketsAreDrawn, FirstOfClashHolds, Queued, Clash
<1>drop. ASSUME NEW q \in Requests, DropReservation(q), nextId' = nextId
         PROVE  ReservationInv'
  <2>1. ticket' = [p \in Requests |-> IF p \in {q} THEN 0 ELSE ticket[p]]
        BY <1>drop, <1>t, Zenon DEF DropReservation, ReservationTypeOK
  <2> QED BY <2>1, <1>drop, <1>t, DroppingKeepsOrder, Zenon DEF DropReservation
<1>1. CASE UNCHANGED reservationVars
      BY <1>1, <1>same DEF reservationVars
<1>2. ASSUME NEW r \in Runs, RegisterRun(r) \/ RegisterResources(r)
      PROVE  ReservationInv'
      BY <1>2, <1>same DEF RegisterRun, RegisterResources
<1>3. ASSUME NEW r \in Runs, UnregisterRun(r)
      PROVE  ReservationInv'
      BY <1>3, <1>t, DroppingKeepsOrder, Zenon DEF UnregisterRun
<1>4. ASSUME NEW q \in Requests, QueueReservation(q)
      PROVE  ReservationInv'
  <2>1. CASE UNCHANGED <<nextId, ticket>>
        BY <2>1, <1>4, <1>same DEF QueueReservation
  <2>2. CASE ~ UNCHANGED <<nextId, ticket>>
    <3>1. /\ ticket' = [ticket EXCEPT ![q] = nextId]
          /\ nextId' = nextId + 1
          /\ granted' = granted
          BY <2>2, <1>4 DEF QueueReservation
    <3>2. Queued' = Queued \cup {q}
          BY <3>1, <1>t DEF Queued, ReservationTypeOK
    <3>3. \A p \in Queued : ticket[p] < nextId
          BY <1>t DEF ReservationInv, TicketsAreDrawn, Queued
    <3>4. TicketsAreDrawn'
          BY <3>1, <3>2, <3>3, <1>t DEF ReservationInv, TicketsAreDrawn, ReservationTypeOK
    <3>5. q \notin granted
          BY <1>4 DEF ReservationInv, TicketsAreDrawn, ReservationHasOwner, QueueReservation
    <3>6. ASSUME NEW p \in Queued \cup {q}, NEW o \in Queued \cup {q},
                 p # o, ticket'[p] <= ticket'[o], Clash(p, o)
          PROVE  o \notin granted
      <4>1. CASE o = q
            BY <4>1, <3>5
      <4>2. CASE o # q /\ p = q
        <5>1. ticket'[p] = nextId /\ ticket'[o] = ticket[o] /\ o \in Queued
              BY <4>2, <3>1, <3>6, <1>t DEF ReservationTypeOK, Queued
        <5> QED BY <5>1, <3>3, <3>6, <1>t DEF ReservationTypeOK, Queued
      <4>3. CASE o # q /\ p # q
        <5>1. ticket'[p] = ticket[p] /\ ticket'[o] = ticket[o] /\ o \in Queued /\ p \in Queued
              BY <4>3, <3>1, <3>6, <1>t DEF ReservationTypeOK, Queued
        <5> QED BY <5>1, <3>6 DEF ReservationInv, FirstOfClashHolds
      <4> QED BY <4>1, <4>2, <4>3
    <3>7. FirstOfClashHolds'
          BY <3>1, <3>2, <3>6 DEF FirstOfClashHolds, Clash
    <3> QED BY <3>4, <3>7, <1>t DEF ReservationInv
  <2> QED BY <2>1, <2>2
<1>5. ASSUME NEW q \in Requests, ArmReservation(q)
      PROVE  ReservationInv'
      BY <1>5, <1>same DEF ArmReservation
<1>6. ASSUME NEW q \in Requests, TryReservation(q)
      PROVE  ReservationInv'
  <2>1. CASE ticket[q] = 0
        BY <2>1, <1>6, <1>drop DEF TryReservation
  <2>2. CASE ticket[q] # 0 /\ Blocked(q)
        BY <2>2, <1>6, <1>same DEF TryReservation
  <2>3. CASE ticket[q] # 0 /\ ~Blocked(q)
    <3>1. ticket' = ticket /\ nextId' = nextId /\ granted' = granted \cup {q}
          BY <2>3, <1>6 DEF TryReservation
    <3>2. Queued' = Queued /\ q \in Queued
          BY <3>1, <2>3 DEF Queued
    <3>3. TicketsAreDrawn'
          BY <3>1, <3>2, <1>t DEF ReservationInv, TicketsAreDrawn
    <3>4. ASSUME NEW p \in Queued, p # q, Clash(p, q)
          PROVE  p \notin granted /\ ~ (ticket[p] <= ticket[q])
      <4>1. Clash(q, p)
            BY <3>4, ClashSymmetric DEF Queued
      <4>2. p \notin granted /\ ~ (ticket[p] < ticket[q])
            BY <4>1, <3>4, <2>3 DEF Blocked
      <4>3. ticket[p] # ticket[q]
            BY <3>2, <3>4 DEF ReservationInv, TicketsAreDrawn
      <4> QED BY <4>2, <4>3, <3>2, <1>t DEF ReservationTypeOK, Queued
    <3>5. FirstOfClashHolds'
          BY <3>1, <3>2, <3>4 DEF ReservationInv, FirstOfClashHolds, Clash
    <3> QED BY <3>3, <3>5, <1>t DEF ReservationInv
  <2> QED BY <2>1, <2>2, <2>3
<1>7. ASSUME NEW q \in Requests, EndReservation(q)
      PROVE  ReservationInv'
      BY <1>7, <1>drop DEF EndReservation
<1>8. ASSUME NEW t \in Requests \cup Runs, Notify(t)
      PROVE  ReservationInv'
      BY <1>8, <1>same DEF Notify
<1>9. CASE SampleNotifies
      BY <1>9, <1>same DEF SampleNotifies
<1>10. CASE Stop
  <2>1. /\ ticket' = [q \in Requests |-> IF q \in Requests THEN 0 ELSE ticket[q]]
        /\ granted' = granted \ Requests
        /\ nextId' = nextId
        BY <1>10, <1>t DEF Stop, ReservationTypeOK
  <2> QED BY <2>1, <1>t, DroppingKeepsOrder
<1> QED BY <1>1, <1>2, <1>3, <1>4, <1>5, <1>6, <1>7, <1>8, <1>9, <1>10
        DEF ReservationNext, RequestStep

\* Of two checks whose claims clash, only the one that asked first ever holds
\* its reservation, whatever the claims and however the requests interleave.
THEOREM ClashingClaimsExclude == ReservationSpec => []FirstOfClashHolds
<1>1. ReservationInit => ReservationInv
      BY ReservationInvInit
<1>2. ReservationInv /\ [ReservationNext]_reservationVars => ReservationInv'
      BY ReservationInvStep
<1>3. ReservationInv => FirstOfClashHolds
      BY DEF ReservationInv
<1> QED BY <1>1, <1>2, <1>3, PTL DEF ReservationSpec

\* No reservation outlives its connection, its run or the broker.
THEOREM ReservationsAreOwned == ReservationSpec => []ReservationHasOwner
<1>1. ReservationInit => ReservationInv
      BY ReservationInvInit
<1>2. ReservationInv /\ [ReservationNext]_reservationVars => ReservationInv'
      BY ReservationInvStep
<1>3. ReservationInv => ReservationHasOwner
      BY DEF ReservationInv
<1> QED BY <1>1, <1>2, <1>3, PTL DEF ReservationSpec

-----------------------------------------------------------------------------
\* What frees a sleeping check takes an entry away, and whoever does that is
\* going to notify; whoever notifies wakes every sleeper there is.
LEMMA NotifiedStep ==
    ASSUME ~NotifyMayFail, ReservationTypeOK, ReservationHasOwner, FreedSleeperIsNotified,
           [ReservationNext]_reservationVars
    PROVE  FreedSleeperIsNotified'
<1> USE ReservationConstants
<1>more. ASSUME NEW q \in Requests, Blocked(q), Queued \subseteq Queued', granted \subseteq granted',
                \A p \in Queued \cup {q} : ticket'[p] = ticket[p]
         PROVE  Blocked(q)'
         BY <1>more DEF Blocked, Clash, Queued
<1>all. ASSUME NotifyWaiters, UNCHANGED stage
        PROVE  FreedSleeperIsNotified'
        BY <1>all DEF NotifyWaiters, FreedSleeperIsNotified
<1>some. ASSUME toNotify' # {}
         PROVE  FreedSleeperIsNotified'
         BY <1>some DEF FreedSleeperIsNotified
<1>keep. ASSUME UNCHANGED <<ticket, granted, toNotify>>, wake \subseteq wake',
                \A q \in Requests : stage'[q] = "asleep" => stage[q] = "asleep"
         PROVE  FreedSleeperIsNotified'
  <2>1. \A q \in Requests : Blocked(q)' <=> Blocked(q)
        BY <1>keep DEF Blocked, Queued, Clash
  <2> QED BY <1>keep, <2>1 DEF FreedSleeperIsNotified
<1>1. CASE UNCHANGED reservationVars
      BY <1>1, <1>keep DEF reservationVars
<1>2. ASSUME NEW r \in Runs, RegisterRun(r) \/ RegisterResources(r)
      PROVE  FreedSleeperIsNotified'
      BY <1>2, <1>keep DEF RegisterRun, RegisterResources
<1>3. ASSUME NEW r \in Runs, UnregisterRun(r)
      PROVE  FreedSleeperIsNotified'
      BY <1>3, <1>some DEF UnregisterRun
<1>4. ASSUME NEW q \in Requests, QueueReservation(q)
      PROVE  FreedSleeperIsNotified'
  <2>1. /\ \A p \in Requests \ {q} : ticket'[p] = ticket[p]
        /\ \A p \in Requests : stage'[p] = "asleep" => stage[p] = "asleep" /\ p # q
        /\ UNCHANGED <<granted, wake, toNotify>>
        BY <1>4 DEF QueueReservation, ReservationTypeOK
  <2>2. q \notin Queued
        BY <1>4 DEF QueueReservation, ReservationHasOwner
  <2>3. Queued \subseteq Queued' /\ Queued \subseteq Requests \ {q}
        BY <2>1, <2>2 DEF Queued
  <2>4. \A p \in Requests \ {q} : Blocked(p) => Blocked(p)'
        BY <2>1, <2>3, <1>more
  <2> QED BY <2>1, <2>4 DEF FreedSleeperIsNotified
<1>5. ASSUME NEW q \in Requests, ArmReservation(q)
      PROVE  FreedSleeperIsNotified'
  <2>1. /\ \A p \in Requests : stage'[p] = "asleep" => stage[p] = "asleep" /\ p # q
        /\ UNCHANGED <<ticket, granted, toNotify>>
        /\ \A p \in Requests \ {q} : p \in wake => p \in wake'
        BY <1>5 DEF ArmReservation, ReservationTypeOK
  <2>2. \A p \in Requests : Blocked(p)' <=> Blocked(p)
        BY <2>1 DEF Blocked, Queued, Clash
  <2> QED BY <2>1, <2>2 DEF FreedSleeperIsNotified
<1>6. ASSUME NEW q \in Requests, TryReservation(q)
      PROVE  FreedSleeperIsNotified'
  <2>1. CASE ticket[q] = 0
        BY <2>1, <1>6, <1>some, Zenon DEF TryReservation, DropReservation
  <2>2. CASE ticket[q] # 0 /\ Blocked(q)
    <3>1. /\ \A p \in Requests \ {q} : stage'[p] = stage[p]
          /\ UNCHANGED <<ticket, granted, wake, toNotify>>
          BY <2>2, <1>6 DEF TryReservation, ReservationTypeOK
    <3>2. \A p \in Requests : Blocked(p)' <=> Blocked(p)
          BY <3>1 DEF Blocked, Queued, Clash
    <3> QED BY <2>2, <3>1, <3>2 DEF FreedSleeperIsNotified
  <2>3. CASE ticket[q] # 0 /\ ~Blocked(q)
    <3>1. /\ \A p \in Requests : stage'[p] = "asleep" => stage[p] = "asleep" /\ p # q
          /\ \A p \in Requests \ {q} : p \in wake => p \in wake'
          /\ granted \subseteq granted'
          /\ UNCHANGED <<ticket, toNotify>>
          BY <2>3, <1>6 DEF TryReservation, ReservationTypeOK
    <3>2. \A p \in Requests : Blocked(p) => Blocked(p)'
          BY <3>1, <1>more DEF Queued
    <3> QED BY <3>1, <3>2 DEF FreedSleeperIsNotified
  <2> QED BY <2>1, <2>2, <2>3
<1>7. ASSUME NEW q \in Requests, EndReservation(q)
      PROVE  FreedSleeperIsNotified'
      BY <1>7, <1>some DEF EndReservation, DropReservation
<1>8. ASSUME NEW t \in Requests \cup Runs, Notify(t)
      PROVE  FreedSleeperIsNotified'
      BY <1>8, <1>all DEF Notify
<1>9. CASE SampleNotifies \/ Stop
      BY <1>9, <1>all DEF SampleNotifies, Stop
<1> QED BY <1>1, <1>2, <1>3, <1>4, <1>5, <1>6, <1>7, <1>8, <1>9
        DEF ReservationNext, RequestStep

\* As long as unregister_run reaches its notify_waiters, a check that is freed
\* while it sleeps is woken: no wake-up is lost between the mutex and Notify.
THEOREM FreedChecksAreWoken ==
    ASSUME ~NotifyMayFail
    PROVE  ReservationSpec => []FreedSleeperIsNotified
<1>1. ReservationInit => ReservationInv /\ FreedSleeperIsNotified
      BY ReservationInvInit DEF ReservationInit, FreedSleeperIsNotified
<1>2. ReservationInv /\ FreedSleeperIsNotified /\ [ReservationNext]_reservationVars
        => ReservationInv' /\ FreedSleeperIsNotified'
      BY ReservationInvStep, NotifiedStep DEF ReservationInv
<1> QED BY <1>1, <1>2, PTL DEF ReservationSpec
=============================================================================
