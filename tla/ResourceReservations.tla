------------------------ MODULE ResourceReservations ------------------------
(***************************************************************************)
(* The "reserve" requests of the capacity broker                           *)
(* (rust/control/src/capacity.rs): a check asks for all its resource       *)
(* claims together and keeps them for as long as its connection lives.     *)
(*                                                                         *)
(* Reservations share the mutex, the ID counter and the Notify of the      *)
(* permits (CapacityBroker) and nothing else.  A request is a connection;  *)
(* its claims are the ones register_resources declared for its check.      *)
(* Requests ask one by one and look when they are notified, so the order   *)
(* of the looks is free and the order of the IDs decides.                  *)
(***************************************************************************)
EXTENDS Naturals, Sequences

CONSTANTS
    Runs,
    Requests,
    RunOf,           \* the run of each request
    ClaimsOf,        \* the claims its check declares
    Kinds, Ids,      \* what claims are made of; an ID is a path
    Directory,       \* ResourceKind::Directory
    NotifyMayFail    \* whether unregister_run may fail before it notifies

Claims == [kind : Kinds, id : Ids, access : {"shared", "exclusive"}]

ASSUME ReservationConstants ==
    /\ RunOf \in [Requests -> Runs]
    /\ Ids \subseteq Seq(STRING)
    /\ ClaimsOf \in [Requests -> SUBSET Claims]
    /\ NotifyMayFail \in BOOLEAN

VARIABLES
    run,            \* registered_runs and resources
    nextId,         \* State.next_pending_id
    ticket,         \* the ID of each entry of State.reservations, 0 for none
    granted,        \* the entries with granted = true
    stopping,
    stage,          \* how far each connection has come
    wake,           \* connections whose Notified future is ready
    toNotify        \* who unlocked and has yet to call notify_waiters

reservationVars == <<run, nextId, ticket, granted, stopping, stage, wake, toNotify>>

ReservationTypeOK ==
    /\ run \in [Runs -> {"new", "registered", "declared", "ended"}]
    /\ nextId \in Nat \ {0}
    /\ ticket \in [Requests -> Nat]
    /\ granted \in SUBSET Requests
    /\ stopping \in BOOLEAN
    /\ stage \in [Requests -> {"idle", "queued", "look", "asleep", "reserved", "over"}]
    /\ wake \in SUBSET Requests
    /\ toNotify \in SUBSET (Requests \cup Runs)

\* State::new.
FirstId == 1

ReservationInit ==
    /\ run = [r \in Runs |-> "new"]
    /\ nextId = FirstId
    /\ ticket = [q \in Requests |-> 0]
    /\ granted = {}
    /\ stopping = FALSE
    /\ stage = [q \in Requests |-> "idle"]
    /\ wake = {}
    /\ toNotify = {}

-----------------------------------------------------------------------------
\* Path::starts_with compares whole components.
StartsWith(path, base) ==
    Len(base) <= Len(path) /\ \A i \in 1 .. Len(base) : path[i] = base[i]

\* ResourceClaim::conflicts.
Conflicts(a, b) ==
    /\ a.kind = b.kind
    /\ ~ (a.access = "shared" /\ b.access = "shared")
    /\ \/ a.id = b.id
       \/ a.kind = Directory /\ (StartsWith(a.id, b.id) \/ StartsWith(b.id, a.id))

Clash(p, q) == \E a \in ClaimsOf[p], b \in ClaimsOf[q] : Conflicts(a, b)

Queued == {q \in Requests : ticket[q] # 0}

\* Mutant: a request only looks at what is granted.
BlockedByGrants(q) == \E o \in granted \ {q} : Clash(q, o)

\* What try_reservation finds in the way: anything granted, anything older.
Blocked(q) ==
    \E o \in Queued \ {q} : (o \in granted \/ ticket[o] < ticket[q]) /\ Clash(q, o)

NotifyWaiters == wake' = wake \cup {q \in Requests : stage[q] \in {"look", "asleep"}}

-----------------------------------------------------------------------------
RegisterRun(r) ==
    /\ run[r] = "new"
    /\ run' = [run EXCEPT ![r] = "registered"]
    /\ UNCHANGED <<nextId, ticket, granted, stopping, stage, wake, toNotify>>

RegisterResources(r) ==
    /\ run[r] = "registered"
    /\ run' = [run EXCEPT ![r] = "declared"]
    /\ UNCHANGED <<nextId, ticket, granted, stopping, stage, wake, toNotify>>

\* queue_reservation; a refused request ends its connection.
QueueReservation(q) ==
    /\ stage[q] = "idle"
    /\ IF stopping \/ run[RunOf[q]] # "declared"
       THEN /\ stage' = [stage EXCEPT ![q] = "over"]
            /\ UNCHANGED <<nextId, ticket>>
       ELSE /\ ticket' = [ticket EXCEPT ![q] = nextId]
            /\ nextId' = nextId + 1
            /\ stage' = [stage EXCEPT ![q] = "queued"]
    /\ UNCHANGED <<run, granted, stopping, wake, toNotify>>

\* A Notified future is created, at first and after every wake-up.
ArmReservation(q) ==
    /\ stage[q] = "queued" \/ (stage[q] = "asleep" /\ q \in wake)
    /\ stage' = [stage EXCEPT ![q] = "look"]
    /\ wake' = wake \ {q}
    /\ UNCHANGED <<run, nextId, ticket, granted, stopping, toNotify>>

\* Mutant: the entry stays when its connection ends.
EntryStays(q) ==
    /\ UNCHANGED <<ticket, granted>>
    /\ toNotify' = toNotify \cup {q}

\* Drop of ReservationOwner: the entry goes, the others are notified after.
DropReservation(q) ==
    /\ ticket' = [ticket EXCEPT ![q] = 0]
    /\ granted' = granted \ {q}
    /\ toNotify' = toNotify \cup {q}

\* try_reservation.
TryReservation(q) ==
    /\ stage[q] = "look"
    /\ CASE ticket[q] = 0 ->
              /\ stage' = [stage EXCEPT ![q] = "over"]
              /\ wake' = wake \ {q}
              /\ DropReservation(q)
         [] ticket[q] # 0 /\ Blocked(q) ->
              /\ stage' = [stage EXCEPT ![q] = "asleep"]
              /\ UNCHANGED <<ticket, granted, wake, toNotify>>
         [] OTHER ->
              /\ stage' = [stage EXCEPT ![q] = "reserved"]
              /\ granted' = granted \cup {q}
              /\ wake' = wake \ {q}
              /\ UNCHANGED <<ticket, toNotify>>
    /\ UNCHANGED <<run, nextId, stopping>>

\* The client goes away while it waits or when its check is over, or the
\* handler sees that the reservation is gone.
EndReservation(q) ==
    /\ stage[q] \in {"asleep", "reserved"}
    /\ stage' = [stage EXCEPT ![q] = "over"]
    /\ wake' = wake \ {q}
    /\ DropReservation(q)
    /\ UNCHANGED <<run, nextId, stopping>>

\* unregister_run drops the entries of the run.
UnregisterRun(r) ==
    LET mine == {q \in Requests : RunOf[q] = r}
    IN  /\ run[r] \in {"registered", "declared"}
        /\ run' = [run EXCEPT ![r] = "ended"]
        /\ ticket' = [q \in Requests |-> IF q \in mine THEN 0 ELSE ticket[q]]
        /\ granted' = granted \ mine
        /\ \/ toNotify' = toNotify \cup {r}
           \/ NotifyMayFail /\ UNCHANGED toNotify
        /\ UNCHANGED <<nextId, stopping, stage, wake>>

Stop ==
    /\ ~stopping
    /\ stopping' = TRUE
    /\ ticket' = [q \in Requests |-> 0]
    /\ granted' = {}
    /\ NotifyWaiters
    /\ UNCHANGED <<run, nextId, stage, toNotify>>

\* notify_waiters, after the mutex is free.
Notify(t) ==
    /\ t \in toNotify
    /\ toNotify' = toNotify \ {t}
    /\ NotifyWaiters
    /\ UNCHANGED <<run, nextId, ticket, granted, stopping, stage>>

\* Every sample ends with notify_waiters.
SampleNotifies ==
    /\ ~stopping
    /\ NotifyWaiters
    /\ UNCHANGED <<run, nextId, ticket, granted, stopping, stage, toNotify>>

RequestStep(q) ==
    QueueReservation(q) \/ ArmReservation(q) \/ TryReservation(q) \/ EndReservation(q)

ReservationNext ==
    \/ \E r \in Runs : RegisterRun(r) \/ RegisterResources(r) \/ UnregisterRun(r)
    \/ \E q \in Requests : RequestStep(q)
    \/ \E t \in Requests \cup Runs : Notify(t)
    \/ SampleNotifies
    \/ Stop

ReservationSpec == ReservationInit /\ [][ReservationNext]_reservationVars

-----------------------------------------------------------------------------
\* Of two checks whose claims clash at most one holds its reservation, and it
\* is the one that asked first: later readers cannot starve a waiting writer.
FirstOfClashHolds ==
    \A p, q \in Queued :
        p # q /\ ticket[p] <= ticket[q] /\ Clash(p, q) => q \notin granted

\* A reservation that is held or asked for belongs to a live connection, whose
\* end removes it; its run is registered and the broker serves.
ReservationHasOwner ==
    \A q \in Queued : /\ stage[q] \in {"queued", "look", "asleep", "reserved"}
                      /\ run[RunOf[q]] = "declared"
                      /\ ~stopping

\* A check that sleeps although nothing is in its way any more is about to be
\* woken by the connection or the run that was.
FreedSleeperIsNotified ==
    \A q \in Requests : stage[q] = "asleep" /\ ~Blocked(q) => q \in wake \/ toNotify # {}

\* The connections make progress, the sampler ticks, and an executor keeps a
\* reservation for a finite time.
ReservationFairness ==
    /\ \A q \in Requests : /\ WF_reservationVars(ArmReservation(q))
                           /\ WF_reservationVars(TryReservation(q))
                           /\ WF_reservationVars(stage[q] = "reserved" /\ EndReservation(q))
    /\ \A t \in Requests \cup Runs : WF_reservationVars(Notify(t))
    /\ WF_reservationVars(SampleNotifies)

FairReservations == ReservationSpec /\ ReservationFairness

\* Checks never wait for each other in a circle: claims are reserved together,
\* so every request that waits is granted or ends.
ReservationIsDecided ==
    \A q \in Requests : stage[q] = "asleep" ~> stage[q] \in {"reserved", "over"}
=============================================================================
