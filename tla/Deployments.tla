----------------------------- MODULE Deployments -----------------------------
(***************************************************************************)
(* Deployments, their port leases and the route document the edge reads    *)
(* (rust/control/src/deployments.rs, deployments/routing_recovery.rs,      *)
(* deployment_state.rs, ports.rs and routes.rs).                           *)
(*                                                                         *)
(* A deployment has one routed, generation-scoped process component.  Its  *)
(* unit of generation g listens on the stable (generation 0) lease of the  *)
(* deployment.  A step is what an operation does between two points at     *)
(* which another deployment's operation, the maintenance step, the edge or *)
(* the process itself can tell the difference: DB statements that only the *)
(* holder of the deployment's mutation guard reads are taken together.     *)
(***************************************************************************)
EXTENDS Integers, FiniteSets, FiniteSetsExt

CONSTANTS
    Deployments,
    Clients,         \* callers, each of one deployment
    Target,          \* the deployment a client calls for
    Kinds,           \* what a client asks for: apply, stop, start, remove
    Keeper,          \* the maintenance step reconcile_routes_step
    Ports,           \* port_range
    MaxGeneration,   \* bound on the generations of each deployment
    MaxDocuments,    \* bound on the published documents
    MaxFaults,       \* bound on process deaths, daemon restarts and failed writes
    NoOne

Actors == Clients \cup {Keeper}
Generations == UNION {1 .. MaxGeneration[d] : d \in Deployments}

ASSUME DeploymentConstants ==
    /\ Target \in [Clients -> Deployments]
    /\ Kinds \in [Clients -> SUBSET {"apply", "stop", "start", "remove"}]
    /\ Ports \subseteq Nat \ {0} /\ IsFiniteSet(Ports)
    /\ MaxGeneration \in [Deployments -> Nat]
    /\ {MaxDocuments, MaxFaults} \subseteq Nat
    /\ NoOne \notin Actors /\ Keeper \notin Clients

VARIABLES
    row,        \* deployments: state ("absent" if none) and current generation (0 if NULL)
    component,  \* components: state (running means healthy too), generation, desired state
    recorded,   \* generations: "none", "candidate" or "settled" for each number
    lease,      \* port_assignments of generation 0, or 0
    route,      \* domain_routes: whether there is a row, its port (0 if NULL), generation
    listener,   \* which unit listens on each port
    busy,       \* MutationLocks: who holds the mutation guard of a deployment
    op,         \* what each actor is doing
    publisher,  \* who holds the publication lock
    revision,   \* meta.route_generation, which the floor file backs
    document,   \* the published route document
    accepted,   \* the document the edge has acknowledged
    served,     \* the document the edge routes by
    faults      \* how many processes died, daemons restarted and publications failed

records == <<row, component, recorded, lease, route>>
published == <<publisher, revision, document, accepted, served>>
deploymentVars == <<records, listener, busy, op, published, faults>>

NoRow == [state |-> "absent", current |-> 0]
NoComponent == [state |-> "none", generation |-> 0, desired |-> "running"]
NoRoute == [row |-> FALSE, port |-> 0, generation |-> 0]
NoDocument == [revision |-> 0, ports |-> [d \in Deployments |-> 0]]
NoListener == [of |-> NoOne, generation |-> 0]
Resting == [at |-> "idle", kind |-> "none", for |-> NoOne, row |-> NoRow,
            old |-> NoComponent, route |-> NoRoute, generation |-> 0,
            stopped |-> FALSE, then |-> "idle", otherwise |-> "idle", seen |-> 0,
            document |-> NoDocument]

DeploymentInit ==
    /\ row = [d \in Deployments |-> NoRow]
    /\ component = [d \in Deployments |-> NoComponent]
    /\ recorded = [d \in Deployments |-> [g \in Generations |-> "none"]]
    /\ lease = [d \in Deployments |-> 0]
    /\ route = [d \in Deployments |-> NoRoute]
    /\ listener = [p \in Ports |-> NoListener]
    /\ busy = [d \in Deployments |-> NoOne]
    /\ op = [a \in Actors |-> Resting]
    /\ publisher = NoOne /\ revision = 0
    /\ document = NoDocument
    /\ accepted = document /\ served = document
    /\ faults = [death |-> 0, crash |-> 0, publication |-> 0]

-----------------------------------------------------------------------------
(* Leases, routes and units *)

Unit(d, g) == [of |-> d, generation |-> g]
Listens(d, g) == lease[d] # 0 /\ listener[lease[d]] = Unit(d, g)

\* stop_binding of one generation's unit.
Without(d, g) == [p \in Ports |-> IF listener[p] = Unit(d, g) THEN NoListener ELSE listener[p]]

\* A started unit that finds its port taken never becomes healthy.
With(d, g) ==
    IF lease[d] # 0 /\ listener[lease[d]] = NoListener
    THEN [listener EXCEPT ![lease[d]] = Unit(d, g)]
    ELSE listener

\* ports::route_lease: the stable lease of a healthy component, of the generation the
\* deployment has selected, or of the candidate that its apply is about to select.
RouteLease(d, port, g) ==
    /\ port # 0 /\ lease[d] = port
    /\ component[d].state = "running" /\ component[d].generation = g
    /\ \/ row[d].current = g
       \/ row[d].state = "applying" /\ g \in Generations /\ recorded[d][g] = "candidate"

Withdrawn(r) == [r EXCEPT !.port = 0]
Degraded(r) == IF r.state \in {"applying", "absent"} THEN r ELSE [r EXCEPT !.state = "degraded"]

\* set_route with a port: it takes the route, or finds a conflict and withdraws it.
SetRoute(d, port, g) ==
    IF RouteLease(d, port, g)
    THEN /\ route' = [route EXCEPT ![d] = [row |-> TRUE, port |-> port, generation |-> g]]
         /\ row' = [row EXCEPT ![d].current = IF row[d].state = "applying" THEN g ELSE @]
    ELSE /\ route' = [route EXCEPT ![d] = Withdrawn(@)]
         /\ row' = [row EXCEPT ![d] = Degraded(@)]

\* validate_or_withdraw_route's test: lease, recorded health and the live listener.
RouteIsLive(d) ==
    /\ route[d].port # 0 /\ lease[d] = route[d].port
    /\ component[d].state = "running"
    /\ Listens(d, component[d].generation)

\* validate_or_withdraw_route's effect; withdraw_conflict degrades the row.
\* The publication it makes of a withdrawal and its caller's own right after it are one.
ValidateOrWithdraw(d) ==
    /\ route' = IF RouteIsLive(d) THEN route ELSE [route EXCEPT ![d] = Withdrawn(@)]
    /\ row' = IF RouteIsLive(d) \/ route[d].port = 0 THEN row ELSE [row EXCEPT ![d] = Degraded(@)]

-----------------------------------------------------------------------------
(* An actor's progress *)

At(a, place) == op[a].at = place
Goto(a, place) == op' = [op EXCEPT ![a].at = place]
Mine(a) == op[a].for
Publish(a, then, otherwise) ==
    op' = [op EXCEPT ![a].at = "publish", ![a].then = then, ![a].otherwise = otherwise]
Continue(a, place) ==
    op' = [op EXCEPT ![a].at = place, ![a].then = "idle", ![a].otherwise = "idle",
                     ![a].document = NoDocument]
Release(a) == op' = [op EXCEPT ![a] = Resting] /\ busy' = [busy EXCEPT ![Mine(a)] = NoOne]

\* next_generation
NextGeneration(d, seen) ==
    1 + Max({0, seen.current} \cup {g \in Generations : recorded[d][g] # "none"})

\* foreground_admission waits while maintenance holds the guard, and its intent keeps
\* maintenance out from then on; resolve_target then reads the row, without the guard.
Resolve(c) ==
    LET d == Target[c] IN
    /\ At(c, "idle") /\ busy[d] # Keeper
    /\ \E kind \in Kinds[c] :
           /\ IF kind = "apply" THEN NextGeneration(d, row[d]) <= MaxGeneration[d]
              ELSE row[d].state # "absent"
           /\ op' = [op EXCEPT ![c].at = "resolved", ![c].kind = kind, ![c].for = d, ![c].row = row[d]]
    /\ UNCHANGED <<records, listener, busy, published, faults>>

\* acquire_busy; a second caller is refused.
Acquire(c) ==
    /\ At(c, "resolved")
    /\ IF busy[Mine(c)] # NoOne
       THEN op' = [op EXCEPT ![c] = Resting] /\ UNCHANGED busy
       ELSE /\ busy' = [busy EXCEPT ![Mine(c)] = c]
            /\ op' = [op EXCEPT ![c].at = op[c].kind, ![c].kind = "none"]
    /\ UNCHANGED <<records, listener, published, faults>>

-----------------------------------------------------------------------------
(* deployment.apply *)

\* The declaration has not changed since it was applied: nothing to do if it still serves.
Unchanged(c) ==
    LET d == Mine(c) IN
    /\ At(c, "apply") /\ op[c].row.state = "running"
    /\ ValidateOrWithdraw(d)
    /\ IF RouteIsLive(d) THEN Release(c)
       ELSE /\ IF route[d].port = 0 THEN Goto(c, "upsert") ELSE Publish(c, "upsert", "release")
            /\ UNCHANGED busy
    /\ UNCHANGED <<component, recorded, lease, listener, published, faults>>

\* upsert_with_fingerprint and add_generation: the row is applying from here on.
BeginApply(c) ==
    LET d == Mine(c)
        g == NextGeneration(d, op[c].row)
    IN
    /\ op[c].at \in {"apply", "upsert"} /\ g \in 1 .. MaxGeneration[d]
    /\ row' = [row EXCEPT ![d].state = "applying"]
    /\ component' = [component EXCEPT ![d].state = IF @ = "none" THEN "unknown" ELSE @]
    /\ recorded' = [recorded EXCEPT ![d][g] = "candidate"]
    /\ op' = [op EXCEPT ![c].at = "build", ![c].generation = g, ![c].old = component[d]]
    /\ UNCHANGED <<lease, route, listener, busy, published, faults>>

\* Mutant: the failed candidate stays selected.
KeepsCandidate(c) == [op[c].row EXCEPT !.current = op[c].generation]

\* restore_apply_snapshot writes back the row that resolve_target read.
Restored(c) == op[c].row

\* prepare_generation (before add_generation) or run_build fails:
\* restore_after_preparation_failure.
BuildFails(c) ==
    LET d == Mine(c)
        known == op[c].row # NoRow
    IN
    /\ At(c, "build")
    /\ \E left \in {"none", "settled"} : recorded' = [recorded EXCEPT ![d][op[c].generation] = left]
    /\ row' = [row EXCEPT ![d] = IF known THEN Restored(c) ELSE [@ EXCEPT !.state = "failed"]]
    /\ component' = [component EXCEPT ![d] = IF known THEN op[c].old ELSE @]
    /\ Release(c)
    /\ UNCHANGED <<lease, route, listener, published, faults>>

Free(p) == listener[p] = NoListener /\ \A d \in Deployments : lease[d] # p

\* converge reads the route it may have to restore; allocate_ports keeps the stable lease
\* or takes the first free port.  With none left the error leaves the row applying.
AllocatePorts(c) ==
    LET d == Mine(c)
        free == {p \in Ports : Free(p)}
    IN
    /\ At(c, "build")
    /\ IF lease[d] = 0 /\ free = {}
       THEN Release(c) /\ UNCHANGED lease
       ELSE /\ \/ lease[d] # 0 /\ UNCHANGED lease
               \/ lease[d] = 0 /\ \E p \in free : /\ \A q \in free : p <= q
                                                  /\ lease' = [lease EXCEPT ![d] = p]
            /\ op' = [op EXCEPT ![c].at = "switch", ![c].route = route[d]]
            /\ UNCHANGED busy
    /\ UNCHANGED <<row, component, recorded, route, listener, published, faults>>

\* Mutant: converge does not note that it has stopped the old process.
StopsUnnoted(c) ==
    /\ At(c, "switch")
    /\ listener' = Without(Mine(c), op[c].old.generation)
    /\ Goto(c, "bring_up")
    /\ UNCHANGED <<records, busy, published, faults>>

\* The old routed process gives up the port first.
StopOld(c) ==
    LET d == Mine(c)
        running == op[c].old.state = "running"
    IN
    /\ At(c, "switch")
    /\ listener' = IF running THEN Without(d, op[c].old.generation) ELSE listener
    /\ op' = [op EXCEPT ![c].at = "bring_up", ![c].stopped = running]
    /\ UNCHANGED <<records, busy, published, faults>>

\* bring_up starts the candidate and records it, or fails.
BringUp(c) ==
    LET d == Mine(c) IN
    /\ At(c, "bring_up")
    /\ \/ /\ listener' = With(d, op[c].generation)
          /\ component' = [component EXCEPT ![d].state = "starting",
                                            ![d].generation = op[c].generation]
          /\ Goto(c, "prove")
       \/ Goto(c, "abort") /\ UNCHANGED <<component, listener>>
    /\ UNCHANGED <<row, recorded, lease, route, busy, published, faults>>

\* prove_health and binding_owns_port
ProveHealth(c) ==
    LET d == Mine(c) IN
    /\ At(c, "prove")
    /\ \/ /\ Listens(d, op[c].generation)
          /\ component' = [component EXCEPT ![d].state = "running"]
          /\ Goto(c, "set_route")
       \/ /\ component' = [component EXCEPT ![d].state = "failed"]
          /\ Goto(c, "abort")
    /\ UNCHANGED <<row, recorded, lease, route, listener, busy, published, faults>>

TakeRoute(c) ==
    LET d == Mine(c)
        g == op[c].generation
    IN
    /\ At(c, "set_route")
    /\ SetRoute(d, lease[d], g)
    /\ IF RouteLease(d, lease[d], g) THEN Publish(c, "commit", "abort") ELSE Goto(c, "abort")
    /\ UNCHANGED <<component, recorded, lease, listener, busy, published, faults>>

\* retire_previous, prune_generations and the final row.
Commit(c) ==
    LET d == Mine(c)
        g == op[c].generation
    IN
    /\ At(c, "commit")
    /\ listener' = IF op[c].old.generation # g THEN Without(d, op[c].old.generation) ELSE listener
    /\ recorded' = [recorded EXCEPT ![d] = [n \in Generations |-> IF n = g THEN "settled" ELSE "none"]]
    /\ component' = [component EXCEPT ![d].desired = "running"]
    /\ row' = [row EXCEPT ![d] = [state |-> "running", current |-> g]]
    /\ Release(c)
    /\ UNCHANGED <<lease, route, published, faults>>

\* abort_candidate
Abort(c) ==
    LET d == Mine(c)
        g == op[c].generation
        known == op[c].row # NoRow
    IN
    /\ At(c, "abort")
    /\ listener' = Without(d, g)
    /\ recorded' = [recorded EXCEPT ![d] = [n \in Generations |->
                        IF n \notin {g, op[c].old.generation} THEN "none"
                        ELSE IF n = g THEN "settled" ELSE @[n]]]
    /\ row' = [row EXCEPT ![d] = IF known THEN Restored(c) ELSE [@ EXCEPT !.current = 0]]
    /\ component' = [component EXCEPT ![d] =
                        IF known THEN op[c].old
                        ELSE IF @.generation = g THEN [@ EXCEPT !.state = "stopped", !.generation = 0]
                        ELSE @]
    /\ Goto(c, IF op[c].stopped THEN "restart" ELSE "reroute")
    /\ UNCHANGED <<lease, route, busy, published, faults>>

\* The previous routed process is started again, or recorded as failed.
RestartOld(c) ==
    LET d == Mine(c) IN
    /\ At(c, "restart")
    /\ \/ /\ With(d, op[c].old.generation) # listener
          /\ listener' = With(d, op[c].old.generation) /\ UNCHANGED component
       \/ /\ component' = [component EXCEPT ![d].state = "failed"] /\ UNCHANGED listener
    /\ Goto(c, "reroute")
    /\ UNCHANGED <<row, recorded, lease, route, busy, published, faults>>

\* The previous route is taken again through set_route and validated.
Reroute(c) ==
    LET d == Mine(c)
        old == op[c].route
    IN
    /\ At(c, "reroute")
    /\ IF old.port = 0 THEN route' = [route EXCEPT ![d] = old] /\ UNCHANGED row
       ELSE IF RouteLease(d, old.port, old.generation) => Listens(d, component[d].generation)
       THEN SetRoute(d, old.port, old.generation)
       ELSE /\ route' = [route EXCEPT ![d] = Withdrawn(old)]
            /\ row' = [row EXCEPT ![d] = Degraded(@)]
    /\ Publish(c, "degrade", "degrade")
    /\ UNCHANGED <<component, recorded, lease, listener, busy, published, faults>>

Degrade(c) ==
    /\ At(c, "degrade")
    /\ row' = [row EXCEPT ![Mine(c)].state = IF op[c].row.current # 0 THEN "degraded" ELSE "failed"]
    /\ Release(c)
    /\ UNCHANGED <<component, recorded, lease, route, listener, published, faults>>

-----------------------------------------------------------------------------
(* deployment.stop, start and remove *)

\* stop_components: the unit, its record, the route without a port, the publication.
StopComponents(c) ==
    LET d == Mine(c) IN
    /\ op[c].at \in {"stop", "remove"}
    /\ listener' = Without(d, component[d].generation)
    /\ component' = [component EXCEPT ![d] =
                        IF @.generation = 0 THEN @
                        ELSE [@ EXCEPT !.state = "stopped", !.desired = "stopped"]]
    /\ route' = [route EXCEPT ![d] = [row |-> TRUE, port |-> 0, generation |-> op[c].row.current]]
    /\ Publish(c, IF At(c, "stop") THEN "recompute" ELSE "republish", "release")
    /\ UNCHANGED <<row, recorded, lease, busy, published, faults>>

RecomputedState(d) ==
    CASE component[d].state = "running" -> "running"
      [] component[d].state = "stopped" -> "stopped"
      [] OTHER -> "degraded"

RecomputeState(c) ==
    /\ At(c, "recompute")
    /\ row' = [row EXCEPT ![Mine(c)].state = RecomputedState(Mine(c))]
    /\ Release(c)
    /\ UNCHANGED <<component, recorded, lease, route, listener, published, faults>>

\* start_components: the recorded generation's unit and its health.  Without an applied
\* generation control refuses to start.
StartComponents(c) ==
    LET d == Mine(c)
        g == IF component[d].generation # 0 THEN component[d].generation ELSE op[c].row.current
    IN
    /\ At(c, "start")
    /\ \/ /\ g = 0 /\ Release(c) /\ UNCHANGED <<component, listener>>
       \/ /\ g # 0 /\ lease[d] # 0 /\ listener[lease[d]] \in {NoListener, Unit(d, g)}
          /\ listener' = [listener EXCEPT ![lease[d]] = Unit(d, g)]
          /\ component' = [component EXCEPT ![d].state = "running", ![d].desired = "running"]
          /\ Goto(c, "start_route") /\ UNCHANGED busy
       \/ /\ g # 0
          /\ component' = [component EXCEPT ![d].state = "failed", ![d].desired = "running"]
          /\ Release(c) /\ UNCHANGED listener
    /\ UNCHANGED <<row, recorded, lease, route, published, faults>>

\* start_components ends with set_route of the generation in the row it was given.
StartRoute(c) ==
    LET d == Mine(c)
        g == op[c].row.current
    IN
    /\ At(c, "start_route")
    /\ SetRoute(d, lease[d], g)
    /\ IF RouteLease(d, lease[d], g)
       THEN Publish(c, "recompute", "release") /\ UNCHANGED busy
       ELSE Release(c)
    /\ UNCHANGED <<component, recorded, lease, listener, published, faults>>

\* Mutant: remove does not wait for the edge.
NotAwaited(c) == TRUE

\* wait_for_edge has read the document and found it, or a later one, accepted.
Acknowledged(c) == accepted.revision >= op[c].seen

\* remove publishes once more before it waits for the edge.
Republish(c) ==
    /\ At(c, "republish")
    /\ Publish(c, "removal", "release")
    /\ UNCHANGED <<records, listener, busy, published, faults>>

\* wait_for_edge reads the published document, then waits for the edge up to ten seconds.
AwaitEdge(c) ==
    /\ At(c, "removal")
    /\ op' = [op EXCEPT ![c].at = "await", ![c].seen = document.revision]
    /\ UNCHANGED <<records, listener, busy, published, faults>>

AwaitTimesOut(c) ==
    /\ At(c, "await") /\ ~Acknowledged(c)
    /\ Release(c)
    /\ UNCHANGED <<records, listener, published, faults>>

\* delete_rows, with the leases.
DeleteRows(c) ==
    LET d == Mine(c) IN
    /\ At(c, "await") /\ Acknowledged(c)
    /\ row' = [row EXCEPT ![d] = NoRow] /\ component' = [component EXCEPT ![d] = NoComponent]
    /\ recorded' = [recorded EXCEPT ![d] = [g \in Generations |-> "none"]]
    /\ lease' = [lease EXCEPT ![d] = 0] /\ route' = [route EXCEPT ![d] = NoRoute]
    /\ Publish(c, "release", "release")
    /\ UNCHANGED <<listener, busy, published, faults>>

\* The operation returns and drops its guard.
Return(a) ==
    /\ At(a, "release") /\ Release(a)
    /\ UNCHANGED <<records, listener, published, faults>>

-----------------------------------------------------------------------------
(* Publication and the edge *)

Fault(kind) ==
    /\ faults.death + faults.crash + faults.publication < MaxFaults
    /\ faults' = [faults EXCEPT ![kind] = @ + 1]

\* Mutant: publications do not exclude one another.
NoPublicationLock == TRUE

PublicationLockFree == publisher = NoOne

\* publish up to its commit: withdraw what has no valid lease, and take the rest.
PublishSnapshot(a) ==
    LET kept == {d \in Deployments : RouteLease(d, route[d].port, route[d].generation)}
        lost == {d \in Deployments : route[d].port # 0} \ kept
    IN
    /\ At(a, "publish") /\ PublicationLockFree /\ revision < MaxDocuments
    /\ publisher' = a /\ revision' = revision + 1
    /\ route' = [d \in Deployments |-> IF d \in lost THEN Withdrawn(route[d]) ELSE route[d]]
    /\ row' = [d \in Deployments |-> IF d \in lost THEN Degraded(row[d]) ELSE row[d]]
    /\ op' = [op EXCEPT ![a].at = "write",
                ![a].document = [revision |-> revision + 1, ports |->
                    [d \in Deployments |-> IF d \in kept THEN route[d].port ELSE 0]]]
    /\ UNCHANGED <<component, recorded, lease, listener, busy, document, accepted, served, faults>>

\* atomic_publish renames the document into place, or fails.
PublishWrite(a) ==
    /\ At(a, "write")
    /\ \/ document' = op[a].document /\ Continue(a, op[a].then) /\ UNCHANGED faults
       \/ Fault("publication") /\ Continue(a, op[a].otherwise) /\ UNCHANGED document
    /\ publisher' = NoOne
    /\ UNCHANGED <<records, listener, busy, revision, accepted, served>>

\* The edge reads a document newer than the one it serves and writes its acknowledgement.
EdgeAccepts ==
    /\ served = accepted /\ document.revision > accepted.revision
    /\ accepted' = document
    /\ UNCHANGED <<records, listener, busy, op, publisher, revision, document, served, faults>>

\* Only after that does it begin to route by it.
EdgeServes ==
    /\ served # accepted /\ served' = accepted
    /\ UNCHANGED <<records, listener, busy, op, publisher, revision, document, accepted, faults>>

-----------------------------------------------------------------------------
(* reconcile_routes_step *)

\* No foreground operation has or wants the deployment: maintenance takes its guard.
KeeperAcquires(d) ==
    /\ At(Keeper, "idle") /\ route[d].row /\ busy[d] = NoOne
    /\ \A c \in Clients : Mine(c) # d
    /\ busy' = [busy EXCEPT ![d] = Keeper]

\* restore_route restarts the exact committed generation's missing process, and then
\* takes the route again.  A row that an apply has left, and a process that does not
\* become ready, end the step with nothing changed.
RestoreRoute(d) ==
    LET g == route[d].generation
        deferred == g # 0 /\ (row[d].current # g \/ row[d].state = "applying")
        applicable ==
            /\ g # 0 /\ component[d].desired = "running" /\ component[d].generation = g
            /\ lease[d] # 0 /\ route[d].port \in {0, lease[d]}
            /\ ~(route[d].port # 0 /\ Listens(d, g))
            /\ listener[lease[d]] \in {NoListener, Unit(d, g)}
        next(place) == op' = [op EXCEPT ![Keeper].at = place, ![Keeper].for = d]
    IN
    /\ KeeperAcquires(d) /\ ~deferred
    /\ \/ /\ ~applicable /\ next("validate")
          /\ UNCHANGED <<row, component, route, listener>>
       \/ /\ applicable /\ recorded[d][g] # "none"
          /\ listener' = [listener EXCEPT ![lease[d]] = Unit(d, g)]
          /\ component' = [component EXCEPT ![d].state = "running"]
          /\ route' = [route EXCEPT ![d].port = lease[d]]
          /\ row' = [row EXCEPT ![d].state = "running"]
          /\ next("validate_restored")
    /\ UNCHANGED <<recorded, lease, published, faults>>

\* A restored route, a withdrawn one and one without a port are published.
ValidateRoute ==
    LET d == Mine(Keeper) IN
    /\ op[Keeper].at \in {"validate", "validate_restored"}
    /\ ValidateOrWithdraw(d)
    /\ IF RouteIsLive(d) /\ At(Keeper, "validate")
       THEN Release(Keeper)
       ELSE Publish(Keeper, "release", "release") /\ UNCHANGED busy
    /\ UNCHANGED <<component, recorded, lease, listener, published, faults>>

-----------------------------------------------------------------------------
(* Faults *)

ProcessDies(p) ==
    /\ Fault("death")
    /\ listener[p] # NoListener
    /\ listener' = [listener EXCEPT ![p] = NoListener]
    /\ UNCHANGED <<records, busy, op, published>>

\* The daemon restarts; units, the database, the files and the edge go on.
Crash ==
    /\ Fault("crash")
    /\ op' = [a \in Actors |-> Resting]
    /\ busy' = [d \in Deployments |-> NoOne]
    /\ publisher' = NoOne
    /\ UNCHANGED <<records, listener, revision, document, accepted, served>>

ApplyStep(c) ==
    \/ Unchanged(c) \/ BeginApply(c) \/ BuildFails(c) \/ AllocatePorts(c) \/ StopOld(c)
    \/ BringUp(c) \/ ProveHealth(c) \/ TakeRoute(c) \/ Commit(c)
    \/ Abort(c) \/ RestartOld(c) \/ Reroute(c) \/ Degrade(c)

ControlStep(c) ==
    \/ StopComponents(c) \/ RecomputeState(c) \/ StartComponents(c) \/ StartRoute(c)
    \/ Republish(c) \/ AwaitEdge(c) \/ AwaitTimesOut(c) \/ DeleteRows(c)

PublishStep(a) == PublishSnapshot(a) \/ PublishWrite(a) \/ Return(a)

DeploymentNext ==
    \/ \E c \in Clients : Resolve(c) \/ Acquire(c) \/ ApplyStep(c) \/ ControlStep(c)
    \/ \E a \in Actors : PublishStep(a)
    \/ \E d \in Deployments : RestoreRoute(d)
    \/ ValidateRoute
    \/ EdgeAccepts \/ EdgeServes
    \/ \E p \in Ports : ProcessDies(p)
    \/ Crash

DeploymentSpec == DeploymentInit /\ [][DeploymentNext]_deploymentVars

-----------------------------------------------------------------------------
(* Properties *)

\* The edge never sends a deployment's visitors to a port that another deployment has
\* leased: a lease is given away only after the edge has accepted its withdrawal,
\* whatever publications of other operations come between.  (The moment between the
\* edge's acknowledgement and its use of the document it acknowledges is left out:
\* there the edge promises what it does not do yet.)
EdgeNeverMisroutes ==
    served = accepted =>
        \A d, e \in Deployments : served.ports[d] # 0 /\ lease[e] = served.ports[d] => d = e

\* The published document never goes back to an earlier snapshot of the database.
DocumentNeverGoesBack == [][document'.revision >= document.revision]_document

\* At rest the row, the component and the route of a deployment agree: a published route
\* is of the selected generation, whose component it names, on the stable lease.  A
\* deployment for which they differ loses its route at the next publication, and
\* maintenance defers to the row for ever.
RecordsAgreeAtRest ==
    \A d \in Deployments :
        faults.crash = 0 /\ busy[d] = NoOne /\ row[d].state # "applying" /\ route[d].port # 0
            => /\ route[d].generation = row[d].current
               /\ component[d].generation = row[d].current
               /\ route[d].port = lease[d]

\* At rest the records are honest about the processes, after whatever failed and was
\* undone: a component recorded as running listens on its lease (unless it has died
\* since), and no process of another generation is left behind.
RuntimeMatchesRecords ==
    \A d \in Deployments :
        faults.crash = 0 /\ busy[d] = NoOne
            => /\ component[d].state = "running" /\ faults.death = 0 => Listens(d, component[d].generation)
               /\ \A p \in Ports : listener[p].of = d
                      => p = lease[d] /\ listener[p].generation = component[d].generation
=============================================================================
