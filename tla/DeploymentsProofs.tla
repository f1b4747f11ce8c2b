------------------------- MODULE DeploymentsProofs -------------------------
(***************************************************************************)
(* Proofs about Deployments, for any deployments, callers, ports and       *)
(* bounds, with as many callers of a deployment as one likes.              *)
(***************************************************************************)
EXTENDS Deployments, TLAPS

\* The types.
Asked == {"apply", "stop", "start", "remove"}
KindNames == Asked \cup {"none"}
Targets == {"upsert", "release", "commit", "abort", "degrade", "recompute", "republish", "removal",
            "idle"}
Failures == {"idle", "release", "abort", "degrade"}
Places == Asked \cup Targets \cup
          {"resolved", "build", "switch", "bring_up", "prove", "set_route", "restart", "reroute",
           "start_route", "await", "publish", "write", "validate", "validate_restored"}
RowStates == {"absent", "applying", "running", "stopped", "degraded", "failed"}
ComponentStates == {"none", "unknown", "starting", "running", "failed", "stopped"}
Desired == {"running", "stopped"}
Marks == {"none", "candidate", "settled"}
Owners == Deployments \cup {NoOne}

Rows == [state : RowStates, current : Nat]
Components == [state : ComponentStates, generation : Nat, desired : Desired]
Routes == [row : BOOLEAN, port : Nat, generation : Nat]
Units == [of : Owners, generation : Nat]
PortMaps == [Deployments -> Nat]
Documents == [revision : Nat, ports : PortMaps]
Operations ==
    [at : Places, kind : KindNames, for : Owners, row : Rows, old : Components, route : Routes,
     generation : Nat, stopped : BOOLEAN, then : Targets, otherwise : Failures, seen : Nat,
     document : Documents]

DeploymentTypeOK ==
    /\ row \in [Deployments -> Rows]
    /\ component \in [Deployments -> Components]
    /\ recorded \in [Deployments -> [Generations -> Marks]]
    /\ lease \in [Deployments -> Nat]
    /\ route \in [Deployments -> Routes]
    /\ listener \in [Ports -> Units]
    /\ busy \in [Deployments -> Actors \cup {NoOne}]
    /\ op \in [Actors -> Operations]
    /\ revision \in Nat
    /\ document \in Documents /\ accepted \in Documents /\ served \in Documents

-----------------------------------------------------------------------------
(* The records *)

\* The fields of a value of each type.
LEMMA Fields ==
    /\ \A r \in Rows : r.state \in RowStates /\ r.current \in Nat
    /\ \A r \in Components : r.state \in ComponentStates /\ r.generation \in Nat /\ r.desired \in Desired
    /\ \A r \in Routes : r.row \in BOOLEAN /\ r.port \in Nat /\ r.generation \in Nat
    /\ \A u \in Units : u.of \in Owners /\ u.generation \in Nat
    /\ \A m \in Documents : m.revision \in Nat /\ m.ports \in PortMaps
BY DEF Rows, Components, Routes, Units, Documents

\* The fields of an operation.
LEMMA OperationFields ==
    ASSUME NEW o \in Operations
    PROVE  /\ o.at \in Places /\ o.kind \in KindNames /\ o.for \in Owners /\ o.row \in Rows
           /\ o.old \in Components /\ o.route \in Routes /\ o.generation \in Nat
           /\ o.stopped \in BOOLEAN /\ o.then \in Targets /\ o.otherwise \in Failures
           /\ o.seen \in Nat /\ o.document \in Documents
BY DEF Operations

\* Updates keep the types.
LEMMA RowEdits ==
    ASSUME NEW r \in Rows
    PROVE  /\ \A s \in RowStates : [r EXCEPT !.state = s] \in Rows
           /\ \A n \in Nat : [r EXCEPT !.current = n] \in Rows
BY Zenon DEF Rows

\* The component rows that the code writes.
LEMMA ComponentEdits ==
    ASSUME NEW r \in Components, NEW s \in ComponentStates
    PROVE  /\ [r EXCEPT !.state = s] \in Components
           /\ \A n \in Nat : [r EXCEPT !.state = s, !.generation = n] \in Components
           /\ \A t \in Desired : [r EXCEPT !.state = s, !.desired = t] \in Components
           /\ \A t \in Desired : [r EXCEPT !.desired = t] \in Components
BY Zenon DEF Components

\* The route rows that the code writes.
LEMMA RouteEdits ==
    ASSUME NEW r \in Routes, NEW n \in Nat
    PROVE  /\ [r EXCEPT !.port = n] \in Routes /\ [r EXCEPT !.port = n].port = n
           /\ \A b \in BOOLEAN, g \in Nat :
                  LET s == [row |-> b, port |-> n, generation |-> g] IN s \in Routes /\ s.port = n
BY Zenon DEF Routes

\* The parts of an operation that the arguments below follow.
Same(o, q) ==
    /\ o.kind = q.kind /\ o.for = q.for /\ o.then = q.then /\ o.otherwise = q.otherwise
    /\ o.seen = q.seen /\ o.document = q.document

\* An operation that only goes on keeps what is followed below.
LEMMA OperationEdits ==
    ASSUME NEW o \in Operations, NEW place \in Places
    PROVE  /\ LET q == [o EXCEPT !.at = place] IN q \in Operations /\ q.at = place /\ Same(q, o)
           /\ \A g \in Nat, r \in Components :
                  LET q == [o EXCEPT !.at = place, !.generation = g, !.old = r] IN
                  q \in Operations /\ q.at = place /\ Same(q, o)
           /\ \A r \in Routes :
                  LET q == [o EXCEPT !.at = place, !.route = r] IN
                  q \in Operations /\ q.at = place /\ Same(q, o)
           /\ \A b \in BOOLEAN :
                  LET q == [o EXCEPT !.at = place, !.stopped = b] IN
                  q \in Operations /\ q.at = place /\ Same(q, o)
BY Zenon DEF Operations, Same

\* An operation that has published keeps its deployment.
LEMMA OperationContinues ==
    ASSUME NEW o \in Operations, NEW place \in Targets \cup Failures
    PROVE  LET q == [o EXCEPT !.at = place, !.then = "idle", !.otherwise = "idle",
                              !.document = NoDocument]
           IN q \in Operations /\ q.at = place /\ q.for = o.for /\ q.kind = o.kind
<1>1. place \in Places /\ "idle" \in Targets /\ "idle" \in Failures
  BY DEF Places, Targets, Failures
<1>2. NoDocument \in Documents
  BY DEF NoDocument, Documents, PortMaps
<1>3. [o EXCEPT !.at = place, !.then = "idle"] \in Operations
  BY <1>1, Zenon DEF Operations
<1>. QED
  BY <1>1, <1>2, <1>3, Zenon DEF Operations

\* The initial values have their types.
LEMMA Constants ==
    /\ NoRow \in Rows /\ NoComponent \in Components /\ NoRoute \in Routes
    /\ NoListener \in Units /\ NoDocument \in Documents /\ Resting \in Operations
    /\ NoRoute.port = 0 /\ Resting.at = "idle"
<1>1. NoRow \in Rows /\ NoComponent \in Components /\ NoListener \in Units
  BY DEF NoRow, Rows, RowStates, NoComponent, Components, ComponentStates, Desired, NoListener, Units,
         Owners
<1>2. NoRoute \in Routes /\ NoRoute.port = 0
  BY DEF NoRoute, Routes
<1>3. NoDocument \in Documents
  BY DEF NoDocument, Documents, PortMaps
<1>4. /\ "idle" \in Places /\ "none" \in KindNames /\ NoOne \in Owners /\ "idle" \in Targets
      /\ "idle" \in Failures
  BY DEF Places, Targets, KindNames, Owners, Failures
<1>5. Resting.at = "idle"
  BY DEF Resting
<1>6. Resting \in Operations
  BY <1>1, <1>2, <1>3, <1>4 DEF Resting, Operations
<1>. QED
  BY <1>1, <1>2, <1>3, <1>5, <1>6

-----------------------------------------------------------------------------
(* What the steps do, as far as guards, leases, routes and documents go *)

\* Whoever has got past acquire_busy or KeeperAcquires holds the guard of its deployment.
GuardInv ==
    \A a \in Actors :
        /\ op[a].at = "resolved" => op[a].kind \in Asked /\ op[a].for \in Deployments
        /\ op[a].at \notin {"idle", "resolved"} => op[a].for \in Deployments /\ busy[op[a].for] = a

Keeps(a) ==
    /\ op' \in [Actors -> Operations]
    /\ \A b \in Actors : b # a => op'[b] = op[b]

Routed(d) ==
    /\ row' \in [Deployments -> Rows] /\ route' \in [Deployments -> Routes]
    /\ \A e \in Deployments : e # d => route'[e] = route[e]
    /\ route'[d].port \in {0, lease[d], route[d].port}

\* A step of one operation.
LEMMA GotoEffect ==
    ASSUME DeploymentTypeOK, NEW a \in Actors, NEW place \in Places, Goto(a, place)
    PROVE  Keeps(a) /\ op'[a].at = place /\ Same(op'[a], op[a])
<1>1. op[a] \in Operations
  BY DEF DeploymentTypeOK
<1>2. op' = [op EXCEPT ![a] = [op[a] EXCEPT !.at = place]]
  BY DEF Goto
<1>. DEFINE q == [op[a] EXCEPT !.at = place]
<1>3. q \in Operations /\ q.at = place /\ Same(q, op[a])
  BY <1>1, OperationEdits, Zenon
<1>4. op' = [op EXCEPT ![a] = q]
  BY <1>2
<1>. HIDE DEF q
<1>. QED
  BY <1>3, <1>4 DEF Keeps, DeploymentTypeOK

\* An operation that is about to publish.
LEMMA PublishEffect ==
    ASSUME DeploymentTypeOK, NEW a \in Actors, NEW t \in Targets, NEW u \in Failures, Publish(a, t, u)
    PROVE  /\ Keeps(a) /\ op'[a].at = "publish" /\ op'[a].then = t /\ op'[a].otherwise = u
           /\ op'[a].for = op[a].for
<1>1. op[a] \in Operations
  BY DEF DeploymentTypeOK
<1>. DEFINE q == [op[a] EXCEPT !.at = "publish", !.then = t, !.otherwise = u]
<1>2. op' = [op EXCEPT ![a] = q]
  BY Zenon DEF Publish
<1>3. q \in Operations /\ q.at = "publish" /\ q.then = t /\ q.otherwise = u /\ q.for = op[a].for
  <2>. "publish" \in Places
    BY DEF Places
  <2>. QED
    BY <1>1, Zenon DEF Operations
<1>. HIDE DEF q
<1>. QED
  BY <1>2, <1>3 DEF Keeps, DeploymentTypeOK

\* An operation that goes on after publishing.
LEMMA ContinueEffect ==
    ASSUME DeploymentTypeOK, NEW a \in Actors, NEW place \in Targets \cup Failures, Continue(a, place)
    PROVE  Keeps(a) /\ op'[a].at = place /\ op'[a].for = op[a].for
<1>1. op[a] \in Operations
  BY DEF DeploymentTypeOK
<1>. DEFINE q == [op[a] EXCEPT !.at = place, !.then = "idle", !.otherwise = "idle",
                              !.document = NoDocument]
<1>2. op' = [op EXCEPT ![a] = q]
  BY Zenon DEF Continue
<1>3. q \in Operations /\ q.at = place /\ q.for = op[a].for
  BY <1>1, OperationContinues, Zenon
<1>. HIDE DEF q
<1>. QED
  BY <1>2, <1>3 DEF Keeps, DeploymentTypeOK

\* An operation that ends gives the guard back.
LEMMA ReleaseEffect ==
    ASSUME DeploymentTypeOK, NEW a \in Actors, Release(a), op[a].for \in Deployments
    PROVE  /\ Keeps(a) /\ op'[a].at = "idle"
           /\ busy' = [busy EXCEPT ![op[a].for] = NoOne]
           /\ busy' \in [Deployments -> Actors \cup {NoOne}]
BY Constants DEF Release, Mine, Keeps, DeploymentTypeOK

\* set_route and validate_or_withdraw_route give a deployment its lease, or nothing.
LEMMA WithdrawEffect ==
    ASSUME NEW r \in Routes
    PROVE  Withdrawn(r) \in Routes /\ Withdrawn(r).port = 0
BY RouteEdits, Zenon DEF Withdrawn

\* A degraded row is a row.
LEMMA DegradeEffect ==
    ASSUME NEW r \in Rows
    PROVE  Degraded(r) \in Rows
<1>1. "degraded" \in RowStates
  BY DEF RowStates
<1>2. [r EXCEPT !.state = "degraded"] \in Rows
  BY <1>1, RowEdits, Zenon
<1>. QED
  BY <1>2 DEF Degraded

\* set_route writes the route of one deployment.
LEMMA SetRouteEffect ==
    ASSUME DeploymentTypeOK, NEW d \in Deployments, NEW port \in Nat, NEW g \in Nat, SetRoute(d, port, g)
    PROVE  Routed(d)
<1>. DEFINE s == [row |-> TRUE, port |-> port, generation |-> g]
            w == [row[d] EXCEPT !.current = IF row[d].state = "applying" THEN g ELSE @]
<1>1. s \in Routes /\ s.port = port
  BY DEF Routes
<1>2. w \in Rows
  <2>1. row[d] \in Rows /\ row[d].current \in Nat
    BY Fields DEF DeploymentTypeOK
  <2>2. (IF row[d].state = "applying" THEN g ELSE row[d].current) \in Nat
    BY <2>1
  <2>. QED
    BY <2>1, <2>2, RowEdits, Zenon
<1>3. Withdrawn(route[d]) \in Routes /\ Withdrawn(route[d]).port = 0 /\ Degraded(row[d]) \in Rows
  BY WithdrawEffect, DegradeEffect DEF DeploymentTypeOK
<1>4. CASE RouteLease(d, port, g)
  <2>1. route' = [route EXCEPT ![d] = s] /\ row' = [row EXCEPT ![d] = w]
    BY <1>4, Zenon DEF SetRoute
  <2>2. port = lease[d]
    BY <1>4 DEF RouteLease
  <2>. HIDE DEF s, w
  <2>. QED
    BY <1>1, <1>2, <2>1, <2>2 DEF Routed, DeploymentTypeOK
<1>5. CASE ~RouteLease(d, port, g)
  BY <1>3, <1>5, Zenon DEF SetRoute, Routed, DeploymentTypeOK
<1>. QED
  BY <1>4, <1>5

\* validate_or_withdraw keeps the route of the deployment or withdraws it.
LEMMA ValidateEffect ==
    ASSUME DeploymentTypeOK, NEW d \in Deployments, ValidateOrWithdraw(d)
    PROVE  Routed(d)
<1>1. Withdrawn(route[d]) \in Routes /\ Withdrawn(route[d]).port = 0 /\ Degraded(row[d]) \in Rows
  BY WithdrawEffect, DegradeEffect DEF DeploymentTypeOK
<1>. QED
  BY <1>1 DEF ValidateOrWithdraw, Routed, DeploymentTypeOK

\* Where an operation may go without promising anything about documents.
Plain(o) ==
    /\ o.at \notin {"resolved", "write", "republish", "removal", "await"}
    /\ o.at = "publish" => o.then \notin {"republish", "removal"}

\* It holds its guard, and keeps or drops it.
Progresses(a) ==
    /\ Keeps(a) /\ Plain(op'[a])
    /\ op[a].at \notin {"idle", "resolved"} /\ op[a].for \in Deployments
    /\ \/ op'[a].for = op[a].for /\ busy' = busy
       \/ op'[a].at = "idle" /\ busy' = [busy EXCEPT ![op[a].for] = NoOne]

Works(a) ==
    /\ Progresses(a) /\ Routed(op[a].for)
    /\ UNCHANGED <<lease, publisher, revision, document, accepted>>

\* An operation past its admission has its deployment's guard.
LEMMA Holding ==
    ASSUME DeploymentTypeOK, GuardInv, NEW a \in Actors, op[a].at \notin {"idle", "resolved"}
    PROVE  /\ op[a].for \in Deployments /\ busy[op[a].for] = a /\ op[a] \in Operations
           /\ row[op[a].for] \in Rows /\ component[op[a].for] \in Components
           /\ route[op[a].for] \in Routes /\ lease[op[a].for] \in Nat
BY DEF GuardInv, DeploymentTypeOK

\* A step that leaves every route alone leaves this one.
LEMMA NoRouteChange ==
    ASSUME DeploymentTypeOK, row' \in [Deployments -> Rows], route' = route, NEW d \in Deployments
    PROVE  Routed(d)
BY DEF Routed, DeploymentTypeOK

\* Units come and go on the ports of the range.
LEMMA ListenerEffect ==
    ASSUME DeploymentTypeOK, NEW d \in Deployments, NEW g \in Nat
    PROVE  With(d, g) \in [Ports -> Units] /\ Without(d, g) \in [Ports -> Units]
<1>1. Unit(d, g) \in Units /\ NoListener \in Units
  BY Constants DEF Unit, Units, Owners
<1>. QED
  BY <1>1, Zenon DEF With, Without, DeploymentTypeOK

PlainPlaces == Places \ {"resolved", "write", "republish", "removal", "await", "publish"}

\* A step within an operation.
LEMMA GotoProgress ==
    ASSUME DeploymentTypeOK, GuardInv, NEW a \in Actors, op[a].at \notin {"idle", "resolved"},
           NEW place \in PlainPlaces, Goto(a, place), busy' = busy
    PROVE  Progresses(a)
<1>1. Keeps(a) /\ op'[a].at = place /\ Same(op'[a], op[a])
  BY GotoEffect DEF PlainPlaces
<1>. QED
  BY <1>1, Holding DEF Progresses, Plain, PlainPlaces, Same

\* A step within an operation, to a publication.
LEMMA PublishProgress ==
    ASSUME DeploymentTypeOK, GuardInv, NEW a \in Actors, op[a].at \notin {"idle", "resolved"},
           NEW t \in Targets \ {"republish", "removal"}, NEW u \in Failures, Publish(a, t, u), busy' = busy
    PROVE  Progresses(a)
<1>1. Keeps(a) /\ op'[a].at = "publish" /\ op'[a].then = t /\ op'[a].for = op[a].for
  BY PublishEffect
<1>. QED
  BY <1>1, Holding DEF Progresses, Plain

\* The last step of an operation.
LEMMA ReleaseProgress ==
    ASSUME DeploymentTypeOK, GuardInv, NEW a \in Actors, op[a].at \notin {"idle", "resolved"}, Release(a)
    PROVE  Progresses(a)
BY Holding, ReleaseEffect DEF Progresses, Plain

\* What makes a step one of the plain ones.
LEMMA WorksWhen ==
    ASSUME DeploymentTypeOK, NEW a \in Actors, Progresses(a), Routed(op[a].for),
           component' \in [Deployments -> Components],
           recorded' \in [Deployments -> [Generations -> Marks]],
           listener' \in [Ports -> Units], lease' = lease, UNCHANGED published
    PROVE  DeploymentTypeOK' /\ Works(a)
<1>1. busy' \in [Deployments -> Actors \cup {NoOne}]
  BY DEF DeploymentTypeOK, Progresses
<1>. QED
  BY <1>1 DEF DeploymentTypeOK, Progresses, Works, Routed, Keeps, published

\* apply without a change is a plain step.
LEMMA UnchangedWorks ==
    ASSUME DeploymentTypeOK, GuardInv, NEW c \in Clients, Unchanged(c)
    PROVE  DeploymentTypeOK' /\ Works(c)
<1>1. c \in Actors /\ op[c].at \notin {"idle", "resolved"}
  BY DEF Unchanged, Actors, At
<1>2. Routed(op[c].for)
  BY <1>1, Holding, ValidateEffect DEF Unchanged, Mine
<1>3. CASE Release(c)
  BY <1>1, <1>3, ReleaseProgress, <1>2, WorksWhen, Zenon DEF Unchanged, DeploymentTypeOK
<1>4. CASE Goto(c, "upsert") /\ UNCHANGED busy
  <2>1. Progresses(c)
    BY <1>1, <1>4, GotoProgress DEF PlainPlaces, Places, Targets
  <2>. QED
    BY <1>1, <2>1, <1>2, WorksWhen, Zenon DEF Unchanged, DeploymentTypeOK
<1>5. CASE Publish(c, "upsert", "release") /\ UNCHANGED busy
  <2>1. Progresses(c)
    BY <1>1, <1>5, PublishProgress DEF Targets, Failures
  <2>. QED
    BY <1>1, <2>1, <1>2, WorksWhen, Zenon DEF Unchanged, DeploymentTypeOK
<1>. QED
  BY <1>3, <1>4, <1>5 DEF Unchanged

\* The first records of a converge are a plain step.
LEMMA BeginApplyWorks ==
    ASSUME DeploymentTypeOK, GuardInv, NEW c \in Clients, BeginApply(c)
    PROVE  DeploymentTypeOK' /\ Works(c)
<1>. DEFINE d == op[c].for
            g == NextGeneration(d, op[c].row)
            w == [row[d] EXCEPT !.state = "applying"]
            v == [component[d] EXCEPT !.state = IF @ = "none" THEN "unknown" ELSE @]
            q == [op[c] EXCEPT !.at = "build", !.generation = g, !.old = component[d]]
<1>1. c \in Actors /\ op[c].at \in {"apply", "upsert"} /\ g \in Nat
  BY DeploymentConstants DEF BeginApply, Actors, At, Mine
<1>2. /\ d \in Deployments /\ op[c] \in Operations /\ row[d] \in Rows
      /\ component[d] \in Components /\ component[d].state \in ComponentStates
  BY <1>1, Holding, Fields
<1>3. w \in Rows
  BY <1>2, RowEdits, Zenon DEF RowStates
<1>4. v \in Components
  <2>1. (IF component[d].state = "none" THEN "unknown" ELSE component[d].state) \in ComponentStates
    BY <1>2 DEF ComponentStates
  <2>. QED
    BY <1>2, <2>1, ComponentEdits, Zenon
<1>5. q \in Operations /\ q.at = "build" /\ Same(q, op[c])
  <2>. HIDE DEF g
  <2>. "build" \in Places
    BY DEF Places
  <2>. QED
    BY <1>1, <1>2, Zenon DEF Operations, Same
<1>6. row' = [row EXCEPT ![d] = w] /\ component' = [component EXCEPT ![d] = v]
  BY Zenon DEF BeginApply, Mine
<1>7. op' = [op EXCEPT ![c] = q]
  BY Zenon DEF BeginApply, Mine
<1>8. recorded' \in [Deployments -> [Generations -> Marks]]
  BY <1>2, Zenon DEF BeginApply, Mine, DeploymentTypeOK, Marks
<1>. HIDE DEF w, v, q
<1>9. row' \in [Deployments -> Rows] /\ component' \in [Deployments -> Components] /\ Keeps(c)
  BY <1>1, <1>3, <1>4, <1>5, <1>6, <1>7, Zenon DEF DeploymentTypeOK, Keeps
<1>10. op'[c] = q
  BY <1>1, <1>7 DEF DeploymentTypeOK
<1>11. Routed(d)
  BY <1>2, <1>9, NoRouteChange DEF BeginApply
<1>12. Progresses(c)
  BY <1>1, <1>2, <1>5, <1>9, <1>10 DEF BeginApply, Progresses, Plain, Same
<1>. QED
  BY <1>1, <1>8, <1>9, <1>11, <1>12, WorksWhen, Zenon DEF BeginApply, DeploymentTypeOK

\* A failed build is a plain step.
LEMMA BuildFailsWorks ==
    ASSUME DeploymentTypeOK, GuardInv, NEW c \in Clients, BuildFails(c)
    PROVE  DeploymentTypeOK' /\ Works(c)
<1>. DEFINE d == op[c].for
            w == [row[d] EXCEPT !.state = "failed"]
<1>1. c \in Actors /\ op[c].at \notin {"idle", "resolved"}
  BY DEF BuildFails, Actors, At
<1>2. /\ d \in Deployments /\ op[c].row \in Rows /\ op[c].old \in Components
      /\ row[d] \in Rows /\ component[d] \in Components
  BY <1>1, Holding, OperationFields
<1>3. w \in Rows
  BY <1>2, RowEdits, Zenon DEF RowStates
<1>4. row' \in [Deployments -> Rows] /\ component' \in [Deployments -> Components]
  <2>1. row' = [row EXCEPT ![d] = IF op[c].row # NoRow THEN op[c].row ELSE w]
    BY Zenon DEF BuildFails, Mine, Restored
  <2>2. component' = [component EXCEPT ![d] = IF op[c].row # NoRow THEN op[c].old ELSE component[d]]
    BY Zenon DEF BuildFails, Mine
  <2>. HIDE DEF w
  <2>. QED
    BY <1>2, <1>3, <2>1, <2>2 DEF DeploymentTypeOK
<1>5. recorded' \in [Deployments -> [Generations -> Marks]]
  <2>1. PICK left \in {"none", "settled"} :
            recorded' = [recorded EXCEPT ![d][op[c].generation] = left]
    BY Zenon DEF BuildFails, Mine
  <2>2. left \in Marks
    BY DEF Marks
  <2>. QED
    BY <1>2, <2>1, <2>2, Zenon DEF DeploymentTypeOK
<1>6. Progresses(c)
  BY <1>1, ReleaseProgress DEF BuildFails
<1>7. Routed(d)
  BY <1>2, <1>4, NoRouteChange DEF BuildFails
<1>. QED
  BY <1>1, <1>4, <1>5, <1>6, <1>7, WorksWhen DEF BuildFails, DeploymentTypeOK

\* Stopping the old process is a plain step.
LEMMA StopOldWorks ==
    ASSUME DeploymentTypeOK, GuardInv, NEW c \in Clients, StopOld(c)
    PROVE  DeploymentTypeOK' /\ Works(c)
<1>. DEFINE running == op[c].old.state = "running"
            q == [op[c] EXCEPT !.at = "bring_up", !.stopped = running]
<1>1. c \in Actors /\ op[c].at \notin {"idle", "resolved"}
  BY DEF StopOld, Actors, At
<1>2. op[c].for \in Deployments /\ op[c] \in Operations /\ op[c].old.generation \in Nat
  BY <1>1, Holding, OperationFields, Fields
<1>3. q \in Operations /\ q.at = "bring_up" /\ Same(q, op[c])
  <2>. "bring_up" \in Places /\ running \in BOOLEAN
    BY DEF Places
  <2>. HIDE DEF running
  <2>. QED
    BY <1>2, Zenon DEF Operations, Same
<1>4. op' = [op EXCEPT ![c] = q]
  BY Zenon DEF StopOld
<1>. HIDE DEF q
<1>5. Progresses(c)
  BY <1>1, <1>2, <1>3, <1>4, Zenon DEF StopOld, Progresses, Plain, Same, Keeps, DeploymentTypeOK
<1>6. listener' \in [Ports -> Units]
  BY <1>2, ListenerEffect DEF StopOld, Mine, DeploymentTypeOK
<1>7. Routed(op[c].for)
  BY <1>2, NoRouteChange DEF StopOld, records, DeploymentTypeOK
<1>. QED
  BY <1>1, <1>5, <1>6, <1>7, WorksWhen DEF StopOld, records, DeploymentTypeOK

\* Starting the new process is a plain step.
LEMMA BringUpWorks ==
    ASSUME DeploymentTypeOK, GuardInv, NEW c \in Clients, BringUp(c)
    PROVE  DeploymentTypeOK' /\ Works(c)
<1>. DEFINE d == op[c].for
            v == [component[d] EXCEPT !.state = "starting", !.generation = op[c].generation]
<1>1. c \in Actors /\ op[c].at \notin {"idle", "resolved"}
  BY DEF BringUp, Actors, At
<1>2. d \in Deployments /\ op[c].generation \in Nat /\ component[d] \in Components
  BY <1>1, Holding, OperationFields
<1>3. v \in Components
  <2>. "starting" \in ComponentStates
    BY DEF ComponentStates
  <2>. QED
    BY <1>2, Zenon DEF Components
<1>4. Progresses(c)
  BY <1>1, GotoProgress DEF BringUp, PlainPlaces, Places, Targets
<1>5. Routed(d)
  BY <1>2, NoRouteChange DEF BringUp, DeploymentTypeOK
<1>6. component' = [component EXCEPT ![d] = v] \/ component' = component
  BY Zenon DEF BringUp, Mine
<1>7. listener' \in [Ports -> Units]
  BY <1>2, ListenerEffect DEF BringUp, Mine, DeploymentTypeOK
<1>. HIDE DEF v
<1>8. component' \in [Deployments -> Components]
  BY <1>3, <1>6 DEF DeploymentTypeOK
<1>. QED
  BY <1>1, <1>4, <1>5, <1>7, <1>8, WorksWhen DEF BringUp, DeploymentTypeOK

\* The health proof of converge is a plain step.
LEMMA ProveHealthWorks ==
    ASSUME DeploymentTypeOK, GuardInv, NEW c \in Clients, ProveHealth(c)
    PROVE  DeploymentTypeOK' /\ Works(c)
<1>. DEFINE d == op[c].for
<1>1. c \in Actors /\ op[c].at \notin {"idle", "resolved"}
  BY DEF ProveHealth, Actors, At
<1>2. d \in Deployments /\ component[d] \in Components
  BY <1>1, Holding
<1>3. \A s \in ComponentStates : [component[d] EXCEPT !.state = s] \in Components
  BY <1>2, ComponentEdits, Zenon
<1>4. Progresses(c)
  BY <1>1, GotoProgress DEF ProveHealth, PlainPlaces, Places, Targets
<1>5. Routed(d)
  BY <1>2, NoRouteChange DEF ProveHealth, DeploymentTypeOK
<1>6. \E s \in ComponentStates : component' = [component EXCEPT ![d] = [component[d] EXCEPT !.state = s]]
  <2>. "running" \in ComponentStates /\ "failed" \in ComponentStates
    BY DEF ComponentStates
  <2>. QED
    BY Zenon DEF ProveHealth, Mine
<1>7. component' \in [Deployments -> Components]
  BY <1>3, <1>6, Zenon DEF DeploymentTypeOK
<1>. QED
  BY <1>1, <1>4, <1>5, <1>7, WorksWhen DEF ProveHealth, DeploymentTypeOK

\* Taking the route over is a plain step.
LEMMA TakeRouteWorks ==
    ASSUME DeploymentTypeOK, GuardInv, NEW c \in Clients, TakeRoute(c)
    PROVE  DeploymentTypeOK' /\ Works(c)
<1>1. c \in Actors /\ op[c].at \notin {"idle", "resolved"}
  BY DEF TakeRoute, Actors, At
<1>2. op[c].for \in Deployments /\ lease[op[c].for] \in Nat /\ op[c].generation \in Nat
  BY <1>1, Holding, OperationFields
<1>3. Routed(op[c].for)
  BY <1>2, SetRouteEffect DEF TakeRoute, Mine
<1>4. CASE Publish(c, "commit", "abort")
  <2>1. Progresses(c)
    BY <1>1, <1>4, PublishProgress, Zenon DEF TakeRoute, Targets, Failures
  <2>. QED
    BY <1>1, <2>1, <1>3, WorksWhen DEF TakeRoute, DeploymentTypeOK
<1>5. CASE Goto(c, "abort")
  <2>1. Progresses(c)
    BY <1>1, <1>5, GotoProgress DEF TakeRoute, PlainPlaces, Places, Targets
  <2>. QED
    BY <1>1, <2>1, <1>3, WorksWhen DEF TakeRoute, DeploymentTypeOK
<1>. QED
  BY <1>4, <1>5 DEF TakeRoute

\* The commit of a generation is a plain step.
LEMMA CommitWorks ==
    ASSUME DeploymentTypeOK, GuardInv, NEW c \in Clients, Commit(c)
    PROVE  DeploymentTypeOK' /\ Works(c)
<1>. DEFINE d == op[c].for
            w == [state |-> "running", current |-> op[c].generation]
            v == [component[d] EXCEPT !.desired = "running"]
<1>1. c \in Actors /\ op[c].at \notin {"idle", "resolved"}
  BY DEF Commit, Actors, At
<1>2. /\ d \in Deployments /\ op[c].generation \in Nat /\ op[c].old.generation \in Nat
      /\ component[d] \in Components
  BY <1>1, Holding, OperationFields, Fields
<1>3. w \in Rows
  BY <1>2 DEF Rows, RowStates
<1>4. v \in Components
  <2>. "running" \in Desired
    BY DEF Desired
  <2>. QED
    BY <1>2, Zenon DEF Components
<1>5. row' = [row EXCEPT ![d] = w] /\ component' = [component EXCEPT ![d] = v]
  BY Zenon DEF Commit, Mine
<1>6. recorded' \in [Deployments -> [Generations -> Marks]]
  BY <1>2 DEF Commit, Mine, DeploymentTypeOK, Marks
<1>7. listener' \in [Ports -> Units]
  BY <1>2, ListenerEffect DEF Commit, Mine, DeploymentTypeOK
<1>8. Progresses(c)
  BY <1>1, ReleaseProgress DEF Commit
<1>. HIDE DEF w, v
<1>9. row' \in [Deployments -> Rows] /\ component' \in [Deployments -> Components]
  BY <1>3, <1>4, <1>5, Zenon DEF DeploymentTypeOK
<1>10. Routed(d)
  BY <1>2, <1>9, NoRouteChange DEF Commit
<1>. QED
  BY <1>1, <1>6, <1>7, <1>8, <1>9, <1>10, WorksWhen DEF Commit

\* The rollback of a generation is a plain step.
LEMMA AbortWorks ==
    ASSUME DeploymentTypeOK, GuardInv, NEW c \in Clients, Abort(c)
    PROVE  DeploymentTypeOK' /\ Works(c)
<1>. DEFINE d == op[c].for
            g == op[c].generation
            w == [row[d] EXCEPT !.current = 0]
            v == [component[d] EXCEPT !.state = "stopped", !.generation = 0]
<1>1. c \in Actors /\ op[c].at \notin {"idle", "resolved"}
  BY DEF Abort, Actors, At
<1>2. /\ d \in Deployments /\ g \in Nat /\ op[c].old \in Components /\ op[c].row \in Rows
      /\ component[d] \in Components /\ row[d] \in Rows
  BY <1>1, Holding, OperationFields, Fields
<1>3. w \in Rows
  BY <1>2, Zenon DEF Rows
<1>4. v \in Components
  <2>. "stopped" \in ComponentStates
    BY DEF ComponentStates
  <2>. QED
    BY <1>2, Zenon DEF Components
<1>5. row' = [row EXCEPT ![d] = IF op[c].row # NoRow THEN op[c].row ELSE w]
  BY Zenon DEF Abort, Mine, Restored
<1>6. component' = [component EXCEPT ![d] = IF op[c].row # NoRow THEN op[c].old
                        ELSE IF component[d].generation = g THEN v ELSE component[d]]
  BY Zenon DEF Abort, Mine
<1>7. recorded' \in [Deployments -> [Generations -> Marks]]
  BY <1>2, Zenon DEF Abort, Mine, DeploymentTypeOK, Marks
<1>8. listener' \in [Ports -> Units]
  BY <1>2, ListenerEffect DEF Abort, Mine, DeploymentTypeOK
<1>9. Progresses(c)
  <2>1. \E place \in {"restart", "reroute"} : Goto(c, place)
    BY DEF Abort
  <2>. QED
    BY <1>1, <2>1, GotoProgress DEF Abort, PlainPlaces, Places, Targets
<1>. HIDE DEF w, v
<1>10. row' \in [Deployments -> Rows] /\ component' \in [Deployments -> Components]
  BY <1>2, <1>3, <1>4, <1>5, <1>6 DEF DeploymentTypeOK
<1>11. Routed(d)
  BY <1>2, <1>10, NoRouteChange DEF Abort
<1>. QED
  BY <1>1, <1>7, <1>8, <1>9, <1>10, <1>11, WorksWhen DEF Abort

\* Restarting the old process is a plain step.
LEMMA RestartOldWorks ==
    ASSUME DeploymentTypeOK, GuardInv, NEW c \in Clients, RestartOld(c)
    PROVE  DeploymentTypeOK' /\ Works(c)
<1>. DEFINE d == op[c].for
            v == [component[d] EXCEPT !.state = "failed"]
<1>1. c \in Actors /\ op[c].at \notin {"idle", "resolved"}
  BY DEF RestartOld, Actors, At
<1>2. d \in Deployments /\ op[c].old.generation \in Nat /\ component[d] \in Components
  BY <1>1, Holding, OperationFields, Fields
<1>3. v \in Components
  <2>. "failed" \in ComponentStates
    BY DEF ComponentStates
  <2>. QED
    BY <1>2, Zenon DEF Components
<1>4. component' = [component EXCEPT ![d] = v] \/ component' = component
  BY Zenon DEF RestartOld, Mine
<1>5. listener' \in [Ports -> Units]
  BY <1>2, ListenerEffect DEF RestartOld, Mine, DeploymentTypeOK
<1>6. Progresses(c)
  BY <1>1, GotoProgress DEF RestartOld, PlainPlaces, Places, Targets
<1>7. Routed(d)
  BY <1>2, NoRouteChange DEF RestartOld, DeploymentTypeOK
<1>. HIDE DEF v
<1>8. component' \in [Deployments -> Components]
  BY <1>3, <1>4 DEF DeploymentTypeOK
<1>. QED
  BY <1>1, <1>5, <1>6, <1>7, <1>8, WorksWhen DEF RestartOld, DeploymentTypeOK

\* Restoring the old route is a plain step.
LEMMA RerouteWorks ==
    ASSUME DeploymentTypeOK, GuardInv, NEW c \in Clients, Reroute(c)
    PROVE  DeploymentTypeOK' /\ Works(c)
<1>. DEFINE d == op[c].for
            old == op[c].route
<1>1. c \in Actors /\ op[c].at \notin {"idle", "resolved"}
  BY Zenon DEF Reroute, Actors, At
<1>2. /\ d \in Deployments /\ old \in Routes /\ old.port \in Nat /\ old.generation \in Nat
      /\ row[d] \in Rows
  BY <1>1, Holding, OperationFields, Fields, Zenon
<1>3. Withdrawn(old) \in Routes /\ Withdrawn(old).port = 0 /\ Degraded(row[d]) \in Rows
  BY <1>2, WithdrawEffect, DegradeEffect
<1>4. Progresses(c)
  BY <1>1, PublishProgress DEF Reroute, Targets, Failures
<1>5. Routed(d)
  <2>1. CASE old.port = 0
    BY <1>2, <2>1, Zenon DEF Reroute, Mine, Routed, DeploymentTypeOK
  <2>2. CASE SetRoute(d, old.port, old.generation)
    BY <1>2, <2>2, SetRouteEffect
  <2>3. CASE route' = [route EXCEPT ![d] = Withdrawn(old)] /\ row' = [row EXCEPT ![d] = Degraded(@)]
    BY <1>2, <1>3, <2>3 DEF Routed, DeploymentTypeOK
  <2>. QED
    BY <2>1, <2>2, <2>3 DEF Reroute, Mine
<1>. QED
  BY <1>1, <1>4, <1>5, WorksWhen, Zenon DEF Reroute, DeploymentTypeOK

\* The last row of an operation is a plain step.
LEMMA FinalRowWorks ==
    ASSUME DeploymentTypeOK, GuardInv, NEW c \in Clients, Degrade(c) \/ RecomputeState(c)
    PROVE  DeploymentTypeOK' /\ Works(c)
<1>. DEFINE d == op[c].for
<1>1. c \in Actors /\ op[c].at \notin {"idle", "resolved"}
  BY DEF Degrade, RecomputeState, Actors, At
<1>2. d \in Deployments /\ row[d] \in Rows
  BY <1>1, Holding
<1>3. PICK s \in RowStates : row' = [row EXCEPT ![d].state = s]
  <2>1. CASE Degrade(c)
    <3>1. (IF op[c].row.current # 0 THEN "degraded" ELSE "failed") \in RowStates
      BY DEF RowStates
    <3>. QED
      BY <2>1, <3>1, Zenon DEF Degrade, Mine
  <2>2. CASE RecomputeState(c)
    <3>1. RecomputedState(d) \in RowStates
      BY DEF RowStates, RecomputedState
    <3>. QED
      BY <2>2, <3>1, Zenon DEF RecomputeState, Mine
  <2>. QED
    BY <2>1, <2>2, Zenon
<1>4. [row[d] EXCEPT !.state = s] \in Rows
  BY <1>2, RowEdits, Zenon
<1>5. row' \in [Deployments -> Rows]
  BY <1>2, <1>3, <1>4 DEF DeploymentTypeOK
<1>6. Progresses(c)
  BY <1>1, ReleaseProgress DEF Degrade, RecomputeState
<1>7. Routed(d)
  BY <1>2, <1>5, NoRouteChange DEF Degrade, RecomputeState
<1>. QED
  BY <1>1, <1>5, <1>6, <1>7, WorksWhen DEF Degrade, RecomputeState, DeploymentTypeOK

\* start is a plain step.
LEMMA StartComponentsWorks ==
    ASSUME DeploymentTypeOK, GuardInv, NEW c \in Clients, StartComponents(c)
    PROVE  DeploymentTypeOK' /\ Works(c)
<1>. DEFINE d == op[c].for
            g == IF component[d].generation # 0 THEN component[d].generation ELSE op[c].row.current
            v(s) == [component[d] EXCEPT !.state = s, !.desired = "running"]
<1>1. c \in Actors /\ op[c].at \notin {"idle", "resolved"}
  BY DEF StartComponents, Actors, At
<1>2. /\ d \in Deployments /\ component[d] \in Components /\ component[d].generation \in Nat
      /\ op[c].row.current \in Nat
  BY <1>1, Holding, OperationFields, Fields
<1>3. v("running") \in Components /\ v("failed") \in Components
  <2>. "running" \in Desired /\ "running" \in ComponentStates /\ "failed" \in ComponentStates
    BY DEF Desired, ComponentStates
  <2>. QED
    BY <1>2, Zenon DEF Components
<1>4. Unit(d, g) \in Units
  BY <1>2 DEF Unit, Units, Owners
<1>5. Routed(d)
  BY <1>2, NoRouteChange DEF StartComponents, DeploymentTypeOK
<1>. HIDE DEF v
<1>6. CASE g = 0 /\ Release(c) /\ UNCHANGED <<component, listener>>
  <2>1. Progresses(c)
    BY <1>1, <1>6, ReleaseProgress
  <2>. QED
    BY <1>1, <1>5, <1>6, <2>1, WorksWhen DEF StartComponents, DeploymentTypeOK
<1>7. CASE /\ listener' = [listener EXCEPT ![lease[d]] = Unit(d, g)]
           /\ component' = [component EXCEPT ![d] = v("running")]
           /\ Goto(c, "start_route") /\ UNCHANGED busy
  <2>1. Progresses(c)
    BY <1>1, <1>7, GotoProgress DEF PlainPlaces, Places
  <2>2. component' \in [Deployments -> Components] /\ listener' \in [Ports -> Units]
    BY <1>3, <1>4, <1>7, Zenon DEF DeploymentTypeOK
  <2>. QED
    BY <1>1, <1>5, <2>1, <2>2, WorksWhen DEF StartComponents, DeploymentTypeOK
<1>8. CASE /\ component' = [component EXCEPT ![d] = v("failed")]
           /\ Release(c) /\ UNCHANGED listener
  <2>1. Progresses(c)
    BY <1>1, <1>8, ReleaseProgress
  <2>2. component' \in [Deployments -> Components]
    BY <1>3, <1>8, Zenon DEF DeploymentTypeOK
  <2>. QED
    BY <1>1, <1>5, <1>8, <2>1, <2>2, WorksWhen DEF StartComponents, DeploymentTypeOK
<1>. QED
  BY <1>6, <1>7, <1>8, Zenon DEF StartComponents, Mine, v

\* The route of start is a plain step.
LEMMA StartRouteWorks ==
    ASSUME DeploymentTypeOK, GuardInv, NEW c \in Clients, StartRoute(c)
    PROVE  DeploymentTypeOK' /\ Works(c)
<1>1. c \in Actors /\ op[c].at \notin {"idle", "resolved"}
  BY DEF StartRoute, Actors, At
<1>2. op[c].for \in Deployments /\ lease[op[c].for] \in Nat /\ op[c].row.current \in Nat
  BY <1>1, Holding, OperationFields, Fields
<1>3. Routed(op[c].for)
  BY <1>2, SetRouteEffect, Zenon DEF StartRoute, Mine
<1>4. CASE Publish(c, "recompute", "release") /\ UNCHANGED busy
  <2>1. Progresses(c)
    BY <1>1, <1>4, PublishProgress DEF Targets, Failures
  <2>. QED
    BY <1>1, <2>1, <1>3, WorksWhen DEF StartRoute, DeploymentTypeOK
<1>5. CASE Release(c)
  <2>1. Progresses(c)
    BY <1>1, <1>5, ReleaseProgress
  <2>. QED
    BY <1>1, <2>1, <1>3, WorksWhen DEF StartRoute, DeploymentTypeOK
<1>. QED
  BY <1>4, <1>5 DEF StartRoute

\* An operation that times out or returns is a plain step.
LEMMA EndsWork ==
    ASSUME DeploymentTypeOK, GuardInv, NEW a \in Actors, AwaitTimesOut(a) \/ Return(a)
    PROVE  DeploymentTypeOK' /\ Works(a)
<1>1. op[a].at \notin {"idle", "resolved"}
  BY DEF AwaitTimesOut, Return, At
<1>2. op[a].for \in Deployments /\ Progresses(a)
  BY <1>1, Holding, ReleaseProgress, Zenon DEF AwaitTimesOut, Return
<1>3. Routed(op[a].for)
  BY <1>2, NoRouteChange DEF AwaitTimesOut, Return, records, DeploymentTypeOK
<1>. QED
  BY <1>2, <1>3, WorksWhen DEF AwaitTimesOut, Return, records, DeploymentTypeOK

\* Maintenance that validates a route is a plain step.
LEMMA ValidateRouteWorks ==
    ASSUME DeploymentTypeOK, GuardInv, ValidateRoute
    PROVE  DeploymentTypeOK' /\ Works(Keeper)
<1>1. Keeper \in Actors /\ op[Keeper].at \notin {"idle", "resolved"}
  BY Zenon DEF ValidateRoute, Actors
<1>2. op[Keeper].for \in Deployments
  BY <1>1, Holding
<1>3. Routed(op[Keeper].for)
  BY <1>2, ValidateEffect DEF ValidateRoute, Mine
<1>4. CASE Publish(Keeper, "release", "release") /\ UNCHANGED busy
  <2>1. Progresses(Keeper)
    BY <1>1, <1>4, PublishProgress DEF Targets, Failures
  <2>. QED
    BY <1>1, <2>1, <1>3, WorksWhen DEF ValidateRoute, DeploymentTypeOK
<1>5. CASE Release(Keeper)
  <2>1. Progresses(Keeper)
    BY <1>1, <1>5, ReleaseProgress
  <2>. QED
    BY <1>1, <2>1, <1>3, WorksWhen DEF ValidateRoute, DeploymentTypeOK
<1>. QED
  BY <1>4, <1>5, Zenon DEF ValidateRoute

\* stop_components has withdrawn the route and goes on to publish.
Stops(c) ==
    /\ Keeps(c) /\ Routed(op[c].for) /\ route'[op[c].for].port = 0
    /\ op[c].for \in Deployments /\ busy[op[c].for] = c
    /\ op'[c].at = "publish" /\ op'[c].for = op[c].for
    /\ UNCHANGED <<lease, busy, publisher, revision, document, accepted>>

\* stop and remove withdraw the route before they publish.
LEMMA StopComponentsEffect ==
    ASSUME DeploymentTypeOK, GuardInv, NEW c \in Clients, StopComponents(c)
    PROVE  DeploymentTypeOK' /\ Stops(c)
<1>. DEFINE d == op[c].for
            v == [component[d] EXCEPT !.state = "stopped", !.desired = "stopped"]
            r == [row |-> TRUE, port |-> 0, generation |-> op[c].row.current]
<1>1. c \in Actors /\ op[c].at \notin {"idle", "resolved"}
  BY DEF StopComponents, Actors
<1>2. /\ d \in Deployments /\ busy[d] = c /\ component[d] \in Components
      /\ component[d].generation \in Nat /\ op[c].row.current \in Nat
  BY <1>1, Holding, OperationFields, Fields, Zenon
<1>3. v \in Components
  <2>. "stopped" \in Desired /\ "stopped" \in ComponentStates
    BY DEF Desired, ComponentStates
  <2>. QED
    BY <1>2, Zenon DEF Components
<1>4. r \in Routes /\ r.port = 0
  BY <1>2, Zenon DEF Routes
<1>5. listener' \in [Ports -> Units]
  BY <1>2, ListenerEffect DEF StopComponents, Mine
<1>6. component' = [component EXCEPT ![d] = IF component[d].generation = 0 THEN component[d] ELSE v]
  BY Zenon DEF StopComponents, Mine
<1>7. route' = [route EXCEPT ![d] = r] /\ UNCHANGED <<row, recorded, lease, busy, published>>
  BY DEF StopComponents, Mine
<1>8. Keeps(c) /\ op'[c].at = "publish" /\ op'[c].for = op[c].for
  <2>1. \E t \in {"recompute", "republish"} : Publish(c, t, "release")
    BY DEF StopComponents
  <2>. QED
    BY <1>1, <2>1, PublishEffect DEF Targets, Failures
<1>. HIDE DEF v, r
<1>9. route' \in [Deployments -> Routes] /\ Routed(d) /\ route'[d].port = 0
  BY <1>2, <1>4, <1>7, Zenon DEF DeploymentTypeOK, Routed
<1>10. component' \in [Deployments -> Components]
  BY <1>2, <1>3, <1>6, Zenon DEF DeploymentTypeOK
<1>. QED
  BY <1>2, <1>5, <1>7, <1>8, <1>9, <1>10, Zenon DEF Stops, DeploymentTypeOK, Keeps, published

\* converge has the lease of its deployment: the one it had, or a port that no deployment has.
Allocates(c) ==
    /\ Keeps(c) /\ op[c].at = "build" /\ op'[c].at = "switch"
    /\ op[c].for \in Deployments /\ op'[c].for = op[c].for
    /\ UNCHANGED <<route, busy, publisher, revision, document, accepted>>
    /\ \A e \in Deployments :
           \/ lease'[e] = lease[e]
           \/ lease[e] = 0 /\ \A f \in Deployments : lease'[e] = lease'[f] => e = f

\* allocate_ports gives a deployment a port that no other one has.
LEMMA AllocatePortsEffect ==
    ASSUME DeploymentTypeOK, GuardInv, NEW c \in Clients, AllocatePorts(c)
    PROVE  DeploymentTypeOK' /\ (Works(c) \/ Allocates(c))
<1>. DEFINE d == op[c].for
            free == {p \in Ports : Free(p)}
            q == [op[c] EXCEPT !.at = "switch", !.route = route[d]]
<1>1. c \in Actors /\ op[c].at \notin {"idle", "resolved"} /\ op[c].at = "build"
  BY DEF AllocatePorts, Actors, At
<1>2. d \in Deployments /\ op[c] \in Operations /\ route[d] \in Routes
  BY <1>1, Holding
<1>3. CASE Release(c) /\ UNCHANGED lease
  <2>1. Progresses(c)
    BY <1>1, <1>3, ReleaseProgress
  <2>2. Routed(d)
    BY <1>2, NoRouteChange DEF AllocatePorts, DeploymentTypeOK
  <2>. QED
    BY <1>1, <1>3, <2>1, <2>2, WorksWhen DEF AllocatePorts, DeploymentTypeOK
<1>4. CASE /\ ~(lease[d] = 0 /\ free = {})
           /\ \/ lease[d] # 0 /\ UNCHANGED lease
              \/ lease[d] = 0 /\ \E p \in free : /\ \A r \in free : p <= r
                                                 /\ lease' = [lease EXCEPT ![d] = p]
           /\ op' = [op EXCEPT ![c] = q]
           /\ UNCHANGED busy
  <2>1. q \in Operations /\ q.at = "switch" /\ Same(q, op[c])
    <3>. "switch" \in Places
      BY DEF Places
    <3>. QED
      BY <1>2, Zenon DEF Operations, Same
  <2>. HIDE DEF q
  <2>2. Keeps(c) /\ op'[c].at = "switch" /\ op'[c].for = d
    BY <1>1, <1>4, <2>1 DEF Keeps, DeploymentTypeOK, Same
  <2>3. UNCHANGED lease \/ (lease[d] = 0 /\ \E p \in free : lease' = [lease EXCEPT ![d] = p])
    BY <1>4, Zenon
  <2>4. /\ lease' \in [Deployments -> Nat]
        /\ \A e \in Deployments :
               \/ lease'[e] = lease[e]
               \/ lease[e] = 0 /\ \A f \in Deployments : lease'[e] = lease'[f] => e = f
    <3>1. CASE UNCHANGED lease
      BY <3>1 DEF DeploymentTypeOK
    <3>2. ASSUME lease[d] = 0, NEW p \in free, lease' = [lease EXCEPT ![d] = p]
          PROVE  /\ lease' \in [Deployments -> Nat]
                 /\ \A e \in Deployments :
                        \/ lease'[e] = lease[e]
                        \/ lease[e] = 0 /\ \A f \in Deployments : lease'[e] = lease'[f] => e = f
      <4>1. p \in Nat /\ \A f \in Deployments : lease[f] # p
        BY <3>2, DeploymentConstants DEF Free
      <4>2. \A f \in Deployments : lease'[f] = IF f = d THEN p ELSE lease[f]
        BY <3>2 DEF DeploymentTypeOK
      <4>. QED
        BY <1>2, <3>2, <4>1, <4>2 DEF DeploymentTypeOK
    <3>. QED
      BY <2>3, <3>1, <3>2
  <2>. QED
    BY <1>1, <1>2, <1>4, <2>2, <2>4 DEF Allocates, AllocatePorts, DeploymentTypeOK, Keeps, published
<1>. QED
  BY <1>3, <1>4, Zenon DEF AllocatePorts, Mine

\* resolve_target has read the row.
Resolves(c) ==
    /\ Keeps(c) /\ op[c].at = "idle" /\ op'[c].at = "resolved"
    /\ op'[c].kind \in Asked /\ op'[c].for \in Deployments
    /\ UNCHANGED <<lease, route, busy, publisher, revision, document, accepted>>

\* resolve_target reads the row without the guard.
LEMMA ResolveEffect ==
    ASSUME DeploymentTypeOK, NEW c \in Clients, Resolve(c)
    PROVE  DeploymentTypeOK' /\ Resolves(c)
<1>. DEFINE d == Target[c]
<1>1. d \in Deployments /\ c \in Actors /\ Kinds[c] \subseteq Asked
  BY DeploymentConstants DEF Actors, Asked
<1>2. PICK kind \in Kinds[c] :
          op' = [op EXCEPT ![c].at = "resolved", ![c].kind = kind, ![c].for = d, ![c].row = row[d]]
  BY Zenon DEF Resolve
<1>. DEFINE q == [op[c] EXCEPT !.at = "resolved", !.kind = kind, !.for = d, !.row = row[d]]
<1>3. op' = [op EXCEPT ![c] = q]
  BY <1>2, Zenon
<1>4. op[c] \in Operations /\ row[d] \in Rows /\ kind \in KindNames /\ kind \in Asked
  BY <1>1 DEF DeploymentTypeOK, KindNames
<1>5. q \in Operations /\ q.at = "resolved" /\ q.kind = kind /\ q.for = d
  <2>1. "resolved" \in Places /\ d \in Owners
    BY <1>1 DEF Places, Owners
  <2>2. [op[c] EXCEPT !.at = "resolved", !.kind = kind] \in Operations
    BY <1>4, <2>1, Zenon DEF Operations
  <2>. QED
    BY <1>4, <2>1, <2>2, Zenon DEF Operations
<1>. HIDE DEF q, d
<1>. QED
  BY <1>1, <1>3, <1>4, <1>5, Zenon DEF Resolves, Resolve, At, records, published, DeploymentTypeOK, Keeps

\* acquire_busy has taken the guard, or refused.
Acquires(c) ==
    /\ Keeps(c) /\ op[c].at = "resolved"
    /\ \/ op'[c].at = "idle" /\ busy' = busy
       \/ /\ op'[c].at \in Asked /\ op'[c].for = op[c].for /\ op[c].for \in Deployments
          /\ busy[op[c].for] = NoOne /\ busy' = [busy EXCEPT ![op[c].for] = c]
    /\ UNCHANGED <<lease, route, publisher, revision, document, accepted>>

\* An operation gets the guard of its deployment when no one has it.
LEMMA AcquireEffect ==
    ASSUME DeploymentTypeOK, GuardInv, NEW c \in Clients, Acquire(c)
    PROVE  DeploymentTypeOK' /\ Acquires(c)
<1>1. /\ c \in Actors /\ op[c].at = "resolved" /\ op[c].kind \in Asked /\ op[c].for \in Deployments
      /\ op[c] \in Operations
  BY DEF Acquire, At, Actors, GuardInv, DeploymentTypeOK
<1>2. CASE busy[op[c].for] # NoOne
  BY <1>1, <1>2, Constants, Zenon DEF Acquires, Acquire, Mine, records, published, DeploymentTypeOK, Keeps
<1>3. CASE busy[op[c].for] = NoOne
  <2>. DEFINE q == [op[c] EXCEPT !.at = op[c].kind, !.kind = "none"]
  <2>1. op' = [op EXCEPT ![c] = q] /\ busy' = [busy EXCEPT ![op[c].for] = c]
    BY <1>3, Zenon DEF Acquire, Mine
  <2>2. q \in Operations /\ q.at = op[c].kind /\ q.for = op[c].for
    <3>1. op[c].kind \in Places /\ "none" \in KindNames
      BY <1>1 DEF Places, KindNames
    <3>. QED
      BY <1>1, <3>1, Zenon DEF Operations
  <2>. HIDE DEF q
  <2>. QED
    BY <1>1, <1>3, <2>1, <2>2 DEF Acquires, Acquire, records, published, DeploymentTypeOK, Keeps
<1>. QED
  BY <1>2, <1>3

\* remove publishes the withdrawn route once more.
Republishes(c) ==
    /\ Keeps(c) /\ op[c].at = "republish"
    /\ op[c].for \in Deployments
    /\ op'[c].at = "publish" /\ op'[c].then = "removal" /\ op'[c].for = op[c].for
    /\ UNCHANGED <<lease, route, busy, publisher, revision, document, accepted>>

\* remove publishes a second time.
LEMMA RepublishEffect ==
    ASSUME DeploymentTypeOK, GuardInv, NEW c \in Clients, Republish(c)
    PROVE  DeploymentTypeOK' /\ Republishes(c)
<1>1. c \in Actors /\ op[c].at = "republish"
  BY DEF Republish, At, Actors
<1>2. op[c].for \in Deployments
  BY <1>1, Holding, Zenon
<1>3. Keeps(c) /\ op'[c].at = "publish" /\ op'[c].then = "removal" /\ op'[c].for = op[c].for
  BY <1>1, PublishEffect, Zenon DEF Republish, Targets, Failures
<1>. QED
  BY <1>1, <1>2, <1>3 DEF Republishes, Republish, records, published, DeploymentTypeOK, Keeps

\* wait_for_edge has read the document.
Awaits(c) ==
    /\ Keeps(c) /\ op[c].at = "removal"
    /\ op[c].for \in Deployments
    /\ op'[c].at = "await" /\ op'[c].seen = document.revision /\ op'[c].for = op[c].for
    /\ UNCHANGED <<lease, route, busy, publisher, revision, document, accepted>>

\* remove reads the revision it waits for.
LEMMA AwaitEdgeEffect ==
    ASSUME DeploymentTypeOK, GuardInv, NEW c \in Clients, AwaitEdge(c)
    PROVE  DeploymentTypeOK' /\ Awaits(c)
<1>0. PICK q : q = [op[c] EXCEPT !.at = "await", !.seen = document.revision]
  OBVIOUS
<1>1. c \in Actors /\ op[c].at = "removal" /\ document.revision \in Nat
  BY Fields DEF AwaitEdge, At, Actors, DeploymentTypeOK
<1>2. op[c].for \in Deployments /\ op[c] \in Operations
  BY <1>1, Holding
<1>3. op' = [op EXCEPT ![c] = q]
  BY <1>0, Zenon DEF AwaitEdge
<1>4. q \in Operations /\ q.at = "await" /\ q.seen = document.revision /\ q.for = op[c].for
  <2>1. "await" \in Places
    BY DEF Places
  <2>. QED
    BY <1>0, <1>1, <1>2, <2>1, Zenon DEF Operations
<1>. QED
  BY <1>1, <1>2, <1>3, <1>4, Zenon DEF Awaits, AwaitEdge, records, published, DeploymentTypeOK, Keeps

\* delete_rows has given up the lease.
Deletes(c) ==
    /\ Keeps(c) /\ op[c].at = "await"
    /\ accepted.revision >= op[c].seen /\ op[c].for \in Deployments
    /\ op'[c].at = "publish" /\ op'[c].then = "release" /\ op'[c].for = op[c].for
    /\ lease' = [lease EXCEPT ![op[c].for] = 0] /\ route'[op[c].for].port = 0
    /\ \A e \in Deployments : e # op[c].for => route'[e] = route[e]
    /\ UNCHANGED <<busy, publisher, revision, document, accepted>>

\* remove gives the lease up after the edge has accepted that revision.
LEMMA DeleteRowsEffect ==
    ASSUME DeploymentTypeOK, GuardInv, NEW c \in Clients, DeleteRows(c)
    PROVE  DeploymentTypeOK' /\ Deletes(c)
<1>1. c \in Actors /\ op[c].at = "await" /\ accepted.revision >= op[c].seen
  BY Zenon DEF DeleteRows, At, Actors, Acknowledged
<1>2. op[c].for \in Deployments
  BY <1>1, Holding
<1>3. Keeps(c) /\ op'[c].at = "publish" /\ op'[c].then = "release" /\ op'[c].for = op[c].for
  BY <1>1, PublishEffect, Zenon DEF DeleteRows, Targets, Failures
<1>4. /\ row' = [row EXCEPT ![op[c].for] = NoRow]
      /\ component' = [component EXCEPT ![op[c].for] = NoComponent]
      /\ lease' = [lease EXCEPT ![op[c].for] = 0] /\ route' = [route EXCEPT ![op[c].for] = NoRoute]
      /\ UNCHANGED <<listener, busy, published>>
  BY DEF DeleteRows, Mine
<1>5. recorded' \in [Deployments -> [Generations -> Marks]]
  BY <1>2 DEF DeleteRows, Mine, DeploymentTypeOK, Marks
<1>. QED
  BY <1>1, <1>2, <1>3, <1>4, <1>5, Constants, Zenon DEF Deletes, published, DeploymentTypeOK, Keeps

\* publish has taken its snapshot.
Snapshots(a) ==
    /\ Keeps(a) /\ op[a].at = "publish" /\ op'[a].at = "write"
    /\ op[a].for \in Deployments /\ op'[a].for = op[a].for /\ op'[a].then = op[a].then
    /\ publisher = NoOne /\ publisher' = a /\ revision' = revision + 1
    /\ op'[a].document.revision = revision + 1
    /\ \A d \in Deployments :
           /\ op'[a].document.ports[d] \in {0, lease[d]} \cap {0, route[d].port}
           /\ route'[d].port \in {0, route[d].port}
    /\ UNCHANGED <<lease, busy, document, accepted>>

\* publish takes only routes that are on their deployments' leases.
LEMMA PublishSnapshotEffect ==
    ASSUME DeploymentTypeOK, GuardInv, NEW a \in Actors, PublishSnapshot(a)
    PROVE  DeploymentTypeOK' /\ Snapshots(a)
<1>. DEFINE kept == {d \in Deployments : RouteLease(d, route[d].port, route[d].generation)}
            lost == {d \in Deployments : route[d].port # 0} \ kept
            p == [d \in Deployments |-> IF d \in kept THEN route[d].port ELSE 0]
            m == [revision |-> revision + 1, ports |-> p]
            q == [op[a] EXCEPT !.at = "write", !.document = m]
<1>1. op[a].at = "publish" /\ op[a] \in Operations /\ revision \in Nat
  BY DEF PublishSnapshot, At, DeploymentTypeOK
<1>2. op[a].for \in Deployments
  BY <1>1, Holding, Zenon
<1>3. \A d \in Deployments : /\ route[d] \in Routes /\ route[d].port \in Nat /\ row[d] \in Rows
                             /\ Withdrawn(route[d]) \in Routes /\ Withdrawn(route[d]).port = 0
                             /\ Degraded(row[d]) \in Rows
  BY Fields, WithdrawEffect, DegradeEffect DEF DeploymentTypeOK
<1>4. \A d \in Deployments : p[d] \in {0, lease[d]} \cap {0, route[d].port}
  BY Zenon DEF RouteLease
<1>5. p \in PortMaps
  BY <1>3, Zenon DEF PortMaps
<1>6. op' = [op EXCEPT ![a] = q]
  BY Zenon DEF PublishSnapshot
<1>7. /\ route' = [d \in Deployments |-> IF d \in lost THEN Withdrawn(route[d]) ELSE route[d]]
      /\ row' = [d \in Deployments |-> IF d \in lost THEN Degraded(row[d]) ELSE row[d]]
      /\ publisher = NoOne /\ publisher' = a /\ revision' = revision + 1
      /\ UNCHANGED <<component, recorded, lease, listener, busy, document, accepted, served>>
  BY DEF PublishSnapshot, PublicationLockFree
<1>. HIDE DEF kept, lost, p
<1>8. m \in Documents /\ m.revision = revision + 1 /\ m.ports = p
  BY <1>1, <1>5 DEF Documents
<1>. HIDE DEF m
<1>9. q \in Operations /\ q.at = "write" /\ q.document = m /\ q.for = op[a].for /\ q.then = op[a].then
  <2>1. q = [op[a] EXCEPT !.at = "write", !.document = m]
    OBVIOUS
  <2>2. "write" \in Places
    BY DEF Places
  <2>. HIDE DEF q
  <2>. QED
    BY <1>1, <1>8, <2>1, <2>2, Zenon DEF Operations
<1>. HIDE DEF q
<1>10. /\ route' \in [Deployments -> Routes] /\ row' \in [Deployments -> Rows]
       /\ \A d \in Deployments : route'[d].port \in {0, route[d].port}
  BY <1>3, <1>7
<1>11. Keeps(a) /\ op'[a] = q
  BY <1>6, <1>9 DEF Keeps, DeploymentTypeOK
<1>12. DeploymentTypeOK'
  BY <1>1, <1>7, <1>10, <1>11 DEF DeploymentTypeOK, Keeps
<1>. QED
  BY <1>1, <1>2, <1>4, <1>7, <1>8, <1>9, <1>10, <1>11, <1>12, Zenon DEF Snapshots

\* atomic_publish has ended.
Writes(a) ==
    /\ Keeps(a) /\ op[a].at = "write"
    /\ op[a].for \in Deployments /\ op'[a].for = op[a].for
    /\ \/ document' = op[a].document /\ op'[a].at \in Targets /\ op'[a].at = op[a].then
       \/ document' = document /\ op'[a].at \in Failures
    /\ publisher' = NoOne
    /\ UNCHANGED <<lease, route, busy, revision, accepted>>

\* publish renames its document into place and goes on.
LEMMA PublishWriteEffect ==
    ASSUME DeploymentTypeOK, GuardInv, NEW a \in Actors, PublishWrite(a)
    PROVE  DeploymentTypeOK' /\ Writes(a)
<1>1. op[a].at = "write" /\ op[a] \in Operations
  BY Zenon DEF PublishWrite, At, DeploymentTypeOK
<1>2. op[a].for \in Deployments /\ op[a].document \in Documents /\ op[a].then \in Targets
      /\ op[a].otherwise \in Failures
  BY <1>1, Holding, OperationFields, Zenon
<1>3. CASE document' = op[a].document /\ Continue(a, op[a].then)
  <2>1. Keeps(a) /\ op'[a].at = op[a].then /\ op'[a].for = op[a].for
    BY <1>2, <1>3, ContinueEffect, Zenon
  <2>. QED
    BY <1>1, <1>2, <1>3, <2>1, Zenon DEF Writes, PublishWrite, DeploymentTypeOK, Keeps, records
<1>4. CASE Continue(a, op[a].otherwise) /\ UNCHANGED document
  <2>1. Keeps(a) /\ op'[a].at = op[a].otherwise /\ op'[a].for = op[a].for
    BY <1>2, <1>4, ContinueEffect, Zenon
  <2>. QED
    BY <1>1, <1>2, <1>4, <2>1, Zenon DEF Writes, PublishWrite, DeploymentTypeOK, Keeps, records
<1>. QED
  BY <1>3, <1>4, Zenon DEF PublishWrite

\* restore_route has the guard.
Restores(d) ==
    /\ Keeps(Keeper) /\ op[Keeper].at = "idle"
    /\ op'[Keeper].at \in {"validate", "validate_restored"} /\ op'[Keeper].for = d
    /\ busy[d] = NoOne /\ busy' = [busy EXCEPT ![d] = Keeper] /\ Routed(d)
    /\ UNCHANGED <<lease, publisher, revision, document, accepted>>

\* Maintenance takes the guard of an idle deployment and may restore its route.
LEMMA RestoreRouteEffect ==
    ASSUME DeploymentTypeOK, NEW d \in Deployments, RestoreRoute(d)
    PROVE  DeploymentTypeOK' /\ Restores(d)
<1>. DEFINE v == [component[d] EXCEPT !.state = "running"]
            r == [route[d] EXCEPT !.port = lease[d]]
            w == [row[d] EXCEPT !.state = "running"]
            q(place) == [op[Keeper] EXCEPT !.at = place, !.for = d]
            places == {"validate", "validate_restored"}
<1>1. /\ Keeper \in Actors /\ op[Keeper].at = "idle" /\ busy[d] = NoOne
      /\ busy' = [busy EXCEPT ![d] = Keeper] /\ UNCHANGED <<recorded, lease, published>>
  BY DEF RestoreRoute, KeeperAcquires, At, Actors
<1>2. /\ op[Keeper] \in Operations /\ component[d] \in Components /\ route[d] \in Routes
      /\ lease[d] \in Nat /\ row[d] \in Rows /\ d \in Owners /\ listener \in [Ports -> Units]
  BY <1>1 DEF DeploymentTypeOK, Owners
<1>3. v \in Components
  BY <1>2, ComponentEdits, Zenon DEF ComponentStates
<1>4. w \in Rows
  BY <1>2, RowEdits, Zenon DEF RowStates
<1>5. r \in Routes /\ r.port = lease[d]
  BY <1>2, RouteEdits, Zenon
<1>6. ASSUME NEW place \in places
      PROVE  q(place) \in Operations /\ q(place).at = place /\ q(place).for = d
  <2>. place \in Places
    BY DEF Places
  <2>. QED
    BY <1>2, Zenon DEF Operations
<1>7. \E place \in places : op' = [op EXCEPT ![Keeper] = q(place)]
  <2>1. \E place \in places : op' = [op EXCEPT ![Keeper].at = place, ![Keeper].for = d]
    BY DEF RestoreRoute
  <2>. QED
    BY <2>1, Zenon
<1>8. \/ UNCHANGED <<row, component, route, listener>>
      \/ /\ route[d].generation \in Nat
         /\ listener' = [listener EXCEPT ![lease[d]] = Unit(d, route[d].generation)]
         /\ component' = [component EXCEPT ![d] = v] /\ route' = [route EXCEPT ![d] = r]
         /\ row' = [row EXCEPT ![d] = w]
  <2>1. route[d].generation \in Nat
    BY <1>2, Fields, Zenon
  <2>. QED
    BY <2>1, Zenon DEF RestoreRoute
<1>. HIDE DEF v, r, w, q, places
<1>9. Keeps(Keeper) /\ op'[Keeper].at \in places /\ op'[Keeper].for = d
  <2>1. PICK place \in places : op' = [op EXCEPT ![Keeper] = q(place)]
    BY <1>7, Zenon
  <2>. QED
    BY <1>1, <1>6, <2>1 DEF Keeps, DeploymentTypeOK
<1>10. \A n \in Nat : Unit(d, n) \in Units
  BY DEF Unit, Units, Owners
<1>11. /\ row' \in [Deployments -> Rows] /\ component' \in [Deployments -> Components]
       /\ listener' \in [Ports -> Units] /\ Routed(d)
  <2>1. CASE UNCHANGED <<row, component, route, listener>>
    BY <2>1 DEF DeploymentTypeOK, Routed
  <2>2. CASE /\ listener' = [listener EXCEPT ![lease[d]] = Unit(d, route[d].generation)]
             /\ component' = [component EXCEPT ![d] = v] /\ route' = [route EXCEPT ![d] = r]
             /\ row' = [row EXCEPT ![d] = w] /\ route[d].generation \in Nat
    <3>1. row' \in [Deployments -> Rows] /\ component' \in [Deployments -> Components]
      BY <1>3, <1>4, <2>2 DEF DeploymentTypeOK
    <3>2. Routed(d)
      BY <1>2, <1>5, <2>2, <3>1 DEF DeploymentTypeOK, Routed
    <3>3. listener' \in [Ports -> Units]
      BY <1>2, <1>10, <2>2, Zenon
    <3>. QED
      BY <3>1, <3>2, <3>3
  <2>. QED
    BY <1>8, <2>1, <2>2
<1>. QED
  BY <1>1, <1>9, <1>11, Zenon DEF Restores, DeploymentTypeOK, Keeps, Routed, published, places

\* The edge, the death of a process and a restart touch no record.
Outside ==
    /\ UNCHANGED <<lease, route, revision, document>>
    /\ UNCHANGED <<op, busy, publisher>> \/ \A a \in Actors : op'[a].at = "idle"
    /\ UNCHANGED accepted \/ accepted' = document

\* The edge, the processes and a restart.
LEMMA OutsideEffect ==
    ASSUME DeploymentTypeOK,
           EdgeAccepts \/ EdgeServes \/ Crash \/ (\E p \in Ports : ProcessDies(p))
                \/ UNCHANGED deploymentVars
    PROVE  DeploymentTypeOK' /\ Outside
<1>1. CASE EdgeAccepts \/ EdgeServes
  BY <1>1, Zenon DEF Outside, EdgeAccepts, EdgeServes, records, DeploymentTypeOK
<1>2. CASE Crash
  BY <1>2, Constants DEF Outside, Crash, records, DeploymentTypeOK
<1>3. CASE \E p \in Ports : ProcessDies(p)
  BY <1>3, Constants DEF Outside, ProcessDies, records, published, DeploymentTypeOK
<1>4. CASE UNCHANGED deploymentVars
  BY <1>4 DEF Outside, deploymentVars, records, published, DeploymentTypeOK
<1>. QED
  BY <1>1, <1>2, <1>3, <1>4

ActorStep(a) ==
    \/ Works(a) \/ Stops(a) \/ Allocates(a) \/ Resolves(a) \/ Acquires(a) \/ Republishes(a)
    \/ Awaits(a) \/ Deletes(a) \/ Snapshots(a) \/ Writes(a)

\* Every step is one of these, and keeps the types.
LEMMA StepCases ==
    ASSUME DeploymentTypeOK, GuardInv, [DeploymentNext]_deploymentVars
    PROVE  /\ DeploymentTypeOK'
           /\ (\E a \in Actors : ActorStep(a)) \/ (\E d \in Deployments : Restores(d)) \/ Outside
<1>1. ASSUME NEW c \in Clients, Resolve(c) \/ Acquire(c) \/ ApplyStep(c) \/ ControlStep(c)
      PROVE  DeploymentTypeOK' /\ ActorStep(c)
  <2>1. c \in Actors
    BY DEF Actors
  <2>2. CASE Resolve(c) \/ Acquire(c)
    BY <2>2, ResolveEffect, AcquireEffect DEF ActorStep
  <2>3. CASE ApplyStep(c)
    BY <2>3, UnchangedWorks, BeginApplyWorks, BuildFailsWorks, AllocatePortsEffect, StopOldWorks,
       BringUpWorks, ProveHealthWorks, TakeRouteWorks, CommitWorks, AbortWorks, RestartOldWorks,
       RerouteWorks, FinalRowWorks, Zenon DEF ActorStep, ApplyStep
  <2>4. CASE ControlStep(c)
    BY <2>1, <2>4, StopComponentsEffect, FinalRowWorks, StartComponentsWorks, StartRouteWorks,
       RepublishEffect, AwaitEdgeEffect, EndsWork, DeleteRowsEffect DEF ActorStep, ControlStep
  <2>. QED
    BY <1>1, <2>2, <2>3, <2>4
<1>2. ASSUME NEW a \in Actors, PublishStep(a)
      PROVE  DeploymentTypeOK' /\ ActorStep(a)
  BY <1>2, PublishSnapshotEffect, PublishWriteEffect, EndsWork DEF ActorStep, PublishStep
<1>3. ASSUME NEW d \in Deployments, RestoreRoute(d)
      PROVE  DeploymentTypeOK' /\ Restores(d)
  BY <1>3, RestoreRouteEffect
<1>4. ASSUME ValidateRoute
      PROVE  DeploymentTypeOK' /\ Keeper \in Actors /\ ActorStep(Keeper)
  BY <1>4, ValidateRouteWorks DEF ActorStep, Actors
<1>5. Clients \subseteq Actors
  BY DEF Actors
<1>. QED
  BY <1>1, <1>2, <1>3, <1>4, <1>5, OutsideEffect DEF DeploymentNext

-----------------------------------------------------------------------------
(* The mutation guard *)

\* A guard that is free, or the operation's own, goes to the operation or is freed.
LEMMA GuardChanges ==
    ASSUME GuardInv, busy \in [Deployments -> Actors \cup {NoOne}],
           NEW a \in Actors, NEW d \in Deployments, NEW x,
           busy[d] \in {a, NoOne}, busy' = [busy EXCEPT ![d] = x],
           \A b \in Actors : b # a => op'[b] = op[b],
           op'[a].at # "resolved", op'[a].at = "idle" \/ (op'[a].for = d /\ x = a)
    PROVE  GuardInv'
<1>1. busy'[d] = x /\ \A e \in Deployments : e # d => busy'[e] = busy[e]
  OBVIOUS
<1>2. NoOne \notin Actors
  BY DeploymentConstants DEF Actors
<1>3. ASSUME NEW b \in Actors, b # a, op[b].at \notin {"idle", "resolved"}
      PROVE  op[b].for \in Deployments /\ busy'[op[b].for] = b
  <2>1. op[b].for \in Deployments /\ busy[op[b].for] = b
    BY <1>3, Zenon DEF GuardInv
  <2>2. op[b].for # d
    BY <1>2, <1>3, <2>1, Zenon
  <2>. QED
    BY <1>1, <2>1, <2>2, Zenon
<1>4. ASSUME NEW b \in Actors, b # a
      PROVE  /\ op'[b].at = "resolved" => op'[b].kind \in Asked /\ op'[b].for \in Deployments
             /\ op'[b].at \notin {"idle", "resolved"} =>
                    op'[b].for \in Deployments /\ busy'[op'[b].for] = b
  <2>1. op'[b] = op[b]
    BY <1>4, Zenon
  <2>2. op[b].at = "resolved" => op[b].kind \in Asked /\ op[b].for \in Deployments
    BY Zenon DEF GuardInv
  <2>. QED
    BY <1>3, <1>4, <2>1, <2>2, Zenon
<1>5. op'[a].at \notin {"idle", "resolved"} => op'[a].for \in Deployments /\ busy'[op'[a].for] = a
  BY <1>1, Zenon
<1>. QED
  BY <1>4, <1>5, Zenon DEF GuardInv

\* No step gives the guard of a deployment to two operations.
LEMMA GuardStep ==
    ASSUME DeploymentTypeOK, DeploymentTypeOK', GuardInv,
           (\E a \in Actors : ActorStep(a)) \/ (\E d \in Deployments : Restores(d)) \/ Outside
    PROVE  GuardInv'
<1>0. "resolved" \notin Asked
  BY DEF Asked
<1>1. ASSUME NEW a \in Actors, Works(a)
      PROVE  GuardInv'
  <2>1. /\ \A b \in Actors : b # a => op'[b] = op[b]
        /\ op'[a].at # "resolved" /\ op[a].for \in Deployments /\ busy[op[a].for] = a
        /\ busy \in [Deployments -> Actors \cup {NoOne}]
    BY <1>1, Zenon DEF GuardInv, Works, Progresses, Plain, Keeps, DeploymentTypeOK
  <2>2. CASE op'[a].for = op[a].for /\ busy' = busy
    BY <2>1, <2>2, Zenon DEF GuardInv
  <2>3. CASE op'[a].at = "idle" /\ busy' = [busy EXCEPT ![op[a].for] = NoOne]
    BY <2>1, <2>3, GuardChanges, Zenon
  <2>. QED
    BY <1>1, <2>2, <2>3, Zenon DEF Works, Progresses
<1>2. ASSUME NEW a \in Actors, Stops(a) \/ Allocates(a) \/ Republishes(a) \/ Awaits(a) \/ Deletes(a)
                \/ Snapshots(a) \/ Writes(a)
      PROVE  GuardInv'
  <2>1. /\ Keeps(a) /\ op'[a].for = op[a].for /\ op[a].for \in Deployments
        /\ busy' = busy /\ busy[op[a].for] = a /\ op'[a].at # "resolved"
    BY <1>2, Zenon DEF Stops, Allocates, Republishes, Awaits, Deletes, Snapshots, Writes, GuardInv, Targets,
                Failures
  <2>. QED
    BY <2>1, Zenon DEF GuardInv, Keeps
<1>3. ASSUME NEW a \in Actors, Resolves(a)
      PROVE  GuardInv'
  BY <1>3, Zenon DEF GuardInv, Resolves, Keeps
<1>4. ASSUME NEW a \in Actors, Acquires(a)
      PROVE  GuardInv'
  <2>1. /\ \A b \in Actors : b # a => op'[b] = op[b]
        /\ busy \in [Deployments -> Actors \cup {NoOne}]
    BY <1>4 DEF Acquires, Keeps, DeploymentTypeOK
  <2>2. CASE op'[a].at = "idle" /\ busy' = busy
    BY <2>1, <2>2, Zenon DEF GuardInv
  <2>3. CASE /\ op'[a].at \in Asked /\ op'[a].for = op[a].for /\ op[a].for \in Deployments
             /\ busy[op[a].for] = NoOne /\ busy' = [busy EXCEPT ![op[a].for] = a]
    <3>1. op'[a].at # "resolved"
      BY <1>0, <2>3, Zenon
    <3>. QED
      BY <2>1, <2>3, <3>1, GuardChanges, Zenon
  <2>. QED
    BY <1>4, <2>2, <2>3, Zenon DEF Acquires
<1>5. ASSUME NEW d \in Deployments, Restores(d)
      PROVE  GuardInv'
  <2>1. /\ Keeper \in Actors /\ op'[Keeper].at # "resolved" /\ op'[Keeper].for = d
        /\ \A b \in Actors : b # Keeper => op'[b] = op[b]
        /\ busy[d] = NoOne /\ busy' = [busy EXCEPT ![d] = Keeper]
    BY <1>5, Zenon DEF Restores, Keeps, Actors
  <2>2. busy \in [Deployments -> Actors \cup {NoOne}]
    BY Zenon DEF DeploymentTypeOK
  <2>. QED
    BY <2>1, <2>2, GuardChanges, Zenon
<1>6. ASSUME Outside
      PROVE  GuardInv'
  BY <1>6, Zenon DEF GuardInv, Outside
<1>. QED
  BY <1>1, <1>2, <1>3, <1>4, <1>5, <1>6 DEF ActorStep

-----------------------------------------------------------------------------
(* Revisions and leases *)

\* The edge never has a document that is newer than the published one.
Ordered ==
    /\ document.revision <= revision /\ accepted.revision <= document.revision
    /\ accepted.revision = document.revision => accepted = document

\* Under the publication lock the pending document is the newest.
Writing(a) == publisher = a /\ op[a].document.revision = revision /\ document.revision < revision

RevisionInv == Ordered /\ \A a \in Actors : op[a].at = "write" => Writing(a)

\* No document and no route sends a deployment's visitors anywhere but to its lease, and no
\* port is leased twice.
Leased(d, port) == port = 0 \/ port = lease[d]

LeaseInv ==
    /\ \A d, e \in Deployments : lease[d] # 0 /\ lease[d] = lease[e] => d = e
    /\ \A d \in Deployments :
          /\ Leased(d, route[d].port) /\ Leased(d, document.ports[d]) /\ Leased(d, accepted.ports[d])
          /\ \A a \in Actors : op[a].at = "write" => Leased(d, op[a].document.ports[d])

\* remove, between the withdrawal of the route and delete_rows.
Removing(c) ==
    \/ op[c].at \in {"republish", "removal", "await"}
    \/ op[c].at \in {"publish", "write"} /\ op[c].then \in {"republish", "removal"}

\* From the withdrawal on no route, then no document that is written, and at the end no
\* document that the edge has accepted since, names the deployment.
Unnamed(d) ==
    document.ports[d] = 0 /\ \A b \in Actors : op[b].at = "write" => op[b].document.ports[d] = 0

Unserved(d, seen) ==
    seen <= document.revision /\ (accepted.revision >= seen => accepted.ports[d] = 0)

Withdrawal(c) ==
    /\ route[op[c].for].port = 0
    /\ op[c].at = "write" => op[c].document.ports[op[c].for] = 0
    /\ op[c].at \in {"removal", "await"} => Unnamed(op[c].for)
    /\ op[c].at = "await" => Unserved(op[c].for, op[c].seen)

RemovalInv == \A c \in Actors : Removing(c) => Withdrawal(c)

\* Nobody begins to write.
NoNewWriter == \A b \in Actors : op'[b].at = "write" => op[b].at = "write" /\ op'[b] = op[b]

\* Revisions are numbers.
LEMMA Numbers ==
    ASSUME DeploymentTypeOK
    PROVE  /\ revision \in Nat /\ document.revision \in Nat /\ accepted.revision \in Nat
           /\ \A a \in Actors : op[a].seen \in Nat /\ op[a].document.revision \in Nat
BY Fields, OperationFields, Zenon DEF DeploymentTypeOK

\* Most steps leave the documents alone, pending and published.
LEMMA Bystanders ==
    ASSUME NEW a \in Actors, Keeps(a), op'[a].at # "write"
    PROVE  NoNewWriter
BY Zenon DEF Keeps, NoNewWriter

\* The steps of an operation that neither draw a revision nor write a document.
LEMMA QuietSteps ==
    ASSUME NEW a \in Actors, Works(a) \/ Stops(a) \/ Allocates(a) \/ Resolves(a) \/ Acquires(a)
               \/ Republishes(a) \/ Awaits(a) \/ Deletes(a)
    PROVE  /\ Keeps(a) /\ op'[a].at # "write" /\ NoNewWriter
           /\ publisher' = publisher /\ revision' = revision /\ document' = document
           /\ accepted' = accepted
<1>1. /\ Keeps(a) /\ op'[a].at # "write"
      /\ publisher' = publisher /\ revision' = revision /\ document' = document
      /\ accepted' = accepted
  <2>1. CASE Works(a)
    BY <2>1, Zenon DEF Works, Progresses, Plain
  <2>2. CASE Stops(a) \/ Allocates(a) \/ Resolves(a)
    BY <2>2, Zenon DEF Stops, Allocates, Resolves
  <2>3. CASE Acquires(a)
    BY <2>3, Zenon DEF Acquires, Asked
  <2>4. CASE Republishes(a) \/ Awaits(a) \/ Deletes(a)
    BY <2>4, Zenon DEF Republishes, Awaits, Deletes
  <2>. QED
    BY <2>1, <2>2, <2>3, <2>4, Zenon
<1>. QED
  BY <1>1, Bystanders, Zenon

\* A restoration that begins changes no document and removes no route.
LEMMA RestoringIsQuiet ==
    ASSUME NEW d \in Deployments, Restores(d)
    PROVE  /\ Keeper \in Actors /\ Keeps(Keeper) /\ NoNewWriter /\ ~Removing(Keeper)'
           /\ op'[Keeper].at # "write" /\ Routed(d)
           /\ lease' = lease /\ publisher' = publisher /\ revision' = revision
           /\ document' = document /\ accepted' = accepted
<1>1. /\ Keeper \in Actors /\ Keeps(Keeper) /\ op'[Keeper].at \in {"validate", "validate_restored"}
      /\ Routed(d) /\ lease' = lease /\ publisher' = publisher /\ revision' = revision
      /\ document' = document /\ accepted' = accepted
  BY DEF Restores, Actors
<1>2. op'[Keeper].at # "write" /\ ~Removing(Keeper)'
  BY <1>1 DEF Removing
<1>. QED
  BY <1>1, <1>2, Bystanders

\* The edge, a restart and the runtime write no document of their own.
LEMMA OutsideIsQuiet ==
    ASSUME Outside
    PROVE  /\ NoNewWriter /\ lease' = lease /\ route' = route /\ revision' = revision
           /\ document' = document /\ (accepted' = accepted \/ accepted' = document)
           /\ \A b \in Actors : op'[b].at = "write" => publisher' = publisher
BY DEF Outside, NoNewWriter

\* Revisions stay in order when nobody begins to write.
LEMMA RevisionsKept ==
    ASSUME RevisionInv, NoNewWriter, revision' = revision, document' = document,
           accepted' = accepted \/ accepted' = document, document.revision \in Nat,
           \A b \in Actors : op'[b].at = "write" => publisher' = publisher
    PROVE  RevisionInv'
<1>1. Ordered'
  BY DEF RevisionInv, Ordered
<1>2. ASSUME NEW b \in Actors, op'[b].at = "write"
      PROVE  Writing(b)'
  <2>1. op[b].at = "write" /\ op'[b] = op[b] /\ publisher' = publisher
    BY <1>2 DEF NoNewWriter
  <2>2. Writing(b)
    BY <2>1 DEF RevisionInv
  <2>. QED
    BY <2>1, <2>2, Zenon DEF Writing
<1>. QED
  BY <1>1, <1>2, Zenon DEF RevisionInv

\* No step publishes a document out of turn.
LEMMA RevisionStep ==
    ASSUME DeploymentTypeOK, RevisionInv,
           (\E a \in Actors : ActorStep(a)) \/ (\E d \in Deployments : Restores(d)) \/ Outside
    PROVE  RevisionInv'
<1>0. document.revision \in Nat /\ revision \in Nat /\ accepted.revision \in Nat
  BY Numbers
<1>1. ASSUME NEW a \in Actors, Works(a) \/ Stops(a) \/ Allocates(a) \/ Resolves(a) \/ Acquires(a)
                \/ Republishes(a) \/ Awaits(a) \/ Deletes(a)
      PROVE  RevisionInv'
  BY <1>0, <1>1, QuietSteps, RevisionsKept, Zenon
<1>2. ASSUME NEW a \in Actors, Snapshots(a)
      PROVE  RevisionInv'
  <2>1. /\ publisher = NoOne /\ publisher' = a /\ revision' = revision + 1 /\ document' = document
        /\ op'[a].document.revision = revision + 1 /\ accepted' = accepted
        /\ \A b \in Actors : b # a => op'[b] = op[b]
    BY <1>2, Zenon DEF Snapshots, Keeps
  <2>2. \A b \in Actors : op[b].at # "write"
    BY <2>1, DeploymentConstants, Zenon DEF RevisionInv, Writing
  <2>3. Ordered' /\ Writing(a)'
    <3>1. document.revision <= revision /\ accepted.revision <= document.revision
      BY Zenon DEF RevisionInv, Ordered
    <3>2. document'.revision < revision' /\ document'.revision <= revision'
      BY <1>0, <2>1, <3>1
    <3>3. Writing(a)'
      BY <2>1, <3>2, Zenon DEF Writing
    <3>4. Ordered'
      BY <2>1, <3>2, Zenon DEF RevisionInv, Ordered
    <3>. QED
      BY <3>3, <3>4, Zenon
  <2>. QED
    BY <2>1, <2>2, <2>3, Zenon DEF RevisionInv
<1>3. ASSUME NEW a \in Actors, Writes(a)
      PROVE  RevisionInv'
  <2>1. /\ op[a].at = "write" /\ op'[a].at # "write" /\ revision' = revision /\ accepted' = accepted
        /\ document' = document \/ document' = op[a].document
        /\ \A b \in Actors : b # a => op'[b] = op[b]
    BY <1>3, Zenon DEF Writes, Targets, Failures, Keeps
  <2>2. Writing(a) /\ Ordered
    BY <2>1 DEF RevisionInv
  <2>3. \A b \in Actors : op'[b].at # "write"
    BY <2>1, <2>2 DEF RevisionInv, Writing
  <2>4. Ordered'
    BY <1>0, <2>1, <2>2 DEF Ordered, Writing
  <2>. QED
    BY <2>3, <2>4, Zenon DEF RevisionInv
<1>4. ASSUME NEW d \in Deployments, Restores(d)
      PROVE  RevisionInv'
  BY <1>0, <1>4, RestoringIsQuiet, RevisionsKept
<1>5. ASSUME Outside
      PROVE  RevisionInv'
  BY <1>0, <1>5, OutsideIsQuiet, RevisionsKept
<1>. QED
  BY <1>1, <1>2, <1>3, <1>4, <1>5 DEF ActorStep

\* Leases stay apart, and documents and routes on them, while no lease changes.
LEMMA LeasesKept ==
    ASSUME LeaseInv, lease' = lease,
           \A d \in Deployments : route'[d] = route[d] \/ Leased(d, route'[d].port),
           document' = document \/ (\E a \in Actors : op[a].at = "write" /\ document' = op[a].document),
           accepted' = accepted \/ accepted' = document,
           \A b \in Actors, d \in Deployments : op'[b].at = "write" =>
               \/ op[b].at = "write" /\ op'[b] = op[b]
               \/ Leased(d, op'[b].document.ports[d])
    PROVE  LeaseInv'
<1>1. ASSUME NEW d \in Deployments
      PROVE  /\ Leased(d, route'[d].port) /\ Leased(d, document'.ports[d])
             /\ Leased(d, accepted'.ports[d])
             /\ \A b \in Actors : op'[b].at = "write" => Leased(d, op'[b].document.ports[d])
  <2>1. Leased(d, route'[d].port)
    BY <1>1, Zenon DEF LeaseInv
  <2>2. Leased(d, document'.ports[d])
    BY <1>1, Zenon DEF LeaseInv
  <2>3. Leased(d, accepted'.ports[d])
    BY <1>1, Zenon DEF LeaseInv
  <2>4. \A b \in Actors : op'[b].at = "write" => Leased(d, op'[b].document.ports[d])
    BY <1>1, Zenon DEF LeaseInv
  <2>. QED
    BY <2>1, <2>2, <2>3, <2>4, Zenon
<1>2. \A d, e \in Deployments : lease'[d] # 0 /\ lease'[d] = lease'[e] => d = e
  BY Zenon DEF LeaseInv
<1>. QED
  BY <1>1, <1>2, Zenon DEF LeaseInv, Leased

\* No step leases a port twice, or leaves a document with a port its deployment no longer has.
LEMMA LeaseStep ==
    ASSUME DeploymentTypeOK, LeaseInv, RemovalInv, RevisionInv,
           (\E a \in Actors : ActorStep(a)) \/ (\E d \in Deployments : Restores(d)) \/ Outside
    PROVE  LeaseInv'
<1>1. ASSUME NEW a \in Actors, Works(a) \/ Stops(a) \/ Resolves(a) \/ Acquires(a)
                \/ Republishes(a) \/ Awaits(a)
      PROVE  LeaseInv'
  <2>1. document' = document /\ accepted' = accepted /\ NoNewWriter
    BY <1>1, QuietSteps, Zenon
  <2>2. /\ lease' = lease
        /\ route' = route \/ \E e \in Deployments : Routed(e)
    <3>1. CASE Works(a)
      BY <3>1, Zenon DEF Works, Progresses
    <3>2. CASE Stops(a)
      BY <3>2 DEF Stops
    <3>3. CASE Resolves(a) \/ Acquires(a) \/ Republishes(a) \/ Awaits(a)
      BY <3>3, Zenon DEF Resolves, Acquires, Republishes, Awaits
    <3>. QED
      BY <1>1, <3>1, <3>2, <3>3
  <2>3. \A d \in Deployments : route'[d] = route[d] \/ Leased(d, route'[d].port)
    BY <2>2, Zenon DEF Routed, Leased, LeaseInv
  <2>. QED
    BY <2>1, <2>2, <2>3, LeasesKept, Zenon DEF NoNewWriter
<1>2. ASSUME NEW a \in Actors, Allocates(a)
      PROVE  LeaseInv'
  <2>1. /\ route' = route
        /\ \A d \in Deployments : lease'[d] = lease[d] \/ lease[d] = 0
    BY <1>2, Zenon DEF Allocates
  <2>2. \A d, e \in Deployments : lease'[d] # 0 /\ lease'[d] = lease'[e] => d = e
    BY <1>2, Zenon DEF Allocates, LeaseInv
  <2>3. document' = document /\ accepted' = accepted /\ NoNewWriter
    BY <1>2, QuietSteps, Zenon
  <2>4. ASSUME NEW d \in Deployments
        PROVE  /\ Leased(d, route[d].port)' /\ Leased(d, document.ports[d])'
               /\ Leased(d, accepted.ports[d])'
               /\ \A b \in Actors : op'[b].at = "write" => Leased(d, op[b].document.ports[d])'
    <3>1. \A port : Leased(d, port) => port = 0 \/ port = lease'[d]
      BY <2>1 DEF Leased
    <3>2. /\ Leased(d, route[d].port) /\ Leased(d, document.ports[d]) /\ Leased(d, accepted.ports[d])
          /\ \A b \in Actors : op[b].at = "write" => Leased(d, op[b].document.ports[d])
      BY Zenon DEF LeaseInv
    <3>3. \A b \in Actors : op'[b].at = "write" => Leased(d, op'[b].document.ports[d])
      BY <2>3, <3>2, Zenon DEF NoNewWriter
    <3>. QED
      BY <2>1, <2>3, <3>1, <3>2, <3>3, Zenon DEF Leased
  <2>. QED
    BY <2>2, <2>4, Zenon DEF LeaseInv
<1>3. ASSUME NEW a \in Actors, Deletes(a)
      PROVE  LeaseInv'
  <2>1. Removing(a) /\ op[a].at = "await" /\ accepted.revision >= op[a].seen /\ op[a].for \in Deployments
    BY <1>3, Zenon DEF Deletes, Removing
  <2>2. Unnamed(op[a].for) /\ Unserved(op[a].for, op[a].seen)
    BY <2>1, Zenon DEF RemovalInv, Withdrawal
  <2>3. \A d \in Deployments : lease'[d] = IF d = op[a].for THEN 0 ELSE lease[d]
    BY <1>3, Zenon DEF Deletes, DeploymentTypeOK
  <2>4. document' = document /\ accepted' = accepted /\ NoNewWriter
    BY <1>3, QuietSteps, Zenon
  <2>5. ASSUME NEW d \in Deployments
        PROVE  /\ Leased(d, route[d].port)' /\ Leased(d, document.ports[d])'
               /\ Leased(d, accepted.ports[d])'
               /\ \A b \in Actors : op'[b].at = "write" => Leased(d, op[b].document.ports[d])'
    <3>1. CASE d = op[a].for
      <4>1. route'[d].port = 0
        BY <1>3, <3>1, Zenon DEF Deletes
      <4>2. document'.ports[d] = 0 /\ accepted'.ports[d] = 0
        BY <2>1, <2>2, <2>4, <3>1, Zenon DEF Unnamed, Unserved
      <4>3. \A b \in Actors : op'[b].at = "write" => op'[b].document.ports[d] = 0
        BY <2>2, <2>4, <3>1, Zenon DEF Unnamed, NoNewWriter
      <4>. QED
        BY <4>1, <4>2, <4>3, Zenon DEF Leased
    <3>2. CASE d # op[a].for
      <4>1. route'[d] = route[d] /\ lease'[d] = lease[d]
        BY <1>3, <2>3, <3>2, Zenon DEF Deletes
      <4>. QED
        BY <2>4, <2>5, <4>1, Zenon DEF LeaseInv, Leased, NoNewWriter
    <3>. QED
      BY <3>1, <3>2, Zenon
  <2>6. \A d, e \in Deployments : lease'[d] # 0 /\ lease'[d] = lease'[e] => d = e
    BY <2>3, Zenon DEF LeaseInv
  <2>. QED
    BY <2>5, <2>6, Zenon DEF LeaseInv
<1>4. ASSUME NEW a \in Actors, Snapshots(a)
      PROVE  LeaseInv'
  <2>1. /\ lease' = lease /\ document' = document /\ accepted' = accepted
        /\ \A b \in Actors : b # a => op'[b] = op[b]
    BY <1>4, Zenon DEF Snapshots, Keeps
  <2>2. \A d \in Deployments : Leased(d, route'[d].port) /\ Leased(d, op'[a].document.ports[d])
    BY <1>4, Zenon DEF Snapshots, LeaseInv, Leased
  <2>. QED
    BY <2>1, <2>2, LeasesKept, Zenon
<1>5. ASSUME NEW a \in Actors, Writes(a)
      PROVE  LeaseInv'
  <2>1. /\ lease' = lease /\ route' = route /\ accepted' = accepted
        /\ op[a].at = "write" /\ (document' = document \/ document' = op[a].document)
        /\ Keeps(a) /\ op'[a].at # "write"
    BY <1>5, Zenon DEF Writes, Targets, Failures
  <2>2. NoNewWriter
    BY <2>1, Bystanders
  <2>. QED
    BY <2>1, <2>2, LeasesKept, Zenon DEF NoNewWriter
<1>6. ASSUME NEW e \in Deployments, Restores(e)
      PROVE  LeaseInv'
  <2>1. /\ lease' = lease /\ document' = document /\ accepted' = accepted /\ NoNewWriter /\ Routed(e)
    BY <1>6, RestoringIsQuiet, Zenon
  <2>2. \A d \in Deployments : route'[d] = route[d] \/ Leased(d, route'[d].port)
    BY <2>1, Zenon DEF Routed, Leased, LeaseInv
  <2>. QED
    BY <2>1, <2>2, LeasesKept, Zenon DEF NoNewWriter
<1>7. ASSUME Outside
      PROVE  LeaseInv'
  BY <1>7, OutsideIsQuiet, LeasesKept, Zenon DEF NoNewWriter
<1>. QED
  BY <1>1, <1>2, <1>3, <1>4, <1>5, <1>6, <1>7 DEF ActorStep

\* A removal has the guard of its deployment.
LEMMA RemoversHold ==
    ASSUME DeploymentTypeOK, GuardInv, NEW c \in Actors, Removing(c)
    PROVE  op[c].for \in Deployments /\ busy[op[c].for] = c
BY DEF GuardInv, Removing

\* What a removal knows, of the deployment d it is for, and what it has to know after a step.
LEMMA WithdrawalNow ==
    ASSUME RemovalInv, NEW c \in Actors, Removing(c), NEW d, d = op[c].for
    PROVE  /\ route[d].port = 0
           /\ op[c].at = "write" => op[c].document.ports[d] = 0
           /\ op[c].at \in {"removal", "await"} => Unnamed(d)
           /\ op[c].at = "await" => Unserved(d, op[c].seen)
BY Zenon DEF RemovalInv, Withdrawal

\* Withdrawal of the next state, said of the values it reads.
LEMMA WithdrawalNext ==
    ASSUME NEW c \in Actors, NEW d, d = op'[c].for, route'[d].port = 0,
           op'[c].at = "write" => op'[c].document.ports[d] = 0,
           op'[c].at \in {"removal", "await"} =>
               /\ document'.ports[d] = 0
               /\ \A b \in Actors : op'[b].at = "write" => op'[b].document.ports[d] = 0,
           op'[c].at = "await" =>
               /\ op'[c].seen <= document'.revision
               /\ accepted'.revision >= op'[c].seen => accepted'.ports[d] = 0
    PROVE  Withdrawal(c)'
BY Zenon DEF Withdrawal, Unnamed, Unserved

\* A step that begins no document and leaves the route alone, and after which the documents
\* are no older.
LEMMA OthersRemoval ==
    ASSUME DeploymentTypeOK, RevisionInv, RemovalInv, NEW c \in Actors, Removing(c), op'[c] = op[c],
           NoNewWriter, document' = document, accepted' = accepted \/ accepted' = document,
           route'[op[c].for] = route[op[c].for]
    PROVE  Withdrawal(c)'
<1>1. PICK d : d = op[c].for
  OBVIOUS
<1>2. /\ route[d].port = 0
      /\ op[c].at = "write" => op[c].document.ports[d] = 0
      /\ op[c].at \in {"removal", "await"} => Unnamed(d)
      /\ op[c].at = "await" => Unserved(d, op[c].seen)
  BY <1>1, WithdrawalNow, Zenon
<1>3. d = op'[c].for /\ route'[d].port = 0 /\ (op'[c].at = "write" => op'[c].document.ports[d] = 0)
  BY <1>1, <1>2, Zenon
<1>4. op'[c].at \in {"removal", "await"} =>
          /\ document'.ports[d] = 0
          /\ \A b \in Actors : op'[b].at = "write" => op'[b].document.ports[d] = 0
  BY <1>2, Zenon DEF Unnamed, NoNewWriter
<1>5. op'[c].at = "await" =>
          /\ op'[c].seen <= document'.revision
          /\ accepted'.revision >= op'[c].seen => accepted'.ports[d] = 0
  <2>. SUFFICES ASSUME op[c].at = "await"
                PROVE  /\ op[c].seen <= document.revision
                       /\ accepted'.revision >= op[c].seen => accepted'.ports[d] = 0
    BY Zenon
  <2>1. Unnamed(d) /\ Unserved(d, op[c].seen)
    BY <1>2, Zenon
  <2>. QED
    BY <2>1, Zenon DEF Unnamed, Unserved
<1>. QED
  BY <1>3, <1>4, <1>5, WithdrawalNext, Zenon

\* No step brings a withdrawn route back while its removal is under way.
LEMMA RemovalStep ==
    ASSUME DeploymentTypeOK, DeploymentTypeOK', GuardInv, RevisionInv, RemovalInv,
           (\E a \in Actors : ActorStep(a)) \/ (\E d \in Deployments : Restores(d)) \/ Outside
    PROVE  RemovalInv'
<1>1. ASSUME NEW a \in Actors, Works(a) \/ Allocates(a) \/ Resolves(a) \/ Acquires(a) \/ Deletes(a)
      PROVE  RemovalInv'
  <2>1. /\ Keeps(a) /\ NoNewWriter /\ document' = document /\ accepted' = accepted
    BY <1>1, QuietSteps, Zenon
  <2>2. ~Removing(a)'
    <3>1. CASE Works(a)
      BY <3>1, Zenon DEF Works, Progresses, Plain, Removing
    <3>2. CASE Allocates(a) \/ Resolves(a) \/ Deletes(a)
      BY <3>2, Zenon DEF Allocates, Resolves, Deletes, Removing
    <3>3. CASE Acquires(a)
      BY <3>3, Zenon DEF Acquires, Asked, Removing
    <3>. QED
      BY <1>1, <3>1, <3>2, <3>3
  <2>3. \A e \in Deployments : busy[e] # a => route'[e] = route[e]
    <3>1. CASE Works(a)
      BY <3>1, Zenon DEF Works, Progresses, Routed, GuardInv
    <3>2. CASE Allocates(a) \/ Resolves(a) \/ Acquires(a)
      BY <3>2, Zenon DEF Allocates, Resolves, Acquires
    <3>3. CASE Deletes(a)
      BY <3>3, Zenon DEF Deletes, GuardInv
    <3>. QED
      BY <1>1, <3>1, <3>2, <3>3, Zenon
  <2>4. ASSUME NEW c \in Actors, Removing(c)'
        PROVE  Withdrawal(c)'
    <3>1. c # a /\ op'[c] = op[c]
      BY <2>1, <2>2, <2>4 DEF Keeps
    <3>2. Removing(c)
      BY <2>4, <3>1, Zenon DEF Removing
    <3>3. route'[op[c].for] = route[op[c].for]
      BY <2>3, <3>1, <3>2, RemoversHold, Zenon
    <3>. QED
      BY <2>1, <3>1, <3>2, <3>3, OthersRemoval, Zenon
  <2>. QED
    BY <2>4, Zenon DEF RemovalInv
<1>2. ASSUME NEW a \in Actors, Stops(a) \/ Republishes(a)
      PROVE  RemovalInv'
  <2>1. Keeps(a) /\ NoNewWriter /\ document' = document /\ accepted' = accepted
    BY <1>2, QuietSteps, Zenon
  <2>2. PICK d \in Deployments : d = op[a].for
    BY <1>2, Zenon DEF Stops, Republishes
  <2>3. /\ op'[a].at = "publish" /\ op'[a].for = d /\ route'[d].port = 0 /\ busy[d] = a
        /\ \A e \in Deployments : e # d => route'[e] = route[e]
    <3>1. CASE Stops(a)
      BY <2>2, <3>1, Zenon DEF Stops, Routed
    <3>2. CASE Republishes(a)
      <4>1. /\ op[a].at = "republish" /\ op'[a].at = "publish" /\ op'[a].for = d /\ route' = route
        BY <2>2, <3>2, Zenon DEF Republishes
      <4>2. Removing(a)
        BY <4>1 DEF Removing
      <4>. QED
        BY <2>2, <4>1, <4>2, WithdrawalNow, RemoversHold, Zenon
    <3>. QED
      BY <1>2, <3>1, <3>2, Zenon
  <2>4. Withdrawal(a)'
    BY <2>3, WithdrawalNext, Zenon
  <2>5. ASSUME NEW c \in Actors, c # a, Removing(c)'
        PROVE  Withdrawal(c)'
    <3>1. op'[c] = op[c]
      BY <2>1, <2>5 DEF Keeps
    <3>2. Removing(c)
      BY <2>5, <3>1 DEF Removing
    <3>3. route'[op[c].for] = route[op[c].for]
      BY <2>3, <2>5, <3>2, RemoversHold
    <3>. QED
      BY <2>1, <3>1, <3>2, <3>3, OthersRemoval, Zenon
  <2>. QED
    BY <2>4, <2>5, Zenon DEF RemovalInv
<1>3. ASSUME NEW a \in Actors, Awaits(a)
      PROVE  RemovalInv'
  <2>1. Keeps(a) /\ NoNewWriter /\ document' = document /\ accepted' = accepted
    BY <1>3, QuietSteps, Zenon
  <2>2. PICK d \in Deployments : d = op[a].for
    BY <1>3, Zenon DEF Awaits
  <2>3. /\ op[a].at = "removal" /\ op'[a].at = "await" /\ op'[a].for = d /\ route' = route
        /\ op'[a].seen = document.revision
    BY <1>3, <2>2, Zenon DEF Awaits
  <2>4. route[d].port = 0 /\ Unnamed(d)
    <3>1. Removing(a)
      BY <2>3 DEF Removing
    <3>. QED
      BY <2>2, <2>3, <3>1, WithdrawalNow, Zenon
  <2>5. accepted.revision >= document.revision => accepted = document
    BY Numbers DEF RevisionInv, Ordered
  <2>6. Withdrawal(a)'
    <3>1. /\ document'.ports[d] = 0
          /\ \A b \in Actors : op'[b].at = "write" => op'[b].document.ports[d] = 0
      BY <2>1, <2>4, Zenon DEF Unnamed, NoNewWriter
    <3>2. /\ op'[a].seen <= document'.revision
          /\ accepted'.revision >= op'[a].seen => accepted'.ports[d] = 0
      <4>1. document.revision <= document.revision
        BY Numbers
      <4>2. accepted.revision >= document.revision => accepted.ports[d] = 0
        BY <2>1, <2>5, <3>1, Zenon
      <4>. QED
        BY <2>1, <2>3, <4>1, <4>2, Zenon
    <3>. QED
      BY <2>3, <2>4, <3>1, <3>2, WithdrawalNext, Zenon
  <2>7. ASSUME NEW c \in Actors, c # a, Removing(c)'
        PROVE  Withdrawal(c)'
    <3>1. op'[c] = op[c]
      BY <2>1, <2>7 DEF Keeps
    <3>2. Removing(c)
      BY <2>7, <3>1 DEF Removing
    <3>. QED
      BY <2>1, <2>3, <3>1, <3>2, OthersRemoval, Zenon
  <2>. QED
    BY <2>6, <2>7, Zenon DEF RemovalInv
<1>4. ASSUME NEW a \in Actors, Snapshots(a)
      PROVE  RemovalInv'
  <2>. SUFFICES ASSUME NEW c \in Actors, Removing(c)'
                PROVE  Withdrawal(c)'
    BY Zenon DEF RemovalInv
  <2>1. /\ op[a].at = "publish" /\ op'[a].at = "write" /\ op'[a].for = op[a].for
        /\ op'[a].then = op[a].then /\ document' = document /\ accepted' = accepted
        /\ \A b \in Actors : b # a => op'[b] = op[b]
    BY <1>4, Zenon DEF Snapshots, Keeps
  <2>2. Removing(c) /\ op'[c].for = op[c].for /\ (c # a => op'[c] = op[c])
    BY <2>1, Zenon DEF Removing
  <2>3. PICK d \in Deployments : d = op[c].for
    BY <2>2, RemoversHold
  <2>4. /\ route[d].port = 0
        /\ op[c].at = "write" => op[c].document.ports[d] = 0
        /\ op[c].at \in {"removal", "await"} => Unnamed(d)
        /\ op[c].at = "await" => Unserved(d, op[c].seen)
    BY <2>2, <2>3, WithdrawalNow, Zenon
  <2>5. route'[d].port = 0 /\ op'[a].document.ports[d] = 0
    BY <1>4, <2>4, Zenon DEF Snapshots
  <2>6. op'[c].at = "write" => op'[c].document.ports[d] = 0
    BY <2>2, <2>4, <2>5, Zenon
  <2>7. op'[c].at \in {"removal", "await"} =>
            /\ document'.ports[d] = 0
            /\ \A b \in Actors : op'[b].at = "write" => op'[b].document.ports[d] = 0
    <3>. SUFFICES ASSUME op'[c].at \in {"removal", "await"}
                  PROVE  /\ document'.ports[d] = 0
                         /\ \A b \in Actors : op'[b].at = "write" => op'[b].document.ports[d] = 0
      OBVIOUS
    <3>1. c # a
      BY <2>1, Zenon
    <3>2. Unnamed(d)
      BY <2>2, <2>4, <3>1, Zenon
    <3>. QED
      BY <2>1, <2>5, <3>2, Zenon DEF Unnamed
  <2>8. op'[c].at = "await" =>
            /\ op'[c].seen <= document'.revision
            /\ accepted'.revision >= op'[c].seen => accepted'.ports[d] = 0
    <3>. SUFFICES ASSUME op'[c].at = "await"
                  PROVE  /\ op'[c].seen <= document'.revision
                         /\ accepted'.revision >= op'[c].seen => accepted'.ports[d] = 0
      BY Zenon
    <3>1. c # a
      BY <2>1
    <3>2. Unserved(d, op[c].seen)
      BY <2>2, <2>4, <3>1, Zenon
    <3>. QED
      BY <2>1, <2>2, <3>1, <3>2, Zenon DEF Unserved
  <2>. QED
    BY <2>2, <2>3, <2>5, <2>6, <2>7, <2>8, WithdrawalNext, Zenon
<1>5. ASSUME NEW a \in Actors, Writes(a)
      PROVE  RemovalInv'
  <2>. SUFFICES ASSUME NEW c \in Actors, Removing(c)'
                PROVE  Withdrawal(c)'
    BY Zenon DEF RemovalInv
  <2>1. /\ op[a].at = "write" /\ op'[a].at \notin {"write", "await", "publish"}
        /\ op'[a].for = op[a].for /\ route' = route /\ accepted' = accepted
        /\ \A b \in Actors : b # a => op'[b] = op[b]
    BY <1>5, Zenon DEF Writes, Targets, Failures, Keeps
  <2>2. \/ document' = op[a].document /\ op'[a].at = op[a].then
        \/ document' = document /\ op'[a].at \in Failures
    BY <1>5, Zenon DEF Writes
  <2>3. Writing(a) /\ \A b \in Actors : op'[b].at # "write"
    BY <2>1, Zenon DEF RevisionInv, Writing
  <2>4. Removing(c) /\ op'[c].for = op[c].for /\ (c # a => op'[c] = op[c])
    BY <2>1, <2>2, Zenon DEF Removing, Failures
  <2>5. PICK d \in Deployments : d = op[c].for
    BY <2>4, RemoversHold
  <2>6. /\ route[d].port = 0
        /\ op[c].at = "write" => op[c].document.ports[d] = 0
        /\ op[c].at \in {"removal", "await"} => Unnamed(d)
        /\ op[c].at = "await" => Unserved(d, op[c].seen)
    BY <2>4, <2>5, WithdrawalNow, Zenon
  <2>7. op'[c].at \in {"removal", "await"} => document'.ports[d] = 0
    <3>1. CASE c = a
      <4>1. Removing(a)' /\ op[a].document.ports[d] = 0
        BY <2>1, <2>6, <3>1, Zenon
      <4>2. op'[a].at \in {"removal", "await"} => document' = op[a].document
        BY <2>2 DEF Failures
      <4>. QED
        BY <3>1, <4>1, <4>2
    <3>2. CASE c # a
      BY <2>1, <2>2, <2>4, <2>6, <3>2, Zenon DEF Unnamed
    <3>. QED
      BY <3>1, <3>2
  <2>8. op'[c].at = "await" =>
            /\ op'[c].seen <= document'.revision
            /\ accepted'.revision >= op'[c].seen => accepted'.ports[d] = 0
    <3>. SUFFICES ASSUME op'[c].at = "await"
                  PROVE  /\ op'[c].seen <= document'.revision
                         /\ accepted'.revision >= op'[c].seen => accepted'.ports[d] = 0
      BY Zenon
    <3>1. c # a /\ op'[c] = op[c]
      BY <2>1, <2>4, Zenon
    <3>2. Unserved(d, op[c].seen)
      BY <2>6, <3>1, Zenon
    <3>3. PICK n \in Nat : n = op[c].seen
      BY Numbers, Zenon
    <3>4. /\ document'.revision = document.revision \/ document'.revision = revision
          /\ document.revision < revision /\ document.revision \in Nat /\ revision \in Nat
      BY <2>2, <2>3, Numbers, Zenon DEF Writing
    <3>5. n <= document.revision
      BY <3>2, <3>3 DEF Unserved
    <3>6. n <= document'.revision
      BY <3>4, <3>5
    <3>. QED
      BY <2>1, <3>1, <3>2, <3>3, <3>6, Zenon DEF Unserved
  <2>. QED
    BY <2>1, <2>3, <2>4, <2>5, <2>6, <2>7, <2>8, WithdrawalNext, Zenon
<1>6. ASSUME NEW d \in Deployments, Restores(d)
      PROVE  RemovalInv'
  <2>1. /\ Keeper \in Actors /\ Keeps(Keeper) /\ NoNewWriter /\ ~Removing(Keeper)' /\ Routed(d)
        /\ document' = document /\ accepted' = accepted
    BY <1>6, RestoringIsQuiet, Zenon
  <2>2. ASSUME NEW c \in Actors, Removing(c)'
        PROVE  Withdrawal(c)'
    <3>1. op'[c] = op[c]
      BY <2>1, <2>2 DEF Keeps
    <3>2. Removing(c)
      BY <2>2, <3>1 DEF Removing
    <3>3. op[c].for \in Deployments /\ busy[op[c].for] = c
      BY <3>2, RemoversHold, Zenon
    <3>4. op[c].for # d
      BY <1>6, <3>3, DeploymentConstants, Zenon DEF Restores
    <3>5. route'[op[c].for] = route[op[c].for]
      BY <2>1, <3>3, <3>4, Zenon DEF Routed
    <3>. QED
      BY <2>1, <3>1, <3>2, <3>5, OthersRemoval, Zenon
  <2>. QED
    BY <2>2, Zenon DEF RemovalInv
<1>7. ASSUME Outside
      PROVE  RemovalInv'
  <2>1. /\ NoNewWriter /\ route' = route /\ document' = document
        /\ accepted' = accepted \/ accepted' = document
    BY <1>7, OutsideIsQuiet
  <2>2. CASE op' = op
    <3>1. ASSUME NEW c \in Actors, Removing(c)'
          PROVE  Withdrawal(c)'
      <4>1. Removing(c) /\ op'[c] = op[c]
        BY <2>2, <3>1 DEF Removing
      <4>. QED
        BY <2>1, <4>1, OthersRemoval
    <3>. QED
      BY <3>1, Zenon DEF RemovalInv
  <2>3. CASE \A a \in Actors : op'[a].at = "idle"
    BY <2>3, Zenon DEF RemovalInv, Removing
  <2>. QED
    BY <1>7, <2>2, <2>3, Zenon DEF Outside
<1>. QED
  BY <1>1, <1>2, <1>3, <1>4, <1>5, <1>6, <1>7 DEF ActorStep

-----------------------------------------------------------------------------
(* Theorems *)

DeploymentInv == DeploymentTypeOK /\ GuardInv /\ RevisionInv /\ LeaseInv /\ RemovalInv

\* The invariant holds before the first deployment.
LEMMA DeploymentInvInit ==
    ASSUME DeploymentInit
    PROVE  DeploymentInv
<1>1. DeploymentTypeOK
  <2>1. recorded \in [Deployments -> [Generations -> Marks]]
    BY DEF DeploymentInit, Marks
  <2>. QED
    BY <2>1, Constants, Zenon DEF DeploymentInit, DeploymentTypeOK
<1>2. \A a \in Actors : op[a].at = "idle"
  BY Constants DEF DeploymentInit
<1>3. GuardInv /\ RemovalInv
  BY <1>2, Zenon DEF GuardInv, RemovalInv, Removing
<1>4. document = accepted /\ document.revision = 0 /\ \A d \in Deployments : document.ports[d] = 0
  BY DEF DeploymentInit, NoDocument
<1>5. RevisionInv
  <2>1. revision = 0
    BY DEF DeploymentInit
  <2>. QED
    BY <1>2, <1>4, <2>1 DEF RevisionInv, Ordered
<1>6. LeaseInv
  <2>1. \A d \in Deployments : lease[d] = 0 /\ route[d].port = 0
    BY Constants DEF DeploymentInit
  <2>. QED
    BY <1>2, <1>4, <2>1, Zenon DEF LeaseInv, Leased
<1>. QED
  BY <1>1, <1>3, <1>5, <1>6 DEF DeploymentInv

\* Every step of callers, maintenance, edge and processes keeps the invariant.
LEMMA DeploymentInvStep ==
    ASSUME DeploymentInv, [DeploymentNext]_deploymentVars
    PROVE  DeploymentInv'
<1>1. /\ DeploymentTypeOK'
      /\ (\E a \in Actors : ActorStep(a)) \/ (\E d \in Deployments : Restores(d)) \/ Outside
  BY StepCases DEF DeploymentInv
<1>. QED
  BY <1>1, GuardStep, RevisionStep, LeaseStep, RemovalStep DEF DeploymentInv

\* The guards of MutationLocks exclude: whoever works on a deployment is the only one that
\* holds it, whatever else is going on, and every record has its type.
THEOREM DeploymentsExclude == DeploymentSpec => [](DeploymentTypeOK /\ GuardInv)
<1>1. DeploymentInit => DeploymentInv
  BY DeploymentInvInit
<1>2. DeploymentInv /\ [DeploymentNext]_deploymentVars => DeploymentInv'
  BY DeploymentInvStep
<1>3. DeploymentInv => DeploymentTypeOK /\ GuardInv
  BY DEF DeploymentInv
<1>. QED
  BY <1>1, <1>2, <1>3, PTL DEF DeploymentSpec

\* The edge never routes a deployment's visitors to another deployment's port: publish
\* takes only leased ports, and remove gives a lease up only when no pending, published
\* or accepted document can name it any more.
THEOREM EdgeIsRouted == DeploymentSpec => []EdgeNeverMisroutes
<1>1. DeploymentInit => DeploymentInv
  BY DeploymentInvInit
<1>2. DeploymentInv /\ [DeploymentNext]_deploymentVars => DeploymentInv'
  BY DeploymentInvStep
<1>3. DeploymentInv => EdgeNeverMisroutes
  <2>. SUFFICES ASSUME DeploymentInv, served = accepted, NEW d \in Deployments, NEW e \in Deployments,
                       served.ports[d] # 0, lease[e] = served.ports[d]
                PROVE  d = e
    BY DEF EdgeNeverMisroutes
  <2>1. lease[d] = served.ports[d]
    BY Zenon DEF DeploymentInv, LeaseInv, Leased
  <2>. QED
    BY <2>1 DEF DeploymentInv, LeaseInv
<1>. QED
  BY <1>1, <1>2, <1>3, PTL DEF DeploymentSpec

\* A later snapshot is never overwritten by an earlier one: publications take turns under
\* the publication lock from the revision they draw to the rename.
THEOREM DocumentsAdvance == DeploymentSpec => DocumentNeverGoesBack
<1>1. DeploymentInit => DeploymentInv
  BY DeploymentInvInit
<1>2. DeploymentInv /\ [DeploymentNext]_deploymentVars => DeploymentInv'
  BY DeploymentInvStep
<1>3. DeploymentInv /\ [DeploymentNext]_deploymentVars => [document'.revision >= document.revision]_document
  <2>. SUFFICES ASSUME DeploymentInv, [DeploymentNext]_deploymentVars, document' # document
                PROVE  document'.revision >= document.revision
    OBVIOUS
  <2>1. PICK a \in Actors : ActorStep(a)
    BY StepCases, Zenon DEF DeploymentInv, Restores, Outside
  <2>2. Writes(a)
    BY <2>1, Zenon DEF ActorStep, Works, Stops, Allocates, Resolves, Acquires, Republishes, Awaits, Deletes,
                Snapshots
  <2>3. op[a].at = "write" /\ document' = op[a].document
    BY <2>2, Zenon DEF Writes
  <2>. QED
    BY <2>3, Numbers DEF DeploymentInv, RevisionInv, Writing
<1>. QED
  BY <1>1, <1>2, <1>3, PTL DEF DeploymentSpec, DocumentNeverGoesBack
=============================================================================
