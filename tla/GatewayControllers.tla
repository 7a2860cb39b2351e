------------------------- MODULE GatewayControllers -------------------------
(***************************************************************************)
(* The Gateway API controllers (internal/controllers/gateway): the one of  *)
(* the GatewayClass, the one of the Gateways, and one for each kind of     *)
(* route.  They watch each other's objects: a Gateway is programmed from   *)
(* the proxy's Service, a route is attached to programmed Gateways, and a  *)
(* Gateway's status counts the routes that say they are attached to it.    *)
(*                                                                         *)
(* Events wait to be delivered; the predicates and the functions that map  *)
(* an event to requests read the cluster when it is delivered.  Every kind *)
(* of object has one worker.  What is called the cluster here is what the  *)
(* informers show; a write of an object that has changed since it was read *)
(* is refused.  All objects are in one namespace.  Resyncs of the          *)
(* informers (--sync-period, ten hours) are left out.                      *)
(***************************************************************************)
EXTENDS Listeners

CONSTANTS
    Gateways,
    Routes,
    Scenarios,   \* what the users may do; see the MC module
    PublishService, Kong, Grants, SecretStates,   \* the proxy and what Gateways refer to
    Absent,
    NoGateway

VARIABLES
    scenario,    \* one of Scenarios, fixed
    class,       \* the GatewayClass all Gateways name
    gateways,
    routes,
    service,     \* the ports of the publish Service, or Absent
    backend,     \* the Service the routes' rules name exists
    changes,     \* changes of the cluster so far
    second,      \* the time, as the conditions of a status have it
    events,      \* not delivered yet
    classQueue,  \* work queues
    gatewayQueue,
    routeQueue,
    gatewayWorker,
    routeWorker, \* one per kind of route
    gatewayCache,\* KongClient's object cache
    routeCache,
    references,  \* reference cache: the Secrets each Gateway names
    filter,      \* kubernetesObjectReportsFilter
    applied,     \* what the last update of KongClient was made from
    settled,     \* objects that were read since the last change of what a controller reads
    missed,      \* routes and Gateways whose last event was filtered out, a history
    seen         \* the publish Service when a Gateway's listeners were reported, a history

objectVars == <<class, gateways, routes>>
clusterVars == <<objectVars, service, backend, changes, second>>
queueVars == <<classQueue, gatewayQueue, routeQueue>>
cacheVars == <<gatewayCache, routeCache, references>>
reportVars == <<filter, applied>>
inputs == <<objectVars, service, backend, second, references, filter>>
vars == <<scenario, clusterVars, events, queueVars, gatewayWorker, routeWorker, cacheVars, reportVars,
          settled, missed, seen>>

(* What a scenario begins with and lets the users write are objects the    *)
(* API server admits: a route's parents are Gateways, no hostname of a     *)
(* route is empty, and a status is about a generation there has been; a    *)
(* Gateway is not programmed without being accepted.                       *)
ClassFields == {"ver", "gen", "ours", "unmanaged", "accepted"}
GatewayFields == {"ver", "gen", "ns", "annotated", "listeners", "deleting", "accepted", "programmed",
                  "status", "stamp"}
RouteFields == {"ver", "gen", "uid", "parents", "deleting", "hostnames", "status"}
ClassAdmitted(c) == DOMAIN c = ClassFields /\ c.ours \in BOOLEAN /\ c.unmanaged \in BOOLEAN
GatewayAdmitted(gw) ==
    /\ DOMAIN gw = GatewayFields
    /\ gw.gen \in Nat \ {0} /\ gw.accepted \in 0..gw.gen /\ gw.programmed \in {0, gw.accepted}
RouteAdmitted(spec) ==
    NoHostname \notin spec.hostnames /\ \A i \in DOMAIN spec.parents : spec.parents[i].gw \in Gateways

ASSUME ScenariosAssumption ==
    /\ Gateways \cap Routes = {}
    /\ \A s \in Scenarios :
         /\ s.kind \in {"HTTPRoute", "GRPCRoute", "TLSRoute", "TCPRoute", "UDPRoute"}
         /\ s.class # Absent => ClassAdmitted(s.class)
         /\ DOMAIN s.gateways = Gateways
         /\ \A g \in Gateways : s.gateways[g] # Absent => GatewayAdmitted(s.gateways[g])
         /\ DOMAIN s.routes = Routes
         /\ \A r \in Routes :
              s.routes[r] # Absent => DOMAIN s.routes[r] = RouteFields /\ RouteAdmitted(s.routes[r])
         /\ \A spec \in s.specs : RouteAdmitted(spec)

-----------------------------------------------------------------------------
(* The five kinds of routes.  Their controllers differ in these respects:  *)
(* whether the hostnames are filtered, stale parents pruned and references *)
(* of rules resolved (HTTPRoute only), whether the status tells why a      *)
(* route was not accepted, whether it names the section, whether a parent  *)
(* is looked up in the status by its section too, and whether the status   *)
(* waits until the route is configured.                                    *)
RouteController(full, section, keyed, waits) ==
    [full |-> full, section |-> section, keyed |-> keyed, waits |-> waits]

HTTPRoute == RouteController(TRUE, TRUE, TRUE, FALSE)
GRPCRoute == RouteController(FALSE, TRUE, TRUE, FALSE)
TLSRoute  == RouteController(FALSE, TRUE, FALSE, FALSE)
TCPRoute  == RouteController(FALSE, FALSE, FALSE, TRUE)
UDPRoute  == RouteController(FALSE, FALSE, FALSE, TRUE)

ControllerOf(kind) ==
    CASE kind = "HTTPRoute" -> HTTPRoute [] kind = "GRPCRoute" -> GRPCRoute
      [] kind = "TLSRoute" -> TLSRoute   [] kind = "TCPRoute" -> TCPRoute
      [] kind = "UDPRoute" -> UDPRoute

KindOf(r) == scenario.kind
Idle == [phase |-> "idle"]

Namespace == "ns"
ClassOurs == class # Absent /\ class.ours
Matches(g) == scenario.only \in {NoGateway, g}
Exists(g) == gateways[g] # Absent
Attached(r, g) == routes[r] # Absent /\ \E i \in DOMAIN routes[r].parents : routes[r].parents[i].gw = g
View(r, obj) == [kind |-> KindOf(r), ns |-> Namespace, hostnames |-> obj.hostnames]

isGatewayAccepted(gw) == gw.accepted = gw.gen
isGatewayProgrammed(gw) == gw.programmed = gw.gen

(* Events.  An update is mapped to requests with the old and the new       *)
(* object; the Gateways a route's status named are kept for an HTTPRoute.  *)
ClassEvent(ours) == [of |-> "GatewayClass", ours |-> ours]
GatewayEvent(g) == [of |-> "Gateway", obj |-> g]

StatusGateways(obj) ==
    IF obj = Absent THEN {} ELSE {obj.status[i].gw : i \in DOMAIN obj.status}
RouteEvent(r, old, new) ==
    [of |-> "Route", obj |-> r, refs |-> {o.parents : o \in {old, new} \ {Absent}},
     parents |-> IF KindOf(r) = "HTTPRoute" THEN StatusGateways(old) \cup StatusGateways(new) ELSE {}]

(* What KongClient.Update takes. *)
Snapshot == [routes |-> routeCache, backend |-> backend, certificates |-> references,
             gateways |-> IF scenario.kind = "HTTPRoute" THEN {} ELSE gatewayCache]

(* The controllers start in a cluster that has objects already: the        *)
(* informers report each as created.  KongClient may have sent a           *)
(* configuration already, made from an empty cache.                        *)
Init ==
    /\ scenario \in Scenarios
    /\ class = scenario.class /\ gateways = scenario.gateways /\ routes = scenario.routes
    /\ service = scenario.service /\ backend = scenario.backend
    /\ changes = 1 /\ second = 1
    /\ events = (IF class = Absent THEN {} ELSE {ClassEvent(class.ours)})
                \cup {GatewayEvent(g) : g \in {h \in Gateways : Exists(h)}}
                \cup {RouteEvent(r, Absent, routes[r]) : r \in {q \in Routes : routes[q] # Absent}}
    /\ classQueue = FALSE /\ gatewayQueue = {} /\ routeQueue = {}
    /\ gatewayWorker = Idle /\ routeWorker = Idle
    /\ gatewayCache = [g \in Gateways |-> Absent] /\ routeCache = [r \in Routes |-> Absent]
    /\ references = [g \in Gateways |-> {}]
    /\ filter = [r \in Routes |-> Absent]
    /\ applied = IF scenario.updated THEN Snapshot ELSE Absent
    /\ settled = {} /\ missed = {} /\ seen = [g \in Gateways |-> Absent]

-----------------------------------------------------------------------------
(* A reconciliation that asks to be repeated is, after a while.  A         *)
(* repetition that would read what the last one read is left out: it would *)
(* do the same.                                                            *)
Reading == {w.obj : w \in {gatewayWorker, routeWorker} \ {Idle}}
Settle ==
    LET reading == Reading'
        ended == Reading \ reading
    IN settled' = IF inputs' # inputs THEN {}
                  ELSE (settled \cup (reading \ Reading)) \ (ended \ (gatewayQueue' \cup routeQueue'))

-----------------------------------------------------------------------------
(* The users of the cluster *)
Changed ==
    /\ changes < scenario.changes
    /\ changes' = changes + 1
    /\ UNCHANGED <<scenario, second, queueVars, gatewayWorker, routeWorker, cacheVars, reportVars,
                   missed, seen>>
    /\ Settle

CreateClass(ours, unmanaged) ==
    /\ class = Absent
    /\ class' = [ver |-> changes + 1, gen |-> 1, ours |-> ours, unmanaged |-> unmanaged, accepted |-> 0]
    /\ events' = events \cup {ClassEvent(ours)}
    /\ UNCHANGED <<gateways, routes, service, backend>> /\ Changed

DeleteClass ==
    /\ class # Absent
    /\ class' = Absent
    /\ events' = events \cup {ClassEvent(class.ours)}
    /\ UNCHANGED <<gateways, routes, service, backend>> /\ Changed

GatewayChanges(g, new) ==
    /\ gateways' = [gateways EXCEPT ![g] = new]
    /\ events' = events \cup {GatewayEvent(g)}
    /\ UNCHANGED <<class, routes, service, backend>> /\ Changed

CreateGateway(g, listeners) ==
    /\ ~Exists(g)
    /\ GatewayChanges(g, [ver |-> changes + 1, gen |-> 1, ns |-> Namespace, annotated |-> FALSE,
                          listeners |-> listeners, deleting |-> FALSE, accepted |-> 0,
                          programmed |-> 0, status |-> <<>>, stamp |-> 0])

UpdateGateway(g, listeners) ==
    /\ Exists(g) /\ gateways[g].listeners # listeners
    /\ GatewayChanges(g, [gateways[g] EXCEPT !.ver = changes + 1, !.gen = @ + 1, !.listeners = listeners])

MarkGatewayDeleted(g) ==
    /\ Exists(g) /\ ~gateways[g].deleting
    /\ GatewayChanges(g, [gateways[g] EXCEPT !.ver = changes + 1, !.deleting = TRUE])

DeleteGateway(g) == Exists(g) /\ GatewayChanges(g, Absent)

RouteChanges(r, new) ==
    /\ routes' = [routes EXCEPT ![r] = new]
    /\ events' = events \cup {RouteEvent(r, routes[r], new)}
    /\ UNCHANGED <<class, gateways, service, backend>> /\ Changed

CreateRoute(r, spec) ==
    /\ routes[r] = Absent
    /\ RouteChanges(r, [ver |-> changes + 1, gen |-> 1, uid |-> changes + 1, parents |-> spec.parents,
                        deleting |-> FALSE, hostnames |-> spec.hostnames, status |-> scenario.foreign])

UpdateRoute(r, spec) ==
    /\ routes[r] # Absent /\ ~routes[r].deleting
    /\ <<routes[r].parents, routes[r].hostnames>> # <<spec.parents, spec.hostnames>>
    /\ RouteChanges(r, [routes[r] EXCEPT !.ver = changes + 1, !.gen = @ + 1,
                                         !.parents = spec.parents, !.hostnames = spec.hostnames])

MarkRouteDeleted(r) ==
    /\ routes[r] # Absent /\ ~routes[r].deleting
    /\ RouteChanges(r, [routes[r] EXCEPT !.ver = changes + 1, !.deleting = TRUE])

DeleteRoute(r) == routes[r] # Absent /\ RouteChanges(r, Absent)

(* listGatewaysForService: it collects the Gateways and returns nil, so    *)
(* that an event of the publish Service wakes none.                        *)
ChangeService(s) ==
    /\ s # service
    /\ service' = s
    /\ UNCHANGED <<class, gateways, routes, backend, events>> /\ Changed

(* No route controller watches Services. *)
ChangeBackend ==
    /\ backend' = ~backend
    /\ UNCHANGED <<class, gateways, routes, service, events>> /\ Changed

(* Time passes.  Conditions carry it in seconds. *)
Tick ==
    /\ second < scenario.seconds
    /\ second' = second + 1
    /\ UNCHANGED <<scenario, objectVars, service, backend, changes, events, queueVars, gatewayWorker,
                   routeWorker, cacheVars, reportVars, missed, seen>>
    /\ Settle

-----------------------------------------------------------------------------
(* isRouteAttachedToReconciledGateway: the first parent that cannot be     *)
(* read settles it, and so does the first that is ours.                    *)
isRouteAttachedToReconciledGateway(parents) ==
    IF scenario.only # NoGateway THEN \E i \in DOMAIN parents : parents[i].gw = scenario.only
    ELSE /\ ClassOurs
         /\ parents # <<>> /\ Exists(parents[1].gw)

(* What an event makes the controllers look at. *)
listGatewaysForGatewayClass(e) == IF e.ours THEN {g \in Gateways : Exists(g) /\ Matches(g)} ELSE {}
gatewayHasMatchingGatewayClass(g) == Matches(g) /\ ClassOurs
listGatewaysForHTTPRoute(e) == {g \in Gateways : g \in e.parents /\ Matches(g)}

listHTTPRoutesForGatewayClass(e) ==
    IF e.ours THEN {r \in Routes : \E g \in Gateways : Exists(g) /\ Matches(g) /\ Attached(r, g)} ELSE {}
listHTTPRoutesForGateway(g) == IF Matches(g) THEN {r \in Routes : Attached(r, g)} ELSE {}
RoutesOfEvent(e) ==
    IF \E parents \in e.refs : isRouteAttachedToReconciledGateway(parents) THEN {e.obj} ELSE {}

GatewaysWoken(e) ==
    CASE e.of = "GatewayClass" -> listGatewaysForGatewayClass(e)
      [] e.of = "Gateway" -> {g \in {e.obj} : gatewayHasMatchingGatewayClass(g)}
      [] e.of = "Route" -> listGatewaysForHTTPRoute(e)

RoutesWoken(e) ==
    CASE e.of = "GatewayClass" -> listHTTPRoutesForGatewayClass(e)
      [] e.of = "Gateway" -> listHTTPRoutesForGateway(e.obj)
      [] e.of = "Route" -> RoutesOfEvent(e)

(* An informer delivers what it has, to all that watch it.  The delays of  *)
(* the watchers are those of their work queues.                            *)
Deliver(of) ==
    LET delivered == {e \in events : e.of = of}
        woken == UNION {GatewaysWoken(e) \cup RoutesWoken(e) : e \in delivered}
        about == IF of = "GatewayClass" THEN {} ELSE {e.obj : e \in delivered}
    IN /\ delivered # {}
       /\ events' = events \ delivered
       /\ classQueue' = (classQueue \/ \E e \in delivered : of = "GatewayClass" /\ e.ours)
       /\ gatewayQueue' = gatewayQueue \cup UNION {GatewaysWoken(e) : e \in delivered}
       /\ routeQueue' = routeQueue \cup UNION {RoutesWoken(e) : e \in delivered}
       /\ missed' = (missed \cup about) \ woken
       /\ UNCHANGED <<scenario, clusterVars, gatewayWorker, routeWorker, cacheVars, reportVars, seen>>
       /\ Settle

Informers == {"GatewayClass", "Gateway", "Route"}

-----------------------------------------------------------------------------
(* GatewayClassReconciler.Reconcile *)
ReconcileClass ==
    /\ classQueue
    /\ classQueue' = FALSE
    /\ IF ClassOurs /\ class.accepted # class.gen
       THEN class' = [class EXCEPT !.accepted = class.gen] /\ events' = events \cup {ClassEvent(TRUE)}
       ELSE UNCHANGED <<class, events>>
    /\ UNCHANGED <<scenario, gateways, routes, service, backend, changes, second, gatewayQueue, routeQueue,
                   gatewayWorker, routeWorker, cacheVars, reportVars, missed, seen>>
    /\ Settle

-----------------------------------------------------------------------------
(* GatewayReconciler.Reconcile *)
gatewayUnchanged == /\ UNCHANGED <<scenario, class, routes, service, backend, changes, second, classQueue,
                                   routeQueue, routeWorker, routeCache, reportVars, missed>>
                    /\ Settle

(* A Gateway that is gone or not ours is dropped, with its references. *)
StartGateway(g) ==
    LET gone == ~Exists(g) \/ ~ClassOurs
    IN /\ gatewayWorker = Idle /\ g \in gatewayQueue \ settled
       /\ gatewayQueue' = gatewayQueue \ {g}
       /\ gatewayWorker' = IF ~Matches(g) \/ gone \/ gateways[g].deleting THEN Idle
                           ELSE [phase |-> "read", obj |-> g, copy |-> gateways[g],
                                 unmanaged |-> class.unmanaged]
       /\ references' = IF Matches(g) /\ gone THEN [references EXCEPT ![g] = {}] ELSE references
       /\ gatewayCache' = IF Matches(g) /\ gone THEN [gatewayCache EXCEPT ![g] = Absent] ELSE gatewayCache
       /\ UNCHANGED <<gateways, events, seen>> /\ gatewayUnchanged

listSecretNamesReferredByGateway(gw) ==
    UNION {{<<IF cert.ns = OwnNamespace THEN Namespace ELSE cert.ns, cert.name>> :
              cert \in {gw.listeners[i].certs[j] : j \in DOMAIN gw.listeners[i].certs}} :
             i \in DOMAIN gw.listeners}

(* Mutant: a Gateway that is in the cache already is left as it is. *)
KeepCachedGateway(g, gw) ==
    /\ gatewayCache' = [gatewayCache EXCEPT ![g] = IF @ = Absent THEN gw.ver ELSE @]
    /\ UNCHANGED <<references, gatewayQueue>>

(* UpdateReferencesToSecret visits the names in any order and stops at the *)
(* first whose Secret does not exist, before outdated references are       *)
(* removed; that reference is set.                                         *)
UpdateReferencesToSecret(g, names) ==
    LET missing == {n \in names : SecretStates[n] = "missing"}
    IN IF missing = {} THEN references' = [references EXCEPT ![g] = names]
       ELSE \E first \in missing : \E found \in SUBSET (names \ missing) :
              references' = [references EXCEPT ![g] = @ \cup found \cup {first}]

(* An accepted Gateway goes into the object cache, and the Secrets it      *)
(* names into the reference cache; while one does not exist the            *)
(* reconciliation is repeated.                                             *)
UpdateGatewayInDataplane(g, gw) ==
    LET names == listSecretNamesReferredByGateway(gw)
    IN IF isGatewayAccepted(gw)
       THEN /\ gatewayCache' = [gatewayCache EXCEPT ![g] = gw.ver]
            /\ UpdateReferencesToSecret(g, names)
            /\ gatewayQueue' = IF \E n \in names : SecretStates[n] = "missing"
                               THEN gatewayQueue \cup {g} ELSE gatewayQueue
       ELSE UNCHANGED <<gatewayCache, references, gatewayQueue>>

GatewayFails(g) ==
    /\ gatewayQueue' = gatewayQueue \cup {g}
    /\ UNCHANGED <<gateways, events, gatewayCache, references>>

(* Writes the Gateway and goes on with what was written; the API server    *)
(* sends no event when nothing changes.                                    *)
Stored(g, new) ==
    /\ gateways' = [gateways EXCEPT ![g] = new]
    /\ events' = IF new = gateways[g] THEN events ELSE events \cup {GatewayEvent(g)}
    /\ UpdateGatewayInDataplane(g, new)

(* A refused write ends the reconciliation, and it is done again. *)
WriteGateway(written) ==
    LET g == gatewayWorker.obj
    IN /\ IF gateways[g] = gatewayWorker.copy THEN Stored(g, written) ELSE GatewayFails(g)
       /\ UNCHANGED seen

(* A write of the listeners that is refused because the Gateway has        *)
(* changed asks for a repetition, which the caller drops: it goes on with  *)
(* the copy that was not written.                                          *)
WriteListeners(written) ==
    LET g == gatewayWorker.obj
    IN IF gateways[g] = gatewayWorker.copy
       THEN \E new \in {written} : Stored(g, new) /\ seen' = [seen EXCEPT ![g] = service]
       ELSE /\ IF Exists(g) THEN UpdateGatewayInDataplane(g, written) /\ UNCHANGED <<gateways, events>>
               ELSE GatewayFails(g)
            /\ UNCHANGED seen

KongPorts(svc) ==
    determineListenersFromDataPlane(determineL4ListenersFromService(PublishService[svc]), Kong)

(* getAttachedRoutesForListener: HTTPRoutes only, one for every parentRef, *)
(* of the routes whose status names the Gateway.                           *)
getAttachedRoutesForListener(g, gw, i) ==
    Cardinality({x \in Routes \X {1, 2} :
        /\ KindOf(x[1]) = "HTTPRoute" /\ routes[x[1]] # Absent /\ g \in StatusGateways(routes[x[1]])
        /\ x[2] \in DOMAIN routes[x[1]].parents
        /\ isRouteAcceptedByListener(gw, View(x[1], routes[x[1]]), routes[x[1]].parents[x[2]], i)})

(* Mutant: the routes are counted once, when the Gateway is programmed. *)
ListenersCountedOnce(g, gw) ==
    IF isGatewayProgrammed(gw) /\ gw.status # <<>> THEN gw.status
    ELSE getListenerStatus(gw, KongPorts(service), Grants, SecretStates, [i \in DOMAIN gw.listeners |-> 0])

ListenersNow(g, gw) ==
    getListenerStatus(gw, KongPorts(service), Grants, SecretStates,
                      [i \in DOMAIN gw.listeners |-> getAttachedRoutesForListener(g, gw, i)])

(* reconcileUnmanagedGateway: first the annotation, then the acceptance,   *)
(* then the listeners; each write is followed by an event and a new        *)
(* reconciliation.  Without the publish Service it is an error.  The       *)
(* listeners' conditions carry the time with its fraction, which a stored  *)
(* status has lost, so that a status that says the same is written anyway. *)
reconcileUnmanagedGateway ==
    LET g == gatewayWorker.obj
        copy == gatewayWorker.copy
        now == ListenersNow(g, copy)
    IN IF ~copy.annotated THEN WriteGateway([copy EXCEPT !.annotated = TRUE])
       ELSE IF service = Absent THEN GatewayFails(g) /\ UNCHANGED seen
       ELSE IF ~isGatewayAccepted(copy)
            THEN WriteGateway([copy EXCEPT !.accepted = copy.gen, !.programmed = 0])
       ELSE IF ~isGatewayProgrammed(copy)
            THEN WriteListeners([copy EXCEPT !.status = now, !.stamp = second, !.programmed = copy.gen])
       ELSE WriteListeners([copy EXCEPT !.status = now, !.stamp = second])

ReconcileGateway ==
    /\ gatewayWorker # Idle
    /\ IF gatewayWorker.unmanaged THEN reconcileUnmanagedGateway
       ELSE /\ UpdateGatewayInDataplane(gatewayWorker.obj, gatewayWorker.copy)
            /\ UNCHANGED <<gateways, events, seen>>
    /\ gatewayWorker' = Idle
    /\ gatewayUnchanged

(* A managed Gateway is accepted and programmed by the operator. *)
OperatorNeeded(g) ==
    /\ Exists(g) /\ ClassOurs /\ ~class.unmanaged /\ service # Absent
    /\ ~isGatewayProgrammed(gateways[g]) \/ gateways[g].status # ListenersNow(g, gateways[g])

OperatorProgramsGateway(g) ==
    /\ OperatorNeeded(g)
    /\ gateways' = [gateways EXCEPT ![g].accepted = gateways[g].gen, ![g].programmed = gateways[g].gen,
                                    ![g].status = ListenersNow(g, gateways[g])]
    /\ events' = events \cup {GatewayEvent(g)} /\ seen' = [seen EXCEPT ![g] = service]
    /\ UNCHANGED <<gatewayQueue, gatewayWorker, gatewayCache, references>> /\ gatewayUnchanged

-----------------------------------------------------------------------------
(* A route controller's Reconcile *)
routeUnchanged == /\ UNCHANGED <<scenario, class, gateways, service, backend, changes, second, classQueue,
                                 gatewayQueue, gatewayWorker, gatewayCache, references, reportVars,
                                 missed, seen>>
                  /\ Settle

(* getSupportedGatewayForRoute: the parents that exist and are ours, by    *)
(* their numbers, and whether each accepts the route.                      *)
OurParents(obj) ==
    {i \in DOMAIN obj.parents :
        Exists(obj.parents[i].gw) /\ ClassOurs /\ Matches(obj.parents[i].gw)}
getSupportedGatewayForRoute(r, obj) ==
    [i \in OurParents(obj) |->
        LET ref == obj.parents[i]
        IN [gw |-> ref.gw, section |-> ref.section,
            reason |-> AcceptedReason(gateways[ref.gw], View(r, obj), ref),
            programmed |-> isGatewayProgrammed(gateways[ref.gw])]]


(* A parent in the status that the route does not name any more.  The      *)
(* status never has the port of the parentRef.                             *)
Stale(parents, p) ==
    \A i \in DOMAIN parents :
        <<parents[i].gw, parents[i].section, parents[i].port>> # <<p.gw, p.section, NoPort>>

(* ensureNoStaleParentStatus removes from the slice it ranges over: after  *)
(* a removal the next element is skipped.                                  *)
ensureNoStaleParentStatus(obj) ==
    LET visit(i, status) ==
          IF i <= Len(status) /\ status[i].ours /\ Stale(obj.parents, status[i])
          THEN SubSeq(status, 1, i - 1) \o SubSeq(status, i + 1, Len(status)) ELSE status
        after[i \in 0..Len(obj.status)] ==
          IF i = 0 THEN obj.status ELSE TheOnly({visit(i, status) : status \in {after[i - 1]}})
    IN after[Len(obj.status)]

HasStale(r, obj) == ControllerOf(KindOf(r)).full /\ ensureNoStaleParentStatus(obj) # obj.status

(* What a worker has of a route once it has read it and its Gateways.  One *)
(* whose Gateways are not programmed yet is tried again.                   *)
RouteRead(r, obj, gws) ==
    LET parents == [i \in DOMAIN gws |-> [gw |-> gateways[gws[i].gw], section |-> gws[i].section]]
        filtered == IF ControllerOf(KindOf(r)).full THEN filterHostnames(parents, obj.hostnames)
                    ELSE [hostnames |-> obj.hostnames, match |-> TRUE]
    IN [phase |-> IF DOMAIN gws = {} THEN "orphan" ELSE IF HasStale(r, obj) THEN "stale"
                  ELSE IF \E i \in DOMAIN gws : ~gws[i].programmed THEN "wait" ELSE "write",
        obj |-> r, copy |-> obj, gws |-> gws, filtered |-> filtered]

(* A route that is gone leaves the cache at once. *)
StartRoute(r) ==
    LET obj == routes[r]
        gone == obj = Absent \/ obj.deleting
    IN /\ routeWorker = Idle /\ r \in routeQueue \ settled
       /\ routeQueue' = routeQueue \ {r}
       /\ IF gone
          THEN routeWorker' = Idle /\ routeCache' = [routeCache EXCEPT ![r] = Absent]
          ELSE /\ \E gws \in {getSupportedGatewayForRoute(r, obj)} : routeWorker' = RouteRead(r, obj, gws)
               /\ UNCHANGED routeCache
       /\ UNCHANGED <<routes, events>> /\ routeUnchanged

Retry(r) == routeQueue' = routeQueue \cup {r} /\ UNCHANGED <<routes, events>>

(* Status().Update; when it is refused, the reconciliation is done again. *)
UpdateRouteStatus(written) ==
    LET r == routeWorker.obj
    IN IF routes[r] = routeWorker.copy
       THEN \E status \in {written} :
              /\ routes' = [routes EXCEPT ![r].status = status]
              /\ events' = events \cup {RouteEvent(r, routes[r], [routes[r] EXCEPT !.status = status])}
              /\ UNCHANGED routeQueue
       ELSE Retry(r)

(* ensureGatewayReferenceStatusRemoved: a route that has no Gateway of     *)
(* ours any more loses our part of its status, then its place in the cache.*)
ensureGatewayReferenceStatusRemoved ==
    LET kept == SelectSeq(routeWorker.copy.status, LAMBDA p : ~p.ours)
        refused == kept # routeWorker.copy.status /\ routes[routeWorker.obj] # routeWorker.copy
    IN /\ IF kept = routeWorker.copy.status THEN UNCHANGED <<routes, events, routeQueue>>
          ELSE UpdateRouteStatus(kept)
       /\ routeCache' = IF refused THEN routeCache ELSE [routeCache EXCEPT ![routeWorker.obj] = Absent]

PruneStaleParents ==
    /\ UpdateRouteStatus(ensureNoStaleParentStatus(routeWorker.copy))
    /\ UNCHANGED routeCache

(* KubernetesObjectConfigurationStatus *)
ConfigurationStatus(r, gen) ==
    IF filter[r] = Absent \/ filter[r].gen < gen THEN "Unknown"
    ELSE IF filter[r].ver \in scenario.broken THEN "Failed" ELSE "Succeeded"

isRouteAccepted(gws) == \E i \in DOMAIN gws : gws[i].reason = "Accepted"

-----------------------------------------------------------------------------
(* The status of a route: a parent's conditions.                           *)
With(c, gen) == [type |-> c.type, status |-> c.status, reason |-> c.reason, gen |-> gen]
HasType(p, type) == \E c \in p.conditions : c.type = type
SetCondition(p, c) == [p EXCEPT !.conditions = {d \in @ : d.type # c.type} \cup {c}]

(* routeParentStatusKey *)
routeParentStatusKey(kind, p) == IF ControllerOf(kind).keyed THEN <<p.gw, p.section>> ELSE <<p.gw>>

(* getParentStatuses: the last entry of a key counts. *)
getParentStatuses(kind, status) ==
    [k \in {routeParentStatusKey(kind, status[i]) : i \in DOMAIN status} |->
        LET with == {i \in DOMAIN status : routeParentStatusKey(kind, status[i]) = k}
        IN status[CHOOSE i \in with : \A j \in with : j <= i]]

(* The parent status a controller wants for a Gateway. *)
WantedParent(kind, gw, gen) ==
    LET accepted == ~ControllerOf(kind).full \/ gw.reason = "Accepted"
    IN [gw |-> gw.gw, ours |-> TRUE,
        section |-> IF ControllerOf(kind).section THEN gw.section ELSE NoSection,
        conditions |-> {With(Condition("Accepted", IF accepted THEN "True" ELSE "False",
                                       IF accepted THEN "Accepted" ELSE gw.reason), gen)}]

SameParent(p, q) == p.gw = q.gw /\ p.section = q.section /\ p.ours = q.ours

(* The parents after every supported Gateway's was put over the old one,   *)
(* unless that says the same.                                              *)
OverlayParents(kind, obj, gws) ==
    LET put(m, k, p) ==
          IF k \in DOMAIN m /\ SameParent(m[k], p) /\ p.conditions \subseteq m[k].conditions THEN m
          ELSE [j \in DOMAIN m \cup {k} |-> IF j = k THEN p ELSE m[j]]
        after[i \in 0..Len(obj.parents)] ==
          IF i = 0 THEN getParentStatuses(kind, obj.status)
          ELSE IF i \notin DOMAIN gws THEN after[i - 1]
          ELSE TheOnly({put(m, routeParentStatusKey(kind, gws[i]), WantedParent(kind, gws[i], obj.gen)) :
                          m \in {after[i - 1]}})
    IN after[Len(obj.parents)]

(* Mutant: a condition that is there is left alone. *)
KeepResolvedRefs(p, gen) ==
    IF HasType(p, "ResolvedRefs") THEN p
    ELSE SetCondition(p, With(Condition("ResolvedRefs", IF backend THEN "True" ELSE "False",
                                        IF backend THEN "ResolvedRefs" ELSE "BackendNotFound"), gen))

(* setRouteConditionResolvedRefsCondition; getHTTPRouteRuleReason is the   *)
(* reason.  A condition that says the same keeps its generation.           *)
setRouteConditionResolvedRefsCondition(p, gen) ==
    LET c == Condition("ResolvedRefs", IF backend THEN "True" ELSE "False",
                       IF backend THEN "ResolvedRefs" ELSE "BackendNotFound")
    IN IF \E d \in p.conditions : <<d.type, d.status, d.reason>> = <<c.type, c.status, c.reason>>
       THEN p ELSE SetCondition(p, With(c, gen))

WithProgrammedUnknown(p, gen) ==
    IF HasType(p, "Programmed") THEN p
    ELSE SetCondition(p, With(Condition("Programmed", "Unknown", "Unknown"), gen))

(* ensureGatewayReferenceStatusAdded: the parents, keyed.  All parents in  *)
(* the status get the conditions, those of other controllers included.     *)
ParentsAdded(kind, obj, gws) ==
    LET resolved(p) == IF ControllerOf(kind).full
                       THEN setRouteConditionResolvedRefsCondition(p, obj.gen) ELSE p
    IN TheOnly({[k \in DOMAIN m |-> WithProgrammedUnknown(resolved(m[k]), obj.gen)] :
                  m \in {OverlayParents(kind, obj, gws)}})

(* A map becomes a slice in any order. *)
Orders(m) == {s \in [1..Cardinality(DOMAIN m) -> {m[k] : k \in DOMAIN m}] :
                {s[i] : i \in DOMAIN s} = {m[k] : k \in DOMAIN m}}

(* isParentRefEqualToParent: an entry without a section is taken for any   *)
(* section.                                                                *)
isParentRefEqualToParent(p, gw) == p.gw = gw.gw /\ p.section \in {NoSection, gw.section}

(* setRouteParentInStatusForParent: the first entry that is the parent's   *)
(* is overwritten.                                                         *)
setRouteParentInStatusForParent(status, p, gw) ==
    LET same == {i \in DOMAIN status : isParentRefEqualToParent(status[i], gw)}
    IN IF same = {} THEN Append(status, p)
       ELSE [status EXCEPT ![CHOOSE i \in same : \A j \in same : i <= j] = p]

(* ensureParentsProgrammedCondition, over the supported Gateways. *)
ParentsProgrammed(kind, obj, gws, c) ==
    LET put(status, old, gw) ==
          LET k == routeParentStatusKey(kind, gw)
          IN IF k \notin DOMAIN old
             THEN setRouteParentInStatusForParent(status,
                      [gw |-> gw.gw, section |-> gw.section, ours |-> TRUE, conditions |-> {c}], gw)
             ELSE IF c \in old[k].conditions THEN status
             ELSE setRouteParentInStatusForParent(status, SetCondition(old[k], c), gw)
        after[i \in 0..Len(obj.parents)] ==
          IF i = 0 THEN obj.status
          ELSE IF i \notin DOMAIN gws THEN after[i - 1]
          ELSE TheOnly({put(status, getParentStatuses(kind, obj.status), gws[i]) :
                          status \in {after[i - 1]}})
    IN after[Len(obj.parents)]

(* The condition Programmed is written once the update loop reported what  *)
(* became of the route; until then the reconciliation is repeated.         *)
ensureParentsProgrammedCondition ==
    LET r == routeWorker.obj
        copy == routeWorker.copy
    IN \E status \in {ConfigurationStatus(r, copy.gen)} :
         \E c \in {With(IF status = "Failed" THEN Condition("Programmed", "False", "TranslationError")
                        ELSE Condition("Programmed", "True", "ConfiguredInGateway"), copy.gen)} :
           \E new \in {ParentsProgrammed(KindOf(r), copy, routeWorker.gws, c)} :
             IF status = "Unknown" \/ (status = "Failed" /\ new = copy.status) THEN Retry(r)
             ELSE IF new = copy.status THEN UNCHANGED <<routes, events, routeQueue>>
             ELSE UpdateRouteStatus(new)

(* A route in the object cache: HTTPRoutes with the hostnames that are     *)
(* left of theirs.                                                         *)
RouteEntry(obj, hostnames) ==
    [ver |-> obj.ver, gen |-> obj.gen, uid |-> obj.uid, parents |-> obj.parents, hostnames |-> hostnames]

(* Mutant: a route that is not accepted is left where it is. *)
WriteAccepted(accepted) ==
    [routeCache EXCEPT ![routeWorker.obj] =
        IF accepted THEN RouteEntry(routeWorker.copy, routeWorker.filtered.hostnames) ELSE @]

(* The route goes into the object cache, or out of it when no parent       *)
(* accepts it.                                                             *)
WriteRoute(accepted) ==
    [routeCache EXCEPT ![routeWorker.obj] =
        IF accepted THEN RouteEntry(routeWorker.copy, routeWorker.filtered.hostnames) ELSE Absent]

(* Then its status.  TCPRoutes and UDPRoutes wait until they are           *)
(* configured.                                                             *)
ProgramRoute ==
    LET r == routeWorker.obj
        copy == routeWorker.copy
        accepted == isRouteAccepted(routeWorker.gws) /\ routeWorker.filtered.match
    IN /\ routeCache' = WriteRoute(accepted)
       /\ IF accepted /\ ControllerOf(KindOf(r)).waits /\ ConfigurationStatus(r, copy.gen) # "Succeeded"
          THEN Retry(r)
          ELSE \E added \in {ParentsAdded(KindOf(r), copy, routeWorker.gws)} :
                 IF added # getParentStatuses(KindOf(r), copy.status)
                 THEN \E status \in Orders(added) : UpdateRouteStatus(status)
                 ELSE ensureParentsProgrammedCondition

ReconcileRoute ==
    /\ routeWorker # Idle
    /\ CASE routeWorker.phase = "orphan" -> ensureGatewayReferenceStatusRemoved
         [] routeWorker.phase = "stale" -> PruneStaleParents
         [] routeWorker.phase = "wait" -> Retry(routeWorker.obj) /\ UNCHANGED routeCache
         [] routeWorker.phase = "write" -> ProgramRoute
    /\ routeWorker' = Idle
    /\ routeUnchanged

-----------------------------------------------------------------------------
(* What Kong's configuration has of a route: nothing, when it fails to     *)
(* translate.                                                              *)
Translation(entry, resolved) ==
    IF entry = Absent \/ entry.ver \in scenario.broken THEN Absent
    ELSE [uid |-> entry.uid, hostnames |-> entry.hostnames, backend |-> resolved]
Configuration(snapshot) == [r \in Routes |-> Translation(snapshot.routes[r], snapshot.backend)]

(* Certificates, and the ports and protocols that routes other than        *)
(* HTTPRoutes take from their Gateways, are not modelled: when one of them *)
(* may have changed the configuration, it has or it has not.               *)
MayDiffer(s, t) ==
    \/ s.certificates # t.certificates \/ s.gateways # t.gateways
    \/ \E r \in Routes : /\ KindOf(r) # "HTTPRoute" /\ Absent \notin {s.routes[r], t.routes[r]}
                         /\ s.routes[r].parents # t.routes[r].parents

(* An update takes what is in the cache.  When the configuration made from *)
(* it is not the one sent last, which the SHAs tell, it replaces the       *)
(* filter and wakes the routes in it.                                      *)
triggerKubernetesObjectReport ==
    LET first == applied = Absent
        differs == first \/ Configuration(applied) # Configuration(Snapshot)
    IN /\ applied # Snapshot
       /\ applied' = Snapshot
       /\ \E report \in {differs, differs \/ MayDiffer(applied, Snapshot)} :
            IF report
            THEN /\ filter' = [r \in Routes |-> IF routeCache[r] = Absent THEN Absent
                                 ELSE [ver |-> routeCache[r].ver, gen |-> routeCache[r].gen,
                                       conf |-> Translation(routeCache[r], backend)]]
                 /\ routeQueue' = routeQueue \cup {r \in Routes : routeCache[r] # Absent}
            ELSE UNCHANGED <<filter, routeQueue>>
       /\ UNCHANGED <<scenario, clusterVars, events, classQueue, gatewayQueue, gatewayWorker, routeWorker,
                      cacheVars, missed, seen>>
       /\ Settle

-----------------------------------------------------------------------------
Users ==
    \/ \E ours, unmanaged \in BOOLEAN :
         <<ours, unmanaged>> \in scenario.classes /\ CreateClass(ours, unmanaged)
    \/ scenario.deletes /\ DeleteClass
    \/ \E g \in Gateways : \E ls \in scenario.listeners :
         (g \in scenario.creates /\ CreateGateway(g, ls)) \/ UpdateGateway(g, ls)
    \/ \E g \in Gateways : scenario.deletes /\ DeleteGateway(g)
    \/ \E g \in Gateways : scenario.marks /\ MarkGatewayDeleted(g)
    \/ \E r \in Routes : \E spec \in scenario.specs : CreateRoute(r, spec) \/ UpdateRoute(r, spec)
    \/ \E r \in Routes : scenario.deletes /\ (MarkRouteDeleted(r) \/ DeleteRoute(r))
    \/ \E s \in scenario.services : ChangeService(s)
    \/ scenario.backends /\ ChangeBackend

GatewayController == (\E g \in Gateways : StartGateway(g)) \/ ReconcileGateway
RouteControllers == (\E r \in Routes : StartRoute(r)) \/ ReconcileRoute

System ==
    \/ \E of \in Informers : Deliver(of)
    \/ ReconcileClass
    \/ \E g \in Gateways : OperatorProgramsGateway(g)
    \/ triggerKubernetesObjectReport

Controllers == System \/ GatewayController \/ RouteControllers

Next == Users \/ Tick \/ Controllers

Spec == Init /\ [][Next]_vars

(* Nothing is left to do for the controllers. *)
Quiescent ==
    /\ events = {} /\ ~classQueue /\ (gatewayQueue \cup routeQueue) \subseteq settled
    /\ gatewayWorker = Idle /\ routeWorker = Idle
    /\ applied = Snapshot
    /\ \A g \in Gateways : ~OperatorNeeded(g)

(* The informers, the workers, the update loop and the operator of managed *)
(* Gateways keep running: weak fairness of Controllers, which is enabled   *)
(* unless Quiescent, and whose steps are those that leave changes and the  *)
(* second alone.                                                           *)
FairSpec == Spec /\ ([]<>Quiescent \/ []<><<UNCHANGED <<changes, second>>>>_vars)

-----------------------------------------------------------------------------
(* Properties *)

SupportedParents(r) ==
    IF routes[r] = Absent THEN {} ELSE OurParents(routes[r])
ReasonOf(r, i) ==
    AcceptedReason(gateways[routes[r].parents[i].gw], View(r, routes[r]), routes[r].parents[i])
GatewaysReady(r) ==
    \A i \in SupportedParents(r) : isGatewayProgrammed(gateways[routes[r].parents[i].gw])
Taken(r) ==
    /\ routes[r] # Absent /\ ~routes[r].deleting
    /\ \E i \in SupportedParents(r) : ReasonOf(r, i) = "Accepted"

HostnamesLeft(r) ==
    LET parents == [i \in SupportedParents(r) |-> [gw |-> gateways[routes[r].parents[i].gw],
                                                   section |-> routes[r].parents[i].section]]
    IN IF ControllerOf(KindOf(r)).full THEN filterHostnames(parents, routes[r].hostnames).hostnames
       ELSE routes[r].hostnames

RightlyCached(r) ==
    /\ SupportedParents(r) = {} => routeCache[r] = Absent
    /\ SupportedParents(r) # {} /\ GatewaysReady(r) =>
         IF Taken(r) THEN routeCache[r] = RouteEntry(routes[r], HostnamesLeft(r))
         ELSE routeCache[r] = Absent

(* When all is processed, a route is in the object cache in its present    *)
(* version when one of its parents, a programmed Gateway of ours, accepts  *)
(* it, and is not there when none does, or when it has no parent of ours   *)
(* any more; a route whose event the predicates of its controller filtered *)
(* out is excepted (Reconcile of the route controllers).                   *)
RoutesServed == Quiescent => \A r \in Routes \ missed : RightlyCached(r)

HasCondition(p, type, status, reason) ==
    \E c \in p.conditions : c.type = type /\ c.status = status /\ c.reason = reason

(* Kong's configuration has of the route what it had at the last report,   *)
(* so that its present generation is not reported.                         *)
Unnoticed(r) ==
    /\ ConfigurationStatus(r, routes[r].gen) = "Unknown"
    /\ Translation(routeCache[r], backend) = IF filter[r] = Absent THEN Absent ELSE filter[r].conf

ParentReported(r, i) ==
    LET ref == routes[r].parents[i]
        full == ControllerOf(KindOf(r)).full
    IN \E j \in DOMAIN routes[r].status :
         LET p == routes[r].status[j]
         IN /\ p.ours /\ p.gw = ref.gw /\ p.section \in {NoSection, ref.section}
            /\ HasCondition(p, "Accepted", IF full /\ ReasonOf(r, i) # "Accepted" THEN "False" ELSE "True",
                            IF full THEN ReasonOf(r, i) ELSE "Accepted")
            /\ full => HasCondition(p, "ResolvedRefs", IF backend THEN "True" ELSE "False",
                                    IF backend THEN "ResolvedRefs" ELSE "BackendNotFound")
            /\ \/ Unnoticed(r)
               \/ HasCondition(p, "Programmed", IF routes[r].ver \in scenario.broken THEN "False" ELSE "True",
                               IF routes[r].ver \in scenario.broken THEN "TranslationError"
                               ELSE "ConfiguredInGateway")

RightlyReported(r) ==
    /\ routes[r] # Absent /\ ~routes[r].deleting /\ SupportedParents(r) = {} =>
         \A j \in DOMAIN routes[r].status : ~routes[r].status[j].ours
    /\ Taken(r) /\ GatewaysReady(r) /\ ~(ControllerOf(KindOf(r)).waits /\ Unnoticed(r)) =>
         \A i \in SupportedParents(r) : ParentReported(r, i)

(* When all is processed, the status of a route tells the truth: for every *)
(* parent of ours whether it accepts the route (HTTPRoutes tell the        *)
(* reason, the others are always accepted), whether its backends resolve,  *)
(* and whether it is programmed or failed to translate; with no parent of  *)
(* ours, the status has none (ensureGatewayReferenceStatusAdded,           *)
(* ensureParentsProgrammedCondition, ensureGatewayReferenceStatusRemoved). *)
(* A route that Kong's configuration has nothing new of is not reported    *)
(* (kong_client.go:514): it is excepted from what it says of Programmed,   *)
(* and a TCPRoute or UDPRoute, which waits for the report, altogether.     *)
StatusTold == Quiescent => \A r \in Routes \ missed : RightlyReported(r)

Attachments(g, i) ==
    {x \in Routes \X {1, 2} :
        /\ routes[x[1]] # Absent /\ KindOf(x[1]) = "HTTPRoute"
        /\ x[2] \in DOMAIN routes[x[1]].parents /\ routes[x[1]].parents[x[2]].gw = g
        /\ isRouteAcceptedByListener(gateways[g], View(x[1], routes[x[1]]), routes[x[1]].parents[x[2]], i)}

OneGateway(r) == routes[r] # Absent =>
    \A i, j \in DOMAIN routes[r].parents : routes[r].parents[i].gw = routes[r].parents[j].gw
Deleting(r) == routes[r] # Absent /\ routes[r].deleting
Managing(g) == Exists(g) /\ ~gateways[g].deleting /\ ClassOurs /\ Matches(g) /\ service # Absent

ListenersWith(svc, g) ==
    getListenerStatus(gateways[g], KongPorts(svc), Grants, SecretStates,
                      [i \in DOMAIN gateways[g].listeners |-> Cardinality(Attachments(g, i))])
Countable(r) == r \notin missed /\ ~Deleting(r) /\ OneGateway(r)

(* When all is processed and the publish Service is there, every Gateway   *)
(* of ours is accepted and programmed in its present generation, and its   *)
(* status has for every listener the conditions it deserves and the number *)
(* of HTTPRoutes attached to it, if none names another Gateway too; what   *)
(* it deserves is judged by the Service as it was when the Gateway was     *)
(* reconciled last (reconcileUnmanagedGateway,                             *)
(* updateAddressesAndListenersStatus, getListenerStatus).                  *)
ListenersReported ==
    Quiescent => \A g \in Gateways : Managing(g) =>
        /\ isGatewayAccepted(gateways[g]) /\ isGatewayProgrammed(gateways[g])
        /\ (\A r \in Routes : Countable(r)) => gateways[g].status = ListenersWith(seen[g], g)

(* When all is processed, the listeners of every Gateway of ours are those *)
(* of the publish Service as it is: "all gateways are updated when the     *)
(* service gets updated with new listeners" (listGatewaysForService,       *)
(* gateway_controller.go:276).                                             *)
ListenersFollowService ==
    Quiescent => \A g \in Gateways :
        Managing(g) /\ (\A r \in Routes : Countable(r)) => gateways[g].status = ListenersWith(service, g)

Missing(g) ==
    {n \in listSecretNamesReferredByGateway(gateways[g]) : SecretStates[n] = "missing"}

(* When all is processed, the Gateways of ours are in the object cache,    *)
(* with the Secrets they name in the reference cache, and no other Gateway *)
(* is; one whose event was filtered out is excepted (Reconcile of the      *)
(* GatewayReconciler).  While a Secret is missing, one that is missing is  *)
(* referred to, outdated references stay, and the Gateway is tried again.  *)
GatewaysServed ==
    Quiescent => \A g \in Gateways \ missed :
        /\ Managing(g) =>
             /\ gatewayCache[g] = gateways[g].ver
             /\ IF Missing(g) = {} THEN references[g] = listSecretNamesReferredByGateway(gateways[g])
                ELSE Missing(g) \cap references[g] # {} /\ g \in gatewayQueue
        /\ ~(Exists(g) /\ ClassOurs /\ Matches(g)) => gatewayCache[g] = Absent /\ references[g] = {}

=============================================================================
