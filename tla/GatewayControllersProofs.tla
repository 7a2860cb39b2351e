----------------------- MODULE GatewayControllersProofs -----------------------
(***************************************************************************)
(* What the Gateway API controllers leave behind when they come to rest,   *)
(* for every set of Gateways, routes and scenarios and any number of       *)
(* changes.                                                                *)
(*                                                                         *)
(* The properties speak of states in which all is processed.  What is true *)
(* before is that whatever changed is still on its way: for every Gateway  *)
(* and every route, either there is news of it (an event that is not       *)
(* delivered, or a request that is not taken up), or its last event was    *)
(* filtered out, or it is handled, that is, its worker has read it as it   *)
(* is, or no worker has it and the caches are right (GatewayInv,           *)
(* RouteInv).  An object that counts as settled is handled.                *)
(***************************************************************************)
EXTENDS GatewayControllers, TLAPS

(* Most leaves are about sets, functions and records; those that need      *)
(* more than Zenon finds name SMT.                                         *)
USE Zenon

-----------------------------------------------------------------------------
(* Types: what the steps need to know of the state. *)

RouteOK(obj) == DOMAIN obj = RouteFields /\ RouteAdmitted(obj)

TypeOK ==
    /\ scenario \in Scenarios
    /\ class # Absent => ClassAdmitted(class)
    /\ \A e \in events : /\ e.of = "Gateway" => e.obj \in Gateways /\ e = GatewayEvent(e.obj)
                         /\ e.of = "Route" => e.obj \in Routes
    /\ DOMAIN gateways = Gateways
    /\ \A g \in Gateways : Exists(g) => GatewayAdmitted(gateways[g])
    /\ DOMAIN routes = Routes
    /\ \A r \in Routes : routes[r] # Absent => RouteOK(routes[r])
    /\ DOMAIN gatewayCache = Gateways /\ DOMAIN references = Gateways /\ DOMAIN routeCache = Routes
    /\ gatewayWorker # Idle =>
         /\ gatewayWorker.obj \in Gateways /\ Matches(gatewayWorker.obj)
         /\ gatewayWorker.copy # Absent /\ GatewayAdmitted(gatewayWorker.copy)
    /\ routeWorker # Idle =>
         /\ routeWorker.obj \in Routes /\ routeWorker.phase \in {"orphan", "stale", "wait", "write"}
         /\ routeWorker.copy # Absent /\ RouteOK(routeWorker.copy)

WorkingOn(worker, x) == worker # Idle /\ worker.obj = x

-----------------------------------------------------------------------------
(* Gateways *)

Ours(g) == Exists(g) /\ ClassOurs /\ Matches(g)

(* Something is under way that will make the controller look at g. *)
GatewayNews(g) ==
    \/ GatewayEvent(g) \in events
    \/ ClassEvent(TRUE) \in events /\ Exists(g) /\ Matches(g)
    \/ g \in gatewayQueue \ settled

(* The worker has read g as it is. *)
GatewayCurrent(g) ==
    /\ Ours(g) /\ ~gateways[g].deleting
    /\ gatewayWorker.copy = gateways[g] /\ gatewayWorker.unmanaged = class.unmanaged

(* The caches have what they should have of g, or g waits for the publish  *)
(* Service or for the operator.  With a Secret missing g waits, too.       *)
ReferencesServed(g) ==
    IF Missing(g) = {} THEN references[g] = listSecretNamesReferredByGateway(gateways[g])
    ELSE Missing(g) \cap references[g] # {} /\ g \in gatewayQueue

GatewayServed(g) ==
    /\ ~Ours(g) => gatewayCache[g] = Absent /\ references[g] = {}
    /\ Ours(g) /\ ~gateways[g].deleting =>
         \/ /\ gatewayCache[g] = gateways[g].ver /\ ReferencesServed(g)
            /\ class.unmanaged => isGatewayAccepted(gateways[g]) /\ isGatewayProgrammed(gateways[g])
         \/ class.unmanaged /\ service = Absent /\ g \in gatewayQueue
         \/ ~class.unmanaged /\ ~isGatewayAccepted(gateways[g])

(* A Gateway that is not to be reconciled never gets into the caches. *)
OnlyMatching ==
    \A g \in Gateways : ~Matches(g) => gatewayCache[g] = Absent /\ references[g] = {}

(* g is being worked on as it is, or the caches are right. *)
GatewayHandled(g) == IF WorkingOn(gatewayWorker, g) THEN GatewayCurrent(g) ELSE GatewayServed(g)

(* What is true of a Gateway at any time. *)
GatewayInv(g) ==
    /\ g \in settled => GatewayHandled(g)
    /\ GatewayNews(g) \/ (g \in missed /\ ~Ours(g)) \/ GatewayHandled(g)

-----------------------------------------------------------------------------
(* Routes *)

(* Something is under way that will make the controllers look at r. *)
RouteNews(r) ==
    \/ \E e \in events : e.of = "Route" /\ e.obj = r
    \/ \E g \in Gateways : /\ Matches(g) /\ Attached(r, g)
                           /\ GatewayEvent(g) \in events \/ (ClassEvent(TRUE) \in events /\ Exists(g))
    \/ r \in routeQueue \ settled

(* The worker has read r and its Gateways as they are. *)
RouteCurrent(r) ==
    /\ routes[r] # Absent /\ ~routes[r].deleting
    /\ routeWorker = RouteRead(r, routes[r], getSupportedGatewayForRoute(r, routes[r]))

(* r is being worked on as it is, or is in the cache if it should be. *)
RouteHandled(r) == IF WorkingOn(routeWorker, r) THEN RouteCurrent(r) ELSE RightlyCached(r)

(* What is true of a route at any time. *)
RouteInv(r) ==
    /\ r \in settled => RouteHandled(r)
    /\ RouteNews(r) \/ r \in missed \/ RouteHandled(r)

-----------------------------------------------------------------------------
(* The state at the start is typed: the scenario says what there is. *)
LEMMA InitTypeOK == Init => TypeOK
<1> SUFFICES ASSUME Init
             PROVE  TypeOK
  OBVIOUS
<1>1. scenario \in Scenarios /\ class = scenario.class /\ gateways = scenario.gateways
      /\ routes = scenario.routes /\ gatewayWorker = Idle /\ routeWorker = Idle
  BY DEF Init
<1>2. \A e \in events : /\ e.of = "Gateway" => e.obj \in Gateways /\ e = GatewayEvent(e.obj)
                        /\ e.of = "Route" => e.obj \in Routes
  BY SMT DEF Init, ClassEvent, GatewayEvent, RouteEvent
<1>3. DOMAIN gatewayCache = Gateways /\ DOMAIN references = Gateways /\ DOMAIN routeCache = Routes
  BY DEF Init
<1>4. class # Absent => ClassAdmitted(class)
  BY <1>1, ScenariosAssumption
<1>5. DOMAIN gateways = Gateways /\ \A g \in Gateways : Exists(g) => GatewayAdmitted(gateways[g])
  BY <1>1, ScenariosAssumption DEF Exists
<1>6. DOMAIN routes = Routes /\ \A r \in Routes : routes[r] # Absent => RouteOK(routes[r])
  BY <1>1, ScenariosAssumption DEF RouteOK
<1> QED
  BY <1>1, <1>2, <1>3, <1>4, <1>5, <1>6 DEF TypeOK

-----------------------------------------------------------------------------
(* Which objects count as settled: none when something has changed that a  *)
(* controller reads, and else none that was not settled or just read.      *)
LEMMA SettleBound ==
    ASSUME Settle
    PROVE  /\ settled' \subseteq settled \cup (Reading' \ Reading)
           /\ inputs' # inputs => settled' = {}
BY DEF Settle

(* A step that starts no worker settles nothing. *)
LEMMA SettleNone ==
    ASSUME Settle, gatewayWorker' \in {gatewayWorker, Idle}, routeWorker' \in {routeWorker, Idle}
    PROVE  settled' \subseteq settled
<1>1. Reading' \subseteq Reading
  BY DEF Reading, Idle
<1> QED
  BY <1>1, SettleBound

-----------------------------------------------------------------------------
(* What the steps of the users, the informers, the operator and the update *)
(* loop have in common.  The steps of the workers are taken one by one.    *)

workVars == <<gatewayWorker, routeWorker, cacheVars, missed>>

(* The class changes: if it is ours or was, that is an event. *)
ClassStep ==
    /\ UNCHANGED <<scenario, gateways, routes, service, gatewayQueue, routeQueue, workVars>>
    /\ events' \in {events, events \cup {ClassEvent(TRUE)}, events \cup {ClassEvent(FALSE)}}
    /\ class' # Absent => ClassAdmitted(class')
    /\ class' # class => ClassEvent(TRUE) \in events' \/ (~ClassOurs /\ ~ClassOurs')
    /\ settled' \subseteq settled /\ (class' # class => settled' = {})

(* A Gateway changes. *)
GatewayStep(g) ==
    /\ UNCHANGED <<scenario, class, routes, service, gatewayQueue, routeQueue, workVars>>
    /\ gateways' = [gateways EXCEPT ![g] = gateways'[g]]
    /\ gateways'[g] # Absent => GatewayAdmitted(gateways'[g])
    /\ events' = events \cup {GatewayEvent(g)}
    /\ settled' \subseteq settled /\ (gateways' # gateways => settled' = {})

(* A user changes a route. *)
RouteStep(r) ==
    /\ UNCHANGED <<scenario, class, gateways, service, gatewayQueue, routeQueue, workVars>>
    /\ routes' = [routes EXCEPT ![r] = routes'[r]]
    /\ routes'[r] # Absent => RouteOK(routes'[r])
    /\ events' = events \cup {RouteEvent(r, routes[r], routes'[r])}
    /\ settled' \subseteq settled /\ (routes' # routes => settled' = {})

(* The publish Service, the backend, the time or the report of the update  *)
(* loop changes, or nothing does.                                          *)
OtherStep ==
    /\ UNCHANGED <<scenario, class, gateways, routes, events, gatewayQueue, workVars>>
    /\ routeQueue \subseteq routeQueue'
    /\ settled' \subseteq settled /\ (service' # service => settled' = {})

DeliverStep(of) == Deliver(of) /\ settled' \subseteq settled

(* The users' changes of the class and its controller's write of its       *)
(* status.                                                                 *)
LEMMA ClassSteps ==
    ASSUME TypeOK,
           \/ \E ours, unmanaged \in BOOLEAN : CreateClass(ours, unmanaged)
           \/ DeleteClass
           \/ ReconcileClass
    PROVE  ClassStep
<1>1. UNCHANGED <<scenario, gateways, routes, service, gatewayQueue, routeQueue, workVars>> /\ Settle
  BY DEF CreateClass, DeleteClass, ReconcileClass, Changed, queueVars, workVars
<1>2. settled' \subseteq settled
  BY <1>1, SettleNone DEF workVars
<1>3. class' # class => settled' = {}
  BY <1>1, SettleBound DEF inputs, objectVars
<1>4. ASSUME NEW ours \in BOOLEAN, NEW unmanaged \in BOOLEAN, CreateClass(ours, unmanaged)
      PROVE  ClassStep
  <2>1. events' = events \cup {ClassEvent(ours)} /\ ~ClassOurs
    BY <1>4 DEF CreateClass, ClassOurs
  <2>2. class' = [ver |-> changes + 1, gen |-> 1, ours |-> ours, unmanaged |-> unmanaged, accepted |-> 0]
    BY <1>4 DEF CreateClass
  <2>3. ClassAdmitted(class') /\ (~ours => ~ClassOurs')
    BY <2>2 DEF ClassAdmitted, ClassFields, ClassOurs
  <2> QED
    BY <1>1, <1>2, <1>3, <2>1, <2>3 DEF ClassStep
<1>5. ASSUME DeleteClass
      PROVE  ClassStep
  <2>1. class # Absent /\ class' = Absent /\ events' = events \cup {ClassEvent(class.ours)}
    BY <1>5 DEF DeleteClass
  <2>2. class.ours \in BOOLEAN
    BY <2>1 DEF TypeOK, ClassAdmitted
  <2> QED
    BY <1>1, <1>2, <1>3, <2>1, <2>2 DEF ClassStep, ClassOurs
<1>6. ASSUME ReconcileClass
      PROVE  ClassStep
  <2>1. \/ UNCHANGED <<class, events>>
        \/ /\ ClassOurs /\ class' = [class EXCEPT !.accepted = class.gen]
           /\ events' = events \cup {ClassEvent(TRUE)}
    BY <1>6 DEF ReconcileClass
  <2>2. class' # Absent => ClassAdmitted(class')
    BY <2>1 DEF TypeOK, ClassAdmitted, ClassFields, ClassOurs
  <2> QED
    BY <1>1, <1>2, <1>3, <2>1, <2>2 DEF ClassStep
<1> QED
  BY <1>4, <1>5, <1>6

(* The users' changes of a Gateway, and the operator's.                    *)
LEMMA GatewaySteps ==
    ASSUME TypeOK, NEW g \in Gateways,
           \/ \E ls \in scenario.listeners : CreateGateway(g, ls) \/ UpdateGateway(g, ls)
           \/ DeleteGateway(g) \/ MarkGatewayDeleted(g) \/ OperatorProgramsGateway(g)
    PROVE  GatewayStep(g)
<1>1. /\ UNCHANGED <<scenario, class, routes, service, gatewayQueue, routeQueue, workVars>> /\ Settle
      /\ events' = events \cup {GatewayEvent(g)}
  BY DEF CreateGateway, UpdateGateway, DeleteGateway, MarkGatewayDeleted,
     OperatorProgramsGateway, GatewayChanges, gatewayUnchanged, Changed, queueVars, cacheVars,
     workVars
<1>2. settled' \subseteq settled /\ (gateways' # gateways => settled' = {})
  BY <1>1, SettleNone, SettleBound DEF workVars, inputs, objectVars
<1>3. /\ DOMAIN gateways = Gateways
      /\ Exists(g) => GatewayAdmitted(gateways[g])
  BY DEF TypeOK
<1> SUFFICES /\ gateways' = [gateways EXCEPT ![g] = gateways'[g]]
             /\ gateways'[g] # Absent => GatewayAdmitted(gateways'[g])
  BY <1>1, <1>2 DEF GatewayStep
<1>4. ASSUME NEW ls \in scenario.listeners, CreateGateway(g, ls)
      PROVE  /\ gateways' = [gateways EXCEPT ![g] = gateways'[g]]
             /\ GatewayAdmitted(gateways'[g])
  BY <1>4, <1>3, SMT DEF CreateGateway, GatewayChanges, GatewayAdmitted, GatewayFields
<1>5. ASSUME NEW ls \in scenario.listeners, UpdateGateway(g, ls)
      PROVE  /\ gateways' = [gateways EXCEPT ![g] = gateways'[g]]
             /\ GatewayAdmitted(gateways'[g])
  <2>1. PICK ver : gateways' = [gateways EXCEPT ![g] =
                                  [gateways[g] EXCEPT !.ver = ver, !.gen = @ + 1, !.listeners = ls]]
    BY <1>5 DEF UpdateGateway, GatewayChanges
  <2>2. DOMAIN gateways[g] = GatewayFields /\ gateways[g].gen \in Nat
        /\ gateways[g].accepted \in 0..gateways[g].gen /\ gateways[g].programmed \in {0, gateways[g].accepted}
    BY <1>3, <1>5 DEF UpdateGateway, GatewayAdmitted
  <2>3. gateways'[g] = [gateways[g] EXCEPT !.ver = ver, !.gen = @ + 1, !.listeners = ls]
    BY <1>3, <2>1
  <2>4. /\ DOMAIN gateways'[g] = GatewayFields /\ gateways'[g].gen = gateways[g].gen + 1
        /\ gateways'[g].accepted = gateways[g].accepted
        /\ gateways'[g].programmed = gateways[g].programmed
    BY <2>2, <2>3 DEF GatewayFields
  <2>5. GatewayAdmitted(gateways'[g])
    BY <2>2, <2>4, SMT DEF GatewayAdmitted
  <2> QED
    BY <2>1, <2>3, <2>5
<1>6. ASSUME DeleteGateway(g)
      PROVE  gateways' = [gateways EXCEPT ![g] = gateways'[g]] /\ gateways'[g] = Absent
  BY <1>6, <1>3 DEF DeleteGateway, GatewayChanges
<1>7. ASSUME MarkGatewayDeleted(g)
      PROVE  /\ gateways' = [gateways EXCEPT ![g] = gateways'[g]]
             /\ GatewayAdmitted(gateways'[g])
  BY <1>7, <1>3 DEF MarkGatewayDeleted, GatewayChanges, GatewayAdmitted, GatewayFields
<1>8. ASSUME OperatorProgramsGateway(g)
      PROVE  /\ gateways' = [gateways EXCEPT ![g] = gateways'[g]]
             /\ GatewayAdmitted(gateways'[g])
  <2>1. PICK now : gateways' = [gateways EXCEPT ![g].accepted = gateways[g].gen,
                                    ![g].programmed = gateways[g].gen, ![g].status = now]
    BY <1>8 DEF OperatorProgramsGateway
  <2>2. Exists(g)
    BY <1>8 DEF OperatorProgramsGateway, OperatorNeeded
  <2>3. DOMAIN gateways[g] = GatewayFields /\ gateways[g].gen \in Nat \ {0}
    BY <1>3, <2>2 DEF GatewayAdmitted
  <2>4. gateways'[g] = [gateways[g] EXCEPT !.accepted = gateways[g].gen, !.programmed = gateways[g].gen,
                                           !.status = now]
    BY <1>3, <2>1
  <2>5. gateways' = [gateways EXCEPT ![g] = gateways'[g]]
    BY <1>3, <2>1
  <2>6. /\ DOMAIN gateways'[g] = GatewayFields /\ gateways'[g].gen = gateways[g].gen
        /\ gateways'[g].accepted = gateways[g].gen /\ gateways'[g].programmed = gateways[g].gen
    BY <2>3, <2>4 DEF GatewayFields
  <2> QED
    BY <2>3, <2>5, <2>6, SMT DEF GatewayAdmitted
<1> QED
  BY <1>4, <1>5, <1>6, <1>7, <1>8

(* The users' changes of a route keep it well formed.                      *)
LEMMA RouteSteps ==
    ASSUME TypeOK, NEW r \in Routes,
           \/ \E spec \in scenario.specs : CreateRoute(r, spec) \/ UpdateRoute(r, spec)
           \/ MarkRouteDeleted(r) \/ DeleteRoute(r)
    PROVE  RouteStep(r)
<1>1. UNCHANGED <<scenario, class, gateways, service, gatewayQueue, routeQueue, workVars>> /\ Settle
  BY DEF CreateRoute, UpdateRoute, MarkRouteDeleted, DeleteRoute, RouteChanges,
     Changed, queueVars, cacheVars, workVars
<1>2. settled' \subseteq settled /\ (routes' # routes => settled' = {})
  BY <1>1, SettleNone, SettleBound DEF workVars, inputs, objectVars
<1>3. /\ DOMAIN routes = Routes
      /\ routes[r] # Absent => RouteOK(routes[r])
      /\ \A spec \in scenario.specs : RouteAdmitted(spec)
  BY ScenariosAssumption DEF TypeOK
<1>4. ASSUME NEW new, RouteChanges(r, new)
      PROVE  /\ routes' = [routes EXCEPT ![r] = routes'[r]] /\ routes'[r] = new
             /\ events' = events \cup {RouteEvent(r, routes[r], routes'[r])}
  BY <1>3, <1>4 DEF RouteChanges
<1>5. ASSUME NEW spec \in scenario.specs, CreateRoute(r, spec)
      PROVE  RouteStep(r)
  <2> DEFINE new == [ver |-> changes + 1, gen |-> 1, uid |-> changes + 1, parents |-> spec.parents,
                     deleting |-> FALSE, hostnames |-> spec.hostnames, status |-> scenario.foreign]
  <2>1. RouteChanges(r, new)
    BY <1>5 DEF CreateRoute
  <2>2. RouteOK(new)
    BY <1>3 DEF RouteOK, RouteFields, RouteAdmitted
  <2> QED
    BY <1>1, <1>2, <1>4, <2>1, <2>2, SMT DEF RouteStep
<1>6. ASSUME NEW spec \in scenario.specs, UpdateRoute(r, spec)
      PROVE  RouteStep(r)
  <2> DEFINE new == [routes[r] EXCEPT !.ver = changes + 1, !.gen = @ + 1,
                                      !.parents = spec.parents, !.hostnames = spec.hostnames]
  <2>1. RouteChanges(r, new) /\ routes[r] # Absent
    BY <1>6 DEF UpdateRoute
  <2>2. RouteOK(new)
    BY <1>3, <2>1 DEF RouteOK, RouteFields, RouteAdmitted
  <2> QED
    BY <1>1, <1>2, <1>4, <2>1, <2>2, SMT DEF RouteStep
<1>7. ASSUME MarkRouteDeleted(r)
      PROVE  RouteStep(r)
  <2> DEFINE new == [routes[r] EXCEPT !.ver = changes + 1, !.deleting = TRUE]
  <2>1. RouteChanges(r, new) /\ routes[r] # Absent
    BY <1>7 DEF MarkRouteDeleted
  <2>2. RouteOK(new)
    BY <1>3, <2>1 DEF RouteOK, RouteFields, RouteAdmitted
  <2> QED
    BY <1>1, <1>2, <1>4, <2>1, <2>2, SMT DEF RouteStep
<1>8. ASSUME DeleteRoute(r)
      PROVE  RouteStep(r)
  BY <1>1, <1>2, <1>4, <1>8 DEF DeleteRoute, RouteStep
<1> QED
  BY <1>5, <1>6, <1>7, <1>8

(* Changes of the Services, the update loop's report, and stuttering.      *)
LEMMA OtherSteps ==
    ASSUME \/ \E s \in scenario.services : ChangeService(s)
           \/ ChangeBackend \/ Tick \/ triggerKubernetesObjectReport \/ UNCHANGED vars
    PROVE  OtherStep
<1>1. CASE UNCHANGED vars
  BY <1>1 DEF vars, clusterVars, objectVars, queueVars, cacheVars, workVars, OtherStep
<1>2. CASE \E s \in scenario.services : ChangeService(s)
  <2>1. /\ UNCHANGED <<scenario, class, gateways, routes, events, gatewayQueue, routeQueue, workVars>>
        /\ Settle
    BY <1>2 DEF ChangeService, Changed, queueVars, cacheVars, workVars
  <2>2. service' # service => settled' = {}
    BY <2>1, SettleBound DEF inputs
  <2>3. settled' \subseteq settled
    BY <2>1, SettleNone DEF workVars
  <2> QED
    BY <2>1, <2>2, <2>3 DEF OtherStep
<1>3. CASE ChangeBackend \/ Tick \/ triggerKubernetesObjectReport
  <2>1. /\ UNCHANGED <<scenario, class, gateways, routes, service, events, gatewayQueue, workVars>>
        /\ routeQueue \subseteq routeQueue' /\ Settle
    BY <1>3 DEF ChangeBackend, Tick, triggerKubernetesObjectReport, Changed, clusterVars, objectVars,
       queueVars, cacheVars, workVars
  <2>2. settled' \subseteq settled
    BY <2>1, SettleNone DEF workVars
  <2> QED
    BY <2>1, <2>2 DEF OtherStep
<1> QED
  BY <1>1, <1>2, <1>3

(* A delivery settles nothing.                                             *)
LEMMA DeliverSteps ==
    ASSUME NEW of \in Informers, Deliver(of)
    PROVE  DeliverStep(of)
<1>1. Settle /\ UNCHANGED <<gatewayWorker, routeWorker>>
  BY DEF Deliver
<1> QED
  BY <1>1, SettleNone DEF DeliverStep

(* Every step is one of these or a step of a worker. *)
LEMMA Steps ==
    ASSUME TypeOK, [Next]_vars
    PROVE  \/ ClassStep \/ OtherStep
           \/ \E g \in Gateways : GatewayStep(g) \/ StartGateway(g)
           \/ \E r \in Routes : RouteStep(r) \/ StartRoute(r)
           \/ \E of \in Informers : DeliverStep(of)
           \/ ReconcileGateway \/ ReconcileRoute
<1>1. CASE UNCHANGED vars
  BY <1>1, OtherSteps
<1>2. CASE Users
  BY <1>2, ClassSteps, GatewaySteps, RouteSteps, OtherSteps DEF Users
<1>3. CASE System
  BY <1>3, ClassSteps, GatewaySteps, OtherSteps, DeliverSteps DEF System
<1>4. CASE GatewayController \/ RouteControllers
  BY <1>4 DEF GatewayController, RouteControllers
<1>5. CASE Tick
  BY <1>5, OtherSteps
<1> QED
  BY <1>1, <1>2, <1>3, <1>4, <1>5 DEF Next, Controllers

-----------------------------------------------------------------------------
(* Types are preserved. *)

(* What a Gateway may become when the controller writes it. *)
LEMMA WriteTypes ==
    ASSUME TypeOK, ReconcileGateway
    PROVE  /\ DOMAIN gateways' = Gateways
           /\ \A g \in Gateways : gateways'[g] # Absent => GatewayAdmitted(gateways'[g])
           /\ DOMAIN gatewayCache' = Gateways /\ DOMAIN references' = Gateways
           /\ events' \in {events, events \cup {GatewayEvent(gatewayWorker.obj)}}
<1> DEFINE g == gatewayWorker.obj
           copy == gatewayWorker.copy
<1>1. /\ gatewayWorker # Idle /\ g \in Gateways /\ GatewayAdmitted(copy)
      /\ DOMAIN gateways = Gateways /\ DOMAIN gatewayCache = Gateways /\ DOMAIN references = Gateways
      /\ \A h \in Gateways : gateways[h] # Absent => GatewayAdmitted(gateways[h])
  BY DEF ReconcileGateway, TypeOK, Exists
<1>2. ASSUME NEW gw, UpdateGatewayInDataplane(g, gw)
      PROVE  DOMAIN gatewayCache' = Gateways /\ DOMAIN references' = Gateways
  BY <1>1, <1>2 DEF UpdateGatewayInDataplane, UpdateReferencesToSecret
<1>3. ASSUME GatewayFails(g)
      PROVE  UNCHANGED <<gateways, events, gatewayCache, references>>
  BY <1>3 DEF GatewayFails
<1>4. ASSUME NEW new, WriteGateway(new) \/ WriteListeners(new), GatewayAdmitted(new)
      PROVE  /\ DOMAIN gateways' = Gateways
             /\ \A h \in Gateways : gateways'[h] # Absent => GatewayAdmitted(gateways'[h])
             /\ DOMAIN gatewayCache' = Gateways /\ DOMAIN references' = Gateways
             /\ events' \in {events, events \cup {GatewayEvent(g)}}
  <2>1. CASE gateways[g] = copy
    <3>1. /\ gateways' = [gateways EXCEPT ![g] = new]
          /\ events' \in {events, events \cup {GatewayEvent(g)}}
          /\ UpdateGatewayInDataplane(g, new)
      BY <1>4, <2>1 DEF WriteGateway, WriteListeners, Stored
    <3> QED
      BY <1>1, <1>2, <1>4, <3>1
  <2>2. CASE gateways[g] # copy
    <3>1. GatewayFails(g) \/ (UpdateGatewayInDataplane(g, new) /\ UNCHANGED <<gateways, events>>)
      BY <1>4, <2>2 DEF WriteGateway, WriteListeners
    <3> QED
      BY <1>1, <1>2, <1>3, <3>1
  <2> QED
    BY <2>1, <2>2
<1>5. CASE ~gatewayWorker.unmanaged
  <2>1. UpdateGatewayInDataplane(g, copy) /\ UNCHANGED <<gateways, events>>
    BY <1>5 DEF ReconcileGateway
  <2> QED
    BY <1>1, <1>2, <2>1
<1>6. CASE gatewayWorker.unmanaged
  <2> DEFINE now == ListenersNow(g, copy)
  <2>1. reconcileUnmanagedGateway
    BY <1>6 DEF ReconcileGateway
  <2>2. \/ WriteGateway([copy EXCEPT !.annotated = TRUE])
        \/ GatewayFails(g)
        \/ WriteGateway([copy EXCEPT !.accepted = copy.gen, !.programmed = 0])
        \/ /\ isGatewayAccepted(copy)
           /\ WriteListeners([copy EXCEPT !.status = now, !.stamp = second, !.programmed = copy.gen])
        \/ WriteListeners([copy EXCEPT !.status = now, !.stamp = second])
    BY <2>1 DEF reconcileUnmanagedGateway
  <2> HIDE DEF now
  <2>3. /\ GatewayAdmitted([copy EXCEPT !.annotated = TRUE])
        /\ GatewayAdmitted([copy EXCEPT !.status = now, !.stamp = second])
    BY <1>1 DEF GatewayAdmitted, GatewayFields
  <2>4. GatewayAdmitted([copy EXCEPT !.accepted = copy.gen, !.programmed = 0])
    BY <1>1, SMT DEF GatewayAdmitted, GatewayFields
  <2>5. ASSUME isGatewayAccepted(copy)
        PROVE  GatewayAdmitted([copy EXCEPT !.status = now, !.stamp = second, !.programmed = copy.gen])
    BY <1>1, <2>5 DEF GatewayAdmitted, GatewayFields, isGatewayAccepted
  <2> QED
    BY <1>1, <1>3, <1>4, <2>2, <2>3, <2>4, <2>5
<1> QED
  BY <1>5, <1>6

(* What a route may become when a controller writes its status. *)
LEMMA StatusTypes ==
    ASSUME TypeOK, ReconcileRoute
    PROVE  /\ \/ UNCHANGED <<routes, events>>
              \/ /\ routes[routeWorker.obj] = routeWorker.copy
                 /\ \E status : routes' = [routes EXCEPT ![routeWorker.obj].status = status]
                 /\ events' = events \cup {RouteEvent(routeWorker.obj, routes[routeWorker.obj],
                                                      routes'[routeWorker.obj])}
           /\ DOMAIN routeCache' = Routes
           /\ routeQueue \subseteq routeQueue'
<1> DEFINE r == routeWorker.obj
           Written == \/ UNCHANGED <<routes, events>> /\ routeQueue \subseteq routeQueue'
                      \/ /\ routes[r] = routeWorker.copy /\ UNCHANGED routeQueue
                         /\ \E status : routes' = [routes EXCEPT ![r].status = status]
                         /\ events' = events \cup {RouteEvent(r, routes[r], routes'[r])}
<1>1. routeWorker # Idle /\ r \in Routes /\ DOMAIN routes = Routes /\ DOMAIN routeCache = Routes
      /\ RouteOK(routeWorker.copy)
  BY DEF ReconcileRoute, TypeOK
<1>2. ASSUME NEW status, UpdateRouteStatus(status)
      PROVE  Written
  <2>1. CASE routes[r] = routeWorker.copy
    <3>1. /\ routes' = [routes EXCEPT ![r].status = status] /\ UNCHANGED routeQueue
          /\ events' = events \cup {RouteEvent(r, routes[r], [routes[r] EXCEPT !.status = status])}
      BY <1>2, <2>1 DEF UpdateRouteStatus
    <3>2. routes'[r] = [routes[r] EXCEPT !.status = status]
      BY <1>1, <3>1
    <3> QED
      BY <2>1, <3>1, <3>2
  <2>2. CASE routes[r] # routeWorker.copy
    BY <1>2, <2>2 DEF UpdateRouteStatus, Retry
  <2> QED
    BY <2>1, <2>2
<1>3. ASSUME Retry(r)
      PROVE  Written
  BY <1>3 DEF Retry
<1>4. ASSUME UNCHANGED <<routes, events, routeQueue>>
      PROVE  Written
  BY <1>4
<1>5. ASSUME ensureParentsProgrammedCondition
      PROVE  Written
  <2>1. Retry(r) \/ UNCHANGED <<routes, events, routeQueue>> \/ \E new : UpdateRouteStatus(new)
    BY <1>5 DEF ensureParentsProgrammedCondition
  <2> HIDE DEF Written
  <2> QED
    BY <1>2, <1>3, <1>4, <2>1
<1>6. CASE routeWorker.phase = "orphan"
  <2>1. ensureGatewayReferenceStatusRemoved
    BY <1>6 DEF ReconcileRoute
  <2>2. UNCHANGED <<routes, events, routeQueue>> \/ \E new : UpdateRouteStatus(new)
    BY <2>1 DEF ensureGatewayReferenceStatusRemoved
  <2>3. DOMAIN routeCache' = Routes
    BY <1>1, <2>1 DEF ensureGatewayReferenceStatusRemoved
  <2> QED
    BY <1>2, <1>4, <2>2, <2>3
<1>7. CASE routeWorker.phase = "stale"
  <2>1. UNCHANGED routeCache /\ \E new : UpdateRouteStatus(new)
    BY <1>7 DEF ReconcileRoute, PruneStaleParents
  <2> QED
    BY <1>1, <1>2, <2>1
<1>8. CASE routeWorker.phase = "wait"
  <2>1. Retry(r) /\ UNCHANGED routeCache
    BY <1>8 DEF ReconcileRoute
  <2> QED
    BY <1>1, <1>3, <2>1
<1>9. CASE routeWorker.phase = "write"
  <2>1. ProgramRoute
    BY <1>9 DEF ReconcileRoute
  <2>2. \/ Retry(r) \/ ensureParentsProgrammedCondition \/ \E new : UpdateRouteStatus(new)
    BY <2>1 DEF ProgramRoute
  <2>3. DOMAIN routeCache' = Routes
    BY <1>1, <2>1 DEF ProgramRoute, WriteRoute
  <2> QED
    BY <1>2, <1>3, <1>5, <2>2, <2>3
<1> QED
  BY <1>1, <1>6, <1>7, <1>8, <1>9 DEF TypeOK

(* What a worker has when it has read a route. *)
LEMMA RouteReadFields ==
    ASSUME NEW r, NEW obj, NEW gws
    PROVE  /\ RouteRead(r, obj, gws) # Idle
           /\ RouteRead(r, obj, gws).obj = r /\ RouteRead(r, obj, gws).copy = obj
           /\ RouteRead(r, obj, gws).gws = gws
<1>1. PICK phase, filtered : RouteRead(r, obj, gws) = [phase |-> phase, obj |-> r, copy |-> obj,
                                                      gws |-> gws, filtered |-> filtered]
  BY DEF RouteRead
<1>2. DOMAIN RouteRead(r, obj, gws) = {"phase", "obj", "copy", "gws", "filtered"}
  BY <1>1, SMT
<1>3. "obj" \notin DOMAIN Idle
  BY SMT DEF Idle
<1> QED
  BY <1>1, <1>2, <1>3, SMT

(* How far it will come with it. *)
LEMMA RouteReadPhase ==
    ASSUME NEW r, NEW obj, NEW gws
    PROVE  /\ RouteRead(r, obj, gws).phase \in {"orphan", "stale", "wait", "write"}
           /\ RouteRead(r, obj, gws).phase = "orphan" <=> DOMAIN gws = {}
           /\ RouteRead(r, obj, gws).phase = "stale" => HasStale(r, obj)
           /\ RouteRead(r, obj, gws).phase = "wait" => \E i \in DOMAIN gws : ~gws[i].programmed
           /\ RouteRead(r, obj, gws).phase = "write" => \A i \in DOMAIN gws : gws[i].programmed
<1> DEFINE phase == IF DOMAIN gws = {} THEN "orphan" ELSE IF HasStale(r, obj) THEN "stale"
                    ELSE IF \E i \in DOMAIN gws : ~gws[i].programmed THEN "wait" ELSE "write"
<1>1. PICK filtered : RouteRead(r, obj, gws) = [phase |-> phase, obj |-> r, copy |-> obj, gws |-> gws,
                                               filtered |-> filtered]
  BY DEF RouteRead
<1>2. /\ phase \in {"orphan", "stale", "wait", "write"} /\ (phase = "orphan" <=> DOMAIN gws = {})
      /\ phase = "stale" => HasStale(r, obj)
      /\ phase = "wait" => \E i \in DOMAIN gws : ~gws[i].programmed
      /\ phase = "write" => \A i \in DOMAIN gws : gws[i].programmed
  OBVIOUS
<1> HIDE DEF phase
<1>3. RouteRead(r, obj, gws).phase = phase
  BY <1>1, SMT
<1> QED
  BY <1>2, <1>3

(* Every step preserves the types. *)
LEMMA NextTypeOK == TypeOK /\ [Next]_vars => TypeOK'
<1> SUFFICES ASSUME TypeOK, [Next]_vars
             PROVE  TypeOK'
  OBVIOUS
<1> DEFINE EventsOK(E) == \A e \in E : /\ e.of = "Gateway" => e.obj \in Gateways /\ e = GatewayEvent(e.obj)
                                       /\ e.of = "Route" => e.obj \in Routes
<1>a. /\ scenario \in Scenarios /\ EventsOK(events) /\ (class # Absent => ClassAdmitted(class))
      /\ DOMAIN gateways = Gateways /\ DOMAIN routes = Routes
      /\ \A g \in Gateways : gateways[g] # Absent => GatewayAdmitted(gateways[g])
      /\ \A r \in Routes : routes[r] # Absent => RouteOK(routes[r])
  BY DEF TypeOK, Exists
<1>b. /\ EventsOK({ClassEvent(TRUE)}) /\ EventsOK({ClassEvent(FALSE)})
      /\ \A g \in Gateways : EventsOK({GatewayEvent(g)})
      /\ \A r \in Routes : \A old, new : EventsOK({RouteEvent(r, old, new)})
  BY SMT DEF ClassEvent, GatewayEvent, RouteEvent
<1>c. ASSUME NEW E, NEW e, EventsOK(E), EventsOK({e})
      PROVE  EventsOK(E \cup {e})
  BY <1>c
<1>1. CASE ClassStep
  <2>1. EventsOK(events')
    BY <1>1, <1>a, <1>b, <1>c DEF ClassStep
  <2> QED
    BY <1>1, <1>a, <2>1 DEF ClassStep, TypeOK, workVars, cacheVars, Exists, Matches
<1>2. CASE OtherStep
  BY <1>2 DEF OtherStep, TypeOK, workVars, cacheVars, Exists, Matches
<1>3. ASSUME NEW g \in Gateways, GatewayStep(g)
      PROVE  TypeOK'
  <2>1. EventsOK(events')
    BY <1>3, <1>a, <1>b, <1>c, ZenonT(30) DEF GatewayStep
  <2>2. /\ DOMAIN gateways' = Gateways
        /\ \A h \in Gateways : gateways'[h] # Absent => GatewayAdmitted(gateways'[h])
    BY <1>3, <1>a DEF GatewayStep
  <2> QED
    BY <1>3, <2>1, <2>2 DEF GatewayStep, TypeOK, workVars, cacheVars, Exists, Matches
<1>4. ASSUME NEW g \in Gateways, StartGateway(g)
      PROVE  TypeOK'
  <2>1. /\ UNCHANGED <<scenario, class, routes, gateways, events, routeWorker, routeCache>>
        /\ DOMAIN gatewayCache' = Gateways /\ DOMAIN references' = Gateways
    BY <1>4 DEF StartGateway, gatewayUnchanged, TypeOK
  <2>2. gatewayWorker' # Idle =>
          /\ Matches(g) /\ Exists(g)
          /\ gatewayWorker' = [phase |-> "read", obj |-> g, copy |-> gateways[g], unmanaged |-> class.unmanaged]
    BY <1>4 DEF StartGateway
  <2>3. gatewayWorker' # Idle =>
          /\ gatewayWorker'.obj \in Gateways /\ Matches(gatewayWorker'.obj)
          /\ gatewayWorker'.copy # Absent /\ GatewayAdmitted(gatewayWorker'.copy)
    BY <1>a, <2>2, SMT DEF Exists
  <2> QED
    BY <2>1, <2>3 DEF TypeOK, Exists, Matches
<1>5. ASSUME NEW r \in Routes, RouteStep(r)
      PROVE  TypeOK'
  <2>1. EventsOK(events')
    BY <1>5, <1>a, <1>b, <1>c, SMT DEF RouteStep
  <2>2. /\ DOMAIN routes' = Routes
        /\ \A q \in Routes : routes'[q] # Absent => RouteOK(routes'[q])
    BY <1>5, <1>a DEF RouteStep
  <2> QED
    BY <1>5, <2>1, <2>2 DEF RouteStep, TypeOK, workVars, cacheVars, Exists, Matches
<1>6. ASSUME NEW r \in Routes, StartRoute(r)
      PROVE  TypeOK'
  <2>1. /\ UNCHANGED <<scenario, class, routes, gateways, events, gatewayWorker, gatewayCache, references>>
        /\ DOMAIN routeCache' = Routes
    BY <1>6 DEF StartRoute, routeUnchanged, TypeOK
  <2>2. \/ routeWorker' = Idle
        \/ routes[r] # Absent /\ \E gws : routeWorker' = RouteRead(r, routes[r], gws)
    BY <1>6 DEF StartRoute
  <2>3. routeWorker' # Idle =>
         /\ routeWorker'.obj \in Routes /\ routeWorker'.phase \in {"orphan", "stale", "wait", "write"}
         /\ routeWorker'.copy # Absent /\ RouteOK(routeWorker'.copy)
    BY <1>a, <2>2, RouteReadFields, RouteReadPhase, SMT
  <2> QED
    BY <2>1, <2>3 DEF TypeOK, Exists, Matches
<1>7. ASSUME NEW of \in Informers, DeliverStep(of)
      PROVE  TypeOK'
  BY <1>7, ZenonT(30) DEF DeliverStep, Deliver, TypeOK, clusterVars, objectVars, cacheVars,
     Exists, Matches
<1>8. CASE ReconcileGateway
  <2>1. /\ UNCHANGED <<scenario, class, routes, routeWorker, routeCache>> /\ gatewayWorker' = Idle
        /\ gatewayWorker.obj \in Gateways
    BY <1>8 DEF ReconcileGateway, gatewayUnchanged, TypeOK
  <2>2. EventsOK(events')
    BY <1>8, <1>a, <1>b, <1>c, <2>1, WriteTypes, ZenonT(30)
  <2> QED
    BY <1>8, <2>1, <2>2, WriteTypes DEF TypeOK, Exists, Matches
<1>9. CASE ReconcileRoute
  <2>1. /\ UNCHANGED <<scenario, class, gateways, gatewayWorker, gatewayCache, references>>
        /\ routeWorker' = Idle /\ routeWorker.obj \in Routes
    BY <1>9 DEF ReconcileRoute, routeUnchanged, TypeOK
  <2>2. EventsOK(events')
    BY <1>9, <1>a, <1>b, <1>c, <2>1, StatusTypes, SMT
  <2>3. /\ DOMAIN routes' = Routes
        /\ \A q \in Routes : routes'[q] # Absent => RouteOK(routes'[q])
    <3>1. CASE UNCHANGED <<routes, events>>
      BY <1>a, <3>1
    <3>2. ASSUME NEW status, routes' = [routes EXCEPT ![routeWorker.obj].status = status],
                 routes[routeWorker.obj] = routeWorker.copy
          PROVE  /\ DOMAIN routes' = Routes
                 /\ \A q \in Routes : routes'[q] # Absent => RouteOK(routes'[q])
      <4>1. RouteOK(routes[routeWorker.obj])
        BY <1>9, <3>2 DEF TypeOK, ReconcileRoute
      <4>2. RouteOK([routes[routeWorker.obj] EXCEPT !.status = status])
        BY <4>1 DEF RouteOK, RouteFields, RouteAdmitted
      <4> QED
        BY <1>a, <2>1, <3>2, <4>2
    <3> QED
      BY <1>9, <3>1, <3>2, StatusTypes
  <2> QED
    BY <1>9, <2>1, <2>2, <2>3, StatusTypes DEF TypeOK, Exists, Matches
<1> QED
  BY <1>1, <1>2, <1>3, <1>4, <1>5, <1>6, <1>7, <1>8, <1>9, Steps

-----------------------------------------------------------------------------
(* GatewayInv is preserved. *)

(* The references of a Gateway stay right while it and they stay. *)
LEMMA SameReferences ==
    ASSUME NEW g, ReferencesServed(g), gateways'[g] = gateways[g], references'[g] = references[g],
           g \in gatewayQueue => g \in gatewayQueue'
    PROVE  ReferencesServed(g)'
<1>1. Missing(g)' = Missing(g)
  BY DEF Missing
<1> QED
  BY <1>1 DEF ReferencesServed

(* By a step that leaves g and what is known of it alone. *)
LEMMA GatewayFrame ==
    ASSUME NEW g \in Gateways, GatewayInv(g),
           UNCHANGED <<scenario, class, gateways, gatewayWorker, missed>>,
           gatewayCache'[g] = gatewayCache[g], references'[g] = references[g],
           events \subseteq events', gatewayQueue \subseteq gatewayQueue',
           g \in settled' => g \in settled, service' # service => settled' = {}
    PROVE  GatewayInv(g)'
<1>1. GatewayNews(g) => GatewayNews(g)'
  BY DEF GatewayNews, Exists, Matches
<1>2. Ours(g)' = Ours(g)
  BY DEF Ours, Exists, Matches, ClassOurs
<1>3. GatewayCurrent(g) => GatewayCurrent(g)'
  BY <1>2 DEF GatewayCurrent
<1>4. GatewayServed(g) => GatewayServed(g)' \/ (GatewayNews(g)' /\ g \notin settled')
  BY <1>2, SameReferences DEF GatewayServed, GatewayNews
<1>5. WorkingOn(gatewayWorker, g)' = WorkingOn(gatewayWorker, g)
  BY DEF WorkingOn
<1> QED
  BY <1>1, <1>2, <1>3, <1>4, <1>5 DEF GatewayInv, GatewayHandled

(* By a change of the class: it is news to every Gateway that is ours or   *)
(* was.                                                                    *)
LEMMA ClassStepGateway ==
    ASSUME TypeOK, NEW g \in Gateways, GatewayInv(g), ClassStep
    PROVE  GatewayInv(g)'
<1>1. CASE class' = class
  BY <1>1, GatewayFrame DEF ClassStep, workVars, cacheVars
<1>2. CASE class' # class
  <2>1. /\ settled' = {} /\ events \subseteq events'
        /\ UNCHANGED <<scenario, gateways, gatewayQueue, gatewayWorker, gatewayCache, references, missed>>
        /\ ClassEvent(TRUE) \in events' \/ (~ClassOurs /\ ~ClassOurs')
    BY <1>2 DEF ClassStep, workVars, cacheVars
  <2>2. CASE ClassEvent(TRUE) \in events' /\ Exists(g) /\ Matches(g)
    BY <2>1, <2>2 DEF GatewayInv, GatewayNews, Exists, Matches
  <2>3. CASE ~(ClassEvent(TRUE) \in events' /\ Exists(g) /\ Matches(g))
    <3>1. ~Ours(g) /\ ~Ours(g)'
      BY <2>1, <2>3 DEF Ours, Exists, Matches
    <3>2. GatewayNews(g) => GatewayNews(g)'
      BY <2>1 DEF GatewayNews, Exists, Matches
    <3>3. GatewayHandled(g) => GatewayHandled(g)'
      BY <2>1, <3>1 DEF GatewayHandled, GatewayCurrent, GatewayServed, WorkingOn
    <3> QED
      BY <2>1, <3>1, <3>2, <3>3 DEF GatewayInv
  <2> QED
    BY <2>2, <2>3
<1> QED
  BY <1>1, <1>2

(* By a change of a Gateway: it is news to it, and nothing to the others.  *)
LEMMA GatewayStepGateway ==
    ASSUME TypeOK, NEW g \in Gateways, GatewayInv(g), NEW h \in Gateways, GatewayStep(h)
    PROVE  GatewayInv(g)'
<1>1. /\ UNCHANGED <<scenario, class, service, gatewayQueue, gatewayWorker, gatewayCache, references, missed>>
      /\ events' = events \cup {GatewayEvent(h)} /\ settled' \subseteq settled
      /\ gateways' = [gateways EXCEPT ![h] = gateways'[h]] /\ DOMAIN gateways = Gateways
  BY DEF GatewayStep, workVars, cacheVars, TypeOK
<1>2. CASE gateways' = gateways
  BY <1>1, <1>2, GatewayFrame
<1>3. CASE gateways' # gateways
  <2>1. settled' = {}
    BY <1>3 DEF GatewayStep
  <2>2. CASE g = h
    BY <1>1, <2>1, <2>2 DEF GatewayInv, GatewayNews
  <2>3. CASE g # h
    <3>1. gateways'[g] = gateways[g]
      BY <1>1, <2>3
    <3>2. Ours(g)' = Ours(g)
      BY <1>1, <3>1 DEF Ours, Exists, Matches, ClassOurs
    <3>3. GatewayNews(g) => GatewayNews(g)'
      BY <1>1, <3>1, ZenonT(30) DEF GatewayNews, Exists, Matches
    <3>4. GatewayHandled(g) => GatewayHandled(g)'
      BY <1>1, <3>1, <3>2, SameReferences DEF GatewayHandled, GatewayCurrent, GatewayServed, WorkingOn
    <3> QED
      BY <1>1, <2>1, <3>2, <3>3, <3>4 DEF GatewayInv
  <2> QED
    BY <2>2, <2>3
<1> QED
  BY <1>2, <1>3

(* What an informer delivers wakes g, if it is about g, or is g's last     *)
(* event and filtered out.                                                 *)
LEMMA DeliverStepGateway ==
    ASSUME TypeOK, NEW g \in Gateways, GatewayInv(g), NEW of \in Informers, DeliverStep(of)
    PROVE  GatewayInv(g)'
<1> DEFINE delivered == {e \in events : e.of = of}
           gatewaysWoken == UNION {GatewaysWoken(e) : e \in delivered}
           routesWoken == UNION {RoutesWoken(e) : e \in delivered}
           about == IF of = "GatewayClass" THEN {} ELSE {e.obj : e \in delivered}
<1>1. /\ UNCHANGED <<scenario, class, gateways, service, gatewayWorker, gatewayCache, references>>
      /\ events' = events \ delivered /\ settled' \subseteq settled
      /\ gatewayQueue' = gatewayQueue \cup gatewaysWoken
  BY DEF DeliverStep, Deliver, clusterVars, objectVars, cacheVars
<1>2. missed' = (missed \cup about) \ (gatewaysWoken \cup routesWoken)
  <2> DEFINE woken == UNION {GatewaysWoken(e) \cup RoutesWoken(e) : e \in delivered}
  <2>1. missed' = (missed \cup about) \ woken
    BY DEF DeliverStep, Deliver
  <2>2. \A x : x \in woken <=> x \in gatewaysWoken \/ x \in routesWoken
    BY SMT
  <2> QED
    BY <2>1, <2>2
<1>3. of \in {"GatewayClass", "Gateway", "Route"} /\ Gateways \cap Routes = {}
  BY ScenariosAssumption DEF Informers
<1>4. routesWoken \subseteq Routes
  <2> SUFFICES ASSUME NEW e \in delivered
               PROVE  RoutesWoken(e) \subseteq Routes
    OBVIOUS
  <2>1. CASE of = "Route"
    <3>1. e.of = "Route" /\ e.obj \in Routes
      BY <2>1 DEF TypeOK
    <3>2. RoutesWoken(e) = RoutesOfEvent(e)
      BY <3>1 DEF RoutesWoken
    <3> QED
      BY <3>1, <3>2 DEF RoutesOfEvent
  <2>2. CASE of = "Gateway"
    <3>1. RoutesWoken(e) = listHTTPRoutesForGateway(e.obj)
      BY <2>2 DEF RoutesWoken
    <3> QED
      BY <3>1 DEF listHTTPRoutesForGateway
  <2>3. CASE of = "GatewayClass"
    <3>1. RoutesWoken(e) = listHTTPRoutesForGatewayClass(e)
      BY <2>3 DEF RoutesWoken
    <3> QED
      BY <3>1 DEF listHTTPRoutesForGatewayClass
  <2> QED
    BY <1>3, <2>1, <2>2, <2>3
<1>5. /\ Ours(g)' = Ours(g) /\ Exists(g)' = Exists(g) /\ Matches(g)' = Matches(g)
      /\ GatewayHandled(g) => GatewayHandled(g)'
  <2>1. /\ Ours(g)' = Ours(g) /\ Exists(g)' = Exists(g) /\ Matches(g)' = Matches(g)
        /\ WorkingOn(gatewayWorker, g)' = WorkingOn(gatewayWorker, g)
        /\ gateways' = gateways /\ references' = references /\ gatewayQueue \subseteq gatewayQueue'
        /\ GatewayCurrent(g)' = GatewayCurrent(g)
    BY <1>1 DEF Ours, Exists, Matches, ClassOurs, WorkingOn, GatewayCurrent
  <2>2. ReferencesServed(g) => ReferencesServed(g)'
    BY <2>1, SameReferences
  <2>3. GatewayServed(g) => GatewayServed(g)'
    BY <1>1, <2>1, <2>2 DEF GatewayServed
  <2> QED
    BY <2>1, <2>3 DEF GatewayHandled
<1>6. g \in gatewaysWoken => GatewayNews(g)' \/ GatewayHandled(g)'
  BY <1>1, <1>5 DEF GatewayNews, GatewayInv
<1>7. ASSUME GatewayEvent(g) \in events, g \notin gatewaysWoken
      PROVE  GatewayNews(g)' \/ (g \in missed' /\ ~Ours(g)')
  <2>1. CASE of # "Gateway"
    BY <1>1, <1>7, <2>1 DEF GatewayNews, GatewayEvent
  <2>2. CASE of = "Gateway"
    <3>1. GatewayEvent(g) \in delivered /\ GatewayEvent(g).of = "Gateway" /\ GatewayEvent(g).obj = g
      BY <1>7, <2>2 DEF GatewayEvent
    <3>2. GatewaysWoken(GatewayEvent(g)) = {x \in {GatewayEvent(g).obj} : gatewayHasMatchingGatewayClass(x)}
      BY <3>1 DEF GatewaysWoken
    <3>3. ~gatewayHasMatchingGatewayClass(g)
      BY <1>7, <3>1, <3>2
    <3>4. ~Ours(g)
      BY <3>3 DEF gatewayHasMatchingGatewayClass, Ours
    <3>5. g \in about
      BY <2>2, <3>1
    <3> QED
      BY <1>2, <1>3, <1>4, <1>5, <1>7, <3>4, <3>5
  <2> QED
    BY <2>1, <2>2
<1>8. ASSUME ClassEvent(TRUE) \in events, Exists(g), Matches(g), g \notin gatewaysWoken
      PROVE  GatewayNews(g)'
  <2>1. CASE of # "GatewayClass"
    BY <1>1, <1>5, <1>8, <2>1 DEF GatewayNews, ClassEvent
  <2>2. CASE of = "GatewayClass"
    <3>1. ClassEvent(TRUE) \in delivered /\ ClassEvent(TRUE).of = "GatewayClass" /\ ClassEvent(TRUE).ours = TRUE
      BY <1>8, <2>2 DEF ClassEvent
    <3>2. GatewaysWoken(ClassEvent(TRUE)) = listGatewaysForGatewayClass(ClassEvent(TRUE))
      BY <3>1 DEF GatewaysWoken
    <3>3. g \in listGatewaysForGatewayClass(ClassEvent(TRUE))
      BY <1>8, <3>1 DEF listGatewaysForGatewayClass
    <3> QED
      BY <1>8, <3>1, <3>2, <3>3
  <2> QED
    BY <2>1, <2>2
<1>9. g \in gatewayQueue \ settled => GatewayNews(g)'
  BY <1>1 DEF GatewayNews
<1>10. g \in missed /\ ~Ours(g) /\ g \notin gatewaysWoken => g \in missed' /\ ~Ours(g)'
  BY <1>2, <1>3, <1>4, <1>5
<1>11. GatewayNews(g)' \/ (g \in missed' /\ ~Ours(g)') \/ GatewayHandled(g)'
  BY <1>5, <1>6, <1>7, <1>8, <1>9, <1>10 DEF GatewayInv, GatewayNews
<1>12. g \in settled' => GatewayHandled(g)'
  BY <1>1, <1>5 DEF GatewayInv
<1> QED
  BY <1>11, <1>12 DEF GatewayInv

(* A worker that starts reads the Gateway as it is, or drops it. *)
LEMMA StartGatewayGateway ==
    ASSUME TypeOK, OnlyMatching, NEW g \in Gateways, GatewayInv(g), NEW h \in Gateways, StartGateway(h)
    PROVE  GatewayInv(g)'
<1>1. /\ UNCHANGED <<scenario, class, gateways, service, events, routeWorker, missed>> /\ Settle
      /\ gatewayWorker = Idle /\ h \in gatewayQueue \ settled /\ gatewayQueue' = gatewayQueue \ {h}
  BY DEF StartGateway, gatewayUnchanged
<1>2. /\ gatewayCache' \in {gatewayCache, [gatewayCache EXCEPT ![h] = Absent]}
      /\ references' \in {references, [references EXCEPT ![h] = {}]}
      /\ Matches(h) /\ (~Exists(h) \/ ~ClassOurs) => gatewayCache'[h] = Absent /\ references'[h] = {}
  BY DEF StartGateway, TypeOK
<1>3. \/ gatewayWorker' = Idle
      \/ gatewayWorker' = [phase |-> "read", obj |-> h, copy |-> gateways[h], unmanaged |-> class.unmanaged]
  BY DEF StartGateway
<1>4. gatewayWorker' = Idle <=> ~Matches(h) \/ ~Exists(h) \/ ~ClassOurs \/ gateways[h].deleting
  BY DEF StartGateway, Idle
<1>5. Ours(g)' = Ours(g) /\ Exists(g)' = Exists(g) /\ Matches(g)' = Matches(g)
  BY <1>1 DEF Ours, Exists, Matches, ClassOurs
<1>6. settled' \subseteq settled \cup {h}
  <2>1. Reading' \subseteq Reading \cup {h}
    BY <1>1, <1>3, SMT DEF Reading
  <2> QED
    BY <1>1, <2>1, SettleBound
<1>7. CASE g # h
  <2>1. gatewayCache'[g] = gatewayCache[g] /\ references'[g] = references[g]
    BY <1>2, <1>7 DEF TypeOK
  <2>2. ~WorkingOn(gatewayWorker, g) /\ ~WorkingOn(gatewayWorker, g)'
    BY <1>1, <1>3, <1>7, SMT DEF WorkingOn
  <2>3. GatewayHandled(g) => GatewayHandled(g)'
    BY <1>1, <1>5, <1>7, <2>1, <2>2, SameReferences DEF GatewayHandled, GatewayServed
  <2>4. GatewayNews(g) => GatewayNews(g)'
    BY <1>1, <1>5, <1>6, <1>7 DEF GatewayNews
  <2> QED
    BY <1>1, <1>5, <1>6, <1>7, <2>3, <2>4 DEF GatewayInv
<1>8. CASE g = h /\ gatewayWorker' # Idle
  <2>1. WorkingOn(gatewayWorker, g)' /\ GatewayCurrent(g)'
    BY <1>1, <1>3, <1>4, <1>5, <1>8, SMT DEF WorkingOn, GatewayCurrent, Ours
  <2> QED
    BY <2>1 DEF GatewayInv, GatewayHandled
<1>9. CASE g = h /\ gatewayWorker' = Idle
  <2>1. g \notin settled'
    <3>1. Reading' \subseteq Reading
      BY <1>1, <1>9 DEF Reading
    <3> QED
      BY <1>1, <1>9, <3>1, SettleBound
  <2>2. CASE Ours(g)
    <3>1. gateways[g].deleting
      BY <1>4, <1>9, <2>2 DEF Ours
    <3> QED
      BY <1>1, <1>5, <1>9, <2>1, <2>2, <3>1 DEF GatewayInv, GatewayHandled,
         GatewayServed, WorkingOn
  <2>3. CASE ~Ours(g) /\ Matches(g)
    <3>1. gatewayCache'[g] = Absent /\ references'[g] = {}
      BY <1>2, <1>9, <2>3 DEF Ours
    <3> QED
      BY <1>5, <1>9, <2>1, <2>3, <3>1 DEF GatewayInv, GatewayHandled, GatewayServed,
         WorkingOn
  <2>4. CASE ~Matches(g)
    <3>1. gatewayCache'[g] = Absent /\ references'[g] = {}
      BY <1>2, <1>9, <2>4 DEF OnlyMatching, TypeOK
    <3> QED
      BY <1>5, <1>9, <2>1, <2>4, <3>1, ZenonT(30) DEF GatewayInv, GatewayHandled, GatewayServed,
         WorkingOn, Ours
  <2> QED
    BY <2>2, <2>3, <2>4
<1> QED
  BY <1>7, <1>8, <1>9

(* What a reconciliation does with the Gateway it has read: it writes it   *)
(* or finds nothing to write, it fails, or it is not for the controller to *)
(* accept it.                                                              *)
LEMMA ReconcileOutcome ==
    ASSUME TypeOK, ReconcileGateway
    PROVE  LET g == gatewayWorker.obj
               copy == gatewayWorker.copy
           IN \/ /\ gateways'[g] # gateways[g] /\ events' = events \cup {GatewayEvent(g)}
                 /\ gatewayQueue \subseteq gatewayQueue'
              \/ /\ gateways[g] # copy /\ UNCHANGED <<gateways, events>>
                 /\ gatewayQueue \subseteq gatewayQueue'
              \/ /\ gatewayWorker.unmanaged /\ service = Absent /\ GatewayFails(g)
              \/ /\ gateways'[g] = gateways[g] /\ UNCHANGED events
                 /\ UpdateGatewayInDataplane(g, copy)
                 /\ gatewayWorker.unmanaged =>
                      gateways[g] = copy /\ isGatewayAccepted(copy) /\ isGatewayProgrammed(copy)
<1> DEFINE g == gatewayWorker.obj
           copy == gatewayWorker.copy
<1>1. g \in Gateways /\ GatewayAdmitted(copy) /\ DOMAIN gateways = Gateways
  BY DEF ReconcileGateway, TypeOK
<1>2. ASSUME NEW new, WriteGateway(new) \/ WriteListeners(new), new # copy
      PROVE  \/ /\ gateways'[g] # gateways[g] /\ events' = events \cup {GatewayEvent(g)}
                /\ gatewayQueue \subseteq gatewayQueue'
             \/ /\ gateways[g] # copy /\ UNCHANGED <<gateways, events>>
                /\ gatewayQueue \subseteq gatewayQueue'
  <2>1. CASE gateways[g] = copy
    <3>1. /\ gateways' = [gateways EXCEPT ![g] = new] /\ events' = events \cup {GatewayEvent(g)}
          /\ UpdateGatewayInDataplane(g, new)
      BY <1>2, <2>1 DEF WriteGateway, WriteListeners, Stored
    <3>2. gateways'[g] # gateways[g]
      BY <1>1, <1>2, <2>1, <3>1
    <3> QED
      BY <3>1, <3>2 DEF UpdateGatewayInDataplane
  <2>2. CASE gateways[g] # copy
    BY <1>2, <2>2 DEF WriteGateway, WriteListeners, GatewayFails, UpdateGatewayInDataplane
  <2> QED
    BY <2>1, <2>2
<1>3. ASSUME WriteListeners(copy)
      PROVE  \/ /\ gateways'[g] = gateways[g] /\ UNCHANGED events
                /\ UpdateGatewayInDataplane(g, copy) /\ gateways[g] = copy
             \/ /\ gateways[g] # copy /\ UNCHANGED <<gateways, events>>
                /\ gatewayQueue \subseteq gatewayQueue'
  <2>1. CASE gateways[g] = copy
    <3>1. /\ gateways' = [gateways EXCEPT ![g] = copy] /\ events' = events
          /\ UpdateGatewayInDataplane(g, copy)
      BY <1>3, <2>1 DEF WriteListeners, Stored
    <3>2. gateways'[g] = gateways[g]
      BY <1>1, <2>1, <3>1
    <3> QED
      BY <2>1, <3>1, <3>2
  <2>2. CASE gateways[g] # copy
    BY <1>3, <2>2 DEF WriteListeners, GatewayFails, UpdateGatewayInDataplane
  <2> QED
    BY <2>1, <2>2
<1>4. CASE ~gatewayWorker.unmanaged
  BY <1>4 DEF ReconcileGateway
<1>5. CASE gatewayWorker.unmanaged
  <2> DEFINE now == ListenersNow(g, copy)
  <2>1. \/ ~copy.annotated /\ WriteGateway([copy EXCEPT !.annotated = TRUE])
        \/ service = Absent /\ GatewayFails(g)
        \/ ~isGatewayAccepted(copy) /\ WriteGateway([copy EXCEPT !.accepted = copy.gen, !.programmed = 0])
        \/ /\ ~isGatewayProgrammed(copy)
           /\ WriteListeners([copy EXCEPT !.status = now, !.stamp = second, !.programmed = copy.gen])
        \/ /\ isGatewayAccepted(copy) /\ isGatewayProgrammed(copy)
           /\ WriteListeners([copy EXCEPT !.status = now, !.stamp = second])
    BY <1>5 DEF ReconcileGateway, reconcileUnmanagedGateway
  <2> HIDE DEF now
  <2>2. /\ ~copy.annotated => [copy EXCEPT !.annotated = TRUE] # copy
        /\ ~isGatewayAccepted(copy) => [copy EXCEPT !.accepted = copy.gen, !.programmed = 0] # copy
        /\ ~isGatewayProgrammed(copy) =>
             [copy EXCEPT !.status = now, !.stamp = second, !.programmed = copy.gen] # copy
    <3>1. DOMAIN copy = GatewayFields
      BY <1>1 DEF GatewayAdmitted
    <3> HIDE DEF copy
    <3>2. /\ [copy EXCEPT !.annotated = TRUE].annotated = TRUE
          /\ [copy EXCEPT !.accepted = copy.gen, !.programmed = 0].accepted = copy.gen
          /\ [copy EXCEPT !.status = now, !.stamp = second, !.programmed = copy.gen].programmed = copy.gen
      BY <3>1 DEF GatewayFields
    <3> QED
      BY <3>2 DEF isGatewayAccepted, isGatewayProgrammed
  <2> QED
    BY <1>2, <1>3, <1>5, <2>1, <2>2
<1> QED
  BY <1>4, <1>5

(* It leaves the other Gateways alone. *)
LEMMA ReconcileFrame ==
    ASSUME TypeOK, ReconcileGateway, NEW g \in Gateways, g # gatewayWorker.obj
    PROVE  gateways'[g] = gateways[g] /\ gatewayCache'[g] = gatewayCache[g] /\ references'[g] = references[g]
<1> DEFINE h == gatewayWorker.obj
<1>1. /\ DOMAIN gateways = Gateways /\ DOMAIN gatewayCache = Gateways /\ DOMAIN references = Gateways
  BY DEF TypeOK
<1>2. ASSUME NEW gw, UpdateGatewayInDataplane(h, gw)
      PROVE  gatewayCache'[g] = gatewayCache[g] /\ references'[g] = references[g]
  BY <1>1, <1>2 DEF UpdateGatewayInDataplane, UpdateReferencesToSecret
<1>3. ASSUME GatewayFails(h)
      PROVE  UNCHANGED <<gateways, gatewayCache, references>>
  BY <1>3 DEF GatewayFails
<1>4. ASSUME NEW new, WriteGateway(new) \/ WriteListeners(new)
      PROVE  /\ gateways'[g] = gateways[g]
             /\ gatewayCache'[g] = gatewayCache[g] /\ references'[g] = references[g]
  <2>1. CASE gateways[h] = gatewayWorker.copy
    <3>1. gateways' = [gateways EXCEPT ![h] = new] /\ UpdateGatewayInDataplane(h, new)
      BY <1>4, <2>1 DEF WriteGateway, WriteListeners, Stored
    <3> QED
      BY <1>1, <1>2, <3>1
  <2>2. CASE gateways[h] # gatewayWorker.copy
    <3>1. GatewayFails(h) \/ (UpdateGatewayInDataplane(h, new) /\ UNCHANGED gateways)
      BY <1>4, <2>2 DEF WriteGateway, WriteListeners
    <3> QED
      BY <1>2, <1>3, <3>1
  <2> QED
    BY <2>1, <2>2
<1>5. \/ UpdateGatewayInDataplane(h, gatewayWorker.copy) /\ UNCHANGED gateways
      \/ GatewayFails(h)
      \/ \E new : WriteGateway(new) \/ WriteListeners(new)
  BY DEF ReconcileGateway, reconcileUnmanagedGateway
<1> QED
  BY <1>2, <1>3, <1>4, <1>5

(* The reconciliation of a Gateway that is as it was read leaves it served *)
(* or writes it; that of one that has changed since leaves the news of the *)
(* change.                                                                 *)
LEMMA ReconcileGatewayGateway ==
    ASSUME TypeOK, NEW g \in Gateways, GatewayInv(g), ReconcileGateway
    PROVE  GatewayInv(g)'
<1> DEFINE h == gatewayWorker.obj
           copy == gatewayWorker.copy
<1>1. /\ UNCHANGED <<scenario, class, service, missed, routeWorker>> /\ Settle
      /\ gatewayWorker' = Idle /\ gatewayWorker # Idle
  BY DEF ReconcileGateway, gatewayUnchanged
<1>2. /\ h \in Gateways /\ copy # Absent /\ DOMAIN gateways = Gateways
      /\ DOMAIN gatewayCache = Gateways /\ DOMAIN references = Gateways
  BY <1>1 DEF TypeOK
<1>3. settled' \subseteq settled /\ (inputs' # inputs => settled' = {})
  BY <1>1, SettleNone, SettleBound
<1>4. events \subseteq events' /\ gatewayQueue \subseteq gatewayQueue'
  BY ReconcileOutcome DEF GatewayFails, UpdateGatewayInDataplane
<1>5. CASE g # h
  <2>1. gateways'[g] = gateways[g] /\ gatewayCache'[g] = gatewayCache[g] /\ references'[g] = references[g]
    BY <1>2, <1>5, ReconcileFrame
  <2>2. Ours(g)' = Ours(g) /\ Exists(g)' = Exists(g) /\ Matches(g)' = Matches(g)
    BY <1>1, <2>1 DEF Ours, Exists, Matches, ClassOurs
  <2>3. GatewayNews(g) => GatewayNews(g)'
    BY <1>3, <1>4, <2>2 DEF GatewayNews
  <2>4. GatewayHandled(g) => GatewayHandled(g)'
    BY <1>1, <1>4, <1>5, <2>1, <2>2, SameReferences DEF GatewayHandled, GatewayServed, WorkingOn
  <2> QED
    BY <1>1, <1>3, <2>2, <2>3, <2>4 DEF GatewayInv
<1>6. CASE g = h
  <2>1. WorkingOn(gatewayWorker, g) /\ ~WorkingOn(gatewayWorker, g)'
    BY <1>1, <1>6 DEF WorkingOn
  <2>2. CASE events' = events \cup {GatewayEvent(g)} /\ gateways'[g] # gateways[g]
    BY <1>3, <2>2 DEF GatewayInv, GatewayNews, inputs, objectVars
  <2>3. CASE gateways'[g] = gateways[g]
    <3>1. Ours(g)' = Ours(g) /\ Exists(g)' = Exists(g) /\ Matches(g)' = Matches(g)
      BY <1>1, <2>3 DEF Ours, Exists, Matches, ClassOurs
    <3>2. GatewayNews(g) => GatewayNews(g)'
      BY <1>3, <1>4, <3>1 DEF GatewayNews
    <3>3. ASSUME GatewayCurrent(g)
          PROVE  GatewayServed(g)'
      <4>1. /\ Ours(g) /\ copy = gateways[g] /\ gateways'[g] = gateways[g]
            /\ gatewayWorker.unmanaged = class.unmanaged
        BY <1>6, <2>3, <3>3 DEF GatewayCurrent
      <4>2. CASE class.unmanaged /\ service = Absent /\ GatewayFails(g)
        BY <1>1, <3>1, <4>1, <4>2, ZenonT(30) DEF GatewayServed, GatewayFails
      <4>3. CASE /\ UpdateGatewayInDataplane(g, copy) /\ isGatewayAccepted(copy)
                 /\ class.unmanaged => isGatewayProgrammed(copy)
        <5>1. gatewayCache'[g] = copy.ver /\ ReferencesServed(g)'
          <6> DEFINE names == listSecretNamesReferredByGateway(copy)
                     missing == {n \in names : SecretStates[n] = "missing"}
          <6>1. /\ gatewayCache'[g] = copy.ver /\ UpdateReferencesToSecret(g, names)
                /\ missing # {} => g \in gatewayQueue'
            BY <1>2, <4>3 DEF UpdateGatewayInDataplane
          <6>2. Missing(g)' = missing /\ listSecretNamesReferredByGateway(gateways[g])' = names
            <7>1. gateways'[g] = copy
              BY <4>1
            <7>2. listSecretNamesReferredByGateway(gateways[g])' = names
              BY <7>1
            <7> HIDE DEF names
            <7> QED
              BY <7>2 DEF Missing
          <6>3. missing = {} => references'[g] = names
            BY <1>2, <6>1 DEF UpdateReferencesToSecret
          <6>4. missing # {} => missing \cap references'[g] # {}
            <7> SUFFICES ASSUME missing # {}
                         PROVE  missing \cap references'[g] # {}
              OBVIOUS
            <7>1. PICK first \in missing, found \in SUBSET (names \ missing) :
                    references' = [references EXCEPT ![g] = @ \cup found \cup {first}]
              BY <6>1 DEF UpdateReferencesToSecret
            <7> QED
              BY <1>2, <7>1
          <6> QED
            BY <6>1, <6>2, <6>3, <6>4 DEF ReferencesServed
        <5> QED
          BY <1>1, <3>1, <4>1, <4>3, <5>1 DEF GatewayServed
      <4>4. CASE ~class.unmanaged /\ ~isGatewayAccepted(copy)
        BY <1>1, <3>1, <4>1, <4>4 DEF GatewayServed
      <4> QED
        BY <1>6, <2>3, <4>1, <4>2, <4>3, <4>4, ReconcileOutcome
    <3> QED
      BY <1>1, <1>3, <2>1, <3>1, <3>2, <3>3 DEF GatewayInv, GatewayHandled
  <2> QED
    BY <1>6, <2>2, <2>3, ReconcileOutcome DEF GatewayFails
<1> QED
  BY <1>5, <1>6

(* Every step preserves OnlyMatching: a worker only takes Gateways that    *)
(* are to be reconciled.                                                   *)
LEMMA NextOnlyMatching == TypeOK /\ OnlyMatching /\ [Next]_vars => OnlyMatching'
<1> SUFFICES ASSUME TypeOK, OnlyMatching, [Next]_vars, NEW g \in Gateways, ~Matches(g)'
             PROVE  gatewayCache'[g] = Absent /\ references'[g] = {}
  BY DEF OnlyMatching
<1>1. CASE UNCHANGED <<scenario, gatewayCache, references>>
  BY <1>1 DEF OnlyMatching, Matches
<1>2. ASSUME NEW h \in Gateways, StartGateway(h)
      PROVE  gatewayCache'[g] = Absent /\ references'[g] = {}
  <2>1. /\ UNCHANGED scenario
        /\ gatewayCache' \in {gatewayCache, [gatewayCache EXCEPT ![h] = Absent]}
        /\ references' \in {references, [references EXCEPT ![h] = {}]}
    BY <1>2 DEF StartGateway, gatewayUnchanged
  <2> QED
    BY <2>1 DEF OnlyMatching, TypeOK, Matches
<1>3. CASE ReconcileGateway
  <2>1. UNCHANGED scenario /\ Matches(gatewayWorker.obj)
    BY <1>3 DEF ReconcileGateway, gatewayUnchanged, TypeOK
  <2>2. g # gatewayWorker.obj /\ ~Matches(g)
    BY <2>1 DEF Matches
  <2> QED
    BY <1>3, <2>2, ReconcileFrame DEF OnlyMatching
<1>4. CASE ReconcileRoute \/ \E r \in Routes : StartRoute(r)
  BY <1>1, <1>4 DEF ReconcileRoute, StartRoute, routeUnchanged
<1>5. CASE \E of \in Informers : DeliverStep(of)
  BY <1>1, <1>5 DEF DeliverStep, Deliver, cacheVars
<1>6. CASE ClassStep \/ OtherStep
  BY <1>1, <1>6 DEF ClassStep, OtherStep, workVars, cacheVars
<1>7. CASE \E h \in Gateways : GatewayStep(h)
  BY <1>1, <1>7 DEF GatewayStep, workVars, cacheVars
<1>8. CASE \E r \in Routes : RouteStep(r)
  BY <1>1, <1>8 DEF RouteStep, workVars, cacheVars
<1> QED
  BY <1>2, <1>3, <1>4, <1>5, <1>6, <1>7, <1>8, Steps

(* The steps of the route controllers leave the Gateways alone. *)
LEMMA RouteStepsGateway ==
    ASSUME TypeOK, NEW g \in Gateways, GatewayInv(g), NEW r \in Routes,
           RouteStep(r) \/ StartRoute(r) \/ ReconcileRoute
    PROVE  GatewayInv(g)'
<1>1. g # r
  BY ScenariosAssumption
<1>2. CASE RouteStep(r)
  BY <1>2, GatewayFrame DEF RouteStep, workVars, cacheVars
<1>3. CASE StartRoute(r)
  <2>1. /\ UNCHANGED <<scenario, class, gateways, service, events, gatewayQueue, gatewayWorker, gatewayCache,
                       references, missed>> /\ Settle
        /\ routeWorker' = Idle \/ \E gws : routeWorker' = RouteRead(r, routes[r], gws)
    BY <1>3 DEF StartRoute, routeUnchanged
  <2>2. Reading' \subseteq Reading \cup {r}
    <3>1. routeWorker' # Idle => routeWorker'.obj = r
      BY <2>1, RouteReadFields, SMT
    <3> QED
      BY <2>1, <3>1 DEF Reading
  <2>3. g \in settled' => g \in settled
    BY <1>1, <2>1, <2>2, SettleBound
  <2> QED
    BY <2>1, <2>3, GatewayFrame
<1>4. CASE ReconcileRoute
  <2>1. /\ UNCHANGED <<scenario, class, gateways, service, gatewayQueue, gatewayWorker, gatewayCache,
                       references, missed>> /\ Settle
        /\ routeWorker' = Idle
    BY <1>4 DEF ReconcileRoute, routeUnchanged
  <2>2. events \subseteq events'
    BY <1>4, StatusTypes
  <2>3. settled' \subseteq settled
    BY <2>1, SettleNone
  <2> QED
    BY <2>1, <2>2, <2>3, GatewayFrame
<1> QED
  BY <1>2, <1>3, <1>4

(* Every step preserves GatewayInv.                                        *)
LEMMA NextGatewayInv ==
    ASSUME TypeOK, OnlyMatching, NEW g \in Gateways, GatewayInv(g), [Next]_vars
    PROVE  GatewayInv(g)'
<1>1. CASE OtherStep
  BY <1>1, GatewayFrame DEF OtherStep, workVars, cacheVars
<1>2. CASE ReconcileRoute
  <2>1. routeWorker.obj \in Routes
    BY <1>2 DEF ReconcileRoute, TypeOK
  <2> QED
    BY <1>2, <2>1, RouteStepsGateway
<1> QED
  BY <1>1, <1>2, ClassStepGateway, GatewayStepGateway, DeliverStepGateway, StartGatewayGateway,
     ReconcileGatewayGateway, RouteStepsGateway, Steps

(* At the start every Gateway there is has an event waiting, and no other  *)
(* is in the caches.                                                       *)
LEMMA InitGatewayInv ==
    ASSUME Init, NEW g \in Gateways
    PROVE  GatewayInv(g) /\ OnlyMatching
<1>1. /\ settled = {} /\ gatewayWorker = Idle
      /\ gatewayCache[g] = Absent /\ references[g] = {}
      /\ Exists(g) => GatewayEvent(g) \in events
      /\ OnlyMatching
  BY DEF Init, OnlyMatching
<1> QED
  BY <1>1 DEF GatewayInv, GatewayHandled, GatewayServed, GatewayNews, WorkingOn, Ours

(* The types and the invariants of the controllers. *)
GatewaysInv == TypeOK /\ OnlyMatching /\ \A g \in Gateways : GatewayInv(g)

(* They hold in every state.                                               *)
LEMMA GatewaysInvariant == Spec => []GatewaysInv
<1>1. Init => GatewaysInv
  <2> SUFFICES ASSUME Init
               PROVE  GatewaysInv
    OBVIOUS
  <2>1. OnlyMatching
    BY DEF Init, OnlyMatching
  <2> QED
    BY <2>1, InitTypeOK, InitGatewayInv DEF GatewaysInv
<1>2. GatewaysInv /\ [Next]_vars => GatewaysInv'
  BY NextTypeOK, NextOnlyMatching, NextGatewayInv DEF GatewaysInv
<1> QED
  BY <1>1, <1>2, PTL DEF Spec

(* When all is processed, a Gateway of ours that exists is handled: its    *)
(* news have been taken in and its worker has ended.                       *)
LEMMA QuiescentGateway ==
    ASSUME GatewaysInv, Quiescent, NEW g \in Gateways
    PROVE  /\ (g \in missed /\ ~Ours(g)) \/ GatewayServed(g)
           /\ Ours(g) => GatewayServed(g)
<1>1. events = {} /\ gatewayQueue \subseteq settled /\ gatewayWorker = Idle
  BY DEF Quiescent
<1>2. ~GatewayNews(g) /\ ~WorkingOn(gatewayWorker, g)
  BY <1>1 DEF GatewayNews, WorkingOn
<1> QED
  BY <1>2 DEF GatewaysInv, GatewayInv, GatewayHandled

(* A managed Gateway that waits for the operator is not at rest. *)
LEMMA ServedAtRest ==
    ASSUME TypeOK, Quiescent, NEW g \in Gateways, Managing(g), GatewayServed(g)
    PROVE  /\ gatewayCache[g] = gateways[g].ver /\ ReferencesServed(g)
           /\ isGatewayAccepted(gateways[g]) /\ isGatewayProgrammed(gateways[g])
<1>1. Ours(g) /\ ~gateways[g].deleting /\ service # Absent /\ GatewayAdmitted(gateways[g])
  BY DEF Managing, Ours, TypeOK
<1>2. ~OperatorNeeded(g)
  BY DEF Quiescent
<1>3. ~class.unmanaged => isGatewayProgrammed(gateways[g])
  BY <1>1, <1>2 DEF OperatorNeeded, Ours
<1>4. isGatewayProgrammed(gateways[g]) => isGatewayAccepted(gateways[g])
  BY <1>1 DEF GatewayAdmitted, isGatewayProgrammed, isGatewayAccepted
<1> QED
  BY <1>1, <1>3, <1>4 DEF GatewayServed

(* The Gateways of ours are served, for every set of Gateways and routes   *)
(* and whatever the users do: when all is processed, each is in the object *)
(* cache in its present version, with exactly the Secrets it names in the  *)
(* reference cache if all of them exist, and else with one that does not,  *)
(* waiting to be tried again; and no other Gateway is there, unless its    *)
(* last event was filtered out (Reconcile of the GatewayReconciler, the    *)
(* watches of its SetupWithManager and UpdateReferencesToSecret).          *)
THEOREM GatewaysStayServed == Spec => []GatewaysServed
<1>1. GatewaysInv => GatewaysServed
  <2> SUFFICES ASSUME GatewaysInv, Quiescent, NEW g \in Gateways \ missed
               PROVE  /\ Managing(g) => gatewayCache[g] = gateways[g].ver /\ ReferencesServed(g)
                      /\ ~Ours(g) => gatewayCache[g] = Absent /\ references[g] = {}
    BY DEF GatewaysServed, Ours, ReferencesServed
  <2>1. GatewayServed(g) /\ TypeOK
    BY QuiescentGateway DEF GatewaysInv
  <2> QED
    BY <2>1, ServedAtRest DEF GatewayServed
<1> QED
  BY <1>1, GatewaysInvariant, PTL

(* A Gateway of ours is programmed in its present generation. *)
GatewaysProgrammed ==
    Quiescent => \A g \in Gateways : Managing(g) =>
        isGatewayAccepted(gateways[g]) /\ isGatewayProgrammed(gateways[g])

(* When all is processed and the publish Service is there, every Gateway   *)
(* of ours is accepted and programmed in its present generation: no order  *)
(* of events, refused writes and changes of the class leaves one behind    *)
(* (reconcileUnmanagedGateway; the operator for managed Gateways).         *)
THEOREM GatewaysGetProgrammed == Spec => []GatewaysProgrammed
<1>1. GatewaysInv => GatewaysProgrammed
  <2> SUFFICES ASSUME GatewaysInv, Quiescent, NEW g \in Gateways, Managing(g)
               PROVE  isGatewayAccepted(gateways[g]) /\ isGatewayProgrammed(gateways[g])
    BY DEF GatewaysProgrammed
  <2>1. GatewayServed(g) /\ TypeOK
    BY QuiescentGateway DEF GatewaysInv, Managing, Ours
  <2> QED
    BY <2>1, ServedAtRest
<1> QED
  BY <1>1, GatewaysInvariant, PTL

-----------------------------------------------------------------------------
(* Which routes a Gateway takes. *)

(* A parent accepts a route when a listener of it does. *)
LEMMA AcceptedMeansMatching ==
    ASSUME NEW gw, NEW route, NEW ref, AcceptedReason(gw, route, ref) = "Accepted"
    PROVE  Matching(gw, route, ref) # {}
<1> SUFFICES ASSUME Matching(gw, route, ref) = {}
             PROVE  FALSE
  OBVIOUS
<1>1. CASE OfType(gw, route, ref) # {}
  <2>1. AcceptedReason(gw, route, ref) = "NoMatchingListenerHostname"
    BY <1>1 DEF AcceptedReason
  <2> QED
    BY <2>1
<1>2. CASE OfType(gw, route, ref) = {}
  <2>1. AcceptedReason(gw, route, ref) \in {"NoMatchingParent", "NotAllowedByListeners"}
    BY <1>2 DEF AcceptedReason
  <2> QED
    BY <2>1
<1> QED
  BY <1>1, <1>2

(* The listener is in the section the route names, and fits one of its     *)
(* hostnames if it has any.                                                *)
LEMMA MatchingFits ==
    ASSUME NEW gw, NEW route, NEW ref, Matching(gw, route, ref) # {},
           route.hostnames # {}, route.kind \notin {"TCPRoute", "UDPRoute"}
    PROVE  \E i \in DOMAIN gw.listeners, h \in route.hostnames :
             /\ ref.section \in {NoSection, gw.listeners[i].name}
             /\ \/ gw.listeners[i].hostname = NoHostname
                \/ HostnamesIntersect(gw.listeners[i].hostname, h)
<1>1. PICK l \in Matching(gw, route, ref) : TRUE
  OBVIOUS
<1>2. l \in OnPort(gw, route, ref) /\ routeHostnamesIntersectsWithListenerHostname(route, l)
  BY DEF Matching, OfType
<1>3. l \in Ready(gw, route, ref) /\ SectionMatches(l, ref)
  BY <1>2 DEF OnPort, Named
<1>4. l \in Allowed(gw, route, ref)
  BY <1>3 DEF Ready, Supporting
<1>5. PICK i \in DOMAIN gw.listeners : l = gw.listeners[i]
  BY <1>4 DEF Allowed
<1>6. l.hostname = NoHostname \/ \E h \in route.hostnames : HostnamesIntersect(l.hostname, h)
  BY <1>2 DEF routeHostnamesIntersectsWithListenerHostname,
     listenerHostnameIntersectWithRouteHostnames
<1> QED
  BY <1>3, <1>5, <1>6 DEF SectionMatches

(* A hostname that fits a listener is kept by filterHostnames. *)
LEMMA FittingKept ==
    ASSUME NEW parents, NEW hostnames, NoHostname \notin hostnames,
           NEW j \in DOMAIN parents, NEW i \in DOMAIN parents[j].gw.listeners, NEW h \in hostnames,
           parents[j].section \in {NoSection, parents[j].gw.listeners[i].name},
           \/ parents[j].gw.listeners[i].hostname = NoHostname
           \/ HostnamesIntersect(parents[j].gw.listeners[i].hostname, h)
    PROVE  filterHostnames(parents, hostnames).match
<1>1. <<j, i>> \in FittingListeners(parents, h)
  BY SMT DEF FittingListeners, ListenersOf
<1>2. getMinimumHostnameIntersection(parents, h) # NoHostname
  <2>1. FittingListeners(parents, h) # {} /\ h # NoHostname
    BY <1>1
  <2> DEFINE first == CHOOSE x \in FittingListeners(parents, h) :
                        \A y \in FittingListeners(parents, h) : x[1] < y[1] \/ (x[1] = y[1] /\ x[2] <= y[2])
             hostname == ListenersOf(parents, first[1])[first[2]].hostname
  <2>2. getMinimumHostnameIntersection(parents, h) =
          IF hostname = NoHostname \/ HostnamesMatch(hostname, h) THEN h ELSE hostname
    BY <2>1 DEF getMinimumHostnameIntersection
  <2> HIDE DEF hostname
  <2> QED
    BY <2>1, <2>2
<1> DEFINE kept == {getMinimumHostnameIntersection(parents, x) : x \in hostnames} \ {NoHostname}
<1>3. kept # {}
  BY <1>2
<1>4. PICK names : filterHostnames(parents, hostnames) = [hostnames |-> names, match |-> kept # {}]
  BY DEF filterHostnames
<1> HIDE DEF kept
<1>5. filterHostnames(parents, hostnames).match = (kept # {})
  BY <1>4, SMT
<1> QED
  BY <1>3, <1>5, ZenonT(30)

(* What the filter of the hostnames leaves of obj. *)
Filtered(r, obj, parents) ==
    IF ControllerOf(KindOf(r)).full THEN filterHostnames(parents, obj.hostnames)
    ELSE [hostnames |-> obj.hostnames, match |-> TRUE]

(* The worker has read what the filter leaves. *)
LEMMA RouteReadFiltered ==
    ASSUME NEW r, NEW obj, NEW gws
    PROVE  RouteRead(r, obj, gws).filtered
             = Filtered(r, obj, [k \in DOMAIN gws |-> [gw |-> gateways[gws[k].gw], section |-> gws[k].section]])
<1> DEFINE filtered == Filtered(r, obj, [k \in DOMAIN gws |->
                                           [gw |-> gateways[gws[k].gw], section |-> gws[k].section]])
<1>1. PICK phase : RouteRead(r, obj, gws) = [phase |-> phase, obj |-> r, copy |-> obj, gws |-> gws,
                                             filtered |-> filtered]
  BY DEF RouteRead, Filtered
<1> HIDE DEF filtered
<1>2. RouteRead(r, obj, gws).filtered = filtered
  BY <1>1, SMT
<1> QED
  BY <1>2 DEF filtered

(* What it has read of the hostnames is what the route has left of them. *)
LEMMA RouteReadHostnames ==
    ASSUME NEW r, routes[r] # Absent
    PROVE  RouteRead(r, routes[r], getSupportedGatewayForRoute(r, routes[r])).filtered.hostnames
             = HostnamesLeft(r)
<1> DEFINE obj == routes[r]
           gws == getSupportedGatewayForRoute(r, obj)
           parents == [k \in DOMAIN gws |-> [gw |-> gateways[gws[k].gw], section |-> gws[k].section]]
           left == [k \in SupportedParents(r) |-> [gw |-> gateways[obj.parents[k].gw],
                                                   section |-> obj.parents[k].section]]
<1>1. DOMAIN gws = SupportedParents(r)
  BY DEF getSupportedGatewayForRoute, SupportedParents
<1>2. \A k \in DOMAIN gws : gws[k].gw = obj.parents[k].gw /\ gws[k].section = obj.parents[k].section
  BY DEF getSupportedGatewayForRoute
<1>3. parents = left
  <2> HIDE DEF gws
  <2> QED
    BY <1>1, <1>2
<1>4. RouteRead(r, obj, gws).filtered = Filtered(r, obj, parents)
  BY RouteReadFiltered
<1>5. HostnamesLeft(r) = IF ControllerOf(KindOf(r)).full THEN filterHostnames(left, obj.hostnames).hostnames
                         ELSE obj.hostnames
  BY DEF HostnamesLeft
<1>6. Filtered(r, obj, left).hostnames
        = IF ControllerOf(KindOf(r)).full THEN filterHostnames(left, obj.hostnames).hostnames ELSE obj.hostnames
  <2> HIDE DEF left, obj
  <2> QED
    BY DEF Filtered
<1> QED
  BY <1>3, <1>4, <1>5, <1>6

(* A route that a parent accepts passes the filter of the hostnames, which *)
(* only HTTPRoutes have.                                                   *)
LEMMA AcceptedPasses ==
    ASSUME TypeOK, NEW r \in Routes, routes[r] # Absent, NEW i \in OurParents(routes[r]),
           ReasonOf(r, i) = "Accepted"
    PROVE  RouteRead(r, routes[r], getSupportedGatewayForRoute(r, routes[r])).filtered.match
<1> DEFINE obj == routes[r]
           gws == getSupportedGatewayForRoute(r, obj)
           parents == [k \in DOMAIN gws |-> [gw |-> gateways[gws[k].gw], section |-> gws[k].section]]
           full == ControllerOf(KindOf(r)).full
<1>1. RouteRead(r, obj, gws).filtered.match
        = IF full THEN filterHostnames(parents, obj.hostnames).match ELSE TRUE
  <2>1. RouteRead(r, obj, gws).filtered = Filtered(r, obj, parents)
    BY RouteReadFiltered
  <2> HIDE DEF obj, gws, parents
  <2>2. CASE full
    BY <2>1, <2>2 DEF Filtered
  <2>3. CASE ~full
    <3>1. Filtered(r, obj, parents) = [hostnames |-> obj.hostnames, match |-> TRUE]
      BY <2>3 DEF Filtered
    <3> QED
      BY <2>1, <2>3, <3>1, SMT
  <2> QED
    BY <2>2, <2>3
<1>2. SUFFICES ASSUME full
               PROVE  filterHostnames(parents, obj.hostnames).match
  BY <1>1
<1>3. KindOf(r) = "HTTPRoute"
  <2>1. scenario.kind \in {"HTTPRoute", "GRPCRoute", "TLSRoute", "TCPRoute", "UDPRoute"}
    BY ScenariosAssumption DEF TypeOK
  <2> QED
    BY <1>2, <2>1 DEF KindOf, ControllerOf, RouteController, GRPCRoute, TLSRoute,
       TCPRoute, UDPRoute
<1>4. CASE obj.hostnames = {}
  <2>1. PICK names : filterHostnames(parents, obj.hostnames) = [hostnames |-> names, match |-> TRUE]
    BY <1>4, ZenonT(30) DEF filterHostnames
  <2> HIDE DEF obj, gws, parents, full
  <2> QED
    BY <2>1, SMT
<1>5. CASE obj.hostnames # {}
  <2> DEFINE ref == obj.parents[i]
             gw == gateways[ref.gw]
  <2>1. Matching(gw, View(r, obj), ref) # {}
    BY AcceptedMeansMatching DEF ReasonOf
  <2>2. View(r, obj).hostnames = obj.hostnames /\ View(r, obj).kind = "HTTPRoute"
    BY <1>3 DEF View
  <2>3. PICK k \in DOMAIN gw.listeners, h \in obj.hostnames :
          /\ ref.section \in {NoSection, gw.listeners[k].name}
          /\ gw.listeners[k].hostname = NoHostname \/ HostnamesIntersect(gw.listeners[k].hostname, h)
    BY <1>5, <2>1, <2>2, MatchingFits
  <2>4. i \in DOMAIN gws /\ gws[i].gw = ref.gw /\ gws[i].section = ref.section
    BY DEF getSupportedGatewayForRoute
  <2>5. i \in DOMAIN parents /\ parents[i].gw = gw /\ parents[i].section = ref.section
    BY <2>4, ZenonT(30)
  <2>6. NoHostname \notin obj.hostnames
    BY ZenonT(30) DEF TypeOK, RouteOK, RouteAdmitted
  <2> HIDE DEF parents, gws, gw, ref, obj
  <2> QED
    BY <2>3, <2>5, <2>6, FittingKept, ZenonT(30)
<1> QED
  BY <1>4, <1>5

-----------------------------------------------------------------------------
(* What a route's part in the caches depends on. *)

(* Neither the route nor a Gateway that it may be attached to changes. *)
RouteUntouched(r) ==
    /\ routes'[r] = routes[r] /\ UNCHANGED scenario
    /\ \A g \in Gateways : Matches(g) /\ Attached(r, g) =>
         gateways'[g] = gateways[g] /\ (Exists(g) => (ClassOurs' <=> ClassOurs))

(* Its parents of ours, and whether each accepts it, are the same.         *)
LEMMA UntouchedParents ==
    ASSUME TypeOK, NEW r \in Routes, RouteUntouched(r), routes[r] # Absent
    PROVE  /\ OurParents(routes[r])' = OurParents(routes[r])
           /\ \A i \in OurParents(routes[r]) :
                /\ gateways'[routes[r].parents[i].gw] = gateways[routes[r].parents[i].gw]
                /\ ReasonOf(r, i)' = ReasonOf(r, i)
<1> DEFINE parents == routes[r].parents
<1>1. \A i \in DOMAIN parents : parents[i].gw \in Gateways /\ Attached(r, parents[i].gw)
  BY DEF TypeOK, RouteOK, RouteAdmitted, Attached
<1>2. \A i \in DOMAIN parents : Matches(parents[i].gw)' <=> Matches(parents[i].gw)
  BY ZenonT(30) DEF RouteUntouched, Matches
<1>3. \A i \in DOMAIN parents : Matches(parents[i].gw) =>
        /\ gateways'[parents[i].gw] = gateways[parents[i].gw]
        /\ Exists(parents[i].gw) => (ClassOurs' <=> ClassOurs)
  BY <1>1 DEF RouteUntouched
<1>4. OurParents(routes[r])' = OurParents(routes[r])
  BY <1>2, <1>3 DEF OurParents, RouteUntouched, Exists
<1>5. \A i \in OurParents(routes[r]) : gateways'[parents[i].gw] = gateways[parents[i].gw]
  BY <1>3 DEF OurParents
<1>6. View(r, routes[r])' = View(r, routes[r])
  BY DEF View, KindOf, RouteUntouched
<1>7. \A i \in OurParents(routes[r]) : ReasonOf(r, i)' = ReasonOf(r, i)
  BY <1>5, <1>6 DEF ReasonOf, RouteUntouched
<1> QED
  BY <1>4, <1>5, <1>7

(* A worker would read the same. *)
LEMMA UntouchedRead ==
    ASSUME TypeOK, NEW r \in Routes, RouteUntouched(r), routes[r] # Absent
    PROVE  RouteRead(r, routes[r], getSupportedGatewayForRoute(r, routes[r]))'
             = RouteRead(r, routes[r], getSupportedGatewayForRoute(r, routes[r]))
<1> DEFINE obj == routes[r]
           gws == getSupportedGatewayForRoute(r, obj)
           parents == [k \in DOMAIN gws |-> [gw |-> gateways[gws[k].gw], section |-> gws[k].section]]
<1>1. obj' = obj /\ scenario' = scenario
  BY DEF RouteUntouched
<1>2. /\ OurParents(obj)' = OurParents(obj)
      /\ \A i \in OurParents(obj) : /\ gateways'[obj.parents[i].gw] = gateways[obj.parents[i].gw]
                                    /\ ReasonOf(r, i)' = ReasonOf(r, i)
  BY UntouchedParents
<1>3. gws' = gws
  <2>1. gws = [i \in OurParents(obj) |->
                 [gw |-> obj.parents[i].gw, section |-> obj.parents[i].section, reason |-> ReasonOf(r, i),
                  programmed |-> isGatewayProgrammed(gateways[obj.parents[i].gw])]]
    BY DEF getSupportedGatewayForRoute, ReasonOf
  <2>2. gws' = [i \in OurParents(obj) |->
                 [gw |-> obj.parents[i].gw, section |-> obj.parents[i].section, reason |-> ReasonOf(r, i)',
                  programmed |-> isGatewayProgrammed(gateways'[obj.parents[i].gw])]]
    BY <1>1, <1>2 DEF getSupportedGatewayForRoute, ReasonOf
  <2> QED
    BY <1>2, <2>1, <2>2
<1>4. DOMAIN gws = OurParents(obj) /\ \A k \in DOMAIN gws : gws[k].gw = obj.parents[k].gw
  BY DEF getSupportedGatewayForRoute
<1>5. parents' = parents
  <2>1. parents' = [k \in DOMAIN gws |-> [gw |-> gateways'[gws[k].gw], section |-> gws[k].section]]
    BY <1>3
  <2>2. \A k \in DOMAIN gws : gateways'[gws[k].gw] = gateways[gws[k].gw]
    BY <1>2, <1>4
  <2> HIDE DEF gws
  <2> QED
    BY <2>1, <2>2
<1>6. HasStale(r, obj)' = HasStale(r, obj) /\ KindOf(r)' = KindOf(r)
  BY <1>1 DEF HasStale, KindOf
<1> QED
  BY <1>1, <1>3, <1>5, <1>6 DEF RouteRead

(* Its Gateways and their verdicts are the same. *)
LEMMA UntouchedTaken ==
    ASSUME TypeOK, NEW r \in Routes, RouteUntouched(r)
    PROVE  /\ SupportedParents(r)' = SupportedParents(r)
           /\ GatewaysReady(r)' <=> GatewaysReady(r)
           /\ Taken(r)' <=> Taken(r)
<1>1. routes'[r] = routes[r]
  BY DEF RouteUntouched
<1>2. CASE routes[r] = Absent
  <2>1. SupportedParents(r)' = {} /\ SupportedParents(r) = {}
    BY <1>1, <1>2 DEF SupportedParents
  <2> QED
    BY <1>1, <1>2, <2>1 DEF GatewaysReady, Taken
<1>3. CASE routes[r] # Absent
  <2>1. SupportedParents(r) = OurParents(routes[r]) /\ SupportedParents(r)' = SupportedParents(r)
    BY <1>1, <1>3, UntouchedParents DEF SupportedParents
  <2>2. GatewaysReady(r)' <=> GatewaysReady(r)
    <3> DEFINE gw(i) == gateways[routes[r].parents[i].gw]
    <3>1. \A i \in SupportedParents(r) : gateways'[routes[r].parents[i].gw] = gw(i)
      BY <1>3, <2>1, UntouchedParents
    <3>2. \A i \in SupportedParents(r) : isGatewayProgrammed(gw(i))' <=> isGatewayProgrammed(gw(i))
      BY <1>1, <3>1, ZenonT(30) DEF isGatewayProgrammed
    <3> QED
      BY <2>1, <3>2 DEF GatewaysReady
  <2>3. Taken(r)' <=> Taken(r)
    <3>1. \A i \in SupportedParents(r) : ReasonOf(r, i)' = ReasonOf(r, i)
      BY <1>3, <2>1, UntouchedParents
    <3> QED
      BY <1>1, <2>1, <3>1 DEF Taken
  <2> QED
    BY <2>1, <2>2, <2>3
<1> QED
  BY <1>2, <1>3

(* It has the same hostnames left. *)
LEMMA UntouchedHostnames ==
    ASSUME TypeOK, NEW r \in Routes, RouteUntouched(r), routes[r] # Absent
    PROVE  HostnamesLeft(r)' = HostnamesLeft(r)
<1> DEFINE obj == routes[r]
           parents == [k \in SupportedParents(r) |-> [gw |-> gateways[obj.parents[k].gw],
                                                      section |-> obj.parents[k].section]]
<1>1. obj' = obj /\ scenario' = scenario
  BY DEF RouteUntouched
<1>2. SupportedParents(r) = OurParents(obj) /\ SupportedParents(r)' = SupportedParents(r)
  BY UntouchedTaken DEF SupportedParents
<1>3. \A k \in SupportedParents(r) : gateways'[obj.parents[k].gw] = gateways[obj.parents[k].gw]
  BY <1>2, UntouchedParents
<1>4. parents' = parents
  BY <1>1, <1>2, <1>3
<1>5. KindOf(r)' = KindOf(r)
  BY <1>1 DEF KindOf
<1>6. HostnamesLeft(r) = IF ControllerOf(KindOf(r)).full THEN filterHostnames(parents, obj.hostnames).hostnames
                         ELSE obj.hostnames
  BY DEF HostnamesLeft
<1>7. HostnamesLeft(r)' = IF ControllerOf(KindOf(r)').full
                          THEN filterHostnames(parents', obj'.hostnames).hostnames ELSE obj'.hostnames
  BY DEF HostnamesLeft
<1> HIDE DEF parents, obj
<1> QED
  BY <1>1, <1>4, <1>5, <1>6, <1>7

(* What is right for it to be in the cache is the same. *)
LEMMA UntouchedCached ==
    ASSUME TypeOK, NEW r \in Routes, RouteUntouched(r), routeCache'[r] = routeCache[r]
    PROVE  RightlyCached(r)' <=> RightlyCached(r)
<1>1. routes'[r] = routes[r]
  BY DEF RouteUntouched
<1>2. Taken(r) => HostnamesLeft(r)' = HostnamesLeft(r)
  BY UntouchedHostnames DEF Taken
<1> QED
  BY <1>1, <1>2, UntouchedTaken DEF RightlyCached, RouteEntry

-----------------------------------------------------------------------------
(* RouteInv is preserved. *)

(* By a step that leaves r and what is known of it alone. *)
LEMMA RouteFrame ==
    ASSUME TypeOK, NEW r \in Routes, RouteInv(r), RouteUntouched(r),
           WorkingOn(routeWorker, r)' <=> WorkingOn(routeWorker, r),
           WorkingOn(routeWorker, r) => routeWorker' = routeWorker,
           routeCache'[r] = routeCache[r], missed' = missed, events \subseteq events',
           r \in routeQueue => r \in routeQueue', r \in settled' => r \in settled
    PROVE  RouteInv(r)'
<1>1. RouteNews(r) => RouteNews(r)'
  <2>1. \A g \in Gateways : /\ Attached(r, g) => Attached(r, g)'
                            /\ Matches(g) => Matches(g)'
                            /\ Attached(r, g) /\ Matches(g) /\ Exists(g) => Exists(g)'
    BY DEF RouteUntouched, Attached, Matches, Exists
  <2> QED
    BY <2>1 DEF RouteNews
<1>2. RouteHandled(r) => RouteHandled(r)'
  <2>1. CASE WorkingOn(routeWorker, r)
    <3> SUFFICES ASSUME RouteCurrent(r)
                 PROVE  RouteCurrent(r)'
      BY <2>1 DEF RouteHandled
    <3>1. routes[r] # Absent /\ ~routes[r].deleting /\ routes'[r] = routes[r]
      BY DEF RouteCurrent, RouteUntouched
    <3> QED
      BY <2>1, <3>1, UntouchedRead, ZenonT(30) DEF RouteCurrent
  <2>2. CASE ~WorkingOn(routeWorker, r)
    BY <2>2, UntouchedCached DEF RouteHandled
  <2> QED
    BY <2>1, <2>2
<1> QED
  BY <1>1, <1>2 DEF RouteInv

(* By a change of the class: it is news to the routes of the Gateways. *)
LEMMA ClassStepRoute ==
    ASSUME TypeOK, NEW r \in Routes, RouteInv(r), ClassStep
    PROVE  RouteInv(r)'
<1>1. /\ UNCHANGED <<scenario, gateways, routes, routeQueue, routeWorker, routeCache, missed>>
      /\ events \subseteq events' /\ settled' \subseteq settled /\ (class' # class => settled' = {})
      /\ class' = class \/ ClassEvent(TRUE) \in events' \/ (~ClassOurs /\ ~ClassOurs')
  BY DEF ClassStep, workVars, cacheVars
<1>2. WorkingOn(routeWorker, r)' <=> WorkingOn(routeWorker, r)
  BY <1>1 DEF WorkingOn
<1>3. CASE ClassOurs' <=> ClassOurs
  <2>1. RouteUntouched(r)
    BY <1>1, <1>3 DEF RouteUntouched
  <2> QED
    BY <1>1, <1>2, <2>1, RouteFrame
<1>4. CASE ~(ClassOurs' <=> ClassOurs)
  <2>1. class' # class /\ ClassEvent(TRUE) \in events'
    BY <1>1, <1>4 DEF ClassOurs
  <2>2. CASE \E g \in Gateways : Matches(g) /\ Attached(r, g) /\ Exists(g)
    <3>1. RouteNews(r)'
      BY <1>1, <2>1, <2>2 DEF RouteNews, Matches, Attached, Exists
    <3> QED
      BY <1>1, <2>1, <3>1 DEF RouteInv
  <2>3. CASE ~\E g \in Gateways : Matches(g) /\ Attached(r, g) /\ Exists(g)
    <3>1. RouteUntouched(r)
      BY <1>1, <2>3 DEF RouteUntouched
    <3> QED
      BY <1>1, <1>2, <3>1, RouteFrame
  <2> QED
    BY <2>2, <2>3
<1> QED
  BY <1>3, <1>4

(* By a change of a Gateway, whoever makes it: it is news to its routes. *)
LEMMA GatewayChangeRoute ==
    ASSUME TypeOK, NEW r \in Routes, RouteInv(r), NEW g \in Gateways,
           UNCHANGED <<scenario, class, routes, routeQueue, routeWorker, routeCache, missed>>,
           \A h \in Gateways \ {g} : gateways'[h] = gateways[h],
           gateways'[g] # gateways[g] => GatewayEvent(g) \in events',
           events \subseteq events', r \in settled' => r \in settled, gateways' # gateways => settled' = {}
    PROVE  RouteInv(r)'
<1>1. /\ WorkingOn(routeWorker, r)' <=> WorkingOn(routeWorker, r)
      /\ ClassOurs' <=> ClassOurs
      /\ Matches(g)' <=> Matches(g)
      /\ Attached(r, g)' <=> Attached(r, g)
  BY DEF WorkingOn, ClassOurs, Matches, Attached
<1>2. CASE Matches(g) /\ Attached(r, g) /\ gateways'[g] # gateways[g]
  <2>1. RouteNews(r)' /\ settled' = {}
    BY <1>1, <1>2 DEF RouteNews
  <2> QED
    BY <2>1 DEF RouteInv
<1>3. CASE ~(Matches(g) /\ Attached(r, g) /\ gateways'[g] # gateways[g])
  <2>1. RouteUntouched(r)
    BY <1>1, <1>3 DEF RouteUntouched
  <2> QED
    BY <1>1, <2>1, RouteFrame
<1> QED
  BY <1>2, <1>3

(* An event of a route is news of it. *)
LEMMA RouteEventNews ==
    ASSUME NEW r \in Routes, NEW old, NEW new, RouteEvent(r, old, new) \in events'
    PROVE  RouteNews(r)'
<1>1. RouteEvent(r, old, new).of = "Route" /\ RouteEvent(r, old, new).obj = r
  BY DEF RouteEvent
<1> QED
  BY <1>1, ZenonT(30) DEF RouteNews

(* By a user's change of a route: it is news to the route, and nothing to  *)
(* the others.                                                             *)
LEMMA RouteStepRoute ==
    ASSUME TypeOK, NEW r \in Routes, RouteInv(r), NEW q \in Routes, RouteStep(q)
    PROVE  RouteInv(r)'
<1>1. /\ UNCHANGED <<scenario, class, gateways, routeQueue, routeWorker, routeCache, missed>>
      /\ events' = events \cup {RouteEvent(q, routes[q], routes'[q])}
      /\ settled' \subseteq settled /\ (routes' # routes => settled' = {})
      /\ routes' = [routes EXCEPT ![q] = routes'[q]] /\ DOMAIN routes = Routes
  BY DEF RouteStep, workVars, cacheVars, TypeOK
<1>2. CASE routes'[r] = routes[r]
  <2>1. RouteUntouched(r) /\ (WorkingOn(routeWorker, r)' <=> WorkingOn(routeWorker, r))
    BY <1>1, <1>2 DEF RouteUntouched, ClassOurs, WorkingOn
  <2> QED
    BY <1>1, <2>1, RouteFrame
<1>3. CASE routes'[r] # routes[r]
  <2>1. r = q /\ settled' = {}
    BY <1>1, <1>3
  <2>2. RouteNews(r)'
    BY <1>1, <2>1, RouteEventNews
  <2> QED
    BY <2>1, <2>2 DEF RouteInv
<1> QED
  BY <1>2, <1>3

(* By a delivery: what is about a Gateway of r's wakes r, and what is      *)
(* about r wakes it or is filtered out, and r counts as missed.            *)
LEMMA DeliverStepRoute ==
    ASSUME TypeOK, NEW r \in Routes, RouteInv(r), NEW of \in Informers, DeliverStep(of)
    PROVE  RouteInv(r)'
<1> DEFINE delivered == {e \in events : e.of = of}
           gatewaysWoken == UNION {GatewaysWoken(e) : e \in delivered}
           routesWoken == UNION {RoutesWoken(e) : e \in delivered}
           about == IF of = "GatewayClass" THEN {} ELSE {e.obj : e \in delivered}
<1>1. /\ UNCHANGED <<scenario, class, gateways, routes, routeWorker, routeCache>>
      /\ events' = events \ delivered /\ settled' \subseteq settled
      /\ routeQueue' = routeQueue \cup routesWoken
  BY ZenonT(30) DEF DeliverStep, Deliver, clusterVars, objectVars, cacheVars
<1>2. missed' = (missed \cup about) \ (gatewaysWoken \cup routesWoken)
  <2> DEFINE woken == UNION {GatewaysWoken(e) \cup RoutesWoken(e) : e \in delivered}
  <2>1. missed' = (missed \cup about) \ woken
    BY DEF DeliverStep, Deliver
  <2>2. \A x : x \in woken <=> x \in gatewaysWoken \/ x \in routesWoken
    BY SMT
  <2> QED
    BY <2>1, <2>2
<1>3. of \in {"GatewayClass", "Gateway", "Route"} /\ Gateways \cap Routes = {}
  BY ScenariosAssumption DEF Informers
<1>4. gatewaysWoken \subseteq Gateways
  <2> SUFFICES ASSUME NEW e \in delivered
               PROVE  GatewaysWoken(e) \subseteq Gateways
    OBVIOUS
  <2>1. CASE of = "Route"
    <3>1. GatewaysWoken(e) = listGatewaysForHTTPRoute(e)
      BY <2>1 DEF GatewaysWoken
    <3> QED
      BY <3>1 DEF listGatewaysForHTTPRoute
  <2>2. CASE of = "Gateway"
    <3>1. GatewaysWoken(e) = {g \in {e.obj} : gatewayHasMatchingGatewayClass(g)} /\ e.obj \in Gateways
      BY <2>2 DEF GatewaysWoken, TypeOK
    <3> QED
      BY <3>1
  <2>3. CASE of = "GatewayClass"
    <3>1. GatewaysWoken(e) = listGatewaysForGatewayClass(e)
      BY <2>3 DEF GatewaysWoken
    <3> QED
      BY <3>1 DEF listGatewaysForGatewayClass
  <2> QED
    BY <1>3, <2>1, <2>2, <2>3
<1>5. RouteHandled(r) => RouteHandled(r)'
  <2>1. RouteUntouched(r) /\ (WorkingOn(routeWorker, r)' <=> WorkingOn(routeWorker, r))
    BY <1>1 DEF RouteUntouched, ClassOurs, WorkingOn
  <2>2. RightlyCached(r) => RightlyCached(r)'
    BY <1>1, <2>1, UntouchedCached
  <2>3. RouteCurrent(r) => RouteCurrent(r)'
    BY <1>1, <2>1, UntouchedRead DEF RouteCurrent
  <2> QED
    BY <2>1, <2>2, <2>3 DEF RouteHandled
<1>6. r \in routesWoken => RouteNews(r)' \/ RouteHandled(r)'
  BY <1>1, <1>5 DEF RouteNews, RouteInv
<1>7. ASSUME NEW e \in events, e.of = "Route", e.obj = r, r \notin routesWoken
      PROVE  RouteNews(r)' \/ r \in missed'
  <2>1. CASE of # "Route"
    <3>1. e \in events'
      BY <1>1, <1>7, <2>1
    <3> QED
      BY <1>7, <3>1 DEF RouteNews
  <2>2. CASE of = "Route"
    BY <1>2, <1>3, <1>4, <1>7, <2>2
  <2> QED
    BY <2>1, <2>2
<1>8. ASSUME NEW g \in Gateways, Matches(g), Attached(r, g), GatewayEvent(g) \in events,
             r \notin routesWoken
      PROVE  RouteNews(r)'
  <2>1. CASE of # "Gateway"
    <3>1. GatewayEvent(g) \in events'
      BY <1>1, <1>8, <2>1 DEF GatewayEvent
    <3> QED
      BY <1>1, <1>8, <3>1 DEF RouteNews, Matches, Attached
  <2>2. CASE of = "Gateway"
    <3>1. GatewayEvent(g) \in delivered /\ GatewayEvent(g).of = "Gateway" /\ GatewayEvent(g).obj = g
      BY <1>8, <2>2 DEF GatewayEvent
    <3>2. RoutesWoken(GatewayEvent(g)) = listHTTPRoutesForGateway(g)
      BY <3>1 DEF RoutesWoken
    <3>3. r \in listHTTPRoutesForGateway(g)
      BY <1>8 DEF listHTTPRoutesForGateway
    <3> QED
      BY <1>8, <3>1, <3>2, <3>3
  <2> QED
    BY <2>1, <2>2
<1>9. ASSUME NEW g \in Gateways, Matches(g), Attached(r, g), ClassEvent(TRUE) \in events, Exists(g),
             r \notin routesWoken
      PROVE  RouteNews(r)'
  <2>1. CASE of # "GatewayClass"
    <3>1. ClassEvent(TRUE) \in events'
      BY <1>1, <1>9, <2>1 DEF ClassEvent
    <3> QED
      BY <1>1, <1>9, <3>1 DEF RouteNews, Matches, Attached, Exists
  <2>2. CASE of = "GatewayClass"
    <3>1. ClassEvent(TRUE) \in delivered /\ ClassEvent(TRUE).of = "GatewayClass" /\ ClassEvent(TRUE).ours = TRUE
      BY <1>9, <2>2 DEF ClassEvent
    <3>2. RoutesWoken(ClassEvent(TRUE)) = listHTTPRoutesForGatewayClass(ClassEvent(TRUE))
      BY <3>1 DEF RoutesWoken
    <3>3. r \in listHTTPRoutesForGatewayClass(ClassEvent(TRUE))
      BY <1>9, <3>1 DEF listHTTPRoutesForGatewayClass
    <3> QED
      BY <1>9, <3>1, <3>2, <3>3
  <2> QED
    BY <2>1, <2>2
<1>10. r \in routeQueue \ settled => RouteNews(r)'
  BY <1>1 DEF RouteNews
<1>11. r \in missed /\ r \notin routesWoken => r \in missed'
  BY <1>2, <1>3, <1>4
<1>12. RouteNews(r)' \/ r \in missed' \/ RouteHandled(r)'
  BY <1>5, <1>6, <1>7, <1>8, <1>9, <1>10, <1>11 DEF RouteInv, RouteNews
<1>13. r \in settled' => RouteHandled(r)'
  BY <1>1, <1>5 DEF RouteInv
<1> QED
  BY <1>12, <1>13 DEF RouteInv

(* A worker that starts reads the route as it is, or drops it from the     *)
(* cache when it is gone.                                                  *)
LEMMA StartRouteRoute ==
    ASSUME TypeOK, NEW r \in Routes, RouteInv(r), NEW q \in Routes, StartRoute(q)
    PROVE  RouteInv(r)'
<1> DEFINE gone == routes[q] = Absent \/ routes[q].deleting
           read == RouteRead(q, routes[q], getSupportedGatewayForRoute(q, routes[q]))
<1>1. /\ UNCHANGED <<scenario, class, gateways, routes, events, gatewayWorker, missed>> /\ Settle
      /\ routeWorker = Idle /\ q \in routeQueue \ settled /\ routeQueue' = routeQueue \ {q}
      /\ gone => routeWorker' = Idle /\ routeCache' = [routeCache EXCEPT ![q] = Absent]
      /\ ~gone => routeWorker' = read /\ routeCache' = routeCache
  BY DEF StartRoute, routeUnchanged
<1>2. read # Idle /\ read.obj = q
  BY RouteReadFields, SMT
<1>3. \A x \in Routes : RouteUntouched(x)
  BY <1>1 DEF RouteUntouched, ClassOurs
<1> HIDE DEF read
<1>4. Reading' \subseteq Reading \cup {q} /\ (gone => Reading' \subseteq Reading)
  BY <1>1, <1>2 DEF Reading
<1>5. settled' \subseteq settled \cup {q} /\ (gone => settled' \subseteq settled)
  BY <1>1, <1>4, SettleBound
<1>6. CASE r # q
  <2>1. routeCache'[r] = routeCache[r]
    BY <1>1, <1>6 DEF TypeOK
  <2>2. ~WorkingOn(routeWorker, r) /\ ~WorkingOn(routeWorker, r)'
    BY <1>1, <1>2, <1>6 DEF WorkingOn
  <2> QED
    BY <1>1, <1>3, <1>5, <1>6, <2>1, <2>2, RouteFrame
<1>7. CASE r = q /\ gone
  <2>1. routeCache'[r] = Absent /\ ~WorkingOn(routeWorker, r)' /\ r \notin settled'
    BY <1>1, <1>5, <1>7 DEF TypeOK, WorkingOn
  <2>2. ~Taken(r)'
    BY <1>1, <1>7 DEF Taken
  <2>3. RightlyCached(r)'
    BY <2>1, <2>2 DEF RightlyCached
  <2> QED
    BY <2>1, <2>3 DEF RouteInv, RouteHandled
<1>8. CASE r = q /\ ~gone
  <2>1. WorkingOn(routeWorker, r)'
    BY <1>1, <1>2, <1>8 DEF WorkingOn
  <2>2. read' = read
    BY <1>3, <1>8, UntouchedRead DEF read
  <2>3. RouteCurrent(r)'
    BY <1>1, <1>8, <2>2 DEF RouteCurrent, read
  <2> QED
    BY <2>1, <2>3 DEF RouteInv, RouteHandled
<1> QED
  BY <1>6, <1>7, <1>8

(* The reconciliation of a route that is as it was read, and that it does  *)
(* not write, leaves it rightly cached.                                    *)
LEMMA CurrentServes ==
    ASSUME TypeOK, NEW r \in Routes, ReconcileRoute, routeWorker.obj = r, RouteCurrent(r),
           routes'[r] = routes[r]
    PROVE  RightlyCached(r)'
<1> DEFINE obj == routes[r]
           gws == getSupportedGatewayForRoute(r, obj)
<1>1. /\ obj # Absent /\ ~obj.deleting /\ RouteOK(obj)
      /\ routeWorker = RouteRead(r, obj, gws) /\ DOMAIN routeCache = Routes /\ DOMAIN routes = Routes
  BY DEF RouteCurrent, TypeOK
<1>2. /\ routeWorker.copy = obj /\ routeWorker.gws = gws
      /\ routeWorker.phase \in {"orphan", "stale", "wait", "write"}
      /\ routeWorker.phase = "orphan" <=> DOMAIN gws = {}
      /\ routeWorker.phase = "stale" => HasStale(r, obj)
      /\ routeWorker.phase = "wait" => \E i \in DOMAIN gws : ~gws[i].programmed
  <2> DEFINE w == RouteRead(r, obj, gws)
  <2>1. routeWorker = w
    BY <1>1
  <2> HIDE DEF obj, gws
  <2>2. w.copy = obj /\ w.gws = gws
    BY RouteReadFields, SMT
  <2>3. /\ w.phase \in {"orphan", "stale", "wait", "write"}
        /\ w.phase = "orphan" <=> DOMAIN gws = {}
        /\ w.phase = "stale" => HasStale(r, obj)
        /\ w.phase = "wait" => \E i \in DOMAIN gws : ~gws[i].programmed
    BY RouteReadPhase
  <2> HIDE DEF w
  <2> QED
    BY <2>1, <2>2, <2>3
<1>3. RouteUntouched(r)
  BY DEF ReconcileRoute, routeUnchanged, RouteUntouched, ClassOurs
<1>4. SupportedParents(r) = DOMAIN gws
  BY <1>1 DEF SupportedParents, getSupportedGatewayForRoute
<1>5. GatewaysReady(r) => \A i \in DOMAIN gws : gws[i].programmed
  <2> SUFFICES ASSUME GatewaysReady(r), NEW i \in DOMAIN gws
               PROVE  gws[i].programmed
    OBVIOUS
  <2>1. isGatewayProgrammed(gateways[obj.parents[i].gw])
    BY <1>4 DEF GatewaysReady
  <2>2. gws[i].programmed = isGatewayProgrammed(gateways[obj.parents[i].gw])
    BY DEF getSupportedGatewayForRoute
  <2> QED
    BY <2>1, <2>2, ZenonT(30)
<1>6. \A i \in DOMAIN gws : gws[i].reason = ReasonOf(r, i)
  BY DEF getSupportedGatewayForRoute, ReasonOf
<1>7. Taken(r) <=> isRouteAccepted(gws)
  BY <1>1, <1>4, <1>6 DEF Taken, isRouteAccepted
<1>8. isRouteAccepted(gws) => routeWorker.filtered.match
  <2> SUFFICES ASSUME NEW i \in DOMAIN gws, gws[i].reason = "Accepted"
               PROVE  routeWorker.filtered.match
    BY DEF isRouteAccepted
  <2>1. i \in OurParents(obj)
    BY ZenonT(30) DEF getSupportedGatewayForRoute
  <2> QED
    BY <1>1, <1>6, <2>1, AcceptedPasses
<1> HIDE DEF gws, obj
<1>9. CASE routeWorker.phase = "orphan"
  <2>1. ensureGatewayReferenceStatusRemoved
    BY <1>9 DEF ReconcileRoute
  <2>2. routeCache' = [routeCache EXCEPT ![r] = Absent]
    BY <1>2, <2>1 DEF ensureGatewayReferenceStatusRemoved, obj
  <2>3. routeCache'[r] = Absent /\ SupportedParents(r)' = {}
    BY <1>1, <1>2, <1>3, <1>4, <1>9, <2>2, UntouchedTaken, ZenonT(30)
  <2> QED
    BY <2>3 DEF RightlyCached
<1>10. CASE routeWorker.phase = "stale"
  <2>1. UpdateRouteStatus(ensureNoStaleParentStatus(obj))
    BY <1>2, <1>10 DEF ReconcileRoute, PruneStaleParents
  <2>2. routes' = [routes EXCEPT ![r].status = ensureNoStaleParentStatus(obj)]
    BY <1>2, <2>1 DEF UpdateRouteStatus, obj
  <2>3. routes'[r].status = ensureNoStaleParentStatus(obj)
    BY <1>1, <2>2 DEF obj, RouteOK, RouteFields
  <2>4. ensureNoStaleParentStatus(obj) # obj.status
    BY <1>2, <1>10 DEF HasStale
  <2> QED
    BY <2>3, <2>4 DEF obj
<1>11. CASE routeWorker.phase = "wait"
  <2>1. SupportedParents(r)' # {} /\ ~GatewaysReady(r)'
    BY <1>2, <1>3, <1>4, <1>5, <1>11, UntouchedTaken, ZenonT(30)
  <2> QED
    BY <2>1 DEF RightlyCached
<1>12. CASE routeWorker.phase = "write"
  <2>1. ProgramRoute
    BY <1>12 DEF ReconcileRoute
  <2>2. routeCache' = WriteRoute(isRouteAccepted(gws) /\ routeWorker.filtered.match)
    BY <1>2, <2>1 DEF ProgramRoute
  <2>3. routeWorker.filtered.hostnames = HostnamesLeft(r)
    BY <1>1, RouteReadHostnames DEF gws, obj
  <2>4. routeCache'[r] = IF Taken(r) THEN RouteEntry(obj, HostnamesLeft(r)) ELSE Absent
    BY <1>1, <1>2, <1>7, <1>8, <2>2, <2>3 DEF WriteRoute
  <2>5. SupportedParents(r)' # {} /\ (Taken(r)' <=> Taken(r)) /\ routes'[r] = obj
    BY <1>2, <1>3, <1>4, <1>12, UntouchedTaken DEF obj
  <2>6. HostnamesLeft(r)' = HostnamesLeft(r)
    BY <1>1, <1>3, UntouchedHostnames DEF obj
  <2> QED
    BY <2>4, <2>5, <2>6 DEF RightlyCached, RouteEntry
<1> QED
  BY <1>2, <1>9, <1>10, <1>11, <1>12

(* A reconciliation leaves the cache of the other routes alone. *)
LEMMA ReconcileRouteFrame ==
    ASSUME TypeOK, ReconcileRoute, NEW r \in Routes, r # routeWorker.obj
    PROVE  routeCache'[r] = routeCache[r]
<1>1. /\ DOMAIN routeCache = Routes /\ routeWorker # Idle
      /\ routeWorker.phase \in {"orphan", "stale", "wait", "write"}
  BY DEF TypeOK, ReconcileRoute
<1>2. CASE routeWorker.phase = "orphan"
  <2>1. ensureGatewayReferenceStatusRemoved
    BY <1>2 DEF ReconcileRoute
  <2> QED
    BY <1>1, <2>1 DEF ensureGatewayReferenceStatusRemoved
<1>3. CASE routeWorker.phase \in {"stale", "wait"}
  BY <1>3 DEF ReconcileRoute, PruneStaleParents
<1>4. CASE routeWorker.phase = "write"
  <2>1. ProgramRoute
    BY <1>4 DEF ReconcileRoute
  <2> QED
    BY <1>1, <2>1 DEF ProgramRoute, WriteRoute
<1> QED
  BY <1>1, <1>2, <1>3, <1>4

(* The reconciliation of a route writes its status, which is news, or      *)
(* leaves it rightly cached; that of a route that has changed since it was *)
(* read leaves the news of the change.                                     *)
LEMMA ReconcileRouteRoute ==
    ASSUME TypeOK, NEW r \in Routes, RouteInv(r), ReconcileRoute
    PROVE  RouteInv(r)'
<1> DEFINE q == routeWorker.obj
<1>1. /\ UNCHANGED <<scenario, class, gateways, service, gatewayWorker, missed>> /\ Settle
      /\ routeWorker' = Idle /\ routeWorker # Idle
  BY DEF ReconcileRoute, routeUnchanged
<1>2. q \in Routes /\ DOMAIN routes = Routes
  BY <1>1 DEF TypeOK
<1>3. settled' \subseteq settled /\ (routes' # routes => settled' = {})
  BY <1>1, SettleNone, SettleBound DEF inputs, objectVars
<1>4. events \subseteq events' /\ routeQueue \subseteq routeQueue'
  BY StatusTypes
<1>5. CASE r # q
  <2>1. routes'[r] = routes[r]
    BY <1>2, <1>5, StatusTypes, ZenonT(30)
  <2>2. RouteUntouched(r)
    BY <1>1, <2>1 DEF RouteUntouched, ClassOurs
  <2>3. ~WorkingOn(routeWorker, r) /\ ~WorkingOn(routeWorker, r)'
    BY <1>1, <1>5 DEF WorkingOn
  <2> QED
    BY <1>1, <1>3, <1>4, <1>5, <2>2, <2>3, ReconcileRouteFrame, RouteFrame
<1>6. CASE r = q /\ routes'[r] # routes[r]
  <2>1. RouteNews(r)' /\ settled' = {}
    BY <1>3, <1>6, StatusTypes, RouteEventNews
  <2> QED
    BY <2>1 DEF RouteInv
<1>7. CASE r = q /\ routes'[r] = routes[r]
  <2>1. WorkingOn(routeWorker, r) /\ ~WorkingOn(routeWorker, r)'
    BY <1>1, <1>7 DEF WorkingOn
  <2>2. RouteNews(r) => RouteNews(r)'
    BY <1>1, <1>3, <1>4, <1>7, ZenonT(30) DEF RouteNews, Matches, Attached, Exists
  <2>3. RouteHandled(r) => RouteHandled(r)'
    BY <1>7, <2>1, CurrentServes DEF RouteHandled
  <2> QED
    BY <1>1, <1>3, <2>2, <2>3 DEF RouteInv
<1> QED
  BY <1>5, <1>6, <1>7

(* By the steps of the Gateway controller. *)
LEMMA GatewayControllerRoute ==
    ASSUME TypeOK, NEW r \in Routes, RouteInv(r), NEW g \in Gateways,
           GatewayStep(g) \/ StartGateway(g) \/ (ReconcileGateway /\ gatewayWorker.obj = g)
    PROVE  RouteInv(r)'
<1>1. r # g /\ DOMAIN gateways = Gateways
  BY ScenariosAssumption DEF TypeOK
<1>2. CASE GatewayStep(g)
  <2>1. /\ UNCHANGED <<scenario, class, routes, routeQueue, routeWorker, routeCache, missed>>
        /\ events' = events \cup {GatewayEvent(g)}
        /\ settled' \subseteq settled /\ (gateways' # gateways => settled' = {})
        /\ gateways' = [gateways EXCEPT ![g] = gateways'[g]]
    BY <1>2 DEF GatewayStep, workVars, cacheVars
  <2>2. \A h \in Gateways \ {g} : gateways'[h] = gateways[h]
    BY <1>1, <2>1
  <2> QED
    BY <2>1, <2>2, GatewayChangeRoute
<1>3. CASE StartGateway(g)
  <2>1. /\ UNCHANGED <<scenario, class, gateways, routes, routeQueue, routeWorker, routeCache, missed, events>>
        /\ Settle
        /\ \/ gatewayWorker' = Idle
           \/ gatewayWorker' = [phase |-> "read", obj |-> g, copy |-> gateways[g], unmanaged |-> class.unmanaged]
    BY <1>3 DEF StartGateway, gatewayUnchanged
  <2>2. Reading' \subseteq Reading \cup {g}
    BY <2>1, SMT DEF Reading
  <2>3. r \in settled' => r \in settled
    BY <1>1, <2>1, <2>2, SettleBound
  <2> QED
    BY <2>1, <2>3, GatewayChangeRoute
<1>4. CASE ReconcileGateway /\ gatewayWorker.obj = g
  <2>1. /\ UNCHANGED <<scenario, class, routes, routeQueue, routeWorker, routeCache, missed>>
        /\ Settle /\ gatewayWorker' = Idle
    BY <1>4 DEF ReconcileGateway, gatewayUnchanged
  <2>2. settled' \subseteq settled /\ (gateways' # gateways => settled' = {})
    BY <2>1, SettleNone, SettleBound DEF inputs, objectVars
  <2>3. \A h \in Gateways \ {g} : gateways'[h] = gateways[h]
    BY <1>4, ReconcileFrame
  <2>4. /\ events \subseteq events'
        /\ gateways'[g] # gateways[g] => GatewayEvent(g) \in events'
    BY <1>4, ReconcileOutcome DEF GatewayFails
  <2> QED
    BY <2>1, <2>2, <2>3, <2>4, GatewayChangeRoute
<1> QED
  BY <1>2, <1>3, <1>4

(* Every step preserves RouteInv. *)
LEMMA NextRouteInv ==
    ASSUME TypeOK, NEW r \in Routes, RouteInv(r), [Next]_vars
    PROVE  RouteInv(r)'
<1>1. CASE OtherStep
  <2>1. /\ UNCHANGED <<scenario, class, gateways, routes, events, routeWorker, routeCache, missed>>
        /\ routeQueue \subseteq routeQueue' /\ settled' \subseteq settled
    BY <1>1 DEF OtherStep, workVars, cacheVars
  <2>2. RouteUntouched(r) /\ (WorkingOn(routeWorker, r)' <=> WorkingOn(routeWorker, r))
    BY <2>1 DEF RouteUntouched, ClassOurs, WorkingOn
  <2> QED
    BY <2>1, <2>2, RouteFrame
<1>2. CASE ReconcileGateway
  <2>1. gatewayWorker.obj \in Gateways
    BY <1>2 DEF ReconcileGateway, TypeOK
  <2> QED
    BY <1>2, <2>1, GatewayControllerRoute
<1> QED
  BY <1>1, <1>2, ClassStepRoute, GatewayControllerRoute, RouteStepRoute, DeliverStepRoute,
     StartRouteRoute, ReconcileRouteRoute, Steps

(* At the start every route there is has an event waiting, and no other is *)
(* in the cache.                                                           *)
LEMMA InitRouteInv ==
    ASSUME Init, NEW r \in Routes
    PROVE  RouteInv(r)
<1>1. settled = {} /\ routeWorker = Idle /\ routeCache[r] = Absent
  BY DEF Init
<1>2. CASE routes[r] = Absent
  BY <1>1, <1>2 DEF RouteInv, RouteHandled, RightlyCached, SupportedParents, WorkingOn
<1>3. CASE routes[r] # Absent
  <2>1. RouteEvent(r, Absent, routes[r]) \in events
    BY <1>3 DEF Init
  <2>2. RouteEvent(r, Absent, routes[r]).of = "Route" /\ RouteEvent(r, Absent, routes[r]).obj = r
    BY DEF RouteEvent
  <2> QED
    BY <1>1, <2>1, <2>2 DEF RouteInv, RouteNews
<1> QED
  BY <1>2, <1>3

(* When all is processed, a route is in the object cache in its present    *)
(* version exactly when a programmed Gateway of ours accepts it, for every *)
(* set of Gateways, routes and scenarios: no interleaving of a change of   *)
(* the class, a Gateway or the route with the workers that have read them  *)
(* before leaves a route behind, but for the events that the controllers'  *)
(* predicates filter out (Reconcile of the route controllers).             *)
THEOREM RoutesStayServed == Spec => []RoutesServed
<1> DEFINE Inv == TypeOK /\ \A r \in Routes : RouteInv(r)
<1>1. Init => Inv
  BY InitTypeOK, InitRouteInv
<1>2. Inv /\ [Next]_vars => Inv'
  BY NextTypeOK, NextRouteInv
<1>3. Inv => RoutesServed
  <2> SUFFICES ASSUME Inv, Quiescent, NEW r \in Routes \ missed
               PROVE  RightlyCached(r)
    BY DEF RoutesServed
  <2>1. events = {} /\ routeQueue \subseteq settled /\ routeWorker = Idle
    BY DEF Quiescent
  <2>2. ~RouteNews(r) /\ ~WorkingOn(routeWorker, r)
    BY <2>1 DEF RouteNews, WorkingOn
  <2> QED
    BY <2>2 DEF RouteInv, RouteHandled
<1> QED
  BY <1>1, <1>2, <1>3, PTL DEF Spec
=============================================================================
