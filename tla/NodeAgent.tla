----------------------------- MODULE NodeAgent -----------------------------
(***************************************************************************)
(* The agent that keeps Konnect's list of nodes in step with this          *)
(* controller and its gateways (internal/konnect/node_agent.go).  After a  *)
(* first update three goroutines update the nodes: on a tick, when the     *)
(* status of the configuration changes and when the gateway clients        *)
(* change.  Their updates interleave, call by call; each lists Konnect's   *)
(* nodes, then brings the controller's node in order, then those of the    *)
(* gateways, going by its list.                                            *)
(*                                                                         *)
(* The status comes from KongClient through ChannelConfigNotifier          *)
(* (internal/clients/config_status.go): a goroutine per change, that gives *)
(* up after a second.                                                      *)
(***************************************************************************)
EXTENDS Integers, FiniteSets

CONSTANTS
    Hosts,        \* hostnames of gateways
    Self,         \* hostname of this controller
    OtherHost,    \* hostname of an earlier instance
    OwnID,        \* GetID of this instance
    OtherIDs,     \* IDs of nodes left behind by earlier instances
    NodeIDs,      \* Hosts -> the node ID its gateway reports
    Statuses,     \* ConfigStatus values the update loop may report
    Budgets,      \* bounds on the changes of the status and of the gateways,
                  \* on the calls that fail and on the clock
    Absent

VARIABLES
    nodes,         \* Konnect's nodes, by ID
    clock,         \* seconds
    currentStatus, \* KongClient.currentConfigStatus
    inFlight,      \* notifications whose goroutine waits: <<n, status>>
    configStatus,  \* NodeAgent.configStatus
    gateways,      \* hostnames of the gateway instances
    clientsChanged,\* the subscription to the gateway clients has a signal
    agent,         \* "starting", "running" or "stopped"
    loop,          \* what the update of each goroutine has yet to do
    budget         \* what may still happen

vars == <<nodes, clock, currentStatus, inFlight, configStatus, gateways, clientsChanged, agent,
          loop, budget>>

Loops == {"start", "tick", "status", "clients"}
IDs == {OwnID} \cup OtherIDs \cup {NodeIDs[h] : h \in Hosts}

(* The state updateKICNode shows for a ConfigStatus; the case of Unknown   *)
(* is empty and leaves the state unset.                                    *)
IngressControllerState(status) ==
    CASE status = "OK" -> "Operational"
      [] status = "TranslationErrorHappened" -> "PartialConfigFail"
      [] status = "ApplyFailed" -> "Inoperable"
      [] status = "OKKonnectApplyFailed" -> "OperationalKonnectOutOfSync"
      [] status = "TranslationErrorHappenedKonnectApplyFailed" -> "PartialConfigFailKonnectOutOfSync"
      [] status = "ApplyFailedKonnectApplyFailed" -> "InoperableKonnectOutOfSync"
      [] status = "Unknown" -> "none"
      [] OTHER -> "Unknown"

Node(type, host, ping, state) == [type |-> type, host |-> host, ping |-> ping, state |-> state]
Idle == [at |-> "idle"]

(* IDs of the listed nodes of one type and hostname. *)
Named(seen, type, host) == {i \in IDs : seen[i] # Absent /\ seen[i].type = type /\ seen[i].host = host}

(* sortNodesByLastPing: the first of them; nodes with the same ping may    *)
(* come in any order.                                                      *)
Latest(seen, S) == {i \in S : \A j \in S : seen[j].ping <= seen[i].ping}

(* One node of a hostname is kept, the latest or a new one under id... *)
Kept(seen, type, host, id) ==
    IF Named(seen, type, host) = {} THEN {id} ELSE Latest(seen, Named(seen, type, host))

(* Mutant: the others are left alone. *)
NothingOutdated(seen, type, host, kept) == {}

(* ...and the others go. *)
Outdated(seen, type, host, kept) == Named(seen, type, host) \ {kept}

(* The nodes of other controllers, and those of gateways there are no more. *)
OfOthers(seen) == {i \in IDs : seen[i] # Absent /\ seen[i].type = "kic" /\ seen[i].host # Self}
Deserted(seen, instances) ==
    {i \in IDs : seen[i] # Absent /\ seen[i].type = "proxy" /\ seen[i].host \notin instances}

(* What updateGatewayNodes needs of the list. *)
OfGateways(seen) ==
    [i \in IDs |-> IF seen[i] # Absent /\ seen[i].type = "proxy" THEN seen[i] ELSE Absent]

-----------------------------------------------------------------------------
(* Earlier instances may have left nodes behind, under this hostname or    *)
(* another, and so may gateways that had another node ID.                  *)
Leftovers == {Absent} \cup {Node("kic", h, 0, "Operational") : h \in {Self, OtherHost}}
                      \cup {Node("proxy", h, 0, "none") : h \in Hosts}
Init ==
    /\ \E left \in [OtherIDs -> Leftovers] :
         nodes = [i \in IDs |-> IF i \in OtherIDs THEN left[i] ELSE Absent]
    /\ clock = 0 /\ currentStatus = "" /\ configStatus = "OK" /\ inFlight = {}
    /\ gateways \in SUBSET Hosts /\ clientsChanged = FALSE /\ agent = "starting"
    /\ loop = [l \in Loops |-> Idle] /\ budget \in Budgets

-----------------------------------------------------------------------------
(* updateNodes.  Every call of Konnect is a step of its own. *)

updateUnchanged ==
    UNCHANGED <<clock, currentStatus, inFlight, configStatus, gateways, clientsChanged>>

Spend(what) == budget[what] > 0 /\ budget' = [budget EXCEPT ![what] = @ - 1]

GoesOn(l, work) == loop' = [loop EXCEPT ![l] = work] /\ UNCHANGED agent

(* Start: the goroutines run only if the first update succeeds. *)
Ends(l, then) ==
    /\ loop' = [loop EXCEPT ![l] = Idle]
    /\ agent' = IF l = "start" THEN then ELSE agent

(* A call that fails may have been carried out all the same. *)
Succeeds(i, node) == nodes' = [nodes EXCEPT ![i] = node] /\ UNCHANGED budget
Fails(i, node) == Spend("faults") /\ nodes' \in {nodes, [nodes EXCEPT ![i] = node]}

(* Konnect may not know a node any more that was listed. *)
NotFound(i, seen) == nodes[i] = Absent /\ seen[i] # Absent /\ UNCHANGED <<nodes, budget>>

ListAllNodes(l) ==
    /\ loop[l].at = "list"
    /\ \/ /\ GoesOn(l, [at |-> "others", seen |-> nodes, left |-> OfOthers(nodes)])
          /\ UNCHANGED budget
       \/ Spend("faults") /\ Ends(l, "stopped")
    /\ UNCHANGED nodes /\ updateUnchanged

(* When the instances are done, the nodes without one are deleted, and     *)
(* with the last of them the update ends.                                  *)
GatewaysGoOn(l, work) ==
    LET deserted == Deserted(work.seen, work.instances)
    IN IF work.at = "instances" /\ (work.left # {} \/ work.todo # {}) THEN GoesOn(l, work)
       ELSE IF work.at = "instances" /\ deserted # {}
       THEN GoesOn(l, [work EXCEPT !.at = "deserted", !.left = deserted])
       ELSE IF work.at = "deserted" /\ work.left # {} THEN GoesOn(l, work)
       ELSE Ends(l, "running")

(* DeleteNode, of a node that is to go; a failure is only logged. *)
DeleteNode(l) ==
    /\ loop[l].at \in {"others", "outdated", "instances", "deserted"}
    /\ \E i \in loop[l].left :
         /\ Succeeds(i, Absent) \/ Fails(i, Absent) \/ NotFound(i, loop[l].seen)
         /\ LET work == [loop[l] EXCEPT !.left = @ \ {i}]
            IN IF loop[l].at \in {"others", "outdated"} THEN GoesOn(l, work) ELSE GatewaysGoOn(l, work)
    /\ updateUnchanged

(* updateKICNode: the state is read before the call that shows it. *)
LoadStatus(l) ==
    /\ loop[l].at = "others" /\ loop[l].left = {}
    /\ \E kept \in Kept(loop[l].seen, "kic", Self, OwnID) :
         GoesOn(l, [at |-> "kic", seen |-> loop[l].seen, kept |-> kept,
                    node |-> Node("kic", Self, clock, IngressControllerState(configStatus))])
    /\ UNCHANGED <<nodes, budget>> /\ updateUnchanged

updateKICNode(l) ==
    LET seen == loop[l].seen
        kept == loop[l].kept
    IN /\ loop[l].at = "kic"
       /\ \/ /\ Succeeds(kept, loop[l].node)
             /\ GoesOn(l, [at |-> "outdated", seen |-> seen,
                           left |-> Outdated(seen, "kic", Self, kept)])
          \/ /\ Fails(kept, loop[l].node) \/ NotFound(kept, seen)
             /\ Ends(l, "stopped")
       /\ updateUnchanged

(* An instance whose node ID cannot be had is skipped as if it were gone. *)
GetGatewayInstances(l) ==
    /\ loop[l].at = "outdated" /\ loop[l].left = {}
    /\ \E skipped \in SUBSET gateways :
         /\ IF skipped = {} THEN UNCHANGED budget ELSE Spend("faults")
         /\ GatewaysGoOn(l, [at |-> "instances", seen |-> OfGateways(loop[l].seen), left |-> {},
                             instances |-> gateways \ skipped, todo |-> gateways \ skipped])
    /\ UNCHANGED nodes /\ updateUnchanged

(* updateGatewayNodes: if the node of an instance cannot be written, its   *)
(* outdated ones stay.                                                     *)
updateGatewayNode(l) ==
    LET seen == loop[l].seen
    IN /\ loop[l].at = "instances" /\ loop[l].left = {}
       /\ \E h \in loop[l].todo : \E kept \in Kept(seen, "proxy", h, NodeIDs[h]) :
            LET node == Node("proxy", h, clock, "none")
            IN \/ /\ Succeeds(kept, node)
                  /\ GatewaysGoOn(l, [loop[l] EXCEPT !.todo = @ \ {h},
                                                     !.left = Outdated(seen, "proxy", h, kept)])
               \/ /\ Fails(kept, node) \/ NotFound(kept, seen)
                  /\ GatewaysGoOn(l, [loop[l] EXCEPT !.todo = @ \ {h}])
       /\ updateUnchanged

updateNodes(l) ==
    \/ ListAllNodes(l) \/ DeleteNode(l) \/ LoadStatus(l) \/ updateKICNode(l)
    \/ GetGatewayInstances(l) \/ updateGatewayNode(l)

-----------------------------------------------------------------------------
(* Start and the goroutines. *)

BeginUpdate(l) == loop[l] = Idle /\ loop' = [loop EXCEPT ![l] = [at |-> "list"]]
startUnchanged == UNCHANGED <<nodes, clock, currentStatus, gateways, agent, budget>>

Start ==
    /\ agent = "starting" /\ BeginUpdate("start")
    /\ UNCHANGED <<inFlight, configStatus, clientsChanged>> /\ startUnchanged

(* updateNodeLoop *)
OnTick ==
    /\ agent = "running" /\ BeginUpdate("tick")
    /\ UNCHANGED <<inFlight, configStatus, clientsChanged>> /\ startUnchanged

(* subscribeConfigStatus: a status that is not new is skipped. *)
OnStatus ==
    /\ agent = "running" /\ loop["status"] = Idle
    /\ \E n \in inFlight :
         /\ inFlight' = inFlight \ {n}
         /\ configStatus' = n[2]
         /\ IF n[2] = configStatus THEN UNCHANGED loop ELSE BeginUpdate("status")
    /\ UNCHANGED clientsChanged /\ startUnchanged

(* subscribeToGatewayClientsChanges *)
OnClientsChanged ==
    /\ agent = "running" /\ clientsChanged /\ BeginUpdate("clients")
    /\ clientsChanged' = FALSE
    /\ UNCHANGED <<inFlight, configStatus>> /\ startUnchanged

-----------------------------------------------------------------------------
(* KongClient.updateConfigStatus notifies of a change. *)
NotifyConfigStatus(status) ==
    /\ Spend("status")
    /\ status # currentStatus
    /\ currentStatus' = status
    /\ inFlight' = inFlight \cup {<<budget.status, status>>}
    /\ UNCHANGED <<nodes, clock, configStatus, gateways, clientsChanged, agent, loop>>

(* Nobody received it for a second. *)
NotifyTimesOut ==
    /\ \E n \in inFlight : inFlight' = inFlight \ {n}
    /\ loop["status"] # Idle \/ agent # "running"
    /\ UNCHANGED <<nodes, clock, currentStatus, configStatus, gateways, clientsChanged, agent, loop,
                   budget>>

GatewaysChange ==
    /\ Spend("gateways")
    /\ gateways' \in SUBSET Hosts \ {gateways}
    /\ clientsChanged' = TRUE
    /\ UNCHANGED <<nodes, clock, currentStatus, inFlight, configStatus, agent, loop>>

Second ==
    /\ Spend("seconds") /\ clock' = clock + 1
    /\ UNCHANGED <<nodes, currentStatus, inFlight, configStatus, gateways, clientsChanged, agent, loop>>

Next ==
    \/ Start \/ OnTick \/ OnStatus \/ OnClientsChanged
    \/ \E l \in Loops : updateNodes(l)
    \/ \E s \in Statuses : NotifyConfigStatus(s)
    \/ NotifyTimesOut \/ GatewaysChange \/ Second

Spec == Init /\ [][Next]_vars

(* The first update ends, the ticker ticks and its goroutine goes on.  The *)
(* other goroutines may stop anywhere.                                     *)
Ticking == Start \/ OnTick \/ updateNodes("start") \/ updateNodes("tick")
Fairness == WF_vars(Ticking)

-----------------------------------------------------------------------------
(* Properties. *)

(* Konnect ends up with one node for this controller, showing the status   *)
(* the agent has, none of another instance, and one node for every         *)
(* gateway there is (node_agent.go, updateNodes), however the updates of   *)
(* the three goroutines interleave and whatever was left behind, unless    *)
(* the first update failed.                                                *)
KICNodes == {i \in IDs : nodes[i] # Absent /\ nodes[i].type = "kic"}
Proxies(h) == {i \in IDs : nodes[i] # Absent /\ nodes[i].type = "proxy" /\ nodes[i].host = h}
NodesInOrder ==
    /\ \E i \in KICNodes : KICNodes = {i} /\ nodes[i].host = Self
                           /\ nodes[i].state = IngressControllerState(configStatus)
    /\ \A h \in Hosts : Cardinality(Proxies(h)) = IF h \in gateways THEN 1 ELSE 0
EventuallyInOrder == <>[](agent = "running" => NodesInOrder)
=============================================================================
