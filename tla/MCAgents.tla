------------------------------ MODULE MCAgents ------------------------------
(***************************************************************************)
(* Small instances, for TLC, of the parts that run beside the update loop  *)
(* and the object controllers and do not meet each other: the Konnect node *)
(* agent, the back-off of pushes to Konnect, the license agent, the        *)
(* KongLicense controller and the controllers that wait for their CRDs.    *)
(* A behaviour is one of a single part: "focus" says which.  The others    *)
(* stay where they started.                                                *)
(***************************************************************************)
EXTENDS Integers, TLC

CONSTANTS
    Parts,   \* the parts this run is about
    h1, self, other, own, old, older, c1, c2, x1, x2, y1,
    Hosts, OtherIDs, Statuses, Hashes, MaxInterval, RetryAfters, Faulty, Names, maxConditionNum, CRDs,
    MayDisable, Absent, MaxTime, MaxFaults, MaxChanges

VARIABLES
    focus,
    (* NodeAgent *)
    nodes, clock, currentStatus, inFlight, configStatus, gateways, clientsChanged, agent, loop,
    budget,
    (* KonnectBackoff *)
    config, held, down, events, timeLeft, attempt, lastFailedConfigHash,
    (* LicenseAgent *)
    upstream, updates, polls, cachedLicense, period,
    (* KongLicense *)
    cluster, time, changes, faults, disabled, overtaken, queue, cached, chosen, worker,
    (* DynamicCRD *)
    crd, crdChanges, setupFaults, phase, crdQueue, once, setups

NodeIDs == [h \in Hosts |-> <<"gateway", h>>]

(* What may happen to the node agent: the status or the gateways change    *)
(* once while time passes and a call fails, or two changes happen.         *)
Changes(status, gws) == [status |-> status, gateways |-> gws, faults |-> 0, seconds |-> 0]
Budgets ==
    {Changes(2, 0), Changes(1, 1), Changes(0, 2)}
    \cup {[b EXCEPT !.faults = 1, !.seconds = 1] : b \in {Changes(1, 0), Changes(0, 1)}}

Nodes == INSTANCE NodeAgent
    WITH Self <- self, OtherHost <- other, OwnID <- own
Backoff == INSTANCE KonnectBackoff WITH NoHash <- Absent, MaxEvents <- MaxChanges
Agent == INSTANCE LicenseAgent WITH MaxUpdates <- MaxChanges, None <- Absent, faults <- polls
License == INSTANCE KongLicense WITH Self <- self, Other <- other, clock <- time
Dynamic == INSTANCE DynamicCRD
    WITH changes <- crdChanges, faults <- setupFaults, queue <- crdQueue

nodesVars == <<nodes, clock, currentStatus, inFlight, configStatus, gateways, clientsChanged, agent,
               loop, budget>>
backoffVars == <<config, held, down, events, timeLeft, attempt, lastFailedConfigHash>>
agentVars == <<upstream, updates, polls, cachedLicense, period>>
licenseVars == <<cluster, time, changes, faults, disabled, overtaken, queue, cached, chosen, worker>>
dynamicVars == <<crd, crdChanges, setupFaults, phase, crdQueue, once, setups>>
vars == <<focus, nodesVars, backoffVars, agentVars, licenseVars, dynamicVars>>

(* What earlier instances left: nothing, nodes of both controllers, or two *)
(* nodes of the same hostname.                                             *)
LeftBehind ==
    \/ \A i \in OtherIDs : nodes[i] = Absent
    \/ nodes[old] # Absent /\ nodes[older] # Absent /\ nodes[older].host # other
       /\ nodes[old].type = nodes[older].type
NodesQuiet == gateways = {} /\ budget = Changes(0, 2) /\ \A i \in OtherIDs : nodes[i] = Absent

Init ==
    /\ focus \in Parts
    /\ Nodes!Init /\ (IF focus = "nodes" THEN LeftBehind ELSE NodesQuiet)
    /\ Backoff!Init /\ (focus = "backoff" \/ config = x1)
    /\ Agent!Init /\ License!Init
    /\ Dynamic!Init /\ (focus = "crds" \/ \A c \in CRDs : crd[c] = 0)

InNodes(A) ==
    focus = "nodes" /\ A /\ UNCHANGED <<focus, backoffVars, agentVars, licenseVars, dynamicVars>>
InBackoff(A) ==
    focus = "backoff" /\ A /\ UNCHANGED <<focus, nodesVars, agentVars, licenseVars, dynamicVars>>
InAgent(A) ==
    focus = "agent" /\ A /\ UNCHANGED <<focus, nodesVars, backoffVars, licenseVars, dynamicVars>>
InLicense(A) ==
    focus = "license" /\ A /\ UNCHANGED <<focus, nodesVars, backoffVars, agentVars, dynamicVars>>
InDynamic(A) ==
    focus = "crds" /\ A /\ UNCHANGED <<focus, nodesVars, backoffVars, agentVars, licenseVars>>

Next ==
    \/ InNodes(Nodes!Next)
    \/ InBackoff(Backoff!Next)
    \/ InAgent(Agent!Next)
    \/ InLicense(License!Next)
    \/ InDynamic(Dynamic!Next)
Spec == Init /\ [][Next]_vars

(* The fairness each part states for itself, while it is the one running. *)
NodesFairness == WF_vars(InNodes(Nodes!Ticking))
BackoffFairness ==
    /\ WF_vars(InBackoff(Backoff!Update \/ Backoff!Tick))
    /\ WF_vars(InBackoff(Backoff!Recovery))
AgentFairness == WF_vars(InAgent(Agent!Poll))
LicenseFairness ==
    /\ WF_vars(InLicense(License!Controller))
    /\ \A n \in Names : SF_vars(InLicense(License!Reconcile(n)))
DynamicFairness == WF_vars(InDynamic(Dynamic!Steps))
FairSpec ==
    Spec /\ NodesFairness /\ BackoffFairness /\ AgentFairness /\ LicenseFairness /\ DynamicFairness

-----------------------------------------------------------------------------
(* The properties, stated in the modules of the parts. *)

(* Konnect ends up with the right nodes (NodeAgent!EventuallyInOrder). *)
EventuallyInOrder == <>[](focus = "nodes" /\ agent = "running" => Nodes!NodesInOrder)

(* Konnect ends up with a configuration it does not refuse, and the pushes *)
(* end (KonnectBackoff!EventuallyHeld, KonnectBackoff!PushesStop).         *)
PushesSettle ==
    <>[](focus = "backoff" /\ config \notin Faulty => held = config) /\ Backoff!PushesStop

(* The agent gets a renewed license (LicenseAgent!EventuallyCached), and   *)
(* the gateways the newest KongLicense, unless it was overtaken            *)
(* (KongLicense!EventuallyNewestUnlessOvertaken).                          *)
LicensesArrive ==
    <>[](focus = "agent" => Agent!Renewed) /\ License!EventuallyNewestUnlessOvertaken

(* Controllers start when their CRDs are there (DynamicCRD!EventuallySetUp). *)
EventuallySetUp == <>[](focus = "crds" => Dynamic!SetUp)

(* ... and only once (DynamicCRD!SetUpOnce). *)
SetUpOnce == Dynamic!SetUpOnce
=============================================================================
