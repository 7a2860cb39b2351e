------------------------ MODULE MCGatewayControllers ------------------------
(***************************************************************************)
(* Instances of GatewayControllers: one GatewayClass, one or two Gateways  *)
(* and a route that names them, in the scenarios below.                    *)
(***************************************************************************)
EXTENDS GatewayControllers, TLC

CONSTANTS g1, g2, r1, Chosen

AnyHost == NoHostname
Inner == <<"*", "a">>
Listener(name, port, hostname) ==
    [name |-> name, port |-> port, protocol |-> "HTTP", hostname |-> hostname, kinds |-> {},
     from |-> "All", selected |-> {}, tls |-> "none", certs |-> <<>>]
L4Listener(protocol, port) == [Listener("l4", port, AnyHost) EXCEPT !.protocol = protocol]
Secured == [Listener("tls", 443, AnyHost) EXCEPT !.protocol = "TLS", !.tls = "Passthrough",
                                             !.certs = <<[ns |-> OwnNamespace, name |-> "cert"]>>]
Uncertified == [Secured EXCEPT !.name = "uncertified", !.certs = <<[ns |-> OwnNamespace, name |-> "none"]>>]

MCPublishService ==
    "small" :> [ports |-> {[port |-> 80, target |-> 8000, protocol |-> "TCP"],
                           [port |-> 443, target |-> 8899, protocol |-> "TCP"],
                           [port |-> 88, target |-> 8888, protocol |-> "TCP"],
                           [port |-> 99, target |-> 9999, protocol |-> "UDP"]}]
    @@ "large" :> [ports |-> {[port |-> 80, target |-> 8000, protocol |-> "TCP"],
                              [port |-> 81, target |-> 8000, protocol |-> "TCP"]}]
MCKong == [proxy |-> 8000 :> FALSE, stream |-> 8899 :> TRUE @@ 8888 :> FALSE]
MCSecretStates == <<"ns", "cert">> :> "valid" @@ <<"ns", "none">> :> "missing"

Ref(g, section) == [gw |-> g, ns |-> OwnNamespace, section |-> section, port |-> NoPort]
Route(parents, hostnames) == [parents |-> parents, hostnames |-> hostnames]
Host == <<"x", "a">>
Other == <<"y", "b">>

NewGateway(listeners) ==
    [ver |-> 1, gen |-> 1, ns |-> Namespace, annotated |-> FALSE, listeners |-> listeners,
     deleting |-> FALSE, accepted |-> 0, programmed |-> 0, status |-> <<>>, stamp |-> 0]
(* A Gateway that an earlier run of the controller has programmed. *)
OldGateway(listeners) ==
    LET gw == NewGateway(listeners)
    IN [gw EXCEPT !.annotated = TRUE, !.accepted = 1, !.programmed = 1, !.stamp = 1,
                  !.status = getListenerStatus(gw,
                      determineListenersFromDataPlane(
                          determineL4ListenersFromService(MCPublishService["small"]), MCKong),
                      {}, MCSecretStates, [i \in DOMAIN listeners |-> 0])]
NewRoute(spec, status) ==
    [ver |-> 1, gen |-> 1, uid |-> 1, parents |-> spec.parents, deleting |-> FALSE, hostnames |-> spec.hostnames,
     status |-> status]
NewClass == [ver |-> 1, gen |-> 1, ours |-> TRUE, unmanaged |-> TRUE, accepted |-> 0]

(* Nothing happens after the start. *)
Quiet ==
    [name |-> "quiet", kind |-> "HTTPRoute", only |-> NoGateway, changes |-> 1, seconds |-> 1, updated |-> FALSE,
     class |-> NewClass, gateways |-> g1 :> NewGateway(<<Listener("l", 80, AnyHost)>>) @@ g2 :> Absent,
     routes |-> r1 :> NewRoute(Route(<<Ref(g1, NoSection)>>, {Host}), <<>>),
     service |-> "small", services |-> {}, backend |-> TRUE, backends |-> FALSE,
     classes |-> {}, creates |-> {}, listeners |-> {}, specs |-> {}, deletes |-> FALSE, marks |-> FALSE,
     foreign |-> <<>>, broken |-> {}]

(* The controller is restarted. *)
Restarted == [Quiet EXCEPT !.name = "restarted", !.class.accepted = 1, !.updated = TRUE,
                           !.gateways = g1 :> OldGateway(<<Listener("l", 80, AnyHost)>>) @@ g2 :> Absent]
(* The route moves to another section, and to a hostname no listener has. *)
Edited ==
    [Restarted EXCEPT !.name = "edited", !.changes = 2,
                  !.gateways = g1 :> OldGateway(<<Listener("l", 80, Inner), Listener("m", 80, AnyHost)>>)
                               @@ g2 :> Absent,
                  !.routes = r1 :> NewRoute(Route(<<Ref(g1, "l"), Ref(g1, "m")>>, {Host}), <<>>),
                  !.specs = {Route(<<Ref(g1, "l")>>, {Host}), Route(<<Ref(g1, "l")>>, {Other})}]
(* The objects come and go. *)
Lifecycle ==
    [Restarted EXCEPT !.name = "lifecycle", !.changes = 3, !.deletes = TRUE]
(* Two Gateways, the status has a parent of another controller. *)
TwoParents ==
    [Restarted EXCEPT !.name = "two parents",
                  !.gateways = g1 :> OldGateway(<<Listener("l", 80, Inner)>>)
                               @@ g2 :> OldGateway(<<Listener("l", 80, AnyHost)>>),
                  !.routes = r1 :> NewRoute(Route(<<Ref(g1, NoSection), Ref(g2, NoSection)>>, {Other}), <<>>)]
(* The Gateway's listeners change; the backend appears later. *)
Listening ==
    [Restarted EXCEPT !.name = "listening", !.changes = 2, !.backend = FALSE, !.backends = TRUE,
                  !.listeners = {<<Listener("l", 81, AnyHost)>>}]
(* A second passes. *)
Clock == [Restarted EXCEPT !.name = "clock", !.seconds = 2]
(* The publish Service gets the port of the listener. *)
Ports == [Restarted EXCEPT !.name = "ports", !.changes = 2, !.services = {"large"},
                           !.gateways[g1] = OldGateway(<<Listener("l", 81, AnyHost)>>)]
(* The Gateway names another Secret, which does not exist. *)
Certificates == [Restarted EXCEPT !.name = "certificates", !.changes = 2,
                                  !.gateways[g1] = OldGateway(<<Secured>>),
                                  !.listeners = {<<Uncertified>>, <<Uncertified, Secured>>}, !.routes[r1] = Absent]
(* The publish Service is created after the start. *)
Late == [Quiet EXCEPT !.name = "late", !.changes = 2, !.service = Absent, !.services = {"small"}]
(* The objects are created in some order. *)
Empty == [Quiet EXCEPT !.name = "empty", !.updated = TRUE, !.changes = 4, !.class = Absent, !.classes = {<<TRUE, TRUE>>},
                       !.gateways = g1 :> Absent @@ g2 :> Absent, !.routes = r1 :> Absent,
                       !.creates = {g1}, !.listeners = {<<Listener("l", 80, AnyHost)>>},
                       !.specs = {Route(<<Ref(g1, NoSection)>>, {Host})}]
(* Only g2 is to be reconciled. *)
Only == [TwoParents EXCEPT !.name = "only", !.only = g2, !.marks = TRUE, !.changes = 2]
(* A class that is not ours; a managed one. *)
NotOurs == [Restarted EXCEPT !.name = "not ours", !.class.ours = FALSE]
Managed == [Quiet EXCEPT !.name = "managed", !.class.unmanaged = FALSE]
(* The other kinds of routes. *)
OfKind(kind, listener, hosts) ==
    [Restarted EXCEPT !.name = kind, !.kind = kind, !.changes = 2,
                  !.gateways = g1 :> OldGateway(<<listener>>) @@ g2 :> Absent,
                  !.routes = r1 :> NewRoute(Route(<<Ref(g1, NoSection)>>, hosts), <<>>),
                  !.specs = {Route(<<Ref(g1, listener.name)>>, hosts)}]
GRPC == OfKind("GRPCRoute", Listener("l", 80, Inner), {Host})
TLS  == OfKind("TLSRoute", Secured, {Host})
TCP  == [OfKind("TCPRoute", L4Listener("TCP", 88), {}) EXCEPT !.deletes = TRUE]
UDP  == [OfKind("UDPRoute", L4Listener("UDP", 99), {}) EXCEPT
            !.changes = 1, !.gateways[g1] = OldGateway(<<L4Listener("UDP", 99), Uncertified>>)]
(* Its second version cannot be translated. *)
Broken == [Restarted EXCEPT !.name = "broken", !.updated = FALSE, !.broken = {2}, !.changes = 2,
                            !.specs = {Route(<<Ref(g1, "l")>>, {Other})}]

MCScenarios == {s \in {Quiet, Edited, Lifecycle, TwoParents, Listening, Late, Empty, Only, NotOurs, Managed,
                       GRPC, TLS, TCP, UDP, Broken, Clock, Ports, Certificates} : s.name \in Chosen}
=============================================================================
