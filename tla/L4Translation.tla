--------------------------- MODULE L4Translation ---------------------------
(***************************************************************************)
(* Translation of TCPIngresses and UDPIngresses                            *)
(* (translator/translate_kong_l4.go) and of TCPRoutes, UDPRoutes and       *)
(* TLSRoutes (translate_tcproute.go, translate_udproute.go,                *)
(* translate_tlsroute.go, translate_routes_helpers.go,                     *)
(* subtranslator/l4route_atc.go) into Kong stream routes.                  *)
(*                                                                         *)
(* Objects are records: group, kind, label (the kind in lower case), ns,   *)
(* name, created, key (their rank by namespace and name) and rules.  A     *)
(* rule of an Ingress has port, host, service and servicePort; a rule of a *)
(* route is the sequence of its backendRefs.  Routes have parentRefs; a    *)
(* TLSRoute has hostnames and attached, the parentRefs of its status.      *)
(***************************************************************************)
EXTENDS BackendRefs, Atc

NewStreamRoute(name, protocols, destinations, snis, object) ==
    [name |-> name, protocols |-> protocols, destinations |-> destinations, snis |-> snis,
     expression |-> NoMatcher, priority |-> 0, ingress |-> object]

----------------------------------------------------------------------------
(* Expressions. *)

\* SNIs and destination ports become an expression and are cleared
\* (ApplyExpressionToL4KongRoute, applyExpressionToIngressRules).
ApplyExpressionToL4KongRoute(route) ==
    LET ports == [i \in DOMAIN route.destinations |->
                    NewPredicate(<<"net.dst.port">>, "int", "==", route.destinations[i])]
    IN [ApplyExpression(route, And(<<sniMatcherFromSNIs(route.snis), Or(ports)>>), 1)
          EXCEPT !.destinations = <<>>, !.snis = <<>>]

applyExpressionToIngressRules(rules) ==
    [rules EXCEPT !.services = [n \in DOMAIN @ |->
       [@[n] EXCEPT !.routes = [i \in DOMAIN @ |-> ApplyExpressionToL4KongRoute(@[i])]]]]

InFlavour(rules, expressionRoutes) ==
    IF expressionRoutes THEN applyExpressionToIngressRules(rules) ELSE rules

----------------------------------------------------------------------------
(* TCPIngress and UDPIngress. *)

CreatedFirst(i, j) == i.created < j.created \/ (i.created = j.created /\ i.key < j.key)

ByCreation(objects) == SetToSortSeq(objects, CreatedFirst)

\* One rule: a route on its port (and SNI) joins the service of its backend.
AddStreamRule(rules, object, i, protocol, suffix, protocols) ==
    LET rule == object.rules[i]
        name == <<object.ns, rule.service, ToString(rule.servicePort)>> \o suffix
        new == [name |-> name, host |-> <<rule.service, object.ns, ToString(rule.servicePort), "svc">>,
                protocol |-> protocol, ns |-> object.ns,
                backends |-> <<ServiceBackend("KubernetesService", object.ns, rule.service,
                                              ByNumber(rule.servicePort), <<>>)>>,
                parent |-> object, routes |-> <<>>, terminations |-> 0]
        service == IF name \in DOMAIN rules.services THEN rules.services[name] ELSE new
        route == NewStreamRoute(<<object.ns, object.name, ToString(i - 1)>> \o suffix, protocols,
                                <<rule.port>>, IF rule.host = <<>> THEN <<>> ELSE <<rule.host>>, object)
    IN [CacheService(rules, [service EXCEPT !.routes = Append(@, route)], object)
          EXCEPT !.reported = @ \cup {object}]

\* The rule's backend needs a service name (NewServiceBackend).
AddStreamRules(rules, object, protocol, suffix, protocols) ==
    FoldLeft(LAMBDA acc, i : IF object.rules[i].service = "" THEN acc
                             ELSE AddStreamRule(acc, object, i, protocol, suffix, protocols),
             rules, [i \in DOMAIN object.rules |-> i])

ingressRulesFromTCPIngressV1beta1(ingresses, expressionRoutes) ==
    LET add(acc, ingress) ==
            AddStreamRules([acc EXCEPT !.snis = addFromIngressV1TLS(@, ingress.tls, ingress)],
                           ingress, "tcp", <<>>, <<"tcp", "tls">>)
    IN InFlavour(FoldLeft(add, newIngressRules, ByCreation(ingresses)), expressionRoutes)

\* The rules of a UDPIngress have no host.
ingressRulesFromUDPIngressV1beta1(ingresses, expressionRoutes) ==
    InFlavour(FoldLeft(LAMBDA acc, ingress : AddStreamRules(acc, ingress, "udp", <<"udp">>, <<"udp">>),
                       newIngressRules, ByCreation(ingresses)), expressionRoutes)

----------------------------------------------------------------------------
(* Gateway API routes. *)

\* TCPRoutes and UDPRoutes need backendRefs in every rule.
checkBackendRefs(route, rule) == route.kind = "TLSRoute" \/ rule # <<>>

generateRouteName(route, i) == <<route.label, route.ns, route.name, ToString(i - 1), "0">>

udpRouteToKongRoute(route, ports, i) ==
    NewStreamRoute(generateRouteName(route, i), <<"udp">>, ports, <<>>, route)

tcpRouteToKongRoute(route, ports, i) ==
    NewStreamRoute(generateRouteName(route, i), <<"tcp">>, ports, <<>>, route)

\* A TLSRoute is matched by its hostnames, on any port.
tlsRouteToKongRoute(route, i) ==
    NewStreamRoute(generateRouteName(route, i), <<"tls">>, <<>>, route.hostnames, route)

routeToKongRoute(route, ports, i) ==
    CASE route.kind = "UDPRoute" -> udpRouteToKongRoute(route, ports, i)
      [] route.kind = "TCPRoute" -> tcpRouteToKongRoute(route, ports, i)
      [] route.kind = "TLSRoute" -> tlsRouteToKongRoute(route, i)

\* The rules before one without backendRefs stay, those after it are lost
\* (generateKongRoutesFromRouteRule and the loops that call it).
AddRouteRules(cluster, rules, route, ports, protocol, protocols) ==
    LET add(acc, i) ==
            LET service == generateKongServiceFromBackendRefWithRuleNumber(
                               cluster, acc.rules, route, i - 1, protocol, route.rules[i])
                kong == [routeToKongRoute(route, ports, i) EXCEPT !.protocols = IF protocols = <<>> THEN @ ELSE protocols]
            IN IF acc.failed \/ ~checkBackendRefs(route, route.rules[i])
               THEN [acc EXCEPT !.failed = TRUE]
               ELSE [acc EXCEPT !.rules = CacheService(@, [service EXCEPT !.routes = Append(@, kong)], route)]
    IN FoldLeft(add, [rules |-> rules, failed |-> FALSE], [i \in DOMAIN route.rules |-> i])

Reported(result, route) ==
    IF result.failed THEN result.rules ELSE [result.rules EXCEPT !.reported = @ \cup {route}]

\* The ports of a set in some order.
PortsOf(cluster, route, protocol) ==
    SetToSeq(getGatewayListeningPorts(cluster, route.ns, protocol, route.parentRefs))

ingressRulesFromTCPRoute(cluster, rules, route) ==
    IF route.rules = <<>> THEN rules
    ELSE Reported(AddRouteRules(cluster, rules, route, PortsOf(cluster, route, "TCP"), "tcp", <<>>), route)

validateUDPRoute(route) == route.rules # <<>> /\ \A i \in DOMAIN route.rules : route.rules[i] # <<>>

ingressRulesFromUDPRoute(cluster, rules, route) ==
    IF ~validateUDPRoute(route) THEN rules
    ELSE Reported(AddRouteRules(cluster, rules, route, PortsOf(cluster, route, "UDP"), "udp", <<>>), route)

\* Some listener the status says the route is attached to passes TLS through.
isTLSRoutePassthrough(cluster, route) ==
    \E i \in DOMAIN route.attached :
        LET pr == route.attached[i]  gateway == <<OrElse(pr.ns, route.ns), pr.name>> IN
        /\ gateway \in DOMAIN cluster.gateways
        /\ \E l \in ToSet(cluster.gateways[gateway]) : pr.section \in {<<>>, <<l.name>>} /\ l.passthrough

ingressRulesFromTLSRoute(cluster, rules, route) ==
    IF route.hostnames = <<>> \/ route.rules = <<>> THEN rules
    ELSE Reported(AddRouteRules(cluster, rules, route, <<>>, "tcp",
                                IF isTLSRoutePassthrough(cluster, route) THEN <<"tls_passthrough">> ELSE <<>>),
                  route)

ingressRulesFromTCPRoutes(cluster, routes, expressionRoutes) ==
    InFlavour(FoldLeft(LAMBDA acc, r : ingressRulesFromTCPRoute(cluster, acc, r), newIngressRules, routes),
              expressionRoutes)

ingressRulesFromUDPRoutes(cluster, routes, expressionRoutes) ==
    InFlavour(FoldLeft(LAMBDA acc, r : ingressRulesFromUDPRoute(cluster, acc, r), newIngressRules, routes),
              expressionRoutes)

ingressRulesFromTLSRoutes(cluster, routes, expressionRoutes) ==
    InFlavour(FoldLeft(LAMBDA acc, r : ingressRulesFromTLSRoute(cluster, acc, r), newIngressRules, routes),
              expressionRoutes)

----------------------------------------------------------------------------
(* Kong's stream router. *)

\* A connection arrives on a port, over TCP, TLS or UDP, with an SNI when it
\* is TLS.  A route without any condition is refused by Kong.
StreamMatches(route, c) ==
    /\ c.protocol \in ToSet(route.protocols)
    /\ IF IsEmpty(route.expression)
       THEN /\ route.destinations # <<>> \/ route.snis # <<>>
            /\ route.destinations # <<>> => c.port \in ToSet(route.destinations)
            /\ route.snis # <<>> => \E i \in DOMAIN route.snis : route.snis[i] \in c.sni
       ELSE Holds(route.expression, c)
============================================================================
