----------------------------- MODULE Upstreams -----------------------------
(***************************************************************************)
(* Kubernetes Services behind Kong services (translator/ingressrules.go:   *)
(* populateServices) and the upstreams and targets they become             *)
(* (translator/translate_upstreams.go).                                    *)
(*                                                                         *)
(* Services have ns, name, uid, external, ports and annotations (a         *)
(* function); facades a service and annotations; EndpointSlices ns,        *)
(* service, ports and endpoints; Secrets a uid.  A target is an endpoint,  *)
(* address and port.                                                       *)
(***************************************************************************)
EXTENDS BackendRefs, Store, FiniteSetsExt, Functions

----------------------------------------------------------------------------
(* Services of the backends. *)

getClientCertIncompatibleProtocols == {"http", "grpc", "tcp", "tls_passthrough", "udp", "ws"}

\* A facade stands for its Service, with the facade's annotations first.
resolveKubernetesServiceForBackend(cluster, backend) ==
    LET key == <<backend.ns, backend.name>>
        service(k) == IF k \in DOMAIN cluster.services THEN <<cluster.services[k]>> ELSE <<>>
    IN IF backend.type # "KongServiceFacade" THEN service(key)
       ELSE IF key \notin DOMAIN cluster.facades THEN <<>>
       ELSE LET facade == cluster.facades[key]
                found == service(<<backend.ns, facade.service>>)
            IN [i \in DOMAIN found |-> [found[i] EXCEPT !.annotations = facade.annotations @@ @]]

\* The annotations of the konghq.com prefix; all others are called "other".
KongAnnotations(service) == Restrict(service.annotations, DOMAIN service.annotations \ {"other"})

\* The Services that can be found, and the annotations seen on them: the last
\* Service decides a value.
getK8sServicesForBackends(cluster, backends) ==
    LET found == [i \in DOMAIN backends |-> resolveKubernetesServiceForBackend(cluster, backends[i])]
        services == FlattenSeq(found)
    IN [services |-> services,
        seen |-> FoldLeft(LAMBDA acc, s : KongAnnotations(s) @@ acc, <<>>, services),
        missing |-> \E i \in DOMAIN found : found[i] = <<>>]

\* TRUE when every Service has every annotation with the value seen.
collectInconsistentAnnotations(services, seen) ==
    \A i \in DOMAIN services : \A k \in DOMAIN seen :
        k \in DOMAIN services[i].annotations /\ services[i].annotations[k] = seen[k]

Annotation(service, key) ==
    IF key \in DOMAIN service.annotations THEN service.annotations[key] ELSE ""

\* What one Service's client-cert annotation adds to the Kong service.
AddClientCertificate(cluster, acc, service) ==
    LET name == Annotation(service, "client-cert")
        secret == <<service.ns, name>>
        protocol == Annotation(service, "protocol")
    IN IF name = "" THEN acc
       ELSE IF \/ secret \notin DOMAIN cluster.secrets
               \/ (IF protocol = "" THEN "http" ELSE protocol) \in getClientCertIncompatibleProtocols
       THEN [acc EXCEPT !.failures = @ \cup {service.uid}]
       ELSE [acc EXCEPT !.clientCertificate = <<cluster.secrets[secret].uid>>,
                        !.secrets = Append(@, [secret |-> secret, parent |-> service.uid])]

\* The tags of a service of nothing known.
UnknownTags == 0

\* The object the Kong service is tagged for.
generateKongServiceTags(rules, services, service) ==
    CASE Len(services) > 1 -> IF service.name \in DOMAIN rules.parents THEN <<rules.parents[service.name]>> ELSE <<>>
      [] Len(services) = 1 -> IF Len(service.backends) = 1 /\ service.backends[1].type = "KongServiceFacade"
                              THEN <<service.parent>> ELSE <<services[1].uid>>
      [] OTHER -> <<UnknownTags>>

\* The client certificate of a Kong service: that of the last of its Services
\* with one.
ClientCertificateOf(cluster, services) ==
    FoldLeft(LAMBDA acc, s : AddClientCertificate(cluster, acc, s),
             [clientCertificate |-> <<>>, secrets |-> <<>>, failures |-> {}], services)

\* One Kong service with the Services found for it: skipped, without them,
\* when their annotations disagree.
PopulateService(rules, service, found, certificate) ==
    LET missing == IF found.missing THEN {service.parent} ELSE {}
        plain == [k8sServices |-> <<>>, clientCertificate |-> <<>>, tags |-> <<>>, port |-> 80] @@ service
    IN IF collectInconsistentAnnotations(found.services, found.seen)
       THEN [skip |-> FALSE, secrets |-> certificate.secrets, failures |-> missing \cup certificate.failures,
             service |-> [plain EXCEPT
                !.k8sServices = FoldLeft(LAMBDA acc, s : (<<s.ns, s.name>> :> s) @@ acc, <<>>, found.services),
                !.clientCertificate = certificate.clientCertificate,
                !.tags = generateKongServiceTags(rules, found.services, service)]]
       ELSE [skip |-> TRUE, secrets |-> <<>>, failures |-> missing \cup {s.uid : s \in ToSet(found.services)},
             service |-> plain]

PopulatedRules(rules, populated) ==
    LET secrets == FlattenSeq([i \in DOMAIN SetToSeq(DOMAIN populated) |->
                                 populated[SetToSeq(DOMAIN populated)[i]].secrets])
    IN [rules |-> [rules EXCEPT
          !.services = [n \in DOMAIN populated |-> populated[n].service],
          !.snis = FoldLeft(LAMBDA acc, x : addUniqueParents(acc, x.secret, {x.parent}), @, secrets)],
        skip |-> {n \in DOMAIN populated : populated[n].skip},
        failures |-> UNION {populated[n].failures : n \in DOMAIN populated}]

populateServices(cluster, rules) ==
    LET populate(service, found) ==
            PopulateService(rules, service, found, ClientCertificateOf(cluster, found.services))
    IN PopulatedRules(rules, [n \in DOMAIN rules.services |->
           populate(rules.services[n], getK8sServicesForBackends(cluster, rules.services[n].backends))])

----------------------------------------------------------------------------
(* Targets. *)

\* The port of a Service that a backend asks for, if there is one.
findPort(service, want) ==
    LET first(ports) == IF ports = <<>> THEN <<>> ELSE <<Head(ports)>>
        byName(p) == p.name = want.value \/ p.target = want.value
    IN CASE want.mode = "number" /\ service.external # "" ->
              <<[name |-> "", number |-> want.value, target |-> ToString(want.value), protocol |-> ""]>>
         [] want.mode = "number" /\ service.external = "" ->
              first(SelectSeq(service.ports, LAMBDA p : p.number = want.value))
         [] want.mode = "name" /\ service.external = "" -> first(SelectSeq(service.ports, byName))
         [] want.mode = "implicit" /\ service.external = "" ->
              IF Len(service.ports) = 1 THEN service.ports ELSE <<>>
         [] OTHER -> <<>>

\* TCP always, and the protocols of the Service's ports.
listProtocols(service) == {"TCP"} \cup ({p.protocol : p \in ToSet(service.ports)} \ {""})

\* Whether an endpoint is ready is optional: not known counts as ready.
Ready(endpoint) == endpoint.ready # <<FALSE>>

\* The endpoints of one protocol: the Service itself, its external name, or
\* the ready endpoints of its EndpointSlices.
getEndpoints(cluster, service, port, protocol, isSvcUpstream) ==
    LET ports(s) == {p \in ToSet(s.ports) : p.number >= 0 /\ p.protocol = protocol /\ p.name = port.name}
        ready(s) == {e \in ToSet(s.endpoints) : Ready(e)}
        byService == isSvcUpstream \/ Annotation(service, "service-upstream") = "true"
    IN CASE byService -> {[address |-> <<service.name, service.ns, "svc">>, port |-> ToString(port.number)]}
         [] ~byService /\ service.external # "" -> {[address |-> <<service.external>>, port |-> port.target]}
         [] OTHER -> UNION {{[address |-> e.address, port |-> ToString(p.number)] : p \in ports(s), e \in ready(s)} :
                            s \in ToSet(GetEndpointSlicesForService(cluster, service.ns, service.name))}

\* The endpoints of all protocols, one after the other.
getServiceEndpoints(cluster, service, port) ==
    LET parameters == getIngressClassParametersOrDefault(cluster)
        isSvcUpstream == parameters # <<>> /\ parameters[1].serviceUpstream
        protocols == SetToSeq(listProtocols(service))
    IN FlattenSeq([i \in DOMAIN protocols |->
                     SetToSeq(getEndpoints(cluster, service, port, protocols[i], isSvcUpstream))])

\* Kong's default weight of a target.
targetWeightOrDefault(weight) == OrElse(weight, 100)

\* Targets that are there already add up.
updateTargetMap(targets, target, weight) ==
    IF target \in DOMAIN targets
    THEN [targets EXCEPT ![target] = <<targetWeightOrDefault(@) + targetWeightOrDefault(weight)>>]
    ELSE targets @@ (target :> weight)

\* Mutant: a small weight split over many targets becomes zero.
SplitWithoutMinimum(weight, count) == weight \div count

\* The weight of each of a backend's targets.
TargetWeight(weight, count) ==
    IF weight = 0 THEN 0
    ELSE IF weight \div count = 0 THEN 1 ELSE weight \div count

\* One backend of a Kong service: the port it finds goes to the service, its
\* endpoints to the targets.
AddBackend(cluster, acc, backend) ==
    LET name == IF backend.type = "KongServiceFacade" /\ <<backend.ns, backend.name>> \in DOMAIN cluster.facades
                THEN cluster.facades[<<backend.ns, backend.name>>].service ELSE backend.name
        key == <<backend.ns, name>>
        gone == \/ backend.type = "KongServiceFacade" /\ <<backend.ns, backend.name>> \notin DOMAIN cluster.facades
                \/ key \notin DOMAIN acc.service.k8sServices
        service == acc.service.k8sServices[key]
        port == findPort(service, backend.port)
        endpoints == getServiceEndpoints(cluster, service, port[1])
        weight == [i \in DOMAIN backend.weight |-> TargetWeight(backend.weight[i], Len(endpoints))]
    IN IF gone THEN [acc EXCEPT !.failures = @ \cup {acc.service.parent}]
       ELSE IF port = <<>> THEN [acc EXCEPT !.failures = @ \cup {acc.service.parent, service.uid}]
       ELSE [acc EXCEPT
               !.service.port = port[1].number,
               !.targets = FoldLeft(LAMBDA t, e : updateTargetMap(t, e, weight), @, endpoints)]

\* The upstream is named for the host of the service; services of one host
\* share that of the one visited first, in the order of a Go map, and only
\* that one learns its port.
AddUpstream(acc, name, service, filled) ==
    IF service.host \in DOMAIN acc.upstreams THEN acc
    ELSE [services |-> [acc.services EXCEPT ![name] = filled.service],
          upstreams |-> acc.upstreams @@
             (service.host :> [name |-> service.host, service |-> filled.service, targets |-> filled.targets,
                               tags |-> service.tags, settings |-> <<>>]),
          failures |-> acc.failures \cup filled.failures]

getUpstreams(cluster, services, order) ==
    LET filled(service) == FoldLeft(LAMBDA a, b : AddBackend(cluster, a, b),
                               [service |-> service, targets |-> <<>>, failures |-> {}], service.backends)
        step(acc, name) == AddUpstream(acc, name, acc.services[name], filled(acc.services[name]))
    IN FoldLeft(step, [services |-> services, upstreams |-> <<>>, failures |-> {}], order)
============================================================================
