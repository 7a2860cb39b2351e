----------------------------- MODULE KongConfig -----------------------------
(***************************************************************************)
(* From translated rules to the state of Kong: BuildKongConfig             *)
(* (translator/translator.go) with FillOverrides, FillIDs and              *)
(* SanitizedCopy (kongstate/kongstate.go).                                 *)
(*                                                                         *)
(* The rules are what mergeIngressRules made of all the translators'.      *)
(* Lists that come out of a Go map come in an order of their own each      *)
(* time: forwards or backwards, which are all the orders of two elements.  *)
(* What is reported as configured is said of the kinds BuildKongConfig     *)
(* itself registers.                                                       *)
(***************************************************************************)
EXTENDS UpstreamPolicies, Certificates, Consumers, CustomEntities, DeckContent, RouteOverrides

Visit(S, backwards) == IF backwards THEN Reverse(SetToSeq(S)) ELSE SetToSeq(S)

\* The annotations of a Service that override fields of the Kong service.
ServiceAnnotations(service) ==
    [protocol |-> Annotation(service, "protocol"),
     path |-> IF "path" \in DOMAIN service.annotations THEN service.annotations["path"] ELSE <<>>,
     connectTimeout |-> Annotation(service, "connect-timeout"), writeTimeout |-> Annotation(service, "write-timeout"),
     readTimeout |-> Annotation(service, "read-timeout"), retries |-> Annotation(service, "retries")]

\* A Kong service after the overrides of its Kubernetes Services, in the order
\* of their names; an invalid protocol is reported to all of them.  What
\* RouteOverrides makes of the annotations of a route's Ingress is here the
\* function settings of that Ingress.
FillOverrides(service) ==
    LET group == ByRank(SetToSeq({service.k8sServices[k] : k \in DOMAIN service.k8sServices}))
        done == OverrideService(service, [i \in DOMAIN group |-> ServiceAnnotations(group[i])])
    IN [service |-> [done.service EXCEPT
           !.routes = [j \in DOMAIN @ |-> [@[j] EXCEPT !.settings = service.routes[j].ingress.settings @@ @]]],
        failures |-> IF done.failed THEN {s.uid : s \in ToSet(group)} ELSE {}]

\* The identifiers of a state: everything that has a name.
FillIDs(state) ==
    {<<"service", s.name>> : s \in ToSet(state.services)}
    \cup UNION {{<<"route", r.name>> : r \in ToSet(s.routes)} : s \in ToSet(state.services)}
    \cup {<<"consumer", c.username[1]>> : c \in {x \in ToSet(state.consumers) : x.username # <<>>}}
    \cup {<<"group", g.name>> : g \in ToSet(state.groups)}
    \cup {<<"vault", v.prefix>> : v \in ToSet(state.vaults)}

\* The identifier of a certificate that is not there.
NoID == 0

\* The client certificate of a service by the identifier its Secret's
\* certificate has after the merge.
RefillClientCertificate(service, idToMergedID) ==
    [service EXCEPT !.clientCertificate = [i \in DOMAIN @ |->
        IF @[i] \in DOMAIN idToMergedID THEN idToMergedID[@[i]] ELSE NoID]]

\* The services that are not skipped, in the order of a Go map.
ServicesInOrder(services, skip, backwards) ==
    LET names == Visit(DOMAIN services \ skip, backwards)
    IN [i \in DOMAIN names |-> FillOverrides(services[names[i]])]

\* Services and upstreams of the state, once the backends are resolved.
FillServices(cluster, populated, upstreams, overridden, backwards) ==
    LET with(filled) ==
            [services |-> [i \in DOMAIN overridden |-> overridden[i].service],
             upstreams |-> LET names == Visit(DOMAIN filled.upstreams, backwards)
                           IN [i \in DOMAIN names |-> filled.upstreams[names[i]]],
             snis |-> populated.rules.snis,
             failures |-> populated.failures \cup upstreams.failures \cup filled.failures
                          \cup UNION {overridden[i].failures : i \in DOMAIN overridden}]
    IN with(FillUpstreamOverrides(cluster, upstreams.upstreams, [u \in DOMAIN upstreams.upstreams |->
                Visit(DOMAIN upstreams.upstreams[u].service.k8sServices, backwards)]))

BuildServices(cluster, rules, backwards) ==
    LET fill(populated, upstreams) ==
            FillServices(cluster, populated, upstreams,
                         ServicesInOrder(upstreams.services, populated.skip, backwards), backwards)
        resolve(populated) ==
            fill(populated, getUpstreams(cluster, populated.rules.services,
                                         Visit(DOMAIN populated.rules.services, backwards)))
    IN resolve(populateServices(cluster, rules))

\* Plugins and custom entities, which refer to the services and consumers.
BuildPlugins(cluster, params, services, consumers, groups, backwards) ==
    LET with(relations, entities) ==
            [panics |-> relations.panics, entities |-> entities,
             plugins |-> buildPlugins(cluster, relations.rels, Visit(DOMAIN relations.rels, backwards))]
    IN with(getPluginRelations(cluster, services, consumers, groups),
            IF params.customEntities THEN FillCustomEntities(cluster, params.entitySchemas, services, consumers)
            ELSE [collections |-> <<>>, failures |-> {}])

\* Certificates of Ingresses and Gateways, merged, and those of CAs.
BuildCertificates(cluster, snis, backwards) ==
    LET with(ingress, gateway, ca) ==
            [merged |-> mergeCerts(<<ingress.certs, gateway.certs>>), ca |-> ca.caCertificates,
             failures |-> ingress.failures \cup gateway.failures \cup ca.failures]
    IN with(getCerts(cluster, snis, Visit(DOMAIN snis, backwards)), getGatewayCerts(cluster), getCACerts(cluster))

\* The state, what is reported as configured and what as failed.
KongState(params, served, consumers, groups, vaults, attached, certs, backwards) ==
    [panics |-> attached.panics,
     configured |-> {c.uid : c \in consumers.consumers} \cup {v.uid : v \in vaults.vaults}
                    \cup {g.uid : g \in ToSet(groups)} \cup {p.parent : p \in ToSet(attached.plugins.plugins)}
                    \cup UNION {{e.uid : e \in ToSet(collection.entities)} :
                                  collection \in Range(attached.entities.collections)},
     state |-> [services |-> [i \in DOMAIN served.services |->
                                RefillClientCertificate(served.services[i], certs.merged.idToMergedID)],
                upstreams |-> served.upstreams,
                certificates |-> Visit(certs.merged.certificates, backwards),
                caCertificates |-> Visit(certs.ca, backwards),
                licenses |-> IF params.enterprise THEN params.license ELSE <<>>,
                plugins |-> attached.plugins.plugins, consumers |-> Visit(consumers.consumers, backwards),
                groups |-> groups, vaults |-> Visit(vaults.vaults, backwards),
                customEntities |-> attached.entities.collections],
     failures |-> served.failures \cup consumers.failures \cup vaults.failures
                  \cup attached.plugins.failures \cup attached.entities.failures \cup certs.failures]

BuildKongConfig(cluster, rules, params, backwards) ==
    LET with(served, consumers, groups) ==
            KongState(params, served, consumers, groups, FillVaults(cluster),
                      BuildPlugins(cluster, params, served.services, Visit(consumers.consumers, backwards),
                                   groups, backwards),
                      BuildCertificates(cluster, served.snis, backwards), backwards)
    IN with(BuildServices(cluster, rules, backwards), FillConsumersAndCredentials(cluster),
            SetToSeq(FillConsumerGroups(cluster)))

----------------------------------------------------------------------------
(* The copy without sensitive values. *)

SanitizedCertificate(certificate) == [certificate EXCEPT !.key = Redacted]

SanitizedLicense(license) == Redacted

SanitizedCopy(state) ==
    [state EXCEPT !.certificates = [i \in DOMAIN @ |-> SanitizedCertificate(@[i])],
                  !.consumers = [i \in DOMAIN @ |-> SanitizedConsumer(@[i])],
                  !.licenses = [i \in DOMAIN @ |-> SanitizedLicense(@[i])]]
============================================================================
