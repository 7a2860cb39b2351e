---------------------------- MODULE BackendRefs ----------------------------
(***************************************************************************)
(* From the backendRefs of Gateway API routes to the backends of Kong      *)
(* services (translator/backendref.go, translator/translate_utils.go,      *)
(* gatewayapi/references.go), and the rules all translators fill           *)
(* (translator/ingressrules.go).                                           *)
(*                                                                         *)
(* A backendRef is a record: kind and group, namespace, port and weight    *)
(* are optional (sequences of at most one element); name.  A cluster is    *)
(* what the store holds: services, a function on pairs of namespace and    *)
(* name; grants; gateways, a function to the listeners of each.            *)
(***************************************************************************)
EXTENDS Integers, Sequences, SequencesExt, FiniteSets, TLC

OrElse(option, default) == IF option = <<>> THEN default ELSE option[1]

----------------------------------------------------------------------------
(* ReferenceGrants. *)

\* What the grants of each namespace allow objects like "from" to refer to.
GetPermittedForReferenceGrantFrom(from, grants) ==
    {[ns |-> x[1].ns, to |-> x[2]] : x \in UNION {{g} \X g.to : g \in {y \in grants : from \in y.from}}}

isRefAllowedByGrant(ns, name, group, kind, allowed) ==
    \E a \in allowed : /\ a.ns = ns
                       /\ a.to.group = group /\ a.to.kind = kind
                       /\ a.to.name \in {<<>>, <<name>>}

\* Mutant: a grant in any namespace will do.
AllowedByAnyGrant(route, ref, allowed) ==
    \/ ref.ns = <<>>
    \/ ref.ns[1] = route.ns
    \/ \E a \in allowed : a.to.kind = ref.kind[1] /\ a.to.name \in {<<>>, <<ref.name>>}

IsRefAllowedByGrant(route, ref, allowed) ==
    \/ ref.ns = <<>>
    \/ ref.ns[1] = route.ns
    \/ isRefAllowedByGrant(ref.ns[1], ref.name, OrElse(ref.group, ""), ref.kind[1], allowed)

IsBackendRefGroupKindSupported(group, kind) ==
    kind # <<>> /\ OrElse(group, "") = "" /\ kind[1] = "Service"

----------------------------------------------------------------------------
(* Backends. *)

ServiceBackend(type, ns, name, port, weight) ==
    [type |-> type, ns |-> ns, name |-> name, port |-> port, weight |-> weight]

ByNumber(n) == [mode |-> "number", value |-> n]

\* References to nothing, to another kind or without a grant are left out; a
\* missing port is -1.
backendRefsToKongStateBackends(cluster, route, backendRefs, allowed) ==
    LET ns(ref) == OrElse(ref.ns, route.ns)
        usable(ref) == /\ ref.kind = <<"Service">>
                       /\ <<ns(ref), ref.name>> \in DOMAIN cluster.services
                       /\ IsBackendRefGroupKindSupported(ref.group, ref.kind)
                       /\ IsRefAllowedByGrant(route, ref, allowed)
        backend(ref) == ServiceBackend("KubernetesService", ns(ref), ref.name,
                                       ByNumber(OrElse(ref.port, -1)), ref.weight)
        refs == SelectSeq(backendRefs, usable)
    IN [i \in DOMAIN refs |-> backend(refs[i])]

\* A service that is known already is kept; each call that finds it without
\* backends though some were asked for adds a plugin that answers 500.
generateKongServiceFromBackendRefWithName(cluster, rules, serviceName, route, protocol, backendRefs) ==
    LET allowed == GetPermittedForReferenceGrantFrom([group |-> route.group, kind |-> route.kind, ns |-> route.ns],
                                                     cluster.grants)
        backends == backendRefsToKongStateBackends(cluster, route, backendRefs, allowed)
        service == IF serviceName \in DOMAIN rules.services THEN rules.services[serviceName]
                   ELSE [name |-> serviceName, host |-> serviceName, protocol |-> protocol,
                         ns |-> route.ns, backends |-> backends, parent |-> route, routes |-> <<>>,
                         terminations |-> 0]
    IN IF service.backends = <<>> /\ backendRefs # <<>>
       THEN [service EXCEPT !.terminations = @ + 1] ELSE service

\* "<kind>.<namespace>.<name>" in labels.
getUniqueKongServiceNameForObject(object) == <<object.label, object.ns, object.name>>

generateKongServiceFromBackendRefWithRuleNumber(cluster, rules, route, ruleNumber, protocol, backendRefs) ==
    generateKongServiceFromBackendRefWithName(
        cluster, rules, Append(getUniqueKongServiceNameForObject(route), ToString(ruleNumber)),
        route, protocol, backendRefs)

\* The ports of the listeners a route's parentRefs name, of one protocol.
getGatewayListeningPorts(cluster, ns, protocol, parentRefs) ==
    LET gateway(pr) == <<OrElse(pr.ns, ns), pr.name>>
        named(pr) == IF gateway(pr) \notin DOMAIN cluster.gateways THEN {}
                     ELSE {l \in ToSet(cluster.gateways[gateway(pr)]) :
                             pr.section \in {<<>>, <<l.name>>} /\ l.protocol = protocol}
    IN UNION {{l.port : l \in named(parentRefs[i])} : i \in DOMAIN parentRefs}

----------------------------------------------------------------------------
(* The rules: Kong services, the object each is tagged for, and the hosts  *)
(* each TLS secret serves.                                                 *)

newIngressRules == [services |-> <<>>, parents |-> <<>>, snis |-> <<>>, reported |-> {}]

CacheService(rules, service, parent) ==
    [rules EXCEPT !.services = (service.name :> service) @@ @,
                  !.parents = (service.name :> parent) @@ @]

\* secretToSNIs as a function to the hosts in order and the parents, and the
\* hosts of all secrets (seenHosts).
SeenHosts(snis) == UNION {ToSet(snis[k].hosts) : k \in DOMAIN snis}

ensureSNIsEntry(snis, secret) ==
    IF secret \in DOMAIN snis THEN snis ELSE snis @@ (secret :> [hosts |-> <<>>, parents |-> {}])

\* A host belongs to the first secret that names it.
addUniqueHosts(snis, secret, hosts) ==
    LET add(acc, host) == IF host \in SeenHosts(acc) THEN acc
                          ELSE [acc EXCEPT ![secret].hosts = Append(@, host)]
    IN FoldLeft(add, ensureSNIsEntry(snis, secret), hosts)

addUniqueParents(snis, secret, parents) ==
    [ensureSNIsEntry(snis, secret) EXCEPT ![secret].parents = @ \cup parents]

\* Sections without hosts or without a secret are left out.
addFromIngressV1TLS(snis, sections, parent) ==
    LET add(acc, tls) ==
            LET secret == <<parent.ns, tls.secret>> IN
            IF tls.hosts = <<>> \/ tls.secret = "" THEN acc
            ELSE addUniqueParents(addUniqueHosts(acc, secret, tls.hosts), secret, {parent})
    IN FoldLeft(add, snis, sections)

\* The other's secrets come in the order of a Go map, which makes no
\* difference: each of its hosts is in one of them only.
mergeSNIs(snis, other) ==
    FoldLeft(LAMBDA acc, secret : addUniqueHosts(addUniqueParents(acc, secret, other[secret].parents),
                                                 secret, other[secret].hosts),
             snis, SetToSeq(DOMAIN other))

\* Later rules win a service name.
mergeIngressRules(objs) ==
    FoldLeft(LAMBDA acc, obj :
               [services |-> obj.services @@ acc.services, parents |-> obj.parents @@ acc.parents,
                snis |-> mergeSNIs(acc.snis, obj.snis),
                reported |-> acc.reported \cup obj.reported],
             newIngressRules, objs)
============================================================================
