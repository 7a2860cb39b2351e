-------------------------- MODULE UpstreamPolicies --------------------------
(***************************************************************************)
(* The settings of Kong upstreams: from KongIngresses, the annotations of  *)
(* Services and KongUpstreamPolicies (kongstate/upstream.go,               *)
(* kongstate/kongupstreampolicy.go, FillUpstreamOverrides).                *)
(*                                                                         *)
(* Settings are functions from the names of Kong's fields to values.  A    *)
(* hash of a policy is a function from what it hashes on to a value; the   *)
(* CRD allows one of them, and a cookie's path beside the cookie.          *)
(***************************************************************************)
EXTENDS Upstreams

\* None when no Service of the group names a KongIngress; the first one that
\* does decides, in the order of a Go map.
getKongIngressForServices(cluster, group) ==
    LET named == SelectSeq(group, LAMBDA s : Annotation(s, "override") # "")
        key == <<named[1].ns, Annotation(named[1], "override")>>
    IN CASE named = <<>> -> [ok |-> TRUE, found |-> <<>>]
         [] named # <<>> /\ key \notin DOMAIN cluster.kongIngresses -> [ok |-> FALSE, found |-> <<>>]
         [] OTHER -> [ok |-> TRUE, found |-> <<cluster.kongIngresses[key]>>]

overrideHostHeader(upstream, service) ==
    LET host == Annotation(service, "host-header")
    IN IF host = "" THEN upstream ELSE [upstream EXCEPT !.settings = ("host_header" :> host) @@ @]

overrideByKongIngress(upstream, kongIngress) ==
    IF kongIngress = <<>> THEN upstream
    ELSE [upstream EXCEPT !.settings = kongIngress[1].upstream @@ @]

\* Routes of the Gateway API take nothing from a KongIngress, and with one
\* around nothing from the Service either.
override(upstream, kongIngress, service) ==
    IF upstream.service.gatewayAPI /\ kongIngress # <<>> THEN upstream
    ELSE overrideHostHeader(overrideByKongIngress(upstream, kongIngress), service)

----------------------------------------------------------------------------
(* Policies. *)

\* Services are grouped by the name of their policy; the policy itself is
\* looked up in the namespace of the first, in the order of a Go map.
GetKongUpstreamPolicyForServices(cluster, group) ==
    LET names == {Annotation(s, "upstream-policy") : s \in ToSet(group)}
        key == <<group[1].ns, Annotation(group[1], "upstream-policy")>>
    IN CASE group = <<>> \/ names = {""} -> [ok |-> TRUE, found |-> <<>>]
         [] Cardinality(names) > 1 -> [ok |-> FALSE, found |-> <<>>]
         [] OTHER -> IF key \in DOMAIN cluster.policies
                     THEN [ok |-> TRUE, found |-> <<cluster.policies[key]>>]
                     ELSE [ok |-> FALSE, found |-> <<>>]

HashTypes == {"header", "cookie", "query_arg", "uri_capture"}

\* What is hashed: an input by its own name, the others by their type.
translateHashOn(hash, field) ==
    CASE "input" \in DOMAIN hash -> field :> hash["input"]
      [] "input" \notin DOMAIN hash /\ DOMAIN hash \cap HashTypes # {} ->
           field :> (CHOOSE t \in HashTypes : t \in DOMAIN hash)
      [] OTHER -> <<>>

\* The fields that say which header, cookie, argument or capture.
translateHashOnFields(hash, fields) ==
    LET given == DOMAIN hash \cap DOMAIN fields
    IN [f \in {fields[t] : t \in given} |-> hash[CHOOSE t \in given : fields[t] = f]]

HashOnFields == [header |-> "hash_on_header", cookie |-> "hash_on_cookie", cookie_path |-> "hash_on_cookie_path",
                 query_arg |-> "hash_on_query_arg", uri_capture |-> "hash_on_uri_capture"]

\* There is no fallback to a cookie of its own.
HashFallbackFields == [header |-> "hash_fallback_header", query_arg |-> "hash_fallback_query_arg",
                       uri_capture |-> "hash_fallback_uri_capture"]

\* The algorithm, the slots and the health checks are copied as they are.
TranslateKongUpstreamPolicy(policy) ==
    policy.plain @@ translateHashOn(policy.hashOn, "hash_on")
                 @@ translateHashOnFields(policy.hashOn, HashOnFields)
                 @@ translateHashOn(policy.hashOnFallback, "hash_fallback")
                 @@ translateHashOnFields(policy.hashOnFallback, HashFallbackFields)

overrideByKongUpstreamPolicy(upstream, policy) ==
    [upstream EXCEPT !.settings = TranslateKongUpstreamPolicy(policy) @@ @]

\* One upstream; its Services come in the order of a Go map.
FillUpstreamOverride(cluster, upstream, group) ==
    LET kongIngress == getKongIngressForServices(cluster, group)
        overridden == IF kongIngress.ok
                      THEN FoldLeft(LAMBDA u, s : override(u, kongIngress.found, s), upstream, group)
                      ELSE upstream
        policy == GetKongUpstreamPolicyForServices(cluster, group)
    IN [upstream |-> IF policy.ok /\ policy.found # <<>>
                     THEN overrideByKongUpstreamPolicy(overridden, policy.found[1]) ELSE overridden,
        failures |-> IF kongIngress.ok /\ policy.ok THEN {} ELSE {s.uid : s \in ToSet(group)}]

\* Orders gives the order in which the Services of each upstream are visited.
FillUpstreamOverrides(cluster, upstreams, orders) ==
    LET group(u) == [i \in DOMAIN orders[u] |-> upstreams[u].service.k8sServices[orders[u][i]]]
        filled == [u \in DOMAIN upstreams |-> FillUpstreamOverride(cluster, upstreams[u], group(u))]
    IN [upstreams |-> [u \in DOMAIN upstreams |-> filled[u].upstream],
        failures |-> UNION {filled[u].failures : u \in DOMAIN upstreams}]
============================================================================
