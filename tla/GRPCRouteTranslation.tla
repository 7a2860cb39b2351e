----------------------- MODULE GRPCRouteTranslation -----------------------
(***************************************************************************)
(* Translation of GRPCRoutes into Kong services and routes                 *)
(* (subtranslator/grpcroute_atc.go and grpcroute.go), driven by            *)
(* translator/translate_grpcroute.go.                                      *)
(*                                                                         *)
(* A GRPCRoute is a record: group, kind, label, ns, name, key, created,    *)
(* hostnames, snis, parentRefs and rules with matches and backendRefs.  A  *)
(* match has headers and an optional method [type, service, method] whose  *)
(* service and method are optional texts.                                  *)
(***************************************************************************)
EXTENDS HTTPRouteTranslation, BackendRefs

----------------------------------------------------------------------------
(* Expressions of a match. *)

GRPCPath(service, method) == Slash \o service \o Slash \o method

methodMatcherFromGRPCExactMethodMatch(service, method) ==
    CASE service = <<>> /\ method = <<>> -> Predicate(<<"http.path">>, "^=", Slash)
      [] service # <<>> /\ method = <<>> -> Predicate(<<"http.path">>, "^=", GRPCPath(service[1], <<>>))
      [] service = <<>> /\ method # <<>> -> Predicate(<<"http.path">>, "=^", Slash \o method[1])
      [] service # <<>> /\ method # <<>> -> Predicate(<<"http.path">>, "==", GRPCPath(service[1], method[1]))

methodMatcherFromGRPCRegexMethodMatch(service, method) ==
    IF service = <<>> /\ method = <<>> THEN Predicate(<<"http.path">>, "^=", Slash)
    ELSE Predicate(<<"http.path">>, "~",
                   <<"^">> \o GRPCPath(OrElse(service, <<".+">>), OrElse(method, <<".+">>)))

methodMatcherFromGRPCMethodMatch(m) ==
    IF m.type = "RegularExpression"
    THEN methodMatcherFromGRPCRegexMethodMatch(m.service, m.method)
    ELSE methodMatcherFromGRPCExactMethodMatch(m.service, m.method)

\* The order of the headers, sorted by name, makes no difference.
headerMatcherFromGRPCHeaderMatches(headers) == headerMatcherFromHTTPHeaderMatches(headers)

generateMatcherFromGRPCMatch(match, hostnames, snis) ==
    And([i \in DOMAIN match.method |-> methodMatcherFromGRPCMethodMatch(match.method[i])]
        \o <<headerMatcherFromGRPCHeaderMatches(match.headers)>>
        \o <<hostMatcherFromHosts(hostnames), sniMatcherFromSNIs(snis)>>)

EmptyGRPCMatch == [method |-> <<>>, headers |-> <<>>]

GRPCMatchesOf(rule) == IF rule.matches = <<>> THEN <<EmptyGRPCMatch>> ELSE rule.matches

----------------------------------------------------------------------------
(* Splitting and priorities. *)

SplitGRPCRoute(grpcroute) ==
    LET hostnames == IF grpcroute.hostnames = <<>> THEN <<<<>>>> ELSE grpcroute.hostnames
    IN {[source |-> grpcroute, hostname |-> hostnames[h], position |-> h,
         match |-> GRPCMatchesOf(grpcroute.rules[rm[1]])[rm[2]],
         ruleIndex |-> rm[1] - 1, matchIndex |-> rm[2] - 1] :
        h \in DOMAIN hostnames,
        rm \in UNION {{r} \X DOMAIN GRPCMatchesOf(grpcroute.rules[r]) : r \in DOMAIN grpcroute.rules}}

CalculateGRCPRouteMatchPriorityTraits(part) ==
    LET method == part.match.method
        length(option) == IF option = <<>> THEN 0 ELSE Len(option[1])
    IN [PreciseHostname |-> part.hostname # <<>> /\ ~IsWildcard(part.hostname),
        HostnameLength  |-> HostnameLength(part.hostname),
        ServiceLength   |-> IF method = <<>> THEN 0 ELSE length(method[1].service),
        MethodLength    |-> IF method = <<>> THEN 0 ELSE length(method[1].method),
        HeaderCount     |-> Len(part.match.headers)]

GRPCBasePriority(part) == EncodeGRPCRoutePriority(CalculateGRCPRouteMatchPriorityTraits(part))

\* The same comparison as for HTTPRoutes.
compareSplitGRPCRouteMatchesRelativePriority(p, q) ==
    compareSplitHTTPRouteMatchesRelativePriority(p, q)

AssignRoutePriorityToSplitGRPCRouteMatches(parts) ==
    LET tied(p) == {q \in parts : GRPCBasePriority(q) = GRPCBasePriority(p)}
        position(p) == Cardinality({q \in tied(p) : q # p /\
                                      compareSplitGRPCRouteMatchesRelativePriority(q, p)})
    IN [p \in parts |-> WithOrder(GRPCBasePriority(p), RelativeOrderBits(GRPCOrderSpan, position(p)))]

KongServiceNameFromSplitGRPCRouteMatch(part) ==
    <<"grpcroute", part.source.ns, part.source.name>> \o HostInName(part.hostname) \o Number(part.ruleIndex)

KongExpressionRouteFromSplitGRPCRouteMatchWithPriority(part, priority) ==
    LET name == KongServiceNameFromSplitGRPCRouteMatch(part) \o Number(part.matchIndex)
        m == generateMatcherFromGRPCMatch(part.match, <<part.hostname>>, part.source.snis)
        route == ApplyExpression(NewRoute(name), m, priority)
    IN IF IsEmpty(m) THEN [route EXCEPT !.expression = CatchAllHTTPExpression] ELSE route

----------------------------------------------------------------------------
(* Kong services. *)

\* "grpc" when a listener of the parents speaks HTTP.
getProtocolForKongService(cluster, grpcroute) ==
    IF getGatewayListeningPorts(cluster, grpcroute.ns, "HTTP", grpcroute.parentRefs) # {}
    THEN "grpc" ELSE "grpcs"

ingressRulesFromGRPCRouteWithPriority(cluster, rules, part, priority) ==
    LET route == part.source
        service == generateKongServiceFromBackendRefWithName(
                       cluster, rules, KongServiceNameFromSplitGRPCRouteMatch(part), route,
                       getProtocolForKongService(cluster, route), route.rules[part.ruleIndex + 1].backendRefs)
        kong == KongExpressionRouteFromSplitGRPCRouteMatchWithPriority(part, priority)
    IN CacheService(rules, [service EXCEPT !.routes = Append(@, [route |-> kong, part |-> part])], route)

\* The parts come in the order of a Go map.
ingressRulesFromGRPCRoutesUsingExpressionRoutes(cluster, grpcroutes) ==
    LET parts == UNION {SplitGRPCRoute(grpcroutes[i]) : i \in DOMAIN grpcroutes}
        priorities == AssignRoutePriorityToSplitGRPCRouteMatches(parts)
    IN [FoldLeft(LAMBDA acc, p : ingressRulesFromGRPCRouteWithPriority(cluster, acc, p, priorities[p]),
                 newIngressRules, SetToSeq(parts))
          EXCEPT !.reported = ToSet(grpcroutes)]

----------------------------------------------------------------------------
(* Traditional routes. *)

\* Own hostnames, or those of the listeners the parentRefs name.  A namespace
\* that one parentRef gives is kept for those after it; a Gateway that is not
\* found ends it without any hostname.
getGRPCRouteHostnamesAsSliceOfStringPointers(cluster, grpcroute) ==
    LET step(acc, pr) ==
            LET ns == OrElse(pr.ns, acc.ns)  gateway == <<ns, pr.name>>
                hostnames == IF gateway \notin DOMAIN cluster.gateways THEN {}
                             ELSE UNION {ToSet(l.hostname) : l \in {x \in ToSet(cluster.gateways[gateway]) :
                                                                     pr.section \in {<<>>, <<x.name>>}}}
            IN IF acc.missing \/ pr.kind # "Gateway" THEN acc
               ELSE IF gateway \notin DOMAIN cluster.gateways THEN [acc EXCEPT !.missing = TRUE]
               ELSE [acc EXCEPT !.ns = ns, !.hostnames = @ \cup hostnames]
        all == FoldLeft(step, [ns |-> grpcroute.ns, hostnames |-> {}, missing |-> FALSE], grpcroute.parentRefs)
    IN IF grpcroute.hostnames # <<>> THEN ToSet(grpcroute.hostnames)
       ELSE IF all.missing THEN {} ELSE all.hostnames

\* The default service is any; so is a method for a regular expression.
getGRPCMatchDefaults(type) ==
    [service |-> <<".+">>, method |-> IF type = "RegularExpression" THEN <<".+">> ELSE <<>>]

\* One route per match; a rule without matches is matched by its hostnames,
\* or by the path "/" when there are none.  The type of a header is not read.
GenerateKongRoutesFromGRPCRouteRule(cluster, grpcroute, ruleNumber) ==
    LET rule == grpcroute.rules[ruleNumber + 1]
        hosts == getGRPCRouteHostnamesAsSliceOfStringPointers(cluster, grpcroute)
        name(m) == <<"grpcroute", grpcroute.ns, grpcroute.name>> \o Number(ruleNumber) \o Number(m - 1)
        path(m) == GRPCPath(OrElse(m.service, getGRPCMatchDefaults(m.type).service),
                            OrElse(m.method, getGRPCMatchDefaults(m.type).method))
    IN IF rule.matches = <<>>
       THEN <<[NewRoute(name(1)) EXCEPT !.hosts = hosts, !.paths = IF hosts = {} THEN {Slash} ELSE {}]>>
       ELSE [m \in DOMAIN rule.matches |->
               [NewRoute(name(m)) EXCEPT
                  !.hosts = hosts,
                  !.paths = {<<"~">> \o path(rule.matches[m].method[i]) : i \in DOMAIN rule.matches[m].method},
                  !.headers = {[name |-> h.name, value |-> h.value] : h \in ToSet(rule.matches[m].headers)}]]

ingressRulesFromGRPCRoute(cluster, rules, grpcroute) ==
    LET add(acc, i) ==
            LET service == generateKongServiceFromBackendRefWithRuleNumber(
                               cluster, acc, grpcroute, i - 1, getProtocolForKongService(cluster, grpcroute),
                               grpcroute.rules[i].backendRefs)
                routes == GenerateKongRoutesFromGRPCRouteRule(cluster, grpcroute, i - 1)
            IN [acc EXCEPT !.services = (service.name :> [service EXCEPT !.routes = @ \o routes]) @@ @]
    IN FoldLeft(add, rules, [i \in DOMAIN grpcroute.rules |-> i])

\* Both flavours (ingressRulesFromGRPCRoutes).
ingressRulesFromGRPCRoutes(cluster, grpcroutes, expressionRoutes) ==
    IF expressionRoutes THEN ingressRulesFromGRPCRoutesUsingExpressionRoutes(cluster, grpcroutes)
    ELSE [FoldLeft(LAMBDA acc, r : ingressRulesFromGRPCRoute(cluster, acc, r), newIngressRules, grpcroutes)
            EXCEPT !.reported = ToSet(grpcroutes)]
============================================================================
