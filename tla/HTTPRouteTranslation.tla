----------------------- MODULE HTTPRouteTranslation -----------------------
(***************************************************************************)
(* Translation of HTTPRoutes into Kong services and routes, with           *)
(* expression routes (subtranslator/httproute_atc.go) and with traditional *)
(* routes (subtranslator/httproute.go), driven by                          *)
(* translator/translate_httproute.go.                                      *)
(*                                                                         *)
(* An HTTPRoute is a record: key, its rank in the order of namespace and   *)
(* name; name, the labels of its namespace and name; created; hostnames;   *)
(* snis, from its annotation; rules.  A rule has matches, filters,         *)
(* backends (its backendRefs as one value) and timeout (optional).  A      *)
(* match has an optional path [type, value], headers and queries (name,    *)
(* type, value) and an optional method.  Rules and matches count from 0.   *)
(***************************************************************************)
EXTENDS HTTPRouteFilters, RoutePriority, TLC

Number(n) == <<ToString(n)>>

----------------------------------------------------------------------------
(* Expressions of a match. *)

appendRegexBeginIfNotExist(regex) ==
    IF regex # <<>> /\ Head(regex) = "^" THEN regex ELSE <<"^">> \o regex

pathMatcherFromHTTPPathMatch(pathMatch) ==
    LET path == pathMatch.value IN
    CASE pathMatch.type = "Exact" -> Predicate(<<"http.path">>, "==", path)
      [] pathMatch.type = "PathPrefix" ->
            IF path \in {<<>>, Slash} THEN Predicate(<<"http.path">>, "^=", Slash)
            ELSE Or(<<Predicate(<<"http.path">>, "==", TrimSlash(path)),
                      Predicate(<<"http.path">>, "^=", TrimSlash(path) \o Slash)>>)
      [] pathMatch.type = "RegularExpression" ->
            Predicate(<<"http.path">>, "~", appendRegexBeginIfNotExist(path))

\* Exact unless the type says RegularExpression.
ValueOperator(m) == IF m.type = "RegularExpression" THEN "~" ELSE "=="

headerMatcherFromHTTPHeaderMatches(headers) ==
    And([i \in DOMAIN headers |->
           Predicate(<<"http.headers", headers[i].name>>, ValueOperator(headers[i]), headers[i].value)])

queryParamMatcherFromHTTPQueryParamMatches(queries) ==
    And([i \in DOMAIN queries |->
           Predicate(<<"http.queries", queries[i].name>>, ValueOperator(queries[i]), queries[i].value)])

generateMatcherFromHTTPRouteMatch(match) ==
    And([i \in DOMAIN match.path |-> pathMatcherFromHTTPPathMatch(match.path[i])]
        \o <<headerMatcherFromHTTPHeaderMatches(match.headers)>>
        \o <<queryParamMatcherFromHTTPQueryParamMatches(match.queries)>>
        \o [i \in DOMAIN match.method |-> methodMatcherFromMethods(match.method)])

\* An empty hostname gives an empty matcher, which is left out.
matchersFromParentHTTPRoute(hostnames, snis) ==
    (IF hostnames = <<>> THEN <<>> ELSE <<hostMatcherFromHosts(hostnames)>>)
    \o (IF snis = <<>> THEN <<>> ELSE <<sniMatcherFromSNIs(snis)>>)

----------------------------------------------------------------------------
(* Splitting HTTPRoutes and giving the parts a priority. *)

NoMatch == [path |-> <<>>, headers |-> <<>>, queries |-> <<>>, method |-> <<>>]

\* A rule without matches has one that matches everything.
MatchesOf(rule) == IF rule.matches = <<>> THEN <<NoMatch>> ELSE rule.matches

\* One part per hostname (or "" without any), rule and match.
SplitHTTPRoute(httproute) ==
    LET hostnames == IF httproute.hostnames = <<>> THEN <<<<>>>> ELSE httproute.hostnames
    IN {[source |-> httproute, hostname |-> hostnames[h], position |-> h,
         match |-> MatchesOf(httproute.rules[rm[1]])[rm[2]],
         ruleIndex |-> rm[1] - 1, matchIndex |-> rm[2] - 1] :
        h \in DOMAIN hostnames,
        rm \in UNION {{r} \X DOMAIN MatchesOf(httproute.rules[r]) : r \in DOMAIN httproute.rules}}

\* The length of a hostname whose labels are one character each.
HostnameLength(hostname) == IF hostname = <<>> THEN 0 ELSE 2 * Len(hostname) - 1

CalculateHTTPRouteMatchPriorityTraits(part) ==
    LET match == part.match
    IN [PreciseHostname |-> part.hostname # <<>> /\ ~IsWildcard(part.hostname),
        HostnameLength  |-> HostnameLength(part.hostname),
        PathType        |-> IF match.path = <<>> THEN "" ELSE match.path[1].type,
        PathLength      |-> IF match.path = <<>> THEN 0 ELSE Len(match.path[1].value),
        HasMethodMatch  |-> match.method # <<>>,
        HeaderCount     |-> Len(match.headers),
        QueryParamCount |-> Len(match.queries)]

BasePriority(part) == EncodeHTTPRoutePriority(CalculateHTTPRouteMatchPriorityTraits(part))

\* Mutant: the newest HTTPRoute goes first.
NewestFirst(p, q) ==
    LET s == p.source  t == q.source IN
    IF s.created # t.created THEN s.created > t.created
    ELSE IF s.key # t.key THEN s.key < t.key
    ELSE IF p.ruleIndex # q.ruleIndex THEN p.ruleIndex < q.ruleIndex
    ELSE IF p.matchIndex # q.matchIndex THEN p.matchIndex < q.matchIndex
    ELSE p.position > q.position

\* Two hostnames of one match reach the comparison's last line, which says
\* true for both orders: the insertion sort then puts the later one first.
compareSplitHTTPRouteMatchesRelativePriority(p, q) ==
    LET s == p.source  t == q.source IN
    IF s.created # t.created THEN s.created < t.created
    ELSE IF s.key # t.key THEN s.key < t.key
    ELSE IF p.ruleIndex # q.ruleIndex THEN p.ruleIndex < q.ruleIndex
    ELSE IF p.matchIndex # q.matchIndex THEN p.matchIndex < q.matchIndex
    ELSE p.position > q.position

\* The parts of one base priority are sorted, and the i-th of them gets the
\* relative order OrderSpan - 1 - i.
AssignRoutePriorityToSplitHTTPRouteMatches(parts) ==
    LET tied(p) == {q \in parts : BasePriority(q) = BasePriority(p)}
        position(p) == Cardinality({q \in tied(p) : q # p /\
                                      compareSplitHTTPRouteMatchesRelativePriority(q, p)})
    IN [p \in parts |-> WithOrder(BasePriority(p), RelativeOrderBits(OrderSpan, position(p)))]

----------------------------------------------------------------------------
(* Kong services and routes from the parts. *)

\* "*" is not allowed in a Kong name, an empty hostname is "_".
HostInName(hostname) ==
    IF hostname = <<>> THEN <<"_">>
    ELSE [i \in DOMAIN hostname |-> IF hostname[i] = "*" THEN "_" ELSE hostname[i]]

\* Names are their labels joined with dots.
KongServiceNameFromSplitHTTPRouteMatch(part) ==
    <<"httproute">> \o part.source.name \o HostInName(part.hostname) \o Number(part.ruleIndex)

NewRoute(name) ==
    [name |-> name, expression |-> NoMatcher, priority |-> 0, hosts |-> {}, paths |-> {},
     methods |-> {}, headers |-> {}, snis |-> {}, transformers |-> <<>>, terminations |-> <<>>,
     annotation |-> <<>>]

PathOf(match) == IF match.path = <<>> THEN <<>> ELSE match.path[1].value

\* Hostname, SNIs and match; an empty expression becomes the catch-all one;
\* then the filters of the rule.
KongExpressionRouteFromHTTPRouteMatchWithPriority(part, priority) ==
    LET name == KongServiceNameFromSplitHTTPRouteMatch(part) \o Number(part.matchIndex)
        m == And(matchersFromParentHTTPRoute(<<part.hostname>>, part.source.snis)
                 \o <<generateMatcherFromHTTPRouteMatch(part.match)>>)
        route == ApplyExpression(NewRoute(name), m, priority)
        whole == IF IsEmpty(m) THEN [route EXCEPT !.expression = CatchAllHTTPExpression] ELSE route
    IN SetRoutePlugins(whole, part.source.rules[part.ruleIndex + 1].filters, PathOf(part.match), TRUE)

\* DefaultServiceTimeout, in the unit of the rules' timeouts.
DefaultServiceTimeout == 60

\* applyTimeoutsToService: the timeout of the last rule that has one goes to
\* every service of the HTTPRoute.
applyTimeoutsToService(httproute) ==
    LET timed == {i \in DOMAIN httproute.rules : httproute.rules[i].timeout # <<>>}
    IN IF timed = {} THEN DefaultServiceTimeout
       ELSE httproute.rules[CHOOSE i \in timed : \A j \in timed : j <= i].timeout[1]

\* The service and the route of one part; error when its filters fail.
ingressRulesFromSplitHTTPRouteMatchWithPriority(part, priority) ==
    [part |-> part, service |-> KongServiceNameFromSplitHTTPRouteMatch(part),
     backends |-> part.source.rules[part.ruleIndex + 1].backends,
     route |-> KongExpressionRouteFromHTTPRouteMatchWithPriority(part, priority)]

\* A service that is known already keeps its backends, a part that fails adds
\* nothing.  Parts come in any order, so where two parts share a service
\* name, any of them may have named the backends.
RulesOfParts(httproutes, translated) ==
    LET good == {x \in translated : ~x.route.error}
    IN [services |-> [n \in {x.service : x \in good} |->
                        {x.backends : x \in {y \in good : y.service = n}}],
        routes |-> {[service |-> x.service, part |-> x.part, name |-> x.route.route.name,
                     expression |-> x.route.route.expression,
                     priority |-> x.route.route.priority] : x \in good},
        failures |-> {x.part.source.key : x \in translated \ good},
        timeouts |-> [i \in DOMAIN httproutes |-> applyTimeoutsToService(httproutes[i])]]

ingressRulesFromHTTPRoutesUsingExpressionRoutes(httproutes) ==
    LET parts == UNION {SplitHTTPRoute(httproutes[i]) : i \in DOMAIN httproutes}
        priorities == AssignRoutePriorityToSplitHTTPRouteMatches(parts)
    IN RulesOfParts(httproutes,
                    {ingressRulesFromSplitHTTPRouteMatchWithPriority(p, priorities[p]) : p \in parts})

\* validateHTTPRoute: rules there must be, and query parameters need
\* expression routes.
validateHTTPRoute(httproute, expressions) ==
    /\ httproute.rules # <<>>
    /\ expressions \/ \A i \in DOMAIN httproute.rules : \A j \in DOMAIN httproute.rules[i].matches :
          httproute.rules[i].matches[j].queries = <<>>

----------------------------------------------------------------------------
(* Traditional routes: the index of one HTTPRoute. *)

\* The rules of an HTTPRoute with their numbers.
RulesMeta(httproute) == {[number |-> r - 1, rule |-> httproute.rules[r]] : r \in DOMAIN httproute.rules}

\* Partition of a set by the keys of its elements.
GroupBy(S, key) == {{x \in S : key[x] = k} : k \in {key[x] : x \in S}}

\* The order of backendRefs and of filters does not matter to their keys.
groupRulesByBackendRefs(metas) == GroupBy(metas, [m \in metas |-> m.rule.backends])

groupRulesByFilter(metas) ==
    GroupBy(metas, [m \in metas |-> <<Len(m.rule.filters), ToSet(m.rule.filters)>>])

\* Headers of a match for its key: the first of each name.
FirstOfEachName(headers) ==
    {headers[i] : i \in {j \in DOMAIN headers : \A k \in 1 .. j - 1 : headers[k].name # headers[j].name}}

\* Matches with the same method, headers and query parameters are combined.
getKey(meta) ==
    <<meta.match.method, FirstOfEachName(meta.match.headers), FirstOfEachName(meta.match.queries)>>

\* The matches of a group of rules with the numbers of rule and match.
MatchMetas(metas) ==
    UNION {{[match |-> x.rule.matches[m], rule |-> x.number, number |-> m - 1] :
              m \in DOMAIN x.rule.matches} : x \in metas}

Before(m, n) == m.rule < n.rule \/ (m.rule = n.rule /\ m.number < n.number)

FirstMeta(group) == CHOOSE m \in group : \A n \in group \ {m} : Before(m, n)

InOrder(group) == SetToSortSeq(group, Before)

\* Named after the first rule and match of the group.
translateToKongRouteName(httproute, group) ==
    <<"httproute">> \o httproute.name \o Number(FirstMeta(group).rule)
        \o Number(FirstMeta(group).number)

\* One Kong route per key; a group of rules without any match at all has one
\* catch-all route, named after the first rule of the HTTPRoute.
translateToKongRoutes(httproute, metas) ==
    LET filters == (CHOOSE x \in metas : \A y \in metas : x.number <= y.number).rule.filters
        groups == GroupBy(MatchMetas(metas), [m \in MatchMetas(metas) |-> getKey(m)])
        named == {[name |-> translateToKongRouteName(httproute, g),
                   matches |-> [i \in 1 .. Cardinality(g) |-> InOrder(g)[i].match],
                   filters |-> filters] : g \in groups}
    IN IF groups = {}
       THEN {[name |-> <<"httproute">> \o httproute.name \o <<"0", "0">>,
              matches |-> <<>>, filters |-> filters]}
       ELSE named

\* One service per group of backends, named after the first rule of the group.
TranslateHTTPRoute(httproute) ==
    {LET first == CHOOSE x \in group : \A y \in group : x.number <= y.number IN
     [name |-> <<"httproute">> \o httproute.name \o Number(first.number),
      backends |-> first.rule.backends,
      kongRoutes |-> UNION {translateToKongRoutes(httproute, byFilter) :
                              byFilter \in groupRulesByFilter(group)}] :
     group \in groupRulesByBackendRefs(RulesMeta(httproute))}

----------------------------------------------------------------------------
(* Traditional routes: the Kong route of a translation. *)

generateKongRoutePathFromHTTPRouteMatch(match) ==
    LET path == match.path[1].value IN
    CASE match.path[1].type = "Exact" -> {<<"~">> \o path \o <<"$">>}
      [] match.path[1].type = "PathPrefix" ->
            {<<"~">> \o path \o <<"$">>,
             IF path # <<>> /\ Last(path) = "/" THEN path ELSE path \o Slash}
      [] match.path[1].type = "RegularExpression" -> {<<"~">> \o path}

\* Two entries for one header are an error; "~*" marks a regular expression.
convertGatewayMatchHeadersToKongRouteMatchHeaders(headers) ==
    [error |-> \E i, j \in DOMAIN headers : i < j /\ headers[i].name = headers[j].name,
     headers |-> {[name |-> headers[i].name,
                   value |-> (IF headers[i].type = "RegularExpression" THEN <<"~*">> ELSE <<>>)
                             \o headers[i].value] : i \in DOMAIN headers}]

HasFilter(filters, type) == \E i \in DOMAIN filters : filters[i].type = type

\* A prefix rewrite that names its replacement.
HasPrefixRewrite(filters) ==
    \E i \in DOMAIN filters :
        /\ filters[i].type = "URLRewrite"
        /\ filters[i].path # <<>>
        /\ filters[i].path[1].type = "ReplacePrefixMatch"
        /\ filters[i].path[1].value # <<>>

\* getRoutesFromMatches with a redirect: every match adds its path, method
\* and plugins to the same route, of which a copy is kept for each match.
AddMatch(route, match, filters) ==
    SetRoutePlugins([route EXCEPT
        !.paths = @ \cup (IF match.path = <<>> THEN {} ELSE generateKongRoutePathFromHTTPRouteMatch(match)),
        !.methods = @ \cup ToSet(match.method)], filters, PathOf(match), FALSE)

KeepCopy(acc, s) ==
    [route |-> s.route, routes |-> Append(acc.routes, s.route), error |-> acc.error \/ s.error]

RedirectRoutes(route, matches, filters) ==
    FoldLeft(LAMBDA acc, m : KeepCopy(acc, AddMatch(acc.route, m, filters)),
             [route |-> route, routes |-> <<>>, error |-> FALSE], matches)

\* generateKongRoutesFromHTTPRouteMatches: the headers of the first match
\* stand for all; the path of a prefix rewrite is that of the first match.
generateKongRoutesFromHTTPRouteMatches(translation, hostnames) ==
    LET matches == translation.matches
        filters == translation.filters
        bare == [NewRoute(translation.name) EXCEPT !.hosts = ToSet(hostnames)]
        converted == convertGatewayMatchHeadersToKongRouteMatchHeaders(matches[1].headers)
        withHeaders == [bare EXCEPT !.headers = converted.headers]
        combined == [withHeaders EXCEPT
                       !.paths = UNION {IF matches[i].path = <<>> THEN {}
                                        ELSE generateKongRoutePathFromHTTPRouteMatch(matches[i]) :
                                        i \in DOMAIN matches},
                       !.methods = UNION {ToSet(matches[i].method) : i \in DOMAIN matches}]
        path == IF HasPrefixRewrite(filters) THEN PathOf(matches[1]) ELSE <<>>
        single(one) == [error |-> one.error, routes |-> <<one.route>>]
    IN IF matches = <<>> THEN [error |-> FALSE, routes |-> <<bare>>]
       ELSE IF converted.error THEN [error |-> TRUE, routes |-> <<>>]
       ELSE IF HasFilter(filters, "RequestRedirect")
            THEN RedirectRoutes(withHeaders, matches, filters)
            ELSE single(SetRoutePlugins(combined, filters, path, FALSE))

\* GenerateKongExpressionRoutesFromHTTPRouteMatches: the expression routes the
\* admission webhook asks Kong about.  All matches of a translation are one
\* route, unless a redirect needs the path of each.
GenerateKongExpressionRoutesFromHTTPRouteMatches(translation, hostnames, snis) ==
    LET matches == translation.matches
        parents == matchersFromParentHTTPRoute(hostnames, snis)
        bare == NewRoute(translation.name)
        withMatcher(m, path) ==
            SetRoutePlugins(ApplyExpression(bare, And(<<m>> \o parents), 1),
                            translation.filters, path, TRUE)
        matcher(i) == generateMatcherFromHTTPRouteMatch(matches[i])
    IN IF matches = <<>> /\ hostnames = <<>>
       THEN <<[error |-> FALSE, route |-> [bare EXCEPT !.expression = CatchAllHTTPExpression]]>>
       ELSE IF matches = <<>>
       THEN <<[error |-> FALSE, route |-> ApplyExpression(bare, hostMatcherFromHosts(hostnames), 1)]>>
       ELSE IF HasFilter(translation.filters, "RequestRedirect")
       THEN [i \in DOMAIN matches |-> withMatcher(matcher(i), PathOf(matches[i]))]
       ELSE <<withMatcher(Or([i \in DOMAIN matches |-> matcher(i)]), <<>>)>>

\* ingressRulesFromHTTPRoute: every service of the HTTPRoute with its routes.
\* The rules of an HTTPRoute that fails may be translated up to the failure.
ingressRulesFromHTTPRoute(httproute) ==
    LET rules(made) ==
            [error |-> \E x \in made : x.result.error,
             timeout |-> applyTimeoutsToService(httproute),
             routes |-> UNION {{[service |-> x.service.name, backends |-> x.service.backends, from |-> x.from,
                                 route |-> x.result.routes[i]] : i \in DOMAIN x.result.routes} : x \in made}]
    IN rules(UNION {{[service |-> s, from |-> t,
                      result |-> generateKongRoutesFromHTTPRouteMatches(t, httproute.hostnames)] :
                     t \in s.kongRoutes} : s \in TranslateHTTPRoute(httproute)})

\* The HTTPRoutes of a list in traditional flavour; an invalid one is reported
\* and has no routes.
ingressRulesFromHTTPRoutes(httproutes) ==
    [i \in DOMAIN httproutes |->
        IF validateHTTPRoute(httproutes[i], FALSE) THEN ingressRulesFromHTTPRoute(httproutes[i])
        ELSE [error |-> TRUE, routes |-> {}]]
============================================================================
