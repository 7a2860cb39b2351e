----------------------------- MODULE MCRouting -----------------------------
(***************************************************************************)
(* The translation of routing objects into Kong routes, one case per       *)
(* behaviour: an initial state picks what is translated (focus), the       *)
(* action of that focus picks objects and translates them.  The invariants *)
(* compare the result with what the Kubernetes APIs say of the objects,    *)
(* for every request of a small set.                                       *)
(***************************************************************************)
EXTENDS IngressTranslation, L4Translation, GRPCRouteTranslation

CONSTANT Foci   \* the translations a run looks at

VARIABLES focus, input, output

vars == <<focus, input, output>>

None == [none |-> TRUE]

Translated(f) == focus = f /\ output # None

----------------------------------------------------------------------------
(* Requests and HTTPRoutes. *)

Text(x) == <<x>>

Hosts == {<<"b", "c">>, <<"a", "c">>, <<"b", "a", "c">>}

Paths == {<<"/">>, <<"/", "a">>, <<"/", "a", "/">>, <<"/", "a", "b">>, <<"/", "a", "/", "b">>}

Header(n) == [name |-> n, value |-> Text("v")]

\* Method, header and query parameter of a request: all there, or one missing.
Conditions ==
    {<<"GET", {Header("h")}, {Header("q")}>>, <<"PUT", {Header("h")}, {Header("q")}>>,
     <<"GET", {}, {Header("q")}>>, <<"GET", {Header("h")}, {}>>}

Request(path, host, c) ==
    [path |-> path, host |-> host, method |-> Text(c[1]), protocol |-> Text("http"), sni |-> {},
     port |-> 80, headers |-> c[2], queries |-> c[3]]

Requests == {Request(p, h, c) : p \in Paths, h \in Hosts, c \in Conditions}

PathMatch(type, value) == <<[type |-> type, value |-> value]>>

ExactHeader(n) == [name |-> n, type |-> "Exact", value |-> Text("v")]

PathMatches ==
    {PathMatch("PathPrefix", <<"/">>), PathMatch("PathPrefix", <<"/", "a">>),
     PathMatch("Exact", <<"/", "a">>), PathMatch("RegularExpression", <<"/", "a", ".+">>)}

\* Conditions besides the path.
Extras ==
    {<<<<>>, <<>>, <<>>>>, <<<<Text("GET")>>, <<>>, <<>>>>, <<<<>>, <<ExactHeader("h")>>, <<>>>>,
     <<<<>>, <<>>, <<ExactHeader("q")>>>>}

Match(path, extra) ==
    [path |-> path, method |-> extra[1], headers |-> extra[2], queries |-> extra[3]]

Matches == {Match(p, x) : p \in PathMatches \cup {PathMatch("PathPrefix", <<"/", "a", "/">>)}, x \in Extras}

Hostnames == {<<>>, <<<<"*", "c">>>>, <<<<"b", "c">>>>, <<<<"a", "c">>, <<"b", "c">>>>}

Rule(matches, filters, backends) ==
    [matches |-> matches, filters |-> filters, backends |-> backends, timeout |-> <<>>]

HTTPRoute(key, created, hostnames, rules) ==
    [key |-> key, name |-> <<"ns", ToString(key)>>, created |-> created, hostnames |-> hostnames,
     snis |-> <<>>, rules |-> rules]

----------------------------------------------------------------------------
(* What the Gateway API says (independent of the translation). *)

\* A prefix is a prefix of the path's elements; a trailing slash counts not.
ElementPrefix(p, path) ==
    LET q == IF Last(p) = "/" THEN Front(p) ELSE p
    IN IsPrefix(q, path) /\ (Len(path) = Len(q) \/ path[Len(q) + 1] = "/")

PathAccepts(m, path) ==
    CASE m.type = "Exact" -> path = m.value
      [] m.type = "PathPrefix" -> ElementPrefix(m.value, path)
      [] m.type = "RegularExpression" -> MatchesHere(m.value, path)

Accepts(match, r) ==
    /\ \A i \in DOMAIN match.path : PathAccepts(match.path[i], r.path)
    /\ match.method # <<>> => r.method = match.method[1]
    /\ \A i \in DOMAIN match.headers :
          [name |-> match.headers[i].name, value |-> match.headers[i].value] \in r.headers
    /\ \A i \in DOMAIN match.queries :
          [name |-> match.queries[i].name, value |-> match.queries[i].value] \in r.queries

HostnameAccepts(hostname, r) == hostname = <<>> \/ HostCovers(hostname, r.host)

\* One candidate per HTTPRoute, hostname, rule and match.
Candidates(routes) ==
    UNION {{[route |-> routes[i], hostname |-> h, rule |-> rm[1], index |-> rm[2],
             match |-> routes[i].rules[rm[1]].matches[rm[2]]] :
              h \in IF routes[i].hostnames = <<>> THEN {<<>>} ELSE ToSet(routes[i].hostnames),
              rm \in UNION {{r} \X DOMAIN routes[i].rules[r].matches : r \in DOMAIN routes[i].rules}} :
           i \in DOMAIN routes}

\* The order of precedence, greatest first: a hostname without a wildcard,
\* a longer hostname, the type of the path, a longer path, a method, more
\* headers, more query parameters; then the older HTTPRoute, the smaller
\* name, the earlier rule and the earlier match.
Rank(c) ==
    <<Bit(c.hostname # <<>> /\ Head(c.hostname) # "*"), Len(c.hostname),
      Bit(c.match.path[1].type = "Exact"), Bit(c.match.path[1].type = "RegularExpression"),
      Len(c.match.path[1].value), Len(c.match.method), Len(c.match.headers), Len(c.match.queries),
      -c.route.created, -c.route.key, -c.rule, -c.index>>

Best(candidates) == {c \in candidates : \A d \in candidates \ {c} : Outranks(Rank(c), Rank(d))}

----------------------------------------------------------------------------
(* Expression routes of HTTPRoutes. *)

TranslateExpressions ==
    /\ focus = "http expressions" /\ output = None
    /\ \E h2 \in Hostnames, m1, m2 \in Matches, created \in {1, 2} :
         LET routes == <<HTTPRoute(1, created, input, <<Rule(<<m1>>, <<>>, "s1")>>),
                         HTTPRoute(2, 1, h2, <<Rule(<<m2>>, <<>>, "s2")>>)>>
         IN /\ input' = routes
            /\ output' = ingressRulesFromHTTPRoutesUsingExpressionRoutes(routes)
            /\ UNCHANGED focus

\* Whatever two HTTPRoutes say, a request is sent to the match the Gateway
\* API ranks first among those that accept it, and to no other: Kong's
\* expression router finds the highest of the priorities that
\* AssignRoutePriorityToSplitHTTPRouteMatches encodes, on that match alone.
BestMatchServed ==
    Translated("http expressions") =>
        \A r \in Requests :
            LET accepting == {c \in Candidates(input) : HostnameAccepts(c.hostname, r) /\ Accepts(c.match, r)}
                chosen == ExpressionChoice(output.routes, r)
            IN IF accepting = {} THEN chosen = {}
               ELSE {<<x.part.source.key, x.part.ruleIndex + 1, x.part.matchIndex + 1>> : x \in chosen}
                      = {<<c.route.key, c.rule, c.index>> : c \in Best(accepting)}

----------------------------------------------------------------------------
(* Traditional routes of an HTTPRoute with two rules. *)

SetHeader == [type |-> "RequestHeaderModifier", set |-> <<Header("x")>>, add |-> <<>>, remove |-> <<>>]

FewMatches ==
    {Match(PathMatch("PathPrefix", <<"/", "a">>), <<<<>>, <<>>, <<>>>>),
     Match(PathMatch("PathPrefix", <<"/", "a">>), <<<<Text("GET")>>, <<>>, <<>>>>),
     Match(PathMatch("Exact", <<"/", "a">>), <<<<>>, <<ExactHeader("h")>>, <<>>>>),
     Match(PathMatch("PathPrefix", <<"/">>), <<<<>>, <<ExactHeader("h")>>, <<>>>>),
     Match(PathMatch("RegularExpression", <<"/", "a", ".+">>), <<<<>>, <<>>, <<>>>>),
     Match(PathMatch("PathPrefix", <<"/", "a">>), <<<<>>, <<>>, <<ExactHeader("q")>>>>)}

TranslateTraditional ==
    /\ focus = "http traditional" /\ output = None
    /\ \E hostnames \in {<<>>, <<<<"b", "c">>>>}, m1, m2, m3 \in FewMatches,
          filters \in {<<>>, <<SetHeader>>}, backends \in {"s1", "s2"} :
         LET route == HTTPRoute(1, 1, hostnames, <<Rule(<<m1, m2>>, <<>>, "s1"),
                                                   Rule(<<m3>>, filters, backends)>>)
         IN /\ input' = route
            /\ output' = ingressRulesFromHTTPRoutes(<<route>>)[1]
            /\ UNCHANGED focus

\* Combining rules and matches into Kong routes neither loses a match nor
\* invents one: a request finds a Kong route to some backends with some
\* filters exactly when a rule with those backends and filters accepts it.
\* An HTTPRoute that asks for query parameters has no routes at all.
MatchesCombined ==
    Translated("http traditional") =>
      IF \E c \in Candidates(<<input>>) : c.match.queries # <<>>
      THEN output.error /\ output.routes = {}
      ELSE
        \A r \in Requests :
            {<<x.backends, x.from.filters>> : x \in {y \in output.routes : TraditionalMatches(y.route, r)}}
              = {<<c.route.rules[c.rule].backends, c.route.rules[c.rule].filters>> :
                   c \in {d \in Candidates(<<input>>) :
                            HostnameAccepts(d.hostname, r) /\ Accepts(d.match, r)}}

\* The Kong routes of an HTTPRoute whose rules all have matches have
\* different names: Kong refuses a configuration with two of one name.
RouteNamesDiffer ==
    Translated("http traditional") =>
        \A x, y \in output.routes : x.route.name = y.route.name => x = y

\* The expression routes the admission webhook has Kong validate take the
\* same requests as the ones the translator will write for the HTTPRoute.
WebhookAsksTheSame ==
    Translated("http traditional") =>
        LET asked == UNION {UNION {ToSet(GenerateKongExpressionRoutesFromHTTPRouteMatches(
                                            t, input.hostnames, input.snis)) :
                                     t \in s.kongRoutes} : s \in TranslateHTTPRoute(input)}
            written == ingressRulesFromHTTPRoutesUsingExpressionRoutes(<<input>>)
        IN \A r \in Requests :
              (\E x \in asked : Holds(x.route.expression, r))
                <=> (\E x \in written.routes : Holds(x.expression, r))

----------------------------------------------------------------------------
(* Filters of a rule with one prefix match. *)

RulePrefixes == {<<"/">>, <<"/", "a">>, <<"/", "a", "/">>}

Replacements == {<<"/">>, <<"/", "n">>, <<"/", "n", "/">>, <<>>}

Modifiers ==
    {[type |-> "RequestHeaderModifier", set |-> st, add |-> ad, remove |-> rm] :
        st \in {<<>>, <<[name |-> "h", value |-> Text("new")]>>},
        ad \in {<<>>, <<[name |-> "g", value |-> Text("new")]>>},
        rm \in {<<>>, <<"d">>}}

Rewrite(value, hostname) ==
    [type |-> "URLRewrite", path |-> <<[type |-> "ReplacePrefixMatch", value |-> value]>>,
     hostname |-> hostname]

TranslateFilters ==
    /\ focus = "filters" /\ output = None
    /\ \E prefix \in RulePrefixes, value \in {<<x>> : x \in Replacements},
          hostname \in {<<>>, <<Text("up")>>}, modifier \in Modifiers, expressions \in BOOLEAN,
          first \in BOOLEAN :
         LET rewrite == Rewrite(value, hostname)
             filters == IF first THEN <<modifier, rewrite>> ELSE <<rewrite, modifier>>
         IN /\ input' = [prefix |-> prefix, value |-> value, hostname |-> hostname, modifier |-> modifier,
                         expressions |-> expressions]
            /\ output' = SetRoutePlugins(NewRoute(<<"r">>), filters, prefix, expressions)
            /\ UNCHANGED focus

\* The one request-transformer plugin of the route.
Transformer == output.route.transformers[1]

\* The regular expressions the route may be matched by.
Regexes ==
    IF input.expressions
    THEN {RewriteExact(normalizePath(input.prefix)), RewriteBelow(normalizePath(input.prefix))}
    ELSE {Tail(p) : p \in output.route.paths}

\* Two paths are the same but for one slash at the end.
UpToSlash(p, q) == TrimSlash(p) = TrimSlash(q)

\* A request below the prefix leaves Kong with the prefix replaced and the
\* rest of its path kept, and the path still starts with a slash; requests
\* outside of the prefix do not match the route at all.
PrefixReplaced ==
    Translated("filters") =>
        LET matching == {p \in Paths : IF input.expressions
                                       THEN Holds(output.route.expression,
                                                  Request(p, <<"b", "c">>, <<"GET", {}, {}>>))
                                       ELSE \E k \in output.route.paths : KongPathMatches(k, p)}
        IN /\ Transformer.replaceURI # <<>>
           /\ matching = {p \in Paths : ElementPrefix(input.prefix, p)}
           /\ \A p \in matching :
                \A uri \in ReplacedURIs(Transformer.replaceURI[1], Regexes, p) :
                    /\ IsPrefix(Slash, uri)
                    /\ UpToSlash(uri, TrimSlash(input.value[1]) \o Drop(p, Len(TrimSlash(input.prefix))))

\* All the filters of a rule take effect, whatever their order: headers are
\* set, added and removed, and the host is rewritten.
FiltersAllApply ==
    Translated("filters") =>
        LET before == {[name |-> n, value |-> Text("old")] : n \in {"h", "g", "d", "host"}}
            after == TransformedHeaders(Transformer, before)
            valuesOf(n) == {h.value : h \in {x \in after : x.name = n}}
            changes(list, n) == {list[i].value : i \in {j \in DOMAIN list : list[j].name = n}}
            m == input.modifier
        IN /\ Len(output.route.transformers) = 1
           /\ valuesOf("h") = IF m.set = <<>> THEN {Text("old")} ELSE changes(m.set, "h")
           /\ valuesOf("g") = {Text("old")} \cup changes(m.add, "g")
           /\ valuesOf("d") = IF m.remove = <<>> THEN {Text("old")} ELSE {}
           /\ valuesOf("host") = IF input.hostname = <<>> THEN {Text("old")} ELSE {input.hostname[1]}

----------------------------------------------------------------------------
(* One Ingress in both flavours. *)

Service(name) == [kind |-> "Service", name |-> name, port |-> "80"]

IngressPath(type, path, backend) == [type |-> type, path |-> path, backend |-> backend]

Ingress(key, created, annotations, rules, default) ==
    [key |-> key, ns |-> "ns", name |-> <<"i" \o ToString(key)>>, created |-> created,
     annotations |-> annotations, rules |-> rules, defaultBackend |-> default, tls |-> <<>>]

NoFacades == [f \in {} |-> ""]

IngressFlags(expressions) ==
    [expressionRoutes |-> expressions, facades |-> TRUE, rewriteURIs |-> TRUE, legacy |-> FALSE]

\* The services of the translation, for one order of the index.
IngressServices(ingresses, facades, expressions, order) ==
    ingressRulesFromIngressV1(ingresses, facades, IngressFlags(expressions), order).services

\* The orders in which Translate may visit the index.
Orders(ingresses, facades) ==
    SetToSeqs(DOMAIN IndexOf(OldestFirst(ingresses), facades, TRUE).cache)

IngressPaths ==
    ({"Prefix", "Exact", ""} \X {<<"/">>, <<"/", "a">>, <<"/", "/", "a", "/">>})
      \cup {<<"", <<"/", "~", "/", "a", ".+", "$">>>>, <<"", <<>>>>}

IngressAnnotations ==
    {NoAnnotations, [NoAnnotations EXCEPT !.aliases = <<<<"a", "c">>>>],
     [NoAnnotations EXCEPT !.methods = <<Text("GET"), Text("POST")>>],
     [NoAnnotations EXCEPT !.headers = <<[name |-> "h", values |-> <<Text("v"), Text("w")>>]>>],
     [NoAnnotations EXCEPT !.snis = <<<<Text("s")>>>>]}

TranslateIngress ==
    /\ focus = "ingress" /\ output = None
    /\ \E p1, p2 \in IngressPaths, b2 \in {"s1", "s2"}, host \in {<<>>, <<"b", "c">>, <<"*", "c">>},
          anns \in IngressAnnotations :
         LET ingress == Ingress(1, 1, anns, <<[host |-> host, paths |->
                                  <<IngressPath(p1[1], p1[2], Service("s1")),
                                    IngressPath(p2[1], p2[2], Service(b2))>>]>>, <<>>)
             order == CHOOSE o \in Orders({ingress}, NoFacades) : TRUE
         IN /\ input' = ingress
            /\ output' = [traditional |-> IngressServices({ingress}, NoFacades, FALSE, order),
                          expressions |-> IngressServices({ingress}, NoFacades, TRUE, order)]
            /\ UNCHANGED focus

\* What the Ingress API says of a path; a prefix counts whole elements.
IngressPathAccepts(p, path) ==
    LET flat == flattenMultipleSlashes(p.path) IN
    CASE p.type = "Exact" -> path = flat
      [] p.type = "Prefix" -> ElementPrefix(flat, path)
      [] p.type = "" -> IF IsPrefix(<<"/", "~">>, flat) THEN MatchesHere(Drop(flat, 2), path)
                        ELSE IsPrefix(flat, path)

\* The conditions the annotations add to a rule.
AnnotationsAccept(host, anns, r) ==
    /\ (host # <<>> \/ anns.aliases # <<>>) =>
          HostCovers(host, r.host) \/ \E i \in DOMAIN anns.aliases : HostCovers(anns.aliases[i], r.host)
    /\ anns.methods # <<>> => r.method \in ToSet(anns.methods)
    /\ \A i \in DOMAIN anns.headers :
          \E h \in r.headers : h.name = anns.headers[i].name /\ h.value \in ToSet(anns.headers[i].values)
    /\ anns.snis # <<>> => \E s \in r.sni : s \in ToSet(anns.snis[1])

IngressRequests ==
    {[Request(p, h, c) EXCEPT !.sni = sni] :
        p \in Paths, h \in Hosts, c \in {<<"GET", {Header("h")}, {}>>, <<"PUT", {Header("h")}, {}>>,
                                         <<"GET", {}, {}>>},
        sni \in {{}, {Text("s")}}}

\* The names of the services whose routes take a request.
Takers(services, Takes(_)) ==
    {services[n].backend.name : n \in {m \in DOMAIN services :
        \E i \in DOMAIN services[m].routes : Takes(services[m].routes[i])}}

\* Traditional routes with the overrides of the annotations, and expression
\* routes, take exactly the requests that the host, the paths and their types
\* and the annotations of the Ingress describe: the two translations, written
\* apart and completed in different places, agree.
IngressPathsServed ==
    Translated("ingress") =>
        \A r \in IngressRequests :
            LET rule == input.rules[1]
                wanted == {rule.paths[i].backend.name :
                             i \in {j \in DOMAIN rule.paths :
                                      /\ AnnotationsAccept(rule.host, input.annotations, r)
                                      /\ IngressPathAccepts(rule.paths[j], r.path)}}
            IN /\ Takers(output.traditional,
                         LAMBDA x : TraditionalMatches(OverrideRoute(x, x.ingress.annotations), r)) = wanted
               /\ Takers(output.expressions, LAMBDA x : Holds(x.expression, r)) = wanted

----------------------------------------------------------------------------
(* Ingresses that compete, default backends and facades. *)

TwoPaths == {<<"Prefix", <<"/", "a">>>>, <<"Exact", <<"/", "a">>>>, <<"", <<"/">>>>}

Backends == {Service("s1"), [kind |-> "KongServiceFacade", name |-> "f", port |-> ""],
             [kind |-> "KongServiceFacade", name |-> "gone", port |-> ""]}

Facades == <<"ns", "f">> :> "80"

TranslateIngresses ==
    /\ focus = "ingresses" /\ output = None
    /\ \E p1, p2 \in TwoPaths, h1, h2 \in {<<>>, <<"b", "c">>, <<"*", "c">>}, b \in Backends,
          default1, default2 \in {<<>>, <<Service("s1")>>, <<Service("s3")>>}, created \in {1, 2} :
         LET one == Ingress(1, created, NoAnnotations,
                            <<[host |-> h1, paths |-> <<IngressPath(p1[1], p1[2], b)>>]>>, default1)
             two == Ingress(2, 1, NoAnnotations,
                            <<[host |-> h2, paths |-> <<IngressPath(p2[1], p2[2], Service("s2"))>>]>>, default2)
         IN \E order \in Orders({one, two}, Facades) :
              /\ input' = [ingresses |-> <<one, two>>, order |-> order]
              /\ output' = IngressServices({one, two}, Facades, TRUE, order)
              /\ UNCHANGED focus

\* The Kong routes of a translation with the service they belong to.
RoutesOf(services) ==
    UNION {{[service |-> services[n].backend.name, route |-> services[n].routes[i]] :
              i \in DOMAIN services[n].routes} : n \in DOMAIN services}

\* The default backend is the one of the oldest Ingress that has one, and it
\* is given exactly the requests that no rule of any Ingress with a working
\* backend accepts, though its service may be shared with a rule: the routes
\* of rules all have a higher priority than the route of the default backend.
DefaultBackendLast ==
    Translated("ingresses") =>
        \A r \in {Request(p, h, <<"GET", {}, {}>>) : p \in Paths, h \in Hosts} :
            LET ruled(i) == LET rule == input.ingresses[i].rules[1] IN
                            /\ rule.paths[1].backend.name # "gone"
                            /\ AnnotationsAccept(rule.host, NoAnnotations, r)
                            /\ IngressPathAccepts(rule.paths[1], r.path)
                candidates == {i \in 1 .. 2 : input.ingresses[i].defaultBackend # <<>>}
                oldest == {i \in candidates : \A j \in candidates \ {i} :
                              Older(input.ingresses[i], input.ingresses[j])}
                matching == {x \in RoutesOf(output) : Holds(x.route.expression, r)}
                chosen == {x \in matching : \A y \in matching : y.route.priority <= x.route.priority}
            IN IF \E i \in 1 .. 2 : ruled(i)
               THEN {x.service : x \in chosen} \subseteq
                      {input.ingresses[i].rules[1].paths[1].backend.name : i \in {j \in 1 .. 2 : ruled(j)}}
                    /\ chosen # {}
               ELSE {x.service : x \in chosen} = {input.ingresses[i].defaultBackend[1].name : i \in oldest}

\* Hosts and headers that give two Ingresses routes of the same and of
\* different numbers of fields.
RankedIngress(key, host, headers, path) ==
    Ingress(key, 1, [NoAnnotations EXCEPT !.headers = headers],
            <<[host |-> host, paths |-> <<IngressPath(path[1], path[2], Service("s" \o ToString(key)))>>]>>, <<>>)

AnnotatedHeader(n) == [name |-> n, values |-> <<Text("v")>>]

RankIngresses ==
    /\ focus = "ingress ranks" /\ output = None
    /\ \E h1, h2 \in {<<>>, <<"b", "c">>, <<"*", "c">>},
          a1, a2 \in {<<>>, <<AnnotatedHeader("h")>>, <<AnnotatedHeader("h"), AnnotatedHeader("g")>>},
          p1, p2 \in {<<"Exact", <<"/", "a">>>>, <<"Prefix", <<"/", "a">>>>, <<"Prefix", <<"/", "a", "/", "b">>>>,
                      <<"", <<"/", "a", "/">>>>} :
         LET ingresses == {RankedIngress(1, h1, a1, p1), RankedIngress(2, h2, a2, p2)}
             order == CHOOSE o \in Orders(ingresses, NoFacades) : TRUE
         IN /\ input' = ingresses
            /\ output' = IngressServices(ingresses, NoFacades, TRUE, order)
            /\ UNCHANGED focus

RankRequests ==
    {[Request(p, <<"b", "c">>, <<"GET", {}, {}>>) EXCEPT !.headers = {Header("h"), Header("g")}] :
        p \in Paths \cup {<<"/", "a", "/", "b">>}}

\* What calculateIngressRoutePriorityTraits makes of the one path of an
\* Ingress; Exact and Prefix paths are regular expressions.
RankTraits(ingress) ==
    LET rule == ingress.rules[1]
        p == rule.paths[1]
        headers == Len(ingress.annotations.headers)
    IN [MatchFields |-> 1 + Bit(rule.host # <<>>) + Bit(headers # 0), HeaderCount |-> headers,
        PlainHostOnly |-> rule.host # <<>> /\ ~IsWildcard(rule.host), HasRegexPath |-> p.type # "",
        MaxPathLength |-> Len(p.path) + Bit(p.type = "Prefix")]

\* Ingress i comes before j: in the order the comment on
\* calculateExpressionRoutePriority lists the criteria, but for the pairs on
\* which the bits of the priority are laid out otherwise.
RanksBefore(i, j) ==
    LET both == i.rules[1].host # <<>> /\ j.rules[1].host # <<>>
        t == RankTraits(i)
        u == RankTraits(j)
    IN \/ LayoutPrefers(t, u, both)
       \/ Outranks(IngressRouteRank(t, both), IngressRouteRank(u, both)) /\ ~LayoutPrefers(u, t, both)

\* A request that two Ingresses accept is sent to the one that comes first,
\* or to either when none does: packing the five criteria into one number
\* keeps their order, also when a path is too long for its bits.
IngressRankServed ==
    Translated("ingress ranks") =>
        \A r \in RankRequests :
            LET accepting == {i \in input : LET rule == i.rules[1] IN
                                /\ AnnotationsAccept(rule.host, i.annotations, r)
                                /\ IngressPathAccepts(rule.paths[1], r.path)}
                first == {i \in accepting : \A j \in accepting : ~RanksBefore(j, i)}
                matching == {x \in RoutesOf(output) : Holds(x.route.expression, r)}
                chosen == {x.route.ingress.key : x \in {y \in matching :
                             \A z \in matching : z.route.priority <= y.route.priority}}
            IN chosen \subseteq {i.key : i \in first} /\ (chosen = {} <=> accepting = {})

----------------------------------------------------------------------------
(* The rewrite annotation and the overrides. *)

RECURSIVE Captures1(_)

\* The longest run of digits a text starts with.
Captures1(text) == IF text = <<>> \/ Head(text) \notin Digits THEN <<>> ELSE <<Head(text)>> \o Captures1(Tail(text))

RECURSIVE Template(_)

\* The template a rewrite value stands for, read from left to right: "\$" is
\* a dollar sign, "$" and digits a capture, everything else itself; <<>> when
\* it is none.
Template(text) ==
    LET after(token, n) == LET rest == Template(Drop(text, n))
                           IN IF rest = <<>> THEN <<>> ELSE <<<<token>> \o rest[1]>>
        digits == Captures1(Tail(text))
    IN CASE text = <<>> -> <<<<>>>>
         [] text # <<>> /\ Head(text) = "\\" ->
               IF Len(text) >= 2 /\ text[2] = "$" THEN after(<<"$">>, 2) ELSE <<>>
         [] text # <<>> /\ Head(text) = "$" ->
               IF digits # <<>> THEN after(<<"capture">> \o digits, 1 + Len(digits)) ELSE <<>>
         [] OTHER -> after(<<Head(text)>>, 1)

RewriteSymbols == {"$", "\\", "1", "x"}

ParseRewrite ==
    /\ focus = "rewrite" /\ output = None
    /\ \E n \in 0 .. 5 : \E uri \in [1 .. n -> RewriteSymbols] :
         /\ input' = uri
         /\ output' = [config |-> generateRewriteURIConfig(uri)]
         /\ UNCHANGED focus

\* The state machine that reads a rewrite value accepts exactly the values
\* made of plain text, "\$" and "$" with digits, and finds in them the
\* captures and the plain text in their order.
RewriteParsed == Translated("rewrite") => output.config = Template(input)

RewriteValues == {<<>>, <<<<>>>>, <<<<"/", "$", "1">>>>, <<<<"/", "$">>>>}

\* Two Ingresses with a path each to one service, and the index of their
\* routes visited in one order or the other.
RewriteIngresses ==
    /\ focus = "rewrites" /\ output = None
    /\ \E r1, r2 \in RewriteValues, expressions \in BOOLEAN :
         LET one(key, r) == Ingress(key, key, [NoAnnotations EXCEPT !.rewrite = r],
                              <<[host |-> <<>>, paths |-> <<IngressPath("Prefix", <<"/", "a">>, Service("s1"))>>]>>,
                              <<>>)
             ingresses == {one(1, r1), one(2, r2)}
         IN \E order \in Orders(ingresses, NoFacades) :
              /\ input' = ingresses
              /\ output' = IngressServices(ingresses, NoFacades, expressions, order)
              /\ UNCHANGED focus

\* What the rewrite annotation of an Ingress asks for; nothing when it has
\* none or a value that is no template.
RewriteAsked(ingress) ==
    LET r == ingress.annotations.rewrite
    IN IF r = <<>> THEN <<>> ELSE Template(IF r[1] = <<>> THEN Slash ELSE r[1])

Unreadable(ingress) == ingress.annotations.rewrite # <<>> /\ RewriteAsked(ingress) = <<>>

\* The routes of a service are visited up to the first whose Ingress has no
\* rewrite annotation (MaybeRewriteURI returns there): the routes before it
\* are rewritten exactly as their own Ingresses ask, it and the routes after
\* it are not, also those whose Ingress asks; and a service is given up
\* only when a value that is visited cannot be read.
RewritesAsked ==
    Translated("rewrites") =>
        /\ \A n \in DOMAIN output :
             LET routes == output[n].routes
             IN \A k \in DOMAIN routes :
                   routes[k].rewrites =
                      IF \A m \in 1 .. k : routes[m].ingress.annotations.rewrite # <<>>
                      THEN RewriteAsked(routes[k].ingress) ELSE <<>>
        /\ (\A i \in input : i.annotations.rewrite # <<>> /\ ~Unreadable(i)) =>
              \A x \in RoutesOf(output) : x.route.rewrites # <<>>
        /\ DOMAIN output = {} => \E i \in input : Unreadable(i)

Protocols == {<<>>, <<"http">>, <<"grpc", "https">>, <<"grpcs">>, <<"bad", "http">>, <<"tcp">>}

OverrideRoutes ==
    /\ focus = "overrides" /\ output = None
    /\ \E protocols \in Protocols, own \in {<<"http", "https">>, <<"grpc", "grpcs">>, <<>>},
          force, expressions \in BOOLEAN, code \in {"", "301", "999", "invalid"},
          strip \in {"", "true", "invalid"} :
         LET anns == [NoAnnotations EXCEPT !.protocols = protocols, !.forceSSLRedirect = force,
                                           !.redirectCode = code, !.stripPath = strip]
             route == [IngressRoute(<<"r">>, None) EXCEPT !.protocols = own, !.expressionRoutes = expressions]
         IN /\ input' = [annotations |-> anns, route |-> route]
            /\ output' = [route |-> OverrideRoute(route, anns)]
            /\ UNCHANGED focus

\* However the annotations that touch the protocols are combined, a
\* traditional route ends with gRPC or HTTP protocols and not both, one with
\* gRPC has no strip_path, which Kong refuses, and a route that is forced to
\* TLS and names no protocols accepts no plain text.
ProtocolsConsistent ==
    Translated("overrides") /\ ~input.route.expressionRoutes =>
        LET r == output.route  plain == {"http", "grpc"} IN
        /\ ~(Some(r.protocols, IsGRPC) /\ Some(r.protocols, IsHTTP))
        /\ Some(r.protocols, IsGRPC) => r.stripPath = ""
        /\ input.annotations.forceSSLRedirect
             /\ (input.annotations.protocols = <<>> \/ "bad" \in ToSet(input.annotations.protocols))
             => r.protocols # <<>> /\ ToSet(r.protocols) \cap plain = {}

----------------------------------------------------------------------------
(* Stream routes. *)

Object(kind, label, key, created) ==
    [group |-> "", kind |-> kind, label |-> label, ns |-> "ns", name |-> ToString(key), key |-> key,
     created |-> created]

StreamRule(port, host, service) == [port |-> port, host |-> host, service |-> service, servicePort |-> 80]

StreamIngress(kind, key, created, rules, tls) ==
    Object(kind, "", key, created) @@ [rules |-> rules, tls |-> tls]

StreamRules(kind) ==
    {StreamRule(port, host, service) : port \in {1, 2}, service \in {"s1", "s2", ""},
        host \in IF kind = "TCPIngress" THEN {<<>>, <<"b", "c">>} ELSE {<<>>}}

Connection(protocol, port, sni) == [protocol |-> protocol, port |-> port, sni |-> sni]

Connections ==
    {Connection(p, port, {}) : p \in {"tcp", "udp"}, port \in {1, 2, 3}}
      \cup {Connection(p, port, {sni}) : p \in {"tls", "tls_passthrough"}, port \in {1, 2, 3},
                                        sni \in {<<"b", "c">>, <<"a", "c">>}}

\* Two Ingresses of one kind, the first with two rules.
TranslateStreamIngresses ==
    /\ focus = "stream ingresses" /\ output = None
    /\ \E kind \in {"TCPIngress", "UDPIngress"}, created \in {1, 2}, expressions \in BOOLEAN :
         \E r1, r2, r3 \in StreamRules(kind) :
           LET one == StreamIngress(kind, 1, created, <<r1, r2>>, <<>>)
               two == StreamIngress(kind, 2, 1, <<r3>>, <<>>)
           IN /\ input' = {one, two}
              /\ output' = IF kind = "TCPIngress"
                           THEN ingressRulesFromTCPIngressV1beta1({one, two}, expressions)
                           ELSE ingressRulesFromUDPIngressV1beta1({one, two}, expressions)
              /\ UNCHANGED focus

\* The Kubernetes services a connection is sent to.
StreamTakers(services, c) ==
    UNION {{b.name : b \in ToSet(services[n].backends)} :
             n \in {m \in DOMAIN services : \E i \in DOMAIN services[m].routes : StreamMatches(services[m].routes[i], c)}}

\* A connection is sent to the services of exactly the rules with its port,
\* its protocol and, if they name a host, its SNI: rules of several Ingresses
\* that share a service neither lose each other nor take more connections, as
\* traditional and as expression routes.
StreamRulesServed ==
    Translated("stream ingresses") =>
        \A c \in Connections :
            LET fits(i, r) == /\ r.service # ""
                              /\ r.port = c.port
                              /\ IF i.kind = "TCPIngress" THEN c.protocol \in {"tcp", "tls"} ELSE c.protocol = "udp"
                              /\ r.host # <<>> => r.host \in c.sni
            IN StreamTakers(output.services, c)
                 = UNION {{r.service : r \in {x \in ToSet(i.rules) : fits(i, x)}} : i \in input}

Listener(name, port, protocol, passthrough) ==
    [name |-> name, port |-> port, protocol |-> protocol, passthrough |-> passthrough, hostname |-> <<>>]

ParentRef(name, section) == [kind |-> "Gateway", ns |-> <<>>, name |-> name, section |-> section]

BackendRef(ns, name) == [group |-> <<"">>, kind |-> <<"Service">>, ns |-> ns, name |-> name, port |-> <<80>>, weight |-> <<>>]

Grant(ns, kind, name) ==
    [ns |-> ns, from |-> {[group |-> "", kind |-> kind, ns |-> "ns"]},
     to |-> {[group |-> "", kind |-> "Service", name |-> name]}]

RuleRefs == {<<>>, <<BackendRef(<<>>, "s1")>>, <<BackendRef(<<>>, "gone")>>,
             <<BackendRef(<<"other">>, "s2"), BackendRef(<<"ns">>, "s1")>>}

Grants == {{}, {Grant("other", "TCPRoute", <<>>)}, {Grant("other", "TCPRoute", <<"s3">>)}, {Grant("ns", "TCPRoute", <<"s2">>)}}

Cluster(grants) ==
    [services |-> [x \in {<<"ns", "s1">>, <<"other", "s2">>} |-> TRUE],
     grants |-> grants,
     gateways |-> [x \in {<<"ns", "g">>} |->
                     <<Listener("l1", 1, "TCP", FALSE), Listener("l2", 2, "TCP", FALSE), Listener("u", 2, "UDP", FALSE),
                       Listener("t", 3, "TLS", FALSE), Listener("p", 3, "TLS", TRUE)>>]]

\* A route with two rules that refers to listeners of one Gateway.
TranslateStreamRoutes ==
    /\ focus = "stream routes" /\ output = None
    /\ \E kind \in {"TCPRoute", "UDPRoute", "TLSRoute"}, b1, b2 \in RuleRefs, grants \in Grants,
          section \in {<<>>, <<"l1">>, <<"t">>, <<"p">>}, expressions \in BOOLEAN,
          hostnames \in {<<>>, <<<<"b", "c">>>>, <<<<"b", "c">>, <<"a", "c">>>>} :
         LET refs == <<ParentRef("g", section), ParentRef("gone", <<>>)>>
             label == CASE kind = "TCPRoute" -> "tcproute" [] kind = "UDPRoute" -> "udproute" [] OTHER -> "tlsroute"
             route == Object(kind, label, 1, 1) @@
                        [rules |-> <<b1, b2>>, parentRefs |-> refs, attached |-> refs, hostnames |-> hostnames]
             cluster == Cluster(grants)
         IN /\ kind = "TLSRoute" \/ hostnames = <<>>
            /\ input' = [route |-> route, section |-> section, cluster |-> cluster]
            /\ output' = CASE kind = "TCPRoute" -> ingressRulesFromTCPRoutes(cluster, <<route>>, expressions)
                           [] kind = "UDPRoute" -> ingressRulesFromUDPRoutes(cluster, <<route>>, expressions)
                           [] OTHER -> ingressRulesFromTLSRoutes(cluster, <<route>>, expressions)
            /\ UNCHANGED focus

\* The listeners of the Gateway the route of the input refers to.
ReferredListeners ==
    {l \in ToSet(input.cluster.gateways[<<"ns", "g">>]) : input.section \in {<<>>, <<l.name>>}}

\* A backendRef leads to a Service that exists and lies in the namespace of
\* the route or in one with a grant for it.
Reachable(ref) ==
    LET ns == OrElse(ref.ns, "ns") IN
    /\ <<ns, ref.name>> \in DOMAIN input.cluster.services
    /\ ns = "ns" \/ \E g \in input.cluster.grants : /\ g.ns = ns
                                                    /\ \E f \in g.from : f.kind = input.route.kind /\ f.ns = "ns"
                                                    /\ \E t \in g.to : t.name \in {<<>>, <<ref.name>>}

\* The rules of a route that is translated without an error.
GoodRules ==
    LET bad == {i \in DOMAIN input.route.rules : input.route.rules[i] = <<>>}
    IN CASE input.route.kind = "TLSRoute" -> IF input.route.hostnames = <<>> THEN {} ELSE DOMAIN input.route.rules
         [] input.route.kind = "UDPRoute" -> IF bad = {} THEN DOMAIN input.route.rules ELSE {}
         [] OTHER -> {i \in DOMAIN input.route.rules : \A j \in bad : i < j}

\* A connection on a listener's port reaches exactly the Services the rules
\* of the route may use, each granted by the namespace it lies in; a TLSRoute
\* takes its hostnames, and is passed through exactly when a listener it is
\* attached to says so.
StreamRoutesServed ==
    Translated("stream routes") =>
        \A c \in Connections :
            LET kind == input.route.kind
                takes == CASE kind = "TCPRoute" -> c.protocol = "tcp" /\ \E l \in ReferredListeners :
                                                      l.protocol = "TCP" /\ l.port = c.port
                           [] kind = "UDPRoute" -> c.protocol = "udp" /\ \E l \in ReferredListeners :
                                                      l.protocol = "UDP" /\ l.port = c.port
                           [] OTHER -> /\ c.sni \cap ToSet(input.route.hostnames) # {}
                                       /\ c.protocol = IF \E l \in ReferredListeners : l.passthrough
                                                       THEN "tls_passthrough" ELSE "tls"
                refs == UNION {ToSet(input.route.rules[i]) : i \in GoodRules}
            IN StreamTakers(output.services, c)
                 = IF takes THEN {ref.name : ref \in {x \in refs : Reachable(x)}} ELSE {}

----------------------------------------------------------------------------
(* GRPCRoutes. *)

GRPCNames == {<<"a">>, <<"a", "b">>}

GRPCMethod(type, service, method) == <<[type |-> type, service |-> service, method |-> method]>>

GRPCMethods ==
    {<<>>, GRPCMethod("", <<<<"a">>>>, <<>>), GRPCMethod("Exact", <<>>, <<<<"a">>>>),
     GRPCMethod("Exact", <<<<"a">>>>, <<<<"a", "b">>>>),
     GRPCMethod("RegularExpression", <<<<"a", ".*">>>>, <<>>),
     GRPCMethod("RegularExpression", <<>>, <<<<"a", "b">>>>)}

GRPCMatches == {[method |-> m, headers |-> h] : m \in GRPCMethods, h \in {<<>>, <<ExactHeader("h")>>}}

GRPCRoute(key, created, hostnames, parentRefs, rules) ==
    Object("GRPCRoute", "grpcroute", key, created) @@
      [hostnames |-> hostnames, snis |-> <<>>, parentRefs |-> parentRefs, rules |-> rules]

GRPCRule(matches, service) == [matches |-> matches, backendRefs |-> <<BackendRef(<<>>, service)>>]

GRPCCluster ==
    [services |-> [x \in {<<"ns", "s1">>, <<"ns", "s2">>} |-> TRUE], grants |-> {},
     gateways |-> <<"ns", "g">> :> <<[Listener("l1", 80, "HTTP", FALSE) EXCEPT !.hostname = <<<<"b", "c">>>>],
                                     [Listener("l2", 443, "HTTPS", FALSE) EXCEPT !.hostname = <<<<"*", "c">>>>],
                                     Listener("l3", 443, "HTTPS", FALSE)>>]

GRPCRequests ==
    {Request(GRPCPath(s, m), host, <<"POST", headers, {}>>) :
        s, m \in GRPCNames, host \in Hosts \cup {<<"d">>}, headers \in {{}, {Header("h")}}}

\* What the Gateway API says of a match of a GRPCRoute.
GRPCTextAccepts(type, option, text) ==
    option # <<>> => IF type = "RegularExpression" THEN MatchesHere(Append(option[1], "$"), text)
                     ELSE text = option[1]

\* The service and the method a path is made of.
GRPCParts(path) ==
    CHOOSE x \in GRPCNames \X GRPCNames : path = GRPCPath(x[1], x[2])

GRPCAccepts(match, r) ==
    /\ \A i \in DOMAIN match.method :
          /\ GRPCTextAccepts(match.method[i].type, match.method[i].service, GRPCParts(r.path)[1])
          /\ GRPCTextAccepts(match.method[i].type, match.method[i].method, GRPCParts(r.path)[2])
    /\ \A i \in DOMAIN match.headers :
          [name |-> match.headers[i].name, value |-> match.headers[i].value] \in r.headers

TranslateGRPCExpressions ==
    /\ focus = "grpc expressions" /\ output = None
    /\ \E h1, h2 \in Hostnames, m1, m2 \in GRPCMatches, created \in {1, 2} :
         LET routes == <<GRPCRoute(1, created, h1, <<ParentRef("g", <<>>)>>, <<GRPCRule(<<m1>>, "s1")>>),
                         GRPCRoute(2, 1, h2, <<ParentRef("g", <<"l2">>)>>, <<GRPCRule(<<m2>>, "s2")>>)>>
         IN /\ input' = routes
            /\ output' = ingressRulesFromGRPCRoutes(GRPCCluster, routes, TRUE)
            /\ UNCHANGED focus

\* The order of precedence: a hostname without a wildcard, a longer hostname,
\* a longer service, a longer method, more headers; then the older route, the
\* smaller name, the earlier rule and match.
GRPCRank(c) ==
    LET length(option) == IF option = <<>> THEN 0 ELSE Len(option[1])
        method == c.match.method
    IN <<Bit(c.hostname # <<>> /\ Head(c.hostname) # "*"), Len(c.hostname),
         IF method = <<>> THEN 0 ELSE length(method[1].service),
         IF method = <<>> THEN 0 ELSE length(method[1].method), Len(c.match.headers),
         -c.route.created, -c.route.key, -c.rule, -c.index>>

\* A gRPC request is sent to the match of two GRPCRoutes that the Gateway API
\* ranks first among those that accept it, and to the backends of its rule;
\* the regular expressions of the cases match whole names.
GRPCBestMatchServed ==
    Translated("grpc expressions") =>
        LET routes == UNION {{[service |-> output.services[n], part |-> x.part, expression |-> x.route.expression,
                               priority |-> x.route.priority] : x \in ToSet(output.services[n].routes)} :
                             n \in DOMAIN output.services}
        IN \A r \in GRPCRequests :
              LET accepting == {c \in Candidates(input) : HostnameAccepts(c.hostname, r) /\ GRPCAccepts(c.match, r)}
                  best == {c \in accepting : \A d \in accepting \ {c} : Outranks(GRPCRank(c), GRPCRank(d))}
                  backendOf(c) == c.route.rules[c.rule].backendRefs[1].name
              IN {<<x.part.source.key, x.service.backends[1].name>> : x \in ExpressionChoice(routes, r)}
                   = {<<c.route.key, backendOf(c)>> : c \in best}

TranslateGRPCTraditional ==
    /\ focus = "grpc traditional" /\ output = None
    /\ \E hostnames \in Hostnames, m1, m2 \in GRPCMatches, section \in {<<>>, <<"l1">>, <<"l2">>, <<"l3">>},
          one \in BOOLEAN :
         LET rules == IF one THEN <<GRPCRule(<<m1>>, "s1"), GRPCRule(<<m2>>, "s2")>>
                      ELSE <<GRPCRule(<<m1, m2>>, "s1"), GRPCRule(<<>>, "s2")>>
             route == GRPCRoute(1, 1, hostnames, <<ParentRef("g", section)>>, rules)
         IN /\ input' = [route |-> route, section |-> section]
            /\ output' = ingressRulesFromGRPCRoutes(GRPCCluster, <<route>>, FALSE)
            /\ UNCHANGED focus

\* A path lies under the service and method of a match: what an exact match
\* asks for, or a longer name.
GRPCPathUnder(match, path) ==
    \A i \in DOMAIN match.method :
        LET m == match.method[i] IN
        /\ GRPCTextAccepts(m.type, m.service, GRPCParts(path)[1])
        /\ m.method # <<>> => MatchesHere(m.method[1], GRPCParts(path)[2])

\* Traditional routes lose no request the rules of a GRPCRoute accept, for
\* its own hostnames or else for those of the listeners it is attached to,
\* and take no request for another host, service or header.
GRPCRulesServed ==
    Translated("grpc traditional") =>
        LET listeners == {l \in ToSet(GRPCCluster.gateways[<<"ns", "g">>]) : input.section \in {<<>>, <<l.name>>}}
            hostnames == IF input.route.hostnames # <<>> THEN ToSet(input.route.hostnames)
                         ELSE UNION {ToSet(l.hostname) : l \in listeners}
            onHost(r) == hostnames = {} \/ \E h \in hostnames : HostCovers(h, r.host)
            headers(m, r) == \A h \in ToSet(m.headers) : [name |-> h.name, value |-> h.value] \in r.headers
            takers(r) == {output.services[n].backends[1].name : n \in {k \in DOMAIN output.services :
                             \E i \in DOMAIN output.services[k].routes :
                                 TraditionalMatches(output.services[k].routes[i], r)}}
            wanted(r, Fits(_, _)) ==
                {rule.backendRefs[1].name : rule \in {x \in ToSet(input.route.rules) :
                    onHost(r) /\ \E m \in ToSet(GRPCMatchesOf(x)) : Fits(m, r)}}
        IN \A r \in GRPCRequests :
              /\ wanted(r, GRPCAccepts) \subseteq takers(r)
              /\ takers(r) \subseteq wanted(r, LAMBDA m, q : GRPCPathUnder(m, q.path) /\ headers(m, q))

----------------------------------------------------------------------------
(* Rules of several kinds. *)

Secrets == {<<>>, <<[hosts |-> <<<<"b", "c">>>>, secret |-> "x"]>>,
            <<[hosts |-> <<<<"b", "c">>, <<"a", "c">>>>, secret |-> "y"], [hosts |-> <<<<"a", "c">>>>, secret |-> "x"]>>,
            <<[hosts |-> <<>>, secret |-> "z"], [hosts |-> <<<<"a", "c">>>>, secret |-> ""]>>}

\* An Ingress and a TCPIngress, merged in the order of BuildKongConfig.
MergeRules ==
    /\ focus = "merge" /\ output = None
    /\ \E s1, s2 \in {"s1", "s2"}, tls1, tls2, tls3 \in Secrets :
         LET one(key, tls) == [Ingress(key, key, NoAnnotations,
                                 <<[host |-> <<>>, paths |-> <<IngressPath("Prefix", <<"/">>, Service(s1))>>]>>, <<>>)
                               EXCEPT !.tls = tls]
             ingresses == {one(1, tls1), one(2, tls2)}
             tcp == StreamIngress("TCPIngress", 1, 1, <<StreamRule(1, <<>>, s2)>>, tls3)
             order == CHOOSE o \in Orders(ingresses, NoFacades) : TRUE
         IN /\ input' = <<one(1, tls1), one(2, tls2), tcp>>
            /\ output' = mergeIngressRules(<<ingressRulesFromIngressV1(ingresses, NoFacades, IngressFlags(TRUE), order),
                                             ingressRulesFromTCPIngressV1beta1({tcp}, TRUE)>>)
            /\ UNCHANGED focus

\* However objects of several kinds compete for a host, it ends with one
\* secret, the one of the first section that names it: Ingresses by age before
\* TCPIngresses, sections in their order; and every object that names a secret
\* with hosts is among the parents failures are reported on.
HostsOfSecrets ==
    Translated("merge") =>
        LET sections == FlattenSeq([i \in DOMAIN input |-> [j \in DOMAIN input[i].tls |->
                                      [tls |-> input[i].tls[j], object |-> input[i]]]])
            used == {i \in DOMAIN sections : sections[i].tls.hosts # <<>> /\ sections[i].tls.secret # ""}
            naming(h) == {i \in used : h \in ToSet(sections[i].tls.hosts)}
        IN /\ \A h \in {<<"b", "c">>, <<"a", "c">>} :
                 {k \in DOMAIN output.snis : h \in ToSet(output.snis[k].hosts)}
                   = {<<"ns", sections[i].tls.secret>> : i \in {j \in naming(h) : \A k \in naming(h) : j <= k}}
           /\ \A k \in DOMAIN output.snis : IsInjective(output.snis[k].hosts)
           /\ \A i \in used : sections[i].object \in output.snis[<<"ns", sections[i].tls.secret>>].parents

----------------------------------------------------------------------------

Init ==
    /\ focus \in Foci
    /\ input \in IF focus = "http expressions" THEN Hostnames ELSE {None}
    /\ output = None

Next ==
    \/ TranslateExpressions
    \/ TranslateTraditional
    \/ TranslateFilters
    \/ TranslateIngress
    \/ TranslateIngresses
    \/ RankIngresses
    \/ ParseRewrite
    \/ RewriteIngresses
    \/ OverrideRoutes
    \/ TranslateStreamIngresses
    \/ TranslateStreamRoutes
    \/ MergeRules
    \/ TranslateGRPCExpressions
    \/ TranslateGRPCTraditional

Spec == Init /\ [][Next]_vars

----------------------------------------------------------------------------
(* What is checked, by the kind of object; each part is stated above. *)

\* HTTPRoutes (httproute.go, httproute_atc.go, translate_httproute.go): a
\* request is served by the match that ranks first, as expression routes;
\* combining matches into routes loses and invents none, as traditional ones;
\* the webhook validates the same routes; and all filters take effect on what
\* the match takes.
HTTPRoutesServed ==
    /\ BestMatchServed /\ MatchesCombined /\ RouteNamesDiffer /\ WebhookAsksTheSame
    /\ PrefixReplaced /\ FiltersAllApply

\* Ingresses (ingress.go, ingress_atc.go, kongstate.go): both kinds of routes
\* take what the rules and annotations describe and agree, requests go to the
\* Ingress that comes first and to a default backend last, rewrites are read as
\* written and applied up to the first route that asks for none, and protocols
\* stay consistent.
IngressesServed ==
    /\ IngressPathsServed /\ IngressRankServed /\ DefaultBackendLast
    /\ RewriteParsed /\ RewritesAsked /\ ProtocolsConsistent

\* TCP, TLS and UDP (translate_kong_l4.go, translate_tcproute.go and its
\* siblings, ingressrules.go): connections reach exactly the services of the
\* rules for them, and each host of a TLS section one secret, however rules of
\* several objects are merged.
StreamsServed == StreamRulesServed /\ StreamRoutesServed /\ HostsOfSecrets

\* GRPCRoutes (grpcroute.go, grpcroute_atc.go): a request is served by the
\* match that ranks first, as expression routes, and none is lost or taken
\* from elsewhere, as traditional ones.
GRPCRoutesServed == GRPCBestMatchServed /\ GRPCRulesServed
============================================================================
