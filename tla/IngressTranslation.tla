------------------------- MODULE IngressTranslation -------------------------
(***************************************************************************)
(* Translation of Ingresses into Kong services and routes                  *)
(* (subtranslator/ingress.go and ingress_atc.go), driven by                *)
(* translator/translate_ingress.go.                                        *)
(*                                                                         *)
(* An Ingress is a record: key, its rank in the order of namespace and     *)
(* name; ns; name, the labels of its name; created; annotations; rules,    *)
(* each with a host (<<>> for none) and paths of [path, type, backend];    *)
(* defaultBackend, optional; tls, its sections.  A backend has a kind ("Service",             *)
(* "KongServiceFacade" or another), a name and a port as it is written in  *)
(* names.  facades maps the KongServiceFacades of the store, by namespace  *)
(* and name, to their port.                                                *)
(***************************************************************************)
EXTENDS HTTPRouteTranslation, RouteOverrides, BackendRefs

ControllerPathRegexPrefix == <<"/", "~">>

\* strings.TrimLeft(path, "/") and strings.Trim(path, "/").
TrimLeft(path) ==
    FoldLeft(LAMBDA acc, c : IF acc = <<>> /\ c = "/" THEN acc ELSE Append(acc, c), <<>>, path)

Trim(path) == Reverse(TrimLeft(Reverse(TrimLeft(path))))

flattenMultipleSlashes(path) ==
    FoldLeft(LAMBDA acc, c : IF acc # <<>> /\ Last(acc) = "/" /\ c = "/" THEN acc ELSE Append(acc, c),
             <<>>, path)

----------------------------------------------------------------------------
(* Backends and names. *)

\* The backend with the port its names use, or nothing.
getIngressPathBackend(ns, backend, facades, facadesEnabled) ==
    CASE backend.kind = "Service" -> <<backend>>
      [] backend.kind = "KongServiceFacade" ->
            IF facadesEnabled /\ <<ns, backend.name>> \in DOMAIN facades
            THEN <<[backend EXCEPT !.port = facades[<<ns, backend.name>>]]>> ELSE <<>>
      [] OTHER -> <<>>

\* An empty host is an empty label.
HostLabels(host) == IF host = <<>> THEN <<"">> ELSE host

intoKongRouteName(backend, ns, name, host) ==
    IF backend.kind = "KongServiceFacade"
    THEN <<ns>> \o name \o HostLabels(host) \o <<backend.name, "svc", "facade">>
    ELSE <<ns>> \o name \o <<backend.name>> \o HostLabels(host) \o <<backend.port>>

generateKongServiceName(ns, backend) ==
    IF backend.kind = "KongServiceFacade"
    THEN <<ns, backend.name, "svc", "facade">>
    ELSE <<ns, backend.name, backend.port>>

\* '*' is not allowed in a Kong name.
HostForName(host) == [i \in DOMAIN host |-> IF host[i] = "*" THEN "_" ELSE host[i]]

----------------------------------------------------------------------------
(* The index: one entry per Kong route. *)

\* The paths of an Ingress with the host of their rule, in order.
HostedPaths(ingress) ==
    FlattenSeq([r \in DOMAIN ingress.rules |->
                  [p \in DOMAIN ingress.rules[r].paths |->
                     [host |-> ingress.rules[r].host, path |-> ingress.rules[r].paths[p]]]])

\* An empty path is "/", a missing type is ImplementationSpecific.
NormalizedPath(p) ==
    LET path == flattenMultipleSlashes(p.path)
    IN [path |-> IF path = <<>> THEN Slash ELSE path,
        type |-> IF p.type = "" THEN "ImplementationSpecific" ELSE p.type]

\* One path of an Ingress.  An entry keeps the host, backend and regex prefix
\* of the Ingress that made it, and the last Ingress as its parent.
AddPath(index, ingress, hosted, facades, facadesEnabled) ==
    LET found == getIngressPathBackend(ingress.ns, hosted.path.backend, facades, facadesEnabled) IN
    IF found = <<>> THEN [index EXCEPT !.failures = @ \cup {ingress.key}]
    ELSE LET name == intoKongRouteName(found[1], ingress.ns, ingress.name, hosted.host)
             meta == IF name \in DOMAIN index.cache THEN index.cache[name]
                     ELSE [first |-> ingress, parentIngress |-> ingress, host |-> hosted.host,
                           backend |-> found[1], paths |-> <<>>]
         IN [index EXCEPT !.cache = (name :> [meta EXCEPT !.parentIngress = ingress,
                                                          !.paths = Append(@, NormalizedPath(hosted.path))])
                                    @@ @]

\* ingressTranslationIndex.Add for all Ingresses in turn.
IndexOf(ingresses, facades, facadesEnabled) ==
    LET add(index, ingress) ==
            FoldLeft(LAMBDA acc, hosted : AddPath(acc, ingress, hosted, facades, facadesEnabled),
                     index, HostedPaths(ingress))
    IN FoldLeft(add, [cache |-> <<>>, failures |-> {}], ingresses)

----------------------------------------------------------------------------
(* Traditional routes. *)

\* Mutant: a prefix path is written as it is.
PrefixAsIs(p) ==
    IF p.type = "Exact" THEN <<<<"~">> \o Slash \o TrimLeft(p.path) \o <<"$">>>>
    ELSE <<p.path>>

PathsFromIngressPaths(p) ==
    CASE p.type = "Prefix" ->
            IF Trim(p.path) = <<>> THEN <<Slash>>
            ELSE <<Slash \o Trim(p.path) \o Slash, <<"~">> \o Slash \o Trim(p.path) \o <<"$">>>>
      [] p.type = "Exact" -> <<<<"~">> \o Slash \o TrimLeft(p.path) \o <<"$">>>>
      [] p.type = "ImplementationSpecific" -> <<IF p.path = <<>> THEN Slash ELSE p.path>>

\* Symbols that are not in legacyRegexPathExpression.
LegacyRegex(path) == \E i \in DOMAIN path : path[i] \in {"$", "^", ".+", ".*", "(", ")"}

MaybePrependRegexPrefix(path, prefix, applyLegacyHeuristic) ==
    IF IsPrefix(prefix, path) THEN <<"~">> \o Drop(path, Len(prefix))
    ELSE IF applyLegacyHeuristic /\ LegacyRegex(path) /\ Head(path) # "~" THEN <<"~">> \o path
    ELSE path

\* MaybePrependRegexPrefixForIngressV1Fn: an annotation, empty too, goes first.
RegexPrefixOf(anns) ==
    IF anns.regexPrefix # <<>> THEN anns.regexPrefix[1] ELSE ControllerPathRegexPrefix

IngressRoute(name, ingress) ==
    [NewRoute(name) EXCEPT !.annotation = <<>>]
      @@ [ingress |-> ingress, expressionRoutes |-> FALSE, stripPath |-> "false",
          preserveHost |-> "true", requestBuffering |-> "true", responseBuffering |-> "true",
          protocols |-> <<>>, regexPriority |-> "", redirectCode |-> "", pathHandling |-> "",
          rewrites |-> <<>>]

translateIntoKongRoute(meta, legacy) ==
    LET name == intoKongRouteName(meta.backend, meta.first.ns, meta.first.name, HostForName(meta.host))
        prefix == RegexPrefixOf(meta.first.annotations)
    IN [IngressRoute(name, meta.parentIngress) EXCEPT
          !.protocols = <<"http", "https">>,
          !.regexPriority = "0",
          !.hosts = IF meta.host = <<>> THEN {} ELSE {meta.host},
          !.paths = UNION {{MaybePrependRegexPrefix(q, prefix, legacy) :
                              q \in ToSet(PathsFromIngressPaths(meta.paths[i]))} :
                           i \in DOMAIN meta.paths}]

----------------------------------------------------------------------------
(* Expression routes. *)

pathMatcherFromIngressPath(p, regexPrefix) ==
    LET Path(op, value) == Predicate(<<"http.path">>, op, value) IN
    CASE p.type = "Prefix" ->
            IF Trim(p.path) = <<>> THEN Path("^=", Slash)
            ELSE Or(<<Path("==", Slash \o Trim(p.path)), Path("^=", Slash \o Trim(p.path) \o Slash)>>)
      [] p.type = "Exact" -> Path("==", Slash \o TrimLeft(p.path))
      [] p.type = "ImplementationSpecific" ->
            CASE p.path = <<>> -> Path("^=", Slash)
              [] p.path # <<>> /\ regexPrefix # <<>> /\ IsPrefix(regexPrefix, p.path) ->
                    LET regex == Drop(p.path, Len(regexPrefix))
                    IN Path("~", appendRegexBeginIfNotExist(IF regex = <<>> THEN <<"^", "/">> ELSE regex))
              [] OTHER -> Path("^=", p.path)

\* The values of one header are alternatives; "host" is left out.
headerMatcherFromHeaders(anns) ==
    LET Value(name, v) ==
            IF v # <<>> /\ Head(v) = "~*" THEN Predicate(<<"http.headers", name>>, "~", Tail(v))
            ELSE Predicate(<<"http.headers", name>>, "==", v)
    IN And([i \in DOMAIN anns.headers |->
              LET h == anns.headers[i] IN
              IF h.name = "host" THEN NoMatcher
              ELSE Or([j \in DOMAIN h.values |-> Value(h.name, TrimSpace(h.values[j]))])])

\* The host of the rule and the aliases, as the annotation lists them.
HostsOf(host, anns) == (IF host = <<>> THEN <<>> ELSE <<host>>) \o anns.aliases

SNIsOf(anns) == IF anns.snis = <<>> THEN <<>> ELSE anns.snis[1]

\* The length of a path, and whether it is a regular expression in the
\* traditional flavour.
PathTraits(p, regexPrefix) ==
    CASE p.type = "Exact" -> [length |-> 1 + Len(TrimLeft(p.path)), regex |-> TRUE]
      [] p.type = "Prefix" ->
            [length |-> IF Trim(p.path) = <<>> THEN 1 ELSE 2 + Len(Trim(p.path)), regex |-> TRUE]
      [] p.type = "ImplementationSpecific" ->
            IF regexPrefix # <<>> /\ IsPrefix(regexPrefix, p.path)
            THEN [length |-> Len(p.path) - Len(regexPrefix), regex |-> TRUE]
            ELSE [length |-> Len(p.path), regex |-> FALSE]

calculateIngressRoutePriorityTraits(paths, regexPrefix, host, anns) ==
    LET traits == {PathTraits(paths[i], regexPrefix) : i \in DOMAIN paths}
        hosts == HostsOf(host, anns)
    IN [MatchFields   |-> Bit(paths # <<>>) + Bit(hosts # <<>>) + Bit(anns.headers # <<>>)
                            + Bit(anns.methods # <<>>) + Bit(SNIsOf(anns) # <<>>),
        PlainHostOnly |-> hosts # <<>> /\ \A i \in DOMAIN hosts : ~IsWildcard(hosts[i]),
        HeaderCount   |-> Len(anns.headers),
        MaxPathLength |-> Max({0} \cup {t.length : t \in traits}),
        HasRegexPath  |-> \E t \in traits : t.regex]

calculateExpressionRoutePriority(paths, regexPrefix, host, anns) ==
    EncodeIngressPriority(calculateIngressRoutePriorityTraits(paths, regexPrefix, host, anns))

translateIntoKongExpressionRoute(meta) ==
    LET ingress == meta.parentIngress
        anns == ingress.annotations
        name == intoKongRouteName(meta.backend, ingress.ns, ingress.name, HostForName(meta.host))
        prefix == IF RegexPrefixOf(anns) = <<>> THEN ControllerPathRegexPrefix ELSE RegexPrefixOf(anns)
        matcher == And(<<hostMatcherFromHosts(HostsOf(meta.host, anns)),
                         Or([i \in DOMAIN meta.paths |-> pathMatcherFromIngressPath(meta.paths[i], prefix)]),
                         headerMatcherFromHeaders(anns),
                         methodMatcherFromMethods(anns.methods),
                         sniMatcherFromSNIs(SNIsOf(anns))>>)
        priority == calculateExpressionRoutePriority(meta.paths, prefix, meta.host, anns)
    IN [ApplyExpression(IngressRoute(name, ingress), matcher, priority) EXCEPT !.expressionRoutes = TRUE]

----------------------------------------------------------------------------
(* Services from the index. *)

\* translateIntoKongStateService.
NewService(meta) ==
    [name |-> generateKongServiceName(meta.parentIngress.ns, meta.backend),
     backend |-> meta.backend, parent |-> meta.parentIngress.key, routes |-> <<>>]

\* ingressTranslationIndex.Translate.  The cache is a Go map: order is the
\* order in which this call happens to visit its entries.
Translate(index, order, expressionRoutes, legacy) ==
    LET step(services, name) ==
            LET meta == index.cache[name]
                serviceName == generateKongServiceName(meta.parentIngress.ns, meta.backend)
                service == IF serviceName \in DOMAIN services THEN services[serviceName]
                           ELSE NewService(meta)
                route == IF expressionRoutes THEN translateIntoKongExpressionRoute(meta)
                         ELSE translateIntoKongRoute(meta, legacy)
            IN (serviceName :> [service EXCEPT !.routes = Append(@, route)]) @@ services
    IN FoldLeft(step, <<>>, order)

----------------------------------------------------------------------------
(* The rewrite annotation. *)

Digits == {"1", "2"}

\* The four states of the parser, the output so far and whether it failed.
\* In the output, <<"capture", d>> stands for $(uri_captures[d]).
RewriteStep(s, char) ==
    LET start == CASE char = "$"  -> [s EXCEPT !.last = "Mark"]
                   [] char = "\\" -> [s EXCEPT !.last = "Escape"]
                   [] OTHER       -> [s EXCEPT !.last = "Plain", !.out = Append(@, <<char>>)]
    IN CASE s.failed -> s
         [] ~s.failed /\ s.last = "Escape" ->
               IF char # "$" THEN [s EXCEPT !.failed = TRUE]
               ELSE [s EXCEPT !.last = "Plain", !.out = Append(@, <<char>>)]
         [] ~s.failed /\ s.last = "Mark" ->
               IF char \notin Digits THEN [s EXCEPT !.failed = TRUE]
               ELSE [s EXCEPT !.last = "Digit", !.out = Append(@, <<"capture", char>>)]
         [] ~s.failed /\ s.last = "Digit" ->
               IF char \in Digits THEN [s EXCEPT !.out = Append(Front(@), Append(Last(@), char))]
               ELSE start
         [] ~s.failed /\ s.last = "Plain" -> start

generateRewriteURIConfig(uri) ==
    LET end == FoldLeft(RewriteStep, [last |-> "Plain", out |-> <<>>, failed |-> FALSE], uri)
    IN IF end.failed \/ end.last \in {"Escape", "Mark"} THEN <<>> ELSE <<end.out>>

\* The routes of a service up to the first without the annotation, which
\* ends the loop; a value that does not parse fails the whole service.
MaybeRewriteURI(service, rewriteURIs) ==
    LET Annotation(i) == service.routes[i].ingress.annotations.rewrite
        Config(i) == generateRewriteURIConfig(IF Annotation(i)[1] = <<>> THEN Slash ELSE Annotation(i)[1])
        stop == Min({Len(service.routes) + 1} \cup {i \in DOMAIN service.routes : Annotation(i) = <<>>})
        failed == \E i \in 1 .. stop - 1 : ~rewriteURIs \/ Config(i) = <<>>
    IN IF failed THEN <<>>
       ELSE <<[service EXCEPT !.routes = [i \in DOMAIN @ |->
                 IF i < stop THEN [@[i] EXCEPT !.rewrites = <<Config(i)[1]>>] ELSE @[i]]]>>

----------------------------------------------------------------------------
(* The default backend and the whole translation. *)

\* A stable sort by creation of a list in the order of namespace and name.
Older(i, j) == i.created < j.created \/ (i.created = j.created /\ i.key < j.key)

OldestFirst(ingresses) == SetToSortSeq(ingresses, Older)

translateIngressDefaultBackendRoute(ingress, expressionRoutes) ==
    LET route == IngressRoute(<<ingress.ns>> \o ingress.name, ingress) IN
    IF expressionRoutes
    THEN [ApplyExpression(route, And(<<Predicate(<<"http.path">>, "^=", Slash), CatchAllHTTPExpression>>),
                          IngressDefaultBackendPriority) EXCEPT !.expressionRoutes = TRUE]
    ELSE [route EXCEPT !.paths = {Slash}, !.protocols = <<"http", "https">>, !.regexPriority = "0"]

\* A KongServiceFacade that exists and that the feature gate allows.
translateIngressDefaultBackendResource(ingress, route, facades, facadesEnabled) ==
    LET resource == ingress.defaultBackend[1]
        key == <<ingress.ns, resource.name>>
    IN IF resource.kind # "KongServiceFacade" \/ ~facadesEnabled \/ key \notin DOMAIN facades THEN <<>>
       ELSE <<[name |-> <<ingress.ns, resource.name, "svc", "facade">>,
               backend |-> [resource EXCEPT !.port = facades[key]], parent |-> key, routes |-> <<route>>]>>

translateIngressDefaultBackendService(ingress, route) ==
    LET service == ingress.defaultBackend[1]
    IN <<[name |-> <<ingress.ns, service.name, service.port>>, backend |-> service,
          parent |-> ingress.key, routes |-> <<route>>]>>

\* The oldest Ingress with a default backend has the only one.
getDefaultBackendService(ingresses, facades, facadesEnabled, expressionRoutes) ==
    LET sorted == OldestFirst({i \in ingresses : i.defaultBackend # <<>>})
        route == translateIngressDefaultBackendRoute(sorted[1], expressionRoutes)
    IN CASE sorted = <<>> -> <<>>
         [] sorted # <<>> /\ sorted[1].defaultBackend[1].kind = "Service" ->
              translateIngressDefaultBackendService(sorted[1], route)
         [] OTHER -> translateIngressDefaultBackendResource(sorted[1], route, facades, facadesEnabled)

\* A service that cannot be rewritten is left out.
RewrittenServices(services, rewriteURIs) ==
    LET kept(rewritten) == [n \in {m \in DOMAIN rewritten : rewritten[m] # <<>>} |-> rewritten[n][1]]
    IN kept([n \in DOMAIN services |-> MaybeRewriteURI(services[n], rewriteURIs)])

\* A default backend joins the service of its name.
AddDefaultBackend(services, default) ==
    LET d == default[1] IN
    IF default = <<>> THEN services
    ELSE (d.name :> IF d.name \in DOMAIN services THEN [services[d.name] EXCEPT !.routes = @ \o d.routes] ELSE d)
           @@ services

\* Every Ingress is reported as translated.
ingressRulesFromIngressV1(ingresses, facades, flags, order) ==
    LET sorted == OldestFirst(ingresses)
        translated == Translate(IndexOf(sorted, facades, flags.facades), order,
                                flags.expressionRoutes, flags.legacy)
        rules(services) ==
            [services |-> services,
             parents |-> [n \in DOMAIN services |-> services[n].parent],
             snis |-> FoldLeft(LAMBDA acc, i : addFromIngressV1TLS(acc, i.tls, i), <<>>, sorted),
             reported |-> ingresses]
    IN rules(AddDefaultBackend(RewrittenServices(translated, flags.rewriteURIs),
                 getDefaultBackendService(ingresses, facades, flags.facades, flags.expressionRoutes)))
============================================================================
